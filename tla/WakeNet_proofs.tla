--------------------------- MODULE WakeNet_proofs ---------------------------
(***************************************************************************)
(* Proofs about WakeNet: the mailbox keeps the safety part of its promise, *)
(* jarvis_wake posts what it accepted before it exits, and --once means    *)
(* one.  They hold for any number of wake words and of spurious wakeups.   *)
(***************************************************************************)
EXTENDS WakeNet, TLAPS

USE WakeAssumption

MainLabels   == {"start", "listen", "lock", "put", "put_hi", "unlock",
                 "accepted", "stop", "join", "exited", "killed"}
WorkerLabels == {"none", "lock", "relock", "test", "wait", "take", "post",
                 "send", "recv", "exited", "killed"}
Halves       == [lo : 0 .. MaxWakes, hi : 0 .. MaxWakes]

(* Every variable keeps its type. *)
TypeOK ==
  /\ once \in BOOLEAN /\ no_net \in BOOLEAN /\ g_stop \in BOOLEAN
  /\ pc \in MainLabels /\ heard \in BOOLEAN /\ finishing \in BOOLEAN
  /\ wakes \in 0 .. MaxWakes
  /\ started \in BOOLEAN /\ mutex \in {"free", "main", "worker"}
  /\ pending \in BOOLEAN /\ stop \in BOOLEAN /\ event \in Halves
  /\ wpc \in WorkerLabels /\ copy \in Halves /\ spurious \in Nat
  /\ accepted \in Seq(Events) /\ taken \in Seq(Events)
  /\ posted \in Seq(Events)

-----------------------------------------------------------------------------
(* The inductive invariant *)

Submitting == {"lock", "put", "put_hi", "unlock", "accepted"}

(* Who holds the mutex is a matter of where the threads are.  When a       *)
(* broken pipe has ended the process the mutex stays as it was.            *)
MutexInv ==
  /\ pc # "killed" =>
       (mutex = "main" <=> pc \in {"put", "put_hi", "unlock", "stop"})
  /\ mutex = "worker" <=> wpc \in {"test", "take"}

(* An event waits in the mailbox, whole, exactly when one more was         *)
(* accepted than taken; the halves that the threads have copied are those  *)
(* of the event they copy.                                                 *)
BoxInv ==
  /\ IF pending THEN accepted = Append(taken, event) ELSE accepted = taken
  /\ pc = "put_hi" => ~pending /\ event.lo = wakes
  /\ wpc = "take" => pending /\ copy.lo = event.lo

(* The worker posts what it has taken before it takes anything else. *)
PostInv == taken = IF wpc = "post" THEN Append(posted, copy) ELSE posted

(* The worker exists while the main thread needs it, outlives the last     *)
(* event, and without a network there is neither.                          *)
LifeInv ==
  /\ pc = "start" => wpc = "none" /\ ~started
  /\ wpc = "none" => ~pending /\ accepted = <<>>
  /\ pc \notin {"start", "exited", "killed"} =>
       /\ started <=> ~no_net
       /\ wpc = "none" <=> no_net
       /\ wpc # "killed"
  /\ no_net => pc \notin {"lock", "put", "put_hi", "unlock", "stop", "join"}
  /\ stop => pc \in {"join", "exited", "killed"}
  /\ wpc = "exited" => stop /\ ~pending
  /\ pc = "exited" => wpc \in {"none", "exited"}

(* The first wake word finds the mailbox empty; and --once leaves no       *)
(* utterance behind from which a second could come.                        *)
OnceInv ==
  /\ pc \in Submitting => wakes > 0
  /\ wakes = 0 => accepted = <<>>
  /\ wakes = 1 /\ ~no_net /\ pc # "killed" =>
       accepted = IF pc \in {"lock", "put", "put_hi"} THEN <<>>
                                                      ELSE <<Whole(1)>>
  /\ once /\ wakes > 0 =>
       /\ wakes = 1
       /\ pc # "killed" => ~heard /\ (pc \notin Submitting => g_stop)

Inv == MutexInv /\ BoxInv /\ PostInv /\ LifeInv /\ OnceInv

(* Initially nothing is accepted and there is no worker. *)
LEMMA Initially == Init => TypeOK /\ Inv
<1> SUFFICES ASSUME Init PROVE TypeOK /\ Inv
  OBVIOUS
<1>1. TypeOK
  <2>1. once \in BOOLEAN /\ no_net \in BOOLEAN
    BY Zenon DEF Init
  <2>2. Blank \in Halves
    BY DEF Blank, Halves
  <2>3. /\ g_stop \in BOOLEAN /\ heard \in BOOLEAN /\ finishing \in BOOLEAN
        /\ started \in BOOLEAN /\ pending \in BOOLEAN /\ stop \in BOOLEAN
    BY Zenon DEF Init
  <2>4. wakes \in 0 .. MaxWakes /\ spurious \in Nat
    BY DEF Init
  <2>5. /\ accepted \in Seq(Events) /\ taken \in Seq(Events)
        /\ posted \in Seq(Events)
    BY DEF Init
  <2> QED BY <2>1, <2>2, <2>3, <2>4, <2>5
          DEF Init, TypeOK, MainLabels, WorkerLabels
<1>2. MutexInv /\ BoxInv /\ PostInv
  BY DEF Init, MutexInv, BoxInv, PostInv
<1>3. LifeInv /\ OnceInv
  BY DEF Init, LifeInv, OnceInv, Submitting
<1> QED BY <1>1, <1>2, <1>3 DEF Inv

(* The events are whole and have the type of the mailbox. *)
LEMMA EventTypes ==
  /\ Events \subseteq Halves
  /\ \A n \in 1 .. MaxWakes : Whole(n) \in Events
  /\ \A e \in Halves : e = [lo |-> e.lo, hi |-> e.hi]
BY DEF Events, Whole, Halves

-----------------------------------------------------------------------------
(* The main thread *)

(* The main thread's steps keep types and invariant.                       *)
LEMMA MainKeeps ==
  ASSUME TypeOK, Inv, MainStep
  PROVE  TypeOK' /\ Inv'
<1> USE DEF TypeOK, Inv, MutexInv, BoxInv, PostInv, LifeInv, OnceInv, Main,
            KeepMain, KeepWorker, mainVars, boxVars, workerVars, histVars,
            MainLabels, WorkerLabels, Submitting
<1>1. CASE StartWorker
  <2>1. pc = "start" /\ UNCHANGED <<once, no_net, g_stop, heard, finishing,
                                    wakes, mutex, pending, stop, event, copy,
                                    spurious, accepted, taken, posted>>
    BY <1>1 DEF StartWorker
  <2>2. \/ pc' = "listen" /\ no_net /\ wpc' = wpc /\ started' = started
        \/ pc' = "listen" /\ ~no_net /\ wpc' = "lock" /\ started' = TRUE
        \/ pc' = "exited" /\ wpc' = wpc /\ started' = started
    BY <1>1 DEF StartWorker
  <2>3. TypeOK' /\ MutexInv' /\ BoxInv' /\ PostInv'
    BY <2>1, <2>2
  <2>4. LifeInv'
    BY <2>1, <2>2
  <2>5. OnceInv'
    BY <2>1, <2>2
  <2> QED BY <2>3, <2>4, <2>5
<1>2. CASE Evaluate
  <2>1. /\ pc = "listen" /\ heard /\ (finishing \/ ~g_stop) /\ heard' = FALSE
        /\ UNCHANGED <<once, no_net, g_stop, finishing, boxVars, histVars,
                       started, workerVars>>
    BY <1>2 DEF Evaluate, MayEvaluate
  <2>2. CASE pc' = "listen" /\ wakes' = wakes
    BY <2>1, <2>2
  <2>3. CASE /\ wakes' = wakes + 1 /\ wakes < MaxWakes
             /\ pc' = IF no_net THEN "accepted" ELSE "lock"
    <3>1. TypeOK' /\ MutexInv' /\ BoxInv' /\ PostInv'
      <4>1. pc' \in {"accepted", "lock"} /\ wakes' \in 0 .. MaxWakes
        BY <2>3
      <4> QED BY <2>1, <4>1
    <3>3. LifeInv'
      BY <2>1, <2>3
    <3>2. OnceInv'
      <4>1. wakes = 0 => accepted = <<>>
        OBVIOUS
      <4>2. ~(once /\ wakes > 0)
        BY <2>1
      <4> QED BY <2>1, <2>3, <4>1, <4>2
    <3> QED BY <3>1, <3>2, <3>3
  <2> QED BY <1>2, <2>2, <2>3 DEF Evaluate
<1>3. CASE SubmitLock BY <1>3 DEF SubmitLock
<1>4. CASE Drop BY <1>4 DEF Drop, Room
<1>5. CASE PutHalf BY <1>5 DEF PutHalf, Room, Halves
<1>6. CASE Put
  <2>1. /\ pc = "put_hi" /\ pc' = "unlock" /\ pending' = TRUE
        /\ wpc' = (IF wpc = "wait" THEN "relock" ELSE wpc)
        /\ UNCHANGED <<once, no_net, g_stop, heard, finishing, wakes, started,
                       mutex, stop, copy, spurious, taken, posted>>
    BY <1>6 DEF Put, Signal
  <2>2. wakes \in 1 .. MaxWakes /\ event' = Whole(wakes)
    BY <1>6, <2>1, EventTypes DEF Put, Whole, Halves
  <2>3. accepted' = Append(taken, event') /\ event' \in Events
    BY <1>6, <2>1, <2>2, EventTypes DEF Put
  <2>4. event' \in Halves /\ accepted' \in Seq(Events)
    BY <2>3, EventTypes
  <2>5. wakes = 1 => accepted' = <<Whole(1)>>
    <3>1. ~no_net /\ pc # "killed" /\ ~pending
      BY <2>1
    <3>2. wakes = 1 => taken = <<>>
      BY <2>1, <3>1
    <3>3. Append(<<>>, Whole(1)) = <<Whole(1)>>
      OBVIOUS
    <3> QED BY <2>2, <2>3, <3>2, <3>3
  <2> QED BY <2>1, <2>2, <2>3, <2>4, <2>5
<1>7. CASE SubmitUnlock BY <1>7 DEF SubmitUnlock
<1>8. CASE AfterSubmit BY <1>8 DEF AfterSubmit
<1>9. CASE StopWorker BY <1>9 DEF StopWorker
<1>10. CASE SetStop BY <1>10 DEF SetStop, Signal
<1>11. CASE Join BY <1>11 DEF Join
<1> QED BY <1>1, <1>2, <1>3, <1>4, <1>5, <1>6, <1>7, <1>8, <1>9, <1>10,
           <1>11 DEF MainStep

-----------------------------------------------------------------------------
(* The worker thread *)

(* So do those of the worker, the broken pipe and the spurious wakeups.    *)
LEMMA WorkerKeeps ==
  ASSUME TypeOK, Inv, WorkerStep \/ Post \/ BrokenPipe \/ Spurious
  PROVE  TypeOK' /\ Inv'
<1> USE DEF TypeOK, Inv, MutexInv, BoxInv, PostInv, LifeInv, OnceInv, Worker,
            mainVars, boxVars, workerVars, histVars, MainLabels, WorkerLabels,
            Submitting
<1>1. CASE WorkerLock BY <1>1 DEF WorkerLock
<1>2. CASE Wait BY <1>2 DEF Wait
<1>3. CASE WorkerExit BY <1>3 DEF WorkerExit, MayExit
<1>4. CASE CopyHalf
  <2>1. copy' \in Halves /\ copy'.lo = event.lo
    BY <1>4 DEF CopyHalf, Halves
  <2> QED BY <1>4, <2>1 DEF CopyHalf
<1>5. CASE Take
  <2>1. /\ wpc = "take" /\ wpc' = "post" /\ pending /\ pending' = FALSE
        /\ mutex' = "free" /\ mutex = "worker"
        /\ UNCHANGED <<once, no_net, g_stop, mainVars, started, stop, event,
                       accepted, spurious, posted>>
    BY <1>5 DEF Take
  <2>2. copy' = event
    BY <1>5, <2>1, EventTypes DEF Take, Halves
  <2>3. taken' = accepted /\ taken' = Append(taken, event)
    BY <1>5, <2>1, <2>2 DEF Take
  <2>4. pc \notin {"put_hi", "start", "exited"} /\ posted = taken
    BY <2>1
  <2>5. TypeOK'
    BY <2>1, <2>2, <2>3
  <2>6. MutexInv' /\ PostInv'
    BY <2>1, <2>2, <2>3, <2>4
  <2>7. BoxInv'
    BY <2>1, <2>3, <2>4
  <2>8. LifeInv'
    BY <2>1, <2>4
  <2>9. OnceInv'
    BY <2>1
  <2> QED BY <2>5, <2>6, <2>7, <2>8, <2>9
<1>6. CASE Connect
  <2>1. posted' = taken
    BY <1>6 DEF Connect
  <2> QED BY <1>6, <2>1 DEF Connect
<1>7. CASE SendAndReceive BY <1>7 DEF SendAndReceive
<1>8. CASE BrokenPipe BY <1>8 DEF BrokenPipe
<1>9. CASE Spurious BY <1>9 DEF Spurious
<1> QED BY <1>1, <1>2, <1>3, <1>4, <1>5, <1>6, <1>7, <1>8, <1>9
        DEF WorkerStep, Post

-----------------------------------------------------------------------------
(* The inductive invariant holds *)

(* And the steps that touch neither the mailbox nor the worker.            *)
LEMMA Inductive ==
  ASSUME TypeOK, Inv, [Next]_vars
  PROVE  TypeOK' /\ Inv'
<1> USE DEF TypeOK, Inv, MutexInv, BoxInv, PostInv, LifeInv, OnceInv, vars,
            mainVars, boxVars, workerVars, histVars, MainLabels, WorkerLabels,
            Submitting
<1>1. CASE MainStep BY <1>1, MainKeeps
<1>2. CASE WorkerStep \/ Post \/ BrokenPipe \/ Spurious BY <1>2, WorkerKeeps
<1>3. CASE Hear BY <1>3 DEF Hear, LoopGoesOn, Main, KeepWorker
<1>4. CASE EndOfInput
  <2>1. heard' = heard \/ heard' = FALSE
    BY <1>4 DEF EndOfInput
  <2>2. /\ pc = "listen" /\ pc' = "listen" /\ finishing' = TRUE
        /\ UNCHANGED <<once, no_net, g_stop, wakes, boxVars, histVars,
                       started, workerVars>>
    BY <1>4 DEF EndOfInput, Main, KeepWorker
  <2>3. heard' \in BOOLEAN /\ (heard' => heard)
    <3>1. heard' => heard
      BY <2>1, Zenon
    <3>2. heard' \in BOOLEAN
      BY <2>1, Zenon DEF TypeOK
    <3> QED BY <3>1, <3>2
  <2>4. TypeOK' /\ MutexInv' /\ BoxInv' /\ PostInv'
    BY <2>2, <2>3
  <2>5. LifeInv'
    BY <2>2
  <2>6. OnceInv'
    BY <2>2, <2>3
  <2> QED BY <2>4, <2>5, <2>6
<1>5. CASE on_signal BY <1>5 DEF on_signal
<1>6. CASE UNCHANGED vars BY <1>6
<1> QED BY <1>1, <1>2, <1>3, <1>4, <1>5, <1>6 DEF Next, Poll, Done

(* The types and the invariant hold in every reachable state. *)
THEOREM InvariantHolds == Spec => [](TypeOK /\ Inv)
BY Initially, Inductive, PTL DEF Spec

-----------------------------------------------------------------------------
(* What follows from it *)

(* When jarvis_wake has exited, every accepted event has been posted: the  *)
(* worker drains the mailbox before it follows stop.                       *)
THEOREM NothingLost == Spec => []ExitDrains
<1>1. TypeOK /\ Inv => ExitDrains
  BY DEF TypeOK, Inv, BoxInv, PostInv, LifeInv, ExitDrains
<1> QED BY InvariantHolds, <1>1, PTL

(* With --once no second wake word is accepted, not even by                *)
(* detector_finish, and the first one is posted before the exit.           *)
THEOREM OnceMeansOnce == Spec => []OnceIsOnce
<1>1. TypeOK /\ Inv => OnceIsOnce
  BY DEF TypeOK, Inv, BoxInv, PostInv, LifeInv, OnceInv, OnceIsOnce,
         Submitting
<1> QED BY InvariantHolds, <1>1, PTL

(* Every step of the two threads is a step of the abstract mailbox, or     *)
(* none: events leave it whole and in order, none lost and none twice, and *)
(* at most one waits in it.                                                *)
THEOREM ImplementsMailbox == Spec => Box!Safe
<1>1. Init => Box!Init
  BY DEF Init, Box!Init
<1>2. ASSUME TypeOK, Inv, [Next]_vars
      PROVE  [Box!Next]_<<accepted, taken>>
  <2> USE DEF Box!Next, Box!Accept, Box!Take, Box!Waiting
  <2>1. CASE Put
    <3>1. accepted = taken /\ wakes \in 1 .. MaxWakes /\ taken' = taken
      BY <1>2, <2>1 DEF Put, Main, TypeOK, Inv, BoxInv, OnceInv, Submitting
    <3>2. accepted' = Append(accepted, Whole(wakes)) /\ Whole(wakes) \in Events
      BY <2>1, <3>1, EventTypes DEF Put
    <3>3. Len(accepted) - Len(taken) = 0
      BY <1>2, <3>1 DEF TypeOK
    <3> QED BY <3>1, <3>2, <3>3
  <2>2. CASE Take
    <3>1. accepted = Append(taken, event) /\ accepted' = accepted
      BY <1>2, <2>2 DEF Take, Worker, TypeOK, Inv, BoxInv
    <3>2. copy' = event
      BY <1>2, <2>2, EventTypes
         DEF Take, Worker, TypeOK, Inv, BoxInv, Halves
    <3>3. taken' = accepted
      BY <2>2, <3>1, <3>2 DEF Take
    <3>4. Len(accepted) - Len(taken) = 1
      BY <1>2, <3>1 DEF TypeOK
    <3> QED BY <3>1, <3>3, <3>4
  <2>3. CASE ~Put /\ ~Take
    BY <1>2, <2>3 DEF Next, MainStep, StartWorker, Evaluate, SubmitLock, Drop,
       PutHalf, SubmitUnlock, AfterSubmit, StopWorker, SetStop, Join, Poll,
       Hear, EndOfInput, on_signal, WorkerStep, WorkerLock, Wait, WorkerExit,
       CopyHalf, Post, Connect, SendAndReceive, BrokenPipe, Spurious, Done,
       Worker, vars, histVars
  <2> QED BY <2>1, <2>2, <2>3
<1> QED BY InvariantHolds, <1>1, <1>2, PTL DEF Spec, Box!Safe
=============================================================================
