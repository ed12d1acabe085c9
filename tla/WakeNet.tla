------------------------------ MODULE WakeNet ------------------------------
(***************************************************************************)
(* The two threads of jarvis_wake.  The main thread listens, submits an    *)
(* event for every wake word it accepts, and in the end stops the worker;  *)
(* the worker takes events out of the one-slot mailbox g_net and posts     *)
(* them to the speech server, which may take up to the socket timeouts,    *)
(* and which may end the process: SIGPIPE is not ignored.                  *)
(* The event is copied one half at a time: only the mutex keeps it whole.  *)
(***************************************************************************)
EXTENDS Naturals, Sequences

CONSTANTS
  MaxWakes,    \* bound: wake words accepted in a run
  MaxSpurious  \* bound: spurious wakeups of pthread_cond_wait

ASSUME WakeAssumption == MaxWakes \in Nat /\ MaxSpurious \in Nat

VARIABLES
  \* command line and signals
  once, no_net, g_stop,
  \* main thread
  pc,        \* where it is
  heard,     \* an utterance is being recorded
  finishing, \* in detector_finish: the loop over the input is over
  wakes,     \* wake words accepted so far; the last one is being submitted
  \* g_net
  started, mutex, pending, stop, event,
  \* worker thread
  wpc,
  copy,      \* its local event
  spurious,
  \* history
  accepted,  \* events put into the mailbox
  taken,     \* events taken out of it
  posted     \* events post_wake_event was called for

mainVars   == <<pc, heard, finishing, wakes>>
boxVars    == <<mutex, pending, stop, event>>
workerVars == <<wpc, copy, spurious>>
histVars   == <<accepted, taken, posted>>
vars == <<once, no_net, g_stop, started, mainVars, boxVars, workerVars,
          histVars>>

(* An event is its two halves; both are the number of the wake word. *)
Blank == [lo |-> 0, hi |-> 0]
Whole(n) == [lo |-> n, hi |-> n]
Events == {Whole(n) : n \in 1 .. MaxWakes}

Init ==
  /\ once \in BOOLEAN /\ no_net \in BOOLEAN /\ g_stop = FALSE
  /\ pc = "start" /\ heard = FALSE /\ finishing = FALSE /\ wakes = 0
  /\ started = FALSE /\ mutex = "free" /\ pending = FALSE /\ stop = FALSE
  /\ event = Blank /\ wpc = "none" /\ copy = Blank /\ spurious = 0
  /\ accepted = <<>> /\ taken = <<>> /\ posted = <<>>

Gone == pc \in {"exited", "killed"}

-----------------------------------------------------------------------------
(* The main thread *)

Main(from, to) == pc = from /\ pc' = to

KeepMain   == UNCHANGED <<once, no_net, heard, finishing, wakes>>
KeepWorker == UNCHANGED <<started, workerVars>>

(* net_worker_start; pthread_create may fail, and then main returns 1. *)
StartWorker ==
  /\ \/ no_net /\ Main("start", "listen") /\ UNCHANGED <<started, wpc>>
     \/ ~no_net /\ Main("start", "listen") /\ started' = TRUE /\ wpc' = "lock"
     \/ ~no_net /\ Main("start", "exited") /\ UNCHANGED <<started, wpc>>
  /\ KeepMain /\ UNCHANGED <<g_stop, boxVars, copy, spurious, histVars>>

LoopForever == pc = "listen" /\ ~finishing \* mutant: g_stop is not tested

(* The loop over the input: while (!g_stop). *)
LoopGoesOn == pc = "listen" /\ ~finishing /\ ~g_stop

(* Audio that changes nothing, or no new audio: the next round. *)
Poll == LoopGoesOn /\ UNCHANGED vars

(* The detector starts to record. *)
Hear ==
  /\ LoopGoesOn /\ Main("listen", "listen") /\ ~heard
  /\ heard' = TRUE
  /\ UNCHANGED <<once, no_net, g_stop, finishing, wakes, boxVars, histVars>>
  /\ KeepWorker

(* End of the utterance: the score decides.  Samples are processed only    *)
(* while g_stop is not set, except for the last utterance, which           *)
(* detector_finish evaluates whatever g_stop is.                           *)
MayEvaluateStopped == pc = "listen" \* mutant: neither g_stop nor active tested

MayEvaluate == pc = "listen" /\ heard /\ (finishing \/ ~g_stop)

Evaluate ==
  /\ MayEvaluate
  /\ heard' = FALSE
  /\ \/ pc' = "listen" /\ UNCHANGED wakes
     \/ /\ wakes < MaxWakes /\ wakes' = wakes + 1
        /\ pc' = IF no_net THEN "accepted" ELSE "lock"
  /\ UNCHANGED <<once, no_net, g_stop, finishing, boxVars, histVars>>
  /\ KeepWorker

(* End of the input, or g_stop: detector_finish.  When stdin fails, or the *)
(* ring cannot be opened, an utterance under way is not looked at again.   *)
EndOfInput ==
  /\ Main("listen", "listen") /\ ~finishing
  /\ finishing' = TRUE
  /\ heard' \in {heard, FALSE}
  /\ UNCHANGED <<once, no_net, g_stop, wakes, boxVars, histVars>>
  /\ KeepWorker

SubmitLock ==
  /\ Main("lock", "put") /\ mutex = "free"
  /\ mutex' = "main"
  /\ UNCHANGED <<g_stop, pending, stop, event, histVars>>
  /\ KeepMain /\ KeepWorker

Room == ~pending

(* mutant: instead of being dropped, the event is tried again *)
TryAgain ==
  /\ ~Room
  /\ Main("put", "lock")
  /\ mutex' = "free"
  /\ UNCHANGED <<g_stop, pending, stop, event, histVars>>
  /\ KeepMain /\ KeepWorker

(* "wake dropped: previous network event still pending" *)
Drop ==
  /\ ~Room
  /\ Main("put", "unlock")
  /\ UNCHANGED <<g_stop, boxVars, histVars>> /\ KeepMain /\ KeepWorker

PutHalf ==
  /\ Room
  /\ Main("put", "put_hi")
  /\ event' = [event EXCEPT !.lo = wakes]
  /\ UNCHANGED <<g_stop, mutex, pending, stop, histVars>>
  /\ KeepMain /\ KeepWorker

(* pthread_cond_signal wakes a worker that waits; otherwise nothing stays. *)
Signal == wpc' = IF wpc = "wait" THEN "relock" ELSE wpc

(* mutant: the worker is not woken *)
PutQuietly ==
  /\ Main("put_hi", "unlock")
  /\ event' = [event EXCEPT !.hi = wakes]
  /\ pending' = TRUE
  /\ accepted' = Append(accepted, Whole(wakes))
  /\ UNCHANGED <<g_stop, started, mutex, stop, workerVars, taken, posted>>
  /\ KeepMain

Put ==
  /\ Main("put_hi", "unlock")
  /\ event' = [event EXCEPT !.hi = wakes]
  /\ pending' = TRUE
  /\ Signal
  /\ accepted' = Append(accepted, Whole(wakes))
  /\ UNCHANGED <<g_stop, started, mutex, stop, copy, spurious, taken, posted>>
  /\ KeepMain

SubmitUnlock ==
  /\ Main("unlock", "accepted")
  /\ mutex' = "free"
  /\ UNCHANGED <<g_stop, pending, stop, event, histVars>>
  /\ KeepMain /\ KeepWorker

(* Back in evaluate_utterance: --once stops the loop. *)
AfterSubmit ==
  /\ Main("accepted", "listen")
  /\ g_stop' = (g_stop \/ once)
  /\ UNCHANGED <<boxVars, histVars>> /\ KeepMain /\ KeepWorker

(* net_worker_stop *)
StopWorker ==
  /\ pc = "listen" /\ finishing /\ ~heard
  /\ \/ ~started /\ pc' = "exited" /\ UNCHANGED mutex
     \/ started /\ mutex = "free" /\ mutex' = "main" /\ pc' = "stop"
  /\ UNCHANGED <<g_stop, pending, stop, event, histVars>>
  /\ KeepMain /\ KeepWorker

SetStop ==
  /\ Main("stop", "join")
  /\ stop' = TRUE /\ mutex' = "free"
  /\ Signal
  /\ UNCHANGED <<g_stop, started, pending, event, copy, spurious, histVars>>
  /\ KeepMain

Join ==
  /\ Main("join", "exited") /\ wpc = "exited"
  /\ started' = FALSE
  /\ UNCHANGED <<g_stop, boxVars, workerVars, histVars>> /\ KeepMain

(* SIGINT or SIGTERM: on_signal. *)
on_signal ==
  /\ ~g_stop /\ ~Gone
  /\ g_stop' = TRUE
  /\ UNCHANGED <<once, no_net, mainVars, started, boxVars, workerVars,
                 histVars>>

MainStep == StartWorker \/ Evaluate \/ SubmitLock \/ Drop \/ PutHalf \/ Put
            \/ SubmitUnlock \/ AfterSubmit \/ StopWorker \/ SetStop \/ Join

-----------------------------------------------------------------------------
(* The worker thread *)

Worker(from, to) ==
  /\ wpc = from /\ wpc' = to
  /\ UNCHANGED <<once, no_net, g_stop, mainVars, started, stop, event,
                 accepted>>

WorkerLock ==
  /\ mutex = "free" /\ mutex' = "worker"
  /\ Worker("lock", "test") \/ Worker("relock", "test")
  /\ UNCHANGED <<pending, copy, spurious, taken, posted>>

(* pthread_cond_wait lets the mutex go and sleeps, in one step. *)
Wait ==
  /\ ~pending /\ ~stop
  /\ Worker("test", "wait")
  /\ mutex' = "free"
  /\ UNCHANGED <<pending, copy, spurious, taken, posted>>

Spurious ==
  /\ spurious < MaxSpurious
  /\ Worker("wait", "relock")
  /\ spurious' = spurious + 1
  /\ UNCHANGED <<mutex, pending, copy, taken, posted>>

MayExitPending == stop \* mutant: a pending event does not hold the worker up

MayExit == ~pending /\ stop

WorkerExit ==
  /\ MayExit
  /\ Worker("test", "exited")
  /\ mutex' = "free"
  /\ UNCHANGED <<pending, copy, spurious, taken, posted>>

(* event = worker->event *)
CopyHalf ==
  /\ pending
  /\ Worker("test", "take")
  /\ copy' = [copy EXCEPT !.lo = event.lo]
  /\ UNCHANGED <<mutex, pending, spurious, taken, posted>>

Take ==
  /\ Worker("take", "post")
  /\ copy' = [copy EXCEPT !.hi = event.hi]
  /\ pending' = FALSE
  /\ mutex' = "free"
  /\ taken' = Append(taken, copy')
  /\ UNCHANGED <<spurious, posted>>

(* post_wake_event: the request does not fit, or there is no socket, or    *)
(* nobody there; or it is connected.                                       *)
Connect ==
  /\ Worker("post", "lock") \/ Worker("post", "send")
  /\ posted' = Append(posted, copy)
  /\ UNCHANGED <<mutex, pending, copy, spurious, taken>>

(* send_all, and one recv, of which the result is of no consequence. *)
SendAndReceive ==
  /\ \/ Worker("send", "recv") \/ Worker("send", "lock")
     \/ Worker("recv", "lock")
  /\ UNCHANGED <<mutex, pending, copy, spurious, taken, posted>>

Post == Connect \/ SendAndReceive

(* The server has closed and then reset the connection when send is        *)
(* called: without MSG_NOSIGNAL that is SIGPIPE, for the process.          *)
BrokenPipe ==
  /\ wpc = "send" /\ wpc' = "killed" /\ pc' = "killed"
  /\ UNCHANGED <<once, no_net, g_stop, heard, finishing, wakes, started,
                 boxVars, copy, spurious, histVars>>

WorkerStep == WorkerLock \/ Wait \/ WorkerExit \/ CopyHalf \/ Take

-----------------------------------------------------------------------------
Done == Gone /\ UNCHANGED vars

Next == MainStep \/ Poll \/ Hear \/ EndOfInput \/ on_signal
        \/ WorkerStep \/ Post \/ BrokenPipe \/ Spurious \/ Done

Spec == Init /\ [][Next]_vars

(* The scheduler runs both threads; a freed mutex is taken by a thread     *)
(* that waits for it.  Nothing is said of the speech server.               *)
FairSpec == Spec /\ WF_vars(MainStep) /\ WF_vars(WorkerStep)

(* The input loop gets round to its test of g_stop (the ring is polled     *)
(* every 20 ms; a read of stdin must return), and every call on the socket *)
(* returns: SO_SNDTIMEO and SO_RCVTIMEO bound connect, send and recv to    *)
(* two seconds.                                                            *)
CallsReturn == WF_vars(Post) /\ WF_vars(~LoopGoesOn /\ EndOfInput)

NeverKilled == [](pc # "killed")

-----------------------------------------------------------------------------
(* Properties *)

(* The mailbox keeps its promise, whatever the wakeups: in order, whole,   *)
(* none lost and none twice; and no event is left waiting in it, as long   *)
(* as calls return and no broken pipe ends the process.                    *)
Box == INSTANCE Mailbox WITH Event <- Events
KeepsPromise == Box!Safe /\ (CallsReturn /\ NeverKilled => Box!Live)

(* When jarvis_wake has exited, every accepted event has been posted: the  *)
(* worker drains the mailbox before it follows stop.                       *)
ExitDrains == pc = "exited" => posted = accepted

(* --once: "exit after first accepted wake".  There is no second one, not  *)
(* even from detector_finish, and the first is not dropped.                *)
OnceIsOnce ==
  /\ once => wakes <= 1
  /\ pc = "exited" /\ once /\ wakes = 1 /\ ~no_net
       => posted = <<Whole(1)>>

(* "the audio loop must never block on connect() or send()": submitting is *)
(* over in the end even when the speech server never answers.              *)
AudioGoesOn == (pc = "lock") ~> (pc \in {"listen", "killed"})

(* After a signal the process exits, worker and all, as long as calls      *)
(* return.                                                                 *)
Exits == CallsReturn => (g_stop ~> Gone)
=============================================================================
