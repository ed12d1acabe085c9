--------------------------- MODULE RtspKick_proofs ---------------------------
(***************************************************************************)
(* Proofs about RtspKick, for any number of rtsp_kick processes, any       *)
(* command lines and any bounds: types, the callback chain, remote calls   *)
(* that are taken back, and what an exit status means.                     *)
(***************************************************************************)
EXTENDS RtspKick, TLAPS

USE KickAssumption

-----------------------------------------------------------------------------
(* Types *)

(* The jobs main() chooses name a label and a remote call. *)
LEMMA JobTypes ==
  ASSUME NEW c, NEW g
  PROVE  /\ AfterStart(c) \in Labels \X Stages
         /\ Work(c, g) \in Labels \X Stages
         /\ FirstJob(c, g) \in Labels \X Stages
BY DEF AfterStart, Work, Start, FirstJob, Labels, Stages

(* So does what a returning remote call leads to. *)
LEMMA AfterCallType ==
  ASSUME NEW c, NEW s \in Stages, NEW returned, NEW good
  PROVE  /\ AfterCall(c, s, returned, good) \in (Labels \cup {"failed"}) \X Stages
BY JobTypes DEF AfterCall, Labels, Stages

(* Every remote call runs one of the functions. *)
LEMMA CalleeType ==
  ASSUME NEW c \in AcceptedConfigs, NEW s
  PROVE  Callee(c, s) \in Functions
BY DEF Callee, Functions, AcceptedConfigs

(* The initial states have the right types. *)
LEMMA InitTypes == Init => TypeOK
<1> SUFFICES ASSUME Init PROVE TypeOK
  OBVIOUS
<1>1. TargetTypeOK
  <2>1. slots \in [Channels -> Callback]
    BY DEF Init, Callback, Null, Wrapper, Channels
  <2>2. guard \in BOOLEAN /\ ports \in BOOLEAN
    BY Zenon DEF Init
  <2>3. ctx \in Context
    BY DEF Init, Context, Own
  <2> QED BY <2>1, <2>2, <2>3 DEF Init, TargetTypeOK
<1>2. KickTypeOK
  BY DEF Init, KickTypeOK, Context, Own, Callback, Null, Channels, Labels, Stages
<1> QED BY <1>1, <1>2 DEF TypeOK

(* The environment's steps keep the types. *)
LEMMA TargetTypes == TypeOK /\ Target => TypeOK'
<1> SUFFICES ASSUME TypeOK, Target PROVE TypeOK'
  OBVIOUS
<1> USE DEF TypeOK, TargetTypeOK, KickTypeOK, kickVars
<1>1. CASE SignalArrives BY <1>1 DEF SignalArrives
<1>2. CASE DeliverSignal
  <2>1. PICK s \in pending : DeliverSignal!(s)
    BY <1>2 DEF DeliverSignal
  <2>2. groupStop' \in BOOLEAN
    BY <2>1, Zenon
  <2> QED BY <2>1, <2>2
<1>3. CASE CalleeRuns
  <2>1. heapBusy' \in BOOLEAN /\ guard' \in BOOLEAN
    BY <1>3, Zenon DEF CalleeRuns
  <2>2. ctx' \in Context /\ starts' \in Nat
    <3>1. ctx' \in Context BY <1>3 DEF CalleeRuns, Context
    <3>2. starts' = starts + 1 \/ starts' = starts BY <1>3, Zenon DEF CalleeRuns
    <3> QED BY <3>1, <3>2
  <2>3. UNCHANGED <<thread, tracer, stopSig, pending, groupStop, r0, word,
                    ports, slots, kickVars, nsig, nkill>>
    BY <1>3 DEF CalleeRuns
  <2>4. worker' \in [Kicks -> {"none", "made", "runs", "ended"}]
    BY <1>3 DEF CalleeRuns
  <2> QED BY <2>1, <2>2, <2>3, <2>4
<1>4. CASE CalleeReturns
  <2>1. ctx' \in Context BY <1>4 DEF CalleeReturns, Context
  <2>2. r0' \in BOOLEAN BY <1>4 DEF CalleeReturns
  <2>3. heapBusy' \in BOOLEAN /\ ports' \in BOOLEAN BY <1>4, Zenon DEF CalleeReturns
  <2> QED BY <1>4, <2>1, <2>2, <2>3 DEF CalleeReturns
<1>5. CASE Fault BY <1>5 DEF Fault
<1>6. CASE RegisterCallback
  BY <1>6 DEF RegisterCallback, Callback, Wrapper, Channels
<1>7. CASE TargetDies BY <1>7 DEF TargetDies
<1>8. ASSUME NEW k \in Kicks, ThreadRuns(k) PROVE TypeOK'
  <2>1. guard' \in BOOLEAN BY <1>8, Zenon DEF ThreadRuns
  <2>2. starts' \in Nat
    <3>1. starts' = starts + 1 \/ starts' = starts BY <1>8, Zenon DEF ThreadRuns
    <3> QED BY <3>1
  <2> QED BY <1>8, <2>1, <2>2 DEF ThreadRuns
<1>9. ASSUME NEW k \in Kicks, ThreadReturns(k) PROVE TypeOK'
  <2>1. ports' \in BOOLEAN BY <1>9, Zenon DEF ThreadReturns
  <2> QED BY <1>9, <2>1 DEF ThreadReturns
<1> QED BY <1>1, <1>2, <1>3, <1>4, <1>5, <1>6, <1>7, <1>8, <1>9 DEF Target

(* And so do those of rtsp_kick. *)
LEMMA KickTypes ==
  ASSUME TypeOK, NEW k \in Kicks, Kick(k) \/ AlarmTooEarly(k) \/ Killed(k)
  PROVE  TypeOK'
<1> USE DEF TypeOK, TargetTypeOK, KickTypeOK, targetVars, Goto, Finish, Do,
            Call, Release
<1>1. CASE AttachFails(k) BY <1>1 DEF AttachFails, Labels
<1>2. CASE Attach(k) BY <1>2 DEF Attach, Labels
<1>3. CASE AlarmTooEarly(k) BY <1>3 DEF AlarmTooEarly
<1>4. CASE EnterWait(k) BY <1>4 DEF EnterWait, Labels
<1>5. CASE AttachStops(k) BY <1>5 DEF AttachStops, Labels
<1>6. CASE AttachWaitFails(k) BY <1>6 DEF AttachWaitFails, Labels
<1>7. CASE CallStops(k)
  <2>1. (Held(k) /\ AtTrap) \in BOOLEAN BY DEF Held, AtTrap
  <2> QED BY <1>7, <2>1 DEF CallStops, Labels
<1>8. CASE CallTimesOut(k) BY <1>8 DEF CallTimesOut, Labels
<1>9. CASE PeekWords(k) BY <1>9 DEF PeekWords, Labels
<1>10. CASE PeekGuard(k)
  <2>1. gval' \in [Kicks -> BOOLEAN] /\ raced' \subseteq Kicks
    BY <1>10 DEF PeekGuard
  <2>2. FirstJob(cfg[k], guard) \in Labels \X Stages BY JobTypes
  <2>3. CASE Refused(cfg[k], guard)
    <3>1. Finish(k, 3) /\ UNCHANGED stage BY <1>10, <2>3 DEF PeekGuard
    <3>2. UNCHANGED <<targetVars, cfg, saved, savedWord, ok, orig, written,
                      timer, late, found, nsig, nkill>>
      BY <1>10 DEF PeekGuard
    <3> QED BY <2>1, <3>1, <3>2 DEF Labels
  <2>4. CASE ~Refused(cfg[k], guard)
    <3>1. Do(k, FirstJob(cfg[k], guard)) /\ UNCHANGED status
      BY <1>10, <2>4 DEF PeekGuard
    <3>2. pc' \in [Kicks -> Labels] /\ stage' \in [Kicks -> Stages]
      BY <2>2, <3>1
    <3> QED BY <1>10, <2>1, <3>1, <3>2 DEF PeekGuard
  <2> QED BY <2>3, <2>4
<1>11. CASE SaveRegs(k)
  <2>1. saved' \in [Kicks -> Context] /\ word' \in {"own", "arg"}
        /\ savedWord' \in [Kicks -> {"own", "arg"}]
    BY <1>11 DEF SaveRegs
  <2>2. pc' \in [Kicks -> Labels] BY <1>11 DEF SaveRegs, Labels
  <2>3. UNCHANGED <<thread, tracer, stopSig, pending, groupStop, ctx, r0,
                    heapBusy, guard, ports, starts, worker, slots, cfg, stage,
                    ok, gval, orig, written, timer, status, late, found, raced,
                    nsig, nkill>>
    BY <1>11 DEF SaveRegs
  <2> QED BY <2>1, <2>2, <2>3
<1>12. CASE Resume(k)
  <2>1. Callee(cfg[k], stage[k]) \in Functions BY CalleeType
  <2> QED BY <1>12, <2>1 DEF Resume, Labels, Context
<1>13. CASE ResumeFails(k) BY <1>13 DEF ResumeFails, Labels
<1>14. CASE RestoreWords(k)
  <2>1. ok' \in [Kicks -> BOOLEAN] BY <1>14 DEF RestoreWords
  <2> QED BY <1>14, <2>1 DEF RestoreWords, Labels
<1>15. CASE RestoreRegs(k)
  <2> DEFINE job == AfterCall(cfg[k], stage[k], ok[k] /\ Held(k), r0)
  <2>1. job \in (Labels \cup {"failed"}) \X Stages BY AfterCallType
  <2>2. ctx' \in Context BY <1>15 DEF RestoreRegs, RegsToRestore
  <2>3. CASE job[1] = "failed"
    <3>1. Finish(k, 1) /\ UNCHANGED stage BY <1>15, <2>3 DEF RestoreRegs
    <3> QED BY <1>15, <2>2, <3>1 DEF RestoreRegs, Labels
  <2>4. CASE job[1] # "failed"
    <3>1. Do(k, job) /\ UNCHANGED status BY <1>15, <2>4 DEF RestoreRegs
    <3>2. pc' \in [Kicks -> Labels] /\ stage' \in [Kicks -> Stages]
      <4> HIDE DEF job
      <4> QED BY <2>1, <2>4, <3>1
    <3> QED BY <1>15, <2>2, <3>1, <3>2 DEF RestoreRegs
  <2> QED BY <2>3, <2>4
<1>16. CASE PokeString(k)
  <2>1. Work(cfg[k], gval[k]) \in Labels \X Stages BY JobTypes
  <2> QED BY <1>16, <2>1 DEF PokeString
<1>17. CASE PokeThreadStub(k) BY <1>17 DEF PokeThreadStub, Labels, Stages
<1>18. CASE PeekThreadId(k) BY <1>18 DEF PeekThreadId, Labels
<1>19. CASE PeekSlots(k)
  <2>1. pc' \in [Kicks -> Labels] /\ stage' \in [Kicks -> Stages]
    BY <1>19 DEF PeekSlots, Labels, Stages
  <2>2. status' \in [Kicks -> {0, 1, 3, KilledStatus}]
    BY <1>19 DEF PeekSlots
  <2>3. orig' \in [Kicks -> [Channels -> Callback]]
    BY <1>19 DEF PeekSlots
  <2> QED BY <1>19, <2>1, <2>2, <2>3 DEF PeekSlots
<1>20. CASE PokeChainStubs(k) BY <1>20 DEF PokeChainStubs, Labels, Stages
<1>21. CASE PokeSlot0(k)
  BY <1>21 DEF PokeSlot0, PokeSlot, Stub, Callback, Channels, Labels
<1>22. CASE PokeSlot1(k)
  BY <1>22 DEF PokeSlot1, PokeSlot, Stub, Callback, Channels, Labels
<1>23. CASE RequestFails(k)
  <2> DEFINE job == AfterCall(cfg[k], stage[k], FALSE, FALSE)
  <2>1. CASE pc[k] = "call" /\ stage[k] \in {"tflush", "vflush"}
    <3>1. job \in Labels \X Stages BY <2>1 DEF AfterCall, Labels, Stages
    <3>2. Do(k, job) /\ UNCHANGED status BY <1>23, <2>1 DEF RequestFails
    <3>3. pc' \in [Kicks -> Labels] /\ stage' \in [Kicks -> Stages]
      <4> HIDE DEF job
      <4> QED BY <3>1, <3>2
    <3>4. UNCHANGED <<targetVars, cfg, saved, savedWord, ok, gval, orig,
                      written, timer, status, late, found, raced, nsig, nkill>>
      BY <1>23, <3>2 DEF RequestFails
    <3> QED BY <3>3, <3>4
  <2>2. CASE ~(pc[k] = "call" /\ stage[k] \in {"tflush", "vflush"})
    <3>1. Finish(k, 1) /\ UNCHANGED stage BY <1>23, <2>2 DEF RequestFails
    <3> QED BY <1>23, <3>1 DEF RequestFails, Labels
  <2> QED BY <2>1, <2>2
<1>24. CASE Cleanup(k) BY <1>24 DEF Cleanup, Labels
<1>25. CASE Killed(k) BY <1>25 DEF Killed, Labels
<1> QED BY <1>1, <1>2, <1>3, <1>4, <1>5, <1>6, <1>7, <1>8, <1>9, <1>10,
           <1>11, <1>12, <1>13, <1>14, <1>15, <1>16, <1>17, <1>18, <1>19,
           <1>20, <1>21, <1>22, <1>23, <1>24, <1>25 DEF Kick

(* Type correctness. *)
THEOREM TypeCorrect == Spec => []TypeOK
<1>1. Init => TypeOK BY InitTypes
<1>2. TypeOK /\ [Next]_vars => TypeOK'
  <2> SUFFICES ASSUME TypeOK, [Next]_vars PROVE TypeOK'
    OBVIOUS
  <2>1. CASE Target BY <2>1, TargetTypes
  <2>2. CASE \E k \in Kicks : Kick(k) \/ AlarmTooEarly(k) \/ Killed(k)
    BY <2>2, KickTypes
  <2>3. CASE UNCHANGED vars
    BY <2>3 DEF vars, targetVars, kickVars, TypeOK, TargetTypeOK, KickTypeOK
  <2> QED BY <2>1, <2>2, <2>3 DEF Next
<1> QED BY <1>1, <1>2, PTL DEF Spec

-----------------------------------------------------------------------------
(* The callback chain *)

(* The jobs chosen before any remote call has returned. *)
LEMMA EarlyJobs ==
  ASSUME NEW c, NEW g
  PROVE  /\ AfterStart(c) \in {<<"slots", "start">>, <<"cleanup", "start">>}
         /\ Work(c, g) \in {<<"call", "tmalloc">>, <<"call", "start">>,
                            <<"slots", "start">>, <<"cleanup", "start">>}
         /\ FirstJob(c, g) \in {<<"call", "string">>, <<"call", "tmalloc">>,
                                <<"call", "start">>, <<"slots", "start">>,
                                <<"cleanup", "start">>}
BY DEF AfterStart, Work, Start, FirstJob

(* A step of one kick leaves the others where they are. *)
LEMMA Others ==
  ASSUME TypeOK, NEW k \in Kicks, Kick(k) \/ AlarmTooEarly(k) \/ Killed(k),
         NEW j \in Kicks, j # k
  PROVE  /\ pc'[j] = pc[j] /\ stage'[j] = stage[j] /\ orig'[j] = orig[j]
         /\ saved'[j] = saved[j] /\ savedWord'[j] = savedWord[j]
<1> USE DEF TypeOK, KickTypeOK, Goto, Finish, Do, Call
<1>1. CASE AttachFails(k) \/ Attach(k) \/ AlarmTooEarly(k) \/ EnterWait(k)
           \/ AttachStops(k) \/ AttachWaitFails(k) \/ CallStops(k)
           \/ CallTimesOut(k) \/ PeekWords(k)
  BY <1>1 DEF AttachFails, Attach, AlarmTooEarly, EnterWait, AttachStops,
              AttachWaitFails, CallStops, CallTimesOut, PeekWords
<1>2. CASE PeekGuard(k) BY <1>2 DEF PeekGuard
<1>3. CASE SaveRegs(k) \/ Resume(k) \/ ResumeFails(k) \/ RestoreWords(k)
  BY <1>3 DEF SaveRegs, Resume, ResumeFails, RestoreWords
<1>4. CASE RestoreRegs(k) BY <1>4 DEF RestoreRegs
<1>5. CASE PokeString(k) \/ PokeThreadStub(k) \/ PeekThreadId(k)
           \/ PokeChainStubs(k) \/ PokeSlot0(k) \/ PokeSlot1(k)
  BY <1>5 DEF PokeString, PokeThreadStub, PeekThreadId, PokeChainStubs,
              PokeSlot0, PokeSlot1, PokeSlot
<1>6. CASE PeekSlots(k) BY <1>6 DEF PeekSlots
<1>7. CASE RequestFails(k) BY <1>7 DEF RequestFails
<1>8. CASE Cleanup(k) \/ Killed(k) BY <1>8 DEF Cleanup, Killed
<1> QED BY <1>1, <1>2, <1>3, <1>4, <1>5, <1>6, <1>7, <1>8 DEF Kick

(* How a step of a kick moves through the program: the part of each action *)
(* that the invariants of the chain depend on.                             *)
Moves(k) ==
  \/ pc[k] = "attach" /\ pc'[k] = "done" /\ stage'[k] = stage[k]
       /\ tracer' = tracer
  \/ pc[k] = "attach" /\ pc'[k] = "arm" /\ stage'[k] = stage[k]
       /\ tracer = NoKick /\ tracer' = k
  \/ pc[k] \in AttachedLabels /\ pc'[k] = "done" /\ stage'[k] = stage[k]
       /\ tracer' = IF tracer = k THEN NoKick ELSE tracer
  \/ tracer' = tracer /\ pc[k] \in AttachedLabels
       /\ \/ pc'[k] \in {"cleanup", pc[k]} /\ stage'[k] = stage[k]
          \/ pc[k] = "arm" /\ pc'[k] = "wait" /\ stage'[k] = stage[k]
          \/ pc[k] = "wait" /\ stage[k] = "attach" /\ stage'[k] = stage[k]
               /\ pc'[k] \in {"peek", "guard"}
          \/ pc[k] = "wait" /\ stage[k] # "attach" /\ stage'[k] = stage[k]
               /\ pc'[k] = "words"
          \/ pc[k] = "call" /\ pc'[k] = "resume" /\ stage'[k] = stage[k]
          \/ pc[k] = "resume" /\ pc'[k] \in {"arm", "words"}
               /\ stage'[k] = stage[k]
          \/ pc[k] = "words" /\ pc'[k] = "regs" /\ stage'[k] = stage[k]
          \/ pc[k] \in {"guard", "argbytes", "regs"} /\ ~Installing(k)
               /\ <<pc'[k], stage'[k]>> \in
                    {<<"call", "string">>, <<"call", "tmalloc">>,
                     <<"call", "start">>, <<"slots", "start">>,
                     <<"cleanup", "start">>}
          \/ pc[k] \in {"regs", "call"} /\ ~Installing(k)
               /\ pc'[k] = "call" /\ stage'[k] = "create"
          \/ pc[k] = "regs" /\ stage'[k] = stage[k]
               /\ \/ stage[k] = "string" /\ pc'[k] = "argbytes"
                  \/ stage[k] = "tmalloc" /\ pc'[k] = "thread_stub"
                  \/ stage[k] = "create" /\ pc'[k] = "tid_slot"
                  \/ stage[k] = "vmalloc" /\ pc'[k] = "chain_stub"
          \/ pc[k] \in {"regs", "call"} /\ stage[k] = "vflush"
               /\ stage'[k] = stage[k] /\ pc'[k] = "slot0"
          \/ pc[k] = "thread_stub" /\ pc'[k] = "call" /\ stage'[k] = "tflush"
          \/ pc[k] = "slots" /\ SlotsMatch /\ pc'[k] = "call"
               /\ stage'[k] = "vmalloc" /\ orig'[k] = slots
          \/ pc[k] = "chain_stub" /\ pc'[k] = "call" /\ stage'[k] = "vflush"
               /\ k \in written'
          \/ pc[k] = "slot0" /\ pc'[k] = "slot1" /\ stage'[k] = stage[k]

(* Every step of a kick moves along one of these edges. *)
LEMMA StepMoves ==
  ASSUME TypeOK, LabelInv, NEW k \in Kicks,
         Kick(k) \/ AlarmTooEarly(k) \/ Killed(k)
  PROVE  Moves(k)
<1> USE DEF TypeOK, KickTypeOK, Goto, Finish, Do, Call, Moves, targetVars
<1>1. CASE AttachFails(k) BY <1>1 DEF AttachFails
<1>2. CASE Attach(k) BY <1>2 DEF Attach
<1>3. CASE AlarmTooEarly(k) BY <1>3 DEF AlarmTooEarly, AttachedLabels, Labels
<1>4. CASE EnterWait(k) BY <1>4 DEF EnterWait, AttachedLabels, Labels
<1>5. CASE AttachStops(k) BY <1>5 DEF AttachStops, AttachedLabels, Labels
<1>6. CASE AttachWaitFails(k)
  BY <1>6 DEF AttachWaitFails, AttachedLabels, Labels
<1>7. CASE CallStops(k) BY <1>7 DEF CallStops, AttachedLabels, Labels
<1>8. CASE CallTimesOut(k) BY <1>8 DEF CallTimesOut, AttachedLabels, Labels
<1>9. CASE PeekWords(k) BY <1>9 DEF PeekWords, AttachedLabels, Labels
<1>10. CASE PeekGuard(k)
  <2>1. CASE Refused(cfg[k], guard)
    BY <1>10, <2>1 DEF PeekGuard, AttachedLabels, Labels
  <2>2. CASE ~Refused(cfg[k], guard)
    <3> DEFINE job == FirstJob(cfg[k], guard)
    <3>1. pc'[k] = job[1] /\ stage'[k] = job[2]
      BY <1>10, <2>2 DEF PeekGuard
    <3>2. ~Installing(k) BY <1>10 DEF PeekGuard, LabelInv, Installing
    <3>3. job \in {<<"call", "string">>, <<"call", "tmalloc">>,
                   <<"call", "start">>, <<"slots", "start">>,
                   <<"cleanup", "start">>}
      BY EarlyJobs
    <3>4. pc[k] = "guard" /\ tracer' = tracer BY <1>10 DEF PeekGuard
    <3> HIDE DEF job
    <3> QED BY <3>1, <3>2, <3>3, <3>4 DEF AttachedLabels, Labels
  <2> QED BY <2>1, <2>2
<1>11. CASE SaveRegs(k) BY <1>11 DEF SaveRegs, AttachedLabels, Labels
<1>12. CASE Resume(k) BY <1>12 DEF Resume, AttachedLabels, Labels
<1>13. CASE ResumeFails(k) BY <1>13 DEF ResumeFails, AttachedLabels, Labels
<1>14. CASE RestoreWords(k) BY <1>14 DEF RestoreWords, AttachedLabels, Labels
<1>15. CASE RestoreRegs(k)
  <2> DEFINE s == stage[k]
             job == AfterCall(cfg[k], s, ok[k] /\ Held(k), r0)
  <2>1. pc[k] = "regs" /\ tracer' = tracer BY <1>15 DEF RestoreRegs
  <2>2. CASE job[1] = "failed"
    BY <1>15, <2>1, <2>2 DEF RestoreRegs, AttachedLabels, Labels
  <2>3. CASE job[1] # "failed"
    <3>1. pc'[k] = job[1] /\ stage'[k] = job[2]
      BY <1>15, <2>3 DEF RestoreRegs
    <3>2. \/ s = "tflush"  /\ job = <<"call", "create">>
          \/ s = "vflush"  /\ job = <<"slot0", s>>
          \/ s = "start"   /\ job = AfterStart(cfg[k])
          \/ s = "string"  /\ job = <<"argbytes", s>>
          \/ s = "tmalloc" /\ job = <<"thread_stub", s>>
          \/ s = "create"  /\ job = <<"tid_slot", s>>
          \/ s = "vmalloc" /\ job = <<"chain_stub", s>>
      BY <2>3 DEF AfterCall
    <3>3. AfterStart(cfg[k]) \in {<<"slots", "start">>, <<"cleanup", "start">>}
      BY EarlyJobs
    <3> HIDE DEF job
    <3> QED BY <2>1, <3>1, <3>2, <3>3 DEF AttachedLabels, Labels, Installing
  <2> QED BY <2>2, <2>3
<1>16. CASE PokeString(k)
  <2> DEFINE job == Work(cfg[k], gval[k])
  <2>1. pc[k] = "argbytes" /\ tracer' = tracer /\ pc'[k] = job[1]
        /\ stage'[k] = job[2]
    BY <1>16 DEF PokeString
  <2>2. job \in {<<"call", "tmalloc">>, <<"call", "start">>,
                 <<"slots", "start">>, <<"cleanup", "start">>}
    BY EarlyJobs
  <2> HIDE DEF job
  <2> QED BY <2>1, <2>2 DEF AttachedLabels, Labels, Installing, LabelInv
<1>17. CASE PokeThreadStub(k)
  BY <1>17 DEF PokeThreadStub, AttachedLabels, Labels
<1>18. CASE PeekThreadId(k) BY <1>18 DEF PeekThreadId, AttachedLabels, Labels
<1>19. CASE PeekSlots(k) BY <1>19 DEF PeekSlots, AttachedLabels, Labels
<1>20. CASE PokeChainStubs(k)
  BY <1>20 DEF PokeChainStubs, AttachedLabels, Labels
<1>21. CASE PokeSlot0(k)
  BY <1>21 DEF PokeSlot0, PokeSlot, AttachedLabels, Labels
<1>22. CASE PokeSlot1(k)
  BY <1>22 DEF PokeSlot1, PokeSlot, AttachedLabels, Labels
<1>23. CASE RequestFails(k)
  <2>1. CASE pc[k] = "call" /\ stage[k] = "tflush"
    BY <1>23, <2>1 DEF RequestFails, AfterCall, AttachedLabels, Labels,
                       Installing
  <2>2. CASE pc[k] = "call" /\ stage[k] = "vflush"
    BY <1>23, <2>2 DEF RequestFails, AfterCall, AttachedLabels, Labels
  <2>3. CASE ~(pc[k] = "call" /\ stage[k] \in {"tflush", "vflush"})
    BY <1>23, <2>3 DEF RequestFails, AttachedLabels, Labels
  <2> QED BY <2>1, <2>2, <2>3
<1>24. CASE Cleanup(k)
  BY <1>24 DEF Cleanup, Release, AttachedLabels, Labels
<1>25. CASE Killed(k) BY <1>25 DEF Killed, Release
<1> QED BY <1>1, <1>2, <1>3, <1>4, <1>5, <1>6, <1>7, <1>8, <1>9, <1>10,
           <1>11, <1>12, <1>13, <1>14, <1>15, <1>16, <1>17, <1>18, <1>19,
           <1>20, <1>21, <1>22, <1>23, <1>24, <1>25 DEF Kick

(* What a step of a kick does to the memory of the chain. *)
Patches(k) ==
  /\ written \subseteq written'
  /\ pc[k] # "slots" => orig' = orig
  /\ \/ slots' = slots /\ ~(pc[k] \in {"slot0", "slot1"} /\ pc'[k] # pc[k]
                             /\ pc'[k] \notin {"cleanup", "done"})
     \/ pc[k] = "slot0" /\ Held(k) /\ pc'[k] = "slot1"
          /\ slots' = [slots EXCEPT ![0] = Stub(k, 0)]
     \/ pc[k] = "slot1" /\ Held(k) /\ pc'[k] = "cleanup"
          /\ slots' = [slots EXCEPT ![1] = Stub(k, 1)]

(* Every step of a kick leaves the slots alone or patches one of them. *)
LEMMA StepPatches ==
  ASSUME TypeOK, NEW k \in Kicks, Kick(k) \/ AlarmTooEarly(k) \/ Killed(k)
  PROVE  Patches(k)
<1> USE DEF TypeOK, KickTypeOK, Goto, Finish, Call, Patches, targetVars
<1>1. CASE AttachFails(k) \/ Attach(k) \/ AlarmTooEarly(k) \/ EnterWait(k)
           \/ AttachStops(k) \/ AttachWaitFails(k) \/ CallStops(k)
           \/ CallTimesOut(k) \/ PeekWords(k)
  BY <1>1 DEF AttachFails, Attach, AlarmTooEarly, EnterWait, AttachStops,
              AttachWaitFails, CallStops, CallTimesOut, PeekWords
<1>2. CASE PeekGuard(k) BY <1>2 DEF PeekGuard
<1>3. CASE SaveRegs(k) \/ Resume(k) \/ ResumeFails(k) \/ RestoreWords(k)
  BY <1>3 DEF SaveRegs, Resume, ResumeFails, RestoreWords
<1>4. CASE RestoreRegs(k) BY <1>4 DEF RestoreRegs
<1>5. CASE PokeString(k) \/ PokeThreadStub(k) \/ PeekThreadId(k)
           \/ PokeChainStubs(k)
  BY <1>5 DEF PokeString, PokeThreadStub, PeekThreadId, PokeChainStubs
<1>6. CASE PokeSlot0(k) BY <1>6 DEF PokeSlot0, PokeSlot
<1>7. CASE PokeSlot1(k) BY <1>7 DEF PokeSlot1, PokeSlot
<1>8. CASE PeekSlots(k) BY <1>8 DEF PeekSlots
<1>9. CASE RequestFails(k) BY <1>9 DEF RequestFails
<1>10. CASE Cleanup(k) \/ Killed(k) BY <1>10 DEF Cleanup, Killed
<1> QED BY <1>1, <1>2, <1>3, <1>4, <1>5, <1>6, <1>7, <1>8, <1>9, <1>10 DEF Kick

(* No kick is attached and no slot is patched initially. *)
LEMMA InitChain == Init => ChainInv
BY KickAssumption DEF Init, ChainInv, LabelInv, AttachInv, ReadInv, SlotInv,
   Installing, AttachedLabels, Labels, Null, Wrapper, Channels

(* A kick's own step keeps the chain invariant: the slots it checked are   *)
(* still those when it patches, for nobody else can be attached.           *)
LEMMA KickKeepsChain ==
  ASSUME TypeOK, ChainInv, NEW k \in Kicks,
         Kick(k) \/ AlarmTooEarly(k) \/ Killed(k)
  PROVE  ChainInv'
<1>1. Moves(k) BY StepMoves DEF ChainInv
<1>2. Patches(k) BY StepPatches
<1>3. \A j \in Kicks : j # k =>
        pc'[j] = pc[j] /\ stage'[j] = stage[j] /\ orig'[j] = orig[j]
  BY Others
<1> USE DEF ChainInv
<1>4. LabelInv'
  <2>1. ASSUME NEW j \in Kicks, j # k PROVE LabelInv!(j)'
    BY <1>3, <2>1 DEF LabelInv
  <2>2. LabelInv!(k)'
    BY <1>1 DEF LabelInv, Moves, Installing
  <2> QED BY <2>1, <2>2 DEF LabelInv
<1>5. AttachInv'
  <2>1. k # NoKick BY KickAssumption
  <2>2. pc'[k] \in AttachedLabels <=> tracer' = k
    BY <1>1, <2>1 DEF Moves, AttachInv, AttachedLabels, Labels
  <2>3. ASSUME NEW j \in Kicks, j # k
        PROVE  pc'[j] \in AttachedLabels <=> tracer' = j
    <3>1. j # NoKick BY KickAssumption
    <3>2. tracer' = j <=> tracer = j
      BY <1>1, <2>3, <3>1 DEF Moves, AttachInv
    <3> QED BY <1>3, <2>3, <3>2 DEF AttachInv
  <2> QED BY <2>2, <2>3 DEF AttachInv
<1>6. ReadInv'
  <2>1. ASSUME NEW j \in Kicks, j # k PROVE ReadInv!(j)'
    <3>1. CASE slots' = slots BY <1>2, <1>3, <2>1, <3>1 DEF ReadInv, Installing, Patches
    <3>2. CASE slots' # slots
      <4>1. pc[k] \in AttachedLabels
        BY <1>2, <3>2 DEF Patches, AttachedLabels, Labels
      <4>2. pc[j] \notin AttachedLabels
        BY <4>1, <2>1 DEF AttachInv
      <4> QED BY <1>2, <1>3, <2>1, <4>2 DEF ReadInv, Installing, Patches
    <3> QED BY <3>1, <3>2
  <2>2. ReadInv!(k)'
    <3> SUFFICES ASSUME Installing(k)' PROVE ReadInv!(k)!2'
      BY DEF ReadInv
    <3>1. CASE ~Installing(k)
      <4>1. pc[k] = "slots" /\ SlotsMatch /\ pc'[k] = "call"
            /\ stage'[k] = "vmalloc" /\ orig'[k] = slots
        BY <1>1, <3>1 DEF Moves, Installing, LabelInv
      <4>2. slots' = slots BY <1>2, <4>1 DEF Patches
      <4> QED BY <4>1, <4>2 DEF SlotsMatch, Channels
    <3>2. CASE Installing(k)
      <4>1. pc[k] # "slots" /\ orig' = orig /\ written \subseteq written'
        BY <1>2, <3>2 DEF Patches, Installing, LabelInv
      <4>2. stage'[k] = "vflush" => k \in written'
        BY <1>1, <3>2, <4>1 DEF Moves, ReadInv, Installing
      <4>3. ASSUME pc'[k] \in AttachedLabels \ {"cleanup"}
            PROVE  slots'[1] = Wrapper(1)
                   /\ (pc'[k] # "slot1" => slots'[0] = Wrapper(0))
        <5>1. pc[k] \in AttachedLabels \ {"cleanup"} \/ pc[k] = "attach"
          BY <1>1, <4>3 DEF Moves, AttachedLabels, Labels
        <5>2. pc[k] # "attach" BY <3>2 DEF LabelInv, Installing
        <5>3. slots[1] = Wrapper(1)
              /\ (pc[k] # "slot1" => slots[0] = Wrapper(0))
          BY <3>2, <5>1, <5>2 DEF ReadInv
        <5>4. CASE slots' = slots
          <6>1. pc[k] = "slot1" => pc'[k] \in {"slot1", "cleanup", "done"}
            BY <1>1 DEF Moves
          <6> QED BY <4>3, <5>3, <5>4, <6>1 DEF AttachedLabels
        <5>5. CASE slots' # slots
          BY <1>2, <4>3, <5>3, <5>5
             DEF Patches, TypeOK, TargetTypeOK, Channels
        <5> QED BY <5>4, <5>5
      <4> QED BY <3>2, <4>1, <4>2, <4>3 DEF ReadInv
    <3> QED BY <3>1, <3>2
  <2> QED BY <2>1, <2>2 DEF ReadInv
<1>7. SlotInv'
  <2> SUFFICES ASSUME NEW i \in Channels, slots'[i].kind = "stub"
               PROVE  /\ slots'[i].chan = i
                      /\ slots'[i].by \in Kicks
                      /\ stage'[slots'[i].by] = "vflush"
    BY DEF SlotInv
  <2>1. \A j \in Kicks : stage[j] = "vflush" => stage'[j] = "vflush"
    BY <1>1, <1>3 DEF Moves, Installing, LabelInv
  <2>2. CASE slots'[i] = slots[i] BY <2>1, <2>2 DEF SlotInv
  <2>3. CASE slots'[i] # slots[i]
    <3>1. slots'[i] = Stub(k, i) /\ pc[k] \in {"slot0", "slot1"}
      BY <1>2, <2>3 DEF Patches, TypeOK, TargetTypeOK
    <3> QED BY <2>1, <3>1 DEF LabelInv, Stub
  <2> QED BY <2>2, <2>3
<1> QED BY <1>4, <1>5, <1>6, <1>7

(* So does the target's: it only fills slots that are still null. *)
LEMMA TargetKeepsChain == TypeOK /\ ChainInv /\ Target => ChainInv'
<1> SUFFICES ASSUME TypeOK, ChainInv, Target PROVE ChainInv'
  OBVIOUS
<1>1. UNCHANGED kickVars /\ tracer' = tracer
  BY DEF Target, SignalArrives, DeliverSignal, CalleeRuns, CalleeReturns,
         Fault, RegisterCallback, TargetDies, ThreadRuns, ThreadReturns
<1>2. \A i \in Channels :
        slots'[i] = slots[i] \/ (slots[i] = Null /\ slots'[i] = Wrapper(i))
  BY DEF Target, SignalArrives, DeliverSignal, CalleeRuns, CalleeReturns,
         Fault, RegisterCallback, TargetDies, ThreadRuns, ThreadReturns, TypeOK, TargetTypeOK
<1>3. LabelInv' /\ AttachInv'
  BY <1>1 DEF ChainInv, LabelInv, AttachInv, kickVars
<1>4. ReadInv'
  BY <1>1, <1>2 DEF ChainInv, ReadInv, Installing, kickVars, Null, Wrapper,
                    Channels
<1>5. SlotInv'
  <2> SUFFICES ASSUME NEW i \in Channels, slots'[i].kind = "stub"
               PROVE  SlotInv!(i)!2'
    BY DEF SlotInv
  <2>1. Wrapper(i).kind = "tuya" BY DEF Wrapper
  <2>2. slots'[i] = slots[i]
    <3>1. slots'[i] # Wrapper(i) BY <2>1
    <3> QED BY <3>1, <1>2
  <2> QED BY <1>1, <2>2 DEF ChainInv, SlotInv, kickVars
<1> QED BY <1>3, <1>4, <1>5 DEF ChainInv

(* The chain invariant is inductive, together with the types. *)
LEMMA ChainInductive == TypeOK /\ ChainInv /\ [Next]_vars => ChainInv'
<1> SUFFICES ASSUME TypeOK, ChainInv, [Next]_vars PROVE ChainInv'
  OBVIOUS
<1>1. CASE Target BY <1>1, TargetKeepsChain
<1>2. CASE \E k \in Kicks : Kick(k) \/ AlarmTooEarly(k) \/ Killed(k)
  BY <1>2, KickKeepsChain
<1>3. CASE UNCHANGED vars
  BY <1>3 DEF vars, targetVars, kickVars, ChainInv, LabelInv, AttachInv,
              ReadInv, SlotInv, Installing
<1> QED BY <1>1, <1>2, <1>3 DEF Next

(* It holds in every reachable state. *)
LEMMA ChainInvariant == Spec => []ChainInv
<1>1. ChainInv /\ TypeOK /\ [Next]_vars => ChainInv' BY ChainInductive
<1> QED BY InitChain, TypeCorrect, <1>1, PTL DEF Spec

(* A redirected slot leads to a complete stub that forwards to the stock   *)
(* wrapper of its channel.                                                 *)
THEOREM ChainIsSound == Spec => []ChainSound
<1>1. ChainInv => ChainSound
  BY DEF ChainInv, ChainSound, SlotInv, ReadInv, Installing
<1> QED BY ChainInvariant, <1>1, PTL

(* A patch replaces the callback that was read under the same attach. *)
THEOREM PatchIsFresh == Spec => PatchReplacesWhatWasRead
<1> DEFINE Fresh == \A i \in Channels :
             slots'[i] # slots[i] /\ slots'[i].kind = "stub" =>
               slots[i] = orig[slots'[i].by][i]
<1>1. TypeOK /\ ChainInv /\ [Next]_vars => [Fresh]_vars
  <2> SUFFICES ASSUME TypeOK, ChainInv, Next, NEW i \in Channels,
                      slots'[i] # slots[i], slots'[i].kind = "stub"
               PROVE  slots[i] = orig[slots'[i].by][i]
    OBVIOUS
  <2>1. CASE Target
    <3>1. slots'[i] = Wrapper(i)
      BY <2>1 DEF Target, SignalArrives, DeliverSignal, CalleeRuns,
                  CalleeReturns, Fault, RegisterCallback, TargetDies, ThreadRuns, ThreadReturns, TypeOK,
                  TargetTypeOK
    <3> QED BY <3>1 DEF Wrapper
  <2>2. CASE \E k \in Kicks : Kick(k) \/ AlarmTooEarly(k) \/ Killed(k)
    <3>1. PICK k \in Kicks : Kick(k) \/ AlarmTooEarly(k) \/ Killed(k)
      BY <2>2
    <3>2. Patches(k) BY <3>1, StepPatches
    <3>3. /\ slots'[i] = Stub(k, i)
          /\ \/ pc[k] = "slot0" /\ i = 0
             \/ pc[k] = "slot1" /\ i = 1
      BY <3>2 DEF Patches, TypeOK, TargetTypeOK
    <3>4. Installing(k) /\ pc[k] \in AttachedLabels \ {"cleanup"}
      BY <3>3 DEF ChainInv, LabelInv, Installing, AttachedLabels, Labels
    <3>5. slots[i] = Wrapper(i) /\ orig[k][i] = Wrapper(i)
      BY <3>3, <3>4 DEF ChainInv, ReadInv
    <3> QED BY <3>3, <3>5 DEF Stub
  <2> QED BY <2>1, <2>2 DEF Next
<1> QED BY TypeCorrect, ChainInvariant, <1>1, PTL
        DEF Spec, PatchReplacesWhatWasRead

-----------------------------------------------------------------------------
(* Abandoned calls *)

(* Initially the thread is in its own code and nobody is attached. *)
LEMMA InitCalls == Init => CallInv
BY DEF Init, CallInv, InCall, WordOut, AttachedLabels, Labels

(* The target moves only when its tracer, if any, waits for it. *)
LEMMA TargetKeepsCalls ==
  ASSUME TypeOK, ChainInv, CallInv, Target
  PROVE  CallInv'
<1>1. UNCHANGED kickVars /\ tracer' = tracer /\ word' = word
      /\ nkill' = nkill
  BY DEF Target, SignalArrives, DeliverSignal, CalleeRuns, CalleeReturns,
         Fault, RegisterCallback, TargetDies, ThreadRuns, ThreadReturns
<1>2. UNCHANGED <<pc, stage, saved, savedWord, late>>
  BY <1>1 DEF kickVars
<1> SUFFICES ASSUME ~Blamed' PROVE CallInv'
  BY DEF CallInv
<1>3. ~Blamed BY <1>1, <1>2 DEF Blamed
<1>4. CASE Gone
  BY <1>1, <1>2, <1>3, <1>4
     DEF Target, SignalArrives, DeliverSignal, CalleeRuns, CalleeReturns,
         Fault, RegisterCallback, TargetDies, ThreadRuns, ThreadReturns, Gone, Runs, Executes,
         CallInv
<1>5. CASE ~Gone
  <2>1. ctx # Own => \E k \in Kicks : InCall(k)
    BY <1>3, <1>5 DEF CallInv, Gone
  <2>2. (\E k \in Kicks : InCall(k)) => tracer # NoKick
    BY KickAssumption DEF InCall, ChainInv, AttachInv, AttachedLabels, Labels
  <2> Own.fn = "own" /\ Own.at = "mid" /\ "own" \notin Functions
    BY DEF Own, Functions
  <2>3. ctx' = ctx \/ ctx # Own
    <3>1. CASE CalleeRuns BY <3>1 DEF CalleeRuns
    <3>2. CASE CalleeReturns BY <3>2 DEF CalleeReturns
    <3>3. CASE ~CalleeRuns /\ ~CalleeReturns
      BY <3>3 DEF Target, SignalArrives, DeliverSignal, Fault,
                  RegisterCallback, TargetDies, ThreadRuns, ThreadReturns
    <3> QED BY <3>1, <3>2, <3>3
  <2>4. ctx' # Own => \E k \in Kicks : InCall(k)
    BY <2>1, <2>3
  <2>5. thread' # "crashed"
    <3>1. CASE Fault
      <4>1. ctx # Own BY <3>1 DEF Fault
      <4>2. tracer # NoKick BY <2>1, <2>2, <4>1
      <4> QED BY <3>1, <4>2 DEF Fault
    <3>2. CASE ~Fault
      BY <1>5, <3>2 DEF Target, SignalArrives, DeliverSignal, CalleeRuns,
                        CalleeReturns, RegisterCallback, TargetDies, ThreadRuns, ThreadReturns, Gone
    <3> QED BY <3>1, <3>2
  <2>6. thread = "stopped" => thread' \in {"stopped", "dead"}
    BY DEF Target, SignalArrives, DeliverSignal, CalleeRuns, CalleeReturns,
           Fault, RegisterCallback, TargetDies, ThreadRuns, ThreadReturns, Runs, Executes
  <2>7. /\ \A k \in Kicks : InCall(k)' <=> InCall(k)
        /\ \A k \in Kicks : WordOut(k)' <=> WordOut(k)
    BY <1>2 DEF InCall, WordOut
  <2> QED
    BY <1>1, <1>2, <1>3, <1>5, <2>4, <2>5, <2>6, <2>7 DEF CallInv, Gone
<1> QED BY <1>4, <1>5

(* The same invariant seen by the one kick that may be attached. *)
Calls(k) ==
  /\ thread # "crashed"
  /\ thread # "dead" =>
       /\ pc[k] \in AttachedLabels \ {"arm", "wait"} => thread = "stopped"
       /\ pc[k] = "resume" \/ InCall(k) => saved[k] = Own
       /\ WordOut(k) => savedWord[k] = "own"
       /\ ctx # Own => InCall(k)
       /\ word # "own" => WordOut(k)

(* With one kick attached, the call invariant is what it says of that one. *)
LEMMA OneCaller ==
  ASSUME NEW k \in Kicks, ~Blamed,
         \A j \in Kicks : j # k => pc[j] \notin AttachedLabels
  PROVE  CallInv <=> Calls(k)
<1>1. \A j \in Kicks : j # k => ~InCall(j) /\ ~WordOut(j) /\ pc[j] # "resume"
  BY DEF InCall, WordOut, AttachedLabels, Labels
<1> QED BY <1>1 DEF CallInv, Calls

(* And likewise after a step. *)
LEMMA OneCallerNext ==
  ASSUME NEW k \in Kicks, ~Blamed',
         \A j \in Kicks : j # k => pc'[j] \notin AttachedLabels
  PROVE  CallInv' <=> Calls(k)'
<1>1. \A j \in Kicks :
        j # k => ~InCall(j)' /\ ~WordOut(j)' /\ pc'[j] # "resume"
  BY DEF InCall, WordOut, AttachedLabels, Labels
<1> QED BY <1>1 DEF CallInv, Calls

(* The steps of a kick: what each does to the thread, its registers and    *)
(* its stack word.                                                         *)
LEMMA KickKeepsCalls ==
  ASSUME TypeOK, ChainInv, CallInv, NEW k \in Kicks,
         Kick(k) \/ AlarmTooEarly(k) \/ Killed(k)
  PROVE  CallInv'
<1> SUFFICES ASSUME ~Blamed' PROVE CallInv'
  BY DEF CallInv
<1> USE DEF TypeOK, KickTypeOK
<1>1. ~Blamed /\ ~Killed(k) /\ ~CallTimesOut(k)
      /\ (AttachWaitFails(k) => Gone)
  <2>1. nkill \in Nat BY DEF TargetTypeOK
  <2>2. ~Killed(k) BY <2>1 DEF Killed, Blamed
  <2>3. ~CallTimesOut(k) BY DEF CallTimesOut, Blamed
  <2>4. AttachWaitFails(k) => Gone BY DEF AttachWaitFails, Blamed
  <2>5. late \subseteq late' /\ nkill' = nkill
    BY <2>2, <2>3
       DEF Kick, AttachFails, Attach, AlarmTooEarly, EnterWait, AttachStops,
           AttachWaitFails, CallStops, PeekWords, PeekGuard, SaveRegs, Resume,
           ResumeFails, RestoreWords, RestoreRegs, PokeString, PokeThreadStub,
           PeekThreadId, PeekSlots, PokeChainStubs, PokeSlot0, PokeSlot1,
           PokeSlot, RequestFails, Cleanup
  <2> QED BY <2>2, <2>3, <2>4, <2>5 DEF Blamed
<1>2. CASE AttachFails(k)
  <2>1. UNCHANGED <<targetVars, stage, saved, savedWord>> /\ pc[k] = "attach"
        /\ pc' = [pc EXCEPT ![k] = "done"]
    BY <1>2 DEF AttachFails, Goto
  <2>2. \A j \in Kicks : (InCall(j)' <=> InCall(j))
                           /\ (WordOut(j)' <=> WordOut(j))
    BY <2>1 DEF InCall, WordOut
  <2>3. \A j \in Kicks : pc'[j] = pc[j] \/ pc'[j] = "done"
    BY <2>1
  <2> QED
    BY <1>1, <2>1, <2>2, <2>3
       DEF CallInv, targetVars, AttachedLabels, Labels
<1>3. CASE ~AttachFails(k)
  <2>1. /\ \A j \in Kicks : j # k => pc[j] \notin AttachedLabels
        /\ \A j \in Kicks : j # k => pc'[j] \notin AttachedLabels
    <3>1. tracer \in {k, NoKick}
      <4>1. Moves(k) BY StepMoves DEF ChainInv
      <4>2. pc[k] = "attach" => Attach(k)
        BY <1>3, <1>1
           DEF Kick, AlarmTooEarly, EnterWait, AttachStops,
           AttachWaitFails, CallStops, PeekWords, PeekGuard, SaveRegs, Resume,
           ResumeFails, RestoreWords, RestoreRegs, PokeString, PokeThreadStub,
           PeekThreadId, PeekSlots, PokeChainStubs, PokeSlot0, PokeSlot1,
           PokeSlot, RequestFails, Cleanup
      <4> QED BY <4>1, <4>2 DEF Moves, Attach, ChainInv, AttachInv
    <3>2. \A j \in Kicks : j # k => pc[j] \notin AttachedLabels
      BY <3>1, KickAssumption DEF ChainInv, AttachInv
    <3> QED BY <3>2, Others
  <2>2. Calls(k) BY <1>1, <2>1, OneCaller
  <2> SUFFICES Calls(k)'
    BY <2>1, OneCallerNext
  <2>3. CASE Gone
    BY <1>1, <1>3, <2>2, <2>3
       DEF Kick, Attach, AlarmTooEarly, EnterWait, AttachStops,
           AttachWaitFails, CallStops, PeekWords, PeekGuard, SaveRegs, Resume,
           ResumeFails, RestoreWords, RestoreRegs, PokeString, PokeThreadStub,
           PeekThreadId, PeekSlots, PokeChainStubs, PokeSlot0, PokeSlot1,
           PokeSlot, RequestFails, Cleanup, Release, Held, targetVars, Gone,
           Calls
  <2>4. CASE ~Gone
    <3>1. thread # "dead" /\ thread # "crashed" BY <2>4 DEF Gone
    <3>2. pc[k] \in AttachedLabels \ {"arm", "wait"} => Held(k)
      BY <2>2, <3>1 DEF Calls, Held, ChainInv, AttachInv
    <3> USE DEF Calls, InCall, WordOut, Goto, Finish, Do, Call, targetVars,
                AttachedLabels, Labels
    <3>3. CASE Attach(k)
      BY <2>2, <3>1, <3>3 DEF Attach, ChainInv, LabelInv
    <3>4. CASE AlarmTooEarly(k) BY <2>2, <3>1, <3>4 DEF AlarmTooEarly
    <3>5. CASE EnterWait(k) BY <2>2, <3>1, <3>5 DEF EnterWait
    <3>6. CASE AttachStops(k) BY <2>2, <3>1, <3>6 DEF AttachStops, Held
    <3>7. CASE AttachWaitFails(k) BY <1>1, <2>4, <3>7
    <3>8. CASE CallStops(k) BY <2>2, <2>4, <3>1, <3>8 DEF CallStops, Held
    <3>9. CASE PeekWords(k) BY <2>2, <3>1, <3>9 DEF PeekWords
    <3>10. CASE PeekGuard(k)
      <4>1. pc'[k] \notin {"arm", "wait", "resume", "words", "regs"}
        BY <3>10, EarlyJobs DEF PeekGuard
      <4>2. pc[k] = "guard" /\ UNCHANGED <<targetVars, saved, savedWord>>
        BY <3>10 DEF PeekGuard
      <4> QED BY <2>2, <3>1, <4>1, <4>2
    <3>11. CASE SaveRegs(k)
      <4>1. ctx = Own /\ word = "own" BY <2>2, <3>1, <3>11 DEF SaveRegs
      <4>2. stage'[k] = stage[k] /\ pc'[k] = "resume" /\ thread' = thread
            /\ ctx' = ctx /\ saved'[k] = Own
        BY <3>11, <4>1 DEF SaveRegs
      <4>3. stage[k] = "create" => savedWord'[k] = "own"
        BY <3>11, <4>1 DEF SaveRegs
      <4>4. stage[k] # "create" => word' = "own"
        BY <3>11, <4>1 DEF SaveRegs
      <4>5. thread = "stopped" BY <3>11 DEF SaveRegs, Held
      <4> QED BY <4>1, <4>2, <4>3, <4>4, <4>5
    <3>12. CASE Resume(k)
      BY <2>2, <3>1, <3>12 DEF Resume, ChainInv, LabelInv
    <3>13. CASE ResumeFails(k) BY <3>2, <3>13 DEF ResumeFails
    <3>14. CASE RestoreWords(k)
      <4>1. Held(k) /\ saved[k] = Own
        BY <2>2, <3>1, <3>2, <3>14 DEF RestoreWords, ChainInv, LabelInv
      <4>2. word' = "own" BY <2>2, <3>1, <3>14, <4>1 DEF RestoreWords
      <4>3. pc'[k] = "regs" /\ UNCHANGED <<thread, ctx, stage, saved>>
            /\ pc[k] = "words"
        BY <3>14 DEF RestoreWords
      <4> QED BY <2>2, <3>1, <4>1, <4>2, <4>3 DEF ChainInv, LabelInv
    <3>15. CASE RestoreRegs(k)
      <4>1. ctx' = Own
        BY <2>2, <3>1, <3>2, <3>15
           DEF RestoreRegs, RegsToRestore, ChainInv, LabelInv
      <4>2. pc[k] = "regs" /\ UNCHANGED <<thread, word, saved, savedWord>>
        BY <3>15 DEF RestoreRegs
      <4>3. pc'[k] \notin {"arm", "wait", "resume", "words", "regs"}
        <5> DEFINE job == AfterCall(cfg[k], stage[k], ok[k] /\ Held(k), r0)
        <5>1. job[1] \notin {"arm", "wait", "resume", "words", "regs"}
          <6>1. AfterStart(cfg[k])[1] \in {"slots", "cleanup"}
            BY DEF AfterStart
          <6>2. job[1] \in {"call", "slot0", "argbytes", "thread_stub",
                            "tid_slot", "chain_stub", "failed",
                            AfterStart(cfg[k])[1]}
            BY DEF AfterCall
          <6> QED BY <6>1, <6>2
        <5>2. pc'[k] \in {"cleanup", job[1]} BY <3>15 DEF RestoreRegs
        <5> QED BY <5>1, <5>2
      <4> QED BY <2>2, <3>1, <4>1, <4>2, <4>3
    <3>16. CASE PokeString(k)
      <4>1. pc'[k] \notin {"arm", "wait", "resume", "words", "regs"}
        BY <3>16, EarlyJobs DEF PokeString
      <4>2. pc[k] = "argbytes" /\ UNCHANGED <<targetVars, saved, savedWord>>
        BY <3>16 DEF PokeString
      <4> QED BY <2>2, <3>1, <4>1, <4>2
    <3>17. CASE PokeThreadStub(k) BY <2>2, <3>1, <3>17 DEF PokeThreadStub
    <3>18. CASE PeekThreadId(k) BY <2>2, <3>1, <3>18 DEF PeekThreadId
    <3>19. CASE PeekSlots(k)
      <4>1. pc[k] = "slots" /\ pc'[k] \in {"cleanup", "call"}
            /\ UNCHANGED <<targetVars, saved, savedWord>>
        BY <3>19 DEF PeekSlots
      <4> QED BY <2>2, <3>1, <4>1
    <3>20. CASE PokeChainStubs(k) BY <2>2, <3>1, <3>20 DEF PokeChainStubs
    <3>21. CASE PokeSlot0(k) BY <2>2, <3>1, <3>21 DEF PokeSlot0, PokeSlot
    <3>22. CASE PokeSlot1(k) BY <2>2, <3>1, <3>22 DEF PokeSlot1, PokeSlot
    <3>23. CASE RequestFails(k) BY <3>2, <3>23 DEF RequestFails
    <3>24. CASE Cleanup(k) BY <2>2, <3>1, <3>24 DEF Cleanup, Release
    <3> QED BY <1>1, <1>3, <3>3, <3>4, <3>5, <3>6, <3>7, <3>8, <3>9, <3>10,
               <3>11, <3>12, <3>13, <3>14, <3>15, <3>16, <3>17, <3>18, <3>19,
               <3>20, <3>21, <3>22, <3>23, <3>24 DEF Kick
  <2> QED BY <2>3, <2>4
<1> QED BY <1>2, <1>3

(* The call invariant is inductive, relative to types and chain. *)
LEMMA CallsInductive ==
  TypeOK /\ ChainInv /\ CallInv /\ [Next]_vars => CallInv'
<1> SUFFICES ASSUME TypeOK, ChainInv, CallInv, [Next]_vars PROVE CallInv'
  OBVIOUS
<1>1. CASE Target BY <1>1, TargetKeepsCalls
<1>2. CASE \E k \in Kicks : Kick(k) \/ AlarmTooEarly(k) \/ Killed(k)
  BY <1>2, KickKeepsCalls
<1>3. CASE UNCHANGED vars
  BY <1>3 DEF vars, targetVars, kickVars, CallInv, InCall, WordOut, Blamed
<1> QED BY <1>1, <1>2, <1>3 DEF Next

(* It holds in every reachable state. *)
LEMMA CallInvariant == Spec => []CallInv
<1>1. TypeOK /\ ChainInv /\ CallInv /\ [Next]_vars => CallInv'
  BY CallsInductive
<1> QED BY InitCalls, TypeCorrect, ChainInvariant, <1>1, PTL DEF Spec

(* Untraced, the thread is back in its own code with its own stack word,   *)
(* unless a wait timed out or a kick was killed.                           *)
THEOREM NothingAbandoned == Spec => []NoAbandonedCall
<1>1. ChainInv /\ CallInv => NoAbandonedCall
  <2> SUFFICES ASSUME ChainInv, CallInv, tracer = NoKick, ~Gone, ~Blamed
               PROVE  ctx = Own /\ word = "own"
    BY DEF NoAbandonedCall
  <2>1. \A k \in Kicks : pc[k] \notin AttachedLabels
    BY KickAssumption DEF ChainInv, AttachInv
  <2>2. \A k \in Kicks : ~InCall(k) /\ ~WordOut(k)
    BY <2>1 DEF InCall, WordOut, AttachedLabels, Labels
  <2> QED BY <2>2 DEF CallInv, Gone
<1> QED BY ChainInvariant, CallInvariant, <1>1, PTL

(* Nothing else makes the camera process run into trap_addr and die. *)
THEOREM TargetIsSafe == Spec => []TargetSurvives
<1>1. CallInv => TargetSurvives
  BY DEF CallInv, TargetSurvives
<1> QED BY CallInvariant, <1>1, PTL

-----------------------------------------------------------------------------
(* What follows from ChainInv and CallInv: what the exit status of an      *)
(* rtsp_kick is worth, what a dry run leaves alone, that ht_rtsp_start is  *)
(* not run twice and that the camera is not left stopped.                  *)

(* A step of an rtsp_kick. *)
Step(k) == Kick(k) \/ AlarmTooEarly(k) \/ Killed(k)

-----------------------------------------------------------------------------
(* What steps leave alone *)

(* The target's own steps change no rtsp_kick process.                     *)
LEMMA TargetLeaves ==
  ASSUME Target
  PROVE  UNCHANGED <<kickVars, tracer, word, nkill>>
BY DEF Target, SignalArrives, DeliverSignal, CalleeRuns, CalleeReturns, Fault,
       RegisterCallback, TargetDies, ThreadRuns, ThreadReturns

(* A step of a kick changes neither the command lines nor what only the    *)
(* program and the kernel write.                                           *)
LEMMA KickLeaves ==
  ASSUME NEW k \in Kicks, Step(k)
  PROVE  UNCHANGED <<cfg, stopSig, groupStop, r0, heapBusy, guard, ports,
                     starts, worker, nsig>>
<1> USE DEF targetVars
<1>1. CASE AttachFails(k) \/ Attach(k) \/ AlarmTooEarly(k) \/ EnterWait(k)
           \/ AttachStops(k) \/ AttachWaitFails(k) \/ CallStops(k)
           \/ CallTimesOut(k) \/ PeekWords(k) \/ PeekGuard(k)
  BY <1>1 DEF AttachFails, Attach, AlarmTooEarly, EnterWait, AttachStops,
              AttachWaitFails, CallStops, CallTimesOut, PeekWords, PeekGuard
<1>2. CASE SaveRegs(k) \/ Resume(k) \/ ResumeFails(k) \/ RestoreWords(k)
           \/ RestoreRegs(k) \/ Cleanup(k) \/ Killed(k)
  BY <1>2 DEF SaveRegs, Resume, ResumeFails, RestoreWords, RestoreRegs, Cleanup,
              Killed
<1>3. CASE PokeString(k) \/ PokeThreadStub(k) \/ PeekThreadId(k)
           \/ PeekSlots(k) \/ PokeChainStubs(k) \/ PokeSlot0(k)
           \/ PokeSlot1(k) \/ RequestFails(k)
  BY <1>3 DEF PokeString, PokeThreadStub, PeekThreadId, PeekSlots,
              PokeChainStubs, PokeSlot0, PokeSlot1, PokeSlot, RequestFails
<1> QED BY <1>1, <1>2, <1>3 DEF Step, Kick

(* Which steps of a kick touch what the invariants below talk about. *)
LEMMA Effects ==
  ASSUME NEW k \in Kicks, Step(k)
  PROVE  /\ ctx' = ctx \/ Resume(k) \/ RestoreRegs(k)
         /\ word' = word \/ SaveRegs(k) \/ RestoreWords(k)
         /\ thread' = thread \/ Resume(k) \/ Cleanup(k) \/ Killed(k)
         /\ pending' = pending \/ Attach(k)
         /\ found' = found \/ AttachStops(k)
         /\ saved' = saved \/ SaveRegs(k)
         /\ gval' = gval \/ PeekGuard(k)
         /\ slots' = slots \/ PokeSlot0(k) \/ PokeSlot1(k)
         /\ late \subseteq late' /\ raced \subseteq raced'
         /\ nkill' = nkill \/ Killed(k)
<1> USE DEF targetVars
<1>1. CASE AttachFails(k) \/ Attach(k) \/ AlarmTooEarly(k) \/ EnterWait(k)
           \/ AttachStops(k) \/ AttachWaitFails(k) \/ CallStops(k)
           \/ CallTimesOut(k) \/ PeekWords(k) \/ PeekGuard(k)
  BY <1>1 DEF AttachFails, Attach, AlarmTooEarly, EnterWait, AttachStops,
              AttachWaitFails, CallStops, CallTimesOut, PeekWords, PeekGuard
<1>2. CASE SaveRegs(k) \/ Resume(k) \/ ResumeFails(k) \/ RestoreWords(k)
           \/ RestoreRegs(k) \/ Cleanup(k) \/ Killed(k)
  BY <1>2 DEF SaveRegs, Resume, ResumeFails, RestoreWords, RestoreRegs, Cleanup,
              Killed
<1>3. CASE PokeString(k) \/ PokeThreadStub(k) \/ PeekThreadId(k)
           \/ PeekSlots(k) \/ PokeChainStubs(k) \/ PokeSlot0(k)
           \/ PokeSlot1(k) \/ RequestFails(k)
  BY <1>3 DEF PokeString, PokeThreadStub, PeekThreadId, PeekSlots,
              PokeChainStubs, PokeSlot0, PokeSlot1, PokeSlot, RequestFails
<1> QED BY <1>1, <1>2, <1>3 DEF Step, Kick

(* Only its own kick changes what a kick knows. *)
LEMMA OwnOnly ==
  ASSUME TypeOK, NEW k \in Kicks, Step(k), NEW j \in Kicks, j # k
  PROVE  /\ pc'[j] = pc[j] /\ stage'[j] = stage[j] /\ saved'[j] = saved[j]
         /\ ok'[j] = ok[j] /\ gval'[j] = gval[j] /\ status'[j] = status[j]
         /\ found'[j] = found[j] /\ (j \in late' <=> j \in late)
<1> USE DEF TypeOK, KickTypeOK, Goto, Finish, Do, Call
<1>1. CASE AttachFails(k) \/ Attach(k) \/ AlarmTooEarly(k) \/ EnterWait(k)
           \/ AttachStops(k) \/ AttachWaitFails(k) \/ CallStops(k)
           \/ CallTimesOut(k) \/ PeekWords(k)
  BY <1>1 DEF AttachFails, Attach, AlarmTooEarly, EnterWait, AttachStops,
              AttachWaitFails, CallStops, CallTimesOut, PeekWords
<1>2. CASE PeekGuard(k) BY <1>2 DEF PeekGuard
<1>3. CASE SaveRegs(k) \/ Resume(k) \/ ResumeFails(k) \/ RestoreWords(k)
  BY <1>3 DEF SaveRegs, Resume, ResumeFails, RestoreWords
<1>4. CASE RestoreRegs(k) BY <1>4 DEF RestoreRegs
<1>5. CASE PokeString(k) \/ PokeThreadStub(k) \/ PeekThreadId(k)
           \/ PokeChainStubs(k) \/ PokeSlot0(k) \/ PokeSlot1(k)
  BY <1>5 DEF PokeString, PokeThreadStub, PeekThreadId, PokeChainStubs,
              PokeSlot0, PokeSlot1, PokeSlot
<1>6. CASE PeekSlots(k) BY <1>6 DEF PeekSlots
<1>7. CASE RequestFails(k) BY <1>7 DEF RequestFails
<1>8. CASE Cleanup(k) \/ Killed(k) BY <1>8 DEF Cleanup, Killed
<1> QED BY <1>1, <1>2, <1>3, <1>4, <1>5, <1>6, <1>7, <1>8 DEF Step, Kick

(* A step of a kick that does not attach and is not attached is a failed   *)
(* attach; every other is that of the only one that is attached.           *)
LEMMA OneAttached ==
  ASSUME TypeOK, ChainInv, NEW k \in Kicks, Step(k), ~AttachFails(k)
  PROVE  /\ \A j \in Kicks : j # k => tracer # j /\ tracer' # j
                                     /\ pc[j] \notin AttachedLabels
         /\ tracer = k \/ Attach(k)
<1>1. Moves(k) BY StepMoves DEF ChainInv, Step
<1>2. pc[k] = "attach" => Attach(k)
  BY DEF Step, Kick, AlarmTooEarly, Killed, EnterWait, AttachStops,
         AttachWaitFails, CallStops, CallTimesOut, PeekWords, PeekGuard,
         SaveRegs, Resume, ResumeFails, RestoreWords, RestoreRegs, PokeString,
         PokeThreadStub, PeekThreadId, PeekSlots, PokeChainStubs, PokeSlot0,
         PokeSlot1, PokeSlot, RequestFails, Cleanup, AttachedLabels, Labels
<1>3. pc[k] \in AttachedLabels => tracer = k
  BY DEF ChainInv, AttachInv
<1>4. Attach(k) => tracer = NoKick /\ tracer' = k
  BY DEF Attach
<1>5. tracer = k \/ Attach(k)
  BY <1>1, <1>2, <1>3 DEF Moves
<1>6. ~Attach(k) => tracer' \in {k, NoKick}
  BY <1>1, <1>2, <1>3 DEF Moves
<1> QED BY <1>4, <1>5, <1>6, KickAssumption DEF ChainInv, AttachInv

-----------------------------------------------------------------------------
(* The remote calls a command line can lead to *)

Fits(k) ==
  /\ stage[k] \in {"tmalloc", "tflush", "create"} => cfg[k].mode = "thread"
  /\ Installing(k) \/ pc[k] = "slots" => cfg[k].mode = "install"
  /\ stage[k] = "start" /\ cfg[k].mode = "thread" => cfg[k].dry
  /\ pc[k] = "guard" => cfg[k].mode # "peek"
  /\ pc[k] = "peek" => cfg[k].mode = "peek"
  /\ ReadsOnly(cfg[k]) =>
       \/ stage[k] = "attach"
       \/ stage[k] = "start" /\ pc[k] \in {"slots", "cleanup", "done"}

ModeInv == \A k \in Kicks : Fits(k)

(* What main() does after the checks, as a case analysis over what it      *)
(* accepts.                                                                *)
LEMMA Jobs ==
  ASSUME NEW c \in AcceptedConfigs, NEW g
  PROVE  \/ Work(c, g) = <<"call", "tmalloc">> /\ c.mode = "thread" /\ ~c.dry
         \/ /\ Work(c, g) = <<"call", "start">> /\ c.mode # "thread"
            /\ ~c.dry /\ ~c.noStart /\ (c.mode = "install" => ~g \/ c.force)
         \/ Work(c, g) = <<"slots", "start">> /\ c.mode = "install"
         \/ /\ Work(c, g) = <<"cleanup", "start">> /\ c.mode # "install"
            /\ c.dry \/ c.noStart
BY DEF Work, SkipStart, Start, AfterStart, AcceptedConfigs

(* Only --arg0-string without --dry-run comes before that.                 *)
LEMMA FirstJobs ==
  ASSUME NEW c \in AcceptedConfigs, NEW g
  PROVE  \/ FirstJob(c, g) = Work(c, g)
         \/ FirstJob(c, g) = <<"call", "string">> /\ ~c.dry
BY DEF FirstJob

(* The work a command line leads to is one its mode allows.                *)
LEMMA JobFits ==
  ASSUME NEW c \in AcceptedConfigs, NEW g, NEW job,
         job = Work(c, g) \/ (job = FirstJob(c, g)), c.mode # "peek"
  PROVE  /\ job[2] \in {"tmalloc", "tflush", "create"} => c.mode = "thread"
         /\ job[2] \notin {"vmalloc", "vflush"}
         /\ job[1] \notin {"guard", "peek"}
         /\ job[1] = "slots" => c.mode = "install"
         /\ job[2] = "start" /\ c.mode = "thread" => c.dry
         /\ ReadsOnly(c) => job[2] = "start" /\ job[1] \in {"slots", "cleanup"}
<1>1. c.mode = "thread" => ~c.noStart
  BY DEF AcceptedConfigs
<1> QED BY <1>1, Jobs, FirstJobs DEF ReadsOnly

(* So a kick that takes up such a job fits its command line. *)
LEMMA JobKept ==
  ASSUME NEW k \in Kicks, NEW g, NEW job, cfg' = cfg,
         cfg[k] \in AcceptedConfigs, cfg[k].mode # "peek",
         job = Work(cfg[k], g) \/ job = FirstJob(cfg[k], g),
         pc'[k] = job[1], stage'[k] = job[2]
  PROVE  Fits(k)'
BY JobFits DEF Fits, Installing

(* Before the attach nothing is asked of a mode.                           *)
LEMMA InitModes == Init => ModeInv
BY DEF Init, ModeInv, Fits, Installing

(* Each step of a kick leads to a call that its mode allows.               *)
LEMMA ModesKept ==
  ASSUME TypeOK, ChainInv, ModeInv, NEW k \in Kicks, Step(k)
  PROVE  ModeInv'
<1>1. cfg' = cfg BY KickLeaves
<1>2. ASSUME NEW j \in Kicks, j # k PROVE Fits(j)'
  BY <1>1, <1>2, OwnOnly DEF ModeInv, Fits, Installing
<1>3. Fits(k) /\ cfg[k] \in AcceptedConfigs /\ LabelInv!(k)
      /\ pc[k] \in Labels
  BY DEF ModeInv, TypeOK, KickTypeOK, ChainInv, LabelInv
<1>4. ReadsOnly(cfg[k]) => pc[k] \in {"attach", "arm", "wait", "peek", "guard",
                                      "slots", "cleanup", "done"}
  BY <1>3 DEF Fits, LabelInv, Labels
<1>5. Fits(k)'
  <2> USE DEF TypeOK, KickTypeOK, Goto, Finish, Do, Call
  <2>1. CASE /\ stage'[k] = stage[k]
             /\ \/ pc'[k] \in {pc[k], "cleanup", "done"}
                \/ pc[k] \in {"attach", "arm"} /\ pc'[k] \in {"arm", "wait"}
    BY <1>1, <1>3, <1>4, <2>1 DEF Fits, Installing, LabelInv
  <2>2. CASE AttachStops(k)
    <3>1. /\ stage'[k] = "attach"
          /\ pc'[k] = IF cfg[k].mode = "peek" THEN "peek" ELSE "guard"
      BY <2>2 DEF AttachStops
    <3> QED BY <1>1, <3>1 DEF Fits, Installing
  <2>3. CASE PeekGuard(k)
    <3>1. CASE Refused(cfg[k], guard)
      BY <2>1, <2>3, <3>1 DEF PeekGuard
    <3>2. CASE ~Refused(cfg[k], guard)
      <4>1. pc'[k] = FirstJob(cfg[k], guard)[1]
            /\ stage'[k] = FirstJob(cfg[k], guard)[2] /\ pc[k] = "guard"
        BY <2>3, <3>2 DEF PeekGuard
      <4>2. cfg[k].mode # "peek"
        BY <1>3, <4>1 DEF Fits
      <4> QED BY <1>1, <1>3, <4>1, <4>2, JobKept
    <3> QED BY <3>1, <3>2
  <2>4. CASE PokeString(k)
    <3>1. pc'[k] = Work(cfg[k], gval[k])[1] /\ pc[k] = "argbytes"
          /\ stage'[k] = Work(cfg[k], gval[k])[2]
      BY <2>4 DEF PokeString
    <3>2. cfg[k].mode # "peek"
      BY <1>4, <3>1 DEF ReadsOnly
    <3> QED BY <1>1, <1>3, <3>1, <3>2, JobKept
  <2>5. CASE RestoreRegs(k)
    <3> DEFINE s == stage[k]
               job == AfterCall(cfg[k], s, ok[k] /\ Held(k), r0)
    <3>1. pc[k] = "regs"
      BY <2>5 DEF RestoreRegs
    <3>2. CASE job[1] = "failed"
      BY <2>1, <2>5, <3>2 DEF RestoreRegs
    <3>3. CASE job[1] # "failed"
      <4>1. pc'[k] = job[1] /\ stage'[k] = job[2]
        BY <2>5, <3>3 DEF RestoreRegs
      <4>2. \/ s = "tflush"  /\ job = <<"call", "create">>
            \/ s = "vflush"  /\ job = <<"slot0", s>>
            \/ s = "start"   /\ job = AfterStart(cfg[k])
            \/ s = "string"  /\ job = <<"argbytes", s>>
            \/ s = "tmalloc" /\ job = <<"thread_stub", s>>
            \/ s = "create"  /\ job = <<"tid_slot", s>>
            \/ s = "vmalloc" /\ job = <<"chain_stub", s>>
        BY <3>3 DEF AfterCall
      <4>3. ~ReadsOnly(cfg[k])
        BY <1>4, <3>1
      <4> HIDE DEF job
      <4>4. CASE s = "start"
        BY <1>1, <1>3, <4>1, <4>2, <4>3, <4>4
           DEF Fits, Installing, AfterStart
      <4>5. CASE s # "start"
        BY <1>1, <1>3, <4>1, <4>2, <4>3, <4>5 DEF Fits, Installing
      <4> QED BY <4>4, <4>5
    <3> QED BY <3>2, <3>3
  <2>6. CASE PeekSlots(k) \/ PokeThreadStub(k) \/ PokeChainStubs(k)
             \/ PokeSlot0(k)
    BY <1>1, <1>3, <1>4, <2>6 DEF PeekSlots, PokeThreadStub, PokeChainStubs,
       PokeSlot0, PokeSlot, Fits, Installing, LabelInv, ReadsOnly
  <2>7. CASE SaveRegs(k) \/ Resume(k) \/ ResumeFails(k) \/ RestoreWords(k)
             \/ CallStops(k) \/ CallTimesOut(k)
    BY <1>1, <1>3, <1>4, <2>7 DEF SaveRegs, Resume, ResumeFails, RestoreWords,
       CallStops, CallTimesOut, Fits, Installing, LabelInv
  <2>8. CASE RequestFails(k)
    <3>1. CASE pc[k] = "call" /\ stage[k] \in {"tflush", "vflush"}
      BY <1>1, <1>3, <1>4, <2>8, <3>1
         DEF RequestFails, AfterCall, Fits, Installing
    <3>2. CASE ~(pc[k] = "call" /\ stage[k] \in {"tflush", "vflush"})
      BY <2>1, <2>8, <3>2 DEF RequestFails
    <3> QED BY <3>1, <3>2
  <2>9. CASE AttachFails(k) \/ Attach(k) \/ AlarmTooEarly(k) \/ EnterWait(k)
             \/ AttachWaitFails(k) \/ PeekWords(k)
    BY <2>1, <2>9 DEF AttachFails, Attach, AlarmTooEarly, EnterWait,
       AttachWaitFails, PeekWords
  <2>10. CASE PeekThreadId(k) \/ PokeSlot1(k) \/ Cleanup(k) \/ Killed(k)
    BY <2>1, <2>10 DEF PeekThreadId, PokeSlot1, PokeSlot, Cleanup, Killed
  <2> QED BY <2>2, <2>3, <2>4, <2>5, <2>6, <2>7, <2>8, <2>9, <2>10
     DEF Step, Kick
<1> QED BY <1>2, <1>5 DEF ModeInv

(* Types, modes and the invariants of the chain and of the calls go        *)
(* together from here on.                                                  *)
Basis == TypeOK /\ ChainInv /\ CallInv /\ ModeInv

(* So the modes are kept by every step.                                    *)
LEMMA ModesNext ==
  ASSUME TypeOK, ChainInv, ModeInv, [Next]_vars
  PROVE  ModeInv'
<1>1. CASE Target
  BY <1>1, TargetLeaves DEF kickVars, ModeInv, Fits, Installing
<1>2. CASE \E k \in Kicks : Step(k)
  BY <1>2, ModesKept
<1>3. CASE UNCHANGED vars
  BY <1>3 DEF vars, kickVars, ModeInv, Fits, Installing
<1> QED BY <1>1, <1>2, <1>3 DEF Next, Step

(* They hold in every reachable state.                                     *)
LEMMA BasisInvariant == Spec => []Basis
<1>1. Spec => []ModeInv
  BY InitModes, ModesNext, TypeCorrect, ChainInvariant, PTL DEF Spec
<1> QED BY <1>1, TypeCorrect, ChainInvariant, CallInvariant, PTL DEF Basis

-----------------------------------------------------------------------------
(* The camera is not left stopped *)

Attaching(k) == pc[k] \in {"arm", "wait"} /\ stage[k] = "attach"

(* A SIGSTOP that is on its way belongs to an attach that still waits for  *)
(* it, and the thread it is for runs.                                      *)
StopInv ==
  /\ thread = "stopped" => tracer # NoKick
  /\ nsig = 0 /\ ~Blamed =>
       /\ ~groupStop
       /\ pending \subseteq {"STOP"}
       /\ pending # {} /\ ~Gone =>
            thread = "running" /\ \E k \in Kicks : Attaching(k)

(* No signal is on its way initially.                                      *)
LEMMA InitStops == Init => StopInv
BY DEF Init, StopInv

(* A SIGSTOP is delivered only while the attach that caused it waits.      *)
LEMMA TargetKeepsStops ==
  ASSUME TypeOK, ChainInv, StopInv, Target
  PROVE  StopInv'
<1>1. UNCHANGED <<pc, stage, late, tracer, nkill>>
  BY TargetLeaves DEF kickVars
<1>2. (Blamed' <=> Blamed) /\ \A k \in Kicks : Attaching(k)' <=> Attaching(k)
  BY <1>1 DEF Blamed, Attaching
<1>3. (\E k \in Kicks : Attaching(k)) => tracer # NoKick
  BY KickAssumption DEF ChainInv, AttachInv, Attaching, AttachedLabels, Labels
<1>4. nsig \in Nat
  BY DEF TypeOK, TargetTypeOK
<1>5. CASE SignalArrives
  BY <1>1, <1>4, <1>5 DEF SignalArrives, StopInv
<1>6. CASE DeliverSignal
  <2>1. PICK s \in pending : DeliverSignal!(s)
    BY <1>6 DEF DeliverSignal
  <2>2. thread = "running" /\ nsig' = nsig
    BY <2>1 DEF Runs
  <2>3. thread' = "stopped" => tracer' # NoKick
    BY <1>1, <2>1, <2>2
  <2>4. ASSUME nsig = 0, ~Blamed
        PROVE  ~groupStop' /\ pending' = {}
    <3>1. pending = {"STOP"} /\ s = "STOP" /\ tracer # NoKick /\ ~groupStop
      BY <1>3, <2>2, <2>4 DEF StopInv, Gone
    <3> QED BY <2>1, <3>1
  <2> QED BY <1>2, <2>2, <2>3, <2>4 DEF StopInv
<1>7. CASE CalleeRuns \/ CalleeReturns \/ Fault
  <2>1. pending = {} /\ UNCHANGED <<pending, groupStop, nsig>>
    BY <1>7 DEF CalleeRuns, CalleeReturns, Fault, Executes
  <2>2. thread' = "stopped" => tracer' # NoKick
    BY <1>1, <1>7 DEF CalleeRuns, CalleeReturns, Fault, StopInv
  <2> QED BY <1>2, <2>1, <2>2 DEF StopInv
<1>8. CASE RegisterCallback \/ TargetDies
           \/ \E k \in Kicks : ThreadRuns(k) \/ ThreadReturns(k)
  <2>1. UNCHANGED <<pending, groupStop, nsig>> /\ thread' \in {thread, "dead"}
    BY <1>8 DEF RegisterCallback, TargetDies, ThreadRuns, ThreadReturns
  <2> QED BY <1>1, <1>2, <2>1 DEF StopInv, Gone
<1> QED BY <1>5, <1>6, <1>7, <1>8 DEF Target

(* A kick leaves that wait only when the signal was taken, or is blamed.   *)
LEMMA KickKeepsStops ==
  ASSUME TypeOK, ChainInv, CallInv, StopInv, NEW k \in Kicks, Step(k)
  PROVE  StopInv'
<1> USE DEF TypeOK, KickTypeOK, TargetTypeOK
<1>1. UNCHANGED <<groupStop, nsig>>
  BY KickLeaves
<1>2. CASE AttachFails(k)
  <2>1. UNCHANGED <<thread, tracer, pending, late, nkill, stage>>
        /\ pc[k] = "attach" /\ pc' = [pc EXCEPT ![k] = "done"]
    BY <1>2 DEF AttachFails, targetVars, Goto
  <2>2. \A j \in Kicks : Attaching(j) => Attaching(j)'
    BY <2>1 DEF Attaching
  <2> QED BY <1>1, <2>1, <2>2 DEF StopInv, Gone, Blamed
<1>3. CASE Attach(k)
  <2>1. thread = "running" /\ thread' = thread /\ tracer' = k
        /\ pending' = pending \cup {"STOP"} /\ UNCHANGED <<late, nkill>>
    BY <1>3 DEF Attach, StopInv, Gone
  <2>2. Attaching(k)'
    BY <1>3 DEF Attach, Goto, Attaching, ChainInv, LabelInv
  <2> QED BY <1>1, <2>1, <2>2 DEF StopInv, Blamed
<1>4. CASE ~AttachFails(k) /\ ~Attach(k)
  <2>1. /\ tracer = k
        /\ \A j \in Kicks : j # k => ~Attaching(j)
    BY <1>4, OneAttached DEF Attaching, AttachedLabels, Labels
  <2>2. pending' = pending /\ late \subseteq late'
    BY <1>4, Effects
  <2>3. thread' = "stopped" => tracer' # NoKick
    <3>1. CASE Cleanup(k) \/ Killed(k)
      BY <2>1, <3>1 DEF Cleanup, Killed, Release, Held
    <3>2. CASE ~Cleanup(k) /\ ~Killed(k)
      BY <2>1, <3>2, <1>4, KickAssumption
         DEF Step, Kick, AlarmTooEarly, EnterWait, AttachStops,
             AttachWaitFails, CallStops, CallTimesOut, PeekWords, PeekGuard,
             SaveRegs, Resume, ResumeFails, RestoreWords, RestoreRegs,
             PokeString, PokeThreadStub, PeekThreadId, PeekSlots,
             PokeChainStubs, PokeSlot0, PokeSlot1, PokeSlot, RequestFails,
             targetVars
    <3> QED BY <3>1, <3>2
  <2> SUFFICES ASSUME nsig = 0, ~Blamed', ~Gone', pending # {}
               PROVE  thread' = "running" /\ \E j \in Kicks : Attaching(j)'
    BY <1>1, <2>2, <2>3, Effects DEF StopInv, Blamed, Killed
  <2>4. ~Killed(k) /\ ~Blamed /\ ~CallTimesOut(k)
    <3>1. ~Killed(k)
      BY DEF Killed, Blamed
    <3>2. ~CallTimesOut(k)
      BY DEF CallTimesOut, Blamed
    <3> QED BY <3>1, <3>2, Effects DEF Blamed
  <2>5. ~Gone /\ (AttachWaitFails(k) => FALSE)
    BY <2>4, Effects
       DEF Gone, Resume, Cleanup, Release, Held, AttachWaitFails, Blamed
  <2>6. thread = "running" /\ Attaching(k)
    BY <2>1, <2>4, <2>5 DEF StopInv
  <2>7. EnterWait(k) \/ AlarmTooEarly(k)
    BY <1>4, <2>4, <2>5, <2>6
       DEF Step, Kick, Attaching, AttachStops, Held, CallStops, PeekWords,
           PeekGuard, SaveRegs, Resume, ResumeFails, RestoreWords,
           RestoreRegs, PokeString, PokeThreadStub, PeekThreadId, PeekSlots,
           PokeChainStubs, PokeSlot0, PokeSlot1, PokeSlot, RequestFails,
           Cleanup
  <2> QED BY <2>6, <2>7
          DEF EnterWait, AlarmTooEarly, Attaching, Goto, targetVars
<1> QED BY <1>2, <1>3, <1>4

(* The camera process is left stopped only if another signal reached the   *)
(* thread, a wait timed out or a kick was killed: the SIGSTOP that         *)
(* PTRACE_ATTACH sends is otherwise always taken by a traced thread.       *)
THEOREM NotFrozen == Spec => []FrozenOnlyBySignal
<1>1. TypeOK /\ ChainInv /\ CallInv /\ StopInv /\ [Next]_vars => StopInv'
  <2> SUFFICES ASSUME TypeOK, ChainInv, CallInv, StopInv, [Next]_vars
               PROVE  StopInv'
    OBVIOUS
  <2>1. CASE UNCHANGED vars
    BY <2>1 DEF vars, targetVars, kickVars, StopInv, Attaching, Gone, Blamed
  <2> QED BY <2>1, TargetKeepsStops, KickKeepsStops DEF Next, Step
<1>2. TypeOK /\ StopInv => FrozenOnlyBySignal
  BY DEF StopInv, FrozenOnlyBySignal, TypeOK, TargetTypeOK
<1> QED BY InitStops, <1>1, <1>2, TypeCorrect, ChainInvariant, CallInvariant,
           PTL DEF Spec

-----------------------------------------------------------------------------
(* What exit status 0 is worth *)

(* Where the program goes on when a request is done: never into the middle *)
(* of a remote call.                                                       *)
LEMMA NotIntoCall ==
  ASSUME TypeOK, NEW k \in Kicks,
         PeekWords(k) \/ PeekGuard(k) \/ RestoreRegs(k) \/ PokeString(k)
         \/ PokeThreadStub(k) \/ PeekThreadId(k) \/ PeekSlots(k)
         \/ PokeChainStubs(k) \/ PokeSlot0(k) \/ PokeSlot1(k)
         \/ RequestFails(k)
  PROVE  pc'[k] \notin {"attach", "arm", "wait", "resume", "words", "regs"}
<1> USE DEF TypeOK, KickTypeOK, Goto, Finish, Do, Call
<1>1. CASE PeekGuard(k) \/ PokeString(k)
  <2>1. /\ FirstJob(cfg[k], guard)[1] \in {"call", "slots", "cleanup"}
        /\ Work(cfg[k], gval[k])[1] \in {"call", "slots", "cleanup"}
    <3>1. \A c, g : /\ FirstJob(c, g)[1] \in {"call", "slots", "cleanup"}
                    /\ Work(c, g)[1] \in {"call", "slots", "cleanup"}
      BY DEF AfterStart, Work, Start, FirstJob
    <3> QED BY <3>1, Zenon
  <2> QED BY <1>1, <2>1 DEF PeekGuard, PokeString
<1>2. CASE RestoreRegs(k)
  <2> DEFINE job == AfterCall(cfg[k], stage[k], ok[k] /\ Held(k), r0)
  <2>1. AfterStart(cfg[k])[1] \in {"slots", "cleanup"}
    BY DEF AfterStart
  <2>2. job[1] \in {"call", "slot0", "argbytes", "thread_stub", "tid_slot",
                    "chain_stub", "failed", AfterStart(cfg[k])[1]}
    BY DEF AfterCall
  <2>3. pc'[k] \in {"cleanup", job[1]}
    BY <1>2 DEF RestoreRegs
  <2> HIDE DEF job
  <2> QED BY <2>1, <2>2, <2>3
<1>3. CASE RequestFails(k)
  BY <1>3 DEF RequestFails, AfterCall
<1>4. CASE PeekWords(k) \/ PokeThreadStub(k) \/ PeekThreadId(k)
           \/ PeekSlots(k) \/ PokeChainStubs(k) \/ PokeSlot0(k)
           \/ PokeSlot1(k)
  BY <1>4 DEF PeekWords, PokeThreadStub, PeekThreadId, PeekSlots,
              PokeChainStubs, PokeSlot0, PokeSlot1, PokeSlot
<1> QED BY <1>1, <1>2, <1>3, <1>4

(* As long as no wait of the tracer timed out the thread is stopped        *)
(* whenever it is not waited for, and the registers the attach found are   *)
(* in it, or, during a call, saved.                                        *)
Clean(k) ==
  tracer = k /\ k \notin late /\ ~Gone =>
    /\ pc[k] \notin {"arm", "wait"} => thread = "stopped"
    /\ pc[k] = "resume" \/ InCall(k) => saved[k] = found[k]
    /\ ~InCall(k) /\ ~Attaching(k) => ctx = found[k]

CleanInv == \A k \in Kicks : Clean(k)

(* Nobody traces the thread initially.                                     *)
LEMMA InitClean == Init => CleanInv
BY KickAssumption DEF Init, CleanInv, Clean

(* The registers move only while their tracer waits.                       *)
LEMMA TargetKeepsClean ==
  ASSUME TypeOK, ChainInv, CleanInv, Target
  PROVE  CleanInv'
<1> SUFFICES ASSUME NEW k \in Kicks, tracer = k PROVE Clean(k)'
  BY TargetLeaves DEF CleanInv, Clean
<1>1. UNCHANGED <<pc, stage, saved, found, late, tracer>>
  BY TargetLeaves DEF kickVars
<1>2. Gone => Gone'
  BY DEF Target, SignalArrives, DeliverSignal, CalleeRuns, CalleeReturns,
         Fault, RegisterCallback, TargetDies, ThreadRuns, ThreadReturns, Gone, Executes, Runs
<1>3. thread = "stopped" => thread' \in {"stopped", "dead"} /\ ctx' = ctx
  BY DEF Target, SignalArrives, DeliverSignal, CalleeRuns, CalleeReturns,
         Fault, RegisterCallback, TargetDies, ThreadRuns, ThreadReturns, Executes, Runs
<1>4. (InCall(k)' <=> InCall(k)) /\ (Attaching(k)' <=> Attaching(k))
  BY <1>1 DEF InCall, Attaching
<1>5. pc[k] \in {"arm", "wait"} => InCall(k) \/ Attaching(k)
  BY DEF InCall, Attaching
<1> QED BY <1>1, <1>2, <1>3, <1>4, <1>5 DEF CleanInv, Clean, Gone

(* A kick saves the registers it found and puts them back.                 *)
LEMMA KickKeepsClean ==
  ASSUME TypeOK, ChainInv, CleanInv, NEW k \in Kicks, Step(k)
  PROVE  CleanInv'
<1> USE DEF TypeOK, KickTypeOK
<1>1. ASSUME NEW j \in Kicks, j # k PROVE Clean(j)'
  <2>1. CASE AttachFails(k)
    BY <1>1, <2>1, OwnOnly
       DEF AttachFails, targetVars, CleanInv, Clean, Gone, InCall, Attaching
  <2>2. CASE ~AttachFails(k)
    BY <1>1, <2>2, OneAttached DEF Clean
  <2> QED BY <2>1, <2>2
<1>2. Clean(k)'
  <2> SUFFICES ASSUME tracer' = k, k \notin late', ~Gone' PROVE Clean(k)'
    BY DEF Clean
  <2> USE DEF Goto, Finish, Do, Call, targetVars
  <2>1. k # NoKick /\ ~AttachFails(k) /\ ~Cleanup(k) /\ ~Killed(k)
    <3>1. k # NoKick
      BY KickAssumption
    <3>2. ~Cleanup(k) /\ ~Killed(k)
      BY <3>1 DEF Cleanup, Killed, Release
    <3>3. ~AttachFails(k)
      BY DEF AttachFails, ChainInv, AttachInv, AttachedLabels, Labels
    <3> QED BY <3>1, <3>2, <3>3
  <2>2. CASE Attach(k)
    BY <2>2 DEF Attach, Clean, InCall, Attaching, ChainInv, LabelInv
  <2>3. CASE ~Attach(k)
    <3>1. tracer = k /\ k \notin late /\ ~Gone
      <4>1. tracer = k
        BY <2>1, <2>3, OneAttached
      <4>2. k \notin late
        BY Effects
      <4>3. ~Gone
        BY <2>1, Effects DEF Gone, Resume, Held
      <4> QED BY <4>1, <4>2, <4>3
    <3>2. /\ pc[k] \notin {"arm", "wait"} => thread = "stopped"
          /\ pc[k] = "resume" \/ InCall(k) => saved[k] = found[k]
          /\ ~InCall(k) /\ ~Attaching(k) => ctx = found[k]
      BY <3>1 DEF CleanInv, Clean
    <3>3. ~CallTimesOut(k) /\ ~AttachWaitFails(k)
      BY <3>1 DEF CallTimesOut, AttachWaitFails
    <3>4. CASE AlarmTooEarly(k) \/ EnterWait(k)
      BY <3>2, <3>4 DEF AlarmTooEarly, EnterWait, Clean, InCall, Attaching
    <3>5. CASE AttachStops(k)
      BY <3>2, <3>5 DEF AttachStops, Clean, InCall, Held
    <3>6. CASE CallStops(k)
      BY <3>1, <3>2, <3>6 DEF CallStops, Clean, InCall, Held
    <3>7. CASE SaveRegs(k)
      BY <3>2, <3>7
         DEF SaveRegs, Clean, InCall, Attaching, ChainInv, LabelInv
    <3>8. CASE Resume(k) \/ ResumeFails(k) \/ RestoreWords(k)
      BY <3>2, <3>8 DEF Resume, ResumeFails, RestoreWords, Clean, InCall,
                        ChainInv, LabelInv
    <3>9. CASE RestoreRegs(k)
      <4>1. ctx' = found[k] /\ thread' = "stopped" /\ found' = found
        BY <3>1, <3>2, <3>9 DEF RestoreRegs, RegsToRestore, Held, InCall,
                                ChainInv, LabelInv
      <4> QED BY <3>9, <4>1, NotIntoCall DEF Clean, InCall
    <3>10. CASE PeekWords(k) \/ PeekGuard(k) \/ PokeString(k)
                \/ PokeThreadStub(k) \/ PeekThreadId(k) \/ PeekSlots(k)
                \/ PokeChainStubs(k) \/ PokeSlot0(k) \/ PokeSlot1(k)
                \/ RequestFails(k)
      <4>1. pc[k] \notin {"arm", "wait", "words", "regs"}
        BY <3>10 DEF PeekWords, PeekGuard, PokeString, PokeThreadStub,
           PeekThreadId, PeekSlots, PokeChainStubs, PokeSlot0, PokeSlot1,
           PokeSlot, RequestFails
      <4>2. UNCHANGED <<thread, ctx, found>>
        BY <3>10 DEF PeekWords, PeekGuard, PokeString, PokeThreadStub,
           PeekThreadId, PeekSlots, PokeChainStubs, PokeSlot0, PokeSlot1,
           PokeSlot, RequestFails
      <4> QED BY <3>2, <3>10, <4>1, <4>2, NotIntoCall
              DEF Clean, InCall, Attaching
    <3> QED BY <2>1, <2>3, <3>3, <3>4, <3>5, <3>6, <3>7, <3>8, <3>9, <3>10
            DEF Step, Kick
  <2> QED BY <2>2, <2>3
<1> QED BY <1>1, <1>2 DEF CleanInv

(* This holds in every reachable state.                                    *)
LEMMA CleanInvariant == Spec => []CleanInv
<1>1. TypeOK /\ ChainInv /\ CleanInv /\ [Next]_vars => CleanInv'
  <2> SUFFICES ASSUME TypeOK, ChainInv, CleanInv, [Next]_vars
               PROVE  CleanInv'
    OBVIOUS
  <2>1. CASE UNCHANGED vars
    BY <2>1 DEF vars, targetVars, kickVars, CleanInv, Clean, InCall,
                Attaching, Gone
  <2> QED BY <2>1, TargetKeepsClean, KickKeepsClean DEF Next, Step
<1> QED BY InitClean, <1>1, TypeCorrect, ChainInvariant, PTL DEF Spec

(* A kick exits with 0 only by a detach that worked. *)
LEMMA SuccessDetaches ==
  ASSUME TypeOK, Next, NEW k \in Kicks, Succeeds(k)
  PROVE  /\ Cleanup(k) /\ Held(k) /\ status[k] = 0
         /\ UNCHANGED <<ctx, ports, worker, slots>>
<1>1. PICK j \in Kicks : Step(j)
  BY TargetLeaves DEF Next, Step, Succeeds, kickVars
<1>2. j = k
  BY <1>1, OwnOnly DEF Succeeds
<1>3. ~Killed(k)
  BY DEF Killed, Succeeds, KilledStatus, TypeOK, KickTypeOK
<1>4. Cleanup(k)
  BY <1>1, <1>2, <1>3
     DEF Succeeds, Step, Kick, AttachFails, Attach, AlarmTooEarly, EnterWait,
         AttachStops, AttachWaitFails, CallStops, CallTimesOut, PeekWords,
         PeekGuard, SaveRegs, Resume, ResumeFails, RestoreWords, RestoreRegs,
         PokeString, PokeThreadStub, PeekThreadId, PeekSlots, PokeChainStubs,
         PokeSlot0, PokeSlot1, PokeSlot, RequestFails
<1>5. status'[k] = IF Held(k) \/ status[k] # 0 THEN status[k] ELSE 1
  BY <1>4 DEF Cleanup, TypeOK, KickTypeOK
<1> QED BY <1>4, <1>5 DEF Succeeds, Cleanup

(* Exit status 0 of a kick whose waits did not time out: the thread goes   *)
(* on with the registers the attach found it with.                         *)
THEOREM SuccessIsClean == Spec => CleanSuccess
<1> DEFINE Restored == \A k \in Kicks :
             Succeeds(k) /\ k \notin late => ctx' = found[k]
<1>1. TypeOK /\ ChainInv /\ CleanInv /\ [Next]_vars => [Restored]_vars
  <2> SUFFICES ASSUME TypeOK, CleanInv, Next, NEW k \in Kicks, Succeeds(k),
                      k \notin late
               PROVE  ctx' = found[k]
    OBVIOUS
  <2> QED BY SuccessDetaches
          DEF Succeeds, CleanInv, Clean, Held, Gone, InCall, Attaching
<1> QED BY TypeCorrect, ChainInvariant, CleanInvariant, <1>1, PTL
        DEF Spec, CleanSuccess

-----------------------------------------------------------------------------
(* Exit status 0 means the work was done *)

(* The registers are in the callee of k's own remote call; once it has     *)
(* returned, ht_rtsp_start has opened the ports and a successful           *)
(* ak_thread_create has made k's thread.                                   *)
OwnCall(k) ==
  /\ ctx.fn = Callee(cfg[k], stage[k]) /\ ctx.by = k
  /\ ctx.at = "trap" => /\ ctx.fn = "start" => ports
                        /\ ctx.fn = "create" /\ r0 => worker[k] # "none"

(* While a remote call is waited for the thread is in it, and a call_status *)
(* of 0 afterwards means that it ended at trap_addr and stands still.      *)
Returned(k) ==
  tracer = k =>
    /\ pc[k] \in {"arm", "wait"} /\ stage[k] # "attach" => OwnCall(k)
    /\ pc[k] \in {"words", "regs"} /\ ok[k] =>
         OwnCall(k) /\ ctx.at = "trap" /\ thread # "running"

ReturnInv == \A k \in Kicks : Returned(k)

(* No remote call is waited for initially.                                 *)
LEMMA InitReturns == Init => ReturnInv
BY KickAssumption DEF Init, ReturnInv, Returned

(* Ports once opened stay open. *)
LEMMA PortsStay ==
  ASSUME TypeOK, Target, ports
  PROVE  ports'
<1>1. CASE CalleeReturns
  BY <1>1, Zenon DEF CalleeReturns
<1>2. ASSUME NEW k \in Kicks, ThreadReturns(k) PROVE ports'
  BY <1>2, Zenon DEF ThreadReturns
<1>3. CASE ~CalleeReturns /\ \A k \in Kicks : ~ThreadReturns(k)
  BY <1>3 DEF Target, SignalArrives, DeliverSignal, CalleeRuns, Fault,
              RegisterCallback, TargetDies, ThreadRuns
<1> QED BY <1>1, <1>2, <1>3

(* A thread that was made is not forgotten. *)
LEMMA ThreadsStay ==
  ASSUME TypeOK, Target, NEW k \in Kicks, worker[k] # "none"
  PROVE  worker'[k] # "none"
BY DEF Target, SignalArrives, DeliverSignal, CalleeRuns, CalleeReturns, Fault,
       RegisterCallback, TargetDies, ThreadRuns, ThreadReturns, TypeOK,
       TargetTypeOK

(* The callee runs to trap_addr and stays the one its tracer called.       *)
LEMMA TargetKeepsReturns ==
  ASSUME TypeOK, ChainInv, ReturnInv, Target
  PROVE  ReturnInv'
<1> SUFFICES ASSUME NEW k \in Kicks, tracer = k PROVE Returned(k)'
  BY TargetLeaves DEF ReturnInv, Returned
<1>1. UNCHANGED <<pc, stage, ok, cfg, tracer>>
  BY TargetLeaves DEF kickVars
<1>2. ASSUME OwnCall(k) PROVE OwnCall(k)'
  <2> USE DEF TypeOK, TargetTypeOK, Context
  <2>1. CASE CalleeRuns
    BY <1>1, <1>2, <2>1 DEF CalleeRuns, OwnCall
  <2>2. CASE CalleeReturns
    <3>1. ctx'.fn = ctx.fn /\ ctx'.by = ctx.by
      BY <2>2 DEF CalleeReturns
    <3>2. ctx.fn = "start" => ports'
      BY <2>2, Zenon DEF CalleeReturns
    <3>3. ctx.fn = "create" /\ r0' => worker'[ctx.by] # "none"
      BY <2>2 DEF CalleeReturns
    <3> QED BY <1>1, <1>2, <3>1, <3>2, <3>3 DEF OwnCall
  <2>3. CASE ~CalleeRuns /\ ~CalleeReturns
    <3>1. UNCHANGED <<ctx, r0>>
      BY <2>3 DEF Target, SignalArrives, DeliverSignal, Fault,
                  RegisterCallback, TargetDies, ThreadRuns, ThreadReturns
    <3> QED BY <1>1, <1>2, <3>1, PortsStay, ThreadsStay DEF OwnCall
  <2> QED BY <2>1, <2>2, <2>3
<1>3. thread # "running" => thread' # "running" /\ ctx' = ctx
  BY DEF Target, SignalArrives, DeliverSignal, CalleeRuns, CalleeReturns,
         Fault, RegisterCallback, TargetDies, ThreadRuns, ThreadReturns, Executes, Runs
<1> QED BY <1>1, <1>2, <1>3 DEF ReturnInv, Returned

(* A kick starts its own call, and takes only a stop at trap_addr for its  *)
(* return.                                                                 *)
LEMMA KickKeepsReturns ==
  ASSUME TypeOK, ChainInv, ReturnInv, NEW k \in Kicks, Step(k)
  PROVE  ReturnInv'
<1> USE DEF TypeOK, KickTypeOK
<1>1. UNCHANGED <<r0, ports, worker, cfg>>
  BY KickLeaves
<1>2. ASSUME NEW j \in Kicks, j # k PROVE Returned(j)'
  <2>1. CASE AttachFails(k)
    BY <1>2, <2>1, OwnOnly
       DEF AttachFails, targetVars, ReturnInv, Returned, OwnCall
  <2>2. CASE ~AttachFails(k)
    BY <1>2, <2>2, OneAttached DEF Returned
  <2> QED BY <2>1, <2>2
<1>3. Returned(k)'
  <2> USE DEF Goto, Finish, Do, Call, targetVars
  <2>1. CASE AttachFails(k) \/ Attach(k) \/ Cleanup(k) \/ Killed(k)
             \/ AttachWaitFails(k)
    BY <2>1 DEF AttachFails, Attach, Cleanup, Killed, AttachWaitFails,
                Returned, ChainInv, LabelInv
  <2>2. CASE AlarmTooEarly(k) \/ EnterWait(k)
    BY <2>2 DEF AlarmTooEarly, EnterWait, ReturnInv, Returned, OwnCall
  <2>3. CASE AttachStops(k)
    BY <2>3 DEF AttachStops, Returned
  <2>4. CASE CallStops(k)
    <3>1. ok'[k] = (Held(k) /\ AtTrap)
      BY <2>4 DEF CallStops
    <3>2. tracer = k /\ ok'[k] =>
            OwnCall(k) /\ ctx.at = "trap" /\ thread # "running"
      BY <2>4, <3>1 DEF CallStops, ReturnInv, Returned, Held, AtTrap
    <3> QED BY <2>4, <3>2, <1>1 DEF CallStops, Returned, OwnCall
  <2>5. CASE CallTimesOut(k) \/ ResumeFails(k)
    BY <2>5 DEF CallTimesOut, ResumeFails, Returned
  <2>6. CASE SaveRegs(k)
    BY <2>6 DEF SaveRegs, Returned
  <2>7. CASE Resume(k)
    BY <2>7 DEF Resume, Returned, OwnCall
  <2>8. CASE RestoreWords(k)
    <3>1. ok'[k] => ok[k]
      BY <2>8 DEF RestoreWords
    <3> QED BY <2>8, <3>1 DEF RestoreWords, ReturnInv, Returned, OwnCall
  <2>9. CASE PeekWords(k) \/ PeekGuard(k) \/ RestoreRegs(k)
             \/ PokeString(k) \/ PokeThreadStub(k) \/ PeekThreadId(k)
             \/ PeekSlots(k) \/ PokeChainStubs(k) \/ PokeSlot0(k)
             \/ PokeSlot1(k) \/ RequestFails(k)
    BY <2>9, NotIntoCall DEF Returned
  <2> QED BY <2>1, <2>2, <2>3, <2>4, <2>5, <2>6, <2>7, <2>8, <2>9
          DEF Step, Kick
<1> QED BY <1>2, <1>3 DEF ReturnInv

(* This holds in every reachable state.                                    *)
LEMMA ReturnInvariant == Spec => []ReturnInv
<1>1. TypeOK /\ ChainInv /\ ReturnInv /\ [Next]_vars => ReturnInv'
  <2> SUFFICES ASSUME TypeOK, ChainInv, ReturnInv, [Next]_vars
               PROVE  ReturnInv'
    OBVIOUS
  <2>1. CASE UNCHANGED vars
    BY <2>1 DEF vars, targetVars, kickVars, ReturnInv, Returned, OwnCall
  <2> QED BY <2>1, TargetKeepsReturns, KickKeepsReturns DEF Next, Step
<1> QED BY InitReturns, <1>1, TypeCorrect, ChainInvariant, PTL DEF Spec

(* What the command line of k asks for has been done. *)
Delivered(k) ==
  /\ cfg[k].mode = "start" /\ WouldStart(cfg[k]) => ports
  /\ cfg[k].mode = "thread" => worker[k] # "none"
  /\ cfg[k].mode = "install" => slots[0] = Stub(k, 0) /\ slots[1] = Stub(k, 1)

Delivers(k) ==
  /\ pc[k] = "tid_slot" => worker[k] # "none"
  /\ pc[k] = "slot1" => slots[0] = Stub(k, 0)
  /\ pc[k] = "cleanup" /\ status[k] = 0 /\ ~cfg[k].dry => Delivered(k)

DeliverInv == \A k \in Kicks : Delivers(k)

(* No kick has come to its end initially.                                  *)
LEMMA InitDelivers == Init => DeliverInv
BY DEF Init, DeliverInv, Delivers

(* What was delivered stays: the program only fills slots that are null.   *)
LEMMA TargetKeepsDelivers ==
  ASSUME TypeOK, DeliverInv, Target
  PROVE  DeliverInv'
<1>1. UNCHANGED <<pc, cfg, status>>
  BY TargetLeaves DEF kickVars
<1>2. ports => ports'
  BY PortsStay
<1>3. \A k \in Kicks : worker[k] # "none" => worker'[k] # "none"
  BY ThreadsStay
<1>4. \A i \in Channels : slots'[i] = slots[i] \/ slots[i] = Null
  BY DEF Target, SignalArrives, DeliverSignal, CalleeRuns, CalleeReturns,
         Fault, RegisterCallback, TargetDies, ThreadRuns, ThreadReturns, TypeOK, TargetTypeOK
<1>5. ASSUME NEW k \in Kicks, NEW i \in Channels, slots[i] = Stub(k, i)
      PROVE  slots'[i] = Stub(k, i)
  BY <1>4, <1>5 DEF Stub, Null
<1> QED BY <1>1, <1>2, <1>3, <1>5 DEF DeliverInv, Delivers, Delivered, Channels

(* When there is nothing left to do before anything was called, nothing    *)
(* was asked for.                                                          *)
LEMMA NoJob ==
  ASSUME NEW c \in AcceptedConfigs, NEW g, NEW job,
         job = Work(c, g) \/ job = FirstJob(c, g)
  PROVE  /\ job[1] = "cleanup" =>
              c.dry \/ (c.noStart /\ c.mode \notin {"thread", "install"})
         /\ job[1] \notin {"tid_slot", "slot1"}
<1>1. c.mode = "thread" => ~c.noStart
  BY DEF AcceptedConfigs
<1> QED BY <1>1, Jobs, FirstJobs

(* So a kick that goes straight to cleanup owes nothing.                   *)
LEMMA NothingAsked ==
  ASSUME NEW k \in Kicks, NEW g, NEW job, UNCHANGED cfg,
         cfg[k] \in AcceptedConfigs,
         job = Work(cfg[k], g) \/ job = FirstJob(cfg[k], g),
         pc'[k] = job[1]
  PROVE  Delivers(k)'
<1>1. pc'[k] \notin {"tid_slot", "slot1"}
  BY NoJob
<1>2. pc'[k] = "cleanup" =>
        cfg[k].dry \/ (cfg[k].noStart
                       /\ cfg[k].mode \notin {"thread", "install"})
  BY NoJob
<1> QED BY <1>1, <1>2 DEF Delivers, Delivered, WouldStart, SkipStart

(* A kick reaches cleanup with status 0 only behind the call its mode asks *)
(* for.                                                                    *)
LEMMA KickKeepsDelivers ==
  ASSUME Basis, ReturnInv, DeliverInv, NEW k \in Kicks, Step(k)
  PROVE  DeliverInv'
<1> USE DEF TypeOK, KickTypeOK
<1>1. UNCHANGED <<cfg, ports, worker>>
  BY KickLeaves
<1>2. TypeOK /\ ChainInv /\ ModeInv
  BY DEF Basis
<1> USE <1>2
<1>3. ASSUME NEW j \in Kicks, j # k PROVE Delivers(j)'
  <2>1. UNCHANGED <<pc[j], status[j]>>
    BY <1>2, <1>3, OwnOnly
  <2>2. CASE slots' = slots
    BY <1>1, <2>1, <2>2 DEF DeliverInv, Delivers, Delivered
  <2>3. CASE slots' # slots
    <3>1. ~AttachFails(k)
      BY <2>3 DEF AttachFails, targetVars
    <3>2. pc[j] \notin AttachedLabels
      BY <1>2, <1>3, <3>1, OneAttached
    <3> QED BY <2>1, <3>2 DEF Delivers, AttachedLabels, Labels
  <2> QED BY <2>2, <2>3
<1>4. Delivers(k)'
  <2> USE DEF Goto, Finish, Do, Call, targetVars
  <2> DEFINE c == cfg[k]
  <2>1. /\ c \in AcceptedConfigs /\ Fits(k)
        /\ pc[k] \in AttachedLabels => tracer = k
        /\ Delivers(k) /\ Returned(k)
    BY <1>2 DEF ModeInv, DeliverInv, ReturnInv, ChainInv, AttachInv
  <2>2. CASE PeekGuard(k)
    <3>1. CASE Refused(c, guard)
      BY <2>2, <3>1 DEF PeekGuard, Delivers
    <3>2. CASE ~Refused(c, guard)
      <4>1. pc'[k] = FirstJob(c, guard)[1]
        BY <2>2, <3>2 DEF PeekGuard
      <4> QED BY <1>1, <2>1, <4>1, NothingAsked
    <3> QED BY <3>1, <3>2
  <2>3. CASE PokeString(k)
    <3>1. pc'[k] = Work(c, gval[k])[1]
      BY <2>3 DEF PokeString
    <3> QED BY <1>1, <2>1, <3>1, NothingAsked
  <2>4. CASE PeekWords(k)
    BY <1>1, <2>1, <2>4 DEF PeekWords, Fits, Delivers, Delivered
  <2>5. CASE RestoreRegs(k)
    <3> DEFINE s == stage[k]
               job == AfterCall(c, s, ok[k] /\ Held(k), r0)
    <3>1. CASE job[1] = "failed"
      BY <2>5, <3>1 DEF RestoreRegs, Delivers
    <3>2. CASE job[1] # "failed"
      <4>1. pc'[k] = job[1] /\ stage'[k] = job[2] /\ pc[k] = "regs"
        BY <2>5, <3>2 DEF RestoreRegs
      <4>2. \/ s \in {"tflush", "vflush", "string", "tmalloc", "vmalloc"}
               /\ job[1] \notin {"tid_slot", "slot1", "cleanup"}
            \/ s = "start"   /\ job = AfterStart(c) /\ ok[k]
            \/ s = "create"  /\ job = <<"tid_slot", s>> /\ ok[k] /\ r0
        BY <3>2 DEF AfterCall
      <4> HIDE DEF job
      <4>3. CASE s = "create" /\ ok[k] /\ r0
        <5>1. worker[k] # "none"
          BY <2>1, <4>1, <4>3 DEF Returned, OwnCall, Callee, AttachedLabels,
                                  Labels
        <5> QED BY <1>1, <4>1, <4>2, <4>3, <5>1 DEF Delivers
      <4>4. CASE s = "start" /\ ok[k] /\ job = AfterStart(c)
        <5>1. WouldStart(c) => ports
          BY <2>1, <4>1, <4>4 DEF Returned, OwnCall, Callee, AttachedLabels,
                                  Labels, WouldStart
        <5>2. c.mode # "thread" \/ c.dry
          BY <2>1, <4>4 DEF Fits
        <5>3. c.mode # "install" => pc'[k] = "cleanup"
          BY <4>1, <4>4 DEF AfterStart
        <5>4. c.mode = "install" => pc'[k] = "slots"
          BY <4>1, <4>4 DEF AfterStart
        <5> QED BY <1>1, <5>1, <5>2, <5>3, <5>4 DEF Delivers, Delivered
      <4>5. CASE job[1] \notin {"tid_slot", "slot1", "cleanup"}
        BY <4>1, <4>5 DEF Delivers
      <4> QED BY <4>2, <4>3, <4>4, <4>5
    <3> QED BY <3>1, <3>2
  <2>6. CASE PeekThreadId(k)
    <3>1. c.mode = "thread" /\ worker[k] # "none"
      BY <1>2, <2>1, <2>6
         DEF PeekThreadId, Fits, Delivers, ChainInv, LabelInv
    <3> QED BY <1>1, <2>6, <3>1 DEF PeekThreadId, Delivers, Delivered
  <2>7. CASE PeekSlots(k)
    BY <1>1, <2>7 DEF PeekSlots, Delivers
  <2>8. CASE PokeSlot0(k)
    BY <2>8 DEF PokeSlot0, PokeSlot, Delivers, TargetTypeOK, Channels
  <2>9. CASE PokeSlot1(k)
    <3>1. c.mode = "install" /\ slots[0] = Stub(k, 0) /\ pc[k] = "slot1"
      BY <1>2, <2>1, <2>9
         DEF PokeSlot1, PokeSlot, Fits, Delivers, ChainInv, LabelInv,
             Installing
    <3>2. slots'[0] = Stub(k, 0) /\ slots'[1] = Stub(k, 1)
      BY <2>9, <3>1 DEF PokeSlot1, PokeSlot, TargetTypeOK, Channels
    <3>3. pc'[k] = "cleanup"
      BY <2>9 DEF PokeSlot1, PokeSlot
    <3> QED BY <1>1, <3>1, <3>2, <3>3 DEF Delivers, Delivered
  <2>10. CASE RequestFails(k)
    <3>1. CASE pc[k] = "call" /\ stage[k] \in {"tflush", "vflush"}
      <4>1. pc'[k] \in {"call", "slot0"}
        BY <2>10, <3>1 DEF RequestFails, AfterCall
      <4> QED BY <4>1 DEF Delivers
    <3>2. CASE ~(pc[k] = "call" /\ stage[k] \in {"tflush", "vflush"})
      <4>1. pc'[k] = "cleanup" /\ status'[k] = 1
        BY <2>10, <3>2 DEF RequestFails
      <4> QED BY <4>1 DEF Delivers
    <3> QED BY <3>1, <3>2
  <2>11. CASE AttachFails(k) \/ Attach(k) \/ AlarmTooEarly(k)
              \/ EnterWait(k) \/ AttachStops(k) \/ AttachWaitFails(k)
              \/ CallStops(k) \/ CallTimesOut(k) \/ SaveRegs(k)
    BY <2>11 DEF AttachFails, Attach, AlarmTooEarly, EnterWait, AttachStops,
       AttachWaitFails, CallStops, CallTimesOut, SaveRegs, Delivers
  <2>12. CASE Resume(k) \/ ResumeFails(k) \/ RestoreWords(k)
              \/ PokeThreadStub(k) \/ PokeChainStubs(k) \/ Cleanup(k)
              \/ Killed(k)
    BY <2>12 DEF Resume, ResumeFails, RestoreWords, PokeThreadStub,
       PokeChainStubs, Cleanup, Killed, Delivers
  <2> QED BY <2>2, <2>3, <2>4, <2>5, <2>6, <2>7, <2>8, <2>9, <2>10, <2>11,
             <2>12 DEF Step, Kick
<1> QED BY <1>3, <1>4 DEF DeliverInv

(* This holds in every reachable state.                                    *)
LEMMA DeliverInvariant == Spec => []DeliverInv
<1>1. Basis /\ ReturnInv /\ DeliverInv /\ [Next]_vars => DeliverInv'
  <2> SUFFICES ASSUME Basis, ReturnInv, DeliverInv, [Next]_vars
               PROVE  DeliverInv'
    OBVIOUS
  <2>1. CASE UNCHANGED vars
    BY <2>1 DEF vars, targetVars, kickVars, DeliverInv, Delivers, Delivered
  <2>2. CASE Target
    BY <2>2, TargetKeepsDelivers DEF Basis
  <2> QED BY <2>1, <2>2, KickKeepsDelivers DEF Next, Step
<1> QED BY InitDelivers, <1>1, BasisInvariant, ReturnInvariant, PTL DEF Spec

(* Exit status 0 without --dry-run: the listeners are up, the thread was   *)
(* made, or both slots hold this kick's stubs.                             *)
THEOREM SuccessIsDelivery == Spec => SuccessDelivers
<1> DEFINE Works == \A k \in Kicks : Succeeds(k) /\ ~cfg[k].dry =>
             /\ cfg[k].mode = "start" /\ WouldStart(cfg[k]) => ports'
             /\ cfg[k].mode = "thread" => worker'[k] # "none"
             /\ cfg[k].mode = "install" =>
                  \A i \in Channels : slots'[i] = Stub(k, i)
<1>1. TypeOK /\ DeliverInv /\ [Next]_vars => [Works]_vars
  <2> SUFFICES ASSUME TypeOK, DeliverInv, Next, NEW k \in Kicks, Succeeds(k),
                      ~cfg[k].dry
               PROVE  Delivered(k) /\ UNCHANGED <<ports, worker, slots>>
    BY DEF Delivered, Channels
  <2> QED BY SuccessDetaches DEF Succeeds, DeliverInv, Delivers
<1> QED BY TypeCorrect, DeliverInvariant, <1>1, PTL
        DEF Spec, SuccessDelivers

-----------------------------------------------------------------------------
(* ht_rtsp_start is not run twice *)

(* Nobody asks for ht_rtsp_start with --no-guard-check. *)
Checked == \A k \in Kicks : ~Unchecked(cfg[k])

(* Kick k has read the guard and is on its way to ht_rtsp_start: to its    *)
(* first instruction, or to the thread that will call it.                  *)
Underway(k) ==
  /\ cfg[k].func = "start"
  /\ \/ /\ stage[k] = "string" /\ ~SkipStart(cfg[k], gval[k])
        /\ pc[k] \in AttachedLabels \ {"cleanup"}
     \/ /\ stage[k] \in {"tmalloc", "tflush"}
        /\ pc[k] \in AttachedLabels \ {"cleanup"}
     \/ /\ stage[k] \in {"start", "create"}
        /\ \/ pc[k] \in {"call", "resume"}
           \/ pc[k] \in {"arm", "wait"} /\ ctx.at = "entry"

(* Only one start is on its way, in a kick or in a thread that is due, and *)
(* only before the first; after it the guard is set.                       *)
StartInv ==
  ~Blamed /\ Checked /\ raced = {} =>
    /\ starts = 0 \/ (starts = 1 /\ guard)
    /\ \A k \in Kicks : Underway(k) =>
         starts = 0 /\ \A j \in Kicks : ~StartDue(j)
    /\ \A k \in Kicks : StartDue(k) =>
         starts = 0 /\ \A j \in Kicks : StartDue(j) => j = k

(* A kick under way is the tracer. *)
LEMMA UnderwayAttached ==
  ASSUME ChainInv, NEW k \in Kicks, Underway(k)
  PROVE  tracer = k /\ pc[k] \in AttachedLabels
BY DEF Underway, ChainInv, AttachInv, AttachedLabels, Labels

(* Nothing has been started initially.                                     *)
LEMMA InitStarts == Init => StartInv
BY DEF Init, StartInv, Underway, StartDue

(* A step that starts nothing, makes no thread and sends nobody on its way *)
(* keeps the invariant.                                                    *)
LEMMA NothingStarts ==
  ASSUME StartInv, ~Blamed, Checked, raced = {},
         UNCHANGED <<guard, starts>>,
         \A k \in Kicks : StartDue(k)' => StartDue(k),
         \A k \in Kicks : Underway(k)' =>
           Underway(k) \/ (starts = 0 /\ \A j \in Kicks : ~StartDue(j))
  PROVE  StartInv'
BY DEF StartInv

(* The registers go through a remote call from its first instruction to    *)
(* its return.                                                             *)
LEMMA CalleeSteps ==
  ASSUME TypeOK, Target, NEW k \in Kicks, Underway(k)'
  PROVE  Underway(k)
<1>1. UNCHANGED <<pc, stage, gval, cfg>>
  BY TargetLeaves DEF kickVars
<1>2. ctx'.at = "entry" => ctx.at = "entry"
  BY DEF Target, SignalArrives, DeliverSignal, CalleeRuns, CalleeReturns,
         Fault, RegisterCallback, TargetDies, ThreadRuns, ThreadReturns,
         TypeOK, TargetTypeOK, Context
<1> QED BY <1>1, <1>2 DEF Underway

(* The thread runs into the function its tracer calls.                     *)
LEMMA WhoCalls ==
  ASSUME TypeOK, ChainInv, CallInv, ReturnInv, ~Blamed, CalleeRuns
  PROVE  \E j \in Kicks :
           /\ tracer = j /\ pc[j] \in {"arm", "wait"}
           /\ ctx.fn = Callee(cfg[j], stage[j]) /\ ctx.by = j
           /\ stage[j] # "attach"
<1>1. thread = "running" /\ ctx.at = "entry"
  BY DEF CalleeRuns, Executes, Runs
<1>2. ctx # Own
  BY <1>1 DEF Own
<1>3. PICK j \in Kicks : InCall(j)
  BY <1>1, <1>2 DEF CallInv
<1>4. tracer = j
  BY <1>3 DEF ChainInv, AttachInv, InCall, AttachedLabels, Labels
<1>5. pc[j] \in {"arm", "wait"}
  BY <1>1, <1>3 DEF CallInv, InCall, AttachedLabels, Labels
<1>6. OwnCall(j)
  BY <1>3, <1>4, <1>5 DEF ReturnInv, Returned, InCall
<1> QED BY <1>3, <1>4, <1>5, <1>6 DEF OwnCall, InCall

(* The target runs ht_rtsp_start only for the one kick or thread that is   *)
(* about to start it.                                                      *)
LEMMA TargetKeepsStarts ==
  ASSUME TypeOK, ChainInv, CallInv, ReturnInv, StartInv, Target
  PROVE  StartInv'
<1>1. UNCHANGED <<pc, stage, gval, cfg, late, raced, tracer, nkill>>
  BY TargetLeaves DEF kickVars
<1> SUFFICES ASSUME ~Blamed', Checked', raced' = {} PROVE StartInv'
  BY DEF StartInv
<1>2. ~Blamed /\ Checked /\ raced = {}
  BY <1>1 DEF Blamed, Checked
<1> USE DEF TypeOK, TargetTypeOK
<1>3. CASE CalleeRuns
  <2>1. PICK j \in Kicks :
           /\ tracer = j /\ pc[j] \in {"arm", "wait"}
           /\ ctx.fn = Callee(cfg[j], stage[j]) /\ ctx.by = j
           /\ stage[j] # "attach"
    BY <1>2, <1>3, WhoCalls
  <2>2. ctx.at = "entry" /\ ctx'.at = "mid"
    BY <1>3 DEF CalleeRuns, Context
  <2>3. \A k \in Kicks : k # j => ~Underway(k)
    BY <2>1, UnderwayAttached
  <2>4. CASE ctx.fn = "start"
    <3>1. stage[j] = "start" /\ cfg[j].func = "start"
      BY <2>1, <2>4 DEF Callee
    <3>2. starts = 0 /\ \A k \in Kicks : ~StartDue(k)
      BY <1>2, <2>1, <2>2, <3>1 DEF StartInv, Underway
    <3>3. starts' = 1
      <4>1. starts' = starts + 1 BY <1>3, <2>4 DEF CalleeRuns
      <4> QED BY <3>2, <4>1
    <3>4. guard'
      BY <1>3, <2>4, Zenon DEF CalleeRuns
    <3>5. worker' = worker
      BY <1>3, <2>4 DEF CalleeRuns
    <3>6. \A k \in Kicks : ~StartDue(k)'
      BY <1>1, <3>2, <3>5 DEF StartDue
    <3>7. ~Underway(j)'
      BY <1>1, <2>1, <2>2, <3>1 DEF Underway
    <3>8. \A k \in Kicks : ~Underway(k)'
      BY <2>3, <3>7, CalleeSteps
    <3> QED BY <3>3, <3>4, <3>6, <3>8 DEF StartInv
  <2>5. CASE ctx.fn = "create" /\ worker' # worker /\ cfg[j].func = "start"
    <3>1. stage[j] = "create"
      BY <2>1, <2>5 DEF Callee, Stages, KickTypeOK
    <3>2. starts = 0 /\ \A k \in Kicks : ~StartDue(k)
      BY <1>2, <2>1, <2>2, <2>5, <3>1 DEF StartInv, Underway
    <3>3. starts' = starts /\ worker' = [worker EXCEPT ![j] = "made"]
      BY <1>3, <2>1, <2>5 DEF CalleeRuns
    <3>4. \A k \in Kicks : StartDue(k)' => k = j
      BY <1>1, <3>2, <3>3 DEF StartDue
    <3>5. ~Underway(j)'
      BY <1>1, <2>1, <2>2, <3>1 DEF Underway
    <3>6. \A k \in Kicks : ~Underway(k)'
      BY <2>3, <3>5, CalleeSteps
    <3> QED BY <3>2, <3>3, <3>4, <3>6 DEF StartInv
  <2>6. CASE /\ ctx.fn # "start"
             /\ ctx.fn = "create" /\ worker' # worker => cfg[j].func # "start"
    <3>1. starts' = starts
      BY <1>3, <2>6 DEF CalleeRuns
    <3>2. guard' = guard
      BY <1>3, <2>6, Zenon DEF CalleeRuns
    <3>3. \A k \in Kicks : StartDue(k)' => StartDue(k)
      <4>1. \/ worker' = worker
            \/ /\ worker' = [worker EXCEPT ![j] = "made"]
               /\ cfg[j].func # "start"
        BY <1>3, <2>1, <2>6 DEF CalleeRuns
      <4> QED BY <1>1, <4>1 DEF StartDue
    <3> QED BY <1>2, <3>1, <3>2, <3>3, CalleeSteps, NothingStarts
  <2> QED BY <2>4, <2>5, <2>6
<1>4. ASSUME NEW j \in Kicks, ThreadRuns(j) PROVE StartInv'
  <2>1. worker' = [worker EXCEPT ![j] = "runs"] /\ worker[j] = "made"
    BY <1>4 DEF ThreadRuns
  <2>2. \A k \in Kicks : StartDue(k)' => StartDue(k) /\ k # j
    BY <1>1, <2>1 DEF StartDue
  <2>3. CASE cfg[j].func = "start"
    <3>1. StartDue(j)
      BY <2>1, <2>3 DEF StartDue
    <3>2. /\ starts = 0
          /\ \A k \in Kicks : ~Underway(k)
          /\ \A k \in Kicks : StartDue(k) => k = j
      BY <1>2, <3>1 DEF StartInv
    <3>3. starts' = 1
      <4>1. starts' = starts + 1 BY <1>4, <2>3 DEF ThreadRuns
      <4> QED BY <3>2, <4>1
    <3>4. guard'
      BY <1>4, <2>3, Zenon DEF ThreadRuns
    <3>5. \A k \in Kicks : ~Underway(k)' /\ ~StartDue(k)'
      BY <2>2, <3>2, CalleeSteps
    <3> QED BY <3>3, <3>4, <3>5 DEF StartInv
  <2>4. CASE cfg[j].func # "start"
    <3>1. starts' = starts
      BY <1>4, <2>4 DEF ThreadRuns
    <3>2. guard' = guard
      BY <1>4, <2>4, Zenon DEF ThreadRuns
    <3> QED BY <1>2, <2>2, <3>1, <3>2, CalleeSteps, NothingStarts
  <2> QED BY <2>3, <2>4
<1>5. CASE ~CalleeRuns /\ \A k \in Kicks : ~ThreadRuns(k)
  <2>1. UNCHANGED <<guard, starts>>
    BY <1>5 DEF Target, SignalArrives, DeliverSignal, CalleeReturns, Fault,
                RegisterCallback, TargetDies, ThreadReturns
  <2>2. \A k \in Kicks : worker'[k] = "made" => worker[k] = "made"
    BY <1>5 DEF Target, SignalArrives, DeliverSignal, CalleeReturns, Fault,
                RegisterCallback, TargetDies, ThreadReturns
  <2>3. \A k \in Kicks : StartDue(k)' => StartDue(k)
    BY <1>1, <2>2 DEF StartDue
  <2> QED BY <1>2, <2>1, <2>3, CalleeSteps, NothingStarts
<1> QED BY <1>3, <1>4, <1>5

(* A job that calls func_vaddr, now or after the string has been stored.   *)
Leads(c, g, job) ==
  \/ job[1] = "call" /\ job[2] \in {"start", "tmalloc"}
  \/ job[2] = "string" /\ ~SkipStart(c, g)

(* It is chosen only when the call is not to be skipped, and without       *)
(* --no-guard-check only on a zero guard.                                  *)
LEMMA StartJob ==
  ASSUME NEW c \in AcceptedConfigs, NEW g, NEW job,
         job = Work(c, g) \/ job = FirstJob(c, g), Leads(c, g, job)
  PROVE  /\ ~SkipStart(c, g) /\ ~SkipStart(c, FALSE)
         /\ c.force \/ Refused(c, g) \/ ~g
<1>1. ~SkipStart(c, g)
  BY DEF Leads, Work, FirstJob, AfterStart
<1> QED BY <1>1 DEF SkipStart, Refused

(* Where a kick goes with such a job it is under way. *)
LEMMA JobUnderway ==
  ASSUME NEW k \in Kicks, Underway(k)', NEW job, cfg' = cfg,
         job = Work(cfg[k], gval'[k]) \/ job = FirstJob(cfg[k], gval'[k]),
         pc'[k] = job[1], stage'[k] = job[2]
  PROVE  Leads(cfg[k], gval'[k], job)
<1>1. job \in {<<"call", "string">>, <<"call", "tmalloc">>,
               <<"call", "start">>, <<"slots", "start">>,
               <<"cleanup", "start">>}
  BY EarlyJobs
<1> QED BY <1>1 DEF Underway, Leads

(* A kick goes to ht_rtsp_start only from a zero guard that it has read    *)
(* itself, while no thread is due.                                         *)
LEMMA GuardRead ==
  ASSUME TypeOK, ModeInv, StartInv, ~Blamed, Checked, raced' = {}, raced = {},
         NEW k \in Kicks, PeekGuard(k), Underway(k)'
  PROVE  starts = 0 /\ \A j \in Kicks : ~StartDue(j)
<1> USE DEF TypeOK, KickTypeOK, TargetTypeOK, Goto, Finish, Do
<1>1. cfg' = cfg /\ gval'[k] = guard /\ pc[k] = "guard"
  BY DEF PeekGuard
<1>2. ~Refused(cfg[k], guard)
  BY DEF PeekGuard, Underway
<1> DEFINE job == FirstJob(cfg[k], guard)
<1>3. pc'[k] = job[1] /\ stage'[k] = job[2]
  BY <1>2 DEF PeekGuard
<1>4. Leads(cfg[k], guard, job)
  BY <1>1, <1>3, JobUnderway
<1>5. cfg[k] \in AcceptedConfigs /\ cfg[k].mode # "peek"
  BY <1>1 DEF ModeInv, Fits
<1>6. ~SkipStart(cfg[k], FALSE) /\ (cfg[k].force \/ ~guard)
  <2>1. job = FirstJob(cfg[k], guard) OBVIOUS
  <2> HIDE DEF job
  <2>2. cfg[k].force \/ Refused(cfg[k], guard) \/ ~guard
    BY <1>4, <1>5, <2>1, StartJob
  <2>3. ~SkipStart(cfg[k], FALSE)
    BY <1>4, <1>5, <2>1, StartJob
  <2> QED BY <1>2, <2>2, <2>3
<1>7. WouldStart(cfg[k])
  BY <1>1, <1>5, <1>6 DEF WouldStart, Underway
<1>8. ~guard
  BY <1>6, <1>7 DEF Checked, Unchecked
<1>9. \A j \in Kicks : ~StartDue(j)
  BY <1>7, <1>8 DEF PeekGuard
<1> QED BY <1>8, <1>9 DEF StartInv

(* After a remote call a kick is under way only if it was before.          *)
LEMMA StaysUnderway ==
  ASSUME TypeOK, ChainInv, NEW k \in Kicks, Step(k), ~PeekGuard(k),
         Underway(k)'
  PROVE  Underway(k)
<1> USE DEF TypeOK, KickTypeOK, Goto, Finish, Do, Call, AttachedLabels, Labels,
            targetVars
<1>1. cfg' = cfg /\ gval' = gval
  BY KickLeaves, Effects
<1>2. CASE AttachFails(k) \/ Attach(k) \/ AttachStops(k)
           \/ AttachWaitFails(k) \/ PeekWords(k) \/ PeekThreadId(k)
           \/ Cleanup(k) \/ Killed(k)
  BY <1>2 DEF AttachFails, Attach, AttachStops, AttachWaitFails, PeekWords,
              PeekThreadId, Cleanup, Killed, Underway, ChainInv, LabelInv
<1>3. CASE AlarmTooEarly(k) \/ EnterWait(k)
  BY <1>1, <1>3 DEF AlarmTooEarly, EnterWait, Underway
<1>4. CASE CallStops(k) \/ CallTimesOut(k) \/ SaveRegs(k) \/ Resume(k)
           \/ ResumeFails(k) \/ RestoreWords(k)
  BY <1>1, <1>4 DEF CallStops, CallTimesOut, SaveRegs, Resume, ResumeFails,
                    RestoreWords, Underway
<1>5. CASE RestoreRegs(k)
  <2> DEFINE s == stage[k]
             job == AfterCall(cfg[k], s, ok[k] /\ Held(k), r0)
  <2>1. pc[k] = "regs"
    BY <1>5 DEF RestoreRegs
  <2>2. job[1] # "failed"
    BY <1>5 DEF RestoreRegs, Underway
  <2>3. pc'[k] = job[1] /\ stage'[k] = job[2]
    BY <1>5, <2>2 DEF RestoreRegs
  <2>4. \/ s = "tflush"
        \/ job[2] = s /\ job[1] \notin {"call", "resume", "arm", "wait"}
    BY <2>2 DEF AfterCall, AfterStart
  <2> HIDE DEF job
  <2> QED BY <1>1, <2>1, <2>3, <2>4 DEF Underway
<1>6. CASE PokeString(k)
  <2> DEFINE job == Work(cfg[k], gval[k])
  <2>1. pc'[k] = job[1] /\ stage'[k] = job[2] /\ pc[k] = "argbytes"
    BY <1>6 DEF PokeString
  <2>2. stage[k] = "string"
    BY <2>1 DEF ChainInv, LabelInv
  <2>3. Leads(cfg[k], gval[k], job)
    BY <1>1, <2>1, JobUnderway
  <2>4. ~SkipStart(cfg[k], gval[k])
    BY <2>3, StartJob
  <2> QED BY <1>1, <2>1, <2>2, <2>4 DEF Underway
<1>7. CASE PokeThreadStub(k) \/ PeekSlots(k) \/ PokeChainStubs(k)
           \/ PokeSlot0(k) \/ PokeSlot1(k)
  BY <1>1, <1>7 DEF PokeThreadStub, PeekSlots, PokeChainStubs, PokeSlot0,
                    PokeSlot1, PokeSlot, Underway, ChainInv, LabelInv
<1>8. CASE RequestFails(k)
  <2>1. CASE pc[k] = "call" /\ stage[k] = "tflush"
    BY <1>1, <1>8, <2>1 DEF RequestFails, AfterCall, Underway
  <2>2. CASE pc[k] = "call" /\ stage[k] = "vflush"
    BY <1>1, <1>8, <2>2 DEF RequestFails, AfterCall, Underway
  <2>3. CASE ~(pc[k] = "call" /\ stage[k] \in {"tflush", "vflush"})
    BY <1>8, <2>3 DEF RequestFails, Underway
  <2> QED BY <2>1, <2>2, <2>3
<1> QED BY <1>2, <1>3, <1>4, <1>5, <1>6, <1>7, <1>8 DEF Step, Kick

(* A kick decides from the word it read under the same attach.             *)
LEMMA KickKeepsStarts ==
  ASSUME TypeOK, ChainInv, ModeInv, StartInv, NEW k \in Kicks, Step(k)
  PROVE  StartInv'
<1> SUFFICES ASSUME ~Blamed', Checked', raced' = {} PROVE StartInv'
  BY DEF StartInv
<1>1. UNCHANGED <<guard, starts, worker, cfg>>
  BY KickLeaves
<1>2. Checked /\ raced = {}
  BY <1>1, Effects DEF Checked
<1>3. ~Blamed
  BY Effects DEF Blamed, Killed, TypeOK, TargetTypeOK
<1>4. \A j \in Kicks : StartDue(j)' => StartDue(j)
  BY <1>1 DEF StartDue
<1>5. Underway(k)' =>
        Underway(k) \/ (starts = 0 /\ \A j \in Kicks : ~StartDue(j))
  BY <1>2, <1>3, GuardRead, StaysUnderway
<1>6. ASSUME NEW j \in Kicks, j # k, Underway(j)' PROVE Underway(j)
  <2>1. pc'[j] = pc[j] /\ stage'[j] = stage[j] /\ gval'[j] = gval[j]
    BY <1>6, OwnOnly
  <2>2. CASE AttachFails(k)
    BY <1>1, <1>6, <2>1, <2>2 DEF AttachFails, targetVars, Underway
  <2>3. CASE ~AttachFails(k)
    <3>1. pc[j] \notin AttachedLabels
      BY <1>6, <2>3, OneAttached
    <3> QED BY <1>6, <2>1, <3>1 DEF Underway, AttachedLabels, Labels
  <2> QED BY <2>2, <2>3
<1> QED BY <1>1, <1>2, <1>3, <1>4, <1>5, <1>6, NothingStarts

(* Kicks that check the guard start ht_rtsp_start once at most, in the     *)
(* attached thread or in a new one, unless a wait timed out, a kick was    *)
(* killed, or one read the guard before a thread made by another ran.      *)
THEOREM StartsOnce == Spec => []StartOnce
<1>1. Basis /\ ReturnInv /\ StartInv /\ [Next]_vars => StartInv'
  <2> SUFFICES ASSUME TypeOK, ChainInv, CallInv, ModeInv, ReturnInv, StartInv,
                      [Next]_vars
               PROVE  StartInv'
    BY DEF Basis
  <2>1. CASE UNCHANGED vars
    BY <2>1 DEF vars, targetVars, kickVars, StartInv, Underway, StartDue,
                Blamed, Checked
  <2> QED BY <2>1, TargetKeepsStarts, KickKeepsStarts DEF Next, Step
<1>2. StartInv => StartOnce
  BY DEF StartInv, StartOnce, Checked
<1> QED BY InitStarts, <1>1, <1>2, BasisInvariant, ReturnInvariant, PTL
        DEF Spec

-----------------------------------------------------------------------------
(* A dry run *)

(* A kick that only reads never gets as far as a remote call or a patch.   *)
LEMMA ReaderOnlyReads ==
  ASSUME ChainInv, ModeInv, NEW k \in Kicks, ReadsOnly(cfg[k])
  PROVE  /\ ~InCall(k)
         /\ pc[k] \notin {"call", "resume", "words", "regs", "slot0", "slot1"}
BY DEF ChainInv, LabelInv, ModeInv, Fits, InCall

(* While --dry-run or --peek-vaddr is attached the thread, its stack, the  *)
(* heap and the guard stay as they are, no thread is made and no slot is   *)
(* redirected; only a thread an earlier kick made may begin.               *)
THEOREM DryRunIsDry == Spec => DryRunTouchesNothing
<1> DEFINE Untouched ==
             \A k \in Kicks : tracer = k /\ ReadsOnly(cfg[k]) /\ ~Blamed =>
               /\ UNCHANGED <<ctx, word, heapBusy>>
               /\ \A j \in Kicks : worker'[j] = "made" => worker[j] = "made"
               /\ UNCHANGED <<guard, starts>> \/ EarlierThreadRuns
               /\ \A i \in Channels :
                    slots'[i].kind = "stub" => slots'[i] = slots[i]
<1>1. Basis /\ [Next]_vars => [Untouched]_vars
  <2> SUFFICES ASSUME TypeOK, ChainInv, CallInv, ModeInv, Next,
                      NEW k \in Kicks, tracer = k, ReadsOnly(cfg[k]), ~Blamed
               PROVE  /\ UNCHANGED <<ctx, word, heapBusy>>
                      /\ \A j \in Kicks :
                           worker'[j] = "made" => worker[j] = "made"
                      /\ UNCHANGED <<guard, starts>> \/ EarlierThreadRuns
                      /\ \A i \in Channels :
                           slots'[i].kind = "stub" => slots'[i] = slots[i]
    BY DEF Basis
  <2>1. CASE Target
    <3>1. Runs => ctx = Own
      <4>1. \A j \in Kicks : ~InCall(j)
        BY ReaderOnlyReads
           DEF ChainInv, AttachInv, InCall, AttachedLabels, Labels
      <4> QED BY <4>1 DEF CallInv, Runs
    <3>2. ~CalleeRuns /\ ~CalleeReturns
      <4>1. Own.at = "mid" /\ Own.fn \notin Functions
        BY DEF Own, Functions
      <4> QED BY <3>1, <4>1 DEF CalleeRuns, CalleeReturns, Executes
    <3>3. UNCHANGED <<ctx, word, heapBusy>>
      BY <2>1, <3>2 DEF Target, SignalArrives, DeliverSignal, Fault,
                        RegisterCallback, TargetDies, ThreadRuns,
                        ThreadReturns
    <3>4. \A j \in Kicks : worker'[j] = "made" => worker[j] = "made"
      BY <2>1, <3>2 DEF Target, SignalArrives, DeliverSignal, Fault,
                        RegisterCallback, TargetDies, ThreadRuns,
                        ThreadReturns, TypeOK, TargetTypeOK
    <3>5. UNCHANGED <<guard, starts>> \/ EarlierThreadRuns
      <4>1. ASSUME NEW j \in Kicks, ThreadRuns(j) PROVE EarlierThreadRuns
        BY <4>1 DEF ThreadRuns, EarlierThreadRuns, TypeOK, TargetTypeOK
      <4>2. CASE \A j \in Kicks : ~ThreadRuns(j)
        BY <2>1, <3>2, <4>2
           DEF Target, SignalArrives, DeliverSignal, Fault, RegisterCallback,
               TargetDies, ThreadReturns
      <4> QED BY <4>1, <4>2
    <3>6. \A i \in Channels : slots'[i] \in {slots[i], Wrapper(i)}
      BY <2>1, <3>2 DEF Target, SignalArrives, DeliverSignal, Fault,
         RegisterCallback, TargetDies, ThreadRuns, ThreadReturns, TypeOK,
         TargetTypeOK
    <3>7. \A i : Wrapper(i).kind = "tuya"
      BY DEF Wrapper
    <3>8. \A i \in Channels :
            slots'[i].kind = "stub" => slots'[i] = slots[i]
      BY <3>6, <3>7
    <3> QED BY <3>3, <3>4, <3>5, <3>8
  <2>2. CASE \E j \in Kicks : Step(j)
    <3>1. PICK j \in Kicks : Step(j)
      BY <2>2
    <3>2. CASE AttachFails(j)
      BY <3>2 DEF AttachFails, targetVars
    <3>3. CASE ~AttachFails(j)
      <4>1. j = k
        BY <3>1, <3>3, OneAttached
      <4>2. pc[k] \notin {"call", "resume", "words", "regs", "slot0", "slot1"}
        BY ReaderOnlyReads
      <4> QED BY <3>1, <4>1, <4>2, Effects, KickLeaves
              DEF Resume, RestoreRegs, SaveRegs, RestoreWords, PokeSlot0,
                  PokeSlot1, PokeSlot
    <3> QED BY <3>2, <3>3
  <2> QED BY <2>1, <2>2 DEF Next, Step
<1> QED BY BasisInvariant, <1>1, PTL DEF Spec, DryRunTouchesNothing
=============================================================================
