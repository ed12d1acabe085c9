------------------------------ MODULE RtspKick ------------------------------
(***************************************************************************)
(* src/rtsp_kick.c: a process that attaches to one thread of anyka_ipc     *)
(* with ptrace, makes that thread call functions of its own program, and   *)
(* patches the two video callback slots.  Several instances may run (the   *)
(* boot script, the speaker script, a person at a telnet prompt).          *)
(*                                                                         *)
(* The step of the model is one ptrace request, or one run of requests     *)
(* that only the death of the target can interrupt.  The target thread,    *)
(* the signals and the kernel side of ptrace are external: they are        *)
(* modelled from what rtsp_kick.c relies on.                               *)
(***************************************************************************)
EXTENDS Naturals

CONSTANTS
  Kicks,         \* the rtsp_kick processes
  NoKick,        \* "no tracer"
  Configs,       \* the command lines they may be started with
  MaxSignals,    \* bound: signals other than SIGSTOP sent to the target
  MaxKills,      \* bound: rtsp_kick processes killed from outside
  AlarmRace,     \* may SIGALRM arrive between alarm() and waitpid()?
  TargetMayDie   \* may the target die, or a callee fault, on its own?

Modes == {"start", "install", "thread", "peek"}

Channels == 0 .. 1

(* What main() accepts after its conflict checks: the mode, the function   *)
(* of --func-vaddr (ht_rtsp_start unless another is given), --dry-run,     *)
(* --no-guard-check, --no-start-call and --arg0-string.  "install" and     *)
(* "thread" are exclusive, and "thread" refuses --no-start-call.           *)
AcceptedConfigs ==
  { c \in [mode : Modes, func : {"start", "other"}, dry : BOOLEAN,
           force : BOOLEAN, noStart : BOOLEAN, arg0 : BOOLEAN] :
      c.mode = "thread" => ~c.noStart }

ASSUME KickAssumption ==
  /\ NoKick \notin Kicks
  /\ Configs \subseteq AcceptedConfigs
  /\ MaxSignals \in Nat
  /\ MaxKills \in Nat
  /\ AlarmRace \in BOOLEAN
  /\ TargetMayDie \in BOOLEAN

VARIABLES
  \* the target thread and the process around it
  thread,     \* "running", "stopped" (ptrace stop), "dead" or "crashed"
  tracer,     \* the process attached to it, or NoKick
  stopSig,    \* the signal of the current ptrace stop
  pending,    \* signals sent to the thread and not yet delivered
  groupStop,  \* a SIGSTOP was delivered: the whole process is stopped
  ctx,        \* its registers: the function they are in, where, for whom
  r0,         \* did the last call return what its caller hopes for?
  word,       \* the stack word at SP: its own, or an argument put there
  heapBusy,   \* the lock malloc takes is held
  guard,      \* the word at guard_vaddr is not zero
  ports,      \* ht_rtsp_start ran to its end: ports 88 and 89 listen
  starts,     \* how often ht_rtsp_start ran past its first instruction
  worker,     \* the thread ak_thread_create made for each kick
  slots,      \* the two video callback slots
  \* the rtsp_kick processes
  pc, cfg,
  stage,      \* which remote call, or the attach, is being waited for
  saved,      \* original_regs
  savedWord,  \* saved_stack_words[0]
  ok,         \* call_status of remote_call is still 0
  gval,       \* guard_value
  orig,       \* current_cb0 and current_cb1, built into the stubs
  written,    \* kicks whose video stubs are complete in memory
  timer,      \* SIGALRM of wait_for_stop: "armed", "lost" or "off"
  status,     \* call_status of main, then the exit status
  \* history, read by properties only
  late,       \* kicks one of whose waits timed out
  found,      \* the registers a kick found when it attached
  raced,      \* kicks that read a zero guard before such a thread ran
  nsig, nkill

targetVars == <<thread, tracer, stopSig, pending, groupStop, ctx, r0, word,
                heapBusy, guard, ports, starts, worker, slots>>
kickVars   == <<pc, cfg, stage, saved, savedWord, ok, gval, orig, written,
                timer, status, late, found, raced>>
vars       == <<targetVars, kickVars, nsig, nkill>>

-----------------------------------------------------------------------------
(* Values *)

Stages    == {"attach", "string", "start", "tmalloc", "tflush", "create",
              "vmalloc", "vflush"}
Functions == {"malloc", "flush", "start", "create", "other"}
Labels    == {"attach", "arm", "wait", "peek", "guard", "call", "resume",
              "words", "regs", "argbytes", "thread_stub", "tid_slot",
              "slots", "chain_stub", "slot0", "slot1", "cleanup", "done"}

(* Labels between PTRACE_ATTACH and the end of the process. *)
AttachedLabels == Labels \ {"attach", "done"}

Context == [fn : Functions \cup {"own"}, at : {"entry", "mid", "trap"},
            by : Kicks \cup {NoKick}]
Own     == [fn |-> "own", at |-> "mid", by |-> NoKick]

(* What a callback slot can hold. *)
Callback   == [kind : {"null", "tuya", "stub"}, by : Kicks \cup {NoKick},
               chan : Channels]
Null       == [kind |-> "null", by |-> NoKick, chan |-> 0]
Wrapper(i) == [kind |-> "tuya", by |-> NoKick, chan |-> i]
Stub(k, i) == [kind |-> "stub", by |-> k, chan |-> i]

(* The function each remote call runs; "start" is the call of func_vaddr. *)
Callee(c, s) ==
  CASE s \in {"string", "tmalloc", "vmalloc"} -> "malloc"
    [] s \in {"tflush", "vflush"} -> "flush"
    [] s = "start" -> c.func
    [] OTHER -> "create"

KilledStatus == 137

-----------------------------------------------------------------------------
(* Small steps the actions share. *)

(* A ptrace request works only on a tracee that is in a ptrace stop. *)
Held(k) == tracer = k /\ thread = "stopped"

Gone == thread \in {"dead", "crashed"}

(* The thread is not stopped: a tracee runs even when its process is       *)
(* group-stopped, because PTRACE_CONT restarts it.                         *)
Runs == thread = "running" /\ (tracer # NoKick \/ ~groupStop)

(* It executes an instruction: pending signals are taken before that.      *)
Executes == Runs /\ pending = {}

Goto(k, label) == pc' = [pc EXCEPT ![k] = label]

(* Begin remote_call s. *)
Call(k, s) == Goto(k, "call") /\ stage' = [stage EXCEPT ![k] = s]

(* call_status = v; goto cleanup. *)
Finish(k, v) == Goto(k, "cleanup") /\ status' = [status EXCEPT ![k] = v]

(* The kernel lets go of the target: PTRACE_DETACH of a stopped tracee, or *)
(* the exit of its tracer.  A detach does not deliver the signal that      *)
(* stopped the tracee (the data argument is 0).                            *)
Release(k) ==
  /\ tracer' = IF tracer = k THEN NoKick ELSE tracer
  /\ thread' = IF Held(k) THEN "running" ELSE thread

-----------------------------------------------------------------------------
(* The target (external) *)

Init ==
  /\ thread = "running" /\ tracer = NoKick /\ stopSig = "STOP"
  /\ pending = {} /\ groupStop = FALSE
  /\ ctx = Own /\ r0 = TRUE /\ word = "own" /\ heapBusy = FALSE
  /\ guard \in BOOLEAN /\ ports = guard /\ starts = 0
  /\ worker = [k \in Kicks |-> "none"]
  /\ slots \in { s \in [Channels -> {Null, Wrapper(0), Wrapper(1)}] :
                   \A i \in Channels : s[i] \in {Null, Wrapper(i)} }
  /\ pc = [k \in Kicks |-> "attach"]
  /\ cfg \in [Kicks -> Configs]
  /\ stage = [k \in Kicks |-> "attach"]
  /\ saved = [k \in Kicks |-> Own]
  /\ savedWord = [k \in Kicks |-> "own"]
  /\ ok = [k \in Kicks |-> TRUE]
  /\ gval = [k \in Kicks |-> FALSE]
  /\ orig = [k \in Kicks |-> [i \in Channels |-> Null]]
  /\ written = {}
  /\ timer = [k \in Kicks |-> "off"]
  /\ status = [k \in Kicks |-> 0]
  /\ late = {} /\ found = [k \in Kicks |-> Own] /\ raced = {}
  /\ nsig = 0 /\ nkill = 0

(* Some other signal is sent to the thread. *)
SignalArrives ==
  /\ nsig < MaxSignals /\ ~Gone
  /\ pending' = pending \cup {"OTHER"}
  /\ nsig' = nsig + 1
  /\ UNCHANGED <<thread, tracer, stopSig, groupStop, ctx, r0, word, heapBusy,
                 guard, ports, starts, worker, slots, kickVars, nkill>>

(* A pending signal is taken.  A tracee stops and reports it, in whatever  *)
(* order the kernel dequeues them; SIGSTOP of an untraced thread stops the *)
(* process, and the program handles the others.                            *)
DeliverSignal ==
  \E s \in pending :
    /\ Runs
    /\ pending' = pending \ {s}
    /\ IF tracer # NoKick
         THEN thread' = "stopped" /\ stopSig' = s /\ UNCHANGED groupStop
         ELSE /\ groupStop' = (s = "STOP")
              /\ UNCHANGED <<thread, stopSig>>
    /\ UNCHANGED <<tracer, ctx, r0, word, heapBusy, guard, ports, starts,
                   worker, slots, kickVars, nsig, nkill>>

(* The called function gets going: malloc takes the heap lock, and blocks  *)
(* when somebody holds it; ht_rtsp_start sets its guard word early;        *)
(* ak_thread_create makes a thread, if it can.                             *)
CalleeRuns ==
  /\ Executes /\ ctx.at = "entry"
  /\ ctx.fn = "malloc" => ~heapBusy
  /\ ctx' = [ctx EXCEPT !.at = "mid"]
  /\ heapBusy' = (heapBusy \/ ctx.fn = "malloc")
  /\ guard' = (guard \/ ctx.fn = "start")
  /\ starts' = IF ctx.fn = "start" THEN starts + 1 ELSE starts
  /\ \/ UNCHANGED worker
     \/ ctx.fn = "create" /\ worker' = [worker EXCEPT ![ctx.by] = "made"]
  /\ UNCHANGED <<thread, tracer, stopSig, pending, groupStop, r0, word, ports,
                 slots, kickVars, nsig, nkill>>

(* It returns, to the address in lr, which is trap_addr. *)
CalleeReturns ==
  /\ Executes /\ ctx.fn \in Functions /\ ctx.at = "mid"
  /\ ctx' = [ctx EXCEPT !.at = "trap"]
  /\ r0' \in CASE ctx.fn = "malloc" -> BOOLEAN
             [] ctx.fn = "create" -> {worker[ctx.by] # "none"}
             [] OTHER -> {TRUE}
  /\ heapBusy' = (heapBusy /\ ctx.fn # "malloc")
  /\ ports' = (ports \/ ctx.fn = "start")
  /\ UNCHANGED <<thread, tracer, stopSig, pending, groupStop, word, guard,
                 starts, worker, slots, kickVars, nsig, nkill>>

(* Executing the unmapped trap_addr raises SIGSEGV, which stops a tracee   *)
(* and kills the process otherwise; so does a fault of the callee's own.   *)
Fault ==
  /\ Executes
  /\ \/ ctx.at = "trap"
     \/ TargetMayDie /\ ctx.fn \in Functions /\ ctx.at = "mid"
  /\ IF tracer # NoKick THEN thread' = "stopped" /\ stopSig' = "SEGV"
                        ELSE thread' = "crashed" /\ UNCHANGED stopSig
  /\ UNCHANGED <<tracer, pending, groupStop, ctx, r0, word, heapBusy, guard,
                 ports, starts, worker, slots, kickVars, nsig, nkill>>

(* Another thread of the program registers its video callback. *)
RegisterCallback ==
  \E i \in Channels :
    /\ ~Gone /\ ~groupStop /\ slots[i] = Null
    /\ slots' = [slots EXCEPT ![i] = Wrapper(i)]
    /\ UNCHANGED <<thread, tracer, stopSig, pending, groupStop, ctx, r0, word,
                   heapBusy, guard, ports, starts, worker, kickVars, nsig,
                   nkill>>

(* The new thread of a kick is scheduled, sooner or later, and the stub    *)
(* calls func_vaddr.  PTRACE_ATTACH stops only the thread it names.        *)
ThreadRuns(k) ==
  /\ worker[k] = "made" /\ ~Gone /\ ~groupStop
  /\ worker' = [worker EXCEPT ![k] = "runs"]
  /\ guard' = (guard \/ cfg[k].func = "start")
  /\ starts' = IF cfg[k].func = "start" THEN starts + 1 ELSE starts
  /\ UNCHANGED <<thread, tracer, stopSig, pending, groupStop, ctx, r0, word,
                 heapBusy, ports, slots, kickVars, nsig, nkill>>

ThreadReturns(k) ==
  /\ worker[k] = "runs" /\ ~Gone /\ ~groupStop
  /\ worker' = [worker EXCEPT ![k] = "ended"]
  /\ ports' = (ports \/ cfg[k].func = "start")
  /\ UNCHANGED <<thread, tracer, stopSig, pending, groupStop, ctx, r0, word,
                 heapBusy, guard, starts, slots, kickVars, nsig, nkill>>

TargetDies ==
  /\ TargetMayDie /\ ~Gone
  /\ thread' = "dead"
  /\ UNCHANGED <<tracer, stopSig, pending, groupStop, ctx, r0, word, heapBusy,
                 guard, ports, starts, worker, slots, kickVars, nsig, nkill>>

Target == \/ SignalArrives \/ DeliverSignal \/ CalleeRuns \/ CalleeReturns
          \/ Fault \/ RegisterCallback \/ TargetDies
          \/ \E k \in Kicks : ThreadRuns(k) \/ ThreadReturns(k)

-----------------------------------------------------------------------------
(* main: attach *)

(* PTRACE_ATTACH fails when somebody else traces the thread or it is gone  *)
(* (then resolve_base has failed already); the process exits with 1.       *)
AttachFails(k) ==
  /\ pc[k] = "attach" /\ (tracer # NoKick \/ Gone)
  /\ Goto(k, "done") /\ status' = [status EXCEPT ![k] = 1]
  /\ UNCHANGED <<targetVars, cfg, stage, saved, savedWord, ok, gval, orig,
                 written, timer, late, found, raced, nsig, nkill>>

(* It succeeds, the kernel sends SIGSTOP, and alarm() is set. *)
Attach(k) ==
  /\ pc[k] = "attach" /\ tracer = NoKick /\ ~Gone
  /\ tracer' = k
  /\ pending' = pending \cup {"STOP"}
  /\ timer' = [timer EXCEPT ![k] = "armed"]
  /\ Goto(k, "arm")
  /\ UNCHANGED <<thread, stopSig, groupStop, ctx, r0, word, heapBusy, guard,
                 ports, starts, worker, slots, cfg, stage, saved, savedWord,
                 ok, gval, orig, written, status, late, found, raced, nsig,
                 nkill>>

-----------------------------------------------------------------------------
(* wait_for_stop *)

(* SIGALRM arrives before waitpid is entered: alarm_handler sets the flag, *)
(* but nothing interrupts the waitpid that follows.                        *)
AlarmTooEarly(k) ==
  /\ AlarmRace /\ pc[k] = "arm" /\ timer[k] = "armed"
  /\ timer' = [timer EXCEPT ![k] = "lost"]
  /\ UNCHANGED <<targetVars, pc, cfg, stage, saved, savedWord, ok, gval, orig,
                 written, status, late, found, raced, nsig, nkill>>

NoAttachWait(k) == \* mutant: the stop after PTRACE_ATTACH is not waited for
  /\ pc[k] = "arm"
  /\ Goto(k, IF stage[k] = "attach" THEN "guard" ELSE "wait")
  /\ UNCHANGED <<targetVars, cfg, stage, saved, savedWord, ok, gval, orig,
                 written, timer, status, late, found, raced, nsig, nkill>>

EnterWait(k) ==
  /\ pc[k] = "arm"
  /\ Goto(k, "wait")
  /\ UNCHANGED <<targetVars, cfg, stage, saved, savedWord, ok, gval, orig,
                 written, timer, status, late, found, raced, nsig, nkill>>

(* After the attach any ptrace stop will do, whatever signal it reports. *)
AttachStops(k) ==
  /\ pc[k] = "wait" /\ stage[k] = "attach" /\ Held(k)
  /\ Goto(k, IF cfg[k].mode = "peek" THEN "peek" ELSE "guard")
  /\ timer' = [timer EXCEPT ![k] = "off"]
  /\ found' = [found EXCEPT ![k] = ctx]
  /\ UNCHANGED <<targetVars, cfg, stage, saved, savedWord, ok, gval, orig,
                 written, status, late, raced, nsig, nkill>>

(* The wait after the attach reports a death, or times out. *)
AttachWaitFails(k) ==
  /\ pc[k] = "wait" /\ stage[k] = "attach"
  /\ Gone \/ (thread = "running" /\ timer[k] = "armed")
  /\ Finish(k, 1)
  /\ late' = IF Gone THEN late ELSE late \cup {k}
  /\ timer' = [timer EXCEPT ![k] = "off"]
  /\ UNCHANGED <<targetVars, cfg, stage, saved, savedWord, ok, gval, orig,
                 written, found, raced, nsig, nkill>>

AnyStop == TRUE \* mutant: every stop is taken for the return

(* The SIGSEGV stop with pc = trap_addr (else EPROTO, or EFAULT). *)
AtTrap == stopSig = "SEGV" /\ ctx.at = "trap"

(* A remote call stops, or the target dies, which is EPROTO as well. *)
CallStops(k) ==
  /\ pc[k] = "wait" /\ stage[k] # "attach" /\ (Held(k) \/ Gone)
  /\ ok' = [ok EXCEPT ![k] = Held(k) /\ AtTrap]
  /\ timer' = [timer EXCEPT ![k] = "off"]
  /\ Goto(k, "words")
  /\ UNCHANGED <<targetVars, cfg, stage, saved, savedWord, gval, orig,
                 written, status, late, found, raced, nsig, nkill>>

WaitRestarts(k) == FALSE \* mutant: SA_RESTART, no EINTR

(* ETIMEDOUT: the target goes on running. *)
CallTimesOut(k) ==
  /\ pc[k] = "wait" /\ stage[k] # "attach"
  /\ thread = "running" /\ timer[k] = "armed"
  /\ ok' = [ok EXCEPT ![k] = FALSE]
  /\ late' = late \cup {k}
  /\ timer' = [timer EXCEPT ![k] = "off"]
  /\ Goto(k, "words")
  /\ UNCHANGED <<targetVars, cfg, stage, saved, savedWord, gval, orig,
                 written, status, found, raced, nsig, nkill>>

-----------------------------------------------------------------------------
(* main: what to do, as functions of the command line and the guard word.  *)
(* Each gives the label to go to and, when it is "call", the remote call.  *)

Start(c) == IF c.mode = "thread" THEN <<"call", "tmalloc">>
                                 ELSE <<"call", "start">>

WrongStage(c) == IF c.mode = "install" THEN <<"slots", "slots">> \* mutant
                                       ELSE <<"cleanup", "start">>

(* After the start call, or instead of it. *)
AfterStart(c) == IF c.mode = "install" THEN <<"slots", "start">>
                                       ELSE <<"cleanup", "start">>

SkipStart(c, g) == c.dry \/ c.noStart
                   \/ (c.mode = "install" /\ g /\ ~c.force)

Work(c, g) == IF SkipStart(c, g) THEN AfterStart(c) ELSE Start(c)

GuardInverted(c, g) == c.mode # "install" /\ c.force /\ g \* mutant

Refused(c, g) == c.mode # "install" /\ ~c.force /\ g

StringDespiteDryRun(c, g) == \* mutant
  IF c.arg0 THEN <<"call", "string">> ELSE Work(c, g)

FirstJob(c, g) == IF c.arg0 /\ ~c.dry THEN <<"call", "string">> ELSE Work(c, g)

Do(k, job) == /\ Goto(k, job[1])
              /\ stage' = [stage EXCEPT ![k] = job[2]]

PeekWords(k) ==
  /\ pc[k] = "peek"
  /\ Finish(k, IF Held(k) THEN 0 ELSE 1)
  /\ UNCHANGED <<targetVars, cfg, stage, saved, savedWord, ok, gval, orig,
                 written, timer, late, found, raced, nsig, nkill>>

(* Does a kick with this command line call ht_rtsp_start if the guard is 0? *)
WouldStart(c) == c.mode # "peek" /\ c.func = "start" /\ ~SkipStart(c, FALSE)

(* The thread kick k made for ht_rtsp_start has not been scheduled yet. *)
StartDue(k) == worker[k] = "made" /\ cfg[k].func = "start"

(* Read the guard word, and refuse with 3 or choose the work. *)
PeekGuard(k) ==
  /\ pc[k] = "guard" /\ Held(k)
  /\ gval' = [gval EXCEPT ![k] = guard]
  /\ raced' = IF ~guard /\ WouldStart(cfg[k]) /\ \E j \in Kicks : StartDue(j)
                THEN raced \cup {k} ELSE raced
  /\ IF Refused(cfg[k], guard)
       THEN Finish(k, 3) /\ UNCHANGED stage
       ELSE Do(k, FirstJob(cfg[k], guard)) /\ UNCHANGED status
  /\ UNCHANGED <<targetVars, cfg, saved, savedWord, ok, orig, written, timer,
                 late, found, nsig, nkill>>

-----------------------------------------------------------------------------
(* remote_call *)

(* PTRACE_GETREGS, then the word at SP is saved and the stack argument of  *)
(* ak_thread_create put there.  SP is the thread's own unless it was       *)
(* attached to inside an abandoned call.                                   *)
SaveRegs(k) ==
  /\ pc[k] = "call" /\ Held(k)
  /\ saved' = [saved EXCEPT ![k] = ctx]
  /\ IF stage[k] = "create" /\ ctx = Own
       THEN savedWord' = [savedWord EXCEPT ![k] = word] /\ word' = "arg"
       ELSE UNCHANGED <<savedWord, word>>
  /\ Goto(k, "resume")
  /\ UNCHANGED <<thread, tracer, stopSig, pending, groupStop, ctx, r0,
                 heapBusy, guard, ports, starts, worker, slots, cfg, stage,
                 ok, gval, orig, written, timer, status, late, found, raced,
                 nsig, nkill>>

(* PTRACE_SETREGS with pc = func_addr and lr = trap_addr, PTRACE_CONT      *)
(* without a signal, alarm().                                              *)
Resume(k) ==
  /\ pc[k] = "resume" /\ Held(k)
  /\ ctx' = [fn |-> Callee(cfg[k], stage[k]), at |-> "entry", by |-> k]
  /\ thread' = "running"
  /\ ok' = [ok EXCEPT ![k] = TRUE]
  /\ timer' = [timer EXCEPT ![k] = "armed"]
  /\ Goto(k, "arm")
  /\ UNCHANGED <<tracer, stopSig, pending, groupStop, r0, word, heapBusy,
                 guard, ports, starts, worker, slots, cfg, stage, saved,
                 savedWord, gval, orig, written, status, late, found, raced,
                 nsig, nkill>>

(* SETREGS or CONT failed: goto restore. *)
ResumeFails(k) ==
  /\ pc[k] = "resume" /\ ~Held(k)
  /\ ok' = [ok EXCEPT ![k] = FALSE]
  /\ Goto(k, "words")
  /\ UNCHANGED <<targetVars, cfg, stage, saved, savedWord, gval, orig,
                 written, timer, status, late, found, raced, nsig, nkill>>

(* restore: the saved stack words are poked back ... *)
RestoreWords(k) ==
  /\ pc[k] = "words"
  /\ word' = IF Held(k) /\ stage[k] = "create" /\ saved[k] = Own
               THEN savedWord[k] ELSE word
  /\ ok' = [ok EXCEPT ![k] = @ /\ (Held(k) \/ stage[k] # "create")]
  /\ Goto(k, "regs")
  /\ UNCHANGED <<thread, tracer, stopSig, pending, groupStop, ctx, r0,
                 heapBusy, guard, ports, starts, worker, slots, cfg, stage,
                 saved, savedWord, gval, orig, written, timer, status, late,
                 found, raced, nsig, nkill>>

(* Where the program goes after remote_call s returned.  A malloc must not *)
(* return NULL and ak_thread_create must return 0; a failed cacheflush     *)
(* call is only a warning.                                                 *)
AfterCall(c, s, returned, good) ==
  CASE s = "tflush"                            -> <<"call", "create">>
    [] s = "vflush"                            -> <<"slot0", s>>
    [] s = "start"   /\ returned               -> AfterStart(c)
    [] s = "string"  /\ returned /\ good       -> <<"argbytes", s>>
    [] s = "tmalloc" /\ returned /\ good       -> <<"thread_stub", s>>
    [] s = "create"  /\ returned /\ good       -> <<"tid_slot", s>>
    [] s = "vmalloc" /\ returned /\ good       -> <<"chain_stub", s>>
    [] OTHER                                   -> <<"failed", s>>

StopRegs(k) == ctx \* mutant: stop_regs are written instead

RegsToRestore(k) == saved[k]

(* ... and PTRACE_SETREGS puts the saved registers back. *)
RestoreRegs(k) ==
  /\ pc[k] = "regs"
  /\ ctx' = IF Held(k) THEN RegsToRestore(k) ELSE ctx
  /\ LET job == AfterCall(cfg[k], stage[k], ok[k] /\ Held(k), r0)
     IN IF job[1] = "failed" THEN Finish(k, 1) /\ UNCHANGED stage
                             ELSE Do(k, job) /\ UNCHANGED status
  /\ UNCHANGED <<thread, tracer, stopSig, pending, groupStop, r0, word,
                 heapBusy, guard, ports, starts, worker, slots, cfg, saved,
                 savedWord, ok, gval, orig, written, timer, late, found,
                 raced, nsig, nkill>>

-----------------------------------------------------------------------------
(* allocate_remote_string, spawn_thread_call: memory written between calls *)

PokeString(k) ==
  /\ pc[k] = "argbytes" /\ Held(k)
  /\ Do(k, Work(cfg[k], gval[k]))
  /\ UNCHANGED <<targetVars, cfg, saved, savedWord, ok, gval, orig, written,
                 timer, status, late, found, raced, nsig, nkill>>

PokeThreadStub(k) ==
  /\ pc[k] = "thread_stub" /\ Held(k)
  /\ Call(k, "tflush")
  /\ UNCHANGED <<targetVars, cfg, saved, savedWord, ok, gval, orig, written,
                 timer, status, late, found, raced, nsig, nkill>>

PeekThreadId(k) ==
  /\ pc[k] = "tid_slot" /\ Held(k)
  /\ Finish(k, 0)
  /\ UNCHANGED <<targetVars, cfg, stage, saved, savedWord, ok, gval, orig,
                 written, timer, late, found, raced, nsig, nkill>>

-----------------------------------------------------------------------------
(* install_video_chain *)

AnyCallback == TRUE \* mutant: the callbacks are not compared

SlotsMatch == \A i \in Channels : slots[i] = Wrapper(i)

(* Both slots must hold the expected wrappers; a dry run ends here. *)
PeekSlots(k) ==
  /\ pc[k] = "slots" /\ Held(k)
  /\ orig' = [orig EXCEPT ![k] = slots]
  /\ \/ ~SlotsMatch /\ Finish(k, 1) /\ UNCHANGED stage
     \/ SlotsMatch /\ cfg[k].dry /\ Finish(k, 0) /\ UNCHANGED stage
     \/ SlotsMatch /\ ~cfg[k].dry /\ Call(k, "vmalloc") /\ UNCHANGED status
  /\ UNCHANGED <<targetVars, cfg, saved, savedWord, ok, gval, written, timer,
                 late, found, raced, nsig, nkill>>

(* Both stubs and the cacheflush trampoline are written. *)
PokeChainStubs(k) ==
  /\ pc[k] = "chain_stub" /\ Held(k)
  /\ written' = written \cup {k}
  /\ Call(k, "vflush")
  /\ UNCHANGED <<targetVars, cfg, saved, savedWord, ok, gval, orig, timer,
                 status, late, found, raced, nsig, nkill>>

PokeSlot(k, i, label, next) ==
  /\ pc[k] = label /\ Held(k)
  /\ slots' = [slots EXCEPT ![i] = Stub(k, i)]
  /\ Goto(k, next)
  /\ UNCHANGED <<thread, tracer, stopSig, pending, groupStop, ctx, r0, word,
                 heapBusy, guard, ports, starts, worker, cfg, stage, saved,
                 savedWord, ok, gval, orig, written, timer, status, late,
                 found, raced, nsig, nkill>>

PokeSlot0(k) == PokeSlot(k, 0, "slot0", "slot1")
PokeSlot1(k) == PokeSlot(k, 1, "slot1", "cleanup")

-----------------------------------------------------------------------------
(* A request of the main program fails because the tracee is not stopped   *)
(* (ESRCH): call_status = 1, goto cleanup.                                 *)
RequestFails(k) ==
  /\ pc[k] \in {"guard", "call", "argbytes", "thread_stub", "tid_slot",
                "slots", "chain_stub", "slot0", "slot1"}
  /\ ~Held(k)
  /\ IF pc[k] = "call" /\ stage[k] \in {"tflush", "vflush"}
       THEN /\ Do(k, AfterCall(cfg[k], stage[k], FALSE, FALSE))
            /\ UNCHANGED status
       ELSE Finish(k, 1) /\ UNCHANGED stage
  /\ UNCHANGED <<targetVars, cfg, saved, savedWord, ok, gval, orig, written,
                 timer, late, found, raced, nsig, nkill>>

(* cleanup: PTRACE_DETACH, which fails on a tracee that is not stopped;    *)
(* then the process exits and the kernel detaches what is left.            *)
Cleanup(k) ==
  /\ pc[k] = "cleanup"
  /\ status' = [status EXCEPT ![k] = IF Held(k) \/ @ # 0 THEN @ ELSE 1]
  /\ Release(k)
  /\ Goto(k, "done")
  /\ UNCHANGED <<stopSig, pending, groupStop, ctx, r0, word, heapBusy, guard,
                 ports, starts, worker, slots, cfg, stage, saved, savedWord,
                 ok, gval, orig, written, timer, late, found, raced, nsig,
                 nkill>>

(* rtsp_kick is killed from outside (external). *)
Killed(k) ==
  /\ nkill < MaxKills /\ pc[k] \in AttachedLabels
  /\ nkill' = nkill + 1
  /\ status' = [status EXCEPT ![k] = KilledStatus]
  /\ Release(k)
  /\ Goto(k, "done")
  /\ UNCHANGED <<stopSig, pending, groupStop, ctx, r0, word, heapBusy, guard,
                 ports, starts, worker, slots, cfg, stage, saved, savedWord,
                 ok, gval, orig, written, timer, late, found, raced, nsig>>

Kick(k) ==
  \/ AttachFails(k) \/ Attach(k) \/ EnterWait(k) \/ AttachStops(k)
  \/ AttachWaitFails(k) \/ CallStops(k) \/ CallTimesOut(k)
  \/ PeekWords(k) \/ PeekGuard(k)
  \/ SaveRegs(k) \/ Resume(k) \/ ResumeFails(k)
  \/ RestoreWords(k) \/ RestoreRegs(k)
  \/ PokeString(k) \/ PokeThreadStub(k) \/ PeekThreadId(k)
  \/ PeekSlots(k) \/ PokeChainStubs(k) \/ PokeSlot0(k) \/ PokeSlot1(k)
  \/ RequestFails(k) \/ Cleanup(k)

Next == \/ Target
        \/ \E k \in Kicks : Kick(k) \/ AlarmTooEarly(k) \/ Killed(k)

Spec == Init /\ [][Next]_vars

(* Every rtsp_kick process is scheduled, and an alarm that finds it in     *)
(* waitpid ends the wait.  Nothing is assumed of the target: a callee may  *)
(* block for ever, and signals may wait.                                   *)
FairSpec == Spec /\ \A k \in Kicks : WF_vars(Kick(k))

-----------------------------------------------------------------------------
(* Types *)

TargetTypeOK ==
  /\ thread \in {"running", "stopped", "dead", "crashed"}
  /\ tracer \in Kicks \cup {NoKick}
  /\ stopSig \in {"STOP", "OTHER", "SEGV"}
  /\ pending \subseteq {"STOP", "OTHER"}
  /\ groupStop \in BOOLEAN
  /\ ctx \in Context
  /\ r0 \in BOOLEAN
  /\ word \in {"own", "arg"}
  /\ heapBusy \in BOOLEAN
  /\ guard \in BOOLEAN
  /\ ports \in BOOLEAN
  /\ starts \in Nat
  /\ worker \in [Kicks -> {"none", "made", "runs", "ended"}]
  /\ slots \in [Channels -> Callback]
  /\ nsig \in Nat /\ nkill \in Nat

KickTypeOK ==
  /\ pc \in [Kicks -> Labels]
  /\ cfg \in [Kicks -> AcceptedConfigs]
  /\ stage \in [Kicks -> Stages]
  /\ saved \in [Kicks -> Context]
  /\ savedWord \in [Kicks -> {"own", "arg"}]
  /\ ok \in [Kicks -> BOOLEAN]
  /\ gval \in [Kicks -> BOOLEAN]
  /\ orig \in [Kicks -> [Channels -> Callback]]
  /\ written \subseteq Kicks
  /\ timer \in [Kicks -> {"off", "armed", "lost"}]
  /\ status \in [Kicks -> {0, 1, 3, KilledStatus}]
  /\ late \subseteq Kicks
  /\ found \in [Kicks -> Context]
  /\ raced \subseteq Kicks

(* Every variable keeps its type. *)
TypeOK == TargetTypeOK /\ KickTypeOK

-----------------------------------------------------------------------------
(* Safety *)

(* Something happened that the code cannot undo: a wait timed out, or an   *)
(* rtsp_kick was killed while attached.                                    *)
Blamed == late # {} \/ nkill > 0

(* A slot that was redirected leads to a stub that is complete in memory   *)
(* and forwards to the stock wrapper of its own channel: never to another  *)
(* stub, however many installs race (install_video_chain's check of both   *)
(* slots is made and used under one attach).                               *)
ChainSound ==
  \A i \in Channels : slots[i].kind = "stub" =>
    /\ slots[i].chan = i
    /\ slots[i].by \in written
    /\ orig[slots[i].by][i] = Wrapper(i)

(* Once nobody traces the thread it is back in its own code with its own   *)
(* stack word, unless a wait timed out or a kick was killed: every other   *)
(* error path of remote_call and of its callers passes through "restore".  *)
NoAbandonedCall ==
  tracer = NoKick /\ ~Gone /\ ~Blamed => ctx = Own /\ word = "own"

(* Only such a timeout or kill can make the camera process run into        *)
(* trap_addr untraced and die.                                             *)
TargetSurvives == thread = "crashed" => Blamed

(* The process is left group-stopped only if another signal reached the    *)
(* thread, or a wait timed out, or a kick was killed: otherwise the        *)
(* SIGSTOP of the attach is always consumed.                               *)
FrozenOnlyBySignal == groupStop => nsig > 0 \/ Blamed

(* Kicks that check the guard start ht_rtsp_start once at most, in the     *)
(* attached thread or in a new one, whatever instances race and whichever  *)
(* calls are interrupted, as long as none of them reads the guard after    *)
(* another kick has made a thread for ht_rtsp_start and before that thread *)
(* was scheduled.  Kicks with --no-guard-check may call other functions.   *)
Unchecked(c) == c.force /\ WouldStart(c)

StartOnce ==
  ~Blamed /\ raced = {} /\ (\A k \in Kicks : ~Unchecked(cfg[k])) => starts <= 1

(* Exit status 0 of a kick whose waits did not time out: the thread goes   *)
(* on exactly where the attach found it.                                   *)
Succeeds(k) == pc[k] = "cleanup" /\ pc'[k] = "done" /\ status'[k] = 0

CleanSuccess ==
  [][\A k \in Kicks : Succeeds(k) /\ k \notin late => ctx' = found[k]]_vars

(* Exit status 0 means the work was done: ht_rtsp_start ran to its end and *)
(* the listeners are up, the thread was made, or both slots hold this      *)
(* kick's stubs.                                                           *)
SuccessDelivers ==
  [][\A k \in Kicks : Succeeds(k) /\ ~cfg[k].dry =>
       /\ cfg[k].mode = "start" /\ WouldStart(cfg[k]) => ports'
       /\ cfg[k].mode = "thread" => worker'[k] # "none"
       /\ cfg[k].mode = "install" =>
            \A i \in Channels : slots'[i] = Stub(k, i)]_vars

(* The callback a stub replaces is still the one install_video_chain read, *)
(* although malloc and the cacheflush call let the program run between.    *)
PatchReplacesWhatWasRead ==
  [][\A i \in Channels : slots'[i] # slots[i] /\ slots'[i].kind = "stub" =>
       slots[i] = orig[slots'[i].by][i]]_vars

(* While --dry-run or --peek-vaddr is attached the thread, its stack, the  *)
(* heap and the guard stay as they are, no thread is made and no slot is   *)
(* redirected.  Only a thread that an earlier kick made goes on.           *)
ReadsOnly(c) == c.dry \/ c.mode = "peek"

EarlierThreadRuns == \E j \in Kicks : worker[j] = "made" /\ worker'[j] = "runs"

DryRunTouchesNothing ==
  [][\A k \in Kicks : tracer = k /\ ReadsOnly(cfg[k]) /\ ~Blamed =>
       /\ UNCHANGED <<ctx, word, heapBusy>>
       /\ \A j \in Kicks : worker'[j] = "made" => worker[j] = "made"
       /\ UNCHANGED <<guard, starts>> \/ EarlierThreadRuns
       /\ \A i \in Channels : slots'[i].kind = "stub" => slots'[i] = slots[i]]_vars

-----------------------------------------------------------------------------
(* Liveness *)

(* Every rtsp_kick exits, whatever the target does, as long as SIGALRM is  *)
(* not handled before waitpid is entered (AlarmRace).                      *)
Terminates == \A k \in Kicks : <>(pc[k] = "done")

-----------------------------------------------------------------------------
(* Inductive strengthenings of the invariants above, for the proofs. *)

(* A kick is between its attach and its exit exactly when it is the tracer. *)
AttachInv == \A k \in Kicks : pc[k] \in AttachedLabels <=> tracer = k

(* The remote call a label belongs to. *)
LabelInv ==
  \A k \in Kicks :
    /\ pc[k] \in {"attach", "peek", "guard"} => stage[k] = "attach"
    /\ pc[k] \in {"call", "resume", "words", "regs"} => stage[k] # "attach"
    /\ pc[k] = "argbytes" => stage[k] = "string"
    /\ pc[k] = "thread_stub" => stage[k] = "tmalloc"
    /\ pc[k] = "tid_slot" => stage[k] = "create"
    /\ pc[k] = "slots" => stage[k] = "start"
    /\ pc[k] = "chain_stub" => stage[k] = "vmalloc"
    /\ pc[k] \in {"slot0", "slot1"} => stage[k] = "vflush"

(* Once install_video_chain has accepted the slots, what it read is the    *)
(* stock wrappers, and it stays in the slots until they are patched.       *)
Installing(k) == stage[k] \in {"vmalloc", "vflush"}

ReadInv ==
  \A k \in Kicks : Installing(k) =>
    /\ \A i \in Channels : orig[k][i] = Wrapper(i)
    /\ stage[k] = "vflush" => k \in written
    /\ pc[k] \in AttachedLabels \ {"cleanup"} =>
         /\ slots[1] = Wrapper(1)
         /\ pc[k] # "slot1" => slots[0] = Wrapper(0)

SlotInv ==
  \A i \in Channels : slots[i].kind = "stub" =>
    /\ slots[i].chan = i
    /\ slots[i].by \in Kicks
    /\ stage[slots[i].by] = "vflush"

ChainInv == LabelInv /\ AttachInv /\ ReadInv /\ SlotInv

(* While nothing is blamed and the target lives: it stands still outside a *)
(* wait, runs somebody else's code only inside a call of its tracer, and   *)
(* that tracer holds the registers and the stack word to put back.         *)
InCall(k)  == pc[k] \in {"arm", "wait", "words", "regs"} /\ stage[k] # "attach"
WordOut(k) == pc[k] \in {"resume", "arm", "wait", "words"} /\ stage[k] = "create"

CallInv ==
  ~Blamed =>
    /\ thread # "crashed"
    /\ thread # "dead" =>
         /\ \A k \in Kicks :
              /\ pc[k] \in AttachedLabels \ {"arm", "wait"} => thread = "stopped"
              /\ pc[k] = "resume" \/ InCall(k) => saved[k] = Own
              /\ WordOut(k) => savedWord[k] = "own"
         /\ ctx # Own => \E k \in Kicks : InCall(k)
         /\ word # "own" => \E k \in Kicks : WordOut(k)
=============================================================================
