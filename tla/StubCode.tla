------------------------------ MODULE StubCode ------------------------------
(***************************************************************************)
(* The machine code rtsp_kick writes into the heap of anyka_ipc, as it is  *)
(* run by threads of anyka_ipc while rtsp_kick is still at work.  The      *)
(* attach stops one thread only, so frames keep coming: a callback slot    *)
(* that points to a stub may be called at any moment.                      *)
(*                                                                         *)
(* Two jobs: a stub for each video channel that calls the original         *)
(* callback and then ht_rtsp_send_video_frame (install_video_chain), and a *)
(* stub for a new thread to begin with (spawn_thread_call).  RtspKick says *)
(* what else can go wrong around them; here a step is an instruction.      *)
(*                                                                         *)
(* A value is named by what it stands for.  Stacks are counted in words.   *)
(***************************************************************************)
EXTENDS Integers, Sequences, SequencesExt

CONSTANTS
  Jobs,      \* what rtsp_kick may have been started for
  MaxFrames  \* bound: calls of a callback, by channel

ASSUME StubAssumption == Jobs \subseteq {"chain", "thread"} /\ MaxFrames \in Nat

VARIABLES
  job,        \* "chain" or "thread"
  pc,         \* rtsp_kick: "write", "flush", "use", "done", "failed"
  written,    \* words of the stubs in memory
  visible,    \* and those that instruction caches are sure to have seen
  redirected, \* threads that begin with a stub
  warned,     \* the cacheflush call failed
  cpu,        \* the threads
  frames      \* calls so far, by thread

vars == <<job, pc, written, visible, redirected, warned, cpu, frames>>

-----------------------------------------------------------------------------
(* The stubs: instructions are <<mnemonic, register, operand>>. *)

Saved == <<"r4", "r5", "r6", "r7", "r8", "lr">>

(* [0] to [8]: what the caller passed goes where calls leave it alone, and *)
(* two of it on the stack once more.                                       *)
Prologue ==
  << <<"push", "sp", Saved>>, <<"ldrsp", "r7", 24>>, <<"ldrsp", "r8", 28>>,
     <<"mov", "r4", "r0">>, <<"mov", "r5", "r1">>, <<"mov", "r6", "r2">>,
     <<"addsp", "sp", -8>>, <<"strsp", "r7", 0>>, <<"strsp", "r8", 4>> >>

(* [9] to [13] *)
CallOriginal ==
  << <<"mov", "r0", "r4">>, <<"mov", "r1", "r5">>, <<"mov", "r2", "r6">>,
     <<"ldrpc", "ip", 40>>, <<"blx", "ip", 0>> >>

(* mutant: as if a function left alone what it is passed on the stack *)
TrustStack == << <<"mov", "r7", "r7">>, <<"mov", "r8", "r8">> >>

(* [14] and [15] *)
StoreAgain == << <<"strsp", "r7", 0>>, <<"strsp", "r8", 4>> >>

(* [16] to [20] *)
CallSend(channel) ==
  << <<"imm", "r0", channel>>, <<"mov", "r1", "r4">>, <<"mov", "r2", "r5">>,
     <<"ldrpc", "ip", 16>>, <<"blx", "ip", 0>> >>

(* [21] to [23] *)
Epilogue == << <<"addsp", "sp", 8>>, <<"pop", "sp", Saved>>, <<"bx", "lr", 0>> >>

build_video_chain_stub(channel) ==
  Prologue \o CallOriginal \o StoreAgain \o CallSend(channel) \o Epilogue
    \o << <<"word", "", "original">>, <<"word", "", "send">> >>

build_thread_call_stub ==
  << <<"push", "sp", <<"r4", "lr">> >>, <<"mov", "r4", "r0">>,
     <<"mov", "r0", "r4">>, <<"ldrpc", "ip", 8>>, <<"blx", "ip", 0>>,
     <<"imm", "r0", "zero">>, <<"pop", "sp", <<"r4", "pc">> >>,
     <<"word", "", "func">> >>

Channels == <<"ch0", "ch1">>

Code ==
  IF job = "thread" THEN build_thread_call_stub
  ELSE build_video_chain_stub(Channels[1]) \o build_video_chain_stub(Channels[2])

Threads == IF job = "thread" THEN {"new"} ELSE ToSet(Channels)

(* Where the stub of a thread begins, in words of the allocation. *)
StubAddr(t) ==
  IF t = Channels[2] THEN Len(build_video_chain_stub(Channels[1])) ELSE 0

Callees == {"original", "send", "func"}

-----------------------------------------------------------------------------
(* Calling convention (external) *)

CalleeSaved == {"r4", "r5", "r6", "r7", "r8"}

Passed == [r0 |-> "arg1", r1 |-> "arg2", r2 |-> "arg3", r3 |-> "arg4"]

(* The registers of a thread when its callback, or its stub, is called. *)
Entry ==
  [x \in CalleeSaved |-> x] @@ Passed @@ [ip |-> "junk", lr |-> "caller"]

Top == 8

(* at: "idle", "stub", a function, "back" at the caller, or "lost".  addr: *)
(* of the next instruction.  tapped: the frame went to a stub.  calls: to  *)
(* what it led.                                                            *)
Idle == [at |-> "idle", addr |-> 0, r |-> Entry, sp |-> Top,
         tapped |-> FALSE, calls |-> <<>>,
         stack |-> [i \in 0 .. Top + 1 |-> CASE i < Top -> "none"
                                             [] i = Top -> "arg5"
                                             [] OTHER   -> "arg6"]]

(* r0 to r3, ip, lr belong to a function, and what it is passed on the     *)
(* stack; the one a thread is made for takes its argument in r0.           *)
Clobbered(s) ==
  [s EXCEPT !.r = [x \in DOMAIN @ |-> IF x \in CalleeSaved THEN @[x] ELSE "junk"],
            !.stack = [i \in DOMAIN @ |->
                         IF s.at # "func" /\ i \in {s.sp, s.sp + 1} THEN "junk"
                         ELSE @[i]]]

Call(s, f) ==
  [s EXCEPT !.at = f, !.calls = Append(@,
     [f |-> f, sp |-> s.sp, on_stack |-> <<s.stack[s.sp], s.stack[s.sp + 1]>>,
      r |-> [x \in DOMAIN Passed |-> s.r[x]]])]

Jump(s, target) ==
  CASE target \in Callees -> Call(s, target)
    [] target = "stub"    -> [s EXCEPT !.at = "stub"]
    [] target = "caller"  -> [s EXCEPT !.at = "back"]
    [] OTHER              -> [s EXCEPT !.at = "lost"]

-----------------------------------------------------------------------------
(* Instructions: s is the thread behind the instruction, but for its effect *)

PushAll(s, regs) ==
  LET sp == s.sp - Len(regs)
  IN  [s EXCEPT !.sp = sp,
                !.stack = [i \in DOMAIN @ |-> IF i \in sp .. s.sp - 1
                             THEN s.r[regs[i - sp + 1]] ELSE @[i]]]

PopAll(s, regs) ==
  LET got == [i \in DOMAIN regs |-> s.stack[s.sp + i - 1]]
      r   == [x \in DOMAIN s.r |-> IF \E i \in DOMAIN regs : regs[i] = x
                THEN got[CHOOSE i \in DOMAIN regs : regs[i] = x] ELSE s.r[x]]
      t   == [s EXCEPT !.sp = @ + Len(regs), !.r = r]
  IN  IF Last(regs) = "pc" THEN Jump(t, Last(got)) ELSE t

(* The pc is two words ahead of the instruction, one ahead of s. *)
Literal(s, bytes) == Code[s.addr + 1 + bytes \div 4 + 1][3]

Execute(s, i) ==
  LET rd == i[2]  operand == i[3]
  IN  CASE i[1] = "push"  -> PushAll(s, operand)
        [] i[1] = "pop"   -> PopAll(s, operand)
        [] i[1] = "addsp" -> [s EXCEPT !.sp = @ + operand \div 4]
        [] i[1] = "mov"   -> [s EXCEPT !.r[rd] = s.r[operand]]
        [] i[1] = "imm"   -> [s EXCEPT !.r[rd] = operand]
        [] i[1] = "ldrsp" -> [s EXCEPT !.r[rd] = s.stack[s.sp + operand \div 4]]
        [] i[1] = "strsp" -> [s EXCEPT !.stack[s.sp + operand \div 4] = s.r[rd]]
        [] i[1] = "ldrpc" -> [s EXCEPT !.r[rd] = Literal(s, operand)]
        [] i[1] = "blx"   -> Jump([s EXCEPT !.r.lr = "stub"], s.r[rd])
        [] i[1] = "bx"    -> Jump(s, s.r[rd])
        [] OTHER          -> [s EXCEPT !.at = "lost"]

-----------------------------------------------------------------------------
(* rtsp_kick *)

Init ==
  /\ job \in Jobs /\ pc = "write" /\ written = 0 /\ visible = {}
  /\ redirected = {} /\ warned = FALSE
  /\ cpu = [t \in Threads |-> Idle] /\ frames = [t \in Threads |-> 0]

(* One word after the other. *)
PokeStub ==
  /\ pc = "write"
  /\ written' = written + 1
  /\ pc' = IF written' = Len(Code) THEN "flush" ELSE "write"
  /\ UNCHANGED <<job, visible, redirected, warned, cpu, frames>>

OneStub == 0 .. StubAddr(Channels[2]) - 1 \* mutant: the first stub only

FlushRange == 0 .. Len(Code) - 1

(* The cacheflush trampoline; when that fails it is only a warning. *)
Cacheflush ==
  /\ pc = "flush" /\ pc' = "use"
  /\ \/ visible' = FlushRange /\ UNCHANGED warned
     \/ warned' = TRUE /\ UNCHANGED visible
  /\ UNCHANGED <<job, written, redirected, cpu, frames>>

(* Slot 0, then slot 1; or the thread is created. *)
Redirect ==
  /\ pc = "use"
  /\ IF job = "thread"
       THEN redirected' = {"new"}
       ELSE redirected' = redirected \cup
              {IF Channels[1] \in redirected THEN Channels[2] ELSE Channels[1]}
  /\ pc' = IF redirected' = Threads THEN "done" ELSE "use"
  /\ UNCHANGED <<job, written, visible, warned, cpu, frames>>

(* A request fails, or rtsp_kick is killed. *)
Fails ==
  /\ pc \in {"write", "flush", "use"} /\ pc' = "failed"
  /\ UNCHANGED <<job, written, visible, redirected, warned, cpu, frames>>

-----------------------------------------------------------------------------
(* The threads of anyka_ipc (external, but for the code they run) *)

Becomes(t, s) ==
  /\ cpu' = [cpu EXCEPT ![t] = s]
  /\ UNCHANGED <<job, pc, written, visible, redirected, warned>>

Frame(t) ==
  /\ cpu[t].at = "idle" /\ frames[t] < MaxFrames
  /\ frames' = [frames EXCEPT ![t] = @ + 1]
  /\ \/ /\ t \in redirected
        /\ Becomes(t, [Idle EXCEPT !.at = "stub", !.addr = StubAddr(t),
                                 !.tapped = TRUE])
     \/ /\ t \notin redirected /\ job = "chain"
        /\ Becomes(t, Call(Idle, "original"))

(* What is not in memory yet, or was there before it, may be executed.     *)
Surely(addr) == addr < written /\ addr \in visible

Instruction(t) ==
  /\ cpu[t].at = "stub" /\ UNCHANGED frames
  /\ \/ Becomes(t, Execute([cpu[t] EXCEPT !.addr = @ + 1], Code[cpu[t].addr + 1]))
     \/ ~Surely(cpu[t].addr) /\ Becomes(t, [cpu[t] EXCEPT !.at = "lost"])

Return(t) ==
  /\ cpu[t].at \in Callees /\ UNCHANGED frames
  /\ Becomes(t, Jump(Clobbered(cpu[t]), cpu[t].r.lr))

Resume(t) ==
  /\ cpu[t].at = "back" /\ Becomes(t, Idle) /\ UNCHANGED frames

Next ==
  \/ PokeStub \/ Cacheflush \/ Redirect \/ Fails
  \/ \E t \in Threads : Frame(t) \/ Instruction(t) \/ Return(t) \/ Resume(t)

Spec == Init /\ [][Next]_vars

-----------------------------------------------------------------------------
(* Properties *)

Original(c) == c.r = Passed /\ c.on_stack = <<"arg5", "arg6">>

(* The original callback gets what the caller passed, all six arguments,   *)
(* and then RTSP gets its channel and the frame, although a function may   *)
(* use the registers and the stack words it is passed as it likes.         *)
BothGetTheFrame ==
  \A t \in Threads :
    /\ \A i \in DOMAIN cpu[t].calls :
         LET c == cpu[t].calls[i]
         IN  CASE c.f = "original" -> i = 1 /\ Original(c)
               [] c.f = "send" -> /\ i = 2 /\ c.r.r0 = t
                                  /\ c.r.r1 = "arg1" /\ c.r.r2 = "arg2"
                                  /\ c.on_stack = <<"arg5", "arg6">>
               [] c.f = "func" -> i = 1 /\ c.r.r0 = "arg1"
    /\ cpu[t].at = "back" =>
         Len(cpu[t].calls) = IF cpu[t].tapped /\ job = "chain" THEN 2 ELSE 1

(* "no crash, just one frame without RTSP delivery": whenever rtsp_kick    *)
(* stops between two of its requests, no thread executes a word that is    *)
(* not there or jumps to one that is none of its places, unless the        *)
(* cacheflush call failed; the caller of a callback finds its registers    *)
(* and its stack as they were; and functions are called with a stack that  *)
(* is aligned to 8 bytes.                                                  *)
NoHarm ==
  \A t \in Threads :
    /\ cpu[t].at = "lost" => warned
    /\ cpu[t].at = "back" => /\ cpu[t].sp = Top
                             /\ \A x \in CalleeSaved : cpu[t].r[x] = x
    /\ \A i \in DOMAIN cpu[t].calls : cpu[t].calls[i].sp % 2 = Top % 2
=============================================================================
