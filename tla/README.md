# TLA+ models of lsc_codex_rtsp

This repository turns on the RTSP server that is already in the firmware of a
Tuya camera (program `anyka_ipc`), and adds a wake word listener. It does so
from outside: by `ptrace`, by shell scripts run from the SD card, and by
reading ring files another program writes without a lock. Little of that can
be tested without a camera. These modules model the parts that decide, and
TLC and TLAPS check them.

Contents: [the system](#the-system), [modules](#modules),
[runs](#runs), [fairness](#fairness), [proofs](#proofs),
[findings](#findings), [what is not modelled](#what-is-not-modelled),
[plan](#plan), [running](#running).

## The system

| part | state it keeps | operations | talks to |
|---|---|---|---|
| `src/rtsp_kick.c` | registers and a stack word of the target to put back, what it read of guard and callback slots, an alarm | attach, remote call with timeout, write a string argument, create a thread, install the callback chain, peek, detach | one thread of `anyka_ipc`, by ptrace; other instances of itself |
| `sdcard/vendor_rtsp_boot.sh`, run by `hack.sh`/`custom.sh` every 10 s | `/tmp/rtsp_kick`, `vendor_rtsp_boot.done`, `.unsupported`, `.last_attempt` | identify the firmware, copy the binary, back off, start, install, mark | `rtsp_kick`, `anyka_ipc` (pid, ports), the clock |
| `jarvis_wake.c`: audio input | index of the last entry, the batch | poll the ring, resync, feed the detector | `/tmp/AudioStream`, written by `anyka_ipc` |
| `jarvis_wake.c`: detector | pre-roll ring, utterance, noise floor, run counters | push samples, open, close, cut off | matcher |
| `jarvis_wake.c`: matcher | two rows of costs, best score | extract features, DTW, decide | network worker |
| `jarvis_wake.c`: network worker | one-slot mailbox, mutex, condition variable | submit, drop, take, post, stop, join | speech server |
| `unused/sidecar` (archived): ring follower | cursor, pending bytes, parameter sets, current access unit | snapshot, find a key frame, follow, replay, assemble | ring file written by `anyka_ipc`; an RTSP client |
| the code `rtsp_kick` leaves in `anyka_ipc` | a stub per channel, a stub a thread begins with | call the old callback and the RTSP server; raise the guard, call, return | every thread of `anyka_ipc` that calls the callback |
| `unused/sidecar`: RTSP and RTP | request buffer, what was set up, sequence numbers, the packet under way | accept, OPTIONS .. TEARDOWN, fragment, packetise | one client at a time, by TCP; the others wait |
| scripts and `tools/` | files on the camera | upload, install, play a sound, probe | telnet |

How they interact: the boot script and the speaker script both start
`rtsp_kick` on the same process, at times neither knows of; `rtsp_kick` makes
`anyka_ipc` run functions of its own program in the middle of whatever it was
doing, and leaves instructions behind that its other threads may be running
already; the script sees only an exit status, two ports and its own marker files.
`jarvis_wake` and the sidecar only read, but what they read changes under them.

What is hard: a timeout that races the answer; a signal in the middle of a
remote call; a patch of two words that is not atomic; a status file that
outlives what it says; a clock that is set during boot; torn and overtaken
reads of rings; two threads and a one-place mailbox; integer widths and
truncation in the matcher; bitstream units cut anywhere. `PROJECT.json`
(`hazards`) lists them one by one with the line each bites at.

What makes each part correct:

* rtsp_kick: the camera is left as it was found, alive and running, unless a
  wait timed out or the kick was killed; a slot is only ever redirected to a
  complete stub that calls the wrapper of the same channel; exit status 0 means
  that the work is done.
* boot script: only known firmware is touched, with its own offsets; attempts
  are spaced; in the end ports and chain are there and are left alone.
* wake listener: audio in order and whole; an utterance is one piece of it and
  none is heard twice; the verdict is that of the cheapest path; an accepted
  event is posted, once, and never holds the audio up.
* stub code: both the old callback and the RTSP server get the frame, with every
  register and the stack as the caller left them, and no thread runs
  instructions its cache may not have.
* sidecar: a client gets every entry once and in order, beginning with a key
  frame, and whole access units; every request is answered once; packets come on
  the channels that were agreed; nobody waits for ever for a client that leaves.

## Modules

`RtspKick` (with `MCRtspKick`, `RtspKick_proofs`). The target thread is a
context (which function, how far, on behalf of whom), pending signals, a ptrace
stop, one stack word, a heap lock, the guard word and the two slots. Each kick
has a label; a step is one ptrace request, or a run of requests that only the
death of the target can interrupt: `Attach`, `EnterWait`, `AttachStops`,
`CallStops`, `CallTimesOut`, `PeekGuard`, `SaveRegs` .. `RestoreRegs` (the seven
remote calls share these; `AfterCall` says where the caller goes on),
`PokeString`, `PokeThreadStub`, `PeekThreadId`, `PeekSlots`, `PokeChainStubs`,
`PokeSlot0`, `PokeSlot1`, `RequestFails`, `Cleanup`. `Killed` ends a kick
anywhere. The kernel and the target (`DeliverSignal`, `CalleeRuns`,
`CalleeReturns`, `Fault`, `RegisterCallback`, `TargetDies`, `ThreadRuns`,
`ThreadReturns`) are external. A command line has a mode, its flags, and the function
it calls: `ht_rtsp_start` or another (`--func-vaddr`). With `--call-in-new-thread` the
remote call only makes a thread; `worker` says whether that thread was made, runs or
has ended, and it is the thread's run (`ThreadRuns`), at any time after, that starts
the server, raises the guard and later opens the ports. `raced` is a history variable
that only `StartOnce` reads: the kicks that read a guard of zero while such a thread
was still to run.

`VendorBoot` (`MCVendorBoot`, `VendorBoot_proofs`). One label per command the script waits for; the
camera moves between any two of them: anyka_ipc exits and comes back, first as a
wrapper script, registers callbacks early or late, opens and loses its ports;
the clock jumps. Effects of rtsp_kick are taken from `RtspKick`: started,
guard set without a listener, refused, failed. `trouble` is the set of things
that may go wrong in a behaviour.

`StubCode` is what the kicks of `RtspKick` write: the two stubs as sequences of
instructions, run by threads with registers, a stack in words and an instruction
cache, while `rtsp_kick` writes words, flushes and redirects (`PokeStub`, `Cacheflush`,
`Redirect`, `Fails`). The attach stops only one thread, so a frame may come at any
moment. The functions that are called may change everything the procedure call
standard lets them.

`WakeNet` (`WakeNet_proofs`) implements `Mailbox`. It has a label for each of
the two threads and takes mutex, wait, signal and the calls on the socket apart; an event is copied in
two halves, so that only the mutex keeps it whole. `Mailbox` says what the
pair of `net_worker_submit` and `net_worker_main` promises: events leave in
order, whole, once; at most one waits, and not for ever.

`AkStream` (`AkStream_proofs`) is `run_ak_stream` and the writer of the ring, which updates
descriptor, payload (unit by unit) and index in separate steps and in either
order. The index may be read in two pieces. Frames are numbered, so a property
can say which one was heard. `Room` is how many entries the payload area holds besides
the one that is copied: 32 with the sizes of the code.

`Detector` (`Detector_proofs`) is the state machine of `detector_push`; a sample is its position in
the input, so an utterance shows what it is made of. `Matcher` is
`extract_features`, `dtw_score` and the decision of `evaluate_utterance`, with
unsigned costs of limited width, against a definition over all warping paths.

`HevcAssembler` (operators) and `RingFollower` (`MCRingFollower`,
`RingFollower_proofs`) are
`feed_hevc_chunk` with what it calls, and `stream_main`. A bitstream is a
sequence of pieces that know which NAL unit and access unit they are of; a
snapshot is read table first, and the writer may publish late, twice, or
overwrite meanwhile. Entries are numbered in the order `compare_entry_order`
sorts them in, so the sorted and deduplicated table of the code is a set of
numbers, whatever order its slots are in. An entry is an anchor for its key frame only
if its first start code is `near`, within `VIDEO_PREFIX_SCAN_LIMIT` (256) bytes; one of
the recordings has a key frame that is not. `SendEntry` appends an entry to what
is pending and `SendNal` is one round of the loop of `feed_hevc_chunk`: one NAL
unit. `gone` records what was overwritten before it was read, so
the properties can say that nothing else is lost.

`RtspSession` (`MCRtspSession`, `RtspSession_proofs`) is `main` of the sidecar: one
client at a time, whose bytes arrive in pieces that need not be requests. Each
branch of the request loop is an action (`Junk`, `Garbled`, `NotFound`,
`Describe`, `Unsupported`, `NoAudio`, `Setup`, `Play`, `Teardown`,
`NotImplemented`); `Accept`, `RecvSome`, `RecvEnds`, `SendReply`, `ReplyFails`
and `CloseClient` are around them. A client (external) connects, asks, reads and
hangs up when it likes, also in the middle of a request, of an answer or of a
unit. It extends `RtpSender`, which is `send_hevc_nal`, `send_aac_frame` and
`send_rtp_packet` packet by packet, with a receiver that puts fragments together
as RFC 7798 says. `UnitChannel` is what these packets implement: whole access
units, one by one. `RingFollower` says which entries are sent; here any may be.

`RingArithmetic` has no model in it: it holds the lemmas about remainders and
bounded sets that `AkStream_proofs`, `Detector_proofs` and `RingFollower_proofs`
cite.

Definitions that a comment calls a *mutant* are not part of the model: each is
a plausible mistake in the code, and each property is checked to notice one.

## Runs

| run | what it shows | bounds | distinct states |
|---|---|---|---|
| `kick_one` | one kick, all command lines: the target survives, is left stopped only after a foreign signal, exit status 0 means no half chain and no held heap lock, success delivers, a dry run changes nothing, it ends | 2 stray signals, 1 kill, target may die | 320 k |
| `kick_two` | two kicks contend: no stub on a stub, no patch over a slot that changed, nothing abandoned; kicks that check the guard start the server once, in the attached thread or in a new one, unless one reads the guard before the other's new thread has run | 1 signal, lost alarm possible; command lines: start, chain, start in a new thread with a string, another function without guard check | 1.4 M |
| `boot_watchdog` | the script: right firmware and offsets, backoff, and it settles | 2 processes, 1 loss of ports, 1 clock step, 2 failed kicks | 308 k |
| `boot_marker`, `boot_guard` | findings 1, 2 | | |
| `wakenet` | the mailbox keeps its promise; exit drains it; audio never waits for the server; `--once` | 4 wake words, 1 spurious wakeup | 9 k |
| `akstream_follow` | audio in order, no silent gap, catches up, torn index included; which frames are whole | 12 frames, ring of 6, pauses shorter than a round, payload area that holds the backlog and not one entry more, as in the code | 682 k |
| `detector_vad` | an utterance is one piece, with its head, without the one before; accepted only after quiet | 22 samples, `int` wraps at 8 | 192 k |
| `matcher_verdict` | DTW in two rows is the cheapest path; early exit and truncation decide correctly | all utterances of 2..5 frames over 4 levels | 101 k |
| `ring_follow` | every entry once, in order, units whole, key frame first, timestamps rise, the client catches up | rings of 6 entries, recordings of 7 to 9, 1 repetition, 2 rounds of replay | 445 k |
| `rtsp_session` | one answer to each request of a client that waits for it; packets on the channels agreed, nothing left over from the client before; packets well formed; the stream implements `UnitChannel`; an answer comes, and who waits is served, as long as clients leave | 2 clients, one that does not wait for answers; 3 requests each; units at the packet limit, one byte over, and with last fragments of one byte and exactly full; sequence numbers wrap at 2 | 110 k |
| `stub_code` | both stubs at every instruction of `rtsp_kick`: registers and stack are as the caller left them, no stale instruction is run | 2 frames a channel | 23 k |

Why these are enough: in each the ring or buffer wraps at least once, counters
that wrap do so, every label is reached with every kind of interruption, and one
more instance of the interrupting event repeats what one does. Two kicks suffice
because only one can be attached: a third can only be refused. `MaxAttempts`,
`MaxRounds`, `MaxRepeats`, `MaxSignals`, `MaxKills`, `MaxPids`, `MaxDrops`,
`MaxSteps`, `MaxFails`, `MaxWakes`, `MaxSpurious`, `FrameLimit`, `MaxRequests`, `MaxFrames`,
`BufferSize`, `PollSlack`, `BatchSlack` and `Samples` bound what happens outside; they are constants of the
modules, declared as bounds. `PollSlack` and `BatchSlack` are also an assumption
(`PauseAssumption`): a reader that sleeps a whole round of the ring sees the index where it was and
skips the round unnoticed (`jarvis_wake.c:1151` takes the distance modulo 896).
Deadlock is checked in the runs of `VendorBoot`, `WakeNet`, `Detector` and
`Matcher`, where the end is a step of its own; kicks, ring readers, clients and
threads that run a stub just end. In `rtsp_session` two messages fill a socket
buffer and the listen queue holds one connection, so that sends block and
clients are turned away; a sequence number that wraps at 2 wraps within every
fragmented unit, and one that was lost or sent twice would still be noticed.

## Fairness

* `RtspKick`: every kick process runs. Nothing of the target: a callee may
  block for ever, and only the alarm ends the wait. With `AlarmRace` the alarm
  may come before `waitpid` is entered (`rtsp_kick.c:401`); then the wait is
  unlimited, and `Terminates` is not claimed.
* `VendorBoot`: the loop of `hack.sh` goes on; the camera starts its process
  again, registers callbacks, and a started worker opens its ports. No failure
  is assumed to stop, they are only bounded.
* `WakeNet`: both threads run. Whether the speech server answers is left open;
  `KeepsPromise` (in part) and `Exits` assume in so many words that calls return,
  which `SO_SNDTIMEO`/`SO_RCVTIMEO` see to. `AudioGoesOn` does not. All three
  allow that SIGPIPE ends the process (`BrokenPipe`).
* `RtspSession`: the sidecar runs, and `anyka_ipc` keeps recording. Nothing is
  expected of a client: `Served` says in its premise that those who are served
  leave, because the code has no timeout that would make them
  (`anyka_ring_rtsp_server.c:1522`); `Answered` is about requests, and ends with
  a client that does not read its answers.
* `AkStream`, `RingFollower`: reader and writer are processes that run. In
  `RingFollower` the fairness of the reader is written out with its enabling
  condition, `ReaderCan`, because TLC needs very long to evaluate `ENABLED Reader`.

## Proofs

Every action property and every safety invariant that TLC finds to hold of
`RtspKick`, `VendorBoot`, `WakeNet`, `AkStream`, `Detector`, `RingFollower` and
`RtspSession` is proved by TLAPS for all values of the constants the named assumptions allow, and so
are two refinements.

### RtspKick

`RtspKick_proofs`, for any set of kicks, any set of accepted command lines and any
bounds, from `KickAssumption` alone:

| theorem | property | |
|---|---|---|
| `TypeCorrect` | `TypeOK` | |
| `ChainIsSound` | `ChainSound` | a redirected slot leads to a complete stub of its own channel, never to another stub |
| `PatchIsFresh` | `PatchReplacesWhatWasRead` | a slot still holds what was read when it is overwritten |
| `NothingAbandoned` | `NoAbandonedCall` | without timeout or kill the thread is given back its registers and stack word |
| `TargetIsSafe` | `TargetSurvives` | and does not run into the trap address untraced |
| `NotFrozen` | `FrozenOnlyBySignal` | without another signal, timeout or kill it is not left stopped |
| `SuccessIsClean` | `CleanSuccess` | after status 0 without timeout the thread goes on where the attach found it |
| `SuccessIsDelivery` | `SuccessDelivers` | status 0 means that what the command line asks for is done |
| `StartsOnce` | `StartOnce` | kicks that check the guard start the server once at most, in the attached thread or in a new one, unless one read the guard while a new thread was still to run |
| `DryRunIsDry` | `DryRunTouchesNothing` | a dry run or a peek changes nothing; only a thread that an earlier kick made may begin meanwhile |

The argument has layers. `ChainInv` is inductive: `AttachInv` (a kick at a
label after the attach is the tracer, and the other way round, so at most one
kick is there), `LabelInv` (which remote call a label belongs to), `ReadInv`
(once an install has accepted the slots they hold the stock wrappers until it
overwrites them: the target may run meanwhile, but it only registers callbacks
in empty slots, and no other kick can be attached) and `SlotInv` (a stub in a
slot is of a kick that finished writing its stubs). `ChainSound` alone is not
inductive: it says nothing of what a kick about to write a slot has read.
`StepMoves` reduces every action to how it moves through the labels, and the
four parts are proved from that.

`CallInv`, given `ChainInv`, is inductive as well: as long as nothing is blamed,
the thread stands still at every label outside a wait; it is in foreign code
only during a remote call of its tracer, and then that tracer has saved the
thread's own registers; likewise for the stack word. It is conditional on
`~Blamed` because a timeout really does leave the thread where it is.

The other invariants stand on these two. `StopInv`: without a foreign
signal, a SIGSTOP that is on its way belongs to an attach that still waits for it.
`CleanInv`: while its tracer has not timed out, the thread has the registers the
attach found, or they are saved; unlike `CallInv` it does not ask that nobody else
was ever blamed. `ReturnInv`: when a call is believed to have returned, it was the
tracer's own and its callee ran to the end. `DeliverInv`: what is done by the time
a kick is at a label, so that the last one implies all of it. `StartInv`: at
most one start is on its way, in a kick or in a thread that is due, and only before the
first; after the first the guard is set. A kick on its way found the guard zero, and it
still is, since no other kick can be attached and no thread was due. That no thread was
due when it read the guard is what `raced = {}` says, and the proof needs it there
only. `ReturnInv` gives that a thread is made for the tracer and for nobody else.

### VendorBoot

`VendorBoot_proofs`, for any card, any troubles and any numbers of processes, lost
ports, clock steps and failed kicks, from `BootAssumption` alone:

| theorem | property | |
|---|---|---|
| `InvariantHolds` | | `TypeOK`, `FitInv` and `AgeInv` |
| `KickFits` | `KickFitsFirmware` | rtsp_kick runs with the offsets of the firmware, or on one the user vouched for |
| `BackoffIsHeld` | `BackoffHeld` | two attempts are `MIN_RETRY_SECONDS` apart unless somebody sets the clock |

`FitInv` extends the property to every label between `check_supported_binary` and
the end of the install, and holds although the card is written meanwhile: it can
only come to allow more. `AgeInv` relates the time stamp in the file to the time
the script has really been quiet.

### WakeNet

`WakeNet_proofs`, for any number of wake words and spurious wakeups, from
`WakeAssumption` alone:

| theorem | property | |
|---|---|---|
| `InvariantHolds` | | `TypeOK` and `Inv` |
| `NothingLost` | `ExitDrains` | no accepted event is left at a normal exit |
| `OnceMeansOnce` | `OnceIsOnce` | with `--once` there is one wake, and it is posted |
| `ImplementsMailbox` | | `Spec => Box!Safe`, the safety half of `KeepsPromise` |

`MutexInv` says who holds the mutex at which label, `BoxInv` that the mailbox holds
an event exactly when one more was accepted than taken and that a half copied is
half of that event, `PostInv` that the worker posts what it took before it takes
more, `LifeInv` that the worker outlives the last event. The mutex is needed for
`BoxInv`: an event is copied in two halves on both sides. The step proof has one
step per action; in the refinement `Put` and `Take` are the steps of `Mailbox` and
all others stutter.

### AkStream

`AkStream_proofs`, for rings, payload areas, frames and backlogs of any size, from
`RingAssumption` and `PauseAssumption` (neither a sleep nor a batch lasts a round
of the ring, which is 55 s):

| theorem | property | |
|---|---|---|
| `InvariantHolds` | | `RingInv` and `ReaderInv` |
| `HeardInOrder` | `InOrder` | frames are heard in order and once, with a gap only after a resync |
| `SpoiltOnlyByOvertaking` | | a sample is not its frame's own only when the writer is a payload area past the frame's first sample |
| `HeardWhole` | `FedWhole` | so a frame is whole if it is copied before `Room` newer ones are begun |
| `ShortBacklogWhole` | | and in a batch, if those behind it, those begun meanwhile and the two that may be left alone are fewer than `Room` |

`RingInv` describes the ring by the number of the frame being written: which
frame the index is of, and that descriptors and payload hold the last round, in
either order of publication and at every unit in between. `ReaderInv` needs a
witness: `last_index` is the slot of some frame `l`, less than a round behind; the
code only knows the slot, so `l` is quantified, and each step shows which `l`
comes next. Two frames less than a round apart have different slots (`SlotsDiffer`),
and that makes the distance modulo the ring the real one. After a torn read of the
index nothing of this holds; `misread` excuses it, as it does in the properties.

`Room` is `(PAYLOAD_SIZE + Header) \div Frame`, and that is 32 for 32768 bytes, a header
of 16 and entries of 996. The bound is tight: with `<= Room` in `FedWhole` TLC finds a
frame that is spoilt, the oldest of a full backlog. So a batch of 32 entries
spoils its oldest ones, and by `ShortBacklogWhole` only those with 30 or more behind them
as long as nothing is begun meanwhile. None of these theorems has a hypothesis about
the size of the payload area.

### Detector

`Detector_proofs`, for frames, rings, runs and utterances of any length, any
energies and reads, and any width of `int`, from `DetectorAssumption` and
`RingAssumption` (both sizes are powers of two; the ring holds the loud frames
before the one that opens an utterance and fits into an utterance with a frame to
spare, which holds of the lengths `main` sets at 8000 and at 16000 Hz, and no option
changes them):

| theorem | property | |
|---|---|---|
| `InvariantHolds` | | `TypeOK`, `PieceInv`, `RingInv`, `RunInv`, `StartInv` and `QuietInv` |
| `UtteranceIsOnePiece` | `OnePiece` | an utterance is one unbroken piece of the input |
| `UtteranceStartsRight` | `StartsRight` | with its first loud frame, and nothing of the one before |
| `NoHastyAccept` | `OnlyAfterQuiet` | nothing is accepted in the middle of speech but by `--eval-max-len` or at the end |

`RingInv` reads the pre-roll ring backwards from `pre_write`; it survives the wrap
of the `int` because the ring's size divides the range of the `int` (`SlotIsRest`,
`SlotWraps`), which is why that size has to be a power of two. `RunInv` says that
the present run of loud frames is still in the ring and that what the ring holds
lies behind the last utterance, and that is what `StartsRight` needs at the moment
an utterance is opened.

### RtspSession

`RtspSession_proofs`, for any clients, any requests, access units and audio
entries of any size, any packet limit above 4 and any range of sequence numbers,
from `RtpAssumption`; the last two also from `SessionAssumption`, for requests cut
into any pieces, any backlog and any size of the connections' buffers:

| theorem | property | |
|---|---|---|
| `SessionSends` | | a session begins, sends and ends as `RtpSender` does: `Spec => RtpSpec` |
| `ReceiverInStep` | | what has been sent of a unit is what the receiver has of it |
| `SessionWellFormed` | `WellFormed` | no packet empty or too long, no fragment first and last, AU-size is the length of the frame |
| `SessionDelivers` | `DeliversUnits` | a session implements `UnitChannel` |
| `SessionAgrees` | `PacketsAsAgreed` | a packet comes on the channel its client knows of when it reads it |
| `SessionAnswers` | `OneAnswerEach` | a client that waits for its answers has at most one under way, and it is to the request it waits for |

`RtpInv` is inductive: `Place` (`send_hevc_nal` is at the beginning of a NAL unit,
or between two fragments of one that does not fit and before its end) and
`InStep` (the receiver expects the number that comes next, and has the units
before this one and this one up to `pos`). `DeliversUnits` alone is not enough:
it says nothing of a unit half sent. `PacketShape` and `TakenIn` say what the
next packet looks like and what the receiver makes of it; `OneMore` is the lemma
about sequences behind the last fragment. `SessionInv` ties the request loop to
it: a stream is on exactly in `stream_main`, and the sequence numbers in an
answer that waits to be sent are still the present ones when it goes out.

`SessionType` is inductive and says, besides the types, that whoever is served
has a connection. `AgreeInv`, given it, is inductive: nothing is in any other
connection and no other client has been told anything; in the connection that is
served the answers come before the packets, and packets are on the channels in
use; and for either track the last answer that is still unread tells the channel
in use, or, where there is none, the client knows it, or the answer that tells it
is the very one that is about to be sent. `PacketsAsAgreed` alone is not
inductive: it looks at the first message of a connection and says nothing of what
stands behind it. `ReadTells` and `PostOther` are the lemmas about reading and
writing that carry it.

`TurnInv`, given both, is inductive: at any time a request of such a client is in
exactly one place. It is in the connection, in pieces, or in the request buffer, or
answered, the answer being about to be sent or unread; and where it is, nothing
else of that client is.

### RingFollower

`RingFollower_proofs`, for any recordings cut into entries in any way, tables and
payload areas of any size, any stability delay, and any numbers of repetitions,
attempts and rounds, from `RingFollowerAssumption` and `RecordingAssumption` (the
convention that entries are numbered in the order of time):

| theorem | property | |
|---|---|---|
| `RingHolds` | | what the ring, a snapshot and the list of entries to be sent are built on |
| `EveryEntry` | `NoneSkipped` | a live client gets every entry in order and once, but for what was overwritten |
| `InvHolds` | | the same with assembler and times: `Inv` |
| `FirstIsKey` | `KeyFirst` | the first unit is a key frame with its three parameter sets, whatever is overwritten |
| `TimesAscend` | `TimesRise` | timestamps rise, from one round of a replay to the next as well |
| `UnitsAreWhole` | `WholeUnits` | while nothing is overwritten the client gets whole access units, and none is left out |

Four further assumptions, each used in one place:
`StabilityAssumption` (an entry is not published later than
`LIVE_STABILITY_DELAY_MS` allows for) where a snapshot is taken, in `RingHolds`;
`PictureAssumption` (an entry begins one picture at most, and two pictures never
share a millisecond) for the times in `InvHolds`; `PieceAssumption` and
`BitstreamAssumption` for `UnitsAreWhole`: what the recording holds is a part of an
H.265 bitstream, in order, whose ends may be in the middle of a picture. Where
entries are cut is left open by all of them. TLC evaluates them on its
recordings.

`NoneSkipped` says nothing of an entry before its turn, so the argument begins in
the ring. `OvertakeInv`: entries that are not yet published although a newer one is
are less than `Lateness` older. `SnapInv`: an entry that a snapshot lacks is
therefore overwritten, or too new to be stable. `TodoInv`: an entry that is not
among those to be sent is gone or has been sent, and a gap in what is sent is
overwritten. The cursor alone would not do: it moves only when an entry is sent.

`KeyFirst` needs that what is pending begins with a start code as soon as it has one
(`Aligned`), and that the unit that is put together is a key frame already while
nothing has been sent (`Keyed`). No entry needs to be intact for that.

`TimesRise` needs four terms in order: the units sent, the unit in hand, the
pictures that wait, and those ahead (`Ordered`). The last are
those of the entries the cursor has not passed, or in a replay of the entries left
in this round; each SendEntry moves one from ahead to waiting, each SendNal one
from waiting into the hand. `RoundInv` says that what was sent in a round is no
newer than its newest entry, and that the offset added to the next round is more
than a round lasts. `Exact` is where overwriting comes in: an entry that was
overwritten brings another picture under its own timestamp, and the order holds
then only when no two video entries share one. Hence the premise of `TimesRise`.

`WholeInv` relates what a round has been fed to four places where it can be:
routed away, in `prefix`, in `au`, or waiting. `RangeInv`: the entries fed are those
from the first of the round to the cursor, without a gap. `WaitingInv`: pieces
that wait come behind all pieces routed. `SearchInv`: before the first key frame
`prefix` holds the parameter sets since the last VPS. `GatherInv`: after it, `au` is
exactly the routed part of its access unit, `prefix` what was routed of the next
one. `Framed` gives the reason each NAL unit that is taken is complete: what is
fed is a part of the bitstream without a gap, so the next start code is the next
NAL unit's. A unit is sent when the first slice of the next one arrives, and `au` is
then all of `Source`. What remains is the seam: the first unit of a round begins
at its VPS (`IsFirst`), every other is the successor of the one before it
(`IsLater`), and `FileInv` says that a replayed file has no hole, so that a round
does not skip. TLC checked `WholeInv` and `FileInv` as invariants of the run before
they were proved, with smaller rings as well.

### Lemmas

`RingArithmetic`: quotient and remainder (`Division`), how many whole parts a length
has (`WholeParts`), what whole turns do to a place in a ring (`WholeTurns`,
`SamePlace`, `Distance`), that places less than a
turn apart differ (`SameRest`), and that a bounded set of numbers that is not empty
has a greatest element (`Greatest`), which the prover is not given; that `Max` and
`Min` are those elements follows from it in `RingFollower_proofs`. Lemmas about
sequences and functions stand beside the proofs that use them.

### Only model-checked

* `VerdictIsSharp` and `RightVerdict` of `Matcher`: they compare two recursive
  definitions, one over rows and one over paths, and induction over data is out
  of the prover's reach.
* `BothGetTheFrame` and `NoHarm` of `StubCode`: the code is fixed, and the one
  constant a proof would free is the number of frames. A thread begins every frame
  in the same state, so two of them show what any number would.
* What must happen: `Terminates`, `Settles`, `KeepsPromise` (its live half),
  `AudioGoesOn`, `Exits`, `CatchesUp`, `Answered`, `Served`. Liveness, and the
  `ENABLED` in fairness, are out of the prover's reach.

## Findings

Each is a run in which TLC reaches what a sentence of the repository rules out.

1. `boot_marker`: the done marker is also written when the install was refused
   because callbacks were late and the ports are up (`vendor_rtsp_boot.sh:254`),
   and nothing installs the chain in that process afterwards.
2. `boot_guard`: a start that leaves the guard word set but no listener is
   retried with the guard check on, and refused, for ever (line 238).

Observed while modelling, without a run:

* `rtsp_kick`: README.md:477 calls the dry run safe. `rtsp_kick.c:1265` takes any
  stop for the one of the attach; when another signal is reported first, the
  SIGSTOP is delivered after the detach and the camera stays stopped, also after
  a dry run (`FrozenOnlyBySignal` allows it after a foreign signal). A timeout of
  the remote cacheflush is only a warning (line 993), so an install can report
  success while the thread is on its way to the trap address (`CleanSuccess`
  excludes kicks that timed out) or while a cache has not seen the stubs
  (`NoHarm`). The guard is read before a call and raised by the function that is
  called, so two kicks that check it (line 1318) can start the server twice when the
  first starts it in a new thread (`--call-in-new-thread`): it reports success as soon as
  the thread is made, and the second may read the guard before that thread has run.
  `StartOnce` excludes this case (`raced`) and no other. The stub keeps the third argument of a callback in `r6` for the old
  callback and leaves `r3` of `ht_rtsp_send_video_frame` as the old callback left
  it.
* boot script: README.md:392 speaks of retrying after about 10 s, while
  `MIN_RETRY_SECONDS` is 30; a `/tmp/rtsp_kick` that was copied only in part stays
  until reboot; the unsupported marker outlives a later `allow` marker.
* `jarvis_wake`: 32 backlog entries of 996 bytes, and the
  frame being written, are 100 bytes more than the payload area
  (`jarvis_wake.c:1157`), so the oldest entry after a resync may be heard with
  samples of the frame being written. `FedWhole` says which frames are whole and
  leaves that one out; `threshold * length` wraps at 32 bits for thresholds
  nobody uses (line 496); `send` is called without `MSG_NOSIGNAL` and SIGPIPE is
  not ignored (line 560), so a server that closes and resets a connection before
  the request is sent ends the listener (the sidecar does ignore it, line 2045).
* sidecar: the default of `--video-structured-skip` is 36, of which the comment at
  line 396 says that it may cut the tail of a NAL unit (`WholeUnits` is therefore
  about the bytes that get past it); an entry without chunk header is never an
  anchor; the last access unit of a round is never sent. When an
  entry is overwritten under the reader, the bytes of another come under its
  timestamp, and two units may then have the same one (`TimesRise` excludes that case
  unless video entries have timestamps of their own). What arrives behind a
  request is thrown away with it (line 2100), so a client that does not wait for
  answers loses requests, or has one taken for another (`Garbled`). A SETUP of
  the audio track without Transport header is given channel 0, the one of video
  (line 2139). An AAC frame that does not fit into one packet ends the stream
  (line 1413); an error of `accept` other than EINTR ends the program; a client
  that neither sends nor leaves keeps every other one waiting. Audio and video
  begin their timestamps independently and no RTCP relates them.

## What is not modelled

* Instruction encodings (`StubCode` has instructions, not their bits), address
  resolution, option parsing, logging.
* Bytes: start codes split between entries, tearing inside one ring entry of
  the sidecar, AAC/ADTS headers.
* Texts of requests and answers, the SDP, RTP timestamps, SSRCs and RTCP.
* The text of the HTTP request of `jarvis_wake`, template files and command line.
  The confidence it sends is computed in `int` and overflows for thresholds
  above 2147483 (line 720). The noise floor of the detector follows only frames
  below its own threshold (line 925): energies of three levels cannot tell a
  lasting step in the noise from speech.
* Upload tools, deployment and build scripts, diagnostics: sequential, or
  dependent on a shell that is not in the repository. The command lines of the
  speaker script are among those of `kick_one` (a call in a new thread) and `kick_two`
  (volume, a direct call).
* `packages/` holds copies of `sdcard/`.

## Plan

Done: `RtspKick` and its proofs, `StubCode`, `VendorBoot`, `WakeNet`/`Mailbox`,
`AkStream`, `Detector`, `Matcher`, `HevcAssembler`/`RingFollower`,
`RtspSession`/`RtpSender`/`UnitChannel` and their proofs.

Left: `NoHarm` and `BothGetTheFrame` of `StubCode` as theorems, with an invariant
that says what each register holds at each instruction, which would add the number
of frames only; and `Matcher`'s two properties, once a prover can do induction over
rows and paths.

## Running

    tlc -config RtspKick_one.cfg MCRtspKick.tla
    tlapm RtspKick_proofs.tla

and in the same way `VendorBoot_proofs`, `WakeNet_proofs`, `AkStream_proofs`,
`Detector_proofs`, `RtspSession_proofs`, `RingFollower_proofs` and `RingArithmetic`.

`PROJECT.json` names module and configuration of every run, the source lines
every definition stands for, and for every property the mutant that breaks it.
The longest run takes about two minutes with two workers, the longest proof
(`RingFollower_proofs`) five to eight.
