------------------------------ MODULE AkStream ------------------------------
(***************************************************************************)
(* run_ak_stream of jarvis_wake: follow /tmp/AudioStream, the shared ring  *)
(* anyka_ipc writes microphone frames to.  There is no lock: the reader    *)
(* polls the index of the newest descriptor, stays one entry behind it,    *)
(* and after a long pause goes on with the latest MAX_BACKLOG entries.     *)
(* Frames are numbered in the order they are written; payload is counted   *)
(* in units, the first Header ones of a frame being its header.            *)
(***************************************************************************)
EXTENDS Integers

CONSTANTS
  DESC_COUNT, MAX_BACKLOG, PAYLOAD_SIZE,
  Frame,       \* units of a frame
  Header,      \* units of its header
  Byte,        \* values of a byte of the index
  Tears,       \* is the index read one byte at a time?
  FrameLimit,  \* bound: number of the last frame written
  PollSlack,   \* bound: frames begun between two polls
  BatchSlack   \* bound: frames begun while a batch is being processed

LAG_ENTRIES == 1

ASSUME RingAssumption ==
  /\ {DESC_COUNT, MAX_BACKLOG, PAYLOAD_SIZE, Frame, Byte} \subseteq Nat \ {0}
  /\ Header \in 0 .. Frame - 1 /\ Frame <= PAYLOAD_SIZE
  /\ MAX_BACKLOG < DESC_COUNT
  /\ Tears \in BOOLEAN
  /\ {FrameLimit, PollSlack, BatchSlack} \subseteq Nat

(* Pauses are shorter than a round of the ring, which lasts 55 s: then the *)
(* distance modulo DESC_COUNT is the real one, and no entry of a batch is  *)
(* written again before it is read.                                        *)
ASSUME PauseAssumption ==
  /\ PollSlack + BatchSlack + LAG_ENTRIES < DESC_COUNT
  /\ MAX_BACKLOG + BatchSlack + LAG_ENTRIES < DESC_COUNT

VARIABLES
  \* the ring, written by anyka_ipc (external)
  index,       \* descriptor index at 0x494
  desc,        \* frame a descriptor is of; Torn while it is being written
  payload,     \* frame a unit of the payload area was written for
  newest,      \* frame being written, or the last one written
  step, unit,  \* how far that is
  indexFirst,  \* is the index advanced before or after the frame is there?
  \* the reader
  pc, first,   \* first: the byte of the index read first, when it tears
  half,        \* its value
  last_index, target_index,
  i, pending,  \* the loop over the batch
  entry,       \* the parsed entry
  at,          \* units of it copied so far
  g_stop,
  \* history
  whole,       \* all samples copied so far are of the entry's frame
  fed,         \* last frame given to the detector
  skipped,     \* something was knowingly skipped since
  misread,     \* what was read in two pieces was not the index
  polled, begun

writerVars == <<index, desc, payload, newest, step, unit, indexFirst>>
readerVars == <<pc, first, half, last_index, target_index, i, pending, entry,
                at, g_stop>>
histVars   == <<whole, fed, skipped, misread>>
vars == <<writerVars, readerVars, histVars, polled, begun>>

None == -1  \* never written
Torn == -2  \* half written

Slot(k) == k % DESC_COUNT

(* The ring after frames 0 .. k. *)
Init ==
  \E k \in 0 .. DESC_COUNT :
    /\ newest = k /\ index = Slot(k) /\ step = 4 /\ unit = 0
    /\ desc = [d \in 0 .. DESC_COUNT - 1 |->
                 IF d <= Slot(k) THEN k - (Slot(k) - d)
                 ELSE IF k >= DESC_COUNT THEN k - Slot(k) - DESC_COUNT + d
                 ELSE None]
    /\ payload = [c \in 0 .. PAYLOAD_SIZE - 1 |->
         LET writers == {f \in 0 .. k : \E u \in 0 .. Frame - 1 :
                                          (f * Frame + u) % PAYLOAD_SIZE = c}
         IN  IF writers = {} THEN None
             ELSE CHOOSE f \in writers : \A g \in writers : g <= f]
    /\ indexFirst \in BOOLEAN
    /\ pc = "start" /\ first = "lo" /\ half = 0
    /\ last_index = 0 /\ target_index = 0 /\ i = 1 /\ pending = 0
    /\ entry = None /\ at = 0 /\ g_stop = FALSE
    /\ whole = TRUE /\ fed = None /\ skipped = TRUE
    /\ misread = FALSE
    /\ polled = 0 /\ begun = 0

-----------------------------------------------------------------------------
(* anyka_ipc (external) *)

(* What it does for one frame, in order. *)
Order == IF indexFirst THEN <<"index", "tear", "desc", "payload">>
                       ELSE <<"payload", "tear", "desc", "index">>

InBatch == pc \in {"entry", "copy", "feed"}

BeginFrame ==
  /\ step = 4 /\ newest < FrameLimit
  /\ IF InBatch THEN begun < BatchSlack ELSE polled < PollSlack
  /\ newest' = newest + 1 /\ step' = 0
  /\ IF InBatch THEN begun' = begun + 1 /\ UNCHANGED polled
                ELSE polled' = polled + 1 /\ UNCHANGED begun
  /\ UNCHANGED <<index, desc, payload, unit, indexFirst, readerVars, histVars>>

Doing(what) ==
  /\ step < 4 /\ Order[step + 1] = what
  /\ UNCHANGED <<newest, indexFirst, readerVars, histVars, polled, begun>>

WriteIndex ==
  /\ Doing("index")
  /\ index' = Slot(newest) /\ step' = step + 1
  /\ UNCHANGED <<desc, payload, unit>>

WriteDesc ==
  /\ \/ Doing("tear") /\ desc' = [desc EXCEPT ![Slot(newest)] = Torn]
     \/ Doing("desc") /\ desc' = [desc EXCEPT ![Slot(newest)] = newest]
  /\ step' = step + 1
  /\ UNCHANGED <<index, payload, unit>>

WriteUnit ==
  /\ Doing("payload")
  /\ payload' = [payload EXCEPT ![(newest * Frame + unit) % PAYLOAD_SIZE]
                                   = newest]
  /\ unit' = (unit + 1) % Frame
  /\ step' = IF unit = Frame - 1 THEN step + 1 ELSE step
  /\ UNCHANGED <<index, desc>>

Writer == BeginFrame \/ WriteIndex \/ WriteDesc \/ WriteUnit

-----------------------------------------------------------------------------
(* The reader *)

KeepRing == UNCHANGED writerVars

NoLag(current) == current \* mutant: LAG_ENTRIES is 0

(* The newest entry is left alone: it may still be being written. *)
Target(current) == (current + DESC_COUNT - LAG_ENTRIES) % DESC_COUNT

PlainDifference(to, from) == IF to >= from THEN to - from ELSE 0
  \* mutant: the difference does not go round the ring

Pending(to, from) == (to + DESC_COUNT - from) % DESC_COUNT

(* start_index *)
Open ==
  /\ pc = "start"
  /\ last_index' = Target(index)
  /\ pc' = "loop" /\ polled' = 0
  /\ KeepRing
  /\ UNCHANGED <<first, half, target_index, i, pending, entry, at, g_stop,
                 histVars, begun>>

(* while (!g_stop); afterwards detector_finish and the end. *)
Leave ==
  /\ pc = "loop" /\ g_stop /\ pc' = "done"
  /\ KeepRing
  /\ UNCHANGED <<first, half, last_index, target_index, i, pending, entry, at,
                 g_stop, histVars, polled, begun>>

(* Where to go on: after last_index, or MAX_BACKLOG before the target. *)
Resume(to, more) ==
  IF more > MAX_BACKLOG THEN (to + DESC_COUNT - MAX_BACKLOG) % DESC_COUNT
                        ELSE last_index

(* One round of the loop, current being the value read. *)
Poll(current) ==
  LET to   == Target(current)
      more == Pending(to, last_index)
  IN  /\ polled' = 0 /\ begun' = 0
      /\ IF current >= DESC_COUNT \/ more = 0
           THEN /\ pc' = "loop"  \* sleep_ms(AK_STREAM_POLL_MS)
                /\ UNCHANGED <<last_index, target_index, pending, i, skipped>>
           ELSE /\ pc' = "entry" /\ target_index' = to /\ i' = 1
                /\ last_index' = Resume(to, more)
                /\ skipped' = (skipped \/ more > MAX_BACKLOG)
                /\ pending' = IF more > MAX_BACKLOG THEN MAX_BACKLOG ELSE more
      /\ KeepRing /\ UNCHANGED <<entry, at, g_stop, whole, fed>>

ReadIndex ==
  /\ pc = "loop" /\ ~g_stop
  /\ Poll(index)
  /\ UNCHANGED <<first, half, misread>>

(* ak_stream_read_index reads the bytes one by one, in either order. *)
ReadHalf ==
  /\ Tears /\ pc = "loop" /\ ~g_stop
  /\ pc' = "half"
  /\ \/ first' = "lo" /\ half' = index % Byte
     \/ first' = "hi" /\ half' = index \div Byte
  /\ KeepRing
  /\ UNCHANGED <<last_index, target_index, i, pending, entry, at, g_stop,
                 whole, fed, skipped, misread, polled, begun>>

ReadOtherHalf ==
  /\ pc = "half"
  /\ LET current == IF first = "lo" THEN (index \div Byte) * Byte + half
                                    ELSE half * Byte + (index % Byte)
     IN  /\ Poll(current)
         /\ misread' = (misread \/ current # index)
  /\ half' = 0 /\ first' = "lo"

(* ak_stream_parse_entry: an entry that was never written has length 0; of *)
(* a half written one the fields may pass the checks or not.               *)
ParseEntry ==
  /\ pc = "entry" /\ i <= pending /\ ~g_stop
  /\ LET d == desc[(last_index + i) % DESC_COUNT]
     IN  \/ /\ d # None
            /\ entry' = d /\ at' = 0 /\ whole' = (d # Torn) /\ pc' = "copy"
            /\ UNCHANGED <<i, skipped>>
         \/ /\ d \in {None, Torn}
            /\ i' = i + 1 /\ skipped' = TRUE
            /\ UNCHANGED <<entry, at, whole, pc>>
  /\ KeepRing
  /\ UNCHANGED <<first, half, last_index, target_index, pending, g_stop, fed,
                 misread, polled, begun>>

(* ak_stream_process_entry: the copy goes round the end of the payload. *)
CopyUnit ==
  /\ pc = "copy" /\ at < Frame
  /\ at' = at + 1
  /\ whole' = (whole /\ (at < Header \/
                  payload[(entry * Frame + at) % PAYLOAD_SIZE] = entry))
  /\ KeepRing
  /\ UNCHANGED <<pc, first, half, last_index, target_index, i, pending, entry,
                 g_stop, fed, skipped, misread, polled, begun>>

FeedDetector ==
  /\ pc = "copy" /\ at = Frame
  /\ pc' = "entry" /\ i' = i + 1 /\ at' = 0
  /\ fed' = entry /\ skipped' = FALSE
  /\ KeepRing
  /\ UNCHANGED <<first, half, last_index, target_index, pending, entry,
                 g_stop, whole, misread, polled, begun>>

(* mutant: last_index stays where it was *)
EndBatchStays ==
  /\ pc = "entry" /\ (i > pending \/ g_stop)
  /\ pc' = "loop"
  /\ KeepRing
  /\ UNCHANGED <<first, half, last_index, target_index, i, pending, entry, at,
                 g_stop, whole, fed, skipped, misread, polled,
                 begun>>

EndBatch ==
  /\ pc = "entry" /\ (i > pending \/ g_stop)
  /\ pc' = "loop" /\ last_index' = target_index
  /\ KeepRing
  /\ UNCHANGED <<first, half, target_index, i, pending, entry, at, g_stop,
                 whole, fed, skipped, misread, polled, begun>>

on_signal ==
  /\ ~g_stop /\ g_stop' = TRUE
  /\ KeepRing
  /\ UNCHANGED <<pc, first, half, last_index, target_index, i, pending, entry,
                 at, histVars, polled, begun>>

Reader == Open \/ Leave \/ ReadIndex \/ ReadHalf \/ ReadOtherHalf
          \/ ParseEntry \/ CopyUnit \/ FeedDetector \/ EndBatch

Next == Writer \/ Reader \/ on_signal

Spec == Init /\ [][Next]_vars

(* Both processes run. *)
FairSpec == Spec /\ WF_vars(Reader) /\ WF_vars(Writer)

-----------------------------------------------------------------------------
(* Properties *)

(* Unless a torn index was read, audio is heard in the order it was        *)
(* recorded, no frame twice, and none is left out but by a resync.         *)
InOrder ==
  pc = "copy" /\ ~misread => /\ entry > fed
                             /\ ~skipped => entry = fed + 1

(* Entries the payload area holds besides the one that is copied, with the *)
(* samples of that one: 32 of 996 bytes in 32768.                          *)
Room == (PAYLOAD_SIZE + Header) \div Frame

(* "skips the 16-byte frame header and feeds the remaining s16le samples   *)
(* directly": every sample of a frame given to the detector is its own, if *)
(* it was copied before Room newer frames had been begun.  The oldest one  *)
(* after a resync is older than that: it is spoilt, here as in the code.   *)
FedWhole ==
  pc = "copy" /\ at = Frame /\ ~misread /\ newest - entry < Room => whole

(* When anyka_ipc pauses the reader catches up with it, whatever index it  *)
(* has read on the way, unless it was told to stop.                        *)
CatchesUp == <>[](g_stop \/ last_index = Slot(FrameLimit - LAG_ENTRIES))
=============================================================================
