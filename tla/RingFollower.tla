---------------------------- MODULE RingFollower ----------------------------
(***************************************************************************)
(* stream_main of the archived sidecar: one client is sent what anyka_ipc  *)
(* writes to the ring file.  The whole file is read again and again, table *)
(* first; entries may be published late, twice, or be overwritten while    *)
(* the file is being read, for there is no lock.                           *)
(***************************************************************************)
EXTENDS HevcAssembler

CONSTANTS
  Setups,       \* [script, mode, skip]: what anyka_ipc records, in the order
                \* of time; "live" (--loop-forever), "static"
                \* (--static-replay) or "once"; --video-structured-skip
  TableSlots,   \* MAX_TABLE_ENTRIES
  PayloadSlots, \* entries the payload area has room for
  Delay,        \* LIVE_STABILITY_DELAY_MS
  Lateness,     \* an entry is published less than this after its timestamp
  MaxAttempts,  \* attempts to find a key frame: 150 in the code
  MaxRepeats,   \* bound: entries published twice
  MaxRounds     \* bound: rounds of a static replay

FRAME_HEADER_SIZE == 36

(* A frame has a chunk header or not; with it, bytes 20..35 are carried    *)
(* over from the previous chunk.  near: its first start code lies within   *)
(* VIDEO_PREFIX_SCAN_LIMIT bytes.                                          *)
Piece == [au : Nat, kind : Kinds, nal : Nat, part : Nat \ {0}]
Entry == [ts : Nat, seq : Nat, video : BOOLEAN, header : BOOLEAN,
          near : BOOLEAN, carried : Seq(Piece), body : Seq(Piece)]

ASSUME RingFollowerAssumption ==
  /\ \A s \in Setups : /\ s.script \in Seq(Entry)
                        /\ s.mode \in {"live", "static", "once"}
                        /\ s.skip \in {20, FRAME_HEADER_SIZE}
  /\ {TableSlots, PayloadSlots, Delay, Lateness, MaxAttempts} \subseteq Nat \ {0}
  /\ {MaxRepeats, MaxRounds} \subseteq Nat

BeginsPicture(piece) == IsStart(piece) /\ piece.kind \in FirstSlices

(* video_payload_offset: the default of --video-structured-skip drops what *)
(* is carried over from the previous chunk.                                *)
Kept(entry, bytes) ==
  IF entry.header /\ bytes = FRAME_HEADER_SIZE
    THEN entry.body ELSE entry.carried \o entry.body

(* The pieces of a recording that get past it. *)
Stream(entries, bytes) ==
  UNION {ToSet(Kept(entries[e], bytes)) :
           e \in {x \in DOMAIN entries : entries[x].video}}

(* compare_entry_order, for different entries *)
Before(a, b) == a.ts < b.ts \/ (a.ts = b.ts /\ a.seq < b.seq)

(* Entries are numbered in that order.                                     *)
ASSUME RecordingAssumption ==
  \A s \in Setups : \A e \in DOMAIN s.script : \A x \in 1 .. e - 1 :
    Before(s.script[x], s.script[e])

Precedes(p, q) ==
  \/ p.au < q.au
  \/ p.au = q.au /\ (p.nal < q.nal \/ (p.nal = q.nal /\ p.part < q.part))

(* The pieces in them are numbered in the order of the bitstream.          *)
ASSUME PieceAssumption ==
  \A s \in Setups : \A x, e \in DOMAIN s.script :
    LET All(y) == Kept(s.script[y], s.skip)
    IN  s.script[x].video /\ s.script[e].video =>
          \A i \in DOMAIN All(x), j \in DOMAIN All(e) :
            x < e \/ (x = e /\ i < j) => Precedes(All(x)[i], All(e)[j])

HasPicture(stream, k) == \E p \in stream : p.au = k /\ BeginsPicture(p)

(* Access units as in H.265: NAL units that begin with their start code,   *)
(* parameter sets and SEI, the slices of one picture, suffixes; the video  *)
(* parameter set comes before the other two, each once, and with them an   *)
(* IDR picture.  Only the picture of the first access unit may have begun  *)
(* before the recording, and that of the last one after it.                *)
IsBitstream(stream) ==
  /\ \A p \in stream : \E b \in stream :
       IsStart(b) /\ b.au = p.au /\ b.nal = p.nal /\ b.kind = p.kind
  /\ \A p, q \in stream : p.au = q.au =>
       /\ p.kind \in PrefixKinds /\ q.kind \notin PrefixKinds => p.nal < q.nal
       /\ p.kind \in FirstSlices /\ q.kind \notin PrefixKinds => p.nal <= q.nal
       /\ p.kind = "vps" /\ q.kind \in Parameters => p.nal <= q.nal
       /\ p.kind = q.kind /\ p.kind \in Parameters => p.nal = q.nal
       /\ p.kind = "vps" /\ q.kind \in FirstSlices =>
            /\ q.kind = "idr"
            /\ \A k \in Parameters :
                 \E r \in stream : r.au = p.au /\ r.kind = k
  /\ \A p, q \in stream : p.au < q.au =>
       /\ \A k \in p.au + 1 .. q.au - 1 : HasPicture(stream, k)
       /\ p.kind \in PrefixKinds => HasPicture(stream, p.au)
       /\ q.kind \notin PrefixKinds => HasPicture(stream, q.au)

ASSUME BitstreamAssumption ==
  \A s \in Setups : IsBitstream(Stream(s.script, s.skip))

(* A chunk, which the encoder hands over at once, begins one picture at    *)
(* most, and two pictures are never of the same millisecond.               *)
ASSUME PictureAssumption ==
  \A s \in Setups : \A x, e \in DOMAIN s.script :
    LET All(y) == s.script[y].carried \o s.script[y].body
    IN  \A i \in DOMAIN All(x), j \in DOMAIN All(e) :
          /\ BeginsPicture(All(x)[i]) /\ BeginsPicture(All(e)[j])
          /\ s.script[x].ts = s.script[e].ts
          => x = e /\ i = j

(* What LIVE_STABILITY_DELAY_MS is for. *)
ASSUME StabilityAssumption == Lateness <= Delay

VARIABLES
  script, mode, skip,
  \* the ring, written by anyka_ipc (external)
  table,      \* entry a table slot is of, 0 for none
  offset,     \* logical_offset of an entry
  payload,    \* entry whose payload is at an offset (a whole entry: bytes
              \* torn within an entry are not modelled)
  begun,      \* entries whose payload has been written
  published,  \* entries that have been in the table
  writing,    \* the entry whose payload is there but which is not in the table
  nslot, npay, repeats,
  \* the reader
  pc, attempts,
  started,    \* a key frame was found
  snap,       \* table of the snapshot
  todo,       \* entries still to be sent, and what was read at their offset
  last_cursor,
  hevc,
  loop_offset_ms, loop_span_ms,
  \* history
  rounds,
  gone        \* entries overwritten before they were read

ringVars   == <<table, offset, payload, begun, published, writing, nslot,
                npay, repeats>>
readerVars == <<pc, attempts, started, snap, todo, last_cursor, hevc,
                loop_offset_ms, loop_span_ms, rounds, gone>>
vars == <<script, mode, skip, ringVars, readerVars>>

Entries == DOMAIN script

Nothing == <<>>

(* A static replay reads a file that nobody writes to any more. *)
Init ==
  /\ \E s \in Setups : script = s.script /\ mode = s.mode /\ skip = s.skip
  /\ LET n == IF mode = "static" THEN Len(script) ELSE 0
         Newest(i, size) == Max({0} \cup {e \in 1 .. n : (e - 1) % size = i})
     IN  /\ nslot = n /\ npay = n /\ begun = 1 .. n /\ published = 1 .. n
         /\ offset = [e \in Entries |-> (e - 1) % PayloadSlots]
         /\ payload = [i \in 0 .. PayloadSlots - 1 |-> Newest(i, PayloadSlots)]
         /\ table = [i \in 0 .. TableSlots - 1 |-> Newest(i, TableSlots)]
  /\ writing = 0 /\ repeats = 0
  /\ pc = "read" /\ attempts = 0 /\ started = FALSE /\ snap = Nothing
  /\ todo = Nothing /\ last_cursor = 0 /\ hevc = Reset(<<>>)
  /\ loop_offset_ms = 0 /\ loop_span_ms = 0 /\ rounds = 0 /\ gone = {}

-----------------------------------------------------------------------------
(* anyka_ipc (external) *)

Records == mode # "static" /\ writing = 0 /\ pc # "closed"

(* Audio and video are written by different threads: an entry may be       *)
(* overtaken by later ones, but not by Lateness or more.                   *)
WritePayload ==
  /\ Records
  /\ \E e \in Entries \ begun :
       /\ \A x \in 1 .. e - 1 :
            x \in begun \/ script[x].ts + Lateness > script[e].ts
       /\ offset' = [offset EXCEPT ![e] = npay % PayloadSlots]
       /\ payload' = [payload EXCEPT ![npay % PayloadSlots] = e]
       /\ writing' = e
       /\ begun' = begun \cup {e}
  /\ npay' = npay + 1
  /\ UNCHANGED <<script, mode, skip, table, published, nslot, repeats,
                 readerVars>>

Tabulate(e) ==
  /\ table' = [table EXCEPT ![nslot % TableSlots] = e]
  /\ nslot' = nslot + 1
  /\ UNCHANGED <<script, mode, skip, offset, payload, begun, npay, readerVars>>

WriteTable ==
  /\ writing # 0
  /\ Tabulate(writing)
  /\ writing' = 0 /\ published' = published \cup {writing}
  /\ UNCHANGED repeats

(* The same entry a second time. *)
Repeat ==
  /\ Records /\ nslot > 0 /\ repeats < MaxRepeats
  /\ Tabulate(table[(nslot - 1) % TableSlots])
  /\ repeats' = repeats + 1
  /\ UNCHANGED <<published, writing>>

Writer == WritePayload \/ WriteTable \/ Repeat

-----------------------------------------------------------------------------
(* Snapshots *)

Ts(e) == script[e].ts

Values(f) == {f[x] : x \in DOMAIN f}

(* collect_entries: the valid ones, once.  Sorted, they come in the order  *)
(* of their numbers.                                                       *)
Collect(slots) == Values(slots) \ {0}

AllStable(entries) == entries \* mutant: no delay

StrictlyStable(entries) == \* mutant: off by one at the cutoff
  IF mode = "static" THEN entries
  ELSE {r \in entries : Ts(r) + Delay < Ts(Max(entries))}

(* stable_entry_count: what is older than the newest entry by Delay. *)
Stable(entries) ==
  IF mode = "static" THEN entries
  ELSE {r \in entries : /\ Ts(Max(entries)) > Delay
                         /\ Ts(r) + Delay <= Ts(Max(entries))}

Chunk(e) == Kept(script[e], skip)

(* frame_key_score, from the first start code on *)
Score(chunk) ==
  LET kinds == {chunk[i].kind : i \in {j \in DOMAIN chunk : IsStart(chunk[j])}}
      idr   == kinds \cap {"idr", "idr_more"} # {}
  IN  IF ~idr THEN IF Parameters \cap kinds = {} THEN 0 ELSE 1
      ELSE IF Parameters \subseteq kinds THEN 4
      ELSE IF {"sps", "pps"} \subseteq kinds THEN 3 ELSE 2

Got(e) == payload[offset[e]]

(* find_anchor_index: the newest entry with everything; or else, of those  *)
(* with the best score, the oldest; 0 when no entry scores.  Entries       *)
(* without a chunk header do not count, nor do those that begin with a     *)
(* long rest of a NAL unit.                                                *)
Anchor(entries) ==
  LET Points(e) == Score(Chunk(Got(e)))
      videos == {e \in entries : /\ script[e].video
                                 /\ script[Got(e)].header
                                 /\ script[Got(e)].near
                                 /\ Points(e) > 0}
      best   == Max({Points(e) : e \in videos})
      bests  == {e \in videos : Points(e) = best}
  IN  IF videos = {} THEN 0 ELSE IF best = 4 THEN Max(bests) ELSE Min(bests)

FromAnchor(entries) == {r \in entries : r >= Anchor(entries)}

(* The entries to send, with what is at their offsets now. *)
Items(entries) == [e \in entries |-> Got(e)]

Overwritten(items) == {e \in DOMAIN items : items[e] # e}

-----------------------------------------------------------------------------
(* The reader *)

KeepRing == UNCHANGED <<script, mode, skip, ringVars>>

(* read_file_fully, as far as the table. *)
ReadTable ==
  /\ pc = "read"
  /\ snap' = table /\ pc' = "payload"
  /\ gone' = (IF started THEN gone ELSE {})
             \cup {x \in published : x > last_cursor /\ x \notin Values(table)}
  /\ KeepRing
  /\ UNCHANGED <<attempts, started, todo, last_cursor, hevc, loop_offset_ms,
                 loop_span_ms, rounds>>

(* The rest of the file; while no key frame was found, look for one. *)
NoAnchor ==
  /\ pc = "payload" /\ ~started /\ Anchor(Stable(Collect(snap))) = 0
  /\ attempts' = attempts + 1
  /\ pc' = IF mode # "static" /\ attempts' < MaxAttempts
             THEN "read" ELSE "closed"
  /\ snap' = Nothing
  /\ KeepRing
  /\ UNCHANGED <<started, todo, last_cursor, hevc, loop_offset_ms, loop_span_ms,
                 rounds, gone>>

(* A round of a replay is 1 longer than its entries (67 ms in the code).   *)
FirstRead ==
  /\ pc = "payload" /\ ~started
  /\ LET stable == Stable(Collect(snap))
         anchor == Anchor(stable)
     IN  /\ anchor # 0
         /\ todo' = Items(FromAnchor(stable))
         /\ gone' = {x \in gone : x > anchor} \cup Overwritten(todo')
         /\ loop_span_ms' = Ts(Max(stable)) - Ts(anchor) + 1
  /\ started' = TRUE /\ pc' = "send" /\ snap' = Nothing /\ attempts' = 0
  /\ KeepRing
  /\ UNCHANGED <<last_cursor, hevc, loop_offset_ms, rounds>>

(* From then on: the stable entries newer than the last one sent. *)
NextRead ==
  /\ pc = "payload" /\ started /\ mode = "live"
  /\ todo' = Items({r \in Stable(Collect(snap)) : r > last_cursor})
  /\ gone' = gone \cup Overwritten(todo')
  /\ pc' = "send" /\ snap' = Nothing
  /\ KeepRing
  /\ UNCHANGED <<attempts, started, last_cursor, hevc, loop_offset_ms,
                 loop_span_ms, rounds>>

SameOffset == loop_offset_ms \* mutant: the rounds are not told apart

NextOffset == loop_offset_ms + loop_span_ms

(* A static replay begins again at its key frame. *)
Replay ==
  /\ pc = "payload" /\ started /\ mode = "static" /\ rounds < MaxRounds
  /\ todo' = Items(FromAnchor(Stable(Collect(snap))))
  /\ loop_offset_ms' = NextOffset
  /\ hevc' = Reset(hevc.sent) /\ rounds' = rounds + 1
  /\ pc' = "send" /\ snap' = Nothing
  /\ KeepRing
  /\ UNCHANGED <<attempts, started, last_cursor, loop_span_ms, gone>>

(* send_entry, the oldest first: audio goes to the client as it is, video  *)
(* to the assembler, which takes it NAL unit by NAL unit.                  *)
SendEntry ==
  /\ pc = "send" /\ ~IsComplete(hevc) /\ DOMAIN todo # {}
  /\ LET e == Min(DOMAIN todo)
     IN  /\ hevc' = IF script[e].video THEN Pend(hevc, Chunk(todo[e]), Ts(e))
                                       ELSE hevc
         /\ last_cursor' = e
         /\ todo' = [x \in DOMAIN todo \ {e} |-> todo[x]]
  /\ KeepRing
  /\ UNCHANGED <<pc, attempts, started, snap, loop_offset_ms, loop_span_ms,
                 rounds, gone>>

SendNal ==
  /\ pc = "send" /\ IsComplete(hevc)
  /\ hevc' = FeedOne(hevc, loop_offset_ms)
  /\ KeepRing
  /\ UNCHANGED <<pc, attempts, started, snap, todo, last_cursor,
                 loop_offset_ms, loop_span_ms, rounds, gone>>

(* All is sent: without --loop-forever that is the end. *)
EndOfRange ==
  /\ pc = "send" /\ ~IsComplete(hevc) /\ DOMAIN todo = {}
  /\ pc' = IF mode = "once" THEN "closed" ELSE "read"
  /\ KeepRing
  /\ UNCHANGED <<attempts, started, snap, todo, last_cursor, hevc,
                 loop_offset_ms, loop_span_ms, rounds, gone>>

(* A read of the file or a write to the client fails. *)
Fails ==
  /\ pc # "closed" /\ pc' = "closed"
  /\ snap' = Nothing /\ todo' = Nothing
  /\ KeepRing
  /\ UNCHANGED <<attempts, started, last_cursor, hevc,
                 loop_offset_ms, loop_span_ms, rounds, gone>>

Reader == ReadTable \/ NoAnchor \/ FirstRead \/ NextRead \/ Replay
          \/ SendEntry \/ SendNal \/ EndOfRange

Next == Writer \/ Reader \/ Fails

Spec == Init /\ [][Next]_vars

(* Has the reader a next step?  It is ENABLED Reader, which TLC takes very *)
(* long to evaluate.                                                       *)
ReaderCan ==
  /\ pc # "closed"
  /\ pc = "payload" /\ started => mode = "live" \/ rounds < MaxRounds

(* anyka_ipc records on, and the sidecar, a loop of its own process, reads *)
(* and sends on (WF_vars(Reader) written out).                             *)
FairSpec ==
  /\ Spec
  /\ WF_vars(WritePayload \/ WriteTable)
  /\ []<>~ReaderCan \/ []<><<Reader>>_vars

-----------------------------------------------------------------------------
(* Properties *)

(* A client gets every entry, late ones and repeated ones included, in the *)
(* order of time and once; what it misses was overwritten before it could  *)
(* be read.                                                                *)
NoneSkipped ==
  [][mode # "static" /\ last_cursor # 0 /\ last_cursor' # last_cursor
       => /\ last_cursor' > last_cursor
          /\ last_cursor + 1 .. last_cursor' - 1 \subseteq gone']_vars

Source(k) == {p \in Stream(script, skip) : p.au = k}

NoSei(pieces) == {p \in pieces : p.kind # "sei"}

PiecesOf(nals) == UNION {ToSet(nal) : nal \in ToSet(nals)}

InOrder(nals) ==
  \A m, n \in DOMAIN nals : \A i \in DOMAIN nals[m], j \in DOMAIN nals[n] :
    m < n \/ (m = n /\ i < j) => Precedes(nals[m][i], nals[n][j])

Unit(i)   == PiecesOf(hevc.sent[i].nals)
UnitOf(i) == hevc.sent[i].nals[1][1].au

(* Is unit i the first of a client, or of a round of a static replay? *)
Restart(i) == i = 1 \/ UnitOf(i) <= UnitOf(i - 1)

(* However the recording is cut into entries, every access unit sent is    *)
(* one of those that get past video_payload_offset, piece by piece, with   *)
(* the parameter sets in front of it, and none is left out; only the SEI   *)
(* in front of the first is.                                               *)
WholeUnits ==
  gone = {} => \A i \in DOMAIN hevc.sent :
    /\ InOrder(hevc.sent[i].nals)
    /\ IF Restart(i) THEN /\ Unit(i) = NoSei(Source(UnitOf(i)))
                          /\ i > 1 => mode = "static"
                     ELSE /\ Unit(i) = Source(UnitOf(i))
                          /\ UnitOf(i) = UnitOf(i - 1) + 1

(* Even when entries were overwritten under the reader, the first thing a  *)
(* client gets is a key frame with its three parameter sets.               *)
KeyFirst ==
  hevc.sent # <<>> =>
    LET kinds == {KindOf(nal) : nal \in ToSet(hevc.sent[1].nals)}
    IN  Parameters \cup {"idr"} \subseteq kinds

(* Has every video entry a timestamp of its own? *)
TimesDiffer ==
  \A x, e \in Entries :
    script[x].video /\ script[e].video /\ Ts(x) = Ts(e) => x = e

(* The timestamps of the units rise, through every round of a replay, and  *)
(* whatever was overwritten: an entry may then have the timestamp of one   *)
(* picture and the bytes of another.                                       *)
TimesRise ==
  gone = {} \/ TimesDiffer =>
    \A i \in 2 .. Len(hevc.sent) : hevc.sent[i - 1].ts < hevc.sent[i].ts

(* A client that follows the ring gets, in the end, every entry older than *)
(* the newest one by Delay that was not overwritten before.                *)
CatchesUp ==
  mode = "live" => <>[](\/ pc = "closed"
                        \/ \A e \in Entries \ gone :
                             script[e].ts + Delay <= script[Len(script)].ts
                               => last_cursor >= e)
=============================================================================
