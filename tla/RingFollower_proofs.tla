------------------------ MODULE RingFollower_proofs ------------------------
(***************************************************************************)
(* Proofs about RingFollower, for any recording, however it is cut into    *)
(* entries and however late they are published, for tables and payload     *)
(* areas of any size, and for a writer that laps the reader at any moment. *)
(***************************************************************************)
EXTENDS RingFollower, SequenceTheorems, RingArithmetic

-----------------------------------------------------------------------------
(* The inductive invariant: the ring *)

Setting == \E s \in Setups : script = s.script /\ mode = s.mode /\ skip = s.skip

RingType ==
  /\ nslot \in Nat /\ npay \in Nat
  /\ writing \in Entries \cup {0}
  /\ published = begun \ {writing} /\ begun \subseteq Entries
  /\ writing # 0 => writing \in begun
  /\ table \in [0 .. TableSlots - 1 -> published \cup {0}]
  /\ offset \in [Entries -> 0 .. PayloadSlots - 1]
  /\ payload \in [0 .. PayloadSlots - 1 -> Entries \cup {0}]
  /\ \A e \in begun : Got(e) \in Entries
  /\ mode = "static" => writing = 0

(* An entry is overtaken only by entries that are less than Lateness newer *)
OvertakeInv ==
  \A e \in begun : \A x \in 1 .. e - 1 :
    x \in published \/ Ts(x) + Lateness > Ts(e)

RingInv == Setting /\ RingType /\ OvertakeInv

(* The inductive invariant: the reader *)

ReaderType ==
  /\ pc \in {"read", "payload", "send", "closed"}
  /\ started \in BOOLEAN
  /\ last_cursor \in Entries \cup {0}
  /\ pc = "payload" => snap \in [0 .. TableSlots - 1 -> published \cup {0}]
  /\ DOMAIN todo \subseteq begun
  /\ \A e \in DOMAIN todo : todo[e] \in Entries
  /\ pc # "send" => DOMAIN todo = {}
  /\ ~started => last_cursor = 0 /\ pc # "send"
  /\ started => last_cursor # 0 \/ DOMAIN todo # {} \/ pc = "closed"

(* What is not in the snapshot is overwritten, or so late that the entries *)
(* it would come before are not stable.                                    *)
SnapInv ==
  pc = "payload" =>
    \A e \in Collect(snap), x \in Entries :
      /\ last_cursor < x /\ x < e /\ Ts(x) + Lateness <= Ts(e)
      => x \in Collect(snap) \cup gone

(* What is not among the entries to be sent is overwritten, or was sent    *)
(* before.                                                                 *)
TodoInv ==
  mode # "static" =>
    \A e \in DOMAIN todo :
      /\ last_cursor < e
      /\ \A x \in Entries :
           /\ x < e /\ x \notin DOMAIN todo \cup gone
           => IF last_cursor = 0 THEN \A y \in DOMAIN todo : x < y
                                 ELSE x <= last_cursor

FollowInv == ReaderType /\ SnapInv /\ TodoInv

(* The inductive invariant: the assembler *)

Nal == Seq(Piece) \ {<<>>}

Hevc == [pending : Seq([piece : Piece, ts : Nat]), prefix : Seq(Nal),
         au : Seq(Nal), auTs : Nat, synced : BOOLEAN,
         sent : Seq([nals : Seq(Nal), ts : Nat])]

(* Once a start code is there, what is pending begins with one.            *)
Aligned(h) ==
  \A i \in DOMAIN h.pending :
    IsStart(h.pending[i].piece) => IsStart(h.pending[1].piece)

IsKey(nals) ==
  /\ \E i \in DOMAIN nals : KindOf(nals[i]) = "idr"
  /\ \A k \in Parameters : \E i \in DOMAIN nals : KindOf(nals[i]) = k

(* The first unit is a key frame, also while it is put together.           *)
Keyed(h) ==
  /\ h.synced <=> h.au # <<>>
  /\ h.synced /\ h.sent = <<>> => IsKey(h.au)
  /\ h.sent # <<>> => IsKey(h.sent[1].nals)

HevcInv == hevc \in Hevc /\ Aligned(hevc) /\ Keyed(hevc)

(* The inductive invariant: times *)

(* The entries of a replay.                                                *)
Round == FromAnchor(Stable(Collect(table)))

(* Nothing was read but what was to be read.                               *)
Exact ==
  gone = {} =>
    /\ \A e \in DOMAIN todo : todo[e] = e
    /\ mode = "static" /\ started => \A e \in Round : Got(e) = e

(* Entries that may begin a picture, and of those, the ones to come.       *)
MayBegin(e) ==
  /\ script[e].video
  /\ TimesDiffer \/ \E i \in DOMAIN Chunk(e) : BeginsPicture(Chunk(e)[i])

Ahead == {e \in IF mode = "static" THEN DOMAIN todo
                ELSE {x \in Entries : x > last_cursor} : MayBegin(e)}

PicturesOf(h) == {i \in DOMAIN h.pending : BeginsPicture(h.pending[i].piece)}

(* Units sent, the unit that is put together, the pictures pending and     *)
(* those ahead come in the order of time.                                  *)
Ordered(h, shift, ahead) ==
  /\ \A i, j \in DOMAIN h.sent : i < j => h.sent[i].ts < h.sent[j].ts
  /\ h.synced =>
       /\ \A i \in DOMAIN h.sent : h.sent[i].ts < h.auTs + shift
       /\ \A p \in PicturesOf(h) : h.auTs < h.pending[p].ts
       /\ \A t \in ahead : h.auTs < t
  /\ \A p \in PicturesOf(h) :
       /\ \A i \in DOMAIN h.sent : h.sent[i].ts < h.pending[p].ts + shift
       /\ \A q \in PicturesOf(h) : p < q => h.pending[p].ts < h.pending[q].ts
       /\ \A t \in ahead : h.pending[p].ts < t
  /\ \A t \in ahead, i \in DOMAIN h.sent : h.sent[i].ts < t + shift

AheadTimes == {Ts(e) : e \in Ahead}

OrderInv ==
  gone = {} \/ TimesDiffer => Ordered(hevc, loop_offset_ms, AheadTimes)

(* What a client of a replay has been sent is not newer than time t.       *)
NotAfter(h, t, shift) ==
  /\ \A i \in DOMAIN h.sent : h.sent[i].ts <= t + shift
  /\ h.synced => h.auTs <= t
  /\ \A i \in DOMAIN h.pending : h.pending[i].ts <= t

(* A replay sends the same entries in every round, and a round takes       *)
(* longer than they do.                                                    *)
RoundInv ==
  /\ loop_offset_ms \in Nat /\ loop_span_ms \in Nat
  /\ ~started => hevc = Reset(<<>>) /\ loop_offset_ms = 0
  /\ mode = "static" =>
       /\ DOMAIN todo \subseteq Round
       /\ pc = "payload" => snap = table
       /\ started =>
            /\ \A x, y \in Round : Ts(x) < Ts(y) + loop_span_ms
            /\ \E m \in Round : NotAfter(hevc, Ts(m), loop_offset_ms)

TimeInv == Exact /\ OrderInv /\ RoundInv

-----------------------------------------------------------------------------
(* Greatest and least elements *)

(* The greatest of some numbers up to n is one of them, and bounds them.   *)
LEMMA MaxOf ==
  ASSUME NEW n \in Nat, NEW S \in SUBSET (0 .. n), S # {}
  PROVE  Max(S) \in S /\ \A x \in S : x <= Max(S)
<1>1. PICK f \in S : \A g \in S : g <= f
  BY Greatest, Zenon
<1>2. f \in S /\ \A g \in S : f >= g
  BY <1>1
<1> QED
  BY <1>2 DEF Max

(* The least of some numbers up to n is one of them, and bounds them.      *)
LEMMA MinOf ==
  ASSUME NEW n \in Nat, NEW S \in SUBSET (0 .. n), S # {}
  PROVE  Min(S) \in S /\ \A x \in S : Min(S) <= x
<1> DEFINE T == {n - f : f \in S}
<1>1. T \in SUBSET (0 .. n) /\ T # {}
  <2>1. \A f \in S : n - f \in 0 .. n
    OBVIOUS
  <2>2. PICK f \in S : TRUE
    OBVIOUS
  <2>3. n - f \in T
    BY <2>2
  <2> QED
    BY <2>1, <2>3
<1>2. PICK t \in T : \A g \in T : g <= t
  BY <1>1, Greatest, Zenon
<1>3. PICK f \in S : t = n - f
  BY <1>2
<1>4. \A g \in S : n - g \in T /\ n - g <= t
  BY <1>2
<1>5. \A g \in S : f <= g
  BY <1>3, <1>4
<1> QED
  BY <1>3, <1>5 DEF Min

-----------------------------------------------------------------------------
(* The recording *)

(* Entries are numbered in the order of their timestamps.                  *)
LEMMA Recording ==
  ASSUME Setting
  PROVE  /\ script \in Seq(Entry) /\ Entries = 1 .. Len(script)
         /\ mode \in {"live", "static", "once"}
         /\ \A e \in Entries : Ts(e) \in Nat /\ e \in Nat \ {0}
         /\ \A e \in Entries : \A x \in 1 .. e : x \in Entries /\ Ts(x) <= Ts(e)
<1>1. PICK s \in Setups : script = s.script /\ mode = s.mode /\ skip = s.skip
  BY DEF Setting
<1>2. script \in Seq(Entry) /\ mode \in {"live", "static", "once"}
  BY <1>1, RingFollowerAssumption
<1>3. Entries = 1 .. Len(script) /\ Len(script) \in Nat
  BY <1>2 DEF Entries
<1>4. \A e \in Entries : script[e] \in Entry
  BY <1>2, <1>3
<1>5. \A e \in Entries : Ts(e) \in Nat /\ e \in Nat \ {0}
  BY <1>3, <1>4 DEF Entry, Ts
<1>6. ASSUME NEW e \in Entries, NEW x \in 1 .. e
      PROVE  x \in Entries /\ Ts(x) <= Ts(e)
  <2>1. x \in Entries /\ (x # e => x \in 1 .. e - 1)
    BY <1>3
  <2>2. x # e => Before(script[x], script[e])
    BY <1>1, <2>1, RecordingAssumption DEF Entries
  <2> QED
    BY <1>5, <2>1, <2>2 DEF Before, Ts
<1> QED
  BY <1>2, <1>3, <1>5, <1>6

-----------------------------------------------------------------------------
(* The ring *)

(* Before anyka_ipc records, and for a file that nobody writes to.         *)
LEMMA RingInit ==
  ASSUME Init
  PROVE  RingInv
<1>1. Setting
  BY DEF Init, Setting
<1> DEFINE n == IF mode = "static" THEN Len(script) ELSE 0
           Old(i, size) == {0} \cup {e \in 1 .. n : (e - 1) % size = i}
<1>2. /\ script \in Seq(Entry) /\ Entries = 1 .. Len(script)
      /\ \A e \in Entries : \A x \in 1 .. e : x \in Entries
  BY <1>1, Recording, Zenon
<1>3. n \in Nat /\ 1 .. n \subseteq Entries
  BY <1>2
<1>4. /\ nslot = n /\ npay = n /\ begun = 1 .. n /\ published = 1 .. n
      /\ offset = [e \in Entries |-> (e - 1) % PayloadSlots]
      /\ payload = [i \in 0 .. PayloadSlots - 1 |-> Max(Old(i, PayloadSlots))]
      /\ table = [i \in 0 .. TableSlots - 1 |-> Max(Old(i, TableSlots))]
      /\ writing = 0
  BY DEF Init
<1>5. \A i, size : /\ Max(Old(i, size)) \in 1 .. n \cup {0}
                   /\ \A e \in Old(i, size) : e <= Max(Old(i, size))
  <2> SUFFICES ASSUME NEW i, NEW size
               PROVE  /\ Max(Old(i, size)) \in 1 .. n \cup {0}
                      /\ \A e \in Old(i, size) : e <= Max(Old(i, size))
    OBVIOUS
  <2>1. Old(i, size) \subseteq 1 .. n \cup {0} /\ 0 \in Old(i, size)
    OBVIOUS
  <2>2. Old(i, size) \in SUBSET (0 .. n) /\ Old(i, size) # {}
    BY <1>3, <2>1
  <2> HIDE DEF Old
  <2> QED
    BY <1>3, <2>1, <2>2, MaxOf
<1>6. PayloadSlots \in Nat \ {0} /\ TableSlots \in Nat \ {0}
  BY RingFollowerAssumption
<1>7. \A e \in Entries : (e - 1) % PayloadSlots \in 0 .. PayloadSlots - 1
  BY <1>2, <1>6
<1>8. ASSUME NEW e \in begun PROVE Got(e) \in Entries
  <2> DEFINE i == (e - 1) % PayloadSlots
  <2>1. e \in Old(i, PayloadSlots) /\ e \in Entries /\ e > 0
    BY <1>3, <1>4
  <2>2. Got(e) = Max(Old(i, PayloadSlots))
    BY <1>4, <1>7, <2>1 DEF Got
  <2>3. e <= Max(Old(i, PayloadSlots))
    BY <1>5, <2>1
  <2>4. Max(Old(i, PayloadSlots)) \in 1 .. n \cup {0}
    BY <1>5
  <2> HIDE DEF Old
  <2> QED
    BY <1>2, <1>3, <2>1, <2>2, <2>3, <2>4
<1>9. RingType
  <2> HIDE DEF Old
  <2>1. table \in [0 .. TableSlots - 1 -> published \cup {0}]
    BY <1>4, <1>5
  <2>2. payload \in [0 .. PayloadSlots - 1 -> Entries \cup {0}]
    BY <1>3, <1>4, <1>5
  <2>3. offset \in [Entries -> 0 .. PayloadSlots - 1]
    BY <1>4, <1>7
  <2>4. /\ nslot \in Nat /\ npay \in Nat /\ writing = 0
        /\ begun \subseteq Entries /\ published = begun \ {writing}
    BY <1>3, <1>4
  <2> QED
    BY <1>8, <2>1, <2>2, <2>3, <2>4 DEF RingType
<1>10. OvertakeInv
  BY <1>3, <1>4 DEF OvertakeInv
<1> QED
  BY <1>1, <1>9, <1>10 DEF RingInv

(* Nobody changes what is recorded, or for whom.                           *)
LEMMA SameSetting ==
  ASSUME [Next]_vars
  PROVE  script' = script /\ mode' = mode /\ skip' = skip
BY DEF Next, vars, Writer, WritePayload, WriteTable, Repeat, Tabulate, Reader,
       KeepRing, ReadTable, NoAnchor, FirstRead, NextRead, Replay, SendEntry,
       SendNal, EndOfRange, Fails

(* An entry is put at its place.                                           *)
LEMMA RingWrites ==
  ASSUME RingInv, WritePayload
  PROVE  RingType' /\ OvertakeInv'
<1>1. /\ script \in Seq(Entry) /\ Entries = 1 .. Len(script)
      /\ script' = script /\ mode' = mode /\ Entries' = Entries
  BY Recording, Zenon DEF RingInv, WritePayload, Entries
<1>2. PICK e \in Entries \ begun :
        /\ \A x \in 1 .. e - 1 :
             x \in begun \/ script[x].ts + Lateness > script[e].ts
        /\ offset' = [offset EXCEPT ![e] = npay % PayloadSlots]
        /\ payload' = [payload EXCEPT ![npay % PayloadSlots] = e]
        /\ writing' = e
        /\ begun' = begun \cup {e}
  BY DEF WritePayload
<1>3. /\ mode # "static" /\ writing = 0 /\ npay' = npay + 1
      /\ UNCHANGED <<table, published, nslot>>
  BY DEF WritePayload, Records
<1>4. /\ 0 \notin begun /\ published = begun /\ begun \subseteq Entries
      /\ npay \in Nat /\ nslot \in Nat
  BY <1>1, <1>3 DEF RingInv, RingType
<1>5. published' = begun' \ {writing'}
  BY <1>2, <1>3, <1>4
<1>6. npay % PayloadSlots \in 0 .. PayloadSlots - 1
  BY <1>4, RingFollowerAssumption
<1>7. /\ offset' \in [Entries -> 0 .. PayloadSlots - 1]
      /\ payload' \in [0 .. PayloadSlots - 1 -> Entries \cup {0}]
  BY <1>2, <1>6 DEF RingInv, RingType
<1>8. ASSUME NEW d \in begun' PROVE Got(d)' \in Entries
  <2>1. CASE d = e
    BY <1>2, <1>6, <2>1 DEF Got, RingInv, RingType
  <2>2. CASE d # e
    <3>1. d \in begun /\ d \in Entries /\ Got(d) \in Entries
      BY <1>2, <1>4, <2>2 DEF RingInv, RingType
    <3>2. offset'[d] = offset[d] /\ offset[d] \in 0 .. PayloadSlots - 1
      BY <1>2, <2>2, <3>1 DEF RingInv, RingType
    <3>3. payload'[offset[d]] \in {e, payload[offset[d]]}
      BY <1>2, <3>2 DEF RingInv, RingType
    <3> QED
      BY <1>2, <3>1, <3>2, <3>3 DEF Got
  <2> QED
    BY <2>1, <2>2
<1>9. RingType'
  <2>1. table' \in [0 .. TableSlots - 1 -> published' \cup {0}]
    BY <1>3 DEF RingInv, RingType
  <2> QED
    BY <1>1, <1>2, <1>3, <1>4, <1>5, <1>7, <1>8, <2>1 DEF RingType
<1>10. OvertakeInv'
  <2> SUFFICES ASSUME NEW d \in begun', NEW x \in 1 .. d - 1
               PROVE  x \in published' \/ Ts(x)' + Lateness > Ts(d)'
    BY DEF OvertakeInv
  <2>1. CASE d = e
    BY <1>1, <1>2, <1>3, <1>4, <2>1 DEF Ts
  <2>2. CASE d # e
    BY <1>1, <1>2, <1>3, <2>2 DEF Ts, RingInv, OvertakeInv
  <2> QED
    BY <2>1, <2>2
<1> QED
  BY <1>9, <1>10

(* An entry is put in the table, for the first or for the second time.     *)
LEMMA RingTabulates ==
  ASSUME RingInv, WriteTable \/ Repeat
  PROVE  RingType' /\ OvertakeInv'
<1>0. Entries = 1 .. Len(script)
  BY Recording, Zenon DEF RingInv
<1>1. /\ Entries' = Entries /\ \A e : Ts(e)' = Ts(e) /\ Got(e)' = Got(e)
      /\ UNCHANGED <<mode, offset, payload, begun, npay>>
  BY DEF WriteTable, Repeat, Tabulate, Entries, Ts, Got
<1>2. nslot \in Nat /\ TableSlots \in Nat \ {0}
  BY RingFollowerAssumption DEF RingInv, RingType
<1>3. PICK e \in published' \cup {0} :
        /\ table' = [table EXCEPT ![nslot % TableSlots] = e]
        /\ nslot' = nslot + 1
  <2>1. CASE WriteTable
    <3>1. published' = published \cup {writing} /\ Tabulate(writing)
      BY <2>1 DEF WriteTable
    <3> QED
      BY <3>1 DEF Tabulate
  <2>2. CASE Repeat
    <3>1. /\ nslot > 0 /\ published' = published
          /\ Tabulate(table[(nslot - 1) % TableSlots])
      BY <2>2 DEF Repeat
    <3>2. nslot - 1 \in Nat
      BY <1>2, <3>1
    <3>3. (nslot - 1) % TableSlots \in 0 .. TableSlots - 1
      BY <1>2, <3>2
    <3>4. table[(nslot - 1) % TableSlots] \in published \cup {0}
      BY <3>3 DEF RingInv, RingType
    <3> QED
      BY <3>1, <3>4 DEF Tabulate
  <2> QED
    BY <2>1, <2>2
<1>4. /\ published \subseteq published' /\ published' = begun' \ {writing'}
      /\ writing' \in Entries \cup {0} /\ (writing' # 0 => writing' \in begun)
      /\ (mode = "static" => writing' = 0)
  <2>1. CASE WriteTable
    <3>1. 0 \notin begun
      BY <1>0 DEF RingInv, RingType
    <3> QED
      BY <1>1, <2>1, <3>1 DEF WriteTable, RingInv, RingType
  <2>2. CASE Repeat
    BY <1>1, <2>2 DEF Repeat, Records, RingInv, RingType
  <2> QED
    BY <2>1, <2>2
<1>5. table' \in [0 .. TableSlots - 1 -> published' \cup {0}]
  BY <1>3, <1>4 DEF RingInv, RingType
<1>6. RingType'
  BY <1>1, <1>2, <1>3, <1>4, <1>5 DEF RingInv, RingType
<1>7. OvertakeInv'
  BY <1>1, <1>4 DEF RingInv, OvertakeInv
<1> QED
  BY <1>6, <1>7

(* The ring is what the reader takes it for, and no entry comes as late as *)
(* StabilityAssumption forbids.                                            *)
LEMMA RingStep ==
  ASSUME RingInv, [Next]_vars
  PROVE  RingInv'
<1>1. script' = script /\ mode' = mode /\ skip' = skip
  BY SameSetting, Zenon
<1>2. Setting'
  BY <1>1 DEF RingInv, Setting
<1>3. CASE Writer
  BY <1>2, <1>3, RingWrites, RingTabulates, Zenon DEF Writer, RingInv
<1>4. CASE ~Writer
  <2>1. UNCHANGED ringVars
    BY <1>4 DEF Next, vars, Reader, KeepRing, ReadTable, NoAnchor, FirstRead,
                NextRead, Replay, SendEntry, SendNal, EndOfRange, Fails
  <2>2. UNCHANGED <<table, offset, payload, begun, published, writing, nslot, npay>>
    BY <2>1 DEF ringVars
  <2>3. Entries' = Entries /\ \A e : Ts(e)' = Ts(e) /\ Got(e)' = Got(e)
    BY <1>1, <2>2 DEF Entries, Ts, Got
  <2>4. RingType' /\ OvertakeInv'
    BY <1>1, <2>2, <2>3 DEF RingInv, RingType, OvertakeInv
  <2> QED
    BY <1>2, <2>4 DEF RingInv
<1> QED
  BY <1>3, <1>4

-----------------------------------------------------------------------------
(* What the reader makes of a snapshot *)

(* The newest of some entries is one of them.                              *)
LEMMA Newest ==
  ASSUME Setting, NEW S \in SUBSET Entries, S # {}
  PROVE  /\ Max(S) \in S /\ \A x \in S : x <= Max(S)
         /\ Min(S) \in S /\ \A x \in S : Min(S) <= x
<1>1. script \in Seq(Entry) /\ Entries = 1 .. Len(script)
  BY Recording, Zenon
<1>2. Len(script) \in Nat /\ S \in SUBSET (0 .. Len(script))
  BY <1>1
<1> QED
  BY <1>2, MaxOf, MinOf

(* The stable ones of some entries are the old ones.                       *)
LEMMA StableOnes ==
  ASSUME Setting, NEW S \in SUBSET Entries
  PROVE  /\ Stable(S) \subseteq S
         /\ mode # "static" =>
              \A e \in Stable(S) : \A x \in S :
                Ts(x) <= Ts(e) => x \in Stable(S)
         /\ mode # "static" =>
              \A e \in Stable(S) : /\ e <= Max(S) /\ Max(S) \in S
                                   /\ Ts(e) + Delay <= Ts(Max(S))
<1>1. \A e \in Entries : Ts(e) \in Nat
  BY Recording
<1>2. S # {} => Max(S) \in S /\ \A x \in S : x <= Max(S)
  BY Newest
<1>3. Delay \in Nat
  BY RingFollowerAssumption
<1>4. CASE mode = "static"
  BY <1>4 DEF Stable
<1>5. CASE mode # "static"
  <2>1. \A e : e \in Stable(S) <=> /\ e \in S /\ Ts(Max(S)) > Delay
                                   /\ Ts(e) + Delay <= Ts(Max(S))
    BY <1>5 DEF Stable
  <2>2. S # {} => Ts(Max(S)) \in Nat
    BY <1>1, <1>2
  <2> QED
    BY <1>1, <1>2, <1>3, <2>1, <2>2
<1> QED
  BY <1>4, <1>5

(* An anchor is one of the entries it was chosen from.                     *)
LEMMA AnchorOne ==
  ASSUME Setting, NEW S \in SUBSET Entries
  PROVE  Anchor(S) \in S \cup {0}
<1> DEFINE Points(e) == Score(Chunk(Got(e)))
           videos == {e \in S : /\ script[e].video
                                /\ script[Got(e)].header
                                /\ script[Got(e)].near
                                /\ Points(e) > 0}
           points == {Points(e) : e \in videos}
           best   == Max(points)
           bests  == {e \in videos : Points(e) = best}
<1>1. Anchor(S) = IF videos = {} THEN 0
                  ELSE IF best = 4 THEN Max(bests) ELSE Min(bests)
  BY DEF Anchor
<1>2. CASE videos = {}
  BY <1>1, <1>2
<1>3. CASE videos # {}
  <2>1. \A e : Points(e) \in 0 .. 4
    BY DEF Score
  <2>2. points \in SUBSET (0 .. 4) /\ points # {}
    BY <1>3, <2>1
  <2>3. best \in points
    BY <2>2, MaxOf
  <2>4. bests \in SUBSET Entries /\ bests # {} /\ bests \subseteq S
    BY <2>3
  <2>5. Max(bests) \in S /\ Min(bests) \in S
    BY <2>4, Newest
  <2> QED
    BY <1>1, <1>3, <2>5
<1> QED
  BY <1>2, <1>3

(* What a reader finds in a table has been published.                      *)
LEMMA Collected ==
  ASSUME RingInv, NEW slots \in [0 .. TableSlots - 1 -> published \cup {0}]
  PROVE  Collect(slots) \subseteq published /\ Collect(slots) \subseteq Entries
         /\ Collect(slots) \subseteq begun
BY DEF Collect, Values, RingInv, RingType

-----------------------------------------------------------------------------
(* The reader *)

(* It begins with nothing.                                                 *)
LEMMA FollowInit ==
  ASSUME Init
  PROVE  FollowInv
<1>1. /\ pc = "read" /\ started = FALSE /\ todo = <<>> /\ last_cursor = 0
  BY DEF Init, Nothing
<1>2. DOMAIN todo = {}
  BY <1>1
<1> QED
  BY <1>1, <1>2 DEF FollowInv, ReaderType, SnapInv, TodoInv

(* What anyka_ipc does takes nothing away from the reader, and neither     *)
(* does a NAL unit sent.                                                   *)
LEMMA FollowKeeps ==
  ASSUME RingInv, FollowInv, [Next]_vars,
         UNCHANGED <<pc, started, snap, todo, last_cursor, gone>>
  PROVE  FollowInv'
<1>1. script' = script /\ mode' = mode
  BY SameSetting, Zenon
<1>2. published \subseteq published' /\ begun \subseteq begun'
  BY DEF Next, vars, ringVars, Writer, WritePayload, WriteTable, Repeat, Tabulate,
       Reader, KeepRing, ReadTable, NoAnchor, FirstRead, NextRead, Replay,
       SendEntry, SendNal, EndOfRange, Fails
<1>3. Entries' = Entries /\ \A e : Ts(e)' = Ts(e)
  BY <1>1 DEF Entries, Ts
<1>4. ReaderType'
  <2>1. pc = "payload" =>
          snap' \in [0 .. TableSlots - 1 -> published' \cup {0}]
    BY <1>2 DEF FollowInv, ReaderType
  <2> QED
    BY <1>2, <1>3, <2>1 DEF FollowInv, ReaderType
<1>5. SnapInv'
  BY <1>3 DEF FollowInv, SnapInv
<1>6. TodoInv'
  BY <1>1, <1>3 DEF FollowInv, TodoInv
<1> QED
  BY <1>4, <1>5, <1>6 DEF FollowInv

(* A snapshot of the table.                                                *)
LEMMA FollowReadsTable ==
  ASSUME RingInv, FollowInv, ReadTable
  PROVE  FollowInv'
<1>1. /\ UNCHANGED <<script, mode, table, begun, published>>
      /\ UNCHANGED <<started, todo, last_cursor>>
      /\ pc = "read" /\ snap' = table /\ pc' = "payload"
      /\ {x \in published : x > last_cursor /\ x \notin Values(table)} \subseteq gone'
  BY DEF ReadTable, KeepRing, ringVars
<1>2. Entries' = Entries /\ \A e : Ts(e)' = Ts(e)
  BY <1>1 DEF Entries, Ts
<1>3. ReaderType'
  BY <1>1, <1>2 DEF FollowInv, ReaderType, RingInv, RingType
<1>4. SnapInv'
  <2> SUFFICES ASSUME NEW e \in Collect(table), NEW x \in Entries,
                      last_cursor < x, x < e, Ts(x) + Lateness <= Ts(e)
               PROVE  x \in Collect(table) \cup gone'
    BY <1>1, <1>2 DEF SnapInv
  <2>1. e \in begun /\ e \in Entries
    BY Collected DEF RingInv, RingType
  <2>2. /\ x \in 1 .. e - 1 /\ x # 0
        /\ Ts(x) \in Nat /\ Ts(e) \in Nat /\ Lateness \in Nat
    BY <2>1, Recording, RingFollowerAssumption DEF RingInv
  <2>3. x \in published
    BY <2>1, <2>2 DEF RingInv, OvertakeInv
  <2>4. CASE x \in Values(table)
    BY <2>2, <2>4 DEF Collect
  <2>5. CASE x \notin Values(table)
    BY <1>1, <2>3, <2>5
  <2> QED
    BY <2>4, <2>5
<1>5. TodoInv'
  BY <1>1, <1>2 DEF FollowInv, ReaderType, TodoInv
<1> QED
  BY <1>3, <1>4, <1>5 DEF FollowInv

(* Between two stable entries of a snapshot nothing is left out that was   *)
(* not overwritten: the ones that come late are not stable yet.            *)
LEMMA NothingBetween ==
  ASSUME RingInv, FollowInv, pc = "payload", mode # "static",
         NEW e \in Stable(Collect(snap)), NEW x \in Entries,
         last_cursor < x, x < e, x \notin gone
  PROVE  x \in Stable(Collect(snap))
<1> DEFINE S == Collect(snap)
           m == Max(S)
<1>1. S \in SUBSET Entries
  BY Collected DEF FollowInv, ReaderType
<1>2. e \in S /\ e <= m /\ m \in S /\ Ts(e) + Delay <= Ts(m)
  BY <1>1, StableOnes DEF RingInv
<1>3. /\ e \in Nat /\ m \in Nat /\ x \in 1 .. e
      /\ Ts(x) \in Nat /\ Ts(e) \in Nat /\ Ts(m) \in Nat /\ Ts(x) <= Ts(e)
  <2>1. \A d \in Entries : Ts(d) \in Nat /\ d \in Nat \ {0}
    BY Recording, Zenon DEF RingInv
  <2>2. x \in 1 .. e /\ e \in Entries /\ m \in Entries
    BY <1>1, <1>2, <2>1
  <2> QED
    BY <2>1, <2>2, Recording DEF RingInv
<1>4. Delay \in Nat /\ Lateness \in Nat /\ Lateness <= Delay
  BY RingFollowerAssumption, StabilityAssumption
<1>5. x < m /\ Ts(x) + Lateness <= Ts(m)
  BY <1>2, <1>3, <1>4
<1>6. x \in S
  BY <1>2, <1>5 DEF FollowInv, SnapInv
<1> QED
  BY <1>1, <1>3, <1>6, StableOnes DEF RingInv

(* The first entries of a client, from its key frame on.                   *)
LEMMA FollowFirstRead ==
  ASSUME RingInv, FollowInv, FirstRead
  PROVE  FollowInv'
<1> DEFINE stable == Stable(Collect(snap))
           anchor == Anchor(stable)
<1>1. /\ UNCHANGED <<script, mode, offset, payload, begun, published, last_cursor>>
      /\ pc = "payload" /\ ~started /\ started' = TRUE /\ pc' = "send"
      /\ anchor # 0 /\ todo' = Items(FromAnchor(stable))
      /\ {x \in gone : x > anchor} \subseteq gone'
  BY DEF FirstRead, KeepRing, ringVars
<1>2. Entries' = Entries
  BY <1>1 DEF Entries
<1>3. Collect(snap) \subseteq begun /\ Collect(snap) \in SUBSET Entries
  BY <1>1, Collected DEF FollowInv, ReaderType
<1>4. stable \in SUBSET Entries /\ stable \subseteq begun
  BY <1>3, StableOnes DEF RingInv
<1>5. anchor \in stable /\ anchor \in Nat /\ \A e \in Entries : e \in Nat \ {0}
  BY <1>1, <1>4, AnchorOne, Recording DEF RingInv
<1>6. DOMAIN todo' = {e \in stable : e >= anchor} /\ anchor \in DOMAIN todo'
  BY <1>1, <1>5 DEF Items, FromAnchor
<1>7. \A e \in DOMAIN todo' : todo'[e] \in Entries
  BY <1>1, <1>4, <1>6 DEF Items, RingInv, RingType
<1>8. last_cursor = 0
  BY <1>1 DEF FollowInv, ReaderType
<1> HIDE DEF stable, anchor
<1>9. ReaderType'
  BY <1>1, <1>2, <1>4, <1>6, <1>7, <1>8 DEF ReaderType
<1>10. TodoInv'
  <2>0. \A e \in DOMAIN todo' : e \in Nat /\ 0 < e /\ anchor <= e
    <3>1. \A e \in DOMAIN todo' : e \in Entries /\ anchor <= e
      BY <1>4, <1>5, <1>6
    <3> QED
      BY <1>5, <3>1
  <2>1. ASSUME mode # "static", NEW e \in DOMAIN todo', NEW x \in Entries,
               x < e, x \notin DOMAIN todo' \cup gone'
        PROVE  x < anchor
    <3>1. CASE x >= anchor
      <4>1. x # anchor
        BY <1>6, <2>1
      <4>2. x \notin gone
        BY <1>1, <1>5, <2>1, <3>1, <4>1
      <4>3. e \in stable /\ last_cursor < x /\ x < e
        BY <1>5, <1>6, <1>8, <2>1
      <4>4. x \in stable
        BY <1>1, <2>1, <4>2, <4>3, NothingBetween DEF stable
      <4> QED
        BY <1>6, <2>1, <3>1, <4>4
    <3> QED
      BY <1>5, <3>1
  <2>2. ASSUME mode # "static", NEW e \in DOMAIN todo', NEW x \in Entries,
               x < e, x \notin DOMAIN todo' \cup gone'
        PROVE  \A y \in DOMAIN todo' : x < y
    BY <1>5, <2>0, <2>1, <2>2
  <2>3. \A e \in DOMAIN todo' : last_cursor' < e
    BY <1>1, <1>8, <2>0
  <2> QED
    BY <1>1, <1>2, <1>8, <2>2, <2>3 DEF TodoInv
<1>11. SnapInv'
  BY <1>1 DEF SnapInv
<1> QED
  BY <1>9, <1>10, <1>11 DEF FollowInv

(* The entries after the last one sent.                                    *)
LEMMA FollowNextRead ==
  ASSUME RingInv, FollowInv, NextRead
  PROVE  FollowInv'
<1> DEFINE stable == Stable(Collect(snap))
<1>1. /\ UNCHANGED <<script, mode, offset, payload, begun, published, last_cursor>>
      /\ pc = "payload" /\ started /\ started' = started /\ pc' = "send"
      /\ todo' = Items({r \in stable : r > last_cursor})
      /\ gone \subseteq gone' /\ mode = "live"
  BY DEF NextRead, KeepRing, ringVars
<1>2. Entries' = Entries
  BY <1>1 DEF Entries
<1>3. Collect(snap) \subseteq begun /\ Collect(snap) \in SUBSET Entries
  BY <1>1, Collected DEF FollowInv, ReaderType
<1>4. stable \in SUBSET Entries /\ stable \subseteq begun
  BY <1>3, StableOnes DEF RingInv
<1>5. last_cursor \in Nat \ {0} /\ \A e \in Entries : e \in Nat \ {0}
  BY <1>1, Recording DEF RingInv, FollowInv, ReaderType
<1>6. DOMAIN todo' = {e \in stable : e > last_cursor}
  BY <1>1 DEF Items
<1>7. \A e \in DOMAIN todo' : todo'[e] \in Entries
  BY <1>1, <1>4, <1>6 DEF Items, RingInv, RingType
<1> HIDE DEF stable
<1>9. ReaderType'
  BY <1>1, <1>2, <1>4, <1>5, <1>6, <1>7 DEF FollowInv, ReaderType
<1>10. TodoInv'
  <2> SUFFICES ASSUME NEW e \in DOMAIN todo', NEW x \in Entries,
                      x < e, x \notin DOMAIN todo' \cup gone'
               PROVE  x <= last_cursor
    BY <1>1, <1>2, <1>4, <1>5, <1>6 DEF TodoInv
  <2>1. CASE last_cursor < x
    <3>1. x \in stable
      BY <1>1, <1>6, <2>1, NothingBetween DEF stable
    <3> QED
      BY <1>6, <2>1, <3>1
  <2> QED
    BY <1>5, <2>1
<1>11. SnapInv'
  BY <1>1 DEF SnapInv
<1> QED
  BY <1>9, <1>10, <1>11 DEF FollowInv

(* A replay sends its entries again.                                       *)
LEMMA FollowReplay ==
  ASSUME RingInv, FollowInv, Replay
  PROVE  FollowInv'
<1> DEFINE stable == Stable(Collect(snap))
<1>1. /\ UNCHANGED <<script, mode, offset, payload, begun, published, last_cursor>>
      /\ pc = "payload" /\ started /\ started' = started /\ pc' = "send"
      /\ todo' = Items(FromAnchor(stable)) /\ mode = "static"
  BY DEF Replay, KeepRing, ringVars
<1>2. Entries' = Entries
  BY <1>1 DEF Entries
<1>3. Collect(snap) \subseteq begun /\ Collect(snap) \in SUBSET Entries
  BY <1>1, Collected DEF FollowInv, ReaderType
<1>4. stable \subseteq begun
  BY <1>3, StableOnes DEF RingInv
<1>5. DOMAIN todo' \subseteq stable /\ \A e \in DOMAIN todo' : todo'[e] = Got(e)
  BY <1>1 DEF Items, FromAnchor
<1>6. \A e \in DOMAIN todo' : todo'[e] \in Entries
  BY <1>4, <1>5 DEF RingInv, RingType
<1> HIDE DEF stable
<1>7. ReaderType'
  BY <1>1, <1>2, <1>4, <1>5, <1>6 DEF FollowInv, ReaderType
<1> QED
  BY <1>1, <1>7 DEF FollowInv, SnapInv, TodoInv

(* The oldest entry is sent; those left out before it were overwritten.    *)
LEMMA FollowSendEntry ==
  ASSUME RingInv, FollowInv, SendEntry
  PROVE  /\ FollowInv'
         /\ mode # "static" /\ last_cursor # 0 =>
              /\ last_cursor' > last_cursor
              /\ last_cursor + 1 .. last_cursor' - 1 \subseteq gone
<1> DEFINE e == Min(DOMAIN todo)
<1>1. /\ UNCHANGED <<script, mode, begun, published, gone, started, pc>>
      /\ pc = "send" /\ DOMAIN todo # {} /\ last_cursor' = e
      /\ DOMAIN todo' = DOMAIN todo \ {e}
      /\ \A x \in DOMAIN todo' : todo'[x] = todo[x]
  BY DEF SendEntry, KeepRing, ringVars
<1>2. Entries' = Entries
  BY <1>1 DEF Entries
<1>3. DOMAIN todo \in SUBSET Entries
  BY DEF RingInv, RingType, FollowInv, ReaderType
<1>4. e \in DOMAIN todo /\ \A x \in DOMAIN todo : e <= x
  BY <1>1, <1>3, Newest DEF RingInv
<1> HIDE DEF e
<1>5. /\ last_cursor \in Nat
      /\ \A x \in Entries : x \in Nat \ {0} /\ 1 .. x \subseteq Entries
  BY Recording DEF RingInv, FollowInv, ReaderType
<1>6. ReaderType'
  BY <1>1, <1>2, <1>3, <1>4, <1>5 DEF FollowInv, ReaderType
<1>7. SnapInv'
  BY <1>1 DEF SnapInv
<1>8. TodoInv'
  <2> SUFFICES ASSUME mode # "static", NEW d \in DOMAIN todo', NEW x \in Entries,
                      x < d, x \notin DOMAIN todo' \cup gone
               PROVE  x <= e
    BY <1>1, <1>2, <1>3, <1>4, <1>5 DEF TodoInv
  <2>1. CASE x = e
    BY <1>5, <2>1
  <2>2. CASE x # e
    <3>1. d \in DOMAIN todo /\ x \notin DOMAIN todo \cup gone
      BY <1>1, <2>2
    <3>2. IF last_cursor = 0 THEN \A y \in DOMAIN todo : x < y
                             ELSE x <= last_cursor
      BY <3>1 DEF FollowInv, TodoInv
    <3>3. last_cursor < e
      BY <1>4 DEF FollowInv, TodoInv
    <3> QED
      BY <1>3, <1>4, <1>5, <3>2, <3>3
  <2> QED
    BY <2>1, <2>2
<1>9. ASSUME mode # "static", last_cursor # 0
      PROVE  /\ last_cursor' > last_cursor
             /\ last_cursor + 1 .. last_cursor' - 1 \subseteq gone
  <2>1. last_cursor < e /\ e \in Nat
    BY <1>3, <1>4, <1>5, <1>9 DEF FollowInv, TodoInv
  <2>2. ASSUME NEW x \in last_cursor + 1 .. e - 1 PROVE x \in gone
    <3>1. x \in 1 .. e /\ x < e /\ last_cursor < x
      BY <1>5, <2>1
    <3>2. x \in Entries
      BY <1>3, <1>4, <1>5, <3>1
    <3>3. x \notin DOMAIN todo
      BY <1>4, <2>1, <3>1
    <3> QED
      BY <1>4, <1>5, <1>9, <3>1, <3>2, <3>3 DEF FollowInv, TodoInv
  <2> QED
    BY <1>1, <1>5, <2>1, <2>2
<1> QED
  BY <1>6, <1>7, <1>8, <1>9 DEF FollowInv

(* No key frame, nothing left to send, or the end.                         *)
LEMMA FollowStops ==
  ASSUME RingInv, FollowInv, NoAnchor \/ EndOfRange \/ Fails
  PROVE  FollowInv'
<1>1. /\ UNCHANGED <<script, mode, begun, published, started, last_cursor>>
      /\ pc' \in {"read", "closed"}
      /\ DOMAIN todo' = {}
      /\ pc = "send" => started
      /\ pc # "closed" \/ pc' = "closed"
      /\ ~(DOMAIN todo # {}) \/ pc' = "closed"
  <2>1. CASE NoAnchor
    BY <2>1 DEF NoAnchor, KeepRing, ringVars, FollowInv, ReaderType
  <2>2. CASE EndOfRange
    BY <2>2 DEF EndOfRange, KeepRing, ringVars, FollowInv, ReaderType
  <2>3. CASE Fails
    <3>1. DOMAIN <<>> = {}
      OBVIOUS
    <3> QED
      BY <2>3, <3>1 DEF Fails, KeepRing, ringVars, FollowInv, ReaderType, Nothing
  <2> QED
    BY <2>1, <2>2, <2>3
<1>2. Entries' = Entries
  BY <1>1 DEF Entries
<1>3. ReaderType'
  BY <1>1, <1>2 DEF FollowInv, ReaderType
<1> QED
  BY <1>1, <1>3 DEF FollowInv, SnapInv, TodoInv

(* The reader neither loses an entry nor takes one twice.                  *)
LEMMA FollowStep ==
  ASSUME RingInv, FollowInv, [Next]_vars
  PROVE  FollowInv'
<1>1. CASE UNCHANGED <<pc, started, snap, todo, last_cursor, gone>>
  BY <1>1, FollowKeeps, Zenon
<1>2. CASE ~UNCHANGED <<pc, started, snap, todo, last_cursor, gone>>
  <2>1. \/ ReadTable \/ NoAnchor \/ FirstRead \/ NextRead \/ Replay
        \/ SendEntry \/ EndOfRange \/ Fails
    BY <1>2 DEF Next, vars, readerVars, Writer, WritePayload, WriteTable, Repeat,
                Tabulate, Reader, SendNal
  <2> QED
    BY <2>1, FollowReadsTable, FollowFirstRead, FollowNextRead, FollowReplay,
       FollowSendEntry, FollowStops, Zenon
<1> QED
  BY <1>1, <1>2

(* Whatever anyka_ipc does and however slow the reader is, the ring and    *)
(* the reader keep what they are built on.                                 *)
THEOREM RingHolds == Spec => [](RingInv /\ FollowInv)
<1>1. Init => RingInv /\ FollowInv
  BY RingInit, FollowInit, Zenon
<1>2. RingInv /\ FollowInv /\ [Next]_vars => RingInv' /\ FollowInv'
  BY RingStep, FollowStep, Zenon
<1> QED
  BY <1>1, <1>2, PTL DEF Spec

(* NoneSkipped for any recording and rings of any size: a live client gets *)
(* every entry in order and once, but for what was overwritten.            *)
THEOREM EveryEntry == Spec => NoneSkipped
<1>1. RingInv /\ FollowInv /\ [Next]_vars
        => [mode # "static" /\ last_cursor # 0 /\ last_cursor' # last_cursor
              => /\ last_cursor' > last_cursor
                 /\ last_cursor + 1 .. last_cursor' - 1 \subseteq gone']_vars
  <2> SUFFICES ASSUME RingInv, FollowInv, [Next]_vars, mode # "static",
                      last_cursor # 0, last_cursor' # last_cursor
               PROVE  /\ last_cursor' > last_cursor
                      /\ last_cursor + 1 .. last_cursor' - 1 \subseteq gone'
    OBVIOUS
  <2>1. SendEntry
    BY DEF Next, vars, readerVars, Writer, WritePayload, WriteTable, Repeat,
           Tabulate, Reader, ReadTable, NoAnchor, FirstRead, NextRead, Replay,
           SendNal, EndOfRange, Fails
  <2>2. gone' = gone
    BY <2>1 DEF SendEntry
  <2> QED
    BY <2>1, <2>2, FollowSendEntry
<1> QED
  BY <1>1, RingHolds, PTL DEF Spec, NoneSkipped

-----------------------------------------------------------------------------
(* The assembler *)

(* A unit that is a key frame stays one when a slice is added.             *)
LEMMA KeyGrows ==
  ASSUME NEW nals \in Seq(Nal), NEW nal \in Nal, IsKey(nals)
  PROVE  IsKey(Append(nals, nal))
<1>1. /\ DOMAIN nals \subseteq DOMAIN Append(nals, nal)
      /\ \A i \in DOMAIN nals : Append(nals, nal)[i] = nals[i]
  BY AppendProperties, LenProperties
<1> QED
  BY <1>1 DEF IsKey

(* A slice makes a key frame of parameter sets.                            *)
LEMMA KeyBegins ==
  ASSUME NEW h \in Hevc, NEW nal \in Nal, MayStart(h, nal)
  PROVE  IsKey(Append(h.prefix, nal))
<1>1. h.prefix \in Seq(Nal)
  BY DEF Hevc
<1>2. /\ DOMAIN h.prefix \subseteq DOMAIN Append(h.prefix, nal)
      /\ \A i \in DOMAIN h.prefix : Append(h.prefix, nal)[i] = h.prefix[i]
      /\ Len(h.prefix) + 1 \in DOMAIN Append(h.prefix, nal)
      /\ Append(h.prefix, nal)[Len(h.prefix) + 1] = nal
  BY <1>1, AppendProperties, LenProperties
<1> QED
  BY <1>2 DEF IsKey, MayStart

(* The newest parameter set of a kind takes the place of the old one.      *)
LEMMA Stored ==
  ASSUME NEW prefix \in Seq(Nal), NEW nal \in Nal
  PROVE  Store(prefix, nal) \in Seq(Nal)
<1>1. Append(prefix, nal) \in Seq(Nal)
  BY AppendProperties
<1>2. [i \in DOMAIN prefix |-> IF KindOf(prefix[i]) = KindOf(nal)
                                 THEN nal ELSE prefix[i]] \in Seq(Nal)
  <2>1. Len(prefix) \in Nat /\ DOMAIN prefix = 1 .. Len(prefix)
    BY LenProperties
  <2>2. \A i \in 1 .. Len(prefix) : prefix[i] \in Nal
    OBVIOUS
  <2>3. [i \in 1 .. Len(prefix) |-> IF KindOf(prefix[i]) = KindOf(nal)
                                 THEN nal ELSE prefix[i]] 
          \in [1 .. Len(prefix) -> Nal]
    BY <2>2
  <2> QED
    BY <2>1, <2>3, SeqDef
<1> QED
  BY <1>1, <1>2 DEF Store

(* What becomes of a NAL unit: it begins a picture, the first or the next  *)
(* one, it is added to a unit or put aside.                                *)
Begins(h, r, nal, ts, shift) ==
  /\ KindOf(nal) \in FirstSlices
  /\ r.synced /\ r.auTs = ts /\ r.au = Append(h.prefix, nal)
  /\ IF h.synced
       THEN r.sent = Append(h.sent, [nals |-> h.au, ts |-> h.auTs + shift])
       ELSE r.sent = h.sent /\ MayStart(h, nal)

Continues(h, r, nal) ==
  /\ r.synced = h.synced /\ r.auTs = h.auTs /\ r.sent = h.sent
  /\ r.au = h.au \/ (h.synced /\ r.au = Append(h.au, nal))

(* A NAL unit that is routed does one or the other.                        *)
LEMMA Routed ==
  ASSUME NEW h \in Hevc, NEW nal \in Nal, NEW ts \in Nat, NEW shift \in Nat,
         Keyed(h)
  PROVE  LET r == Route(h, nal, ts, shift)
         IN  /\ r \in Hevc /\ r.pending = h.pending
             /\ Begins(h, r, nal, ts, shift) \/ Continues(h, r, nal)
<1> DEFINE r == Route(h, nal, ts, shift)
<1> SUFFICES /\ r \in Hevc /\ r.pending = h.pending
             /\ Begins(h, r, nal, ts, shift) \/ Continues(h, r, nal)
  OBVIOUS
<1>1. /\ h.prefix \in Seq(Nal) /\ h.au \in Seq(Nal) /\ h.auTs \in Nat
      /\ h.synced \in BOOLEAN /\ h.sent \in Seq([nals : Seq(Nal), ts : Nat])
      /\ h = [pending |-> h.pending, prefix |-> h.prefix, au |-> h.au,
              auTs |-> h.auTs, synced |-> h.synced, sent |-> h.sent]
      /\ h.pending \in Seq([piece : Piece, ts : Nat])
  BY DEF Hevc
<1>2. /\ Append(h.prefix, nal) \in Seq(Nal) /\ Append(h.au, nal) \in Seq(Nal)
      /\ Store(h.prefix, nal) \in Seq(Nal) /\ <<nal>> \in Seq(Nal)
      /\ <<>> \in Seq(Nal)
  BY <1>1, AppendProperties, Stored
<1>3. h.auTs + shift \in Nat
  BY <1>1
<1>4. Append(h.sent, [nals |-> h.au, ts |-> h.auTs + shift])
        \in Seq([nals : Seq(Nal), ts : Nat])
  BY <1>1, <1>3, AppendProperties
<1>5. CASE ~h.synced /\ KindOf(nal) = "vps"
  <2>1. r = [h EXCEPT !.prefix = <<nal>>]
    BY <1>5 DEF Route, Bootstrap, MayStart
  <2> HIDE DEF r
  <2> QED
    BY <1>1, <1>2, <2>1 DEF Hevc, Continues
<1>6. CASE ~h.synced /\ KindOf(nal) \in {"sps", "pps"}
  <2>1. r = [h EXCEPT !.prefix = Store(h.prefix, nal)]
    BY <1>6 DEF Route, Bootstrap, MayStart
  <2> HIDE DEF r
  <2> QED
    BY <1>1, <1>2, <2>1 DEF Hevc, Continues
<1>7. CASE ~h.synced /\ MayStart(h, nal)
  <2>1. KindOf(nal) = "idr"
    BY <1>7 DEF MayStart
  <2>2. r = Begin([h EXCEPT !.synced = TRUE], nal, ts)
    BY <1>7, <2>1 DEF Route, Bootstrap
  <2>3. r = [h EXCEPT !.synced = TRUE, !.au = Append(h.prefix, nal),
                      !.prefix = <<>>, !.auTs = ts]
    BY <1>1, <2>2 DEF Begin
  <2> HIDE DEF r
  <2> QED
    BY <1>1, <1>2, <1>7, <2>1, <2>3 DEF Hevc, Begins, FirstSlices
<1>8. CASE ~h.synced /\ ~MayStart(h, nal) /\ KindOf(nal) \notin {"vps", "sps", "pps"}
  <2>1. r = h
    BY <1>8 DEF Route, Bootstrap
  <2> HIDE DEF r
  <2> QED
    BY <1>1, <2>1 DEF Continues
<1>9. CASE h.synced /\ KindOf(nal) \in FirstSlices
  <2>1. r = Begin(Flush(h, shift), nal, ts) /\ h.au # <<>>
    BY <1>9 DEF Route, Follow, Keyed, FirstSlices, PrefixKinds, Parameters
  <2>2. Flush(h, shift) =
          [h EXCEPT !.au = <<>>,
             !.sent = Append(h.sent, [nals |-> h.au, ts |-> h.auTs + shift])]
    BY <1>1, <2>1 DEF Flush
  <2>3. r = [h EXCEPT !.au = Append(h.prefix, nal), !.prefix = <<>>, !.auTs = ts,
               !.sent = Append(h.sent, [nals |-> h.au, ts |-> h.auTs + shift])]
    BY <1>1, <2>1, <2>2 DEF Begin
  <2> HIDE DEF r
  <2> QED
    BY <1>1, <1>2, <1>4, <1>9, <2>3 DEF Hevc, Begins
<1>10. CASE h.synced /\ KindOf(nal) \in PrefixKinds
  <2>1. KindOf(nal) \notin FirstSlices
    BY <1>10 DEF PrefixKinds, Parameters, FirstSlices
  <2>2. r = [h EXCEPT !.prefix = Append(h.prefix, nal)]
    BY <1>10, <2>1 DEF Route, Follow
  <2> HIDE DEF r
  <2> QED
    BY <1>1, <1>2, <2>2 DEF Hevc, Continues
<1>11. CASE h.synced /\ KindOf(nal) \notin PrefixKinds \cup FirstSlices
  <2>1. r = [h EXCEPT !.au = Append(h.au, nal)]
    BY <1>11 DEF Route, Follow
  <2> HIDE DEF r
  <2> QED
    BY <1>1, <1>2, <1>11, <2>1 DEF Hevc, Continues
<1> QED
  BY <1>1, <1>5, <1>6, <1>7, <1>8, <1>9, <1>10, <1>11

(* A key frame is the first unit, whatever NAL unit comes.                 *)
LEMMA RoutedKeyed ==
  ASSUME NEW h \in Hevc, NEW nal \in Nal, NEW ts \in Nat, NEW shift \in Nat,
         Keyed(h)
  PROVE  Keyed(Route(h, nal, ts, shift))
<1> DEFINE r == Route(h, nal, ts, shift)
<1> SUFFICES Keyed(r)
  OBVIOUS
<1>1. r \in Hevc /\ (Begins(h, r, nal, ts, shift) \/ Continues(h, r, nal))
  BY Routed
<1> HIDE DEF r
<1>2. /\ h.prefix \in Seq(Nal) /\ h.au \in Seq(Nal) /\ h.auTs + shift \in Nat
      /\ h.synced \in BOOLEAN /\ h.sent \in Seq([nals : Seq(Nal), ts : Nat])
      /\ r.synced \in BOOLEAN
  BY <1>1 DEF Hevc
<1>3. Append(h.prefix, nal) # <<>> /\ Append(h.au, nal) # <<>>
  <2>1. \A s \in Seq(Nal) : Append(s, nal) # <<>>
    BY AppendProperties
  <2> QED
    BY <1>2, <2>1
<1>4. CASE Begins(h, r, nal, ts, shift) /\ ~h.synced
  <2>1. IsKey(Append(h.prefix, nal))
    BY <1>4, KeyBegins DEF Begins
  <2> QED
    BY <1>2, <1>3, <1>4, <2>1 DEF Keyed, Begins
<1>5. CASE Begins(h, r, nal, ts, shift) /\ h.synced
  <2> DEFINE unit == [nals |-> h.au, ts |-> h.auTs + shift]
  <2>1. unit \in [nals : Seq(Nal), ts : Nat]
    BY <1>2
  <2>2. r.sent = Append(h.sent, unit) /\ r.sent # <<>>
    BY <1>2, <1>5, <2>1, AppendProperties DEF Begins
  <2>3. r.sent[1] = IF h.sent = <<>> THEN unit ELSE h.sent[1]
    <3>1. CASE h.sent = <<>>
      BY <2>2, <3>1
    <3>2. CASE h.sent # <<>>
      <4>1. 1 \in 1 .. Len(h.sent)
        BY <1>2, <3>2
      <4> QED
        BY <1>2, <2>1, <2>2, <3>2, <4>1, AppendProperties
    <3> QED
      BY <3>1, <3>2
  <2>4. IsKey(r.sent[1].nals)
    BY <1>5, <2>3 DEF Keyed
  <2> QED
    BY <1>2, <1>3, <1>5, <2>2, <2>4 DEF Keyed, Begins
<1>6. CASE Continues(h, r, nal)
  <2>1. IsKey(h.au) => IsKey(Append(h.au, nal))
    BY <1>2, KeyGrows
  <2> QED
    BY <1>2, <1>3, <1>6, <2>1 DEF Keyed, Continues
<1> QED
  BY <1>1, <1>2, <1>4, <1>5, <1>6

(* What is left when the first d of some pieces are dropped.               *)
Left(old, new, d) ==
  /\ d \in 0 .. Len(old) /\ Len(new) = Len(old) - d
  /\ \A i \in 1 .. Len(new) : i + d \in 1 .. Len(old) /\ new[i] = old[i + d]

(* A part of a sequence that ends where the sequence does.                 *)
LEMMA LeftOf ==
  ASSUME NEW S, NEW s \in Seq(S), NEW n \in 1 .. Len(s)
  PROVE  SubSeq(s, n, Len(s)) \in Seq(S) /\ Left(s, SubSeq(s, n, Len(s)), n - 1)
<1>1. Len(s) \in Nat /\ \A i \in n .. Len(s) : s[i] \in S
  OBVIOUS
<1>2. /\ SubSeq(s, n, Len(s)) \in Seq(S)
      /\ Len(SubSeq(s, n, Len(s))) = Len(s) - n + 1
      /\ \A i \in 1 .. Len(s) - n + 1 : SubSeq(s, n, Len(s))[i] = s[n + i - 1]
  BY <1>1, SubSeqProperties
<1>3. \A i \in 1 .. Len(s) - n + 1 :
        i + (n - 1) = n + i - 1 /\ i + (n - 1) \in 1 .. Len(s)
  BY <1>1
<1>4. n - 1 \in 0 .. Len(s) /\ Len(s) - n + 1 = Len(s) - (n - 1)
  BY <1>1
<1> QED
  BY <1>2, <1>3, <1>4 DEF Left

Pieces == [piece : Piece, ts : Nat]

(* The pieces of a chunk are appended, each with the time of its entry,    *)
(* and what comes before the first start code is dropped.                  *)
LEMMA Pended ==
  ASSUME NEW h \in Hevc, NEW chunk \in Seq(Piece), NEW ts \in Nat,
         Aligned(h), Keyed(h)
  PROVE  LET r   == Pend(h, chunk, ts)
             new == [i \in DOMAIN chunk |-> [piece |-> chunk[i], ts |-> ts]]
         IN  /\ r \in Hevc /\ Aligned(r) /\ Keyed(r)
             /\ r.sent = h.sent /\ r.synced = h.synced /\ r.auTs = h.auTs
             /\ new \in Seq(Pieces) /\ Len(new) = Len(chunk)
             /\ \E d \in Nat : Left(h.pending \o new, r.pending, d)
<1> DEFINE r     == Pend(h, chunk, ts)
           new   == [i \in DOMAIN chunk |-> [piece |-> chunk[i], ts |-> ts]]
           all   == h.pending \o new
           begun_at == {i \in DOMAIN all : IsStart(all[i].piece)}
<1>1. new \in Seq(Pieces) /\ Len(new) = Len(chunk)
  <2>1. Len(chunk) \in Nat /\ DOMAIN chunk = 1 .. Len(chunk)
    OBVIOUS
  <2>2. \A i \in 1 .. Len(chunk) : [piece |-> chunk[i], ts |-> ts] \in Pieces
    BY DEF Pieces
  <2>3. new \in [1 .. Len(chunk) -> Pieces]
    BY <2>1, <2>2
  <2> QED
    BY <2>1, <2>3, SeqDef
<1>2. h.pending \in Seq(Pieces)
  BY DEF Hevc, Pieces
<1> HIDE DEF new
<1>3. all \in Seq(Pieces)
  BY <1>1, <1>2
<1>4. r = [h EXCEPT !.pending = FromStart(all)]
  BY DEF Pend, new
<1>5. /\ FromStart(all) = IF begun_at = {} THEN all
                          ELSE SubSeq(all, Min(begun_at), Len(all))
  BY DEF FromStart
<1> HIDE DEF all
<1>6. /\ FromStart(all) \in Seq(Pieces)
      /\ \E d \in Nat : Left(all, FromStart(all), d)
      /\ \A i \in DOMAIN FromStart(all) :
           IsStart(FromStart(all)[i].piece) => IsStart(FromStart(all)[1].piece)
  <2>0. Len(all) \in Nat /\ DOMAIN all = 1 .. Len(all)
    BY <1>3
  <2>1. CASE begun_at = {}
    <3>1. FromStart(all) = all
      BY <1>5, <2>1
    <3>2. Left(all, all, 0)
      BY <2>0 DEF Left
    <3>3. \A i \in DOMAIN all : ~IsStart(all[i].piece)
      BY <2>1
    <3> QED
      BY <1>3, <3>1, <3>2, <3>3
  <2>2. CASE begun_at # {}
    <3> DEFINE m == Min(begun_at)
    <3>1. begun_at \in SUBSET (0 .. Len(all))
      BY <2>0
    <3>2. m \in begun_at
      BY <2>0, <2>2, <3>1, MinOf
    <3>3. m \in 1 .. Len(all) /\ IsStart(all[m].piece)
      BY <2>0, <3>2
    <3>4. FromStart(all) = SubSeq(all, m, Len(all))
      BY <1>5, <2>2
    <3> HIDE DEF m
    <3>5. /\ FromStart(all) \in Seq(Pieces)
          /\ Left(all, FromStart(all), m - 1)
      BY <1>3, <3>3, <3>4, LeftOf
    <3>6. FromStart(all)[1] = all[m]
      <4>1. 1 \in 1 .. Len(FromStart(all)) /\ 1 + (m - 1) = m
        BY <2>0, <3>3, <3>5 DEF Left
      <4> QED
        BY <3>5, <4>1 DEF Left
    <3>7. m - 1 \in Nat
      BY <3>3
    <3> QED
      BY <3>3, <3>5, <3>6, <3>7
  <2> QED
    BY <2>1, <2>2
<1>7. r \in Hevc /\ r.pending = FromStart(all)
  BY <1>4, <1>6 DEF Hevc, Pieces
<1>8. Aligned(r)
  BY <1>6, <1>7 DEF Aligned
<1>9. /\ r.synced = h.synced /\ r.au = h.au /\ r.sent = h.sent
      /\ r.auTs = h.auTs
  BY <1>4 DEF Hevc
<1>10. Keyed(r)
  BY <1>9 DEF Keyed
<1> QED
  BY <1>1, <1>6, <1>7, <1>8, <1>9, <1>10 DEF all, new

SentUnit == [nals : Seq(Nal), ts : Nat]

(* One element more: the others stay where they were.                      *)
LEMMA OneMore ==
  ASSUME NEW S, NEW s \in Seq(S), NEW x \in S
  PROVE  \A i \in DOMAIN Append(s, x) :
           \/ i \in DOMAIN s /\ Append(s, x)[i] = s[i]
           \/ i = Len(s) + 1 /\ Append(s, x)[i] = x
<1>1. /\ Append(s, x) \in Seq(S) /\ Len(Append(s, x)) = Len(s) + 1
      /\ \A i \in 1 .. Len(s) : Append(s, x)[i] = s[i]
      /\ Append(s, x)[Len(s) + 1] = x
  BY AppendProperties
<1>2. /\ DOMAIN Append(s, x) = 1 .. Len(s) + 1 /\ DOMAIN s = 1 .. Len(s)
      /\ Len(s) \in Nat
  BY <1>1
<1> QED
  BY <1>1, <1>2

(* The first NAL unit pending is routed, with the time of its start code.  *)
LEMMA FedOne ==
  ASSUME NEW h \in Hevc, NEW shift \in Nat, Aligned(h), Keyed(h), IsComplete(h)
  PROVE  LET r == FeedOne(h, shift)
         IN  /\ r \in Hevc /\ Aligned(r) /\ Keyed(r)
             /\ h.pending \in Seq(Pieces) /\ Len(h.pending) >= 1
             /\ IsStart(h.pending[1].piece)
             /\ \E d \in 1 .. Len(h.pending) : Left(h.pending, r.pending, d)
             /\ \E nal \in Nal :
                  /\ nal[1] = h.pending[1].piece
                  /\ \/ Begins(h, r, nal, h.pending[1].ts, shift)
                     \/ Continues(h, r, nal)
<1> DEFINE next == Min(NextStarts(h.pending))
           nal  == SubSeq(h.pending, 1, next - 1)
           rest == SubSeq(h.pending, next, Len(h.pending))
           unit == [i \in DOMAIN nal |-> nal[i].piece]
           g    == [h EXCEPT !.pending = rest]
           r    == FeedOne(h, shift)
<1>1. h.pending \in Seq(Pieces) /\ Len(h.pending) \in Nat
      /\ DOMAIN h.pending = 1 .. Len(h.pending)
  BY DEF Hevc, Pieces
<1>2. next \in 2 .. Len(h.pending) /\ IsStart(h.pending[next].piece)
  <2>1. /\ NextStarts(h.pending) \in SUBSET (0 .. Len(h.pending))
        /\ NextStarts(h.pending) # {}
    BY <1>1 DEF NextStarts, IsComplete
  <2>2. next \in NextStarts(h.pending)
    BY <1>1, <2>1, MinOf
  <2> QED
    BY <2>2 DEF NextStarts
<1> HIDE DEF next
<1>3. /\ rest \in Seq(Pieces) /\ Left(h.pending, rest, next - 1)
      /\ next \in 1 .. Len(h.pending) /\ next - 1 \in 1 .. Len(h.pending)
  <2>1. next \in 1 .. Len(h.pending) /\ next - 1 \in 1 .. Len(h.pending)
    BY <1>1, <1>2
  <2> QED
    BY <1>1, <2>1, LeftOf
<1>4. IsStart(h.pending[1].piece)
  BY <1>1, <1>2, <1>3 DEF Aligned
<1>5. /\ nal \in Seq(Pieces) /\ Len(nal) = next - 1 /\ nal[1] = h.pending[1]
  <2>1. 1 \in Int /\ next - 1 \in Int /\ 1 <= next - 1 /\ 1 \in 1 .. next - 1
    BY <1>2
  <2>2. \A i \in 1 .. next - 1 : h.pending[i] \in Pieces
    BY <1>1, <1>2
  <2>3. /\ nal \in Seq(Pieces)
        /\ Len(nal) = IF 1 <= next - 1 THEN next - 1 - 1 + 1 ELSE 0
        /\ \A i \in 1 .. next - 1 - 1 + 1 : nal[i] = h.pending[1 + i - 1]
    BY <2>1, <2>2, SubSeqProperties
  <2>4. next - 1 - 1 + 1 = next - 1 /\ 1 + 1 - 1 = 1
    BY <2>1
  <2> QED
    BY <2>1, <2>3, <2>4
<1> HIDE DEF nal
<1>6. unit \in Nal /\ unit[1] = h.pending[1].piece
  <2>1. DOMAIN nal = 1 .. next - 1 /\ next - 1 \in Nat \ {0}
    BY <1>2, <1>5
  <2>2. \A i \in 1 .. next - 1 : nal[i].piece \in Piece
    <3>1. \A i \in 1 .. Len(nal) : nal[i] \in Pieces
      BY <1>5
    <3> QED
      BY <1>5, <3>1 DEF Pieces
  <2>3. unit \in [1 .. next - 1 -> Piece]
    BY <2>1, <2>2
  <2>4. unit \in Seq(Piece) /\ Len(unit) = next - 1
    BY <2>1, <2>3, SeqDef
  <2>5. unit # <<>>
    BY <2>1, <2>4
  <2>6. unit[1] = nal[1].piece
    <3>1. 1 \in 1 .. next - 1
      BY <1>1, <1>2
    <3>2. 1 \in DOMAIN nal
      BY <2>1, <3>1, Zenon
    <3> QED
      BY <3>2
  <2> QED
    BY <1>5, <2>4, <2>5, <2>6 DEF Nal
<1>7. nal[1].ts = h.pending[1].ts /\ h.pending[1].ts \in Nat
  <2>1. h.pending[1] \in Pieces
    BY <1>1, <1>2
  <2> QED
    BY <1>5, <2>1 DEF Pieces
<1>8. r = Route(g, unit, nal[1].ts, shift)
  BY DEF FeedOne, next, nal
<1> HIDE DEF rest, unit, r
<1>9. g \in Hevc /\ Keyed(g) /\ g.pending = rest
      /\ g.prefix = h.prefix /\ g.au = h.au /\ g.auTs = h.auTs
      /\ g.synced = h.synced /\ g.sent = h.sent
  BY <1>3 DEF Hevc, Keyed, Pieces
<1> HIDE DEF g
<1>10. /\ r \in Hevc /\ r.pending = rest
       /\ \/ Begins(g, r, unit, h.pending[1].ts, shift)
          \/ Continues(g, r, unit)
  BY <1>6, <1>7, <1>8, <1>9, Routed
<1>11. Keyed(r)
  BY <1>6, <1>7, <1>8, <1>9, RoutedKeyed
<1>12. \/ Begins(h, r, unit, h.pending[1].ts, shift)
       \/ Continues(h, r, unit)
  BY <1>9, <1>10 DEF Begins, Continues, MayStart
<1>13. Aligned(r)
  <2>1. Len(rest) >= 1 /\ rest[1] = h.pending[next]
    <3>1. 1 \in 1 .. Len(rest) /\ 1 + (next - 1) = next
      BY <1>1, <1>2, <1>3 DEF Left
    <3> QED
      BY <1>3, <3>1 DEF Left
  <2> QED
    BY <1>2, <1>10, <2>1 DEF Aligned
<1>14. \E d \in 1 .. Len(h.pending) : Left(h.pending, r.pending, d)
  <2>1. next - 1 \in 1 .. Len(h.pending)
    BY <1>1, <1>2
  <2> QED
    BY <1>3, <1>10, <2>1
<1>15. \E n \in Nal : /\ n[1] = h.pending[1].piece
                      /\ \/ Begins(h, r, n, h.pending[1].ts, shift)
                         \/ Continues(h, r, n)
  BY <1>6, <1>12
<1> QED
  BY <1>1, <1>3, <1>4, <1>10, <1>11, <1>13, <1>14, <1>15 DEF r

(* What is read of an entry is made of pieces, with the body at its end.   *)
LEMMA ChunkOf ==
  ASSUME Setting, NEW e \in Entries
  PROVE  /\ Chunk(e) \in Seq(Piece)
         /\ LET all == script[e].carried \o script[e].body
            IN  all \in Seq(Piece) /\ \E d \in Nat : Left(all, Chunk(e), d)
<1> DEFINE c   == script[e].carried
           b   == script[e].body
           all == c \o b
<1>1. c \in Seq(Piece) /\ b \in Seq(Piece)
  <2>1. script[e] \in Entry
    BY Recording
  <2> QED
    BY <2>1 DEF Entry
<1>2. Chunk(e) = b \/ Chunk(e) = all
  BY DEF Chunk, Kept
<1> HIDE DEF c, b
<1>3. /\ all \in Seq(Piece) /\ Len(all) = Len(c) + Len(b)
      /\ \A i \in 1 .. Len(c) + Len(b) :
           all[i] = IF i <= Len(c) THEN c[i] ELSE b[i - Len(c)]
  BY <1>1, ConcatProperties
<1>4. Len(c) \in Nat /\ Len(b) \in Nat
  BY <1>1
<1> HIDE DEF all
<1>5. Left(all, all, 0)
  BY <1>3, <1>4 DEF Left
<1>6. Left(all, b, Len(c))
  <2>1. /\ Len(c) \in 0 .. Len(all) /\ Len(b) = Len(all) - Len(c)
    BY <1>3, <1>4
  <2>2. ASSUME NEW i \in 1 .. Len(b)
        PROVE  i + Len(c) \in 1 .. Len(all) /\ b[i] = all[i + Len(c)]
    <3>1. /\ i + Len(c) \in 1 .. Len(c) + Len(b) /\ ~(i + Len(c) <= Len(c))
          /\ (i + Len(c)) - Len(c) = i
      BY <1>4
    <3> QED
      BY <1>3, <3>1
  <2> QED
    BY <2>1, <2>2 DEF Left
<1> QED
  BY <1>1, <1>2, <1>3, <1>4, <1>5, <1>6 DEF all, c, b

(* Beginning again forgets everything but what was sent.                   *)
LEMMA ResetOne ==
  ASSUME NEW sent \in Seq([nals : Seq(Nal), ts : Nat]),
         sent # <<>> => IsKey(sent[1].nals)
  PROVE  /\ Reset(sent) \in Hevc /\ Aligned(Reset(sent)) /\ Keyed(Reset(sent))
         /\ Reset(sent).sent = sent /\ Reset(sent).pending = <<>>
         /\ Reset(sent).synced = FALSE
<1>1. <<>> \in Seq([piece : Piece, ts : Nat]) /\ <<>> \in Seq(Nal)
      /\ DOMAIN <<>> = {}
  OBVIOUS
<1>2. Reset(sent) \in Hevc
  BY <1>1 DEF Reset, Hevc
<1>3. Aligned(Reset(sent)) /\ Keyed(Reset(sent))
  BY <1>1 DEF Reset, Aligned, Keyed
<1> QED
  BY <1>2, <1>3 DEF Reset

(* The entry that is sent, and what was read in its place.                 *)
LEMMA EntrySent ==
  ASSUME RingInv, FollowInv, SendEntry
  PROVE  LET e == Min(DOMAIN todo)
         IN  /\ e \in DOMAIN todo /\ e \in Entries /\ todo[e] \in Entries
             /\ \A x \in DOMAIN todo : e <= x
             /\ Ts(e) \in Nat /\ Chunk(todo[e]) \in Seq(Piece)
<1>1. DOMAIN todo \in SUBSET Entries /\ DOMAIN todo # {}
  BY DEF RingInv, RingType, FollowInv, ReaderType, SendEntry
<1>2. /\ Min(DOMAIN todo) \in DOMAIN todo
      /\ \A x \in DOMAIN todo : Min(DOMAIN todo) <= x
  BY <1>1, Newest DEF RingInv
<1>3. \A e \in DOMAIN todo : e \in Entries /\ todo[e] \in Entries
  BY <1>1 DEF FollowInv, ReaderType
<1> QED
  BY <1>2, <1>3, Recording, ChunkOf DEF RingInv

(* The assembler begins with nothing.                                      *)
LEMMA HevcInit ==
  ASSUME Init
  PROVE  HevcInv
<1>1. hevc = Reset(<<>>)
  BY DEF Init
<1>2. <<>> \in Seq([nals : Seq(Nal), ts : Nat])
  OBVIOUS
<1>3. HevcInv
  BY <1>1, <1>2, ResetOne, Zenon DEF HevcInv
<1> QED
  BY <1>3

(* Whatever is read, in whatever pieces, the assembler keeps its form, and *)
(* begins with a key frame.                                                *)
LEMMA HevcStep ==
  ASSUME RingInv, FollowInv, HevcInv, loop_offset_ms \in Nat, [Next]_vars
  PROVE  HevcInv'
<1>1. CASE SendEntry
  <2> DEFINE e == Min(DOMAIN todo)
             r == Pend(hevc, Chunk(todo[e]), Ts(e))
  <2>1. Ts(e) \in Nat /\ Chunk(todo[e]) \in Seq(Piece)
    BY <1>1, EntrySent
  <2>2. hevc' = r \/ hevc' = hevc
    BY <1>1 DEF SendEntry
  <2>3. r \in Hevc /\ Aligned(r) /\ Keyed(r)
    BY <2>1, Pended DEF HevcInv
  <2> HIDE DEF r
  <2> QED
    BY <2>2, <2>3 DEF HevcInv
<1>2. CASE SendNal
  <2> DEFINE r == FeedOne(hevc, loop_offset_ms)
  <2>1. hevc' = r /\ IsComplete(hevc)
    BY <1>2 DEF SendNal
  <2>2. r \in Hevc /\ Aligned(r) /\ Keyed(r)
    BY <2>1, FedOne DEF HevcInv
  <2> HIDE DEF r
  <2> QED
    BY <2>1, <2>2 DEF HevcInv
<1>3. CASE Replay
  <2> DEFINE r == Reset(hevc.sent)
  <2>1. hevc' = r
    BY <1>3 DEF Replay
  <2>2. /\ hevc.sent \in Seq([nals : Seq(Nal), ts : Nat])
        /\ hevc.sent # <<>> => IsKey(hevc.sent[1].nals)
    BY DEF HevcInv, Hevc, Keyed
  <2>3. r \in Hevc /\ Aligned(r) /\ Keyed(r)
    BY <2>2, ResetOne
  <2> HIDE DEF r
  <2> QED
    BY <2>1, <2>3 DEF HevcInv
<1>4. CASE hevc' = hevc
  BY <1>4 DEF HevcInv
<1> QED
  BY <1>1, <1>2, <1>3, <1>4 DEF Next, vars, readerVars, Writer, WritePayload,
     WriteTable, Repeat, Tabulate, Reader, ReadTable, NoAnchor, FirstRead,
     NextRead, EndOfRange, Fails

-----------------------------------------------------------------------------
(* Times of units and pieces *)

(* A piece pending after a chunk was appended was pending before, or is of *)
(* the chunk.                                                              *)
LEMMA PendedPieces ==
  ASSUME NEW h \in Hevc, NEW chunk \in Seq(Piece), NEW ts \in Nat,
         Aligned(h), Keyed(h)
  PROVE  LET r == Pend(h, chunk, ts)
             n == Len(h.pending)
         IN  /\ n \in Nat
             /\ \E d \in Nat : \A q \in DOMAIN r.pending :
                  /\ q \in Nat
                  /\ q + d <= n => /\ q + d \in DOMAIN h.pending
                                   /\ r.pending[q] = h.pending[q + d]
                  /\ q + d > n =>
                       /\ (q + d) - n \in DOMAIN chunk
                       /\ r.pending[q].piece = chunk[(q + d) - n]
                       /\ r.pending[q].ts = ts
<1> DEFINE r == Pend(h, chunk, ts)
           n == Len(h.pending)
           new == [i \in DOMAIN chunk |-> [piece |-> chunk[i], ts |-> ts]]
           all == h.pending \o new
<1>1. /\ r \in Hevc /\ new \in Seq(Pieces) /\ Len(new) = Len(chunk)
      /\ \E d \in Nat : Left(all, r.pending, d)
  BY Pended
<1>2. PICK d \in Nat : Left(all, r.pending, d)
  BY <1>1
<1>3. \A i \in DOMAIN chunk : new[i] = [piece |-> chunk[i], ts |-> ts]
  OBVIOUS
<1> HIDE DEF new, r
<1>4. /\ h.pending \in Seq(Pieces) /\ r.pending \in Seq(Pieces)
      /\ n \in Nat /\ DOMAIN h.pending = 1 .. n
      /\ Len(chunk) \in Nat /\ DOMAIN chunk = 1 .. Len(chunk)
      /\ DOMAIN r.pending = 1 .. Len(r.pending) /\ Len(r.pending) \in Nat
  BY <1>1 DEF Hevc, Pieces
<1>5. /\ Len(all) = n + Len(chunk)
      /\ \A i \in 1 .. n + Len(chunk) :
           all[i] = IF i <= n THEN h.pending[i] ELSE new[i - n]
  <2>1. /\ Len(all) = Len(h.pending) + Len(new)
        /\ \A i \in 1 .. Len(h.pending) + Len(new) :
             all[i] = IF i <= Len(h.pending) THEN h.pending[i]
                                             ELSE new[i - Len(h.pending)]
    BY <1>1, <1>4, ConcatProperties, Zenon
  <2> QED
    BY <1>1, <2>1
<1> HIDE DEF all, n
<1>6. ASSUME NEW q \in DOMAIN r.pending
      PROVE  /\ q \in Nat
             /\ q + d <= n => /\ q + d \in DOMAIN h.pending
                              /\ r.pending[q] = h.pending[q + d]
             /\ q + d > n => /\ (q + d) - n \in DOMAIN chunk
                             /\ r.pending[q].piece = chunk[(q + d) - n]
                             /\ r.pending[q].ts = ts
  <2>1. /\ q \in Nat \ {0} /\ q + d \in 1 .. n + Len(chunk)
        /\ r.pending[q] = all[q + d]
    <3>1. q \in 1 .. Len(r.pending) /\ q \in Nat \ {0}
      BY <1>4
    <3>2. q + d \in 1 .. Len(all) /\ r.pending[q] = all[q + d]
      BY <1>2, <3>1, Zenon DEF Left
    <3> QED
      BY <1>5, <3>1, <3>2
  <2>2. CASE q + d <= n
    BY <1>4, <1>5, <2>1, <2>2
  <2>3. CASE q + d > n
    <3>1. (q + d) - n \in DOMAIN chunk /\ ~(q + d <= n)
      BY <1>4, <2>1, <2>3
    <3>2. r.pending[q] = new[(q + d) - n]
      BY <1>5, <2>1, <3>1
    <3>3. r.pending[q] = [piece |-> chunk[(q + d) - n], ts |-> ts]
      BY <1>3, <3>1, <3>2
    <3> QED
      BY <2>1, <3>1, <3>3
  <2> QED
    BY <1>4, <2>1, <2>2, <2>3
<1> QED
  BY <1>4, <1>6 DEF r, n

(* A chunk of a new entry is in order, when it begins one picture at most, *)
(* and that one is ahead of all the others.                                *)
LEMMA OrderedPended ==
  ASSUME NEW h \in Hevc, NEW chunk \in Seq(Piece), NEW ts \in Nat,
         NEW shift \in Nat, NEW ahead \in SUBSET Nat, NEW later \in SUBSET ahead,
         Aligned(h), Keyed(h), Ordered(h, shift, ahead),
         \A i, j \in DOMAIN chunk :
           BeginsPicture(chunk[i]) /\ BeginsPicture(chunk[j]) => i = j,
         \A i \in DOMAIN chunk :
           BeginsPicture(chunk[i]) => ts \in ahead /\ \A t \in later : ts < t
  PROVE  Ordered(Pend(h, chunk, ts), shift, later)
<1> DEFINE r == Pend(h, chunk, ts)
           n == Len(h.pending)
<1>1. /\ r \in Hevc /\ r.sent = h.sent /\ r.synced = h.synced
      /\ r.auTs = h.auTs
  BY Pended
<1>2. /\ n \in Nat
      /\ \E d \in Nat : \A q \in DOMAIN r.pending :
           /\ q \in Nat
           /\ q + d <= n => /\ q + d \in DOMAIN h.pending
                            /\ r.pending[q] = h.pending[q + d]
           /\ q + d > n => /\ (q + d) - n \in DOMAIN chunk
                           /\ r.pending[q].piece = chunk[(q + d) - n]
                           /\ r.pending[q].ts = ts
  BY PendedPieces
<1> SUFFICES Ordered(r, shift, later)
  OBVIOUS
<1> HIDE DEF r, n
<1>3. r.sent = h.sent /\ r.synced = h.synced /\ r.auTs = h.auTs
  BY <1>1 DEF Hevc
<1>4. PICK d \in Nat : \A q \in DOMAIN r.pending :
           /\ q \in Nat
           /\ q + d <= n => /\ q + d \in DOMAIN h.pending
                            /\ r.pending[q] = h.pending[q + d]
           /\ q + d > n => /\ (q + d) - n \in DOMAIN chunk
                           /\ r.pending[q].piece = chunk[(q + d) - n]
                           /\ r.pending[q].ts = ts
  BY <1>2
<1>5. ASSUME NEW p \in PicturesOf(r)
      PROVE  /\ p \in Nat
             /\ p + d <= n => /\ p + d \in PicturesOf(h)
                              /\ r.pending[p].ts = h.pending[p + d].ts
             /\ p + d > n => /\ r.pending[p].ts = ts /\ ts \in ahead
                             /\ \A t \in later : ts < t
                             /\ (p + d) - n \in DOMAIN chunk
                             /\ BeginsPicture(chunk[(p + d) - n])
  <2>1. p \in DOMAIN r.pending /\ BeginsPicture(r.pending[p].piece)
    BY DEF PicturesOf
  <2> QED
    BY <1>4, <2>1 DEF PicturesOf
<1>6. ASSUME NEW p \in PicturesOf(r)
      PROVE  /\ h.synced => h.auTs < r.pending[p].ts
             /\ \A i \in DOMAIN h.sent : h.sent[i].ts < r.pending[p].ts + shift
             /\ \A t \in later : r.pending[p].ts < t
  <2>1. CASE p + d <= n
    BY <1>5, <2>1 DEF Ordered
  <2>2. CASE p + d > n
    BY <1>5, <2>2 DEF Ordered
  <2> QED
    BY <1>2, <1>5, <2>1, <2>2
<1>7. ASSUME NEW p \in PicturesOf(r), NEW q \in PicturesOf(r), p < q
      PROVE  r.pending[p].ts < r.pending[q].ts
  <2>1. p \in Nat /\ q \in Nat /\ d \in Nat /\ p + d < q + d
    BY <1>5, <1>7
  <2>2. CASE p + d <= n /\ q + d <= n
    BY <1>5, <2>1, <2>2 DEF Ordered
  <2>3. CASE p + d <= n /\ q + d > n
    BY <1>5, <2>1, <2>3 DEF Ordered
  <2>4. CASE p + d > n
    <3>1. q + d > n
      BY <1>2, <2>1, <2>4
    <3>2. (p + d) - n = (q + d) - n
      BY <1>5, <2>4, <3>1
    <3> QED
      BY <1>2, <2>1, <3>2
  <2> QED
    BY <1>2, <2>1, <2>2, <2>3, <2>4
<1> QED
  BY <1>3, <1>6, <1>7 DEF Ordered

(* A NAL unit that is routed leaves everything in order.                   *)
LEMMA OrderedFed ==
  ASSUME NEW h \in Hevc, NEW shift \in Nat, NEW ahead \in SUBSET Nat,
         Aligned(h), Keyed(h), IsComplete(h), Ordered(h, shift, ahead)
  PROVE  Ordered(FeedOne(h, shift), shift, ahead)
<1> DEFINE r == FeedOne(h, shift)
<1>1. /\ h.pending \in Seq(Pieces) /\ Len(h.pending) >= 1
      /\ IsStart(h.pending[1].piece) /\ r \in Hevc
      /\ \E d \in 1 .. Len(h.pending) : Left(h.pending, r.pending, d)
      /\ \E nal \in Nal : /\ nal[1] = h.pending[1].piece
                          /\ \/ Begins(h, r, nal, h.pending[1].ts, shift)
                             \/ Continues(h, r, nal)
  BY FedOne
<1> SUFFICES Ordered(r, shift, ahead)
  OBVIOUS
<1> HIDE DEF r
<1>2. PICK d \in 1 .. Len(h.pending) : Left(h.pending, r.pending, d)
  BY <1>1
<1>3. PICK nal \in Nal : /\ nal[1] = h.pending[1].piece
                         /\ \/ Begins(h, r, nal, h.pending[1].ts, shift)
                            \/ Continues(h, r, nal)
  BY <1>1
<1>4. ASSUME NEW p \in PicturesOf(r)
      PROVE  /\ p \in Nat /\ p + d > 1 /\ p + d \in PicturesOf(h)
             /\ r.pending[p] = h.pending[p + d]
  <2>1. /\ r.pending \in Seq(Pieces)
        /\ p \in 1 .. Len(r.pending) /\ BeginsPicture(r.pending[p].piece)
    <3>1. r.pending \in Seq(Pieces)
      BY <1>1 DEF Hevc, Pieces
    <3>2. DOMAIN r.pending = 1 .. Len(r.pending)
      BY <3>1
    <3>3. p \in DOMAIN r.pending /\ BeginsPicture(r.pending[p].piece)
      BY DEF PicturesOf
    <3> QED
      BY <3>1, <3>2, <3>3
  <2>2. p + d \in 1 .. Len(h.pending) /\ r.pending[p] = h.pending[p + d]
    BY <1>2, <2>1 DEF Left
  <2>3. p + d > 1 /\ p \in Nat
    BY <1>1, <1>2, <2>1
  <2> QED
    BY <1>1, <2>1, <2>2, <2>3 DEF PicturesOf
<1>5. ASSUME NEW p \in PicturesOf(r), NEW q \in PicturesOf(r), p < q
      PROVE  r.pending[p].ts < r.pending[q].ts
  <2>1. p + d < q + d
    BY <1>1, <1>2, <1>4, <1>5
  <2> QED
    BY <1>4, <2>1 DEF Ordered
<1>6. CASE Continues(h, r, nal)
  <2>1. r.sent = h.sent /\ r.synced = h.synced /\ r.auTs = h.auTs
    BY <1>6 DEF Continues
  <2> QED
    BY <1>4, <1>5, <2>1 DEF Ordered
<1>7. CASE Begins(h, r, nal, h.pending[1].ts, shift)
  <2> DEFINE ts == h.pending[1].ts
             unit == [nals |-> h.au, ts |-> h.auTs + shift]
  <2>1. 1 \in PicturesOf(h)
    BY <1>1, <1>3, <1>7 DEF Begins, KindOf, PicturesOf, BeginsPicture
  <2>2. ts \in Nat /\ r.synced /\ r.auTs = ts
    <3>1. h.pending[1] \in Pieces
      BY <1>1
    <3> QED
      BY <1>7, <3>1 DEF Begins, Pieces
  <2>3. /\ \A p \in PicturesOf(r) : ts < r.pending[p].ts
        /\ \A t \in ahead : ts < t
        /\ \A i \in DOMAIN h.sent : h.sent[i].ts < ts + shift
    BY <1>4, <2>1 DEF Ordered
  <2>4. CASE ~h.synced
    <3>1. r.sent = h.sent
      BY <1>7, <2>4 DEF Begins
    <3> QED
      BY <1>4, <1>5, <2>2, <2>3, <3>1 DEF Ordered
  <2>5. CASE h.synced
    <3>1. r.sent = Append(h.sent, unit)
      BY <1>7, <2>5 DEF Begins
    <3>2. /\ h.sent \in Seq([nals : Seq(Nal), ts : Nat]) /\ h.auTs \in Nat
          /\ unit \in [nals : Seq(Nal), ts : Nat] /\ unit.ts = h.auTs + shift
      BY DEF Hevc
    <3> HIDE DEF unit, ts
    <3>3. \A i \in DOMAIN r.sent :
            \/ i \in DOMAIN h.sent /\ r.sent[i] = h.sent[i]
            \/ i = Len(h.sent) + 1 /\ r.sent[i] = unit
      <4>0. h.sent \in Seq(SentUnit) /\ unit \in SentUnit
        BY <3>2 DEF SentUnit
      <4>1. \A i \in DOMAIN Append(h.sent, unit) :
              \/ i \in DOMAIN h.sent /\ Append(h.sent, unit)[i] = h.sent[i]
              \/ i = Len(h.sent) + 1 /\ Append(h.sent, unit)[i] = unit
        BY <4>0, OneMore
      <4> QED
        BY <3>1, <4>1
    <3>4. DOMAIN h.sent = 1 .. Len(h.sent) /\ Len(h.sent) \in Nat
      BY <3>2
    <3>5. \A i \in DOMAIN h.sent : h.sent[i].ts < unit.ts
      BY <2>5, <3>2 DEF Ordered
    <3>6. \A i, j \in DOMAIN r.sent : i < j => r.sent[i].ts < r.sent[j].ts
      <4> SUFFICES ASSUME NEW i \in DOMAIN r.sent, NEW j \in DOMAIN r.sent, i < j
                   PROVE  r.sent[i].ts < r.sent[j].ts
        OBVIOUS
      <4>1. i \in DOMAIN h.sent /\ r.sent[i] = h.sent[i]
        BY <3>3, <3>4
      <4>2. CASE j \in DOMAIN h.sent /\ r.sent[j] = h.sent[j]
        BY <4>1, <4>2 DEF Ordered
      <4>3. CASE r.sent[j] = unit
        BY <3>5, <4>1, <4>3
      <4> QED
        BY <3>3, <4>2, <4>3
    <3>7. /\ unit.ts < ts + shift
          /\ \A p \in PicturesOf(r) : unit.ts < r.pending[p].ts + shift
          /\ \A t \in ahead : unit.ts < t + shift
      <4>1. h.auTs < ts
        BY <2>1, <2>5 DEF Ordered, ts
      <4>2. \A p \in PicturesOf(r) : h.auTs < r.pending[p].ts
        BY <1>4, <2>5 DEF Ordered
      <4>3. \A p \in PicturesOf(r) : r.pending[p].ts \in Nat
        <5>1. h.pending \in Seq(Pieces) /\ \A p \in PicturesOf(h) : p \in DOMAIN h.pending
          BY <1>1 DEF PicturesOf
        <5>2. \A p \in PicturesOf(h) : h.pending[p] \in Pieces
          BY <5>1
        <5> QED
          BY <1>4, <5>2 DEF Pieces
      <4>4. \A t \in ahead : h.auTs < t
        BY <2>5 DEF Ordered
      <4>5. shift \in Nat /\ unit.ts = h.auTs + shift /\ h.auTs \in Nat /\ ts \in Nat
        BY <2>2, <3>2
      <4>6. unit.ts < ts + shift
        BY <4>1, <4>5
      <4>7. \A p \in PicturesOf(r) : unit.ts < r.pending[p].ts + shift
        BY <4>2, <4>3, <4>5
      <4>8. \A t \in ahead : unit.ts < t + shift
        BY <4>4, <4>5
      <4> QED
        BY <4>6, <4>7, <4>8
    <3>8. /\ \A i \in DOMAIN r.sent : r.sent[i].ts < r.auTs + shift
          /\ \A p \in PicturesOf(r), i \in DOMAIN r.sent :
               r.sent[i].ts < r.pending[p].ts + shift
          /\ \A t \in ahead, i \in DOMAIN r.sent : r.sent[i].ts < t + shift
      <4>1. \A p \in PicturesOf(r), i \in DOMAIN h.sent :
               h.sent[i].ts < r.pending[p].ts + shift
        BY <1>4 DEF Ordered
      <4>2. \A t \in ahead, i \in DOMAIN h.sent : h.sent[i].ts < t + shift
        BY DEF Ordered
      <4> QED
        BY <2>2, <2>3, <3>3, <3>7, <4>1, <4>2
    <3> QED
      BY <1>4, <1>5, <2>2, <2>3, <3>6, <3>8 DEF Ordered
  <2> QED
    BY <2>4, <2>5
<1> QED
  BY <1>3, <1>6, <1>7

(* What is not after one time is not after a later one.                    *)
LEMMA LaterStill ==
  ASSUME NEW h \in Hevc, NEW t \in Nat, NEW u \in Nat, NEW shift \in Nat,
         NotAfter(h, t, shift), t <= u
  PROVE  NotAfter(h, u, shift)
<1>1. /\ \A i \in DOMAIN h.sent : h.sent[i].ts \in Nat
      /\ \A i \in DOMAIN h.pending : h.pending[i].ts \in Nat
      /\ h.auTs \in Nat
  <2>1. /\ h.sent \in Seq([nals : Seq(Nal), ts : Nat]) /\ h.auTs \in Nat
        /\ h.pending \in Seq([piece : Piece, ts : Nat])
    BY DEF Hevc
  <2>2. /\ \A i \in DOMAIN h.sent : h.sent[i] \in [nals : Seq(Nal), ts : Nat]
        /\ \A i \in DOMAIN h.pending : h.pending[i] \in [piece : Piece, ts : Nat]
    BY <2>1, ElementOfSeq, LenProperties
  <2> QED
    BY <2>1, <2>2
<1> QED
  BY <1>1 DEF NotAfter

(* A chunk makes nothing later than its entry.                             *)
LEMMA NotAfterPended ==
  ASSUME NEW h \in Hevc, NEW chunk \in Seq(Piece), NEW ts \in Nat,
         NEW t \in Nat, NEW shift \in Nat,
         Aligned(h), Keyed(h), NotAfter(h, t, shift), ts <= t
  PROVE  NotAfter(Pend(h, chunk, ts), t, shift)
<1> DEFINE r == Pend(h, chunk, ts)
<1>1. r.sent = h.sent /\ r.synced = h.synced /\ r.auTs = h.auTs
  BY Pended
<1>2. \A q \in DOMAIN r.pending :
        \/ r.pending[q].ts = ts
        \/ \E k \in DOMAIN h.pending : r.pending[q] = h.pending[k]
  <2> DEFINE n == Len(h.pending)
  <2>1. /\ n \in Nat
        /\ \E d \in Nat : \A q \in DOMAIN r.pending :
             /\ q \in Nat
             /\ q + d <= n => /\ q + d \in DOMAIN h.pending
                              /\ r.pending[q] = h.pending[q + d]
             /\ q + d > n => /\ (q + d) - n \in DOMAIN chunk
                             /\ r.pending[q].piece = chunk[(q + d) - n]
                             /\ r.pending[q].ts = ts
    BY PendedPieces
  <2> HIDE DEF n, r
  <2> QED
    BY <2>1
<1> SUFFICES NotAfter(r, t, shift)
  OBVIOUS
<1> HIDE DEF r
<1> QED
  BY <1>1, <1>2 DEF NotAfter

(* Neither does a NAL unit that is routed.                                 *)
LEMMA NotAfterFed ==
  ASSUME NEW h \in Hevc, NEW t \in Nat, NEW shift \in Nat,
         Aligned(h), Keyed(h), IsComplete(h), NotAfter(h, t, shift)
  PROVE  NotAfter(FeedOne(h, shift), t, shift)
<1> DEFINE r == FeedOne(h, shift)
<1>1. /\ h.pending \in Seq(Pieces) /\ Len(h.pending) >= 1 /\ r \in Hevc
      /\ \E d \in 1 .. Len(h.pending) : Left(h.pending, r.pending, d)
      /\ \E nal \in Nal : \/ Begins(h, r, nal, h.pending[1].ts, shift)
                          \/ Continues(h, r, nal)
  BY FedOne
<1> SUFFICES NotAfter(r, t, shift)
  OBVIOUS
<1> HIDE DEF r
<1>2. PICK d \in 1 .. Len(h.pending) : Left(h.pending, r.pending, d)
  BY <1>1
<1>3. PICK nal \in Nal : \/ Begins(h, r, nal, h.pending[1].ts, shift)
                         \/ Continues(h, r, nal)
  BY <1>1
<1>4. \A i \in DOMAIN r.pending : r.pending[i].ts <= t
  <2>1. r.pending \in Seq(Pieces)
    BY <1>1 DEF Hevc, Pieces
  <2>2. DOMAIN r.pending = 1 .. Len(r.pending)
    BY <2>1
  <2>3. \A i \in DOMAIN r.pending :
          i + d \in DOMAIN h.pending /\ r.pending[i] = h.pending[i + d]
    <3>1. DOMAIN h.pending = 1 .. Len(h.pending)
      BY <1>1
    <3> QED
      BY <1>2, <2>2, <3>1, Zenon DEF Left
  <2> QED
    BY <2>3 DEF NotAfter
<1>5. h.pending[1].ts <= t
  BY <1>1 DEF NotAfter
<1>6. CASE r.sent = h.sent
  BY <1>3, <1>4, <1>5, <1>6 DEF NotAfter, Begins, Continues
<1>7. CASE r.sent # h.sent
  <2> DEFINE unit == [nals |-> h.au, ts |-> h.auTs + shift]
  <2>1. r.sent = Append(h.sent, unit) /\ h.synced /\ r.auTs = h.pending[1].ts
    BY <1>3, <1>7 DEF Begins, Continues
  <2>2. /\ h.sent \in Seq([nals : Seq(Nal), ts : Nat]) /\ h.auTs \in Nat
        /\ unit \in [nals : Seq(Nal), ts : Nat] /\ unit.ts = h.auTs + shift
    BY DEF Hevc
  <2> HIDE DEF unit
  <2>3. \A i \in DOMAIN r.sent :
          \/ i \in DOMAIN h.sent /\ r.sent[i] = h.sent[i]
          \/ i = Len(h.sent) + 1 /\ r.sent[i] = unit
    <3>0. h.sent \in Seq(SentUnit) /\ unit \in SentUnit
      BY <2>2 DEF SentUnit
    <3>1. \A i \in DOMAIN Append(h.sent, unit) :
            \/ i \in DOMAIN h.sent /\ Append(h.sent, unit)[i] = h.sent[i]
            \/ i = Len(h.sent) + 1 /\ Append(h.sent, unit)[i] = unit
      BY <3>0, OneMore
    <3> QED
      BY <2>1, <3>1
  <2>4. unit.ts <= t + shift
    BY <2>1, <2>2 DEF NotAfter
  <2> QED
    BY <1>4, <1>5, <2>1, <2>3, <2>4 DEF NotAfter
<1> QED
  BY <1>6, <1>7

-----------------------------------------------------------------------------
(* The rounds of a replay *)

(* While the file is as it is, a replay sends the same entries.            *)
LEMMA RoundSame ==
  ASSUME UNCHANGED <<script, mode, skip, table, offset, payload>>
  PROVE  /\ Round' = Round /\ \A e : Got(e)' = Got(e)
         /\ Anchor(Stable(Collect(table)))' = Anchor(Stable(Collect(table)))
<1>1. \A e : Got(e)' = Got(e) /\ Ts(e)' = Ts(e) /\ Chunk(e)' = Chunk(e)
  BY DEF Got, Ts, Chunk
<1>2. Collect(table)' = Collect(table)
  BY DEF Collect
<1> DEFINE S == Collect(table)
<1>3. \A T : Stable(T)' = Stable(T)
  BY <1>1 DEF Stable
<1>4. \A T : Anchor(T)' = Anchor(T)
  <2> SUFFICES ASSUME NEW T PROVE Anchor(T)' = Anchor(T)
    OBVIOUS
  <2> DEFINE points(e) == Score(Chunk(Got(e)))
             videos    == {e \in T : /\ script[e].video
                                     /\ script[Got(e)].header
                                     /\ script[Got(e)].near
                                     /\ points(e) > 0}
             best      == Max({points(e) : e \in videos})
             bests     == {e \in videos : points(e) = best}
  <2>1. \A e : points(e)' = points(e)
    BY <1>1
  <2>2. videos' = videos
    BY <1>1, <2>1
  <2>3. best' = best
    BY <2>1, <2>2
  <2>4. bests' = bests
    BY <2>1, <2>2, <2>3
  <2>5. Anchor(T) = IF videos = {} THEN 0
                    ELSE IF best = 4 THEN Max(bests) ELSE Min(bests)
    BY DEF Anchor
  <2>6. Anchor(T)' = IF videos' = {} THEN 0
                     ELSE IF best' = 4 THEN Max(bests') ELSE Min(bests')
    BY DEF Anchor
  <2> HIDE DEF videos, best, bests
  <2> QED
    BY <2>2, <2>3, <2>4, <2>5, <2>6
<1>5. Stable(S)' = Stable(S)
  BY <1>2, <1>3
<1>6. Anchor(Stable(S))' = Anchor(Stable(S))
  BY <1>4, <1>5
<1> QED
  BY <1>1, <1>5, <1>6 DEF Round, FromAnchor

(* Nobody writes to the file that is replayed.                             *)
LEMMA FileSame ==
  ASSUME RingInv, mode = "static", [Next]_vars
  PROVE  UNCHANGED <<script, mode, skip, table, offset, payload>>
<1>1. script' = script /\ mode' = mode /\ skip' = skip
  BY SameSetting, Zenon
<1>2. writing = 0
  BY DEF RingInv, RingType
<1>3. ~Writer
  BY <1>2 DEF Writer, WritePayload, WriteTable, Repeat, Records
<1>4. UNCHANGED ringVars
  BY <1>3 DEF Next, vars, Reader, KeepRing, ReadTable, NoAnchor, FirstRead,
              NextRead, Replay, SendEntry, SendNal, EndOfRange, Fails
<1> QED
  BY <1>1, <1>4 DEF ringVars

(* A round is made of entries.                                             *)
LEMMA RoundOnes ==
  ASSUME RingInv
  PROVE  /\ Round \subseteq Entries /\ Round \subseteq Stable(Collect(table))
         /\ \A e \in Round : Ts(e) \in Nat
<1>1. Collect(table) \in SUBSET Entries
  BY Collected DEF RingInv, RingType
<1>2. Stable(Collect(table)) \subseteq Entries
  BY <1>1, StableOnes DEF RingInv
<1>3. Round \subseteq Stable(Collect(table))
  BY DEF Round, FromAnchor
<1> QED
  BY <1>2, <1>3, Recording DEF RingInv

(* Nothing comes before nothing.                                           *)
LEMMA OrderedReset ==
  ASSUME NEW shift, NEW ahead, NEW t
  PROVE  Ordered(Reset(<<>>), shift, ahead) /\ NotAfter(Reset(<<>>), t, shift)
<1>1. DOMAIN <<>> = {}
  OBVIOUS
<1>2. /\ Reset(<<>>).sent = <<>> /\ Reset(<<>>).pending = <<>>
      /\ Reset(<<>>).synced = FALSE
  BY DEF Reset
<1>3. PicturesOf(Reset(<<>>)) = {}
  BY <1>1, <1>2 DEF PicturesOf
<1> QED
  BY <1>1, <1>2, <1>3 DEF Ordered, NotAfter

(* Fewer pictures ahead are in order as well.                              *)
LEMMA OrderedFewer ==
  ASSUME NEW h, NEW shift, NEW ahead, NEW later \in SUBSET ahead,
         Ordered(h, shift, ahead)
  PROVE  Ordered(h, shift, later)
BY DEF Ordered

(* At the beginning nothing was read and nothing sent.                     *)
LEMMA TimeInit ==
  ASSUME Init
  PROVE  TimeInv
<1>1. /\ pc = "read" /\ started = FALSE /\ todo = <<>> /\ hevc = Reset(<<>>)
      /\ loop_offset_ms = 0 /\ loop_span_ms = 0
  BY DEF Init, Nothing
<1>2. DOMAIN todo = {}
  BY <1>1
<1>3. Exact
  BY <1>1, <1>2 DEF Exact
<1>4. OrderInv
  BY <1>1, OrderedReset DEF OrderInv
<1>5. RoundInv
  BY <1>1, <1>2 DEF RoundInv
<1> QED
  BY <1>3, <1>4, <1>5 DEF TimeInv

(* The entries of a first read and of a replay are those of the round.     *)
LEMMA RoundRead ==
  ASSUME RoundInv, pc = "payload", mode = "static"
  PROVE  FromAnchor(Stable(Collect(snap))) = Round
BY DEF RoundInv, Round

(* While nothing was overwritten, an entry is read at its own place.       *)
LEMMA ExactStep ==
  ASSUME RingInv, FollowInv, TimeInv, [Next]_vars
  PROVE  Exact'
<1>1. /\ mode' = mode
      /\ mode = "static" => Round' = Round /\ \A e : Got(e)' = Got(e)
  BY SameSetting, FileSame, RoundSame, Zenon
<1> SUFFICES ASSUME gone' = {}
             PROVE  /\ \A e \in DOMAIN todo' : todo'[e] = e
                    /\ mode = "static" /\ started' => \A e \in Round : Got(e) = e
  BY <1>1 DEF Exact
<1>2. CASE FirstRead
  <2>1. /\ todo' = Items(FromAnchor(Stable(Collect(snap)))) /\ pc = "payload"
        /\ Overwritten(todo') \subseteq gone'
    BY <1>2 DEF FirstRead
  <2>2. \A e \in DOMAIN todo' : todo'[e] = e
    BY <2>1 DEF Overwritten
  <2>3. mode = "static" => \A e \in Round : e \in DOMAIN todo' /\ todo'[e] = Got(e)
    BY <2>1, RoundRead DEF Items, TimeInv
  <2> QED
    BY <2>2, <2>3
<1>3. CASE NextRead
  <2>1. Overwritten(todo') \subseteq gone' /\ mode = "live"
    BY <1>3 DEF NextRead
  <2>2. \A e \in DOMAIN todo' : todo'[e] = e
    BY <2>1 DEF Overwritten
  <2> QED
    BY <2>1, <2>2
<1>4. CASE Replay
  <2>1. /\ todo' = Items(FromAnchor(Stable(Collect(snap)))) /\ pc = "payload"
        /\ mode = "static" /\ started /\ gone = {}
    BY <1>4 DEF Replay
  <2>2. \A e \in Round : Got(e) = e
    BY <2>1 DEF TimeInv, Exact
  <2>3. todo' = Items(Round)
    BY <2>1, RoundRead DEF TimeInv
  <2> QED
    BY <2>2, <2>3 DEF Items
<1>5. CASE ReadTable
  <2>1. /\ todo' = todo /\ started' = started /\ pc = "read"
        /\ started => gone = {}
    BY <1>5 DEF ReadTable
  <2>2. DOMAIN todo = {}
    BY <2>1 DEF FollowInv, ReaderType
  <2> QED
    BY <2>1, <2>2 DEF TimeInv, Exact
<1>6. CASE SendEntry
  <2>1. /\ todo' = [x \in DOMAIN todo \ {Min(DOMAIN todo)} |-> todo[x]]
        /\ started' = started /\ gone = {}
    BY <1>6 DEF SendEntry
  <2> QED
    BY <2>1 DEF TimeInv, Exact
<1>7. CASE Fails
  <2>1. todo' = <<>> /\ started' = started /\ gone = {} /\ DOMAIN <<>> = {}
    BY <1>7 DEF Fails, Nothing
  <2> QED
    BY <2>1 DEF TimeInv, Exact
<1>8. CASE UNCHANGED <<todo, started, gone>>
  BY <1>8 DEF TimeInv, Exact
<1> QED
  BY <1>2, <1>3, <1>4, <1>5, <1>6, <1>7, <1>8 DEF Next, vars, readerVars, Writer,
     WritePayload, WriteTable, Repeat, Tabulate, Reader, NoAnchor, SendNal,
     EndOfRange

(* The first round of a client takes longer than its entries.              *)
LEMMA RoundFirst ==
  ASSUME RingInv, FollowInv, TimeInv, FirstRead
  PROVE  RoundInv'
<1> DEFINE stable == Stable(Collect(snap))
           anchor == Anchor(stable)
           newest == Max(stable)
<1>1. /\ pc = "payload" /\ ~started /\ anchor # 0 /\ pc' = "send" /\ started'
      /\ todo' = Items(FromAnchor(stable))
      /\ loop_span_ms' = Ts(newest) - Ts(anchor) + 1
      /\ UNCHANGED <<script, mode, hevc, loop_offset_ms>>
      /\ UNCHANGED <<script, mode, skip, table, offset, payload>>
  BY DEF FirstRead, KeepRing, ringVars
<1>2. Collect(snap) \in SUBSET Entries
  BY <1>1, Collected DEF FollowInv, ReaderType
<1>3. stable \in SUBSET Entries
  BY <1>2, StableOnes DEF RingInv
<1>4. anchor \in stable
  BY <1>1, <1>3, AnchorOne DEF RingInv
<1>5. newest \in stable /\ \A e \in stable : e <= newest
  BY <1>3, <1>4, Newest DEF RingInv
<1> HIDE DEF stable, anchor, newest
<1>6. /\ \A e \in stable : e \in Nat \ {0} /\ Ts(e) \in Nat
      /\ \A e \in stable : \A x \in stable : x <= e => Ts(x) <= Ts(e)
  <2>1. \A e \in Entries : e \in Nat \ {0} /\ Ts(e) \in Nat
    BY Recording, Zenon DEF RingInv
  <2>2. \A e \in Entries : \A x \in Entries : x <= e => x \in 1 .. e
    BY <2>1
  <2> QED
    BY <1>3, <2>1, <2>2, Recording DEF RingInv
<1>7. loop_span_ms' \in Nat
  BY <1>1, <1>4, <1>5, <1>6
<1>8. hevc = Reset(<<>>) /\ loop_offset_ms = 0
  BY <1>1 DEF TimeInv, RoundInv
<1>9. ASSUME mode = "static"
      PROVE  /\ DOMAIN todo' \subseteq Round'
             /\ \A x, y \in Round' : Ts(x)' < Ts(y)' + loop_span_ms'
             /\ \E m \in Round' : NotAfter(hevc, Ts(m)', loop_offset_ms)
  <2>1. Round' = Round /\ \A e : Ts(e)' = Ts(e)
    BY <1>1, RoundSame DEF Ts
  <2>2. Round = FromAnchor(stable)
    BY <1>1, <1>9, RoundRead DEF TimeInv, stable
  <2>3. Round = {e \in stable : e >= anchor}
    BY <2>2 DEF FromAnchor, anchor
  <2>4. anchor \in Round
    BY <1>4, <1>6, <2>3
  <2>5. ASSUME NEW x \in Round, NEW y \in Round
        PROVE  Ts(x) < Ts(y) + loop_span_ms'
    <3>1. x \in stable /\ y \in stable /\ anchor <= y
      BY <2>3
    <3>2. Ts(x) <= Ts(newest) /\ Ts(anchor) <= Ts(y)
      BY <1>4, <1>5, <1>6, <3>1
    <3>3. /\ Ts(x) \in Nat /\ Ts(y) \in Nat
          /\ Ts(newest) \in Nat /\ Ts(anchor) \in Nat
      BY <1>4, <1>5, <1>6, <3>1
    <3> QED
      BY <1>1, <3>2, <3>3
  <2>6. DOMAIN todo' = Round
    BY <1>1, <2>2 DEF Items
  <2> QED
    BY <1>8, <2>1, <2>4, <2>5, <2>6, OrderedReset
<1> QED
  BY <1>1, <1>7, <1>8, <1>9 DEF RoundInv

(* Later rounds take as long, and bring nothing newer.                     *)
LEMMA RoundStep ==
  ASSUME RingInv, FollowInv, HevcInv, TimeInv, [Next]_vars
  PROVE  RoundInv'
<1> DEFINE Bound == \E m \in Round : NotAfter(hevc, Ts(m), loop_offset_ms)
           Longer == \A x, y \in Round : Ts(x) < Ts(y) + loop_span_ms
<1>1. /\ script' = script /\ mode' = mode
      /\ mode = "static" => Round' = Round
      /\ mode = "static" => table' = table
  BY SameSetting, FileSame, RoundSame, Zenon
<1>2. \A e : Ts(e)' = Ts(e)
  BY <1>1 DEF Ts
<1>3. Round \subseteq Entries /\ \A e \in Round : Ts(e) \in Nat
  BY RoundOnes
<1>4. /\ loop_offset_ms \in Nat /\ loop_span_ms \in Nat
      /\ ~started => hevc = Reset(<<>>) /\ loop_offset_ms = 0
  BY DEF TimeInv, RoundInv
<1>5. mode = "static" =>
        /\ DOMAIN todo \subseteq Round
        /\ pc = "payload" => snap = table
        /\ started => Longer /\ Bound
  BY DEF TimeInv, RoundInv
<1>6. CASE FirstRead
  BY <1>6, RoundFirst
<1>7. CASE Replay
  <2>1. /\ todo' = Items(FromAnchor(Stable(Collect(snap)))) /\ pc = "payload"
        /\ mode = "static" /\ started /\ started' = started /\ pc' = "send"
        /\ loop_offset_ms' = loop_offset_ms + loop_span_ms
        /\ loop_span_ms' = loop_span_ms /\ hevc' = Reset(hevc.sent)
    BY <1>7 DEF Replay, NextOffset
  <2>2. DOMAIN todo' = Round
    BY <2>1, RoundRead DEF Items, TimeInv
  <2>3. PICK m \in Round : NotAfter(hevc, Ts(m), loop_offset_ms)
    BY <1>5, <2>1
  <2>4. /\ Reset(hevc.sent).sent = hevc.sent /\ Reset(hevc.sent).pending = <<>>
        /\ Reset(hevc.sent).synced = FALSE /\ DOMAIN <<>> = {}
    BY DEF Reset
  <2>5. \A i \in DOMAIN hevc.sent : hevc.sent[i].ts \in Nat
    <3>1. hevc.sent \in Seq([nals : Seq(Nal), ts : Nat])
      BY DEF HevcInv, Hevc
    <3>2. \A i \in DOMAIN hevc.sent : hevc.sent[i] \in [nals : Seq(Nal), ts : Nat]
      BY <3>1, ElementOfSeq, LenProperties
    <3> QED
      BY <3>2
  <2>6. \A i \in DOMAIN hevc.sent : hevc.sent[i].ts <= Ts(m) + loop_offset_ms'
    <3>1. \A i \in DOMAIN hevc.sent : hevc.sent[i].ts <= Ts(m) + loop_offset_ms
      BY <2>3 DEF NotAfter
    <3> QED
      BY <1>3, <1>4, <2>1, <2>5, <3>1
  <2>7. NotAfter(hevc', Ts(m), loop_offset_ms')
    BY <2>1, <2>4, <2>6 DEF NotAfter
  <2>8. loop_offset_ms' \in Nat
    BY <1>4, <2>1
  <2> QED
    BY <1>1, <1>2, <1>4, <1>5, <2>1, <2>2, <2>7, <2>8 DEF RoundInv
<1>8. CASE SendEntry
  <2> DEFINE e == Min(DOMAIN todo)
             r == Pend(hevc, Chunk(todo[e]), Ts(e))
  <2>1. /\ started' = started /\ pc = "send" /\ pc' = pc
        /\ DOMAIN todo' \subseteq DOMAIN todo
        /\ loop_offset_ms' = loop_offset_ms /\ loop_span_ms' = loop_span_ms
        /\ hevc' = hevc \/ hevc' = r
    BY <1>8 DEF SendEntry
  <2>2. started
    BY <2>1 DEF FollowInv, ReaderType
  <2>3. e \in DOMAIN todo /\ Ts(e) \in Nat /\ Chunk(todo[e]) \in Seq(Piece)
    BY <1>8, EntrySent
  <2>4. ASSUME mode = "static"
        PROVE  \E m \in Round : NotAfter(hevc', Ts(m), loop_offset_ms)
    <3>1. PICK m \in Round : NotAfter(hevc, Ts(m), loop_offset_ms)
      BY <1>5, <2>2, <2>4
    <3>2. PICK k \in Round : Ts(m) <= Ts(k) /\ Ts(e) <= Ts(k) /\ Ts(k) \in Nat
      <4>1. e \in Round /\ Ts(m) \in Nat
        BY <1>3, <1>5, <2>3, <2>4
      <4>2. CASE Ts(m) <= Ts(e)
        BY <2>3, <4>1, <4>2
      <4>3. CASE Ts(e) <= Ts(m)
        BY <4>1, <4>3
      <4> QED
        BY <2>3, <4>1, <4>2, <4>3
    <3>3. NotAfter(hevc, Ts(k), loop_offset_ms)
      BY <1>3, <1>4, <3>1, <3>2, LaterStill DEF HevcInv
    <3>4. NotAfter(r, Ts(k), loop_offset_ms)
      BY <1>4, <2>3, <3>2, <3>3, NotAfterPended DEF HevcInv
    <3> HIDE DEF r
    <3> QED
      BY <2>1, <3>3, <3>4
  <2> HIDE DEF e, r
  <2> QED
    BY <1>1, <1>2, <1>4, <1>5, <2>1, <2>2, <2>4 DEF RoundInv
<1>9. CASE SendNal
  <2>1. /\ hevc' = FeedOne(hevc, loop_offset_ms) /\ IsComplete(hevc)
        /\ pc = "send" /\ pc' = pc /\ started' = started /\ todo' = todo
        /\ loop_offset_ms' = loop_offset_ms /\ loop_span_ms' = loop_span_ms
    BY <1>9 DEF SendNal
  <2>2. started
    BY <2>1 DEF FollowInv, ReaderType
  <2>3. ASSUME mode = "static"
        PROVE  \E m \in Round : NotAfter(hevc', Ts(m), loop_offset_ms)
    <3>1. PICK m \in Round : NotAfter(hevc, Ts(m), loop_offset_ms)
      BY <1>5, <2>2, <2>3
    <3>2. NotAfter(hevc', Ts(m), loop_offset_ms)
      BY <1>3, <1>4, <2>1, <3>1, NotAfterFed DEF HevcInv
    <3> QED
      BY <3>2
  <2> QED
    BY <1>1, <1>2, <1>4, <1>5, <2>1, <2>2, <2>3 DEF RoundInv
<1>10. CASE ~(FirstRead \/ Replay \/ SendEntry \/ SendNal)
  <2>1. UNCHANGED <<hevc, started, loop_offset_ms, loop_span_ms>>
    BY <1>10 DEF Next, vars, readerVars, Writer, WritePayload, WriteTable, Repeat,
       Tabulate, Reader, ReadTable, NoAnchor, NextRead, EndOfRange, Fails
  <2>2. mode = "static" =>
          /\ DOMAIN todo' \subseteq DOMAIN todo
          /\ pc' = "payload" => snap' = IF pc = "payload" THEN snap ELSE table
    <3>1. DOMAIN Nothing = {}
      BY DEF Nothing
    <3> QED
      BY <1>10, <3>1 DEF Next, vars, readerVars, Writer, WritePayload, WriteTable,
         Repeat, Tabulate, Reader, ReadTable, NoAnchor, NextRead, EndOfRange, Fails
  <2> QED
    BY <1>1, <1>2, <1>4, <1>5, <2>1, <2>2 DEF RoundInv
<1> QED
  BY <1>6, <1>7, <1>8, <1>9, <1>10

(* A chunk begins one picture at most.                                     *)
LEMMA OnePicture ==
  ASSUME Setting, NEW x \in Entries, NEW e \in Entries,
         NEW i \in DOMAIN Chunk(x), NEW j \in DOMAIN Chunk(e),
         BeginsPicture(Chunk(x)[i]), BeginsPicture(Chunk(e)[j]), Ts(x) = Ts(e)
  PROVE  x = e /\ i = j
<1> DEFINE All(y) == script[y].carried \o script[y].body
<1>1. PICK s \in Setups : script = s.script
  BY DEF Setting
<1>2. /\ Chunk(x) \in Seq(Piece) /\ All(x) \in Seq(Piece)
      /\ Chunk(e) \in Seq(Piece) /\ All(e) \in Seq(Piece)
      /\ \E d \in Nat : Left(All(x), Chunk(x), d)
      /\ \E d \in Nat : Left(All(e), Chunk(e), d)
  BY ChunkOf
<1>3. PICK d \in Nat : Left(All(x), Chunk(x), d)
  BY <1>2
<1>4. PICK f \in Nat : Left(All(e), Chunk(e), f)
  BY <1>2
<1>5. \A k \in DOMAIN All(x), l \in DOMAIN All(e) :
        BeginsPicture(All(x)[k]) /\ BeginsPicture(All(e)[l]) => x = e /\ k = l
  <2> DEFINE Of(u) == s.script[u].carried \o s.script[u].body
  <2>1. x \in DOMAIN s.script /\ e \in DOMAIN s.script
    BY <1>1 DEF Entries
  <2>2. \A k \in DOMAIN Of(x), l \in DOMAIN Of(e) :
          (/\ BeginsPicture(Of(x)[k]) /\ BeginsPicture(Of(e)[l])
           /\ s.script[x].ts = s.script[e].ts) => x = e /\ k = l
    BY <2>1, PictureAssumption, Zenon
  <2>3. Of(x) = All(x) /\ Of(e) = All(e) /\ s.script[x].ts = s.script[e].ts
    BY <1>1 DEF Ts
  <2> HIDE DEF Of, All
  <2> QED
    BY <2>2, <2>3
<1> HIDE DEF All
<1>7. /\ i \in Nat /\ i + d \in DOMAIN All(x) /\ Chunk(x)[i] = All(x)[i + d]
      /\ j \in Nat /\ j + f \in DOMAIN All(e) /\ Chunk(e)[j] = All(e)[j + f]
  <2>1. /\ DOMAIN Chunk(x) = 1 .. Len(Chunk(x)) /\ DOMAIN All(x) = 1 .. Len(All(x))
        /\ DOMAIN Chunk(e) = 1 .. Len(Chunk(e)) /\ DOMAIN All(e) = 1 .. Len(All(e))
    BY <1>2
  <2>2. i + d \in DOMAIN All(x) /\ Chunk(x)[i] = All(x)[i + d]
    BY <1>3, <2>1, Zenon DEF Left
  <2>3. j + f \in DOMAIN All(e) /\ Chunk(e)[j] = All(e)[j + f]
    BY <1>4, <2>1, Zenon DEF Left
  <2> QED
    BY <1>2, <2>1, <2>2, <2>3
<1>8. x = e /\ i + d = j + f
  BY <1>5, <1>7
<1>9. d = f
  <2>1. All(x) = All(e) /\ Chunk(x) = Chunk(e)
    BY <1>8
  <2>2. /\ Len(Chunk(x)) = Len(All(x)) - d /\ d \in 0 .. Len(All(x))
        /\ Len(Chunk(e)) = Len(All(e)) - f /\ f \in 0 .. Len(All(e))
    BY <1>3, <1>4 DEF Left
  <2>3. Len(All(x)) \in Nat
    BY <1>2
  <2> QED
    BY <2>1, <2>2, <2>3
<1> QED
  BY <1>7, <1>8, <1>9

(* Which entries begin pictures is given.                                  *)
LEMMA AheadSame ==
  ASSUME [Next]_vars
  PROVE  /\ mode' = mode /\ Entries' = Entries
         /\ \A e : Ts(e)' = Ts(e) /\ (MayBegin(e)' <=> MayBegin(e))
         /\ TimesDiffer' <=> TimesDiffer
<1>1. script' = script /\ mode' = mode /\ skip' = skip
  BY SameSetting, Zenon
<1>2. Entries' = Entries
  BY <1>1 DEF Entries
<1>3. \A e : Ts(e)' = Ts(e) /\ Chunk(e)' = Chunk(e)
  BY <1>1 DEF Ts, Chunk
<1>4. TimesDiffer' <=> TimesDiffer
  BY <1>1, <1>2, <1>3 DEF TimesDiffer
<1>5. \A e : MayBegin(e)' <=> MayBegin(e)
  BY <1>1, <1>3, <1>4 DEF MayBegin
<1> QED
  BY <1>1, <1>2, <1>3, <1>4, <1>5

(* An entry that is sent may begin a picture only if it was ahead, and     *)
(* those ahead of it are newer.                                            *)
LEMMA OrderSends ==
  ASSUME RingInv, FollowInv, HevcInv, TimeInv, SendEntry,
         gone = {} \/ TimesDiffer
  PROVE  Ordered(hevc', loop_offset_ms, AheadTimes')
<1> DEFINE e == Min(DOMAIN todo)
           c == Chunk(todo[e])
<1>1. /\ e \in DOMAIN todo /\ e \in Entries /\ todo[e] \in Entries
      /\ \A x \in DOMAIN todo : e <= x
      /\ Ts(e) \in Nat /\ c \in Seq(Piece)
  BY EntrySent
<1>2. /\ last_cursor' = e /\ DOMAIN todo' = DOMAIN todo \ {e}
      /\ hevc' = IF script[e].video THEN Pend(hevc, c, Ts(e)) ELSE hevc
  BY DEF SendEntry
<1>3. /\ mode' = mode /\ Entries' = Entries
      /\ \A x : Ts(x)' = Ts(x) /\ (MayBegin(x)' <=> MayBegin(x))
  <2>1. [Next]_vars
    BY DEF Next, Reader
  <2> QED
    BY <2>1, AheadSame
<1>4. /\ \A x \in Entries : x \in Nat \ {0} /\ Ts(x) \in Nat
      /\ \A x \in Entries : \A y \in 1 .. x : Ts(y) <= Ts(x)
      /\ DOMAIN todo \subseteq Entries /\ last_cursor \in Nat
  <2>1. \A x \in Entries : x \in Nat \ {0} /\ Ts(x) \in Nat
    BY Recording, Zenon DEF RingInv
  <2>2. DOMAIN todo \subseteq Entries /\ last_cursor \in Nat
    BY <2>1 DEF RingInv, RingType, FollowInv, ReaderType
  <2> QED
    BY <2>1, <2>2, Recording DEF RingInv
<1>5. mode # "static" => last_cursor < e
  BY <1>1 DEF FollowInv, TodoInv
<1>6. Ordered(hevc, loop_offset_ms, AheadTimes)
  BY DEF TimeInv, OrderInv
<1>7. AheadTimes \in SUBSET Nat
  BY <1>4 DEF AheadTimes, Ahead
<1>8. gone = {} => todo[e] = e
  BY <1>1 DEF TimeInv, Exact
<1> HIDE DEF e
<1>9. ASSUME NEW x \in Ahead' PROVE x \in Ahead /\ MayBegin(x) /\ e < x
  <2>1. CASE mode = "static"
    <3>1. x \in DOMAIN todo /\ x # e /\ MayBegin(x)
      BY <1>2, <1>3, <2>1 DEF Ahead
    <3>2. e <= x /\ x \in Nat /\ e \in Nat
      BY <1>1, <1>4, <3>1
    <3> QED
      BY <2>1, <3>1, <3>2 DEF Ahead
  <2>2. CASE mode # "static"
    <3>1. x \in Entries /\ x > e /\ MayBegin(x)
      BY <1>2, <1>3, <2>2 DEF Ahead
    <3>2. x > last_cursor
      BY <1>1, <1>4, <1>5, <2>2, <3>1
    <3> QED
      BY <2>2, <3>1, <3>2 DEF Ahead
  <2> QED
    BY <2>1, <2>2
<1>10. AheadTimes' \in SUBSET AheadTimes
  BY <1>3, <1>9 DEF AheadTimes
<1>11. CASE ~script[e].video
  BY <1>2, <1>6, <1>10, <1>11, OrderedFewer
<1>12. CASE script[e].video
  <2>1. \A i, j \in DOMAIN c :
          BeginsPicture(c[i]) /\ BeginsPicture(c[j]) => i = j
    BY <1>1, OnePicture DEF RingInv
  <2>2. ASSUME NEW i \in DOMAIN c, BeginsPicture(c[i])
        PROVE  Ts(e) \in AheadTimes /\ \A t \in AheadTimes' : Ts(e) < t
    <3>1. MayBegin(e) /\ (TimesDiffer \/ c = Chunk(e))
      BY <1>8, <1>12, <2>2 DEF MayBegin
    <3>2. e \in Ahead
      BY <1>1, <1>5, <3>1 DEF Ahead
    <3>3. ASSUME NEW x \in Ahead' PROVE Ts(e) < Ts(x)
      <4>1. x \in Entries /\ MayBegin(x) /\ e < x
        BY <1>4, <1>9 DEF Ahead
      <4>2. e \in 1 .. x /\ Ts(e) <= Ts(x) /\ Ts(e) \in Nat /\ Ts(x) \in Nat /\ e # x
        BY <1>1, <1>4, <4>1
      <4>3. CASE TimesDiffer
        BY <1>1, <1>12, <4>1, <4>2, <4>3 DEF TimesDiffer, MayBegin
      <4>4. CASE ~TimesDiffer
        <5>1. PICK j \in DOMAIN Chunk(x) : BeginsPicture(Chunk(x)[j])
          BY <4>1, <4>4 DEF MayBegin
        <5>2. i \in DOMAIN Chunk(e) /\ BeginsPicture(Chunk(e)[i])
          BY <2>2, <3>1, <4>4
        <5>3. Ts(e) # Ts(x)
          BY <1>1, <4>1, <4>2, <5>1, <5>2, OnePicture DEF RingInv
        <5> QED
          BY <4>2, <5>3
      <4> QED
        BY <4>3, <4>4
    <3> QED
      BY <1>3, <3>2, <3>3 DEF AheadTimes
  <2>3. loop_offset_ms \in Nat
    BY DEF TimeInv, RoundInv
  <2> HIDE DEF c
  <2>4. Ordered(Pend(hevc, c, Ts(e)), loop_offset_ms, AheadTimes')
    BY <1>1, <1>6, <1>7, <1>10, <2>1, <2>2, <2>3, OrderedPended DEF HevcInv
  <2> QED
    BY <1>2, <1>12, <2>4
<1> QED
  BY <1>11, <1>12

(* A new round is after all that was sent in the rounds before.            *)
LEMMA OrderReplays ==
  ASSUME RingInv, FollowInv, HevcInv, TimeInv, Replay, gone = {} \/ TimesDiffer
  PROVE  Ordered(hevc', loop_offset_ms', AheadTimes')
<1>1. /\ todo' = Items(FromAnchor(Stable(Collect(snap)))) /\ pc = "payload"
      /\ mode = "static" /\ started /\ mode' = mode
      /\ loop_offset_ms' = loop_offset_ms + loop_span_ms
      /\ hevc' = Reset(hevc.sent) /\ script' = script
  BY DEF Replay, NextOffset, KeepRing
<1>2. DOMAIN todo' = Round
  BY <1>1, RoundRead DEF Items, TimeInv
<1>3. PICK m \in Round : NotAfter(hevc, Ts(m), loop_offset_ms)
  BY <1>1 DEF TimeInv, RoundInv
<1>4. /\ Reset(hevc.sent).sent = hevc.sent /\ Reset(hevc.sent).pending = <<>>
      /\ Reset(hevc.sent).synced = FALSE /\ DOMAIN <<>> = {}
  BY DEF Reset
<1>5. \A i \in DOMAIN hevc.sent : hevc.sent[i].ts \in Nat
  <2>1. hevc.sent \in Seq([nals : Seq(Nal), ts : Nat])
    BY DEF HevcInv, Hevc
  <2>2. \A i \in DOMAIN hevc.sent : hevc.sent[i] \in [nals : Seq(Nal), ts : Nat]
    BY <2>1, ElementOfSeq, LenProperties
  <2> QED
    BY <2>2
<1>6. \A t \in AheadTimes' : t \in Nat /\ Ts(m) < t + loop_span_ms
  <2>1. \A x \in Round : Ts(x) \in Nat /\ Ts(m) < Ts(x) + loop_span_ms
    BY <1>1, RoundOnes DEF TimeInv, RoundInv
  <2>2. \A t \in AheadTimes' : \E x \in Round : t = Ts(x)
    BY <1>1, <1>2 DEF AheadTimes, Ahead, Ts
  <2> QED
    BY <2>1, <2>2
<1>7. ASSUME NEW t \in AheadTimes', NEW i \in DOMAIN hevc.sent
      PROVE  hevc.sent[i].ts < t + loop_offset_ms'
  <2>1. /\ loop_offset_ms \in Nat /\ loop_span_ms \in Nat /\ Ts(m) \in Nat
        /\ hevc.sent[i].ts <= Ts(m) + loop_offset_ms
    BY <1>3, RoundOnes DEF NotAfter, TimeInv, RoundInv
  <2> QED
    BY <1>1, <1>5, <1>6, <2>1
<1>8. \A i, j \in DOMAIN hevc.sent : i < j => hevc.sent[i].ts < hevc.sent[j].ts
  BY DEF TimeInv, OrderInv, Ordered
<1>9. PicturesOf(hevc') = {}
  BY <1>1, <1>4 DEF PicturesOf
<1> QED
  BY <1>1, <1>4, <1>7, <1>8, <1>9 DEF Ordered

(* What is sent is in the order of time, and stays so.                     *)
LEMMA OrderStep ==
  ASSUME RingInv, FollowInv, HevcInv, TimeInv, [Next]_vars
  PROVE  OrderInv'
<1>1. /\ mode' = mode /\ Entries' = Entries
      /\ \A e : Ts(e)' = Ts(e) /\ (MayBegin(e)' <=> MayBegin(e))
      /\ TimesDiffer' <=> TimesDiffer
  BY AheadSame
<1>2. /\ loop_offset_ms \in Nat
      /\ ~started => hevc = Reset(<<>>)
  BY DEF TimeInv, RoundInv
<1>3. CASE ~started
  <2>1. pc # "send"
    BY <1>3 DEF FollowInv, ReaderType
  <2>2. hevc' = hevc
    BY <1>3, <2>1 DEF Next, vars, readerVars, Writer, WritePayload, WriteTable,
       Repeat, Tabulate, Reader, ReadTable, NoAnchor, FirstRead, NextRead, Replay,
       SendEntry, SendNal, EndOfRange, Fails
  <2> QED
    BY <1>2, <1>3, <2>2, OrderedReset DEF OrderInv
<1>4. CASE started
  <2>1. gone \subseteq gone'
    BY <1>4 DEF Next, vars, readerVars, Writer, WritePayload, WriteTable,
       Repeat, Tabulate, Reader, ReadTable, NoAnchor, FirstRead, NextRead, Replay,
       SendEntry, SendNal, EndOfRange, Fails
  <2> SUFFICES ASSUME gone = {} \/ TimesDiffer
               PROVE  Ordered(hevc', loop_offset_ms', AheadTimes')
    BY <1>1, <2>1 DEF OrderInv
  <2>2. Ordered(hevc, loop_offset_ms, AheadTimes)
    BY DEF TimeInv, OrderInv
  <2>3. CASE SendEntry
    <3>1. loop_offset_ms' = loop_offset_ms
      BY <2>3 DEF SendEntry
    <3> QED
      BY <2>3, <3>1, OrderSends
  <2>4. CASE Replay
    BY <2>4, OrderReplays
  <2>5. ASSUME ~SendEntry, ~Replay
        PROVE  AheadTimes' \in SUBSET AheadTimes
    <3>1. DOMAIN Nothing = {}
      BY DEF Nothing
    <3>2. /\ last_cursor' = last_cursor
          /\ mode = "static" => DOMAIN todo' \subseteq DOMAIN todo
      BY <1>4, <2>5, <3>1 DEF Next, vars, readerVars, Writer, WritePayload,
         WriteTable, Repeat, Tabulate, Reader, ReadTable, NoAnchor, FirstRead,
         NextRead, SendNal, EndOfRange, Fails
    <3>3. Ahead' \subseteq Ahead
      BY <1>1, <3>2 DEF Ahead
    <3> QED
      BY <1>1, <3>3 DEF AheadTimes
  <2>6. CASE SendNal
    <3>1. /\ hevc' = FeedOne(hevc, loop_offset_ms) /\ IsComplete(hevc)
          /\ loop_offset_ms' = loop_offset_ms
      BY <2>6 DEF SendNal
    <3>2. ~SendEntry /\ ~Replay
      BY <2>6 DEF SendNal, SendEntry, Replay
    <3>3. AheadTimes \in SUBSET Nat
      <4>1. \A e \in Entries : Ts(e) \in Nat
        BY Recording DEF RingInv
      <4>2. Ahead \subseteq Entries
        BY DEF Ahead, RingInv, RingType, FollowInv, ReaderType
      <4> QED
        BY <4>1, <4>2 DEF AheadTimes
    <3>4. Ordered(hevc', loop_offset_ms, AheadTimes)
      BY <1>2, <2>2, <3>1, <3>3, OrderedFed DEF HevcInv
    <3> QED
      BY <2>5, <3>1, <3>2, <3>4, OrderedFewer
  <2>7. CASE ~(SendEntry \/ Replay \/ SendNal)
    <3>1. hevc' = hevc /\ loop_offset_ms' = loop_offset_ms
      BY <2>7 DEF Next, vars, readerVars, Writer, WritePayload, WriteTable,
         Repeat, Tabulate, Reader, ReadTable, NoAnchor, FirstRead, NextRead,
         EndOfRange, Fails
    <3> QED
      BY <2>2, <2>5, <2>7, <3>1, OrderedFewer
  <2> QED
    BY <2>3, <2>4, <2>6, <2>7
<1> QED
  BY <1>3, <1>4

-----------------------------------------------------------------------------
(* What a client is sent *)

Inv == RingInv /\ FollowInv /\ HevcInv /\ TimeInv

(* The inductive invariant: ring, reader, assembler and times.             *)
THEOREM InvHolds == Spec => []Inv
<1>1. Init => Inv
  BY RingInit, FollowInit, HevcInit, TimeInit, Zenon DEF Inv
<1>2. Inv /\ [Next]_vars => Inv'
  <2> SUFFICES ASSUME RingInv, FollowInv, HevcInv, TimeInv, [Next]_vars
               PROVE  RingInv' /\ FollowInv' /\ HevcInv' /\ TimeInv'
    BY DEF Inv
  <2>1. RingInv' /\ FollowInv'
    BY RingStep, FollowStep
  <2>2. HevcInv'
    BY HevcStep DEF TimeInv, RoundInv
  <2>3. TimeInv'
    BY ExactStep, RoundStep, OrderStep DEF TimeInv
  <2> QED
    BY <2>1, <2>2, <2>3
<1> QED
  BY <1>1, <1>2, PTL DEF Spec

(* KeyFirst for any recording and rings of any size: the first unit is a   *)
(* key frame with its parameter sets, whatever is overwritten.             *)
THEOREM FirstIsKey == Spec => []KeyFirst
<1>1. Inv => KeyFirst
  <2> SUFFICES ASSUME Inv, hevc.sent # <<>>
               PROVE  Parameters \cup {"idr"} \subseteq
                        {KindOf(nal) : nal \in ToSet(hevc.sent[1].nals)}
    BY DEF KeyFirst
  <2>1. IsKey(hevc.sent[1].nals)
    BY DEF Inv, HevcInv, Keyed
  <2> QED
    BY <2>1 DEF IsKey, ToSet
<1> QED
  BY <1>1, InvHolds, PTL

(* TimesRise for any recording and rings of any size.                      *)
THEOREM TimesAscend == Spec => []TimesRise
<1>1. Inv => TimesRise
  <2> SUFFICES ASSUME Inv, gone = {} \/ TimesDiffer, NEW i \in 2 .. Len(hevc.sent)
               PROVE  hevc.sent[i - 1].ts < hevc.sent[i].ts
    BY DEF TimesRise
  <2>1. hevc.sent \in Seq([nals : Seq(Nal), ts : Nat])
    BY DEF Inv, HevcInv, Hevc
  <2>2. i - 1 \in DOMAIN hevc.sent /\ i \in DOMAIN hevc.sent /\ i - 1 < i
    BY <2>1
  <2> QED
    BY <2>2 DEF Inv, TimeInv, OrderInv, Ordered
<1> QED
  BY <1>1, InvHolds, PTL

-----------------------------------------------------------------------------
(* The inductive invariant: access units *)

PiecesIn(entries) ==
  UNION {ToSet(Chunk(x)) : x \in {e \in entries : script[e].video}}

(* What a round that began at entry a has had, and can have.               *)
Had(a)   == {x \in a .. last_cursor : x \notin DOMAIN todo}
Fed(a)   == PiecesIn(Had(a))
Reach(a) == PiecesIn({x \in Entries : a <= x})

Waiting(h) == {h.pending[i].piece : i \in DOMAIN h.pending}

IsVps(p) == IsStart(p) /\ p.kind = "vps"

(* A round has every entry from its first one on.                          *)
RangeInv(a) ==
  /\ a \in Entries
  /\ a <= last_cursor \/ DOMAIN todo # {}
  /\ \A e \in DOMAIN todo :
       /\ a <= e
       /\ \A x \in a .. e - 1 : x \in DOMAIN todo \/ x <= last_cursor
       /\ \A x \in a .. last_cursor : x \in DOMAIN todo \/ x < e
  /\ mode = "static" => a = Anchor(Stable(Collect(table)))

(* The file of a replay has every entry from its oldest one on.            *)
FileInv ==
  mode = "static" =>
    /\ last_cursor \in Collect(table) \cup {0}
    /\ \A y, e \in Collect(table) : \A x \in y .. e : x \in Collect(table)

(* Pieces that wait come behind those that do not, and in order.           *)
WaitingInv(h, fed) ==
  /\ Waiting(h) \subseteq fed
  /\ \A i, j \in DOMAIN h.pending :
       i < j => Precedes(h.pending[i].piece, h.pending[j].piece)
  /\ \A p \in fed \ Waiting(h), q \in Waiting(h) : Precedes(p, q)
  /\ h.pending = <<>> \/ ~IsStart(h.pending[1].piece)
       => ~h.synced /\ h.prefix = <<>> /\ fed = Waiting(h)

Uniform(nal) ==
  IsStart(nal[1]) /\ \A i \in DOMAIN nal : nal[i].kind = nal[1].kind

AuOf(nals) == nals[1][1].au

(* Before the first key frame: the parameter sets since the last VPS.      *)
SearchInv(h, done) ==
  /\ mode # "static" => h.sent = <<>>
  /\ \A m \in DOMAIN h.prefix :
       /\ Uniform(h.prefix[m])
       /\ KindOf(h.prefix[m]) = "vps" => h.prefix[m][1] \in done
  /\ \A v \in done : IsVps(v) =>
       /\ \A q \in done :
            q.au <= v.au /\ (q.au = v.au => q.kind \notin FirstSlices)
       /\ InOrder(h.prefix)
       /\ PiecesOf(h.prefix) = {q \in done : q.au = v.au /\ q.kind \in Parameters}

(* The unit that is put together is the first of a round,                  *)
IsFirst(h, done, reach) ==
  /\ mode # "static" => h.sent = <<>>
  /\ PiecesOf(h.au) = NoSei({q \in done : q.au = AuOf(h.au)})
  /\ \E v \in done : IsVps(v) /\ v.au = AuOf(h.au)
  /\ \A v \in reach : IsVps(v) => AuOf(h.au) <= v.au

(* or the one that comes next.                                             *)
IsLater(h, done) ==
  /\ PiecesOf(h.au) = {q \in done : q.au = AuOf(h.au)}
  /\ h.sent # <<>> /\ AuOf(h.au) = AuOf(h.sent[Len(h.sent)].nals) + 1

(* After it: what was routed of the last picture, and what comes before    *)
(* the next.                                                               *)
GatherInv(h, done, reach) ==
  /\ InOrder(h.au) /\ InOrder(h.prefix)
  /\ \E p \in done : p.au = AuOf(h.au) /\ BeginsPicture(p)
  /\ PiecesOf(h.prefix) = {q \in done : AuOf(h.au) < q.au}
  /\ \A q \in PiecesOf(h.prefix) :
       q.au = AuOf(h.au) + 1 /\ q.kind \in PrefixKinds
  /\ IsFirst(h, done, reach) \/ IsLater(h, done)

WholeSent(sent) ==
  \A i \in DOMAIN sent :
    LET k == AuOf(sent[i].nals)
    IN  /\ InOrder(sent[i].nals)
        /\ IF i = 1 \/ k <= AuOf(sent[i - 1].nals)
             THEN /\ PiecesOf(sent[i].nals) = NoSei(Source(k))
                  /\ i > 1 => mode = "static"
             ELSE /\ PiecesOf(sent[i].nals) = Source(k)
                  /\ k = AuOf(sent[i - 1].nals) + 1

(* No unit is older than the first one of a round can be.                  *)
SentSince(sent, reach) ==
  \A i \in DOMAIN sent :
    /\ AuOf(sent[i].nals) \in Nat
    /\ \E v \in reach : IsVps(v) /\ v.au <= AuOf(sent[i].nals)

UnitInv(h, fed, reach) ==
  /\ WaitingInv(h, fed)
  /\ SentSince(h.sent, reach)
  /\ ~h.synced => SearchInv(h, fed \ Waiting(h))
  /\ h.synced => GatherInv(h, fed \ Waiting(h), reach)

WholeInv ==
  gone = {} =>
    /\ WholeSent(hevc.sent)
    /\ started /\ pc # "closed" =>
         \E a \in Entries : RangeInv(a) /\ UnitInv(hevc, Fed(a), Reach(a))

-----------------------------------------------------------------------------
(* Pieces of NAL units *)

(* Pieces of a sequence of NAL units are those of its members.             *)
LEMMA PieceOf ==
  ASSUME NEW nals, NEW m \in DOMAIN nals, NEW i \in DOMAIN nals[m]
  PROVE  nals[m][i] \in PiecesOf(nals)
<1>1. nals[m] \in ToSet(nals) /\ nals[m][i] \in ToSet(nals[m])
  BY DEF ToSet
<1> QED
  BY <1>1 DEF PiecesOf

(* There are none in no NAL unit.                                          *)
LEMMA NoPieces == PiecesOf(<<>>) = {} /\ InOrder(<<>>)
<1>1. DOMAIN <<>> = {}
  OBVIOUS
<1>2. ToSet(<<>>) = {}
  BY <1>1, Zenon DEF ToSet
<1> QED
  BY <1>1, <1>2, Zenon DEF PiecesOf, InOrder

Ascending(nal) == \A i, j \in DOMAIN nal : i < j => Precedes(nal[i], nal[j])

(* One NAL unit more, with pieces that come behind.                        *)
LEMMA PiecesAppend ==
  ASSUME NEW nals \in Seq(Nal), NEW nal \in Nal
  PROVE  /\ PiecesOf(Append(nals, nal)) = PiecesOf(nals) \cup ToSet(nal)
         /\ InOrder(nals) /\ Ascending(nal)
              /\ (\A p \in PiecesOf(nals), q \in ToSet(nal) : Precedes(p, q))
            => InOrder(Append(nals, nal))
<1> DEFINE all == Append(nals, nal)
           n   == Len(nals)
<1>1. /\ n \in Nat /\ DOMAIN nals = 1 .. n /\ DOMAIN all = 1 .. n + 1
      /\ \A m \in 1 .. n : all[m] = nals[m]
      /\ all[n + 1] = nal
  BY AppendProperties, LenProperties
<1> HIDE DEF all, n
<1>2. DOMAIN all = DOMAIN nals \cup {n + 1} /\ \A m \in DOMAIN nals : m < n + 1
  BY <1>1
<1>3. ToSet(all) = ToSet(nals) \cup {nal}
  BY <1>1, <1>2 DEF ToSet
<1>4. PiecesOf(all) = PiecesOf(nals) \cup ToSet(nal)
  BY <1>3 DEF PiecesOf
<1>5. ASSUME InOrder(nals), Ascending(nal),
             \A p \in PiecesOf(nals), q \in ToSet(nal) : Precedes(p, q)
      PROVE  InOrder(all)
  <2> SUFFICES ASSUME NEW k \in DOMAIN all, NEW m \in DOMAIN all,
                      NEW i \in DOMAIN all[k], NEW j \in DOMAIN all[m],
                      k < m \/ (k = m /\ i < j)
               PROVE  Precedes(all[k][i], all[m][j])
    BY DEF InOrder
  <2>1. CASE k \in DOMAIN nals /\ m \in DOMAIN nals
    <3>1. all[k] = nals[k] /\ all[m] = nals[m]
      BY <1>1, <2>1
    <3> QED
      BY <1>5, <2>1, <3>1 DEF InOrder
  <2>2. CASE k \in DOMAIN nals /\ m = n + 1
    <3>1. all[k] = nals[k] /\ all[m] = nal
      BY <1>1, <2>2
    <3>2. nals[k][i] \in PiecesOf(nals)
      BY <2>2, <3>1, PieceOf
    <3>3. nal[j] \in ToSet(nal)
      BY <3>1 DEF ToSet
    <3> QED
      BY <1>5, <3>1, <3>2, <3>3
  <2>3. CASE k = n + 1 /\ m = n + 1
    <3>1. all[k] = nal /\ k = m /\ i < j
      BY <1>1, <2>3
    <3> QED
      BY <1>5, <3>1 DEF Ascending
  <2>4. k = n + 1 /\ m # k => m \in DOMAIN nals /\ m < k
    BY <1>2
  <2> QED
    BY <1>1, <1>2, <2>1, <2>2, <2>3, <2>4
<1> QED
  BY <1>4, <1>5 DEF all

(* A NAL unit by itself.                                                   *)
LEMMA PiecesOne ==
  ASSUME NEW nal \in Nal, Ascending(nal)
  PROVE  PiecesOf(<<nal>>) = ToSet(nal) /\ InOrder(<<nal>>)
<1>1. <<>> \in Seq(Nal) /\ Append(<<>>, nal) = <<nal>>
  OBVIOUS
<1>2. /\ PiecesOf(Append(<<>>, nal)) = PiecesOf(<<>>) \cup ToSet(nal)
      /\ InOrder(<<>>) /\ Ascending(nal)
           /\ (\A p \in PiecesOf(<<>>), q \in ToSet(nal) : Precedes(p, q))
         => InOrder(Append(<<>>, nal))
  BY <1>1, PiecesAppend, Zenon
<1>3. InOrder(Append(<<>>, nal)) /\ PiecesOf(Append(<<>>, nal)) = ToSet(nal)
  BY <1>2, NoPieces, Zenon
<1> QED
  BY <1>1, <1>3, Zenon

(* The first piece of NAL units is of the access unit they are of.         *)
LEMMA FirstPiece ==
  ASSUME NEW nals \in Seq(Nal), nals # <<>>
  PROVE  nals[1][1] \in PiecesOf(nals) /\ nals[1] \in Nal
<1>1. Len(nals) \in Nat /\ 1 \in 1 .. Len(nals)
  OBVIOUS
<1>2. 1 \in DOMAIN nals /\ nals[1] \in Nal
  BY <1>1
<1>3. 1 \in DOMAIN nals[1]
  BY <1>2 DEF Nal
<1> QED
  BY <1>2, <1>3, PieceOf

-----------------------------------------------------------------------------
(* The bitstream *)

Bits(all) ==
  /\ all \subseteq Piece /\ IsBitstream(all)
  /\ \A p, q \in all : p = q \/ Precedes(p, q) \/ Precedes(q, p)

(* The NAL unit to be routed next comes behind those that were, and there  *)
(* is nothing in between.                                                  *)
NextNal(nal, done, reach, all) ==
  /\ nal \in Nal /\ Uniform(nal) /\ Ascending(nal)
  /\ \A i \in DOMAIN nal : nal[i].au = nal[1].au
  /\ ToSet(nal) \subseteq reach /\ done \subseteq reach /\ reach \subseteq all
  /\ \A p \in done, q \in ToSet(nal) : Precedes(p, q)
  /\ \A p \in all : Precedes(p, nal[1]) =>
       p \in done \/ \A q \in reach : Precedes(p, q)

(* Its first piece is a start code.                                        *)
LEMMA NalStart ==
  ASSUME NEW all, NEW reach, NEW done, NEW nal, Bits(all),
         NextNal(nal, done, reach, all)
  PROVE  /\ nal[1] \in ToSet(nal) /\ nal[1] \in reach /\ nal[1] \in all
         /\ IsStart(nal[1]) /\ KindOf(nal) = nal[1].kind
         /\ \A q \in ToSet(nal) : q.au = nal[1].au /\ q.kind = nal[1].kind
         /\ ToSet(nal) \subseteq all /\ done \subseteq all /\ all \subseteq Piece
         /\ ToSet(nal) \subseteq reach /\ done \subseteq reach
         /\ reach \subseteq all
<1>1. 1 \in DOMAIN nal
  BY DEF NextNal, Nal
<1>2. nal[1] \in ToSet(nal)
  BY <1>1 DEF ToSet
<1>3. \A q \in ToSet(nal) : q.au = nal[1].au /\ q.kind = nal[1].kind
  BY DEF ToSet, NextNal, Uniform
<1> QED
  BY <1>2, <1>3 DEF NextNal, Uniform, KindOf, Bits

(* What was routed is of the same access unit or an earlier one.           *)
LEMMA Earlier ==
  ASSUME NEW all, NEW reach, NEW done, NEW nal, Bits(all),
         NextNal(nal, done, reach, all), NEW p \in done
  PROVE  /\ p.au \in Nat /\ nal[1].au \in Nat /\ p.au <= nal[1].au
         /\ p.au = nal[1].au => p.nal < nal[1].nal
         /\ p.nal \in Nat /\ nal[1].nal \in Nat
<1>1. p \in Piece /\ nal[1] \in Piece /\ IsStart(nal[1])
  BY NalStart
<1>2. Precedes(p, nal[1])
  <2>1. nal[1] \in ToSet(nal)
    BY NalStart
  <2> QED
    BY <2>1 DEF NextNal
<1>3. /\ p.au \in Nat /\ p.nal \in Nat /\ p.part \in Nat \ {0}
      /\ nal[1].au \in Nat /\ nal[1].nal \in Nat /\ nal[1].part = 1
  BY <1>1 DEF Piece, IsStart
<1> QED
  BY <1>2, <1>3 DEF Precedes

(* A picture before it was routed, unless it comes before all of a round.  *)
LEMMA PictureDone ==
  ASSUME NEW all, NEW reach, NEW done, NEW nal, Bits(all),
         NextNal(nal, done, reach, all), NEW p \in done, NEW k \in Nat,
         p.au <= k, k < nal[1].au, p.au = k => p.kind \in PrefixKinds
  PROVE  \E f \in done : f.au = k /\ BeginsPicture(f)
<1>1. p \in all /\ nal[1] \in all /\ p \in reach /\ all \subseteq Piece
  BY NalStart
<1>2. HasPicture(all, k)
  <2>1. p.au \in Nat /\ nal[1].au \in Nat /\ p.au < nal[1].au
    BY Earlier
  <2>2. k = p.au \/ k \in p.au + 1 .. nal[1].au - 1
    BY <2>1
  <2> QED
    BY <1>1, <2>1, <2>2 DEF Bits, IsBitstream
<1>3. PICK f \in all : f.au = k /\ BeginsPicture(f)
  BY <1>2 DEF HasPicture
<1>4. Precedes(f, nal[1])
  BY <1>3 DEF Precedes
<1>5. CASE \A q \in reach : Precedes(f, q)
  <2>1. Precedes(f, p) /\ f \in Piece /\ p \in Piece
    BY <1>1, <1>5
  <2>2. p.au = k
    BY <1>3, <2>1 DEF Precedes, Piece
  <2>3. p.nal < f.nal
    <3>1. f.kind \notin PrefixKinds
      BY <1>3 DEF BeginsPicture, FirstSlices, PrefixKinds, Parameters
    <3> QED
      BY <1>1, <1>3, <2>2, <3>1 DEF Bits, IsBitstream
  <2> QED
    BY <1>3, <2>1, <2>2, <2>3 DEF Precedes, Piece
<1> QED
  BY <1>3, <1>4, <1>5 DEF NextNal

(* A slice that does not begin a picture follows one that does.            *)
LEMMA PictureBefore ==
  ASSUME NEW all, NEW reach, NEW done, NEW nal, Bits(all),
         NextNal(nal, done, reach, all), NEW p \in done, p.au < nal[1].au,
         KindOf(nal) \notin PrefixKinds \cup FirstSlices
  PROVE  \E f \in done : f.au = nal[1].au /\ BeginsPicture(f)
<1>1. /\ p \in all /\ nal[1] \in all /\ p \in reach /\ all \subseteq Piece
      /\ nal[1].kind \notin PrefixKinds \cup FirstSlices
  BY NalStart
<1>2. PICK f \in all : f.au = nal[1].au /\ BeginsPicture(f)
  BY <1>1 DEF Bits, IsBitstream, HasPicture
<1>3. f.kind \in FirstSlices /\ f.part = 1 /\ nal[1].part = 1
  BY <1>2, NalStart DEF BeginsPicture, IsStart
<1>4. f \in Piece /\ nal[1] \in Piece /\ p \in Piece
  BY <1>1
<1>5. f.nal <= nal[1].nal
  BY <1>1, <1>2, <1>3 DEF Bits, IsBitstream
<1>6. Precedes(f, nal[1])
  <2>1. f # nal[1]
    BY <1>1, <1>3
  <2>2. Precedes(f, nal[1]) \/ Precedes(nal[1], f)
    BY <1>1, <2>1 DEF Bits
  <2> QED
    BY <1>2, <1>3, <1>4, <1>5, <2>2 DEF Precedes, Piece
<1>7. ~Precedes(f, p)
  BY <1>2, <1>4 DEF Precedes, Piece
<1> QED
  BY <1>1, <1>2, <1>6, <1>7 DEF NextNal

-----------------------------------------------------------------------------
(* The assembler after the first key frame *)

(* A first slice, and what comes before it, is of the next access unit,    *)
(* everything else of the one that is put together.                        *)
LEMMA GatherAu ==
  ASSUME NEW all, NEW reach, NEW done, NEW nal, NEW h, Bits(all),
         NextNal(nal, done, reach, all), GatherInv(h, done, reach)
  PROVE  /\ AuOf(h.au) \in Nat
         /\ IF KindOf(nal) \in PrefixKinds \cup FirstSlices
              THEN nal[1].au = AuOf(h.au) + 1 ELSE nal[1].au = AuOf(h.au)
<1> DEFINE k == AuOf(h.au)
<1>1. PICK f \in done : f.au = k /\ BeginsPicture(f)
  BY DEF GatherInv
<1>2. /\ k \in Nat /\ nal[1].au \in Nat /\ k <= nal[1].au
      /\ k = nal[1].au => f.nal < nal[1].nal
      /\ f.nal \in Nat /\ nal[1].nal \in Nat
  BY <1>1, Earlier
<1>3. f \in all /\ nal[1] \in all /\ KindOf(nal) = nal[1].kind
  BY NalStart
<1>4. f.kind \in FirstSlices /\ f.kind \notin PrefixKinds
  BY <1>1 DEF BeginsPicture, FirstSlices, PrefixKinds, Parameters
<1>5. ASSUME NEW g \in done, BeginsPicture(g), k < g.au
      PROVE  FALSE
  <2>1. g.kind \in PrefixKinds
    BY <1>5 DEF GatherInv
  <2> QED
    BY <1>5, <2>1 DEF BeginsPicture, FirstSlices, PrefixKinds, Parameters
<1> HIDE DEF k
<1>6. nal[1].au <= k + 1
  <2>1. SUFFICES ASSUME k + 1 < nal[1].au PROVE FALSE
    BY <1>2
  <2>2. \E g \in done : g.au = k + 1 /\ BeginsPicture(g)
    <3>1. f.au <= k + 1 /\ f.au # k + 1 /\ k + 1 \in Nat
      BY <1>1, <1>2
    <3> QED
      BY <2>1, <3>1, PictureDone
  <2> QED
    BY <1>2, <1>5, <2>2
<1>7. CASE KindOf(nal) \in PrefixKinds
  <2>1. k # nal[1].au
    <3>1. k = nal[1].au => nal[1].nal < f.nal
      BY <1>1, <1>3, <1>4, <1>7 DEF Bits, IsBitstream
    <3> QED
      BY <1>2, <3>1
  <2> QED
    BY <1>2, <1>6, <1>7, <2>1 DEF k
<1>8. CASE KindOf(nal) \in FirstSlices
  <2>1. k # nal[1].au
    <3>1. nal[1].kind \notin PrefixKinds
      BY <1>3, <1>8 DEF FirstSlices, PrefixKinds, Parameters
    <3>2. k = nal[1].au => nal[1].nal <= f.nal
      BY <1>1, <1>3, <1>4, <1>8, <3>1 DEF Bits, IsBitstream
    <3> QED
      BY <1>2, <3>2
  <2> QED
    BY <1>2, <1>6, <1>8, <2>1 DEF k
<1>9. CASE KindOf(nal) \notin PrefixKinds \cup FirstSlices
  <2>1. ~(k < nal[1].au)
    <3>1. k < nal[1].au => \E g \in done : g.au = nal[1].au /\ BeginsPicture(g)
      BY <1>1, <1>9, PictureBefore
    <3> QED
      BY <1>5, <3>1
  <2> QED
    BY <1>2, <1>9, <2>1 DEF k
<1> QED
  BY <1>7, <1>8, <1>9

(* When the next picture begins, the unit is whole.                        *)
LEMMA UnitWhole ==
  ASSUME NEW all, NEW reach, NEW done, NEW nal, NEW h \in Hevc, Bits(all),
         NextNal(nal, done, reach, all), GatherInv(h, done, reach),
         all = Stream(script, skip), SentSince(h.sent, reach),
         KindOf(nal) \in FirstSlices
  PROVE  /\ IsFirst(h, done, reach) => PiecesOf(h.au) = NoSei(Source(AuOf(h.au)))
         /\ IsLater(h, done) => PiecesOf(h.au) = Source(AuOf(h.au))
<1> DEFINE k == AuOf(h.au)
<1>1. k \in Nat /\ nal[1].au = k + 1
  BY GatherAu
<1>2. /\ Source(k) = {p \in all : p.au = k} /\ done \subseteq all
      /\ all \subseteq Piece /\ reach \subseteq all
  BY NalStart DEF Source
<1>3. ASSUME NEW p \in all, p.au = k
      PROVE  p \in done \/ \A q \in reach : Precedes(p, q)
  <2>1. Precedes(p, nal[1])
    BY <1>1, <1>3 DEF Precedes
  <2> QED
    BY <2>1 DEF NextNal
<1>4. ASSUME IsFirst(h, done, reach), NEW p \in all, p.au = k, p.kind # "sei"
      PROVE  p \in done
  <2>1. PICK v \in done : IsVps(v) /\ v.au = k
    BY <1>4 DEF IsFirst
  <2>2. v \in all /\ v \in reach /\ v \in Piece /\ p \in Piece
    BY <1>2, <2>1, NalStart
  <2>3. v.nal <= p.nal
    <3>1. CASE p.kind \in Parameters
      BY <1>4, <2>1, <2>2, <3>1 DEF Bits, IsBitstream, IsVps
    <3>2. CASE p.kind \notin Parameters
      <4>1. p.kind \notin PrefixKinds /\ v.kind \in PrefixKinds
        BY <1>4, <2>1, <3>2 DEF IsVps, PrefixKinds, Parameters
      <4>2. v.nal < p.nal
        BY <1>4, <2>1, <2>2, <4>1 DEF Bits, IsBitstream
      <4> QED
        BY <2>2, <4>2 DEF Piece
    <3> QED
      BY <3>1, <3>2
  <2>4. ~Precedes(p, v)
    BY <1>4, <2>1, <2>2, <2>3 DEF Precedes, Piece, IsVps, IsStart
  <2> QED
    BY <1>3, <1>4, <2>2, <2>4
<1>5. ASSUME IsLater(h, done), NEW p \in all, p.au = k
      PROVE  p \in done
  <2>1. Len(h.sent) \in DOMAIN h.sent /\ k = AuOf(h.sent[Len(h.sent)].nals) + 1
    <3>1. h.sent \in Seq([nals : Seq(Nal), ts : Nat]) /\ h.sent # <<>>
      BY <1>5 DEF Hevc, IsLater
    <3> QED
      BY <1>5, <3>1 DEF IsLater
  <2>2. PICK v \in reach : v.au <= AuOf(h.sent[Len(h.sent)].nals)
    BY <2>1 DEF SentSince
  <2>3. v \in Piece /\ p \in Piece
    BY <1>2
  <2> DEFINE o == AuOf(h.sent[Len(h.sent)].nals)
  <2>4. k = o + 1 /\ v.au <= o
    BY <2>1, <2>2
  <2>5. o \in Nat
    BY <2>1 DEF SentSince
  <2> HIDE DEF o
  <2>6. ~Precedes(p, v)
    BY <1>1, <1>5, <2>3, <2>4, <2>5 DEF Precedes, Piece
  <2> QED
    BY <1>3, <1>5, <2>2, <2>6
<1>6. IsFirst(h, done, reach) => PiecesOf(h.au) = NoSei(Source(k))
  BY <1>2, <1>4 DEF IsFirst, NoSei
<1>7. IsLater(h, done) => PiecesOf(h.au) = Source(k)
  BY <1>2, <1>5 DEF IsLater
<1> QED
  BY <1>6, <1>7

(* What is appended comes last.                                            *)
LEMMA Appended ==
  ASSUME NEW S, NEW s \in Seq(S), NEW x \in S
  PROVE  /\ Append(s, x) \in Seq(S) /\ Append(s, x) # <<>>
         /\ Append(s, x)[Len(Append(s, x))] = x
<1>1. /\ Append(s, x) \in Seq(S) /\ Len(Append(s, x)) = Len(s) + 1
      /\ Append(s, x)[Len(s) + 1] = x /\ Len(s) \in Nat
  BY AppendProperties
<1> QED
  BY <1>1

(* A whole unit is sent.                                                   *)
LEMMA SentAppend ==
  ASSUME NEW sent \in Seq(SentUnit), NEW u \in SentUnit, NEW reach,
         WholeSent(sent), SentSince(sent, reach), InOrder(u.nals),
         AuOf(u.nals) \in Nat,
         \E v \in reach : IsVps(v) /\ v.au <= AuOf(u.nals),
         LET k == AuOf(u.nals)
         IN  IF sent = <<>> \/ k <= AuOf(sent[Len(sent)].nals)
               THEN /\ PiecesOf(u.nals) = NoSei(Source(k))
                    /\ sent # <<>> => mode = "static"
               ELSE /\ PiecesOf(u.nals) = Source(k)
                    /\ k = AuOf(sent[Len(sent)].nals) + 1
  PROVE  WholeSent(Append(sent, u)) /\ SentSince(Append(sent, u), reach)
<1> DEFINE r == Append(sent, u)
           n == Len(sent)
<1>1. /\ n \in Nat /\ DOMAIN sent = 1 .. n /\ DOMAIN r = 1 .. n + 1
      /\ \A i \in 1 .. n : r[i] = sent[i]
      /\ r[n + 1] = u
      /\ sent = <<>> <=> n = 0
  BY AppendProperties, LenProperties, EmptySeq
<1> HIDE DEF r, n
<1>2. ASSUME NEW i \in DOMAIN r
      PROVE  \/ i \in DOMAIN sent /\ r[i] = sent[i] /\ (i # 1 => r[i - 1] = sent[i - 1])
             \/ i = n + 1 /\ r[i] = u /\ (i # 1 => r[i - 1] = sent[n])
  <2>1. CASE i \in 1 .. n
    <3>1. i # 1 => i - 1 \in 1 .. n
      BY <1>1, <2>1
    <3> QED
      BY <1>1, <2>1, <3>1
  <2>2. CASE i = n + 1
    <3>1. i - 1 = n /\ (i # 1 => n \in 1 .. n)
      BY <1>1, <2>2
    <3> QED
      BY <1>1, <2>2, <3>1
  <2> QED
    BY <1>1, <2>1, <2>2
<1>3. SentSince(r, reach)
  BY <1>2 DEF SentSince
<1>4. ASSUME NEW i \in DOMAIN r
      PROVE  LET k == AuOf(r[i].nals)
             IN  /\ InOrder(r[i].nals)
                 /\ IF i = 1 \/ k <= AuOf(r[i - 1].nals)
                      THEN /\ PiecesOf(r[i].nals) = NoSei(Source(k))
                           /\ i > 1 => mode = "static"
                      ELSE /\ PiecesOf(r[i].nals) = Source(k)
                           /\ k = AuOf(r[i - 1].nals) + 1
  <2>1. CASE i \in DOMAIN sent /\ r[i] = sent[i] /\ (i # 1 => r[i - 1] = sent[i - 1])
    BY <2>1 DEF WholeSent
  <2>2. CASE i = n + 1 /\ r[i] = u /\ (i # 1 => r[i - 1] = sent[n])
    <3>1. /\ i = 1 <=> sent = <<>>
          /\ i > 1 => sent # <<>>
      BY <1>1, <2>2
    <3> QED
      BY <2>2, <3>1 DEF n
  <2> QED
    BY <1>2, <2>1, <2>2
<1>5. WholeSent(r)
  BY <1>4 DEF WholeSent
<1> QED
  BY <1>3, <1>5 DEF r

(* Pieces that are added come behind all that were routed.                 *)
LEMMA AddedNal ==
  ASSUME NEW all, NEW reach, NEW done, NEW nal, Bits(all),
         NextNal(nal, done, reach, all), NEW nals \in Seq(Nal),
         InOrder(nals), PiecesOf(nals) \subseteq done
  PROVE  /\ InOrder(Append(nals, nal)) /\ Append(nals, nal) \in Seq(Nal)
         /\ PiecesOf(Append(nals, nal)) = PiecesOf(nals) \cup ToSet(nal)
         /\ Append(nals, nal) # <<>>
         /\ nals # <<>> => Append(nals, nal)[1] = nals[1]
         /\ nals = <<>> => Append(nals, nal)[1] = nal
<1>1. nal \in Nal /\ Ascending(nal)
  BY DEF NextNal
<1>2. \A p \in PiecesOf(nals), q \in ToSet(nal) : Precedes(p, q)
  BY DEF NextNal
<1>3. /\ InOrder(Append(nals, nal))
      /\ PiecesOf(Append(nals, nal)) = PiecesOf(nals) \cup ToSet(nal)
  BY <1>1, <1>2, PiecesAppend
<1>4. /\ Append(nals, nal) \in Seq(Nal) /\ Append(nals, nal) # <<>>
      /\ nals # <<>> => Append(nals, nal)[1] = nals[1]
      /\ nals = <<>> => Append(nals, nal)[1] = nal
  <2>1. /\ Append(nals, nal) \in Seq(Nal) /\ Append(nals, nal) # <<>>
        /\ Len(nals) \in Nat /\ \A i \in 1 .. Len(nals) : Append(nals, nal)[i] = nals[i]
        /\ Append(nals, nal)[Len(nals) + 1] = nal
    BY <1>1, AppendProperties
  <2>2. nals # <<>> => 1 \in 1 .. Len(nals)
    BY <2>1, EmptySeq
  <2>3. nals = <<>> => Len(nals) + 1 = 1
    BY <2>1, EmptySeq
  <2> QED
    BY <2>1, <2>2, <2>3
<1> QED
  BY <1>3, <1>4

(* The next picture begins, and the last one is sent.                      *)
LEMMA GatherBegins ==
  ASSUME NEW all, NEW reach, NEW done, NEW nal, NEW h \in Hevc, Bits(all),
         NextNal(nal, done, reach, all), all = Stream(script, skip),
         GatherInv(h, done, reach), WholeSent(h.sent), SentSince(h.sent, reach),
         h.au # <<>>, KindOf(nal) \in FirstSlices, NEW r, NEW shift \in Nat,
         r.au = Append(h.prefix, nal), r.prefix = <<>>,
         r.sent = Append(h.sent, [nals |-> h.au, ts |-> h.auTs + shift])
  PROVE  /\ GatherInv(r, done \cup ToSet(nal), reach)
         /\ WholeSent(r.sent) /\ SentSince(r.sent, reach)
<1> DEFINE k == AuOf(h.au)
           u == [nals |-> h.au, ts |-> h.auTs + shift]
<1>1. /\ h.prefix \in Seq(Nal) /\ h.au \in Seq(Nal) /\ h.sent \in Seq(SentUnit)
      /\ u \in SentUnit /\ u.nals = h.au
  BY DEF Hevc, SentUnit
<1>2. k \in Nat /\ nal[1].au = k + 1
  BY GatherAu
<1>3. /\ nal[1] \in ToSet(nal) /\ IsStart(nal[1]) /\ nal[1].kind \in FirstSlices
      /\ \A q \in ToSet(nal) : q.au = k + 1
      /\ done \subseteq reach /\ reach \subseteq Piece
  BY <1>2, NalStart DEF Bits
<1>4. /\ PiecesOf(h.prefix) = {q \in done : k < q.au}
      /\ \A q \in PiecesOf(h.prefix) : q.au = k + 1
      /\ InOrder(h.au) /\ InOrder(h.prefix)
      /\ IsFirst(h, done, reach) \/ IsLater(h, done)
  BY DEF GatherInv
<1>5. /\ InOrder(r.au) /\ PiecesOf(r.au) = PiecesOf(h.prefix) \cup ToSet(nal)
      /\ h.prefix # <<>> => r.au[1] = h.prefix[1]
      /\ h.prefix = <<>> => r.au[1] = nal
  BY <1>1, <1>4, AddedNal
<1>6. AuOf(r.au) = k + 1
  <2>1. CASE h.prefix = <<>>
    BY <1>2, <1>5, <2>1 DEF AuOf
  <2>2. CASE h.prefix # <<>>
    <3>1. h.prefix[1][1] \in PiecesOf(h.prefix)
      BY <1>1, <2>2, FirstPiece
    <3> QED
      BY <1>4, <1>5, <2>2, <3>1 DEF AuOf
  <2> QED
    BY <2>1, <2>2
<1>7. r.sent = Append(h.sent, u)
  OBVIOUS
<1> HIDE DEF u
<1>8. /\ r.sent # <<>> /\ AuOf(r.sent[Len(r.sent)].nals) = k
  <2>1. r.sent # <<>> /\ r.sent[Len(r.sent)] = u
    <3>1. h.sent \in Seq(SentUnit) /\ u \in SentUnit
      BY <1>1
    <3>2. /\ Append(h.sent, u) # <<>>
          /\ Append(h.sent, u)[Len(Append(h.sent, u))] = u
      BY <3>1, Appended, Zenon
    <3> QED
      BY <1>7, <3>2
  <2> QED
    BY <1>1, <2>1
<1>9. /\ IsFirst(h, done, reach) => PiecesOf(h.au) = NoSei(Source(k))
      /\ IsLater(h, done) => PiecesOf(h.au) = Source(k)
  BY UnitWhole
<1> HIDE DEF k
<1>10. \A q \in done : q.au \in Nat
  BY <1>3 DEF Piece
<1>11. GatherInv(r, done \cup ToSet(nal), reach)
  <2> DEFINE more == done \cup ToSet(nal)
  <2>1. PiecesOf(r.au) = {q \in more : q.au = k + 1}
    BY <1>2, <1>3, <1>4, <1>5, <1>10
  <2>2. PiecesOf(r.prefix) = {q \in more : k + 1 < q.au} /\ InOrder(r.prefix)
        /\ PiecesOf(r.prefix) = {}
    <3>1. \A q \in more : q.au \in Nat /\ (q.au = k + 1 \/ q.au <= k)
      BY <1>2, <1>3, <1>4, <1>10
    <3>2. {q \in more : k + 1 < q.au} = {}
      BY <1>2, <3>1
    <3> QED
      BY <3>2, NoPieces, Zenon
  <2>3. \E p \in more : p.au = k + 1 /\ BeginsPicture(p)
    BY <1>2, <1>3 DEF BeginsPicture
  <2>4. IsLater(r, more)
    BY <1>6, <1>8, <2>1 DEF IsLater
  <2> HIDE DEF more
  <2> QED
    BY <1>5, <1>6, <2>1, <2>2, <2>3, <2>4 DEF GatherInv, more
<1>12. WholeSent(r.sent) /\ SentSince(r.sent, reach)
  <2> DEFINE last == AuOf(h.sent[Len(h.sent)].nals)
  <2>1. h.sent # <<>> =>
          last \in Nat /\ \E v \in reach : IsVps(v) /\ v.au <= last
    <3>1. h.sent # <<>> => Len(h.sent) \in DOMAIN h.sent
      BY <1>1
    <3> QED
      BY <3>1 DEF SentSince
  <2> HIDE DEF last
  <2>2. CASE IsFirst(h, done, reach)
    <3>1. /\ \E v \in reach : IsVps(v) /\ v.au <= k
          /\ \A v \in reach : IsVps(v) => k <= v.au
          /\ h.sent # <<>> => mode = "static"
      BY <1>2, <1>3, <2>2 DEF IsFirst, k
    <3>2. h.sent # <<>> => k <= last
      BY <1>2, <1>3, <2>1, <3>1 DEF Piece
    <3>3. /\ PiecesOf(u.nals) = NoSei(Source(AuOf(u.nals)))
          /\ AuOf(u.nals) = k /\ InOrder(u.nals)
      BY <1>1, <1>4, <1>9, <2>2 DEF k
    <3> QED
      BY <1>1, <1>2, <1>7, <3>1, <3>2, <3>3, SentAppend DEF last
  <2>3. CASE IsLater(h, done)
    <3>1. h.sent # <<>> /\ k = last + 1
      BY <2>3 DEF IsLater, last, k
    <3>2. \E v \in reach : IsVps(v) /\ v.au <= k
      BY <1>3, <2>1, <3>1 DEF Piece
    <3>3. ~(k <= last)
      BY <2>1, <3>1
    <3>4. /\ PiecesOf(u.nals) = Source(AuOf(u.nals))
          /\ AuOf(u.nals) = k /\ InOrder(u.nals)
      BY <1>1, <1>4, <1>9, <2>3 DEF k
    <3> QED
      BY <1>1, <1>2, <1>7, <3>1, <3>2, <3>3, <3>4, SentAppend DEF last
  <2> QED
    BY <1>4, <2>2, <2>3
<1> QED
  BY <1>11, <1>12

(* A parameter set or SEI is put aside for the next unit.                  *)
LEMMA GatherPrefix ==
  ASSUME NEW all, NEW reach, NEW done, NEW nal, NEW h \in Hevc, Bits(all),
         NextNal(nal, done, reach, all), GatherInv(h, done, reach),
         KindOf(nal) \in PrefixKinds, NEW r,
         r.au = h.au, r.prefix = Append(h.prefix, nal), r.sent = h.sent
  PROVE  GatherInv(r, done \cup ToSet(nal), reach)
<1> DEFINE k    == AuOf(h.au)
           more == done \cup ToSet(nal)
<1>1. k \in Nat /\ nal[1].au = k + 1 /\ AuOf(r.au) = k
  BY GatherAu
<1>2. /\ \A q \in ToSet(nal) : q.au = k + 1 /\ q.kind \in PrefixKinds
      /\ done \subseteq reach
  BY <1>1, NalStart
<1>3. /\ h.prefix \in Seq(Nal) /\ InOrder(h.prefix) /\ InOrder(h.au)
      /\ PiecesOf(h.prefix) = {q \in done : k < q.au}
      /\ \A q \in PiecesOf(h.prefix) : q.au = k + 1 /\ q.kind \in PrefixKinds
  BY DEF GatherInv, Hevc
<1>4. /\ InOrder(r.prefix)
      /\ PiecesOf(r.prefix) = PiecesOf(h.prefix) \cup ToSet(nal)
  BY <1>3, AddedNal
<1>5. {q \in more : q.au = k} = {q \in done : q.au = k}
  BY <1>1, <1>2
<1>6. {q \in more : k < q.au} = PiecesOf(r.prefix)
  BY <1>1, <1>2, <1>3, <1>4
<1>7. IsFirst(h, done, reach) => IsFirst(r, more, reach)
  BY <1>1, <1>5 DEF IsFirst
<1>8. IsLater(h, done) => IsLater(r, more)
  BY <1>1, <1>5 DEF IsLater
<1>9. \E p \in more : p.au = k /\ BeginsPicture(p)
  BY DEF GatherInv
<1>10. \A q \in PiecesOf(r.prefix) : q.au = k + 1 /\ q.kind \in PrefixKinds
  BY <1>2, <1>3, <1>4
<1>11. IsFirst(h, done, reach) \/ IsLater(h, done)
  BY DEF GatherInv
<1> HIDE DEF k, more
<1> QED
  BY <1>1, <1>3, <1>4, <1>6, <1>7, <1>8, <1>9, <1>10, <1>11
     DEF GatherInv, more

(* Another slice or a suffix is added to the unit.                         *)
LEMMA GatherMore ==
  ASSUME NEW all, NEW reach, NEW done, NEW nal, NEW h \in Hevc, Bits(all),
         NextNal(nal, done, reach, all), GatherInv(h, done, reach),
         KindOf(nal) \notin PrefixKinds \cup FirstSlices, h.au # <<>>, NEW r,
         r.au = Append(h.au, nal), r.prefix = h.prefix, r.sent = h.sent
  PROVE  GatherInv(r, done \cup ToSet(nal), reach)
<1> DEFINE k    == AuOf(h.au)
           more == done \cup ToSet(nal)
<1>1. k \in Nat /\ nal[1].au = k
  BY GatherAu
<1>2. /\ \A q \in ToSet(nal) : q.au = k /\ q.kind # "sei"
      /\ done \subseteq reach
  BY <1>1, NalStart DEF PrefixKinds
<1>3. /\ h.au \in Seq(Nal) /\ InOrder(h.prefix) /\ InOrder(h.au)
      /\ PiecesOf(h.prefix) = {q \in done : k < q.au}
      /\ \A q \in PiecesOf(h.prefix) : q.au = k + 1 /\ q.kind \in PrefixKinds
      /\ IsFirst(h, done, reach) \/ IsLater(h, done)
  BY DEF GatherInv, Hevc
<1>4. PiecesOf(h.au) \subseteq done
  BY <1>3 DEF IsFirst, IsLater, NoSei
<1>5. /\ InOrder(r.au) /\ PiecesOf(r.au) = PiecesOf(h.au) \cup ToSet(nal)
      /\ r.au[1] = h.au[1]
  BY <1>3, <1>4, AddedNal
<1>6. AuOf(r.au) = k
  BY <1>5 DEF AuOf
<1>7. {q \in more : q.au = k} = {q \in done : q.au = k} \cup ToSet(nal)
  BY <1>2
<1>8. {q \in more : k < q.au} = PiecesOf(r.prefix)
  BY <1>1, <1>2, <1>3
<1>9. \E p \in more : p.au = k /\ BeginsPicture(p)
  BY DEF GatherInv
<1> HIDE DEF k, more
<1>10. IsFirst(h, done, reach) => IsFirst(r, more, reach)
  <2>1. SUFFICES ASSUME IsFirst(h, done, reach) PROVE IsFirst(r, more, reach)
    OBVIOUS
  <2>2. PiecesOf(r.au) = NoSei({q \in more : q.au = k})
    BY <1>2, <1>5, <1>7, <2>1 DEF IsFirst, NoSei, k
  <2> QED
    BY <1>6, <2>1, <2>2 DEF IsFirst, k, more
<1>11. IsLater(h, done) => IsLater(r, more)
  BY <1>5, <1>6, <1>7 DEF IsLater, k
<1> QED
  BY <1>3, <1>5, <1>6, <1>8, <1>9, <1>10, <1>11 DEF GatherInv, more

(* Every NAL unit after the first key frame.                               *)
LEMMA GatherRoutes ==
  ASSUME NEW all, NEW reach, NEW done, NEW nal, NEW h \in Hevc, Bits(all),
         NextNal(nal, done, reach, all), all = Stream(script, skip),
         GatherInv(h, done, reach), WholeSent(h.sent), SentSince(h.sent, reach),
         Keyed(h), h.synced, NEW ts \in Nat, NEW shift \in Nat
  PROVE  LET r == Route(h, nal, ts, shift)
         IN  /\ r.synced /\ GatherInv(r, done \cup ToSet(nal), reach)
             /\ WholeSent(r.sent) /\ SentSince(r.sent, reach)
<1> DEFINE r == Route(h, nal, ts, shift)
           u == [nals |-> h.au, ts |-> h.auTs + shift]
<1>1. h = [pending |-> h.pending, prefix |-> h.prefix, au |-> h.au,
           auTs |-> h.auTs, synced |-> h.synced, sent |-> h.sent]
      /\ h.au # <<>>
  BY DEF Hevc, Keyed
<1>2. r = Follow(h, nal, ts, shift)
  BY DEF Route
<1>3. CASE KindOf(nal) \in FirstSlices
  <2>1. r = Begin(Flush(h, shift), nal, ts)
    BY <1>2, <1>3 DEF Follow, FirstSlices, PrefixKinds, Parameters
  <2>2. Flush(h, shift) = [h EXCEPT !.au = <<>>, !.sent = Append(h.sent, u)]
    BY <1>1 DEF Flush
  <2>3. r = [h EXCEPT !.au = Append(h.prefix, nal), !.prefix = <<>>, !.auTs = ts,
                      !.sent = Append(h.sent, u)]
    BY <1>1, <2>1, <2>2 DEF Begin
  <2> HIDE DEF r
  <2>4. /\ r.au = Append(h.prefix, nal) /\ r.prefix = <<>> /\ r.synced
        /\ r.sent = Append(h.sent, u)
    BY <1>1, <2>3
  <2> QED
    BY <1>1, <1>3, <2>4, GatherBegins DEF r
<1>4. CASE KindOf(nal) \in PrefixKinds
  <2>1. KindOf(nal) \notin FirstSlices
    BY <1>4 DEF FirstSlices, PrefixKinds, Parameters
  <2>2. r = [h EXCEPT !.prefix = Append(h.prefix, nal)]
    BY <1>2, <1>4, <2>1 DEF Follow
  <2> HIDE DEF r
  <2>3. /\ r.au = h.au /\ r.prefix = Append(h.prefix, nal) /\ r.synced
        /\ r.sent = h.sent
    BY <1>1, <2>2
  <2> QED
    BY <1>4, <2>3, GatherPrefix DEF r
<1>5. CASE KindOf(nal) \notin PrefixKinds \cup FirstSlices
  <2>1. r = [h EXCEPT !.au = Append(h.au, nal)]
    BY <1>2, <1>5 DEF Follow
  <2> HIDE DEF r
  <2>2. /\ r.au = Append(h.au, nal) /\ r.prefix = h.prefix /\ r.synced
        /\ r.sent = h.sent
    BY <1>1, <2>1
  <2> QED
    BY <1>1, <1>5, <2>2, GatherMore DEF r
<1> QED
  BY <1>3, <1>4, <1>5

-----------------------------------------------------------------------------
(* The assembler before the first key frame *)

(* Until the picture of the last VPS comes, nothing comes of another       *)
(* access unit.                                                            *)
LEMMA SearchAu ==
  ASSUME NEW all, NEW reach, NEW done, NEW nal, NEW h, Bits(all),
         NextNal(nal, done, reach, all), SearchInv(h, done),
         NEW v \in done, IsVps(v)
  PROVE  nal[1].au = v.au /\ KindOf(nal) # "vps" /\ v.nal < nal[1].nal
<1>1. v.kind = "vps" /\ v.kind \in PrefixKinds /\ v.kind \in Parameters
  BY DEF IsVps, PrefixKinds, Parameters
<1>2. /\ v.au \in Nat /\ nal[1].au \in Nat /\ v.au <= nal[1].au
      /\ v.au = nal[1].au => v.nal < nal[1].nal
      /\ v.nal \in Nat /\ nal[1].nal \in Nat
  BY Earlier
<1>3. ~(v.au < nal[1].au)
  <2>1. v.au < nal[1].au => \E f \in done : f.au = v.au /\ BeginsPicture(f)
    BY <1>1, <1>2, PictureDone
  <2> QED
    BY <2>1 DEF SearchInv, BeginsPicture
<1>4. v \in all /\ nal[1] \in all /\ KindOf(nal) = nal[1].kind
  BY NalStart
<1>5. nal[1].au = v.au
  BY <1>2, <1>3
<1>6. KindOf(nal) = "vps" => v.nal = nal[1].nal
  <2>1. SUFFICES ASSUME nal[1].kind = v.kind PROVE v.nal = nal[1].nal
    BY <1>1, <1>4
  <2> QED
    BY <1>1, <1>4, <1>5, <2>1 DEF Bits, IsBitstream
<1> QED
  BY <1>2, <1>5, <1>6

(* A VPS begins the parameter sets of a key frame.                         *)
LEMMA SearchVps ==
  ASSUME NEW all, NEW reach, NEW done, NEW nal, NEW h, Bits(all),
         NextNal(nal, done, reach, all), SearchInv(h, done),
         KindOf(nal) = "vps", NEW r, r.prefix = <<nal>>, r.sent = h.sent
  PROVE  SearchInv(r, done \cup ToSet(nal))
<1> DEFINE more == done \cup ToSet(nal)
<1>1. /\ nal[1] \in ToSet(nal) /\ nal[1] \in all /\ nal[1].kind = "vps"
      /\ \A q \in ToSet(nal) : q.au = nal[1].au /\ q.kind = "vps"
      /\ done \subseteq all
  BY NalStart
<1>2. \A v \in done : ~IsVps(v)
  BY SearchAu
<1>3. \A q \in done : q.au <= nal[1].au /\ (q.au = nal[1].au => q.nal < nal[1].nal)
                      /\ q.nal \in Nat /\ q.au \in Nat
  BY Earlier
<1>4. nal[1].nal \in Nat /\ nal[1].au \in Nat
  BY <1>1 DEF Bits, Piece
<1>5. \A q \in done : q.au = nal[1].au
                        => q.kind \notin FirstSlices /\ q.kind \notin Parameters
  <2>1. SUFFICES ASSUME NEW q \in done, q.au = nal[1].au,
                        q.kind \in FirstSlices \cup Parameters
                 PROVE  FALSE
    BY Zenon
  <2>2. q \in all
    BY <1>1
  <2>3. CASE q.kind \in Parameters
    <3>1. nal[1].nal <= q.nal
      BY <1>1, <2>1, <2>2, <2>3 DEF Bits, IsBitstream
    <3> QED
      BY <1>3, <1>4, <2>1, <3>1
  <2>4. CASE q.kind \in FirstSlices
    <3>1. q.kind \notin PrefixKinds /\ nal[1].kind \in PrefixKinds
      BY <1>1, <2>4 DEF FirstSlices, PrefixKinds, Parameters
    <3>2. nal[1].nal < q.nal
      BY <1>1, <2>1, <2>2, <3>1 DEF Bits, IsBitstream
    <3> QED
      BY <1>3, <1>4, <2>1, <3>2
  <2> QED
    BY <2>1, <2>3, <2>4
<1>6. /\ InOrder(r.prefix) /\ PiecesOf(r.prefix) = ToSet(nal)
      /\ DOMAIN r.prefix = {1} /\ r.prefix[1] = nal
  <2>1. nal \in Nal /\ Ascending(nal)
    BY DEF NextNal
  <2>2. InOrder(<<nal>>) /\ PiecesOf(<<nal>>) = ToSet(nal)
    BY <2>1, PiecesOne, Zenon
  <2> QED
    BY <2>2
<1>7. ASSUME NEW v \in more, IsVps(v)
      PROVE  /\ \A q \in more :
                  q.au <= v.au /\ (q.au = v.au => q.kind \notin FirstSlices)
             /\ PiecesOf(r.prefix) =
                  {q \in more : q.au = v.au /\ q.kind \in Parameters}
  <2>1. v.au = nal[1].au
    BY <1>1, <1>2, <1>7
  <2>2. \A q \in more :
          q.au <= v.au /\ (q.au = v.au => q.kind \notin FirstSlices)
    BY <1>1, <1>3, <1>4, <1>5, <2>1 DEF FirstSlices
  <2>3. PiecesOf(r.prefix) = {q \in more : q.au = v.au /\ q.kind \in Parameters}
    BY <1>1, <1>5, <1>6, <2>1 DEF Parameters
  <2> QED
    BY <2>2, <2>3
<1>8. Uniform(nal) /\ nal[1] \in more
  BY <1>1 DEF NextNal
<1>9. mode # "static" => r.sent = <<>>
  BY DEF SearchInv
<1> HIDE DEF more
<1> QED
  BY <1>6, <1>7, <1>8, <1>9 DEF SearchInv, more

(* The other parameter sets follow.                                        *)
LEMMA SearchSet ==
  ASSUME NEW all, NEW reach, NEW done, NEW nal, NEW h, Bits(all),
         NextNal(nal, done, reach, all), SearchInv(h, done),
         h.prefix \in Seq(Nal), KindOf(nal) \in {"sps", "pps"},
         NEW r, r.prefix = Store(h.prefix, nal), r.sent = h.sent
  PROVE  SearchInv(r, done \cup ToSet(nal))
<1> DEFINE more == done \cup ToSet(nal)
<1>1. /\ nal[1] \in ToSet(nal) /\ nal[1] \in all
      /\ \A q \in ToSet(nal) : q.au = nal[1].au /\ q.kind = KindOf(nal)
      /\ done \subseteq all /\ KindOf(nal) = nal[1].kind
  BY NalStart
<1>2. nal \in Nal /\ Uniform(nal)
  BY DEF NextNal
<1>3. ASSUME NEW m \in DOMAIN r.prefix
      PROVE  r.prefix[m] = nal \/ \E i \in DOMAIN h.prefix : r.prefix[m] = h.prefix[i]
  <2>1. /\ DOMAIN Append(h.prefix, nal) = 1 .. Len(h.prefix) + 1
        /\ \A i \in 1 .. Len(h.prefix) : Append(h.prefix, nal)[i] = h.prefix[i]
        /\ Append(h.prefix, nal)[Len(h.prefix) + 1] = nal
        /\ DOMAIN h.prefix = 1 .. Len(h.prefix) /\ Len(h.prefix) \in Nat
    BY <1>2, AppendProperties, LenProperties
  <2>2. \A i \in DOMAIN Append(h.prefix, nal) :
          Append(h.prefix, nal)[i] = nal \/ i \in DOMAIN h.prefix
    BY <2>1
  <2> QED
    BY <1>3, <2>1, <2>2 DEF Store
<1>4. ASSUME NEW m \in DOMAIN r.prefix
      PROVE  /\ Uniform(r.prefix[m])
             /\ KindOf(r.prefix[m]) = "vps" => r.prefix[m][1] \in more
  BY <1>2, <1>3 DEF SearchInv
<1>5. ASSUME NEW v \in more, IsVps(v)
      PROVE  /\ \A q \in more :
                  q.au <= v.au /\ (q.au = v.au => q.kind \notin FirstSlices)
             /\ InOrder(r.prefix)
             /\ PiecesOf(r.prefix) =
                  {q \in more : q.au = v.au /\ q.kind \in Parameters}
  <2>1. v \in done
    BY <1>1, <1>5 DEF IsVps
  <2>2. nal[1].au = v.au /\ v.au \in Nat
    BY <1>5, <2>1, SearchAu, Earlier
  <2>3. /\ \A q \in done :
             q.au <= v.au /\ (q.au = v.au => q.kind \notin FirstSlices)
        /\ InOrder(h.prefix)
        /\ PiecesOf(h.prefix) =
             {q \in done : q.au = v.au /\ q.kind \in Parameters}
    BY <1>5, <2>1 DEF SearchInv
  <2>4. ASSUME NEW i \in DOMAIN h.prefix, KindOf(h.prefix[i]) = KindOf(nal)
        PROVE  FALSE
    <3>1. h.prefix[i] \in Nal
      BY <2>4
    <3>2. 1 \in DOMAIN h.prefix[i]
      BY <3>1 DEF Nal
    <3>3. h.prefix[i][1] \in PiecesOf(h.prefix)
      BY <3>2, PieceOf
    <3> DEFINE q == h.prefix[i][1]
    <3>4. q \in done /\ q.au = nal[1].au /\ q.kind = nal[1].kind
      BY <1>1, <2>2, <2>3, <2>4, <3>3 DEF KindOf
    <3> HIDE DEF q
    <3>5. q.nal = nal[1].nal
      <4>1. nal[1].kind \in Parameters
        BY <1>1 DEF Parameters
      <4> QED
        BY <1>1, <3>4, <4>1 DEF Bits, IsBitstream
    <3> QED
      BY <3>4, <3>5, Earlier
  <2>5. r.prefix = Append(h.prefix, nal)
    BY <2>4 DEF Store
  <2>6. PiecesOf(h.prefix) \subseteq done
    BY <2>3
  <2>7. InOrder(r.prefix) /\ PiecesOf(r.prefix) = PiecesOf(h.prefix) \cup ToSet(nal)
    BY <2>3, <2>5, <2>6, AddedNal
  <2>8. \A q \in ToSet(nal) : q.au = v.au /\ q.kind \in Parameters
                              /\ q.kind \notin FirstSlices
    BY <1>1, <2>2 DEF Parameters, FirstSlices
  <2> QED
    BY <2>2, <2>3, <2>7, <2>8
<1>6. mode # "static" => r.sent = <<>>
  BY DEF SearchInv
<1> HIDE DEF more
<1> QED
  BY <1>4, <1>5, <1>6 DEF SearchInv, more

(* An IDR picture with all its parameter sets is the first unit of a round *)
LEMMA SearchBegins ==
  ASSUME NEW all, NEW reach, NEW done, NEW nal, NEW h \in Hevc, Bits(all),
         NextNal(nal, done, reach, all), SearchInv(h, done), MayStart(h, nal),
         NEW r, r.prefix = <<>>, r.au = Append(h.prefix, nal), r.sent = h.sent
  PROVE  GatherInv(r, done \cup ToSet(nal), reach)
<1> DEFINE more == done \cup ToSet(nal)
           k    == nal[1].au
<1>1. /\ nal[1] \in ToSet(nal) /\ nal[1] \in all /\ IsStart(nal[1])
      /\ nal[1].kind = "idr" /\ KindOf(nal) = "idr"
      /\ \A q \in ToSet(nal) : q.au = k /\ q.kind = "idr"
      /\ done \subseteq all /\ done \subseteq reach /\ reach \subseteq all
      /\ all \subseteq Piece
  BY NalStart DEF MayStart
<1>2. PICK m \in DOMAIN h.prefix : KindOf(h.prefix[m]) = "vps"
  BY DEF MayStart, Parameters
<1> DEFINE v == h.prefix[m][1]
<1>3. v \in done /\ IsVps(v)
  BY <1>2 DEF SearchInv, IsVps, Uniform, KindOf
<1> HIDE DEF v
<1>4. k = v.au /\ k \in Nat
  BY <1>3, SearchAu, Earlier
<1>5. /\ \A q \in done : q.au <= k /\ (q.au = k => q.kind \notin FirstSlices)
      /\ InOrder(h.prefix) /\ h.prefix \in Seq(Nal)
      /\ PiecesOf(h.prefix) = {q \in done : q.au = k /\ q.kind \in Parameters}
  BY <1>3, <1>4 DEF SearchInv, Hevc
<1>6. h.prefix # <<>>
  BY <1>2
<1>7. /\ InOrder(r.au) /\ PiecesOf(r.au) = PiecesOf(h.prefix) \cup ToSet(nal)
      /\ r.au[1] = h.prefix[1]
  <2>1. PiecesOf(h.prefix) \subseteq done
    BY <1>5
  <2> QED
    BY <1>5, <1>6, <2>1, AddedNal
<1>8. AuOf(r.au) = k
  <2>1. h.prefix[1][1] \in PiecesOf(h.prefix)
    BY <1>5, <1>6, FirstPiece
  <2> QED
    BY <1>5, <1>7, <2>1 DEF AuOf
<1>9. ASSUME NEW q \in done, q.au = k, q.kind # "sei"
      PROVE  q.kind \in Parameters
  <2>1. SUFFICES ASSUME q.kind \notin Parameters PROVE FALSE
    OBVIOUS
  <2>2. q.kind \notin PrefixKinds /\ nal[1].kind \in FirstSlices
    BY <1>1, <1>9, <2>1 DEF PrefixKinds, FirstSlices
  <2>3. q \in all
    BY <1>1
  <2>4. nal[1].nal <= q.nal
    BY <1>1, <1>9, <2>2, <2>3 DEF Bits, IsBitstream
  <2>5. q.nal < nal[1].nal /\ q.nal \in Nat /\ nal[1].nal \in Nat
    BY <1>9, Earlier
  <2> QED
    BY <2>4, <2>5
<1>10. PiecesOf(r.au) = NoSei({q \in more : q.au = k})
  BY <1>1, <1>5, <1>7, <1>9 DEF NoSei, Parameters
<1>11. ASSUME NEW w \in reach, IsVps(w)
       PROVE  k <= w.au
  <2>1. CASE w \in done
    BY <1>3, <1>4, <1>11, <2>1 DEF SearchInv
  <2>2. CASE w \notin done
    <3>1. w \in all /\ w \in Piece /\ nal[1] \in Piece
      BY <1>1
    <3>2. ~Precedes(w, w)
      BY <3>1 DEF Precedes, Piece
    <3>3. ~Precedes(w, nal[1])
      BY <1>11, <2>2, <3>1, <3>2 DEF NextNal
    <3>4. w = nal[1] \/ Precedes(nal[1], w)
      BY <1>1, <3>1, <3>3 DEF Bits
    <3> QED
      BY <3>1, <3>4 DEF Precedes, Piece
  <2> QED
    BY <2>1, <2>2
<1>12. {q \in more : k < q.au} = {}
  <2>1. \A q \in more : q.au <= k /\ q.au \in Nat
    BY <1>1, <1>4, <1>5 DEF Piece
  <2> QED
    BY <1>4, <2>1
<1>13. PiecesOf(r.prefix) = {} /\ InOrder(r.prefix)
  BY NoPieces
<1>14. \E p \in more : p.au = k /\ BeginsPicture(p)
  BY <1>1 DEF BeginsPicture, FirstSlices
<1>15. mode # "static" => r.sent = <<>>
  BY DEF SearchInv
<1>16. \E p \in more : IsVps(p) /\ p.au = k
  BY <1>3, <1>4
<1> HIDE DEF more, k
<1>17. IsFirst(r, more, reach)
  BY <1>8, <1>10, <1>11, <1>15, <1>16 DEF IsFirst
<1> QED
  BY <1>7, <1>8, <1>12, <1>13, <1>14, <1>17 DEF GatherInv, more

(* The picture of a VPS that was routed is that first unit.                *)
LEMMA SearchEnds ==
  ASSUME NEW all, NEW reach, NEW done, NEW nal, NEW h \in Hevc, Bits(all),
         NextNal(nal, done, reach, all), SearchInv(h, done),
         KindOf(nal) \in FirstSlices, NEW v \in done, IsVps(v)
  PROVE  MayStart(h, nal)
<1>1. /\ nal[1] \in all /\ nal[1].kind \in FirstSlices
      /\ KindOf(nal) = nal[1].kind /\ IsStart(nal[1])
      /\ done \subseteq all /\ done \subseteq reach /\ all \subseteq Piece
  BY NalStart
<1>2. nal[1].au = v.au
  BY SearchAu
<1>3. PiecesOf(h.prefix) = {q \in done : q.au = v.au /\ q.kind \in Parameters}
  BY DEF SearchInv
<1>4. v \in all /\ v \in reach /\ v \in Piece /\ nal[1] \in Piece
      /\ v.kind = "vps" /\ v.part = 1 /\ nal[1].part = 1
  BY <1>1 DEF IsVps, IsStart
<1>5. /\ nal[1].kind = "idr"
      /\ \A k \in Parameters : \E q \in all : q.au = v.au /\ q.kind = k
  BY <1>1, <1>2, <1>4 DEF Bits, IsBitstream
<1>6. ASSUME NEW k \in Parameters
      PROVE  \E i \in DOMAIN h.prefix : KindOf(h.prefix[i]) = k
  <2>1. PICK q \in all : q.au = v.au /\ q.kind = k
    BY <1>5
  <2>2. q \in Piece
    BY <1>1
  <2>3. q.nal < nal[1].nal
    <3>1. q.kind \in PrefixKinds /\ nal[1].kind \notin PrefixKinds
      BY <1>1, <2>1 DEF PrefixKinds, Parameters, FirstSlices
    <3> QED
      BY <1>1, <1>2, <2>1, <3>1 DEF Bits, IsBitstream
  <2>4. v.nal <= q.nal
    BY <1>4, <2>1 DEF Bits, IsBitstream
  <2>5. Precedes(q, nal[1])
    BY <1>2, <2>1, <2>3 DEF Precedes
  <2>6. ~Precedes(q, v)
    BY <1>4, <2>1, <2>2, <2>4 DEF Precedes, Piece
  <2>7. q \in done
    BY <1>4, <2>5, <2>6 DEF NextNal
  <2>8. q \in PiecesOf(h.prefix)
    BY <1>3, <2>1, <2>7
  <2>9. PICK i \in DOMAIN h.prefix : \E j \in DOMAIN h.prefix[i] : q = h.prefix[i][j]
    BY <2>8 DEF PiecesOf, ToSet
  <2>10. Uniform(h.prefix[i])
    BY DEF SearchInv
  <2> QED
    BY <2>1, <2>9, <2>10 DEF Uniform, KindOf
<1> QED
  BY <1>1, <1>5, <1>6 DEF MayStart

(* Anything else is dropped.                                               *)
LEMMA SearchDrops ==
  ASSUME NEW all, NEW reach, NEW done, NEW nal, NEW h \in Hevc, Bits(all),
         NextNal(nal, done, reach, all), SearchInv(h, done),
         ~MayStart(h, nal), KindOf(nal) \notin Parameters
  PROVE  SearchInv(h, done \cup ToSet(nal))
<1> DEFINE more == done \cup ToSet(nal)
<1>1. /\ \A q \in ToSet(nal) : q.au = nal[1].au /\ q.kind = KindOf(nal)
      /\ KindOf(nal) = nal[1].kind
  BY NalStart
<1>2. ASSUME NEW v \in more, IsVps(v)
      PROVE  /\ \A q \in more :
                  q.au <= v.au /\ (q.au = v.au => q.kind \notin FirstSlices)
             /\ InOrder(h.prefix)
             /\ PiecesOf(h.prefix) =
                  {q \in more : q.au = v.au /\ q.kind \in Parameters}
  <2>1. v \in done
    BY <1>1, <1>2 DEF IsVps, Parameters
  <2>2. nal[1].au = v.au /\ v.au \in Nat
    BY <1>2, <2>1, SearchAu, Earlier
  <2>3. KindOf(nal) \notin FirstSlices
    BY <1>2, <2>1, SearchEnds
  <2>4. /\ \A q \in done :
             q.au <= v.au /\ (q.au = v.au => q.kind \notin FirstSlices)
        /\ InOrder(h.prefix)
        /\ PiecesOf(h.prefix) =
             {q \in done : q.au = v.au /\ q.kind \in Parameters}
    BY <1>2, <2>1 DEF SearchInv
  <2> QED
    BY <1>1, <2>2, <2>3, <2>4
<1>3. \A m \in DOMAIN h.prefix :
        /\ Uniform(h.prefix[m])
        /\ KindOf(h.prefix[m]) = "vps" => h.prefix[m][1] \in more
  BY DEF SearchInv
<1>4. mode # "static" => h.sent = <<>>
  BY DEF SearchInv
<1> HIDE DEF more
<1> QED
  BY <1>2, <1>3, <1>4 DEF SearchInv, more

(* Every NAL unit before the first key frame, and that one.                *)
LEMMA SearchRoutes ==
  ASSUME NEW all, NEW reach, NEW done, NEW nal, NEW h \in Hevc, Bits(all),
         NextNal(nal, done, reach, all), SearchInv(h, done), ~h.synced,
         NEW ts \in Nat, NEW shift \in Nat
  PROVE  LET r == Route(h, nal, ts, shift)
         IN  /\ r.sent = h.sent /\ r.synced \in BOOLEAN
             /\ r.synced => GatherInv(r, done \cup ToSet(nal), reach)
             /\ ~r.synced => SearchInv(r, done \cup ToSet(nal))
<1> DEFINE r == Route(h, nal, ts, shift)
<1>1. h = [pending |-> h.pending, prefix |-> h.prefix, au |-> h.au,
           auTs |-> h.auTs, synced |-> h.synced, sent |-> h.sent]
      /\ h.prefix \in Seq(Nal)
  BY DEF Hevc
<1>2. r = Bootstrap(h, nal, ts)
  BY DEF Route
<1>3. CASE KindOf(nal) = "vps"
  <2>1. r = [h EXCEPT !.prefix = <<nal>>]
    BY <1>2, <1>3 DEF Bootstrap, MayStart
  <2> HIDE DEF r
  <2>2. r.prefix = <<nal>> /\ r.sent = h.sent /\ r.synced = FALSE
    BY <1>1, <2>1
  <2> QED
    BY <1>3, <2>2, SearchVps DEF r
<1>4. CASE KindOf(nal) \in {"sps", "pps"}
  <2>1. r = [h EXCEPT !.prefix = Store(h.prefix, nal)]
    BY <1>2, <1>4 DEF Bootstrap, MayStart
  <2> HIDE DEF r
  <2>2. r.prefix = Store(h.prefix, nal) /\ r.sent = h.sent /\ r.synced = FALSE
    BY <1>1, <2>1
  <2> QED
    BY <1>1, <1>4, <2>2, SearchSet DEF r
<1>5. CASE MayStart(h, nal)
  <2>1. KindOf(nal) = "idr"
    BY <1>5 DEF MayStart
  <2>2. r = Begin([h EXCEPT !.synced = TRUE], nal, ts)
    BY <1>2, <1>5, <2>1 DEF Bootstrap
  <2>3. r = [h EXCEPT !.synced = TRUE, !.au = Append(h.prefix, nal),
                      !.prefix = <<>>, !.auTs = ts]
    BY <1>1, <2>2 DEF Begin
  <2> HIDE DEF r
  <2>4. /\ r.prefix = <<>> /\ r.au = Append(h.prefix, nal) /\ r.sent = h.sent
        /\ r.synced = TRUE
    BY <1>1, <2>3
  <2> QED
    BY <1>5, <2>4, SearchBegins DEF r
<1>6. CASE ~MayStart(h, nal) /\ KindOf(nal) \notin Parameters
  <2>1. r = h
    BY <1>2, <1>6 DEF Bootstrap, Parameters
  <2> HIDE DEF r
  <2>2. SearchInv(h, done \cup ToSet(nal)) /\ h.synced = FALSE
    BY <1>6, SearchDrops DEF Hevc
  <2> QED
    BY <2>1, <2>2 DEF r
<1> QED
  BY <1>3, <1>4, <1>5, <1>6 DEF Parameters

-----------------------------------------------------------------------------
(* Feeding *)

(* What was fed is a part of the bitstream without gaps.                   *)
Framed(fed, reach, all) ==
  /\ fed \subseteq reach /\ reach \subseteq all
  /\ \A p \in all : \/ p \in fed
                    \/ \A q \in reach : Precedes(p, q)
                    \/ \A q \in fed : Precedes(q, p)

(* From one start code to the next there is one NAL unit.                  *)
LEMMA OneNal ==
  ASSUME NEW all, NEW reach, NEW fed, NEW h \in Hevc, Bits(all),
         Framed(fed, reach, all), WaitingInv(h, fed), NEW n \in DOMAIN h.pending,
         NEW i \in 2 .. n - 1, IsStart(h.pending[1].piece),
         \A j \in 2 .. n - 1 : ~IsStart(h.pending[j].piece)
  PROVE  /\ h.pending[i].piece.au = h.pending[1].piece.au
         /\ h.pending[i].piece.kind = h.pending[1].piece.kind
<1> DEFINE s == h.pending[1].piece
           p == h.pending[i].piece
<1>1. /\ DOMAIN h.pending = 1 .. Len(h.pending) /\ Len(h.pending) \in Nat
  BY DEF Hevc
<1>2. /\ 1 \in DOMAIN h.pending /\ i \in DOMAIN h.pending /\ 1 < i /\ n \in Nat
  BY <1>1
<1>3. /\ s \in Waiting(h) /\ p \in Waiting(h) /\ Precedes(s, p) /\ ~IsStart(p)
      /\ IsStart(s)
  BY <1>2 DEF Waiting, WaitingInv
<1>4. s \in fed /\ p \in fed /\ s \in all /\ p \in all /\ s \in reach
      /\ all \subseteq Piece
  BY <1>3 DEF WaitingInv, Framed, Bits
<1> HIDE DEF s, p
<1>5. PICK b \in all : IsStart(b) /\ b.au = p.au /\ b.nal = p.nal /\ b.kind = p.kind
  BY <1>4 DEF Bits, IsBitstream
<1>6. /\ b \in Piece /\ p \in Piece /\ s \in Piece /\ b.part = 1 /\ s.part = 1
      /\ p.part # 1
  BY <1>3, <1>4, <1>5 DEF IsStart
<1>7. Precedes(b, p) /\ ~Precedes(p, b)
  BY <1>5, <1>6 DEF Precedes, Piece
<1>8. b = s
  <2>1. CASE b \in Waiting(h)
    <3>1. PICK j \in DOMAIN h.pending : b = h.pending[j].piece
      BY <2>1 DEF Waiting
    <3>2. ~(i < j)
      BY <1>2, <1>7, <3>1 DEF WaitingInv, p
    <3>3. j # i
      BY <1>3, <1>5, <3>1 DEF p
    <3>4. j = 1 \/ j \in 2 .. n - 1
      BY <1>1, <1>2, <3>2, <3>3
    <3> QED
      BY <1>5, <3>1, <3>4 DEF s
  <2>2. CASE b \notin Waiting(h)
    <3>1. Precedes(b, s)
      BY <1>3, <1>4, <1>7, <2>2 DEF Framed, WaitingInv
    <3> QED
      BY <1>3, <1>5, <1>6, <3>1 DEF Precedes, Piece
  <2> QED
    BY <2>1, <2>2
<1> QED
  BY <1>5, <1>8 DEF s, p

(* From h to g the NAL unit nal is taken off the pieces that wait.         *)
Takes(h, g, nal, fed, reach, all) ==
  /\ g.prefix = h.prefix /\ g.au = h.au /\ g.synced = h.synced
  /\ g.sent = h.sent
  /\ NextNal(nal, fed \ Waiting(h), reach, all)
  /\ fed \ Waiting(g) = (fed \ Waiting(h)) \cup ToSet(nal)
  /\ \A r : r.pending = g.pending => WaitingInv(r, fed)

(* That NAL unit is the next one, and what is left begins with a start     *)
(* code.                                                                   *)
LEMMA FeedsNext ==
  ASSUME NEW all, NEW reach, NEW fed, NEW h \in Hevc, Bits(all),
         Framed(fed, reach, all), WaitingInv(h, fed), Aligned(h), IsComplete(h),
         NEW shift \in Nat
  PROVE  \E nal \in Nal, g \in Hevc, ts \in Nat :
           /\ FeedOne(h, shift) = Route(g, nal, ts, shift)
           /\ Takes(h, g, nal, fed, reach, all)
<1> DEFINE next == Min(NextStarts(h.pending))
           part == SubSeq(h.pending, 1, next - 1)
           tail == SubSeq(h.pending, next, Len(h.pending))
           nal  == [i \in DOMAIN part |-> part[i].piece]
           g    == [h EXCEPT !.pending = tail]
<1>1. h.pending \in Seq(Pieces) /\ Len(h.pending) \in Nat
      /\ DOMAIN h.pending = 1 .. Len(h.pending)
  BY DEF Hevc, Pieces
<1>2. /\ next \in 2 .. Len(h.pending) /\ IsStart(h.pending[next].piece)
      /\ \A j \in 2 .. next - 1 : ~IsStart(h.pending[j].piece)
  <2>1. /\ NextStarts(h.pending) \in SUBSET (0 .. Len(h.pending))
        /\ NextStarts(h.pending) # {}
    BY <1>1 DEF NextStarts, IsComplete
  <2>2. next \in NextStarts(h.pending) /\ \A j \in NextStarts(h.pending) : next <= j
    BY <1>1, <2>1, MinOf
  <2>3. next \in 2 .. Len(h.pending) /\ IsStart(h.pending[next].piece)
    BY <2>2 DEF NextStarts
  <2>4. ASSUME NEW j \in 2 .. next - 1 PROVE ~IsStart(h.pending[j].piece)
    <3>1. j \in 2 .. Len(h.pending) /\ ~(next <= j)
      BY <1>1, <2>3
    <3> QED
      BY <2>2, <3>1 DEF NextStarts
  <2> QED
    BY <2>3, <2>4
<1>3. FeedOne(h, shift) = Route(g, nal, part[1].ts, shift)
  BY DEF FeedOne
<1> HIDE DEF next
<1>4. /\ part \in Seq(Pieces) /\ Len(part) = next - 1
      /\ DOMAIN part = 1 .. next - 1
      /\ \A i \in 1 .. next - 1 : part[i] = h.pending[i]
  <2>1. 1 \in Int /\ next - 1 \in Int /\ 1 <= next - 1
    BY <1>2
  <2>2. \A i \in 1 .. next - 1 : h.pending[i] \in Pieces
    BY <1>1, <1>2
  <2>3. /\ part \in Seq(Pieces)
        /\ Len(part) = IF 1 <= next - 1 THEN next - 1 - 1 + 1 ELSE 0
        /\ \A i \in 1 .. next - 1 - 1 + 1 : part[i] = h.pending[1 + i - 1]
    BY <2>1, <2>2, SubSeqProperties
  <2>4. next - 1 - 1 + 1 = next - 1 /\ \A i \in 1 .. next - 1 : 1 + i - 1 = i
    BY <2>1
  <2>5. Len(part) = next - 1 /\ DOMAIN part = 1 .. Len(part)
    BY <2>1, <2>3, <2>4
  <2> QED
    BY <2>3, <2>4, <2>5
<1>5. /\ tail \in Seq(Pieces) /\ Left(h.pending, tail, next - 1)
  <2>1. next \in 1 .. Len(h.pending)
    BY <1>1, <1>2
  <2> QED
    BY <1>1, <2>1, LeftOf
<1> HIDE DEF part, tail
<1>6. /\ DOMAIN nal = 1 .. next - 1 /\ nal \in Nal
      /\ \A i \in 1 .. next - 1 : nal[i] = h.pending[i].piece
  <2>1. \A i \in 1 .. next - 1 : part[i].piece \in Piece
    <3>1. \A i \in 1 .. Len(part) : part[i] \in Pieces
      BY <1>4
    <3> QED
      BY <1>4, <3>1 DEF Pieces
  <2>2. nal \in [1 .. next - 1 -> Piece]
    BY <1>4, <2>1
  <2>3. nal \in Seq(Piece) /\ Len(nal) = next - 1 /\ next - 1 # 0
    <3>1. next - 1 \in Nat /\ next - 1 # 0
      BY <1>2
    <3> QED
      BY <2>2, <3>1, SeqDef
  <2>4. nal # <<>>
    BY <2>3
  <2> QED
    BY <1>4, <2>3, <2>4 DEF Nal
<1> HIDE DEF nal
<1>7. /\ 1 \in 1 .. next - 1 /\ 1 \in DOMAIN h.pending /\ next \in DOMAIN h.pending
      /\ \A i \in 1 .. next - 1 : i \in DOMAIN h.pending
      /\ IsStart(h.pending[1].piece) /\ nal[1] = h.pending[1].piece
  BY <1>1, <1>2, <1>6 DEF Aligned
<1>8. part[1].ts \in Nat
  <2>1. h.pending[1] \in Pieces
    BY <1>1, <1>7
  <2> QED
    BY <1>4, <1>7, <2>1 DEF Pieces
<1>9. ASSUME NEW i \in DOMAIN nal
      PROVE  nal[i].au = nal[1].au /\ nal[i].kind = nal[1].kind
  <2>1. i = 1 \/ i \in 2 .. next - 1
    BY <1>6, <1>9
  <2>2. i \in 2 .. next - 1 => /\ h.pending[i].piece.au = h.pending[1].piece.au
                               /\ h.pending[i].piece.kind = h.pending[1].piece.kind
    BY <1>2, <1>7, OneNal
  <2> QED
    BY <1>6, <1>7, <1>9, <2>1, <2>2
<1>10. Uniform(nal) /\ Ascending(nal)
  <2>1. Uniform(nal)
    BY <1>7, <1>9 DEF Uniform
  <2>2. Ascending(nal)
    BY <1>6, <1>7 DEF Ascending, WaitingInv
  <2> QED
    BY <2>1, <2>2
<1>11. g \in Hevc /\ g.pending = tail 
       /\ g.prefix = h.prefix /\ g.au = h.au /\ g.synced = h.synced
       /\ g.sent = h.sent
  BY <1>5 DEF Hevc, Pieces
<1> HIDE DEF g
<1>12. /\ Len(tail) = Len(h.pending) - (next - 1) /\ Len(tail) >= 1
       /\ DOMAIN tail = 1 .. Len(tail)
       /\ \A i \in DOMAIN tail : /\ i + (next - 1) \in DOMAIN h.pending
                                 /\ tail[i] = h.pending[i + (next - 1)]
  <2>1. /\ Len(tail) = Len(h.pending) - (next - 1)
        /\ \A i \in 1 .. Len(tail) : /\ i + (next - 1) \in 1 .. Len(h.pending)
                                    /\ tail[i] = h.pending[i + (next - 1)]
    BY <1>5 DEF Left
  <2>2. DOMAIN tail = 1 .. Len(tail)
    BY <1>5
  <2>3. Len(tail) >= 1
    BY <1>1, <1>2, <2>1
  <2> QED
    BY <1>1, <2>1, <2>2, <2>3
<1>13. tail # <<>> /\ IsStart(tail[1].piece)
  <2>1. 1 \in DOMAIN tail /\ 1 + (next - 1) = next
    BY <1>1, <1>2, <1>12
  <2>2. tail[1] = h.pending[next]
    BY <1>12, <2>1
  <2>3. tail # <<>>
    BY <2>1
  <2> QED
    BY <1>2, <2>2, <2>3
<1>14. ToSet(nal) = {h.pending[i].piece : i \in 1 .. next - 1}
  BY <1>6 DEF ToSet
<1>15. Waiting(g) = {h.pending[i].piece : i \in next .. Len(h.pending)}
  <2>1. \A i \in next .. Len(h.pending) :
          i - (next - 1) \in DOMAIN tail /\ tail[i - (next - 1)] = h.pending[i]
    <3>1. ASSUME NEW i \in next .. Len(h.pending)
          PROVE  i - (next - 1) \in 1 .. Len(tail) /\ (i - (next - 1)) + (next - 1) = i
      BY <1>1, <1>2, <1>12
    <3> QED
      BY <1>12, <3>1
  <2>2. \A i \in DOMAIN tail : i + (next - 1) \in next .. Len(h.pending)
    BY <1>1, <1>2, <1>12
  <2>3. Waiting(g) = {tail[i].piece : i \in DOMAIN tail}
    BY <1>11 DEF Waiting
  <2>4. \A i \in DOMAIN tail :
          \E j \in next .. Len(h.pending) : tail[i] = h.pending[j]
    BY <1>12, <2>2
  <2>5. \A j \in next .. Len(h.pending) :
          \E i \in DOMAIN tail : tail[i] = h.pending[j]
    BY <2>1
  <2> QED
    BY <2>3, <2>4, <2>5
<1>16. /\ Waiting(h) = ToSet(nal) \cup Waiting(g)
  <2>1. DOMAIN h.pending = (1 .. next - 1) \cup (next .. Len(h.pending))
    BY <1>1, <1>2
  <2> QED
    BY <1>14, <1>15, <2>1 DEF Waiting
<1>17. \A p \in ToSet(nal), q \in Waiting(g) : Precedes(p, q)
  <2>1. ASSUME NEW i \in 1 .. next - 1, NEW j \in next .. Len(h.pending)
        PROVE  Precedes(h.pending[i].piece, h.pending[j].piece)
    <3>1. i \in DOMAIN h.pending /\ j \in DOMAIN h.pending /\ i < j
      BY <1>1, <1>2
    <3> QED
      BY <3>1 DEF WaitingInv
  <2> QED
    BY <1>14, <1>15, <2>1
<1>18. Waiting(h) \subseteq fed /\ fed \subseteq Piece
  BY DEF WaitingInv, Framed, Bits
<1>19. \A p \in Piece : ~Precedes(p, p)
  BY DEF Precedes, Piece
<1>20. fed \ Waiting(g) = (fed \ Waiting(h)) \cup ToSet(nal)
  BY <1>16, <1>17, <1>18, <1>19
<1>21. \A p \in fed \ Waiting(h), q \in Waiting(h) : Precedes(p, q)
  BY DEF WaitingInv
<1>22. NextNal(nal, fed \ Waiting(h), reach, all)
  <2>1. nal[1] \in Waiting(h)
    BY <1>7 DEF Waiting
  <2>2. ASSUME NEW p \in all, Precedes(p, nal[1])
        PROVE  p \in fed \ Waiting(h) \/ \A q \in reach : Precedes(p, q)
    <3>1. p \in Piece /\ nal[1] \in fed /\ nal[1] \in Piece
      BY <1>18, <2>1 DEF Bits
    <3>2. ~Precedes(nal[1], p)
      BY <2>2, <3>1 DEF Precedes, Piece
    <3>3. p \notin Waiting(h)
      <4>1. ASSUME NEW j \in DOMAIN h.pending, p = h.pending[j].piece
            PROVE  FALSE
        <5>1. 1 < j \/ j = 1
          BY <1>1
        <5>2. 1 < j => Precedes(nal[1], p)
          BY <1>7, <4>1 DEF WaitingInv
        <5> QED
          BY <1>7, <1>19, <2>2, <3>1, <3>2, <4>1, <5>1, <5>2
      <4> QED
        BY <4>1 DEF Waiting
    <3> QED
      BY <3>1, <3>2, <3>3 DEF Framed
  <2>3. fed \ Waiting(h) \subseteq reach /\ reach \subseteq all
        /\ ToSet(nal) \subseteq reach
    BY <1>16, <1>18 DEF Framed
  <2>4. \A p \in fed \ Waiting(h), q \in ToSet(nal) : Precedes(p, q)
    BY <1>16, <1>21
  <2> QED
    BY <1>6, <1>9, <1>10, <2>2, <2>3, <2>4 DEF NextNal
<1>23. ASSUME NEW r, r.pending = g.pending
       PROVE  WaitingInv(r, fed)
  <2>1. r.pending = tail /\ Waiting(r) = Waiting(g)
    BY <1>11, <1>23 DEF Waiting
  <2>2. Waiting(r) \subseteq fed
    BY <1>16, <1>18, <2>1
  <2>3. \A p \in fed \ Waiting(r), q \in Waiting(r) : Precedes(p, q)
    BY <1>16, <1>17, <1>20, <1>21, <2>1
  <2>4. ASSUME NEW i \in DOMAIN tail, NEW j \in DOMAIN tail, i < j
        PROVE  Precedes(tail[i].piece, tail[j].piece)
    <3>1. i + (next - 1) < j + (next - 1)
      BY <1>2, <1>12, <2>4
    <3> QED
      BY <1>12, <3>1 DEF WaitingInv
  <2> QED
    BY <1>13, <2>1, <2>2, <2>3, <2>4 DEF WaitingInv
<1> QED
  <2>1. \A r : r.pending = g.pending => WaitingInv(r, fed)
    BY <1>23
  <2>2. /\ g.prefix = h.prefix /\ g.au = h.au /\ g.synced = h.synced
        /\ g.sent = h.sent
    BY <1>11
  <2>3. Takes(h, g, nal, fed, reach, all)
    BY <1>20, <1>22, <2>1, <2>2 DEF Takes
  <2> QED
    BY <1>3, <1>6, <1>8, <1>11, <2>3

(* A NAL unit is fed.                                                      *)
LEMMA UnitFed ==
  ASSUME NEW all, NEW reach, NEW fed, NEW h \in Hevc, Bits(all),
         all = Stream(script, skip), Framed(fed, reach, all),
         UnitInv(h, fed, reach), WholeSent(h.sent), Aligned(h), Keyed(h),
         IsComplete(h), NEW shift \in Nat
  PROVE  LET r == FeedOne(h, shift)
         IN  UnitInv(r, fed, reach) /\ WholeSent(r.sent)
<1> DEFINE r    == FeedOne(h, shift)
           done == fed \ Waiting(h)
<1>0. /\ WaitingInv(h, fed) /\ SentSince(h.sent, reach)
      /\ ~h.synced => SearchInv(h, done)
      /\ h.synced => GatherInv(h, done, reach)
  BY DEF UnitInv
<1>1. PICK nal \in Nal, g \in Hevc, ts \in Nat :
        /\ FeedOne(h, shift) = Route(g, nal, ts, shift)
        /\ Takes(h, g, nal, fed, reach, all)
  BY <1>0, FeedsNext
<1>2. /\ r = Route(g, nal, ts, shift)
      /\ NextNal(nal, done, reach, all)
      /\ fed \ Waiting(g) = done \cup ToSet(nal)
      /\ \A x : x.pending = g.pending => WaitingInv(x, fed)
  BY <1>1 DEF Takes
<1>3. /\ g.prefix = h.prefix /\ g.au = h.au /\ g.synced = h.synced
      /\ g.sent = h.sent
  BY <1>1 DEF Takes
<1> HIDE DEF r, done
<1>4. Keyed(g)
  BY <1>3 DEF Keyed
<1>5. r.pending = g.pending
  BY <1>2, <1>4, Routed
<1>6. WaitingInv(r, fed) /\ fed \ Waiting(r) = done \cup ToSet(nal)
  BY <1>2, <1>5 DEF Waiting
<1>7. CASE h.synced
  <2>1. GatherInv(g, done, reach)
    BY <1>0, <1>3, <1>7 DEF GatherInv, IsFirst, IsLater
  <2>2. /\ r.synced /\ GatherInv(r, done \cup ToSet(nal), reach)
        /\ WholeSent(r.sent) /\ SentSince(r.sent, reach)
    BY <1>0, <1>2, <1>3, <1>4, <1>7, <2>1, GatherRoutes
  <2> QED
    BY <1>6, <2>2 DEF UnitInv, r
<1>8. CASE ~h.synced
  <2>1. SearchInv(g, done)
    BY <1>0, <1>3, <1>8 DEF SearchInv
  <2> DEFINE q == Route(g, nal, ts, shift)
  <2>2. ~g.synced /\ NextNal(nal, done, reach, all) /\ r = q
    BY <1>2, <1>3, <1>8
  <2>3. /\ q.sent = g.sent
        /\ q.synced => GatherInv(q, done \cup ToSet(nal), reach)
        /\ ~q.synced => SearchInv(q, done \cup ToSet(nal))
    BY <2>1, <2>2, SearchRoutes
  <2> HIDE DEF q
  <2> QED
    BY <1>0, <1>3, <1>6, <2>2, <2>3 DEF UnitInv, r
<1> QED
  BY <1>7, <1>8

(* What is dropped of some pieces has no start code.                       *)
LEMMA DropsHead ==
  ASSUME NEW s \in Seq(Pieces)
  PROVE  /\ FromStart(s) \in Seq(Pieces)
         /\ \E d \in Nat :
              /\ Left(s, FromStart(s), d)
              /\ \A i \in 1 .. d : ~IsStart(s[i].piece)
              /\ d # 0 => /\ FromStart(s) # <<>>
                          /\ IsStart(FromStart(s)[1].piece)
<1> DEFINE starts == {i \in DOMAIN s : IsStart(s[i].piece)}
           m      == Min(starts)
<1>1. Len(s) \in Nat /\ DOMAIN s = 1 .. Len(s)
  OBVIOUS
<1>2. FromStart(s) = IF starts = {} THEN s ELSE SubSeq(s, m, Len(s))
  BY DEF FromStart
<1>3. CASE starts = {}
  <2>1. FromStart(s) = s /\ Left(s, s, 0)
    BY <1>1, <1>2, <1>3 DEF Left
  <2> QED
    BY <2>1
<1>4. CASE starts # {}
  <2>1. m \in starts /\ \A i \in starts : m <= i
    <3>1. starts \in SUBSET (0 .. Len(s))
      BY <1>1
    <3> QED
      BY <1>1, <1>4, <3>1, MinOf
  <2>2. m \in 1 .. Len(s) /\ IsStart(s[m].piece)
    BY <1>1, <2>1
  <2>3. ASSUME NEW i \in 1 .. m - 1
        PROVE  ~IsStart(s[i].piece)
    <3>1. i \in DOMAIN s /\ ~(m <= i)
      BY <1>1, <2>2
    <3> QED
      BY <2>1, <3>1
  <2>4. FromStart(s) = SubSeq(s, m, Len(s))
    BY <1>2, <1>4
  <2> HIDE DEF m
  <2>5. FromStart(s) \in Seq(Pieces) /\ Left(s, FromStart(s), m - 1)
    BY <2>2, <2>4, LeftOf
  <2>6. 1 \in 1 .. Len(FromStart(s)) /\ FromStart(s)[1] = s[m]
    <3>1. 1 \in 1 .. Len(FromStart(s)) /\ 1 + (m - 1) = m
      BY <1>1, <2>2, <2>5 DEF Left
    <3> QED
      BY <2>5, <3>1 DEF Left
  <2>7. FromStart(s) # <<>>
    BY <2>5, <2>6
  <2>8. m - 1 \in Nat
    BY <2>2
  <2> QED
    BY <2>2, <2>3, <2>5, <2>6, <2>7, <2>8
<1> QED
  BY <1>3, <1>4

(* A chunk is appended that comes behind all that was fed.                 *)
LEMMA UnitPended ==
  ASSUME NEW reach, NEW fed, NEW h \in Hevc, NEW chunk \in Seq(Piece),
         NEW ts \in Nat, UnitInv(h, fed, reach), Aligned(h),
         fed \subseteq Piece, Ascending(chunk),
         \A p \in fed, q \in ToSet(chunk) : Precedes(p, q)
  PROVE  UnitInv(Pend(h, chunk, ts), fed \cup ToSet(chunk), reach)
<1> DEFINE r    == Pend(h, chunk, ts)
           new  == [i \in DOMAIN chunk |-> [piece |-> chunk[i], ts |-> ts]]
           all  == h.pending \o new
           more == fed \cup ToSet(chunk)
           n    == Len(h.pending)
<1>0. /\ WaitingInv(h, fed) /\ SentSince(h.sent, reach)
      /\ ~h.synced => SearchInv(h, fed \ Waiting(h))
      /\ h.synced => GatherInv(h, fed \ Waiting(h), reach)
  BY DEF UnitInv
<1>1. /\ new \in Seq(Pieces) /\ Len(new) = Len(chunk)
      /\ \A i \in 1 .. Len(chunk) : new[i].piece = chunk[i]
  <2>1. Len(chunk) \in Nat /\ DOMAIN chunk = 1 .. Len(chunk)
    OBVIOUS
  <2>2. \A i \in 1 .. Len(chunk) : [piece |-> chunk[i], ts |-> ts] \in Pieces
    BY DEF Pieces
  <2>3. new \in [1 .. Len(chunk) -> Pieces]
    BY <2>1, <2>2
  <2>4. new \in Seq(Pieces) /\ Len(new) = Len(chunk)
    BY <2>1, <2>3, SeqDef
  <2> QED
    BY <2>1, <2>4
<1>2. h.pending \in Seq(Pieces) /\ n \in Nat /\ DOMAIN h.pending = 1 .. n
      /\ Len(chunk) \in Nat /\ DOMAIN chunk = 1 .. Len(chunk)
  BY DEF Hevc, Pieces
<1>3. r = [h EXCEPT !.pending = FromStart(all)]
  BY DEF Pend
<1> HIDE DEF new
<1>4. /\ all \in Seq(Pieces) /\ Len(all) = n + Len(chunk)
      /\ DOMAIN all = 1 .. n + Len(chunk)
      /\ \A i \in 1 .. n + Len(chunk) :
           all[i] = IF i <= n THEN h.pending[i] ELSE new[i - n]
  <2>1. /\ all \in Seq(Pieces) /\ Len(all) = Len(h.pending) + Len(new)
        /\ \A i \in 1 .. Len(h.pending) + Len(new) :
             all[i] = IF i <= Len(h.pending) THEN h.pending[i]
                      ELSE new[i - Len(h.pending)]
    BY <1>1, <1>2, ConcatProperties
  <2> QED
    BY <1>1, <1>2, <2>1
<1> HIDE DEF all, n
<1>5. /\ r.pending = FromStart(all) /\ r.prefix = h.prefix /\ r.au = h.au
      /\ r.synced = h.synced /\ r.sent = h.sent
  BY <1>3 DEF Hevc
<1> HIDE DEF r
<1>6. PICK d \in Nat :
        /\ Left(all, r.pending, d)
        /\ \A i \in 1 .. d : ~IsStart(all[i].piece)
        /\ d # 0 => r.pending # <<>> /\ IsStart(r.pending[1].piece)
  BY <1>4, <1>5, DropsHead
<1>7. /\ r.pending \in Seq(Pieces) /\ d <= n + Len(chunk)
      /\ Len(r.pending) = n + Len(chunk) - d
      /\ DOMAIN r.pending = 1 .. n + Len(chunk) - d
      /\ \A i \in DOMAIN r.pending : i + d \in DOMAIN all /\ r.pending[i] = all[i + d]
  <2>1. r.pending \in Seq(Pieces)
    BY <1>4, <1>5, DropsHead
  <2>2. /\ d <= Len(all) /\ Len(r.pending) = Len(all) - d
        /\ \A i \in 1 .. Len(r.pending) :
             i + d \in 1 .. Len(all) /\ r.pending[i] = all[i + d]
    BY <1>6 DEF Left
  <2>3. DOMAIN r.pending = 1 .. Len(r.pending)
    BY <2>1
  <2>4. Len(r.pending) = n + Len(chunk) - d /\ d <= n + Len(chunk)
    BY <1>2, <1>4, <2>2
  <2>5. DOMAIN r.pending = 1 .. n + Len(chunk) - d
    BY <2>3, <2>4
  <2>6. \A i \in DOMAIN r.pending : i + d \in DOMAIN all /\ r.pending[i] = all[i + d]
    BY <1>4, <2>2, <2>3
  <2> QED
    BY <2>1, <2>4, <2>5, <2>6
<1>8. \A i \in DOMAIN all :
        \/ i \in DOMAIN h.pending /\ all[i] = h.pending[i]
        \/ n < i /\ i - n \in DOMAIN chunk /\ all[i].piece = chunk[i - n]
  <2>1. ASSUME NEW i \in DOMAIN all
        PROVE  i \in 1 .. n \/ (n < i /\ i - n \in 1 .. Len(chunk))
    BY <1>2, <1>4
  <2> QED
    BY <1>1, <1>2, <1>4, <2>1
<1>9. /\ \A i \in DOMAIN h.pending : i \in DOMAIN all /\ all[i] = h.pending[i]
      /\ \A i \in DOMAIN chunk : i + n \in DOMAIN all /\ all[i + n].piece = chunk[i]
  <2>1. \A i \in DOMAIN h.pending : i \in DOMAIN all /\ all[i] = h.pending[i]
    BY <1>2, <1>4
  <2>2. ASSUME NEW i \in DOMAIN chunk
        PROVE  i + n \in DOMAIN all /\ all[i + n].piece = chunk[i]
    <3>1. i + n \in 1 .. n + Len(chunk) /\ ~(i + n <= n) /\ (i + n) - n = i
      BY <1>2
    <3> QED
      BY <1>1, <1>2, <1>4, <3>1
  <2> QED
    BY <2>1, <2>2
<1> DEFINE Every == {all[i].piece : i \in DOMAIN all}
<1>10. Every = Waiting(h) \cup ToSet(chunk)
  BY <1>8, <1>9 DEF Waiting, ToSet
<1>11. ASSUME NEW i \in DOMAIN all, NEW j \in DOMAIN all, i < j
       PROVE  Precedes(all[i].piece, all[j].piece)
  <2>1. CASE i \in DOMAIN h.pending /\ j \in DOMAIN h.pending
    BY <1>0, <1>9, <1>11, <2>1 DEF WaitingInv
  <2>2. CASE i \in DOMAIN h.pending /\ j \notin DOMAIN h.pending
    <3>1. all[i].piece \in fed
      BY <1>0, <1>9, <2>2 DEF WaitingInv, Waiting
    <3>2. all[j].piece \in ToSet(chunk)
      BY <1>8, <2>2 DEF ToSet
    <3> QED
      BY <3>1, <3>2
  <2>3. CASE i \notin DOMAIN h.pending
    <3>1. n < i /\ i - n \in DOMAIN chunk /\ all[i].piece = chunk[i - n]
      BY <1>8, <2>3
    <3>2. j \notin DOMAIN h.pending /\ i - n < j - n
      BY <1>2, <1>4, <1>11, <3>1
    <3>3. j - n \in DOMAIN chunk /\ all[j].piece = chunk[j - n]
      BY <1>8, <3>2
    <3> QED
      BY <3>1, <3>2, <3>3 DEF Ascending
  <2> QED
    BY <2>1, <2>2, <2>3
<1>12. \A p \in Piece : ~Precedes(p, p)
  BY DEF Precedes, Piece
<1>13. Waiting(r) = {all[i].piece : i \in {j \in DOMAIN all : d < j}}
  <2>1. \A i \in DOMAIN r.pending : i + d \in DOMAIN all /\ d < i + d
    BY <1>7
  <2>2. ASSUME NEW j \in DOMAIN all, d < j
        PROVE  j - d \in DOMAIN r.pending /\ r.pending[j - d] = all[j]
    <3>1. j - d \in 1 .. n + Len(chunk) - d /\ (j - d) + d = j
      BY <1>2, <1>4, <2>2
    <3> QED
      BY <1>7, <3>1
  <2>3. Waiting(r) = {r.pending[i].piece : i \in DOMAIN r.pending}
    BY DEF Waiting
  <2>4. \A i \in DOMAIN r.pending :
          \E j \in DOMAIN all : d < j /\ r.pending[i] = all[j]
    BY <1>7, <2>1
  <2>5. \A j \in DOMAIN all :
          d < j => \E i \in DOMAIN r.pending : r.pending[i] = all[j]
    BY <2>2
  <2> QED
    BY <2>3, <2>4, <2>5
<1> DEFINE Dropped == {all[i].piece : i \in {j \in DOMAIN all : j <= d}}
<1>14. Every = Waiting(r) \cup Dropped
  <2>1. \A j \in DOMAIN all : d < j \/ j <= d
    BY <1>4
  <2> QED
    BY <1>13, <2>1
<1>15. \A p \in Dropped : ~IsStart(p)
  <2>1. \A j \in DOMAIN all : j <= d => j \in 1 .. d
    BY <1>4
  <2> QED
    BY <1>6, <2>1
<1>16. \A p \in Dropped, q \in Waiting(r) : Precedes(p, q)
  <2>1. \A i, j \in DOMAIN all : i <= d /\ d < j => i < j
    BY <1>4
  <2> QED
    BY <1>11, <1>13, <2>1
<1>17. Waiting(h) \subseteq fed
  BY <1>0 DEF WaitingInv
<1>18. WaitingInv(r, more)
  <2>1. Waiting(r) \subseteq more
    BY <1>10, <1>14, <1>17
  <2>2. ASSUME NEW i \in DOMAIN r.pending, NEW j \in DOMAIN r.pending, i < j
        PROVE  Precedes(r.pending[i].piece, r.pending[j].piece)
    <3>1. i + d < j + d
      BY <1>7, <2>2
    <3> QED
      BY <1>7, <1>11, <3>1
  <2>3. ASSUME NEW p \in more \ Waiting(r), NEW q \in Waiting(r)
        PROVE  Precedes(p, q)
    <3>1. p \in Dropped \/ p \in fed \ Waiting(h)
      BY <1>10, <1>14, <1>17
    <3>2. q \in Waiting(h) \/ q \in ToSet(chunk)
      BY <1>10, <1>14
    <3>3. p \in fed \ Waiting(h) => Precedes(p, q)
      BY <1>0, <3>2 DEF WaitingInv
    <3> QED
      BY <1>16, <3>1, <3>3
  <2>4. ASSUME r.pending = <<>> \/ ~IsStart(r.pending[1].piece)
        PROVE  ~r.synced /\ r.prefix = <<>> /\ more = Waiting(r)
    <3>1. d = 0
      BY <1>6, <2>4
    <3>2. Dropped = {}
      <4>1. \A j \in DOMAIN all : ~(j <= d)
        BY <1>4, <3>1
      <4> QED
        BY <4>1
    <3>3. h.pending = <<>> \/ ~IsStart(h.pending[1].piece)
      <4>1. CASE n = 0
        BY <1>2, <4>1, EmptySeq DEF n
      <4>2. CASE n # 0
        <5>1. 1 \in DOMAIN h.pending /\ 1 \in DOMAIN r.pending /\ 1 + d = 1
          BY <1>2, <1>7, <3>1, <4>2
        <5>2. r.pending[1] = h.pending[1]
          BY <1>7, <1>9, <5>1
        <5>3. r.pending # <<>>
          BY <5>1
        <5> QED
          BY <2>4, <5>2, <5>3
      <4> QED
        BY <4>1, <4>2
    <3>4. ~h.synced /\ h.prefix = <<>> /\ fed = Waiting(h)
      BY <1>0, <3>3 DEF WaitingInv
    <3> QED
      BY <1>5, <1>10, <1>14, <3>2, <3>4
  <2> HIDE DEF more
  <2> QED
    BY <2>1, <2>2, <2>3, <2>4 DEF WaitingInv
<1>19. CASE h.pending # <<>> /\ IsStart(h.pending[1].piece)
  <2>1. 1 \in DOMAIN h.pending
    <3>1. n # 0
      BY <1>2, <1>19, EmptySeq DEF n
    <3> QED
      BY <1>2, <3>1
  <2>2. d = 0
    <3>1. IsStart(all[1].piece)
      BY <1>9, <1>19, <2>1
    <3>2. ~(1 \in 1 .. d)
      BY <1>6, <3>1
    <3> QED
      BY <3>2
  <2>3. Dropped = {}
    <3>1. \A j \in DOMAIN all : ~(j <= d)
      BY <1>4, <2>2
    <3> QED
      BY <3>1
  <2>4. \A q \in ToSet(chunk) : q \notin fed
    BY <1>12
  <2>5. more \ Waiting(r) = fed \ Waiting(h)
    BY <1>10, <1>14, <1>17, <2>3, <2>4
  <2>6. ~r.synced => SearchInv(r, more \ Waiting(r))
    BY <1>0, <1>5, <2>5 DEF SearchInv
  <2>7. r.synced => GatherInv(r, more \ Waiting(r), reach)
    BY <1>0, <1>5, <2>5 DEF GatherInv, IsFirst, IsLater
  <2> HIDE DEF more
  <2> QED
    BY <1>0, <1>5, <1>18, <2>6, <2>7 DEF UnitInv, r, more
<1>20. CASE h.pending = <<>> \/ ~IsStart(h.pending[1].piece)
  <2>1. ~h.synced /\ h.prefix = <<>> /\ fed = Waiting(h)
    BY <1>0, <1>20 DEF WaitingInv
  <2>2. \A p \in more \ Waiting(r) : ~IsStart(p)
    BY <1>10, <1>14, <1>15, <2>1
  <2>3. DOMAIN r.prefix = {}
    BY <1>5, <2>1
  <2>4. mode # "static" => r.sent = <<>>
    BY <1>0, <1>5, <2>1 DEF SearchInv
  <2>5. SearchInv(r, more \ Waiting(r))
    BY <2>2, <2>3, <2>4 DEF SearchInv, IsVps
  <2> HIDE DEF more
  <2> QED
    BY <1>0, <1>5, <1>18, <2>1, <2>5 DEF UnitInv, r, more
<1> QED
  BY <1>19, <1>20

(* A round begins with nothing.                                            *)
LEMMA UnitReset ==
  ASSUME NEW reach, NEW sent, SentSince(sent, reach),
         mode # "static" => sent = <<>>
  PROVE  UnitInv(Reset(sent), {}, reach)
<1> DEFINE r == Reset(sent)
<1>1. /\ r.pending = <<>> /\ r.prefix = <<>> /\ r.synced = FALSE /\ r.sent = sent
      /\ DOMAIN r.pending = {} /\ DOMAIN r.prefix = {}
  BY DEF Reset
<1> HIDE DEF r
<1>2. Waiting(r) = {}
  BY <1>1 DEF Waiting
<1>3. WaitingInv(r, {})
  BY <1>1, <1>2 DEF WaitingInv
<1>4. SearchInv(r, {} \ Waiting(r))
  BY <1>1, <1>2 DEF SearchInv
<1> QED
  BY <1>1, <1>3, <1>4 DEF UnitInv, r

-----------------------------------------------------------------------------
(* The recording as a bitstream *)

(* A piece of some entries is at a place in one of them.                   *)
LEMMA PieceAt ==
  ASSUME Setting, NEW S \in SUBSET Entries, NEW p
  PROVE  p \in PiecesIn(S) <=>
           \E e \in S : script[e].video /\ \E i \in DOMAIN Chunk(e) : p = Chunk(e)[i]
<1>1. p \in PiecesIn(S) <=> \E e \in S : script[e].video /\ p \in ToSet(Chunk(e))
  BY DEF PiecesIn
<1> QED
  BY <1>1 DEF ToSet

(* Pieces come in the order of their entries, and of their places in one.  *)
LEMMA ChunkOrder ==
  ASSUME Setting, NEW x \in Entries, NEW e \in Entries,
         script[x].video, script[e].video,
         NEW i \in DOMAIN Chunk(x), NEW j \in DOMAIN Chunk(e),
         x < e \/ (x = e /\ i < j)
  PROVE  Precedes(Chunk(x)[i], Chunk(e)[j])
<1>1. PICK s \in Setups : script = s.script /\ mode = s.mode /\ skip = s.skip
  BY DEF Setting
<1> QED
  BY <1>1, PieceAssumption DEF Chunk, Entries

(* What is recorded is a bitstream, and no two of its pieces are at one    *)
(* place.                                                                  *)
LEMMA StreamBits ==
  ASSUME Setting
  PROVE  /\ Stream(script, skip) = PiecesIn(Entries)
         /\ Bits(Stream(script, skip))
<1>1. PICK s \in Setups : script = s.script /\ mode = s.mode /\ skip = s.skip
  BY DEF Setting
<1>2. IsBitstream(Stream(script, skip))
  BY <1>1, BitstreamAssumption
<1>3. Stream(script, skip) = PiecesIn(Entries)
  BY DEF Stream, PiecesIn, Chunk, Entries
<1>4. PiecesIn(Entries) \subseteq Piece
  <2> SUFFICES ASSUME NEW p \in PiecesIn(Entries) PROVE p \in Piece
    OBVIOUS
  <2>1. PICK e \in Entries : \E i \in DOMAIN Chunk(e) : p = Chunk(e)[i]
    BY PieceAt
  <2>2. Chunk(e) \in Seq(Piece)
    BY ChunkOf
  <2> QED
    BY <2>1, <2>2
<1>5. ASSUME NEW p \in PiecesIn(Entries), NEW q \in PiecesIn(Entries)
      PROVE  p = q \/ Precedes(p, q) \/ Precedes(q, p)
  <2>1. PICK x \in Entries : script[x].video /\ \E i \in DOMAIN Chunk(x) : p = Chunk(x)[i]
    BY PieceAt
  <2>2. PICK i \in DOMAIN Chunk(x) : p = Chunk(x)[i]
    BY <2>1
  <2>3. PICK e \in Entries : script[e].video /\ \E j \in DOMAIN Chunk(e) : q = Chunk(e)[j]
    BY PieceAt
  <2>4. PICK j \in DOMAIN Chunk(e) : q = Chunk(e)[j]
    BY <2>3
  <2>5. x \in Nat /\ e \in Nat /\ i \in Nat /\ j \in Nat
    <3>1. Chunk(x) \in Seq(Piece) /\ Chunk(e) \in Seq(Piece)
      BY ChunkOf
    <3>2. i \in Nat /\ j \in Nat
      BY <3>1
    <3> QED
      BY <3>2, Recording
  <2>6. CASE x < e \/ (x = e /\ i < j)
    BY <2>1, <2>2, <2>3, <2>4, <2>6, ChunkOrder
  <2>7. CASE e < x \/ (e = x /\ j < i)
    BY <2>1, <2>2, <2>3, <2>4, <2>7, ChunkOrder
  <2>8. CASE x = e /\ i = j
    BY <2>2, <2>4, <2>8
  <2> QED
    BY <2>5, <2>6, <2>7, <2>8
<1> QED
  BY <1>2, <1>3, <1>4, <1>5 DEF Bits

(* What a round was fed lies before what it was not fed, and behind what   *)
(* was recorded before its first entry.                                    *)
LEMMA RangeFramed ==
  ASSUME RingInv, FollowInv, NEW a, RangeInv(a)
  PROVE  Framed(Fed(a), Reach(a), Stream(script, skip))
<1> DEFINE had == Had(a)
           may == {x \in Entries : a <= x}
<1>0. Setting /\ a \in Entries
  BY DEF RingInv, RangeInv
<1>1. /\ last_cursor \in Nat /\ a \in Nat
      /\ \A e \in Entries : e \in Nat
      /\ \A x \in a .. last_cursor : x \in Entries
  <2>1. /\ Entries = 1 .. Len(script) /\ script \in Seq(Entry)
        /\ last_cursor \in Entries \cup {0}
    BY <1>0, Recording DEF FollowInv, ReaderType
  <2> QED
    BY <1>0, <2>1
<1>2. had \subseteq may /\ had \in SUBSET Entries /\ may \in SUBSET Entries
  BY <1>1 DEF Had
<1>3. Fed(a) = PiecesIn(had) /\ Reach(a) = PiecesIn(may)
  BY DEF Fed, Reach
<1>4. Stream(script, skip) = PiecesIn(Entries)
  BY <1>0, StreamBits
<1>5. PiecesIn(had) \subseteq PiecesIn(may) /\ PiecesIn(may) \subseteq PiecesIn(Entries)
  BY <1>2 DEF PiecesIn
<1>6. ASSUME NEW p \in PiecesIn(Entries), p \notin PiecesIn(had),
             ~ \A q \in PiecesIn(may) : Precedes(p, q),
             NEW q \in PiecesIn(had)
      PROVE  Precedes(q, p)
  <2>1. PICK e \in Entries : script[e].video /\ \E i \in DOMAIN Chunk(e) : p = Chunk(e)[i]
    BY <1>0, PieceAt
  <2>2. PICK x \in had : script[x].video /\ \E j \in DOMAIN Chunk(x) : q = Chunk(x)[j]
    BY <1>0, <1>2, PieceAt
  <2>3. e \notin had
    BY <1>0, <1>2, <1>6, <2>1, PieceAt
  <2>4. a <= e
    <3>1. ASSUME e < a, NEW r \in PiecesIn(may) PROVE Precedes(p, r)
      <4>1. PICK y \in may : script[y].video /\ \E j \in DOMAIN Chunk(y) : r = Chunk(y)[j]
        BY <1>0, <1>2, PieceAt
      <4>2. e < y /\ y \in Entries
        BY <1>1, <3>1, <4>1
      <4> QED
        BY <1>0, <2>1, <4>1, <4>2, ChunkOrder
    <3> QED
      BY <1>1, <1>6, <3>1
  <2>5. x < e /\ x \in Entries
    BY <1>1, <1>2, <2>3, <2>4 DEF RangeInv, Had
  <2> QED
    BY <1>0, <2>1, <2>2, <2>5, ChunkOrder
<1> HIDE DEF had, may
<1> QED
  BY <1>3, <1>4, <1>5, <1>6 DEF Framed

-----------------------------------------------------------------------------
(* The file of a replay *)

(* The table of a finished file has its newest entries, and only them.     *)
LEMMA FileInit ==
  ASSUME Init
  PROVE  FileInv
<1> SUFFICES ASSUME mode = "static"
             PROVE  /\ last_cursor \in Collect(table) \cup {0}
                    /\ \A y, e \in Collect(table) :
                         \A x \in y .. e : x \in Collect(table)
  BY DEF FileInv
<1> DEFINE n      == Len(script)
           T      == TableSlots
           Old(i) == {0} \cup {e \in 1 .. n : (e - 1) % T = i}
<1>1. script \in Seq(Entry) /\ n \in Nat /\ T \in Nat \ {0}
  <2>1. Setting
    BY DEF Init, Setting
  <2> QED
    BY <2>1, Recording, RingFollowerAssumption
<1>2. table = [i \in 0 .. T - 1 |-> Max(Old(i))] /\ last_cursor = 0
  BY DEF Init
<1>3. \A i : Old(i) \in SUBSET (0 .. n) /\ 0 \in Old(i)
  BY <1>1
<1>4. \A i : Max(Old(i)) \in Old(i) /\ \A e \in Old(i) : e <= Max(Old(i))
  BY <1>1, <1>3, MaxOf
<1>5. \A e \in Nat : (e - 1) % T \in 0 .. T - 1
  BY <1>1
<1> HIDE DEF n, T
<1>6. ASSUME NEW y \in Collect(table)
      PROVE  y \in 1 .. n /\ ~(y + T <= n)
  <2>1. PICK i \in 0 .. T - 1 : y = Max(Old(i)) /\ y # 0
    BY <1>2 DEF Collect, Values
  <2>2. y \in 1 .. n /\ (y - 1) % T = i
    BY <1>4, <2>1
  <2>3. ASSUME y + T <= n PROVE FALSE
    <3> DEFINE z == (y - 1) + 1 * T
    <3>0. y - 1 \in Int /\ 1 \in Int
      BY <1>1, <2>2
    <3>1. z % T = (y - 1) % T
      BY <1>1, <3>0, WholeTurns, Zenon
    <3>2. z = (y + T) - 1 /\ y + T \in 1 .. n /\ y < y + T
      BY <1>1, <2>2, <2>3
    <3> HIDE DEF z
    <3>3. y + T \in Old(i)
      BY <2>2, <3>1, <3>2
    <3>4. y + T <= y
      BY <1>4, <2>1, <3>3
    <3> QED
      BY <1>1, <2>2, <3>2, <3>4
  <2> QED
    BY <2>2, <2>3
<1>7. ASSUME NEW x \in 1 .. n, ~(x + T <= n)
      PROVE  x \in Collect(table)
  <2> DEFINE i == (x - 1) % T
             m == Max(Old(i))
  <2>1. x \in Old(i) /\ i \in 0 .. T - 1
    BY <1>5
  <2>2. m \in Old(i) /\ x <= m
    BY <1>4, <2>1
  <2>3. m \in 1 .. n /\ (m - 1) % T = (x - 1) % T
    <3>1. m # 0
      BY <1>1, <2>2
    <3> QED
      BY <2>2, <3>1
  <2> HIDE DEF m, i
  <2>4. /\ (m - 1) - (x - 1) < T /\ (x - 1) - (m - 1) < T
        /\ m - 1 \in Int /\ x - 1 \in Int
    BY <1>1, <1>7, <2>2, <2>3
  <2>5. m - 1 = x - 1
    BY <1>1, <2>3, <2>4, SamePlace, Zenon
  <2>6. m = x
    BY <2>3, <2>5
  <2>7. table[i] = x /\ x # 0 /\ i \in DOMAIN table
    BY <1>2, <2>1, <2>6 DEF m
  <2> QED
    BY <2>7 DEF Collect, Values
<1>8. ASSUME NEW y \in Collect(table), NEW e \in Collect(table), NEW x \in y .. e
      PROVE  x \in Collect(table)
  <2>1. y \in 1 .. n /\ ~(y + T <= n) /\ e \in 1 .. n
    BY <1>6
  <2>2. x \in 1 .. n /\ ~(x + T <= n)
    BY <1>1, <2>1
  <2> QED
    BY <1>7, <2>2
<1> QED
  BY <1>2, <1>8

(* Nobody writes to it, and what is sent is of it.                         *)
LEMMA FileStep ==
  ASSUME RingInv, FollowInv, TimeInv, FileInv, [Next]_vars
  PROVE  FileInv'
<1>1. mode' = mode
  BY SameSetting, Zenon
<1> SUFFICES ASSUME mode = "static"
             PROVE  /\ Collect(table)' = Collect(table)
                    /\ last_cursor' \in Collect(table) \cup {0}
  BY <1>1 DEF FileInv
<1>2. Collect(table)' = Collect(table)
  BY FileSame DEF Collect
<1>3. CASE SendEntry
  <2>1. last_cursor' = Min(DOMAIN todo)
    BY <1>3 DEF SendEntry
  <2>2. Min(DOMAIN todo) \in Round
    BY <1>3, EntrySent DEF TimeInv, RoundInv
  <2>3. Round \subseteq Collect(table)
    <3>1. Collect(table) \in SUBSET Entries
      BY Collected DEF RingInv, RingType
    <3> QED
      BY <3>1, RoundOnes, StableOnes DEF RingInv
  <2> QED
    BY <1>2, <2>1, <2>2, <2>3
<1>4. CASE last_cursor' = last_cursor
  BY <1>2, <1>4 DEF FileInv
<1> QED
  BY <1>3, <1>4 DEF Next, vars, readerVars, Writer, WritePayload, WriteTable, Repeat,
     Tabulate, Reader, ReadTable, NoAnchor, FirstRead, NextRead, Replay, SendNal,
     EndOfRange, Fails

-----------------------------------------------------------------------------
(* The rounds *)

(* Before anything is sent.                                                *)
LEMMA WholeInit ==
  ASSUME Init
  PROVE  WholeInv
<1>1. started = FALSE /\ hevc = Reset(<<>>) /\ DOMAIN <<>> = {}
  BY DEF Init
<1>2. hevc.sent = <<>>
  BY <1>1 DEF Reset
<1> QED
  BY <1>1, <1>2 DEF WholeInv, WholeSent

(* While the recording is as it is, what is said of it stays true.         *)
LEMMA WholeSame ==
  ASSUME UNCHANGED <<script, mode, skip>>, NEW a, NEW h, hevc' = h
  PROVE  /\ Entries' = Entries /\ Reach(a)' = Reach(a)
         /\ Fed(a)' = PiecesIn(Had(a)')
         /\ WholeSent(hevc.sent)' <=> WholeSent(h.sent)
         /\ UnitInv(hevc, Fed(a), Reach(a))' <=> UnitInv(h, Fed(a)', Reach(a)')
<1>1. \A e : Chunk(e)' = Chunk(e)
  BY DEF Chunk
<1>2. \A S : PiecesIn(S)' = PiecesIn(S)
  BY <1>1 DEF PiecesIn
<1>3. Entries' = Entries
  BY DEF Entries
<1>4. Reach(a)' = Reach(a)
  BY <1>1, <1>3 DEF Reach, PiecesIn
<1>5. Fed(a)' = PiecesIn(Had(a)')
  BY <1>1 DEF Fed, PiecesIn, Had
<1>6. \A k : Source(k)' = Source(k)
  BY DEF Source
<1>7. WholeSent(hevc.sent)' <=> WholeSent(h.sent)
  BY <1>6 DEF WholeSent
<1>8. UnitInv(hevc, Fed(a), Reach(a))' <=> UnitInv(h, Fed(a)', Reach(a)')
  <2>1. WaitingInv(hevc, Fed(a))' <=> WaitingInv(h, Fed(a)')
    OBVIOUS
  <2>2. SentSince(hevc.sent, Reach(a))' <=> SentSince(h.sent, Reach(a)')
    OBVIOUS
  <2>3. SearchInv(hevc, Fed(a) \ Waiting(hevc))'
          <=> SearchInv(h, Fed(a)' \ Waiting(h))
    BY DEF SearchInv
  <2>4. GatherInv(hevc, Fed(a) \ Waiting(hevc), Reach(a))'
          <=> GatherInv(h, Fed(a)' \ Waiting(h), Reach(a)')
    BY DEF GatherInv, IsFirst
  <2> QED
    BY <2>1, <2>2, <2>3, <2>4 DEF UnitInv
<1> QED
  BY <1>3, <1>4, <1>5, <1>7, <1>8

(* It is enough to name the entry the round began at.                      *)
LEMMA WholeNext ==
  ASSUME UNCHANGED <<script, mode, skip>>, NEW a \in Entries, NEW h, hevc' = h,
         RangeInv(a)', WholeSent(h.sent), UnitInv(h, PiecesIn(Had(a)'), Reach(a))
  PROVE  WholeInv'
<1>1. /\ Entries' = Entries /\ WholeSent(hevc.sent)'
      /\ UnitInv(hevc, Fed(a), Reach(a))'
  BY WholeSame
<1>2. \E x \in Entries' : RangeInv(x)' /\ UnitInv(hevc, Fed(x), Reach(x))'
  BY <1>1
<1> QED
  BY <1>1, <1>2 DEF WholeInv

(* The key frame a replay begins at stays the same.                        *)
LEMMA SameAnchor ==
  ASSUME RingInv, mode = "static", [Next]_vars
  PROVE  Anchor(Stable(Collect(table)))' = Anchor(Stable(Collect(table)))
BY FileSame, RoundSame

(* anyka_ipc, and what a reader does before its key frame, between its     *)
(* rounds, or at the end, does not concern what is sent.                   *)
LEMMA WholeKeeps ==
  ASSUME RingInv, FollowInv, TimeInv, WholeInv, [Next]_vars, hevc' = hevc,
         started' /\ pc' # "closed" =>
           started /\ pc # "closed" /\ UNCHANGED <<todo, last_cursor>>,
         gone' = {} /\ started => gone = {}
  PROVE  WholeInv'
<1>1. UNCHANGED <<script, mode, skip>>
  BY SameSetting, Zenon
<1> SUFFICES ASSUME gone' = {}
             PROVE  /\ WholeSent(hevc.sent)'
                    /\ started' /\ pc' # "closed" =>
                         \E a \in Entries' :
                           RangeInv(a)' /\ UnitInv(hevc, Fed(a), Reach(a))'
  BY DEF WholeInv
<1>2. WholeSent(hevc.sent)
  <2>1. CASE started
    BY <2>1 DEF WholeInv
  <2>2. CASE ~started
    <3>1. hevc.sent = <<>> /\ DOMAIN <<>> = {}
      BY <2>2 DEF TimeInv, RoundInv, Reset
    <3> QED
      BY <3>1 DEF WholeSent
  <2> QED
    BY <2>1, <2>2
<1>3. WholeSent(hevc.sent)'
  BY <1>1, <1>2, WholeSame
<1>4. ASSUME started', pc' # "closed"
      PROVE  \E a \in Entries' :
               RangeInv(a)' /\ UnitInv(hevc, Fed(a), Reach(a))'
  <2>1. UNCHANGED <<todo, last_cursor>> /\ gone = {}
    BY <1>4
  <2>2. PICK a \in Entries : RangeInv(a) /\ UnitInv(hevc, Fed(a), Reach(a))
    BY <1>4, <2>1 DEF WholeInv
  <2>3. /\ Entries' = Entries /\ Reach(a)' = Reach(a)
        /\ Fed(a)' = PiecesIn(Had(a)')
        /\ UnitInv(hevc, Fed(a), Reach(a))' <=> UnitInv(hevc, Fed(a)', Reach(a)')
    BY <1>1, WholeSame
  <2>4. Fed(a)' = Fed(a)
    BY <2>1, <2>3 DEF Had, Fed
  <2>5. RangeInv(a)'
    BY <1>1, <2>1, <2>2, <2>3, SameAnchor DEF RangeInv
  <2> QED
    BY <2>2, <2>3, <2>4, <2>5
<1> QED
  BY <1>3, <1>4

(* A round begins at its key frame.                                        *)
LEMMA WholeFirstRead ==
  ASSUME RingInv, FollowInv, TimeInv, FileInv, FirstRead, [Next]_vars, gone' = {}
  PROVE  WholeInv'
<1> DEFINE stable == Stable(Collect(snap))
<1>1. /\ pc = "payload" /\ ~started /\ hevc' = hevc
      /\ UNCHANGED <<script, mode, skip, table, last_cursor>>
      /\ Anchor(stable) # 0 /\ todo' = Items(FromAnchor(stable))
  BY DEF FirstRead, KeepRing, ringVars
<1>2. hevc' = Reset(<<>>) /\ last_cursor = 0 /\ last_cursor' = 0
  BY <1>1 DEF TimeInv, RoundInv, FollowInv, ReaderType
<1>3. stable \in SUBSET Entries
  <2>1. Collect(snap) \in SUBSET Entries
    BY <1>1, Collected DEF FollowInv, ReaderType
  <2> QED
    BY <2>1, StableOnes DEF RingInv
<1>4. PICK a \in Entries : a = Anchor(stable) /\ a \in stable
  BY <1>1, <1>3, AnchorOne DEF RingInv
<1>5. \A e \in Entries : e \in Nat \ {0}
  BY Recording DEF RingInv
<1>6. DOMAIN todo' = {e \in stable : e >= a} /\ a \in DOMAIN todo'
  BY <1>1, <1>4, <1>5 DEF Items, FromAnchor
<1>7. Entries' = Entries
  BY <1>1 DEF Entries
<1>8. ASSUME mode = "static"
      PROVE  /\ stable = Collect(table)
             /\ a = Anchor(Stable(Collect(table)))'
  <2>1. snap = table
    BY <1>1, <1>8 DEF TimeInv, RoundInv
  <2>2. stable = Stable(Collect(table)) /\ stable = Collect(table)
    BY <1>8, <2>1 DEF Stable
  <2> QED
    BY <1>4, <1>8, <2>2, SameAnchor
<1> HIDE DEF stable
<1>9. ASSUME NEW e \in DOMAIN todo', NEW x \in a .. e - 1
      PROVE  x \in DOMAIN todo'
  <2>1. e \in Entries /\ x \in 1 .. e /\ x < e /\ a <= x
    BY <1>3, <1>4, <1>5, <1>6
  <2>2. x \in Entries
    BY <2>1, Recording DEF RingInv
  <2>3. CASE mode = "static"
    <3>1. x \in a .. e /\ e \in stable
      BY <1>4, <1>5, <1>6, <2>1
    <3>2. x \in stable
      BY <1>4, <1>8, <2>3, <3>1 DEF FileInv
    <3> QED
      BY <1>4, <1>5, <1>6, <2>1, <2>2, <3>2
  <2>4. CASE mode # "static"
    <3>1. TodoInv' /\ mode' # "static"
      BY <1>1, <2>4, FollowFirstRead DEF FollowInv
    <3>2. x \notin DOMAIN todo' \cup gone' => x < a
      BY <1>2, <1>6, <1>7, <2>1, <2>2, <3>1 DEF TodoInv
    <3> QED
      BY <1>4, <1>5, <2>1, <2>2, <3>2
  <2> QED
    BY <2>3, <2>4
<1>10. Had(a)' = {}
  BY <1>2, <1>4, <1>5 DEF Had
<1>11. RangeInv(a)'
  <2>1. a \in Entries' /\ DOMAIN todo' # {}
    BY <1>4, <1>6, <1>7
  <2>2. \A e \in DOMAIN todo' : a <= e
    BY <1>6, <1>4, <1>3, <1>5
  <2>3. a .. last_cursor' = {}
    BY <1>2, <1>4, <1>5
  <2>4. mode' = "static" => a = Anchor(Stable(Collect(table)))'
    BY <1>1, <1>8
  <2> QED
    BY <1>9, <2>1, <2>2, <2>3, <2>4 DEF RangeInv
<1>12. UnitInv(Reset(<<>>), {}, Reach(a))
  <2>1. SentSince(<<>>, Reach(a))
    BY DEF SentSince
  <2> QED
    BY <2>1, UnitReset
<1>13. PiecesIn(Had(a)') = {}
  BY <1>10 DEF PiecesIn
<1>14. Reset(<<>>).sent = <<>> /\ WholeSent(<<>>)
  BY DEF Reset, WholeSent
<1> QED
  BY <1>1, <1>2, <1>4, <1>11, <1>12, <1>13, <1>14, WholeNext

(* It goes on behind the last entry that was sent.                         *)
LEMMA WholeNextRead ==
  ASSUME RingInv, FollowInv, WholeInv, NextRead, [Next]_vars, gone' = {}
  PROVE  WholeInv'
<1>1. /\ pc = "payload" /\ started /\ mode = "live" /\ hevc' = hevc
      /\ UNCHANGED <<script, mode, skip, last_cursor>>
      /\ todo' = Items({r \in Stable(Collect(snap)) : r > last_cursor})
      /\ gone = {}
  BY DEF NextRead, KeepRing
<1>2. DOMAIN todo = {}
  BY <1>1 DEF FollowInv, ReaderType
<1>3. PICK a \in Entries : RangeInv(a) /\ UnitInv(hevc, Fed(a), Reach(a))
  BY <1>1 DEF WholeInv
<1>4. a \in Nat \ {0} /\ a <= last_cursor /\ last_cursor \in Nat \ {0}
  BY <1>2, <1>3, Recording DEF RangeInv, RingInv, FollowInv, ReaderType
<1>5. Entries' = Entries /\ \A e \in Entries : e \in Nat
  BY <1>1, Recording DEF Entries, RingInv
<1>6. TodoInv' /\ ReaderType'
  BY FollowNextRead DEF FollowInv
<1>7. \A e \in DOMAIN todo' : last_cursor < e /\ e \in Entries
  <2>1. Collect(snap) \in SUBSET Entries
    BY <1>1, Collected DEF FollowInv, ReaderType
  <2>2. Stable(Collect(snap)) \subseteq Entries
    BY <2>1, StableOnes DEF RingInv
  <2>3. \A e \in DOMAIN todo' : e \in Stable(Collect(snap)) /\ e > last_cursor
    BY <1>1 DEF Items
  <2> QED
    BY <1>4, <1>5, <2>2, <2>3
<1>8. ASSUME NEW e \in DOMAIN todo', NEW x \in a .. e - 1
      PROVE  x \in DOMAIN todo' \/ x <= last_cursor
  <2>0. e \in Nat
    BY <1>5, <1>7
  <2>1. x \in 1 .. e /\ x < e
    BY <1>4, <2>0
  <2>2. x \in Entries
    BY <1>7, <2>1, Recording DEF RingInv
  <2> QED
    BY <1>1, <1>4, <1>5, <1>6, <2>1, <2>2 DEF TodoInv
<1>9. RangeInv(a)'
  <2>1. ASSUME NEW e \in DOMAIN todo'
        PROVE  a <= e /\ \A x \in a .. last_cursor : x < e
    <3>1. e \in Nat /\ last_cursor < e
      BY <1>5, <1>7
    <3> QED
      BY <1>4, <3>1
  <2> QED
    BY <1>1, <1>4, <1>5, <1>8, <2>1 DEF RangeInv
<1>10. Had(a)' = Had(a)
  <2>1. \A x \in a .. last_cursor : x \notin DOMAIN todo'
    BY <1>4, <1>5, <1>7
  <2> QED
    BY <1>1, <1>2, <2>1 DEF Had
<1> QED
  BY <1>1, <1>3, <1>9, <1>10, WholeNext DEF Fed, WholeInv

(* A replay begins again at the same key frame.                            *)
LEMMA WholeReplay ==
  ASSUME RingInv, FollowInv, TimeInv, FileInv, WholeInv, Replay, [Next]_vars,
         gone' = {}
  PROVE  WholeInv'
<1>1. /\ pc = "payload" /\ started /\ mode = "static"
      /\ hevc' = Reset(hevc.sent) /\ gone = {}
      /\ UNCHANGED <<script, mode, skip, table, last_cursor>>
      /\ todo' = Items(FromAnchor(Stable(Collect(snap))))
  BY DEF Replay, KeepRing, ringVars
<1>2. DOMAIN todo = {} /\ snap = table
  BY <1>1 DEF FollowInv, ReaderType, TimeInv, RoundInv
<1>3. PICK a \in Entries : RangeInv(a) /\ UnitInv(hevc, Fed(a), Reach(a))
  BY <1>1 DEF WholeInv
<1>4. a \in Nat \ {0} /\ a <= last_cursor /\ last_cursor \in Nat \ {0}
  BY <1>2, <1>3, Recording DEF RangeInv, RingInv, FollowInv, ReaderType
<1>5. Entries' = Entries /\ \A e \in Entries : e \in Nat
  BY <1>1, Recording DEF Entries, RingInv
<1>6. /\ a = Anchor(Stable(Collect(table))) /\ Stable(Collect(table)) = Collect(table)
      /\ Collect(table) \in SUBSET Entries
  BY <1>1, <1>3, Collected DEF RangeInv, Stable, RingInv, RingType
<1>7. a \in Collect(table) /\ last_cursor \in Collect(table)
  <2>1. a \in Collect(table)
    BY <1>4, <1>6, AnchorOne DEF RingInv
  <2> QED
    BY <1>1, <1>4, <2>1 DEF FileInv
<1>8. DOMAIN todo' = {r \in Collect(table) : r >= a}
  BY <1>1, <1>2, <1>6 DEF Items, FromAnchor
<1>9. ASSUME NEW e \in Collect(table), NEW x \in a .. e
      PROVE  x \in DOMAIN todo'
  <2>1. x \in Collect(table) /\ x >= a
    BY <1>1, <1>4, <1>5, <1>6, <1>7 DEF FileInv
  <2> QED
    BY <1>8, <2>1
<1>10. Had(a)' = {}
  BY <1>1, <1>7, <1>9 DEF Had
<1>11. RangeInv(a)'
  <2>1. \A e \in DOMAIN todo' : e \in Collect(table) /\ a <= e /\ e \in Nat
    BY <1>4, <1>5, <1>6, <1>8
  <2>2. \A e \in DOMAIN todo' : \A x \in a .. e - 1 : x \in DOMAIN todo'
    BY <1>4, <1>9, <2>1
  <2>3. \A x \in a .. last_cursor : x \in DOMAIN todo'
    BY <1>7, <1>9
  <2>4. a = Anchor(Stable(Collect(table)))'
    BY <1>1, <1>6, SameAnchor
  <2> QED
    BY <1>1, <1>3, <1>4, <1>5, <2>1, <2>2, <2>3, <2>4 DEF RangeInv
<1>12. UnitInv(Reset(hevc.sent), {}, Reach(a))
  <2>1. SentSince(hevc.sent, Reach(a))
    BY <1>3 DEF UnitInv
  <2> QED
    BY <1>1, <2>1, UnitReset
<1>13. PiecesIn(Had(a)') = {}
  BY <1>10 DEF PiecesIn
<1>14. Reset(hevc.sent).sent = hevc.sent /\ WholeSent(hevc.sent)
  BY <1>1 DEF Reset, WholeInv
<1> QED
  BY <1>1, <1>11, <1>12, <1>13, <1>14, WholeNext

(* The oldest entry is fed.                                                *)
LEMMA WholeSendEntry ==
  ASSUME RingInv, FollowInv, HevcInv, TimeInv, WholeInv, SendEntry, [Next]_vars,
         gone' = {}
  PROVE  WholeInv'
<1>1. PICK e \in DOMAIN todo :
        /\ e = Min(DOMAIN todo) /\ e \in Entries /\ todo[e] \in Entries
        /\ \A x \in DOMAIN todo : e <= x
        /\ Ts(e) \in Nat /\ Chunk(todo[e]) \in Seq(Piece)
  BY EntrySent
<1>2. /\ pc = "send" /\ UNCHANGED <<script, mode, skip, gone>> /\ gone = {}
      /\ hevc' = IF script[e].video THEN Pend(hevc, Chunk(todo[e]), Ts(e)) ELSE hevc
      /\ last_cursor' = e
      /\ todo' = [x \in DOMAIN todo \ {e} |-> todo[x]]
  BY <1>1 DEF SendEntry, KeepRing
<1>3. DOMAIN todo' = DOMAIN todo \ {e} /\ todo[e] = e
  BY <1>1, <1>2 DEF TimeInv, Exact
<1>4. PICK a \in Entries : RangeInv(a) /\ UnitInv(hevc, Fed(a), Reach(a))
  <2>1. started
    BY <1>2 DEF FollowInv, ReaderType
  <2> QED
    BY <1>2, <2>1 DEF WholeInv
<1>5. /\ Setting /\ Entries' = Entries /\ a \in Nat /\ last_cursor \in Nat
      /\ \A x \in Entries : x \in Nat \ {0} /\ 1 .. x \subseteq Entries
      /\ \A x \in DOMAIN todo : x \in Nat
  <2>1. Setting /\ \A x \in Entries : x \in Nat \ {0} /\ 1 .. x \subseteq Entries
    BY Recording DEF RingInv
  <2>2. \A x \in DOMAIN todo : x \in Entries
    BY DEF FollowInv, ReaderType, RingInv, RingType
  <2> QED
    BY <1>2, <2>1, <2>2 DEF Entries, FollowInv, ReaderType
<1>6. /\ a <= e /\ \A x \in a .. last_cursor : x \in DOMAIN todo \/ x < e
      /\ \A x \in a .. e - 1 : x \in DOMAIN todo \/ x <= last_cursor
  BY <1>1, <1>4 DEF RangeInv
<1>7. RangeInv(a)'
  <2>1. ASSUME NEW d \in DOMAIN todo \ {e}
        PROVE  /\ a <= d
               /\ \A x \in a .. d - 1 : x \in DOMAIN todo \ {e} \/ x <= e
               /\ \A x \in a .. e : x \in DOMAIN todo \ {e} \/ x < d
    <3>1. e < d /\ d \in Nat /\ e \in Nat
      BY <1>1, <1>5
    <3>2. ASSUME NEW x \in a .. d - 1 PROVE x \in DOMAIN todo \ {e} \/ x <= e
      <4>1. x \in DOMAIN todo \/ x <= last_cursor
        BY <1>4 DEF RangeInv
      <4>2. x \in a .. last_cursor => x \in DOMAIN todo \/ x < e
        BY <1>6
      <4> QED
        BY <1>5, <3>1, <4>1, <4>2
    <3> QED
      BY <1>4, <1>5, <3>1, <3>2 DEF RangeInv
  <2>2. mode' = "static" => a = Anchor(Stable(Collect(table)))'
    BY <1>2, <1>4, SameAnchor DEF RangeInv
  <2> QED
    BY <1>2, <1>3, <1>4, <1>5, <1>6, <2>1, <2>2 DEF RangeInv
<1>8. Had(a)' = Had(a) \cup {e} /\ \A x \in Had(a) : x \in Entries /\ x < e
  <2>1. ASSUME NEW x \in Had(a) PROVE x \in Entries /\ x < e /\ x \in a .. e
    <3>1. x \in a .. last_cursor /\ x < e
      BY <1>6 DEF Had
    <3>2. x \in 1 .. e
      BY <1>1, <1>5, <3>1
    <3> QED
      BY <1>1, <1>5, <3>1, <3>2
  <2>2. ASSUME NEW x \in a .. e, x \notin DOMAIN todo \ {e}
        PROVE  x \in Had(a) \cup {e}
    <3>1. CASE x # e
      <4>1. x \in a .. e - 1 /\ x \notin DOMAIN todo
        BY <1>1, <1>5, <2>2, <3>1
      <4>2. x <= last_cursor
        BY <1>6, <4>1
      <4>3. x \in a .. last_cursor
        BY <1>5, <4>1, <4>2
      <4> QED
        BY <4>1, <4>3 DEF Had
    <3> QED
      BY <3>1
  <2>3. e \in a .. e
    BY <1>1, <1>5, <1>6
  <2>4. Had(a)' = {x \in a .. e : x \notin DOMAIN todo \ {e}}
    BY <1>2, <1>3 DEF Had
  <2>5. \A x \in Had(a) : x \notin DOMAIN todo
    BY DEF Had
  <2> QED
    BY <2>1, <2>2, <2>3, <2>4, <2>5
<1>9. WholeSent(hevc.sent)
  BY <1>2 DEF WholeInv
<1>10. CASE script[e].video
  <2> DEFINE chunk == Chunk(e)
             r     == Pend(hevc, chunk, Ts(e))
  <2>1. hevc' = r /\ chunk \in Seq(Piece)
    BY <1>1, <1>2, <1>3, <1>10
  <2>2. PiecesIn(Had(a)') = Fed(a) \cup ToSet(chunk)
    BY <1>8, <1>10 DEF PiecesIn, Fed
  <2>3. Ascending(chunk)
    BY <1>1, <1>5, <1>10, ChunkOrder DEF Ascending
  <2>4. Fed(a) \subseteq Piece /\ \A p \in Fed(a), q \in ToSet(chunk) : Precedes(p, q)
    <3> SUFFICES ASSUME NEW p \in Fed(a)
                 PROVE  p \in Piece /\ \A q \in ToSet(chunk) : Precedes(p, q)
      OBVIOUS
    <3>1. Had(a) \in SUBSET Entries
      BY <1>8
    <3>2. PICK x \in Had(a) :
            script[x].video /\ \E i \in DOMAIN Chunk(x) : p = Chunk(x)[i]
      BY <1>5, <3>1, PieceAt DEF Fed
    <3>3. x \in Entries /\ x < e /\ Chunk(x) \in Seq(Piece)
      BY <1>5, <1>8, ChunkOf
    <3>4. p \in Piece
      BY <3>2, <3>3
    <3>5. ASSUME NEW q \in ToSet(chunk) PROVE Precedes(p, q)
      <4>1. PICK j \in DOMAIN chunk : q = chunk[j]
        BY DEF ToSet
      <4> QED
        BY <1>1, <1>5, <1>10, <3>2, <3>3, <4>1, ChunkOrder
    <3> QED
      BY <3>4, <3>5
  <2> HIDE DEF chunk
  <2>5. UnitInv(r, Fed(a) \cup ToSet(chunk), Reach(a))
    BY <1>1, <1>4, <2>1, <2>3, <2>4, UnitPended DEF HevcInv
  <2>6. r.sent = hevc.sent
    BY DEF Pend, HevcInv, Hevc
  <2> HIDE DEF r
  <2> QED
    BY <1>2, <1>7, <1>9, <2>1, <2>2, <2>5, <2>6, WholeNext
<1>11. CASE ~script[e].video
  <2>1. hevc' = hevc
    BY <1>2, <1>11
  <2>2. PiecesIn(Had(a)') = Fed(a)
    BY <1>8, <1>11 DEF PiecesIn, Fed
  <2> QED
    BY <1>2, <1>4, <1>7, <1>9, <2>1, <2>2, WholeNext
<1> QED
  BY <1>10, <1>11

(* A NAL unit is routed.                                                   *)
LEMMA WholeSendNal ==
  ASSUME RingInv, FollowInv, HevcInv, TimeInv, WholeInv, SendNal, [Next]_vars,
         gone' = {}
  PROVE  WholeInv'
<1>1. /\ pc = "send" /\ UNCHANGED <<script, mode, skip, gone, todo, last_cursor>>
      /\ gone = {} /\ IsComplete(hevc) /\ hevc' = FeedOne(hevc, loop_offset_ms)
  BY DEF SendNal, KeepRing
<1>2. started
  BY <1>1 DEF FollowInv, ReaderType
<1>3. PICK a \in Entries : RangeInv(a) /\ UnitInv(hevc, Fed(a), Reach(a))
  BY <1>1, <1>2 DEF WholeInv
<1>4. Setting /\ Bits(Stream(script, skip)) /\ WholeSent(hevc.sent)
  BY <1>1, StreamBits DEF RingInv, WholeInv
<1>5. Framed(Fed(a), Reach(a), Stream(script, skip))
  BY <1>3, RangeFramed
<1>6. hevc \in Hevc /\ Aligned(hevc) /\ Keyed(hevc) /\ loop_offset_ms \in Nat
  BY DEF HevcInv, TimeInv, RoundInv
<1> DEFINE r == FeedOne(hevc, loop_offset_ms)
<1>7. UnitInv(r, Fed(a), Reach(a)) /\ WholeSent(r.sent)
  BY <1>1, <1>3, <1>4, <1>5, <1>6, UnitFed
<1> HIDE DEF r
<1>8. PiecesIn(Had(a)') = Fed(a)
  BY <1>1 DEF Had, Fed
<1>9. RangeInv(a)'
  <2>1. Entries' = Entries
    BY <1>1 DEF Entries
  <2> QED
    BY <1>1, <1>3, <2>1, SameAnchor DEF RangeInv
<1> QED
  BY <1>1, <1>7, <1>8, <1>9, WholeNext DEF r

(* While nothing is overwritten, every step keeps what was sent whole.     *)
LEMMA WholeStep ==
  ASSUME RingInv, FollowInv, HevcInv, TimeInv, FileInv, WholeInv, [Next]_vars
  PROVE  WholeInv'
<1>1. CASE gone' # {}
  BY <1>1 DEF WholeInv
<1>2. CASE gone' = {}
  <2>1. CASE FirstRead
    BY <1>2, <2>1, WholeFirstRead
  <2>2. CASE NextRead
    BY <1>2, <2>2, WholeNextRead
  <2>3. CASE Replay
    BY <1>2, <2>3, WholeReplay
  <2>4. CASE SendEntry
    BY <1>2, <2>4, WholeSendEntry
  <2>5. CASE SendNal
    BY <1>2, <2>5, WholeSendNal
  <2>6. CASE ReadTable \/ NoAnchor \/ EndOfRange \/ Fails
    <3>1. hevc' = hevc /\ (gone' = {} /\ started => gone = {})
      BY <2>6 DEF ReadTable, NoAnchor, EndOfRange, Fails
    <3>2. started' /\ pc' # "closed" =>
            started /\ pc # "closed" /\ UNCHANGED <<todo, last_cursor>>
      BY <2>6 DEF ReadTable, NoAnchor, EndOfRange, Fails
    <3> QED
      BY <3>1, <3>2, WholeKeeps
  <2>7. CASE UNCHANGED <<pc, started, todo, last_cursor, hevc, gone>>
    BY <2>7, WholeKeeps
  <2> QED
    BY <2>1, <2>2, <2>3, <2>4, <2>5, <2>6, <2>7 DEF Next, vars, readerVars,
       Writer, WritePayload, WriteTable, Repeat, Tabulate, Reader
<1> QED
  BY <1>1, <1>2

(* WholeUnits for any recording that is a bitstream, cut into entries in   *)
(* any way: while nothing is overwritten, what a client is sent are whole  *)
(* access units, one after the other.                                      *)
THEOREM UnitsAreWhole == Spec => []WholeUnits
<1>1. Init => FileInv /\ WholeInv
  BY FileInit, WholeInit, Zenon
<1>2. Inv /\ FileInv /\ WholeInv /\ [Next]_vars => FileInv' /\ WholeInv'
  BY FileStep, WholeStep DEF Inv
<1>3. WholeInv => WholeUnits
  BY DEF WholeInv, WholeUnits, WholeSent, Restart, Unit, UnitOf, AuOf
<1> QED
  BY <1>1, <1>2, <1>3, InvHolds, PTL DEF Spec

=============================================================================
