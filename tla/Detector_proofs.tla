--------------------------- MODULE Detector_proofs ---------------------------
(***************************************************************************)
(* Proofs about Detector: whatever is said, in whatever chunks it arrives, *)
(* and however often the ring and the int that indexes it wrap.            *)
(***************************************************************************)
EXTENDS Detector, RingArithmetic, SequenceTheorems, TLAPS

-----------------------------------------------------------------------------
(* Places in the ring *)

(* The int wraps where the ring does. *)
LEMMA SlotIsRest ==
  ASSUME NEW i \in Int
  PROVE  Slot(i) = i % pre_capacity
<1> DEFINE c == pre_capacity
           w == IntRange
<1>1. c \in Nat \ {0} /\ w \in Nat \ {0} /\ w % c = 0
  BY RingAssumption
<1> HIDE DEF c, w
<1>2. w = (w \div c) * c /\ w \div c \in Int
  BY <1>1, Division
<1> DEFINE t == w \div c
           p == i \div w
<1>3. i = p * w + (i % w) /\ p \in Int /\ i % w \in Int
  BY <1>1, Division
<1>4. w = t * c /\ t \in Int
  BY <1>2
<1> HIDE DEF t, p
<1>5. p * w = (p * t) * c /\ p * t \in Int
  BY <1>1, <1>3, <1>4
<1>6. i = (i % w) + (p * t) * c
  BY <1>1, <1>3, <1>5
<1>7. ((i % w) + (p * t) * c) % c = (i % w) % c
  BY <1>1, <1>3, <1>5, WholeTurns
<1> QED
  BY <1>6, <1>7 DEF Slot, c, w

(* Places of samples that are in the ring together. *)
LEMMA SlotsDiffer ==
  ASSUME NEW i \in Int, NEW j \in Int,
         Slot(i) = Slot(j), 0 <= i - j, i - j < pre_capacity
  PROVE  i = j
  BY SlotIsRest, SameRest, RingAssumption

(* Places are in the ring.                                                 *)
LEMMA SlotType ==
  ASSUME NEW i \in Int
  PROVE  Slot(i) \in 0 .. pre_capacity - 1
  BY SlotIsRest, Division, RingAssumption

(* After the index has wrapped the places are the same. *)
LEMMA SlotWraps ==
  ASSUME NEW i \in Int, NEW j \in Int
  PROVE  Slot((i % IntRange) - j) = Slot(i - j)
<1> DEFINE w == IntRange
           p == i \div w
           x == i % w
<1>1. w \in Nat \ {0}
  BY RingAssumption
<1>2. i = p * w + x /\ p \in Int /\ x \in Int
  BY <1>1, Division
<1> HIDE DEF w, p, x
<1>3. p * w \in Int
  BY <1>1, <1>2
<1>4. i - j = (x - j) + p * w
  BY <1>2, <1>3
<1>5. ((x - j) + p * w) % w = (x - j) % w
  <2>1. x - j \in Int
    BY <1>2
  <2> QED
    BY <1>1, <1>2, <2>1, WholeTurns
<1> QED
  BY <1>4, <1>5 DEF Slot, w, x

-----------------------------------------------------------------------------
(* The inductive invariant *)

(* The position of the last sample handled with its frame. *)
Base == seen - frame_fill

TypeOK ==
  /\ pc \in {"read", "samples", "done"} /\ active \in BOOLEAN
  /\ seen \in Nat /\ count \in Nat /\ frame_fill \in 0 .. frame_len - 1
  /\ speech_run \in Nat /\ quiet_run \in Nat /\ hush \in Nat
  /\ pre_write \in Int /\ pre_count \in 0 .. pre_capacity
  /\ utterance \in Seq(Int) /\ Len(utterance) <= max_utt_samples
  /\ loud_from \in Int /\ onset \in Int /\ closed \in Int

Listening == ~active /\ pc # "done"

(* The samples up to a position, without a gap. *)
EndsAt(utt, last) ==
  \A k \in 1 .. Len(utt) : utt[k] = last - Len(utt) + k

(* An utterance ends with the last sample handled. *)
PieceInv == active => Len(utterance) > 0 /\ EndsAt(utterance, Base)

(* The ring holds the last pre_count samples, backwards from pre_write. *)
RingInv ==
  Listening => \A k \in 1 .. pre_count :
                 pre_ring[Slot(pre_write - k)] = Base - k + 1

(* The loud frames so far are in the ring, and nothing of the utterance    *)
(* before.                                                                 *)
RunInv ==
  Listening => /\ speech_run < start_frames
               /\ speech_run * frame_len <= pre_count
               /\ speech_run > 0 =>
                    loud_from = Base - speech_run * frame_len + 1
               /\ closed + pre_count <= Base

StartInv ==
  active => /\ closed < Base - Len(utterance) + 1
            /\ Base - Len(utterance) + 1 <= onset

QuietInv == active => quiet_run <= hush

Inv == TypeOK /\ PieceInv /\ RingInv /\ RunInv /\ StartInv /\ QuietInv

(* The lengths as the provers want them. *)
LEMMA Lengths ==
  /\ frame_len \in Nat \ {0} /\ max_utt_samples \in Nat \ {0}
  /\ start_frames \in Nat \ {0} /\ end_frames \in Nat \ {0}
  /\ pre_capacity \in Nat \ {0} /\ IntRange \in Nat \ {0}
  /\ (start_frames - 1) * frame_len <= pre_capacity
  /\ pre_capacity + frame_len <= max_utt_samples
  BY DetectorAssumption, RingAssumption

-----------------------------------------------------------------------------
(* Pieces of the input *)

(* A frame is so many samples from a position on. *)
LEMMA PositionsSeq ==
  ASSUME NEW from \in Int, NEW n \in Nat
  PROVE  /\ Positions(from, n) \in Seq(Int) /\ Len(Positions(from, n)) = n
         /\ \A k \in 1 .. n : Positions(from, n)[k] = from + k - 1
<1>1. \A k \in 1 .. n : from + k - 1 \in Int
  OBVIOUS
<1> QED
  BY <1>1 DEF Positions

(* What utterance_append makes of a piece and the frame behind it is one   *)
(* piece, with the whole frame or as long as it may get.                   *)
LEMMA JoinFrame ==
  ASSUME NEW utt \in Seq(Int), NEW base \in Int, EndsAt(utt, base),
         Len(utt) <= max_utt_samples,
         NEW u, u = Appended(utt, Positions(base + 1, frame_len))
  PROVE  /\ u \in Seq(Int)
         /\ Len(u) >= Len(utt) /\ Len(u) <= max_utt_samples
         /\ Len(u) - Len(utt) <= frame_len
         /\ Len(u) = Len(utt) + frame_len \/ Len(u) = max_utt_samples
         /\ EndsAt(u, base + Len(u) - Len(utt))
<1> DEFINE frame == Positions(base + 1, frame_len)
           m     == Lesser(Len(frame), max_utt_samples - Len(utt))
           part  == SubSeq(frame, 1, m)
<1>1. /\ frame \in Seq(Int) /\ Len(frame) = frame_len
      /\ \A k \in 1 .. frame_len : frame[k] = base + k
  <2>1. base + 1 \in Int /\ frame_len \in Nat
    BY Lengths
  <2>2. \A k \in 1 .. frame_len : frame[k] = base + 1 + k - 1
    BY <2>1, PositionsSeq
  <2> HIDE DEF frame
  <2> QED
    BY <2>1, <2>2, PositionsSeq DEF frame
<1>2. u = utt \o part
  BY DEF Appended
<1>3. Len(utt) \in Nat
  BY LenProperties
<1> HIDE DEF frame
<1>4. /\ m \in 0 .. frame_len /\ m <= max_utt_samples - Len(utt)
      /\ m = frame_len \/ m = max_utt_samples - Len(utt)
  BY <1>1, <1>3, Lengths DEF Lesser
<1> HIDE DEF m
<1>5. /\ part \in Seq(Int) /\ Len(part) = m
      /\ \A k \in 1 .. m : part[k] = base + k
  <2>1. CASE m = 0
    <3>1. part = <<>>
      BY <1>1, <2>1
    <3> QED
      BY <2>1, <3>1
  <2>2. CASE m # 0
    BY <1>1, <1>4, <2>2, SubSeqProperties
  <2> QED
    BY <2>1, <2>2
<1> HIDE DEF part
<1>6. /\ u \in Seq(Int) /\ Len(u) = Len(utt) + m
      /\ \A k \in 1 .. Len(utt) + m :
           u[k] = IF k <= Len(utt) THEN utt[k] ELSE part[k - Len(utt)]
  <2>1. part \in Seq(Int) /\ Len(part) = m
    BY <1>5
  <2> DEFINE all == utt \o part
  <2>2. /\ all \in Seq(Int) /\ Len(all) = Len(utt) + Len(part)
        /\ \A k \in 1 .. Len(utt) + Len(part) :
             all[k] = IF k <= Len(utt) THEN utt[k] ELSE part[k - Len(utt)]
    BY <2>1, ConcatProperties
  <2>3. u = all
    BY <1>2
  <2> HIDE DEF all
  <2> QED
    BY <2>1, <2>2, <2>3
<1>7. ASSUME NEW k \in 1 .. Len(u)
      PROVE  u[k] = (base + Len(u) - Len(utt)) - Len(u) + k
  <2>1. CASE k <= Len(utt)
    <3>1. k \in 1 .. Len(utt) /\ u[k] = utt[k]
      BY <1>3, <1>6, <2>1
    <3>2. utt[k] = base - Len(utt) + k
      BY <3>1 DEF EndsAt
    <3> QED
      BY <1>3, <1>4, <1>6, <3>1, <3>2
  <2>2. CASE ~(k <= Len(utt))
    <3>1. k - Len(utt) \in 1 .. m /\ u[k] = part[k - Len(utt)]
      BY <1>3, <1>4, <1>6, <2>2
    <3>2. u[k] = base + (k - Len(utt))
      BY <1>5, <3>1
    <3> QED
      BY <1>3, <1>4, <1>6, <3>2
  <2> QED
    BY <2>1, <2>2
<1>8. EndsAt(u, base + Len(u) - Len(utt))
  BY <1>7 DEF EndsAt
<1>9. /\ Len(u) >= Len(utt) /\ Len(u) <= max_utt_samples
      /\ Len(u) - Len(utt) <= frame_len
      /\ Len(u) = Len(utt) + frame_len \/ Len(u) = max_utt_samples
  BY <1>3, <1>4, <1>6, Lengths
<1> QED
  BY <1>6, <1>8, <1>9

(* utterance_copy_preroll finds all that is in the ring, in order. *)
LEMMA PrerollSeq ==
  ASSUME TypeOK, RingInv, Listening
  PROVE  Preroll \in Seq(Int) /\ Len(Preroll) = pre_count /\ EndsAt(Preroll, Base)
<1>1. /\ pre_count \in Nat /\ pre_write \in Int /\ Base \in Int
      /\ Lesser(pre_count, max_utt_samples) = pre_count
  BY Lengths DEF TypeOK, Lesser, Base
<1>2. ASSUME NEW k \in 1 .. pre_count
      PROVE  pre_ring[Slot(pre_write - pre_count + k - 1)] = Base - pre_count + k
  <2> DEFINE j == pre_count - k + 1
  <2>1. j \in 1 .. pre_count /\ pre_write - j = pre_write - pre_count + k - 1
        /\ Base - j + 1 = Base - pre_count + k
    BY <1>1
  <2> HIDE DEF j
  <2>2. pre_ring[Slot(pre_write - j)] = Base - j + 1
    BY <2>1 DEF RingInv
  <2> QED
    BY <2>1, <2>2
<1>3. Preroll = [k \in 1 .. pre_count |-> Base - pre_count + k]
  BY <1>1, <1>2 DEF Preroll
<1>4. \A k \in 1 .. pre_count : Base - pre_count + k \in Int
  BY <1>1
<1> QED
  BY <1>1, <1>3, <1>4 DEF EndsAt

(* pre_ring_push puts a frame where it overwrites nothing that still       *)
(* counts.                                                                 *)
LEMMA PushFrame ==
  ASSUME TypeOK, RingInv, Listening,
         NEW ring, ring = Pushed(Positions(Base + 1, frame_len)),
         NEW j \in 1 .. Lesser(pre_count + frame_len, pre_capacity)
  PROVE  ring[Slot(((pre_write + frame_len) % IntRange) - j)]
           = Base + frame_len - j + 1
<1> DEFINE frame == Positions(Base + 1, frame_len)
           s     == Slot((pre_write + frame_len) - j)
           ks    == {k \in 1 .. Len(frame) : Slot(pre_write + k - 1) = s}
<1>1. /\ pre_count \in 0 .. pre_capacity /\ pre_write \in Int /\ Base \in Int
      /\ frame_len \in Nat \ {0} /\ pre_capacity \in Nat \ {0}
      /\ j \in Nat \ {0} /\ j <= pre_count + frame_len /\ j <= pre_capacity
  BY Lengths DEF TypeOK, Base, Lesser
<1>2. Len(frame) = frame_len /\ \A k \in 1 .. frame_len : frame[k] = Base + k
  <2>1. Base + 1 \in Int /\ frame_len \in Nat
    BY <1>1
  <2>2. \A k \in 1 .. frame_len : frame[k] = Base + 1 + k - 1
    BY <2>1, PositionsSeq
  <2> HIDE DEF frame
  <2> QED
    BY <1>1, <2>1, <2>2, PositionsSeq DEF frame
<1>3. /\ Slot(((pre_write + frame_len) % IntRange) - j) = s
      /\ s \in 0 .. pre_capacity - 1
  <2> DEFINE i == pre_write + frame_len
  <2>1. i \in Int /\ i - j \in Int /\ j \in Int
    BY <1>1
  <2> HIDE DEF i
  <2>2. Slot((i % IntRange) - j) = Slot(i - j)
    BY <2>1, SlotWraps
  <2>3. Slot(i - j) \in 0 .. pre_capacity - 1
    BY <2>1, SlotType
  <2>4. s = Slot(i - j)
    BY DEF s, i
  <2> HIDE DEF s, ks
  <2> QED
    BY <2>2, <2>3, <2>4 DEF i
<1>4. ring[s] = IF ks = {} THEN pre_ring[s]
                ELSE frame[CHOOSE k \in ks : \A i \in ks : i <= k]
  BY <1>3 DEF Pushed
<1> HIDE DEF frame
<1>5. CASE j <= frame_len
  <2> DEFINE k == frame_len - j + 1
  <2>1. k \in 1 .. frame_len /\ pre_write + k - 1 = (pre_write + frame_len) - j
    BY <1>1, <1>5
  <2>2. k \in ks
    BY <1>2, <2>1
  <2>3. ASSUME NEW i \in ks PROVE i <= k
    <3>1. i \in 1 .. frame_len /\ Slot(pre_write + i - 1) = s
      BY <1>2
    <3> SUFFICES ASSUME i > k PROVE FALSE
      BY <2>1, <3>1
    <3>2. /\ pre_write + i - 1 \in Int /\ (pre_write + frame_len) - j \in Int
          /\ (pre_write + i - 1) - ((pre_write + frame_len) - j) > 0
          /\ (pre_write + i - 1) - ((pre_write + frame_len) - j) < pre_capacity
      BY <1>1, <3>1
    <3> QED
      BY <3>1, <3>2, SlotsDiffer
  <2> DEFINE top == CHOOSE x \in ks : \A i \in ks : i <= x
  <2>4. top \in ks /\ \A i \in ks : i <= top
    BY <2>2, <2>3
  <2>5. top = k
    <3>1. top <= k /\ k <= top /\ top \in 1 .. frame_len
      BY <1>2, <2>2, <2>3, <2>4
    <3> HIDE DEF top
    <3> QED
      BY <2>1, <3>1
  <2>6. ring[s] = frame[k]
    BY <1>4, <2>2, <2>5
  <2>7. frame[k] = Base + frame_len - j + 1
    BY <1>1, <1>2, <2>1
  <2> QED
    BY <1>3, <2>6, <2>7
<1>6. CASE ~(j <= frame_len)
  <2> DEFINE i == j - frame_len
  <2>1. i \in 1 .. pre_count /\ pre_write - i = (pre_write + frame_len) - j
        /\ Base - i + 1 = Base + frame_len - j + 1
    BY <1>1, <1>6
  <2>2. ks = {}
    <3> SUFFICES ASSUME NEW k \in ks PROVE FALSE
      OBVIOUS
    <3>1. k \in 1 .. frame_len /\ Slot(pre_write + k - 1) = s
      BY <1>2
    <3>2. /\ pre_write + k - 1 \in Int /\ (pre_write + frame_len) - j \in Int
          /\ (pre_write + k - 1) - ((pre_write + frame_len) - j) > 0
          /\ (pre_write + k - 1) - ((pre_write + frame_len) - j) < pre_capacity
      BY <1>1, <1>6, <3>1
    <3> QED
      BY <3>1, <3>2, SlotsDiffer
  <2>3. pre_ring[s] = Base - i + 1
    BY <2>1 DEF RingInv
  <2> QED
    BY <1>3, <1>4, <2>1, <2>2, <2>3
<1> QED
  BY <1>5, <1>6

-----------------------------------------------------------------------------
(* The steps *)

(* The detector starts silent, with an empty ring. *)
LEMMA Initially == Init => Inv
<1> SUFFICES ASSUME Init PROVE Inv
  OBVIOUS
<1>1. TypeOK
  <2>1. utterance \in Seq(Int) /\ Len(utterance) = 0
    BY DEF Init
  <2>2. frame_fill \in 0 .. frame_len - 1 /\ pre_count \in 0 .. pre_capacity
    BY Lengths DEF Init
  <2>3. active \in BOOLEAN
    BY Zenon DEF Init
  <2> QED
    BY <2>1, <2>2, <2>3, Lengths DEF Init, TypeOK
<1>2. speech_run * frame_len = 0 /\ pre_count = 0 /\ Base = 0 /\ closed = 0
  BY Lengths DEF Init, Base
<1> QED
  BY <1>1, <1>2, Lengths
     DEF Init, Inv, PieceInv, RingInv, RunInv, StartInv, QuietInv

(* What does not handle a frame moves no sample. *)
LEMMA Untouched ==
  ASSUME Inv, TypeOK', Base' = Base, Listening' => Listening,
         UNCHANGED <<pre_ring, pre_write, pre_count, utterance, active,
                     speech_run, quiet_run, loud_from, onset, hush, closed>>
  PROVE  Inv'
<1>1. PieceInv'
  BY DEF Inv, PieceInv, EndsAt
<1>2. RingInv'
  BY DEF Inv, RingInv
<1>3. RunInv'
  BY DEF Inv, RunInv
<1>4. StartInv' /\ QuietInv'
  BY DEF Inv, StartInv, QuietInv
<1> QED
  BY <1>1, <1>2, <1>3, <1>4 DEF Inv

(* A frame of an utterance continues it or ends it, and then the ring is   *)
(* empty and everything in it is over.                                     *)
LEMMA InUtterance ==
  ASSUME Inv, NEW speech \in BOOLEAN,
         FrameInUtterance(Positions(Base + 1, frame_len), speech),
         seen' \in Nat, count' \in Nat, frame_fill' \in 0 .. frame_len - 1,
         Base' = Base + frame_len, pc' = pc, pc # "done",
         hush' = IF speech THEN 0 ELSE Lesser(hush + 1, end_frames),
         loud_from' \in Int, onset' = onset
  PROVE  Inv'
<1> DEFINE frame == Positions(Base + 1, frame_len)
           utt   == Appended(utterance, frame)
           quiet == IF speech THEN 0 ELSE quiet_run + 1
<1>1. /\ active /\ UNCHANGED <<pre_ring, pre_write>>
      /\ Base \in Int /\ utterance \in Seq(Int) /\ Len(utterance) \in Nat
      /\ Len(utterance) > 0 /\ Len(utterance) <= max_utt_samples
      /\ EndsAt(utterance, Base)
  BY LenProperties
     DEF FrameInUtterance, Inv, TypeOK, PieceInv, Base
<1>2. /\ utt \in Seq(Int) /\ Len(utt) \in Nat
      /\ Len(utt) >= Len(utterance) /\ Len(utt) <= max_utt_samples
      /\ Len(utt) - Len(utterance) <= frame_len
      /\ Len(utt) = Len(utterance) + frame_len \/ Len(utt) = max_utt_samples
      /\ EndsAt(utt, Base + Len(utt) - Len(utterance))
  <2> HIDE DEF utt
  <2>1. utt = Appended(utterance, Positions(Base + 1, frame_len))
    BY DEF utt
  <2>2. /\ utt \in Seq(Int)
        /\ Len(utt) >= Len(utterance) /\ Len(utt) <= max_utt_samples
        /\ Len(utt) - Len(utterance) <= frame_len
        /\ Len(utt) = Len(utterance) + frame_len \/ Len(utt) = max_utt_samples
        /\ EndsAt(utt, Base + Len(utt) - Len(utterance))
    BY <1>1, <2>1, JoinFrame
  <2> QED
    BY <2>2, LenProperties
<1>3. /\ quiet \in Nat /\ hush' \in Nat
      /\ quiet < end_frames => quiet <= hush'
  BY Lengths, <1>1 DEF Inv, TypeOK, QuietInv, Lesser
<1>4. CASE quiet >= end_frames \/ Len(utt) >= max_utt_samples
  <2>1. /\ active' = FALSE /\ speech_run' = 0 /\ quiet_run' = 0
        /\ utterance' = <<>> /\ pre_count' = 0 /\ closed' = utt[Len(utt)]
    BY <1>4 DEF FrameInUtterance, Reset, PrerollAfter
  <2> HIDE DEF utt, quiet
  <2>2. closed' = Base + Len(utt) - Len(utterance)
    <3>1. Len(utt) \in 1 .. Len(utt)
      BY <1>1, <1>2
    <3>2. utt[Len(utt)] = (Base + Len(utt) - Len(utterance)) - Len(utt) + Len(utt)
      BY <1>2, <3>1 DEF EndsAt
    <3> QED
      BY <1>1, <1>2, <2>1, <3>2
  <2>3. closed' \in Int /\ closed' <= Base' /\ Base' \in Int
    BY <1>1, <1>2, <2>2, Lengths
  <2>4. TypeOK'
    <3>1. utterance' \in Seq(Int) /\ Len(utterance') = 0
      BY <2>1
    <3>2. pre_count' \in 0 .. pre_capacity
      BY <2>1, Lengths
    <3>3. active' \in BOOLEAN
      BY <2>1, Zenon
    <3> QED
      BY <1>1, <1>3, <2>1, <2>3, <3>1, <3>2, <3>3, Lengths DEF Inv, TypeOK
  <2>5. RunInv'
    <3>1. speech_run' * frame_len = 0
      BY <2>1, Lengths
    <3> QED
      BY <2>1, <2>3, <3>1, Lengths DEF RunInv
  <2>6. RingInv'
    BY <2>1 DEF RingInv
  <2>7. PieceInv' /\ StartInv' /\ QuietInv'
    BY <2>1 DEF PieceInv, StartInv, QuietInv
  <2> QED
    BY <2>4, <2>5, <2>6, <2>7 DEF Inv
<1>5. CASE ~(quiet >= end_frames \/ Len(utt) >= max_utt_samples)
  <2>1. /\ utterance' = utt /\ quiet_run' = quiet
        /\ UNCHANGED <<active, speech_run, pre_count, closed>>
    BY <1>5 DEF FrameInUtterance
  <2> HIDE DEF utt, quiet
  <2>2. Len(utt) = Len(utterance) + frame_len
    BY <1>2, <1>5, Lengths
  <2>3. Base + Len(utt) - Len(utterance) = Base'
    BY <1>1, <1>2, <2>2, Lengths
  <2>4. TypeOK'
    BY <1>1, <1>2, <1>3, <2>1 DEF Inv, TypeOK
  <2>5. PieceInv'
    <3>1. EndsAt(utt, Base')
      BY <1>2, <2>3
    <3>2. Len(utt) > 0
      BY <1>1, <1>2
    <3>3. Len(utterance') > 0 /\ EndsAt(utterance', Base')
      BY <2>1, <3>1, <3>2
    <3> QED
      BY <3>3 DEF PieceInv, EndsAt
  <2>6. StartInv'
    <3>1. Base' - Len(utt) = Base - Len(utterance)
      BY <1>1, <1>2, <2>2, Lengths
    <3> QED
      BY <1>1, <2>1, <3>1 DEF Inv, StartInv
  <2>7. QuietInv'
    BY <1>3, <1>5, <2>1, Lengths DEF QuietInv
  <2>8. RingInv' /\ RunInv'
    BY <1>1, <2>1 DEF RingInv, RunInv, Listening
  <2> QED
    BY <2>4, <2>5, <2>6, <2>7, <2>8 DEF Inv
<1> QED
  BY <1>4, <1>5

(* What was over before the ring began is over before it grew by a frame.  *)
LEMMA StillBefore ==
  ASSUME NEW c \in Int, NEW p \in Int, NEW q \in Int, NEW b \in Int,
         NEW f \in Int, c + p <= b, q <= p + f
  PROVE  c + q <= b + f
  OBVIOUS

(* A frame outside of an utterance goes into the ring, or opens one with   *)
(* what is in the ring in front.                                           *)
LEMMA OutsideUtterance ==
  ASSUME Inv, NEW speech \in BOOLEAN, NEW energy,
         FrameOutside(Positions(Base + 1, frame_len), energy, speech),
         seen' \in Nat, count' \in Nat, frame_fill' \in 0 .. frame_len - 1,
         Base' = Base + frame_len, pc' = pc, pc # "done",
         hush' = IF speech THEN 0 ELSE Lesser(hush + 1, end_frames),
         loud_from' = IF speech /\ speech_run > 0 THEN loud_from
                      ELSE IF speech THEN Base + 1 ELSE Base' + 1,
         onset' = loud_from'
  PROVE  Inv'
<1> DEFINE frame == Positions(Base + 1, frame_len)
<1>1. /\ active = FALSE /\ Listening /\ Base \in Int /\ Base' \in Int
      /\ UNCHANGED closed /\ closed \in Int
      /\ speech_run \in Nat /\ speech_run < start_frames
      /\ pre_count \in 0 .. pre_capacity /\ pre_write \in Int
      /\ speech_run * frame_len <= pre_count
      /\ speech_run > 0 => loud_from = Base - speech_run * frame_len + 1
      /\ closed + pre_count <= Base
  BY Lengths DEF FrameOutside, Inv, TypeOK, RunInv, Listening, Base
<1>2. /\ hush' \in Nat /\ loud_from' \in Int
      /\ speech_run' = IF speech THEN speech_run + 1 ELSE 0
  BY <1>1, Lengths DEF FrameOutside, Inv, TypeOK, Lesser
<1>3. /\ speech_run * frame_len \in Nat
      /\ (speech_run + 1) * frame_len = speech_run * frame_len + frame_len
  BY <1>1, Lengths
<1>4. CASE speech_run' >= start_frames
  <2>1. /\ active' = TRUE /\ quiet_run' = 0
        /\ utterance' = Appended(Preroll, frame)
        /\ UNCHANGED <<pre_ring, pre_write, pre_count>>
    BY <1>4 DEF FrameOutside
  <2>2. Preroll \in Seq(Int) /\ Len(Preroll) = pre_count /\ EndsAt(Preroll, Base)
    BY <1>1, PrerollSeq DEF Inv
  <2>3. Len(Preroll) <= max_utt_samples
    BY <1>1, <2>2, Lengths
  <2>4. /\ utterance' \in Seq(Int)
        /\ Len(utterance') <= max_utt_samples
        /\ Len(utterance') = Len(Preroll) + frame_len
           \/ Len(utterance') = max_utt_samples
        /\ Len(utterance') - Len(Preroll) <= frame_len
        /\ EndsAt(utterance', Base + Len(utterance') - Len(Preroll))
    BY <1>1, <2>1, <2>2, <2>3, JoinFrame
  <2>5. Len(utterance') \in Nat
    BY <2>4, LenProperties
  <2>6. Len(utterance') = pre_count + frame_len
    BY <1>1, <2>2, <2>4, <2>5, Lengths
  <2>7. Base + Len(utterance') - Len(Preroll) = Base'
    BY <1>1, <2>2, <2>6, Lengths
  <2>8. TypeOK'
    BY <1>1, <1>2, <2>1, <2>4 DEF Inv, TypeOK
  <2>9. PieceInv'
    <3>1. EndsAt(utterance', Base')
      BY <2>4, <2>7
    <3>2. Len(utterance') > 0
      BY <1>1, <2>6, Lengths
    <3> QED
      BY <3>1, <3>2 DEF PieceInv, EndsAt
  <2>10. StartInv'
    <3>1. Base' - Len(utterance') + 1 = Base - pre_count + 1
      BY <1>1, <2>6, Lengths
    <3>2. speech
      BY <1>2, <1>4, Lengths
    <3>3. Base - pre_count + 1 <= loud_from'
      <4>1. CASE speech_run > 0
        BY <1>1, <1>3, <3>2, <4>1
      <4>2. CASE ~(speech_run > 0)
        BY <1>1, <3>2, <4>2
      <4> QED
        BY <4>1, <4>2
    <3> QED
      BY <1>1, <3>1, <3>3 DEF StartInv
  <2>11. QuietInv'
    BY <1>2, <2>1 DEF QuietInv
  <2>12. RingInv' /\ RunInv'
    BY <2>1 DEF RingInv, RunInv, Listening
  <2> QED
    BY <2>8, <2>9, <2>10, <2>11, <2>12 DEF Inv
<1>5. CASE ~(speech_run' >= start_frames)
  <2>1. /\ pre_ring' = Pushed(frame)
        /\ pre_write' = (pre_write + frame_len) % IntRange
        /\ pre_count' = Lesser(pre_count + frame_len, pre_capacity)
        /\ UNCHANGED <<active, quiet_run, utterance>>
    BY <1>5 DEF FrameOutside
  <2>2. pre_write' \in Int
    <3>1. pre_write + frame_len \in Int
      BY <1>1, Lengths
    <3> HIDE DEF frame
    <3> QED
      BY <2>1, <3>1, Lengths, Division
  <2>3. pre_count' \in 0 .. pre_capacity /\ pre_count' <= pre_count + frame_len
    BY <1>1, <2>1, Lengths DEF Lesser
  <2>4. TypeOK'
    BY <1>1, <1>2, <2>1, <2>2, <2>3 DEF Inv, TypeOK
  <2>5. RingInv'
    <3> SUFFICES ASSUME NEW k \in 1 .. pre_count'
                 PROVE  pre_ring'[Slot(pre_write' - k)] = Base' - k + 1
      BY DEF RingInv
    <3>1. pre_ring'[Slot(((pre_write + frame_len) % IntRange) - k)]
            = Base + frame_len - k + 1
      <4>1. k \in 1 .. Lesser(pre_count + frame_len, pre_capacity)
        BY <2>1
      <4> QED
        BY <1>1, <2>1, <4>1, PushFrame DEF Inv
    <3>2. Base + frame_len - k + 1 = Base' - k + 1
      BY <1>1, <2>3, Lengths
    <3> QED
      BY <2>1, <3>1, <3>2
  <2>6. RunInv'
    <3>1. speech_run' < start_frames /\ speech_run' \in Nat
      BY <1>1, <1>2, <1>5, Lengths
    <3>2. closed' + pre_count' <= Base'
      <4>1. /\ closed' = closed /\ closed \in Int /\ Base \in Int
            /\ pre_count \in Int /\ closed + pre_count <= Base
        BY <1>1
      <4>2. /\ pre_count' \in Int /\ frame_len \in Int
            /\ pre_count' <= pre_count + frame_len
        BY <2>3, Lengths
      <4>3. closed + pre_count' <= Base + frame_len
        BY <4>1, <4>2, StillBefore
      <4> QED
        BY <4>1, <4>3
    <3>3. CASE speech
      <4>1. speech_run' = speech_run + 1
        BY <1>2, <3>3
      <4>2. (speech_run + 1) * frame_len <= pre_capacity
        <5> DEFINE d == (start_frames - 1) - (speech_run + 1)
        <5>1. d \in Nat
          BY <1>1, <3>1, <4>1, Lengths
        <5>2. start_frames - 1 = (speech_run + 1) + d
          BY <1>1, Lengths
        <5> HIDE DEF d
        <5>3. ASSUME NEW m \in Nat, NEW n \in Nat, NEW f \in Nat
              PROVE  m * f <= (m + n) * f
          <6>1. (m + n) * f = m * f + n * f
            OBVIOUS
          <6>2. n * f \in Nat /\ m * f \in Nat
            OBVIOUS
          <6> QED
            BY <6>1, <6>2
        <5>4. (speech_run + 1) * frame_len <= ((speech_run + 1) + d) * frame_len
          <6>1. speech_run + 1 \in Nat /\ frame_len \in Nat
            BY <1>1, Lengths
          <6> QED
            BY <5>1, <5>3, <6>1
        <5>5. ((speech_run + 1) + d) * frame_len <= pre_capacity
          BY <5>2, Lengths
        <5>6. ((speech_run + 1) + d) * frame_len \in Nat
          BY <1>1, <5>1, Lengths
        <5> QED
          BY <1>1, <1>3, <5>4, <5>5, <5>6, Lengths
      <4>3. speech_run' * frame_len <= pre_count'
        BY <1>1, <1>3, <2>1, <4>1, <4>2, Lengths DEF Lesser
      <4>4. loud_from' = Base' - speech_run' * frame_len + 1
        <5>1. CASE speech_run > 0
          BY <1>1, <1>3, <3>3, <4>1, <5>1, Lengths
        <5>2. CASE ~(speech_run > 0)
          <6>1. speech_run = 0 /\ speech_run' * frame_len = frame_len
            BY <1>1, <4>1, <5>2, Lengths
          <6> QED
            BY <1>1, <3>3, <6>1, Lengths
        <5> QED
          BY <5>1, <5>2
      <4> QED
        BY <3>1, <3>2, <4>3, <4>4 DEF RunInv
    <3>4. CASE ~speech
      <4>1. speech_run' = 0 /\ speech_run' * frame_len = 0
        BY <1>2, <3>4, Lengths
      <4> QED
        BY <2>3, <3>1, <3>2, <4>1 DEF RunInv
    <3> QED
      BY <3>3, <3>4
  <2>7. PieceInv' /\ StartInv' /\ QuietInv'
    BY <1>1, <2>1 DEF PieceInv, StartInv, QuietInv
  <2> QED
    BY <2>4, <2>5, <2>6, <2>7 DEF Inv
<1> QED
  BY <1>4, <1>5

(* Samples fill the frame; a full one is handled. *)
LEMMA SamplesKeep == ASSUME Inv, ProcessSamples PROVE Inv'
<1> DEFINE take == Lesser(frame_len - frame_fill, count)
<1>1. /\ seen \in Nat /\ count \in Nat /\ frame_fill \in 0 .. frame_len - 1
      /\ Base \in Int /\ pc = "samples" /\ pc' = pc /\ count > 0
      /\ take \in 1 .. frame_len - frame_fill /\ take <= count
  BY Lengths DEF Inv, TypeOK, Base, ProcessSamples, MayProcess, Lesser
<1>2. seen' = seen + take /\ count' = count - take
  BY DEF ProcessSamples
<1>3. seen' \in Nat /\ count' \in Nat
  BY <1>1, <1>2
<1>4. CASE frame_fill + take = frame_len
  <2>1. frame_fill' = 0 /\ detector_handle_frame(seen')
    BY <1>4 DEF ProcessSamples
  <2>2. Base' = Base + frame_len /\ frame_fill' \in 0 .. frame_len - 1
    <3>1. Base' = seen + take - 0 /\ take = frame_len - frame_fill
      BY <1>1, <1>2, <1>4, <2>1, Lengths DEF Base
    <3> HIDE DEF take
    <3>2. Base' = seen + (frame_len - frame_fill)
      BY <1>1, <3>1, Lengths
    <3> QED
      BY <1>1, <2>1, <3>2, Lengths DEF Base
  <2>3. seen' - frame_len + 1 = Base + 1 /\ seen' = Base'
    BY <1>1, <1>2, <1>4, <2>1, Lengths DEF Base
  <2> HIDE DEF take
  <2>4. PICK energy \in Energies :
          LET speech == energy > SpeechThreshold
              frame  == Positions(Base + 1, frame_len)
          IN  /\ \/ FrameInUtterance(frame, speech)
                 \/ FrameOutside(frame, energy, speech)
              /\ hush' = IF speech THEN 0 ELSE Lesser(hush + 1, end_frames)
              /\ loud_from' = IF speech /\ speech_run > 0 THEN loud_from
                              ELSE IF speech THEN frame[1] ELSE seen' + 1
              /\ onset' = IF active THEN onset ELSE loud_from'
    BY <2>1, <2>3 DEF detector_handle_frame
  <2> DEFINE speech == energy > SpeechThreshold
             frame  == Positions(Base + 1, frame_len)
  <2>5. frame[1] = Base + 1
    <3>1. Base + 1 \in Int /\ frame_len \in Nat /\ 1 \in 1 .. frame_len
      BY <1>1, Lengths
    <3>2. frame[1] = Base + 1 + 1 - 1
      BY <3>1, PositionsSeq
    <3> QED
      BY <1>1, <3>2
  <2>6. speech \in BOOLEAN
    OBVIOUS
  <2>7. /\ FrameInUtterance(frame, speech) \/ FrameOutside(frame, energy, speech)
        /\ hush' = IF speech THEN 0 ELSE Lesser(hush + 1, end_frames)
        /\ loud_from' = IF speech /\ speech_run > 0 THEN loud_from
                        ELSE IF speech THEN Base + 1 ELSE Base' + 1
        /\ onset' = IF active THEN onset ELSE loud_from'
    BY <2>3, <2>4, <2>5
  <2> HIDE DEF speech, frame
  <2>8. loud_from' \in Int
    BY <1>1, <2>2, <2>7, Lengths DEF Inv, TypeOK
  <2>9. CASE FrameInUtterance(frame, speech)
    <3>1. active
      BY <2>9 DEF FrameInUtterance
    <3>2. onset' = onset
      BY <2>7, <3>1
    <3> QED
      BY <1>1, <1>3, <2>2, <2>6, <2>7, <2>8, <2>9, <3>2, InUtterance DEF frame
  <2>10. CASE FrameOutside(frame, energy, speech)
    <3>1. ~active
      BY <2>10 DEF FrameOutside
    <3>2. onset' = loud_from'
      BY <2>7, <3>1
    <3> QED
      BY <1>1, <1>3, <2>2, <2>6, <2>7, <2>10, <3>2, OutsideUtterance DEF frame
  <2> QED
    BY <2>7, <2>9, <2>10
<1>5. CASE frame_fill + take # frame_len
  <2>1. /\ frame_fill' = frame_fill + take
        /\ UNCHANGED <<pre_ring, pre_write, pre_count, utterance, active,
                       speech_run, quiet_run, loud_from, onset, hush, closed>>
    BY <1>5 DEF ProcessSamples, histVars
  <2> HIDE DEF take
  <2>2. Base' = Base /\ frame_fill' \in 0 .. frame_len - 1
    BY <1>1, <1>2, <1>5, <2>1, Lengths DEF Base
  <2>3. TypeOK'
    BY <1>1, <1>3, <2>1, <2>2 DEF Inv, TypeOK
  <2>4. Listening' => Listening
    BY <1>1, <2>1 DEF Listening
  <2> QED
    BY <2>1, <2>2, <2>3, <2>4, Untouched
<1> QED
  BY <1>4, <1>5

(* At the end the detector is done, and what is left in the ring stays     *)
(* there.                                                                  *)
LEMMA FinishKeeps == ASSUME Inv, Finish PROVE Inv'
<1>1. /\ pc' = "done"
      /\ UNCHANGED <<count, seen, frame_fill, pre_ring, pre_write, pre_count,
                     loud_from, onset, hush, closed>>
  BY DEF Finish
<1>2. CASE active
  <2>1. active' = FALSE /\ speech_run' = 0 /\ quiet_run' = 0 /\ utterance' = <<>>
    BY <1>2 DEF Finish, Reset
  <2>2. TypeOK'
    <3>1. utterance' \in Seq(Int) /\ Len(utterance') = 0
      BY <2>1
    <3>2. active' \in BOOLEAN
      BY <2>1, Zenon
    <3> QED
      BY <1>1, <2>1, <3>1, <3>2, Lengths DEF Inv, TypeOK
  <2> QED
    BY <1>1, <2>1, <2>2 DEF Inv, PieceInv, RingInv, RunInv, StartInv, QuietInv,
                            Listening
<1>3. CASE ~active
  <2>1. UNCHANGED <<active, speech_run, quiet_run, utterance>>
    BY <1>3 DEF Finish
  <2>2. TypeOK' /\ Base' = Base /\ ~Listening'
    BY <1>1, <2>1 DEF Inv, TypeOK, Base, Listening
  <2> QED
    BY <1>1, <2>1, <2>2, Untouched
<1> QED
  BY <1>2, <1>3

(* Every step keeps the invariant. *)
LEMMA Step == Inv /\ [Next]_vars => Inv'
<1> SUFFICES ASSUME Inv, [Next]_vars PROVE Inv'
  OBVIOUS
<1>1. CASE Read
  <2>1. /\ pc = "read" /\ pc' = "samples"
        /\ UNCHANGED <<seen, detVars, histVars>>
        /\ \E n \in Chunks : count' = n
    BY <1>1 DEF Read
  <2>2. count' \in Nat
    BY <2>1, DetectorAssumption
  <2>3. TypeOK' /\ Base' = Base /\ (Listening' => Listening)
    BY <2>1, <2>2 DEF Inv, TypeOK, Base, Listening, detVars, histVars
  <2> QED
    BY <2>1, <2>3, Untouched DEF detVars, histVars
<1>2. CASE ProcessSamples
  BY <1>2, SamplesKeep
<1>3. CASE EndOfSamples
  <2>1. /\ pc = "samples" /\ pc' = "read"
        /\ UNCHANGED <<count, seen, detVars, histVars>>
    BY <1>3 DEF EndOfSamples
  <2>2. TypeOK' /\ Base' = Base /\ (Listening' => Listening)
    BY <2>1 DEF Inv, TypeOK, Base, Listening, detVars, histVars
  <2> QED
    BY <2>1, <2>2, Untouched DEF detVars, histVars
<1>4. CASE ReadFails
  <2>1. /\ pc = "read" /\ pc' = "done"
        /\ UNCHANGED <<count, seen, detVars, histVars>>
    BY <1>4 DEF ReadFails
  <2>2. TypeOK' /\ Base' = Base /\ (Listening' => Listening)
    BY <2>1 DEF Inv, TypeOK, Base, Listening, detVars, histVars
  <2> QED
    BY <2>1, <2>2, Untouched DEF detVars, histVars
<1>5. CASE Finish
  BY <1>5, FinishKeeps
<1>6. CASE on_signal \/ Done \/ UNCHANGED vars
  <2>1. UNCHANGED <<pc, count, seen, detVars, histVars>>
    BY <1>6 DEF on_signal, Done, vars
  <2>2. TypeOK' /\ Base' = Base /\ (Listening' => Listening)
    BY <2>1 DEF Inv, TypeOK, Base, Listening, detVars, histVars
  <2> QED
    BY <2>1, <2>2, Untouched DEF detVars, histVars
<1> QED
  BY <1>1, <1>2, <1>3, <1>4, <1>5, <1>6 DEF Next

-----------------------------------------------------------------------------
(* The theorems *)

(* The variables of detector_t keep their types, the ring holds what was   *)
(* pushed last, and an utterance is what ends with the last frame.         *)
THEOREM InvariantHolds == Spec => []Inv
  BY Initially, Step, PTL DEF Spec

(* What evaluate_utterance gets is one piece of the input, however often   *)
(* pre_write has wrapped in the ring and as an int: utterance_copy_preroll *)
(* and utterance_append leave no gap and repeat nothing.                   *)
THEOREM UtteranceIsOnePiece == Spec => []OnePiece
<1>1. Inv => OnePiece
  <2> SUFFICES ASSUME Inv, active
               PROVE  /\ utterance # <<>>
                      /\ utterance = Positions(utterance[1], Len(utterance))
                      /\ utterance[Len(utterance)] = seen - frame_fill
    BY DEF OnePiece
  <2> DEFINE n == Len(utterance)
  <2>1. n \in Nat /\ n > 0 /\ utterance \in Seq(Int) /\ Base \in Int
        /\ \A k \in 1 .. n : utterance[k] = Base - n + k
    BY LenProperties DEF Inv, TypeOK, PieceInv, EndsAt, Base
  <2> HIDE DEF n
  <2>2. utterance[1] = Base - n + 1 /\ utterance[n] = Base - n + n
    BY <2>1
  <2>3. utterance[n] = Base
    BY <2>1, <2>2
  <2>4. utterance = [k \in 1 .. n |-> utterance[k]]
    BY <2>1 DEF n
  <2>5. Positions(utterance[1], n) = [k \in 1 .. n |-> utterance[k]]
    <3>1. \A k \in 1 .. n : utterance[1] + k - 1 = utterance[k]
      BY <2>1, <2>2
    <3> QED
      BY <3>1 DEF Positions
  <2>6. utterance # <<>>
    BY <2>1, EmptySeq DEF n
  <2> QED
    BY <2>3, <2>4, <2>5, <2>6 DEF n, Base
<1> QED
  BY <1>1, InvariantHolds, PTL

(* The beginning of the word is in the utterance, and nothing that an      *)
(* earlier one ended with: pre_count is 0 after detector_reset_utterance.  *)
THEOREM UtteranceStartsRight == Spec => []StartsRight
<1>1. Inv => StartsRight
  <2> SUFFICES ASSUME Inv, active
               PROVE  closed < utterance[1] /\ utterance[1] <= onset
    BY DEF StartsRight
  <2>1. 1 \in 1 .. Len(utterance) /\ utterance[1] = Base - Len(utterance) + 1
    <3>1. Len(utterance) \in Nat /\ Len(utterance) > 0
      BY LenProperties DEF Inv, TypeOK, PieceInv
    <3> QED
      BY <3>1 DEF Inv, PieceInv, EndsAt
  <2> QED
    BY <2>1 DEF Inv, StartInv
<1> QED
  BY <1>1, InvariantHolds, PTL

(* Without --eval-max-len, while the input goes on, detector_handle_frame  *)
(* lets nothing be accepted but at the last of end_frames quiet frames.    *)
THEOREM NoHastyAccept == Spec => OnlyAfterQuiet
<1>1. Inv /\ [Next]_vars =>
        [accepted' # accepted /\ ~eval_max_len /\ pc' # "done"
           => hush' = end_frames]_vars
  <2> SUFFICES ASSUME Inv, Next, accepted' # accepted, ~eval_max_len,
                      pc' # "done"
               PROVE  hush' = end_frames
    BY DEF vars, histVars
  <2>1. ProcessSamples
    BY DEF Next, Read, EndOfSamples, ReadFails, Finish, on_signal, Done, vars,
           histVars
  <2>2. detector_handle_frame(seen')
    BY <2>1 DEF ProcessSamples, histVars
  <2>3. PICK energy \in Energies :
          LET speech == energy > SpeechThreshold
              frame  == Positions(seen' - frame_len + 1, frame_len)
          IN  /\ FrameInUtterance(frame, speech)
              /\ hush' = IF speech THEN 0 ELSE Lesser(hush + 1, end_frames)
    BY <2>2 DEF detector_handle_frame, FrameOutside
  <2> DEFINE speech == energy > SpeechThreshold
             quiet  == IF speech THEN 0 ELSE quiet_run + 1
  <2>4. IsEvaluated(quiet) /\ active
    BY <2>3 DEF FrameInUtterance
  <2>5. quiet >= end_frames
    BY <2>4 DEF IsEvaluated
  <2>6. hush \in Nat /\ quiet_run \in Nat /\ quiet_run <= hush
    BY <2>4 DEF Inv, TypeOK, QuietInv
  <2>7. hush' = IF speech THEN 0 ELSE Lesser(hush + 1, end_frames)
    BY <2>3
  <2> HIDE DEF speech
  <2>8. ~speech
    BY <2>5, Lengths
  <2>9. quiet_run + 1 >= end_frames
    BY <2>5, <2>8
  <2> QED
    BY <2>6, <2>7, <2>8, <2>9, Lengths DEF Lesser
<1> QED
  BY <1>1, InvariantHolds, PTL DEF Spec, OnlyAfterQuiet
=============================================================================
