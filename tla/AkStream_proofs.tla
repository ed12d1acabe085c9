--------------------------- MODULE AkStream_proofs ---------------------------
(***************************************************************************)
(* Proofs about AkStream: what the reader hears of the ring, for rings and *)
(* frames of any size and pauses shorter than a round.                     *)
(***************************************************************************)
EXTENDS AkStream, RingArithmetic, TLAPS

-----------------------------------------------------------------------------
(* The inductive invariant: the ring *)

(* The frame the index is of. *)
Published == IF step = 4 \/ (indexFirst /\ step > 0) THEN newest ELSE newest - 1

(* Units of the payload written so far, were it not for the ring. *)
Head == newest * Frame + IF step = 4 \/ (~indexFirst /\ step > 0) THEN Frame
                         ELSE unit

TypeOK ==
  /\ newest \in Nat /\ step \in 0 .. 4 /\ unit \in 0 .. Frame - 1
  /\ indexFirst \in BOOLEAN
  /\ step < 4 => newest >= 1
  /\ unit # 0 => step = IF indexFirst THEN 3 ELSE 0
  /\ desc \in [0 .. DESC_COUNT - 1 -> Int]
  /\ payload \in [0 .. PAYLOAD_SIZE - 1 -> Int]
  /\ begun \in 0 .. BatchSlack /\ polled \in 0 .. PollSlack

IndexInv == index = Slot(Published)

(* The descriptors of the last DESC_COUNT frames. *)
DescInv ==
  \A f \in Nat :
    newest - DESC_COUNT < f /\ (f < newest \/ (f = newest /\ step > 2))
      => desc[Slot(f)] = f

(* The last PAYLOAD_SIZE units. *)
PayloadInv ==
  \A f \in Nat, u \in 0 .. Frame - 1 :
    Head - PAYLOAD_SIZE <= f * Frame + u /\ f * Frame + u < Head
      => payload[(f * Frame + u) % PAYLOAD_SIZE] = f

RingInv == TypeOK /\ IndexInv /\ DescInv /\ PayloadInv

(* The inductive invariant: the reader.  l is the frame last_index is of.  *)

(* Between two batches: l was the target of the last one. *)
Following(l) ==
  /\ l < Published /\ newest - l <= 2 + begun + polled
  /\ fed \in Int /\ fed <= l
  /\ ~skipped /\ ~g_stop => fed = l

Batch(l) ==
  /\ pending \in 1 .. MAX_BACKLOG /\ i \in 1 .. pending + 1
  /\ l + pending < Published /\ newest - (l + pending) <= 2 + begun
  /\ polled = 0 /\ target_index = Slot(l + pending)
  /\ fed \in Int /\ fed < l + i

Copying(l) ==
  /\ i <= pending /\ entry = l + i /\ at \in 0 .. Frame
  /\ ~skipped => fed = entry - 1
  /\ ~whole => Head > entry * Frame + Header + PAYLOAD_SIZE

At(l) ==
  /\ l >= -1 /\ last_index = Slot(l)
  /\ pc \in {"loop", "half"} => Following(l)
  /\ pc \in {"entry", "copy"} => Batch(l)
  /\ pc = "entry" /\ ~skipped /\ ~g_stop => fed = l + i - 1
  /\ pc = "copy" => Copying(l)

Fresh == pc = "start" => fed = None /\ skipped

InStream == pc \in {"loop", "half", "entry", "copy"}

ReaderInv == ~misread => Fresh /\ (InStream => \E l \in Int : At(l))

Inv == RingInv /\ ReaderInv

(* The constants as the provers want them. *)
LEMMA Sizes ==
  /\ DESC_COUNT \in Nat \ {0} /\ MAX_BACKLOG \in Nat \ {0}
  /\ PAYLOAD_SIZE \in Nat \ {0} /\ Frame \in Nat \ {0}
  /\ Header \in 0 .. Frame - 1 /\ Frame <= PAYLOAD_SIZE
  /\ PollSlack \in Nat /\ BatchSlack \in Nat
  /\ PollSlack + BatchSlack + 1 < DESC_COUNT
  /\ MAX_BACKLOG + BatchSlack + 1 < DESC_COUNT
  BY RingAssumption, PauseAssumption DEF LAG_ENTRIES

(* Slots are places of the ring.                                           *)
LEMMA SlotType ==
  ASSUME NEW k \in Int
  PROVE  Slot(k) \in 0 .. DESC_COUNT - 1
  BY Sizes, Division DEF Slot

(* Frames whose descriptors are in the ring together. *)
LEMMA SlotsDiffer ==
  ASSUME NEW k \in Int, NEW l \in Int, Slot(k) = Slot(l),
         k - l < DESC_COUNT, l - k < DESC_COUNT
  PROVE  k = l
  BY Sizes, SamePlace DEF Slot

-----------------------------------------------------------------------------
(* The writer *)

(* Where the writer is when it does a thing. *)
LEMMA WhereItIs ==
  ASSUME TypeOK
  PROVE  /\ Doing("index") => step = IF indexFirst THEN 0 ELSE 3
         /\ Doing("tear") => step = 1
         /\ Doing("desc") => step = 2
         /\ Doing("payload") => step = IF indexFirst THEN 3 ELSE 0
<1>1. step \in 0 .. 4
  BY DEF TypeOK
<1>2. ASSUME NEW what, Doing(what)
      PROVE  step \in {0, 1, 2, 3} /\ Order[step + 1] = what
  BY <1>1, <1>2 DEF Doing
<1>3. /\ Order[1] = IF indexFirst THEN "index" ELSE "payload"
      /\ Order[2] = "tear" /\ Order[3] = "desc"
      /\ Order[4] = IF indexFirst THEN "payload" ELSE "index"
  BY DEF Order
<1> QED
  BY <1>2, <1>3

(* A step of the writer, in what the reader can tell of it. *)
Moves ==
  /\ Published' \in Nat /\ Head' \in Nat
  /\ Published' >= Published /\ Head' >= Head
  /\ \/ newest' = newest /\ begun' = begun /\ polled' = polled
     \/ /\ newest' = newest + 1
        /\ IF InBatch THEN begun' = begun + 1 /\ polled' = polled
                      ELSE polled' = polled + 1 /\ begun' = begun

(* The index is one behind at most, the payload less than a frame ahead.   *)
LEMMA HeadType ==
  ASSUME TypeOK
  PROVE  /\ Published \in Nat /\ newest \in Nat /\ newest * Frame \in Nat
         /\ Head \in Nat /\ newest - 1 <= Published /\ Published <= newest
         /\ newest * Frame <= Head /\ Head <= newest * Frame + Frame
<1> DEFINE n == newest * Frame
<1>1. n \in Nat /\ newest \in Nat /\ Frame \in Nat
  BY Sizes DEF TypeOK
<1>2. unit \in Nat /\ unit < Frame
  BY Sizes DEF TypeOK
<1>3. Published = newest \/ (Published = newest - 1 /\ newest >= 1)
  BY DEF TypeOK, Published
<1>4. Head = n + Frame \/ Head = n + unit
  BY DEF Head
<1> HIDE DEF n
<1> QED
  BY <1>1, <1>2, <1>3, <1>4 DEF n

(* The frame before is complete when the next one is begun.                *)
LEMMA BeginKeeps ==
  ASSUME RingInv, BeginFrame
  PROVE  RingInv' /\ Moves
<1>1. TypeOK /\ IndexInv /\ DescInv /\ PayloadInv
  BY DEF RingInv
<1>2. /\ step = 4 /\ newest' = newest + 1 /\ step' = 0 /\ unit = 0
      /\ index' = index /\ desc' = desc /\ payload' = payload
      /\ unit' = unit /\ indexFirst' = indexFirst
  <2>1. unit = 0
    BY <1>1 DEF TypeOK, BeginFrame
  <2> QED
    BY <2>1 DEF BeginFrame
<1>3. \/ InBatch /\ begun' = begun + 1 /\ polled' = polled /\ begun < BatchSlack
      \/ ~InBatch /\ polled' = polled + 1 /\ begun' = begun /\ polled < PollSlack
  BY DEF BeginFrame
<1>4. Published' = Published /\ Published = newest
  BY <1>1, <1>2 DEF Published, TypeOK
<1>5. Head' = Head
  <2>1. (newest + 1) * Frame = newest * Frame + Frame /\ newest * Frame \in Nat
    BY <1>1, Sizes DEF TypeOK
  <2> QED
    BY <1>2, <2>1, Sizes DEF Head
<1>6. TypeOK'
  <2>1. begun' \in 0 .. BatchSlack /\ polled' \in 0 .. PollSlack
    BY <1>1, <1>3, Sizes DEF TypeOK
  <2>2. indexFirst' \in BOOLEAN
    BY <1>1, <1>2, Zenon DEF TypeOK
  <2> QED
    BY <1>1, <1>2, <2>1, <2>2 DEF TypeOK
<1>7. IndexInv'
  BY <1>1, <1>2, <1>4 DEF IndexInv, Slot
<1>8. DescInv'
  <2> SUFFICES ASSUME NEW f \in Nat, newest' - DESC_COUNT < f,
                      f < newest' \/ (f = newest' /\ step' > 2)
               PROVE  desc'[Slot(f)] = f
    BY DEF DescInv, Slot
  <2>1. newest - DESC_COUNT < f /\ (f < newest \/ f = newest)
    BY <1>1, <1>2, Sizes DEF TypeOK
  <2> QED
    BY <1>1, <1>2, <2>1 DEF DescInv
<1>9. PayloadInv'
  BY <1>1, <1>2, <1>5 DEF PayloadInv
<1>10. Moves
  BY <1>1, <1>2, <1>3, <1>4, <1>5, HeadType DEF Moves
<1> QED
  BY <1>6, <1>7, <1>8, <1>9, <1>10 DEF RingInv

(* The index is advanced before anything else of a frame, or at last.      *)
LEMMA IndexKeeps ==
  ASSUME RingInv, WriteIndex
  PROVE  RingInv' /\ Moves
<1>1. TypeOK /\ IndexInv /\ DescInv /\ PayloadInv
  BY DEF RingInv
<1>2. step = IF indexFirst THEN 0 ELSE 3
  BY <1>1, WhereItIs DEF WriteIndex
<1>3. /\ newest' = newest /\ step' = step + 1 /\ index' = Slot(newest)
      /\ desc' = desc /\ payload' = payload /\ unit' = unit
      /\ indexFirst' = indexFirst /\ begun' = begun /\ polled' = polled
  BY DEF WriteIndex, Doing
<1>4. Published' = newest
  BY <1>1, <1>2, <1>3 DEF Published, TypeOK
<1>5. Head' = Head
  BY <1>1, <1>2, <1>3 DEF Head, TypeOK
<1>6. TypeOK'
  <2>1. indexFirst' \in BOOLEAN
    BY <1>1, <1>3, Zenon DEF TypeOK
  <2>2. unit = 0
    BY <1>1, <1>2 DEF TypeOK
  <2> QED
    BY <1>1, <1>2, <1>3, <2>1, <2>2 DEF TypeOK
<1>7. IndexInv'
  BY <1>3, <1>4 DEF IndexInv, Slot
<1>8. DescInv'
  BY <1>1, <1>2, <1>3 DEF DescInv, TypeOK, Slot
<1>9. PayloadInv'
  BY <1>1, <1>3, <1>5 DEF PayloadInv
<1>10. Moves
  BY <1>1, <1>3, <1>4, <1>5, HeadType DEF Moves
<1> QED
  BY <1>6, <1>7, <1>8, <1>9, <1>10 DEF RingInv

(* The slot that is written was of the frame a round ago.                  *)
LEMMA DescKeeps ==
  ASSUME RingInv, WriteDesc
  PROVE  RingInv' /\ Moves
<1>1. TypeOK /\ IndexInv /\ DescInv /\ PayloadInv
  BY DEF RingInv
<1>2. /\ newest' = newest /\ step' = step + 1 /\ index' = index
      /\ payload' = payload /\ unit' = unit
      /\ indexFirst' = indexFirst /\ begun' = begun /\ polled' = polled
  BY DEF WriteDesc, Doing
<1>3. \/ step = 1 /\ desc' = [desc EXCEPT ![Slot(newest)] = Torn]
      \/ step = 2 /\ desc' = [desc EXCEPT ![Slot(newest)] = newest]
  BY <1>1, WhereItIs DEF WriteDesc
<1>4. Published' = Published
  BY <1>1, <1>2, <1>3 DEF Published, TypeOK
<1>5. Head' = Head
  BY <1>1, <1>2, <1>3 DEF Head, TypeOK
<1>6. TypeOK'
  <2>1. indexFirst' \in BOOLEAN
    BY <1>1, <1>2, Zenon DEF TypeOK
  <2>2. desc' \in [0 .. DESC_COUNT - 1 -> Int]
    BY <1>1, <1>3 DEF TypeOK, Torn
  <2>3. unit = 0
    BY <1>1, <1>3 DEF TypeOK
  <2> QED
    BY <1>1, <1>2, <1>3, <2>1, <2>2, <2>3 DEF TypeOK
<1>7. IndexInv'
  BY <1>1, <1>2, <1>4 DEF IndexInv, Slot
<1>8. DescInv'
  <2> SUFFICES ASSUME NEW f \in Nat, newest - DESC_COUNT < f,
                      f < newest \/ (f = newest /\ step' > 2)
               PROVE  desc'[Slot(f)] = f
    BY <1>2 DEF DescInv, Slot
  <2>1. newest \in Nat /\ Slot(newest) \in 0 .. DESC_COUNT - 1
        /\ Slot(f) \in 0 .. DESC_COUNT - 1
    BY <1>1, SlotType DEF TypeOK
  <2>2. CASE f < newest
    <3>1. Slot(f) # Slot(newest)
      BY <2>1, <2>2, SlotsDiffer, Sizes
    <3>2. desc[Slot(f)] = f
      BY <1>1, <2>2 DEF DescInv
    <3> QED
      BY <1>1, <1>3, <2>1, <3>1, <3>2 DEF TypeOK
  <2>3. CASE f = newest /\ step' > 2
    <3>1. step = 2
      BY <1>2, <1>3, <2>3
    <3>2. desc' = [desc EXCEPT ![Slot(newest)] = newest]
      BY <1>3, <3>1
    <3>3. desc'[Slot(newest)] = newest
      BY <1>1, <2>1, <3>2 DEF TypeOK
    <3> QED
      BY <2>3, <3>3
  <2> QED
    BY <2>2, <2>3
<1>9. PayloadInv'
  BY <1>1, <1>2, <1>5 DEF PayloadInv
<1>10. Moves
  BY <1>1, <1>2, <1>4, <1>5, HeadType DEF Moves
<1> QED
  BY <1>6, <1>7, <1>8, <1>9, <1>10 DEF RingInv

(* The unit that is written was of the payload a round ago.                *)
LEMMA UnitKeeps ==
  ASSUME RingInv, WriteUnit
  PROVE  RingInv' /\ Moves
<1> DEFINE q == newest * Frame + unit
<1>1. TypeOK /\ IndexInv /\ DescInv /\ PayloadInv
  BY DEF RingInv
<1>2. /\ newest' = newest /\ index' = index /\ desc' = desc
      /\ indexFirst' = indexFirst /\ begun' = begun /\ polled' = polled
      /\ payload' = [payload EXCEPT ![q % PAYLOAD_SIZE] = newest]
  BY DEF WriteUnit, Doing
<1>3. step = IF indexFirst THEN 3 ELSE 0
  BY <1>1, WhereItIs DEF WriteUnit
<1>4. \/ unit = Frame - 1 /\ unit' = 0 /\ step' = step + 1
      \/ unit < Frame - 1 /\ unit' = unit + 1 /\ step' = step
  <2>1. CASE unit = Frame - 1
    <3>1. unit + 1 = Frame /\ Frame % Frame = 0
      BY <2>1, Sizes
    <3> QED
      BY <2>1, <3>1 DEF WriteUnit
  <2>2. CASE unit # Frame - 1
    <3>1. unit < Frame - 1 /\ unit + 1 \in 0 .. Frame - 1
      BY <1>1, <2>2, Sizes DEF TypeOK
    <3>2. (unit + 1) % Frame = unit + 1
      BY <3>1, SmallRest, Sizes
    <3> QED
      BY <2>2, <3>1, <3>2 DEF WriteUnit
  <2> QED
    BY <2>1, <2>2
<1>5. Published' = Published
  BY <1>1, <1>2, <1>3, <1>4 DEF Published, TypeOK
<1>6. q \in Nat /\ newest * Frame \in Nat
  BY <1>1, Sizes DEF TypeOK
<1>7. Head = q /\ Head' = q + 1
  <2> DEFINE n == newest * Frame
  <2>1. n \in Nat /\ unit \in Nat
    BY <1>1, <1>6 DEF TypeOK
  <2>2. Head = n + unit
    BY <1>3 DEF Head
  <2>3. Head' = n + IF unit = Frame - 1 THEN Frame ELSE unit + 1
    BY <1>2, <1>3, <1>4, <2>1, Sizes DEF Head
  <2> HIDE DEF n
  <2> QED
    BY <2>1, <2>2, <2>3, Sizes DEF n
<1>8. q % PAYLOAD_SIZE \in 0 .. PAYLOAD_SIZE - 1
  <2> HIDE DEF q
  <2> QED
    BY <1>6, Division, Sizes
<1>9. TypeOK'
  <2>1. indexFirst' \in BOOLEAN
    BY <1>1, <1>2, Zenon DEF TypeOK
  <2>2. payload' \in [0 .. PAYLOAD_SIZE - 1 -> Int]
    BY <1>1, <1>2, <1>8 DEF TypeOK
  <2> QED
    BY <1>1, <1>2, <1>3, <1>4, <2>1, <2>2, Sizes DEF TypeOK
<1>10. IndexInv'
  BY <1>1, <1>2, <1>5 DEF IndexInv, Slot
<1>11. DescInv'
  BY <1>1, <1>2, <1>3, <1>4 DEF DescInv, TypeOK, Slot
<1>12. PayloadInv'
  <2> SUFFICES ASSUME NEW f \in Nat, NEW u \in 0 .. Frame - 1,
                      Head' - PAYLOAD_SIZE <= f * Frame + u,
                      f * Frame + u < Head'
               PROVE  payload'[(f * Frame + u) % PAYLOAD_SIZE] = f
    BY DEF PayloadInv
  <2> DEFINE r == f * Frame + u
  <2>1. r \in Nat /\ r % PAYLOAD_SIZE \in 0 .. PAYLOAD_SIZE - 1
    <3>1. f * Frame \in Nat
      BY Sizes
    <3>2. r \in Nat
      BY <3>1, Sizes
    <3>3. PAYLOAD_SIZE \in Nat \ {0} /\ r \in Int
      BY <3>2, Sizes
    <3> HIDE DEF r
    <3> QED
      BY <3>2, <3>3, Division, Zenon
  <2>2. CASE r = q
    <3>1. f = newest
      <4>1. unit \in 0 .. Frame - 1 /\ newest \in Int /\ f \in Int
        BY <1>1 DEF TypeOK
      <4>2. f <= newest
        BY <2>2, <4>1, Sizes, Quotients
      <4>3. newest <= f
        BY <2>2, <4>1, Sizes, Quotients
      <4> QED
        BY <4>1, <4>2, <4>3
    <3> QED
      BY <1>1, <1>2, <1>8, <2>2, <3>1 DEF TypeOK
  <2>3. CASE r # q
    <3>1. r < q /\ q - PAYLOAD_SIZE <= r /\ q - r < PAYLOAD_SIZE
      BY <1>6, <1>7, <2>1, <2>3, Sizes
    <3>2. r % PAYLOAD_SIZE # q % PAYLOAD_SIZE
      <4> HIDE DEF r, q
      <4>1. r - q < PAYLOAD_SIZE
        BY <1>6, <2>1, <3>1, Sizes
      <4>2. PAYLOAD_SIZE \in Nat \ {0} /\ r \in Int /\ q \in Int
        BY <1>6, <2>1, Sizes
      <4> QED
        BY <2>3, <3>1, <4>1, <4>2, SamePlace, Zenon
    <3>3. payload[r % PAYLOAD_SIZE] = f
      BY <1>1, <1>7, <3>1 DEF PayloadInv
    <3> QED
      BY <1>1, <1>2, <1>8, <2>1, <3>2, <3>3 DEF TypeOK
  <2> QED
    BY <2>2, <2>3
<1>13. Moves
  BY <1>1, <1>2, <1>5, <1>6, <1>7, HeadType DEF Moves
<1> QED
  BY <1>9, <1>10, <1>11, <1>12, <1>13 DEF RingInv

(* All that the writer does leaves the last round of the ring readable.    *)
LEMMA WriterKeeps ==
  ASSUME RingInv, Writer
  PROVE  RingInv' /\ Moves
  BY BeginKeeps, IndexKeeps, DescKeeps, UnitKeeps DEF Writer

(* Units of frames. *)
LEMMA UnitsType ==
  ASSUME NEW f \in Nat, NEW u \in 0 .. Frame - 1
  PROVE  /\ f * Frame + u \in Nat
         /\ (f * Frame + u) % PAYLOAD_SIZE \in 0 .. PAYLOAD_SIZE - 1
<1> DEFINE q == f * Frame + u
<1>1. f * Frame \in Nat /\ u \in Nat
  BY Sizes
<1>2. q \in Nat /\ q \in Int /\ PAYLOAD_SIZE \in Nat \ {0}
  BY <1>1, Sizes
<1> HIDE DEF q
<1>3. q % PAYLOAD_SIZE \in 0 .. PAYLOAD_SIZE - 1
  BY <1>2, Division, Zenon
<1> QED
  BY <1>2, <1>3 DEF q

(* Units of a frame come before those of the next one.                     *)
LEMMA UnitsOrder ==
  ASSUME NEW f \in Nat, NEW g \in Nat, NEW u \in 0 .. Frame - 1
  PROVE  /\ g * Frame + Frame \in Nat
         /\ f <= g <=> f * Frame + u < g * Frame + Frame
<1>1. g * Frame \in Nat /\ f * Frame \in Nat /\ u \in Nat /\ u < Frame
      /\ Frame \in Nat
  BY Sizes
<1>2. (g - f) * Frame = g * Frame - f * Frame /\ g - f \in Int
  BY Sizes
<1>3. (g - f >= 0 => (g - f) * Frame >= 0) /\ (g - f) * Frame \in Int
  BY <1>2, Sizes
<1>4. g - f <= -1 => (g - f) * Frame <= -Frame
  BY <1>2, Times, Sizes
<1> QED
  BY <1>1, <1>2, <1>3, <1>4

(* More frames have more units.                                            *)
LEMMA MoreUnits ==
  ASSUME NEW d \in Int, NEW n \in Int, d <= n
  PROVE  d * Frame <= n * Frame
<1>1. (n - d) * Frame = n * Frame - d * Frame /\ n - d \in Nat
      /\ (n - d) * Frame \in Nat /\ n * Frame \in Int /\ d * Frame \in Int
  BY Sizes
<1> QED
  BY <1>1

(* In the first round a frame's slot is its number.                        *)
LEMMA SlotOfSmall ==
  ASSUME NEW k \in Int, 0 <= k, k < DESC_COUNT
  PROVE  Slot(k) = k
<1>1. k \in 0 .. DESC_COUNT - 1 /\ DESC_COUNT \in Nat \ {0}
  BY Sizes
<1>2. k % DESC_COUNT = k
  BY <1>1, SmallRest, Zenon
<1> QED
  BY <1>2 DEF Slot

(* The ring after frames 0 .. k. *)
LEMMA InitRing ==
  ASSUME Init
  PROVE  RingInv
<1> DEFINE writers(c, k) == {f \in 0 .. k : \E u \in 0 .. Frame - 1 :
                               (f * Frame + u) % PAYLOAD_SIZE = c}
           last(c, k) == CHOOSE f \in writers(c, k) :
                           \A g \in writers(c, k) : g <= f
<1>1. PICK k \in 0 .. DESC_COUNT :
      /\ newest = k /\ index = Slot(k) /\ step = 4 /\ unit = 0
      /\ desc = [d \in 0 .. DESC_COUNT - 1 |->
                   IF d <= Slot(k) THEN k - (Slot(k) - d)
                   ELSE IF k >= DESC_COUNT THEN k - Slot(k) - DESC_COUNT + d
                   ELSE None]
      /\ payload = [c \in 0 .. PAYLOAD_SIZE - 1 |->
           IF writers(c, k) = {} THEN None ELSE last(c, k)]
      /\ indexFirst \in BOOLEAN /\ polled = 0 /\ begun = 0
  BY DEF Init
<1>2. k \in Nat /\ k \in Int /\ Slot(k) \in 0 .. DESC_COUNT - 1
  BY Sizes, SlotType
<1>3. Published = k /\ Head = k * Frame + Frame
  BY <1>1 DEF Published, Head
<1>4. ASSUME NEW f \in Nat, NEW u \in 0 .. Frame - 1,
             Head - PAYLOAD_SIZE <= f * Frame + u, f * Frame + u < Head
      PROVE  payload[(f * Frame + u) % PAYLOAD_SIZE] = f
  <2> DEFINE q == f * Frame + u
             c == q % PAYLOAD_SIZE
             W == writers(c, k)
             m == last(c, k)
  <2>1. q \in Nat /\ c \in 0 .. PAYLOAD_SIZE - 1
    BY UnitsType
  <2>2. f \in W
    <3>1. f <= k
      BY <1>2, <1>3, <1>4, UnitsOrder
    <3>2. f \in 0 .. k
      BY <1>2, <3>1
    <3> QED
      BY <3>2
  <2>3. ASSUME NEW g \in W
        PROVE  g <= f
    <3>1. PICK v \in 0 .. Frame - 1 : (g * Frame + v) % PAYLOAD_SIZE = c
      OBVIOUS
    <3>2. g \in Nat /\ g <= k
      BY <1>2
    <3> DEFINE r == g * Frame + v
    <3>3. r \in Nat /\ r < Head /\ Head \in Nat
      BY <1>2, <1>3, <3>2, UnitsType, UnitsOrder
    <3>4. r % PAYLOAD_SIZE = q % PAYLOAD_SIZE
      BY <3>1
    <3>5. r <= q => g <= f
      <4>1. g \in Int /\ f \in Int /\ Frame \in Nat \ {0}
        BY <3>2, Sizes
      <4> QED
        BY <4>1, Quotients, Zenon
    <3>6. Head - PAYLOAD_SIZE <= q
      BY <1>4
    <3> HIDE DEF r, q
    <3>7. r <= q
      <4>1. SUFFICES ASSUME q < r PROVE FALSE
        BY <2>1, <3>3
      <4>2. r - q < PAYLOAD_SIZE /\ 0 <= r - q
        BY <2>1, <3>3, <3>6, <4>1, Sizes
      <4>3. PAYLOAD_SIZE \in Nat \ {0} /\ r \in Int /\ q \in Int
        BY <2>1, <3>3, Sizes
      <4>4. r = q
        BY <3>4, <4>2, <4>3, SameRest, Zenon
      <4> QED
        BY <2>1, <3>3, <4>1, <4>4
    <3> QED
      BY <3>5, <3>7
  <2>4. \A g \in W : g \in Nat
    BY <1>2
  <2>5. payload[c] = IF W = {} THEN None ELSE m
    BY <1>1, <2>1
  <2>6. m = CHOOSE h \in W : \A g \in W : g <= h
    OBVIOUS
  <2> HIDE DEF writers, last, c, W, m
  <2>7. m \in W /\ \A g \in W : g <= m
    BY <2>2, <2>3, <2>6
  <2>8. m = f
    BY <2>2, <2>3, <2>4, <2>7
  <2> QED
    BY <2>2, <2>5, <2>8 DEF c
<1>5. PayloadInv
  BY <1>4 DEF PayloadInv
<1>6. payload \in [0 .. PAYLOAD_SIZE - 1 -> Int]
  <2>1. ASSUME NEW c \in 0 .. PAYLOAD_SIZE - 1, writers(c, k) # {}
        PROVE  last(c, k) \in Int
    <3>1. writers(c, k) \in SUBSET (0 .. k)
      OBVIOUS
    <3> HIDE DEF writers
    <3>2. PICK f \in writers(c, k) : \A g \in writers(c, k) : g <= f
      BY <1>2, <2>1, <3>1, Greatest
    <3>3. last(c, k) \in writers(c, k)
      BY <3>2
    <3> QED
      BY <3>1, <3>3
  <2> HIDE DEF writers, last
  <2> QED
    BY <1>1, <2>1 DEF None
<1>7. TypeOK
  <2>1. desc \in [0 .. DESC_COUNT - 1 -> Int]
    BY <1>1, <1>2, Sizes DEF None
  <2>2. indexFirst \in BOOLEAN
    BY <1>1
  <2>3. /\ newest \in Nat /\ step = 4 /\ unit = 0
        /\ begun \in 0 .. BatchSlack /\ polled \in 0 .. PollSlack
    BY <1>1, <1>2, Sizes
  <2> QED
    BY <1>6, <2>1, <2>2, <2>3, Sizes DEF TypeOK
<1>8. DescInv
  <2>1. newest = k
    BY <1>1
  <2> SUFFICES ASSUME NEW f \in Nat, k - DESC_COUNT < f, f <= k
               PROVE  desc[Slot(f)] = f
    BY <1>2, <2>1 DEF DescInv
  <2>2. ASSUME NEW d \in 0 .. DESC_COUNT - 1
        PROVE  desc[d] = IF d <= Slot(k) THEN k - (Slot(k) - d)
                   ELSE IF k >= DESC_COUNT THEN k - Slot(k) - DESC_COUNT + d
                   ELSE None
    BY <1>1
  <2>3. Slot(f) \in 0 .. DESC_COUNT - 1
    BY SlotType
  <2>4. CASE k < DESC_COUNT
    <3>1. Slot(k) = k /\ Slot(f) = f
      BY <1>2, <2>4, SlotOfSmall, Sizes
    <3> QED
      BY <1>2, <2>2, <2>3, <2>4, <3>1, Sizes
  <2>5. CASE k = DESC_COUNT
    <3>1. Slot(k) = 0
      BY <2>5, Sizes DEF Slot
    <3>2. CASE f = k
      BY <1>2, <2>2, <2>3, <3>1, <3>2, Sizes
    <3>3. CASE f < k
      <4>1. Slot(f) = f /\ f > 0
        BY <2>5, <3>3, SlotOfSmall, Sizes
      <4> QED
        BY <1>2, <2>2, <2>3, <2>5, <3>1, <4>1, Sizes
    <3> QED
      BY <1>2, <3>2, <3>3
  <2> QED
    BY <2>4, <2>5, Sizes
<1> QED
  BY <1>1, <1>3, <1>5, <1>7, <1>8 DEF RingInv, IndexInv

-----------------------------------------------------------------------------
(* The reader *)

(* A step of the reader leaves the ring alone.                             *)
LEMMA RingStays ==
  ASSUME RingInv, KeepRing,
         begun' \in 0 .. BatchSlack, polled' \in 0 .. PollSlack
  PROVE  RingInv' /\ Published' = Published /\ Head' = Head /\ newest' = newest
<1>1. TypeOK /\ IndexInv /\ DescInv /\ PayloadInv
  BY DEF RingInv
<1>2. /\ index' = index /\ desc' = desc /\ payload' = payload
      /\ newest' = newest /\ step' = step /\ unit' = unit
      /\ indexFirst' = indexFirst
  BY DEF KeepRing, writerVars
<1>3. Published' = Published /\ Head' = Head
  BY <1>2 DEF Published, Head
<1>4. TypeOK'
  <2>1. indexFirst' \in BOOLEAN
    BY <1>1, <1>2, Zenon DEF TypeOK
  <2> QED
    BY <1>1, <1>2, <2>1 DEF TypeOK
<1>5. IndexInv'
  BY <1>1, <1>2, <1>3 DEF IndexInv, Slot
<1>6. DescInv'
  BY <1>1, <1>2 DEF DescInv, Slot
<1>7. PayloadInv'
  BY <1>1, <1>2, <1>3 DEF PayloadInv
<1> QED
  BY <1>2, <1>3, <1>4, <1>5, <1>6, <1>7 DEF RingInv

(* What the reader's lemmas need of the ring.                              *)
LEMMA Counters ==
  ASSUME RingInv
  PROVE  /\ begun \in 0 .. BatchSlack /\ polled \in 0 .. PollSlack
         /\ Published \in Nat /\ newest \in Nat /\ Head \in Nat
         /\ newest - 1 <= Published /\ Published <= newest
         /\ index = Slot(Published)
  BY HeadType DEF RingInv, TypeOK, IndexInv

(* The place of l is the same whatever the writer does meanwhile. *)
LEMMA AtStays ==
  ASSUME RingInv, NEW l \in Int, At(l), Moves,
         UNCHANGED readerVars, UNCHANGED histVars
  PROVE  At(l)'
<1>1. /\ pc' = pc /\ last_index' = last_index /\ target_index' = target_index
      /\ i' = i /\ pending' = pending /\ entry' = entry /\ at' = at
      /\ g_stop' = g_stop /\ whole' = whole /\ fed' = fed
      /\ skipped' = skipped
  BY DEF readerVars, histVars
<1>2. /\ begun \in Nat /\ polled \in Nat /\ Published \in Nat /\ newest \in Nat
      /\ Head \in Nat /\ Published' \in Nat /\ Head' \in Nat
      /\ Published' >= Published /\ Head' >= Head
  BY Counters, Sizes DEF Moves
<1>3. l >= -1 /\ last_index' = Slot(l)
  BY <1>1 DEF At
<1>4. pc \in {"loop", "half"} => Following(l)'
  <2> SUFFICES ASSUME pc \in {"loop", "half"}, Following(l)
               PROVE  Following(l)'
    BY DEF At
  <2>1. newest' - l <= 2 + begun' + polled'
    <3>1. ~InBatch
      BY DEF InBatch
    <3> QED
      BY <1>2, <3>1 DEF Moves, Following
  <2>2. l < Published'
    BY <1>2 DEF Following
  <2> QED
    BY <1>1, <2>1, <2>2 DEF Following
<1>5. pc \in {"entry", "copy"} => Batch(l)'
  <2> SUFFICES ASSUME pc \in {"entry", "copy"}, Batch(l)
               PROVE  Batch(l)'
    BY DEF At
  <2>1. newest' - (l + pending) <= 2 + begun' /\ polled' = 0
    <3>1. InBatch /\ pending \in Int /\ polled = 0
          /\ newest - (l + pending) <= 2 + begun
      BY Sizes DEF InBatch, Batch
    <3> QED
      BY <1>2, <3>1 DEF Moves
  <2>2. l + pending < Published'
    <3>1. pending \in Int /\ l + pending < Published
      BY Sizes DEF Batch
    <3> QED
      BY <1>2, <3>1
  <2> QED
    BY <1>1, <2>1, <2>2 DEF Batch, Slot
<1>6. pc = "entry" /\ ~skipped' /\ ~g_stop' => fed' = l + i' - 1
  BY <1>1 DEF At
<1>7. pc = "copy" => Copying(l)'
  <2> SUFFICES ASSUME pc = "copy", Copying(l), Batch(l)
               PROVE  Copying(l)'
    BY DEF At
  <2>1. ~whole => Head' > entry * Frame + Header + PAYLOAD_SIZE
    <3>1. entry \in Int
      BY Sizes DEF Copying, Batch
    <3>2. entry * Frame + Header + PAYLOAD_SIZE \in Int
      BY <3>1, Sizes
    <3> QED
      BY <1>2, <3>2 DEF Copying
  <2> QED
    BY <1>1, <2>1 DEF Copying
<1> QED
  BY <1>1, <1>3, <1>4, <1>5, <1>6, <1>7 DEF At

(* The arithmetic of a round of the loop is right. *)
LEMMA TargetOf ==
  ASSUME NEW k \in Int
  PROVE  Target(Slot(k)) = Slot(k - 1)
<1>1. ((k % DESC_COUNT) + DESC_COUNT - 1) % DESC_COUNT = (k - 1) % DESC_COUNT
  <2>1. DESC_COUNT \in Nat \ {0} /\ 1 \in Int
    BY Sizes
  <2> QED
    BY <2>1, Back, Zenon
<1> QED
  BY <1>1 DEF Target, Slot, LAG_ENTRIES

(* The distance is the number of entries to read, if less than a round.    *)
LEMMA PendingOf ==
  ASSUME NEW k \in Int, NEW l \in Int, 0 <= k - l, k - l < DESC_COUNT
  PROVE  Pending(Slot(k), Slot(l)) = k - l
  BY Distance, Sizes DEF Pending, Slot

(* A round begins a batch that is not yet overwritten, or changes nothing. *)
LEMMA PollBegins ==
  ASSUME RingInv, NEW l \in Int, At(l), pc \in {"loop", "half"}, Poll(index)
  PROVE  \E m \in Int : At(m)'
<1>0. PICK k \in Int : k = Published - 1
  BY Counters
<1> DEFINE more == k - l
<1>1. Following(l) /\ l >= -1 /\ last_index = Slot(l)
  BY DEF At
<1>2. /\ Published \in Nat /\ newest \in Nat /\ begun \in Nat /\ polled \in Nat
      /\ begun <= BatchSlack /\ polled <= PollSlack
      /\ newest - 1 <= Published /\ Published <= newest
      /\ index = Slot(Published)
  BY Counters, Sizes
<1>3. k \in Int /\ more \in Nat /\ more < DESC_COUNT
  BY <1>0, <1>1, <1>2, Sizes DEF Following
<1>4. Target(index) = Slot(k) /\ Pending(Slot(k), last_index) = more
  <2>1. Target(Slot(Published)) = Slot(Published - 1)
    BY <1>2, TargetOf
  <2>2. Pending(Slot(k), Slot(l)) = k - l
    BY <1>3, PendingOf
  <2> QED
    BY <1>0, <1>1, <1>2, <2>1, <2>2
<1>5. ~(index >= DESC_COUNT)
  <2>1. index \in 0 .. DESC_COUNT - 1
    BY <1>2, SlotType
  <2> QED
    BY <2>1, Sizes
<1>6. Published' = Published /\ Head' = Head /\ newest' = newest
      /\ polled' = 0 /\ begun' = 0
  <2>1. polled' = 0 /\ begun' = 0 /\ KeepRing
    BY DEF Poll
  <2> QED
    BY <2>1, RingStays, Sizes
<1>7. fed' = fed /\ g_stop' = g_stop
  BY DEF Poll
<1>8. CASE more = 0
  <2>1. /\ pc' = "loop" /\ last_index' = last_index /\ skipped' = skipped
    BY <1>4, <1>8 DEF Poll
  <2>2. Following(l)'
    BY <1>0, <1>1, <1>2, <1>6, <1>7, <1>8, <2>1 DEF Following
  <2>3. At(l)'
    BY <1>1, <2>1, <2>2 DEF At
  <2> QED
    BY <2>3
<1>9. CASE more > MAX_BACKLOG
  <2> DEFINE m == k - MAX_BACKLOG
  <2>1. /\ pc' = "entry" /\ target_index' = Slot(k) /\ i' = 1
        /\ last_index' = Resume(Slot(k), more)
        /\ skipped' = (skipped \/ TRUE) /\ pending' = MAX_BACKLOG
    <3>1. more # 0
      BY <1>3, <1>9, Sizes
    <3> HIDE DEF more
    <3> QED
      BY <1>4, <1>5, <1>9, <3>1 DEF Poll
  <2>2. Resume(Slot(k), more) = Slot(m)
    <3>1. DESC_COUNT \in Nat \ {0} /\ MAX_BACKLOG \in Int
      BY Sizes
    <3>2. ((k % DESC_COUNT) + DESC_COUNT - MAX_BACKLOG) % DESC_COUNT
            = (k - MAX_BACKLOG) % DESC_COUNT
      BY <1>3, <3>1, Back, Zenon
    <3> HIDE DEF more
    <3> QED
      BY <1>9, <3>2 DEF Resume, Slot
  <2>3. m \in Int /\ m >= l /\ m >= -1
    BY <1>1, <1>3, <1>9, Sizes
  <2>4. m + pending' = k
    BY <1>3, <2>1, Sizes
  <2>5. Batch(m)'
    <3>1. pending' \in 1 .. MAX_BACKLOG /\ i' \in 1 .. pending' + 1
      BY <2>1, Sizes
    <3>2. fed' \in Int /\ fed' < m + i'
      BY <1>1, <1>3, <1>7, <2>1, <2>3 DEF Following
    <3>3. m + pending' < Published' /\ newest' - (m + pending') <= 2 + begun'
      BY <1>0, <1>2, <1>6, <2>4
    <3> QED
      BY <1>6, <2>1, <2>4, <3>1, <3>2, <3>3 DEF Batch, Slot
  <2> HIDE DEF m
  <2>6. At(m)'
    BY <2>1, <2>2, <2>3, <2>5 DEF At, Slot
  <2> QED
    BY <2>3, <2>6
<1>10. CASE more # 0 /\ more <= MAX_BACKLOG
  <2>1. /\ pc' = "entry" /\ target_index' = Slot(k) /\ i' = 1
        /\ last_index' = last_index
        /\ (skipped => skipped') /\ pending' = more
    <3>1. ~(more > MAX_BACKLOG)
      BY <1>3, <1>10, Sizes
    <3> HIDE DEF more
    <3> QED
      BY <1>4, <1>5, <1>10, <3>1 DEF Poll, Resume
  <2>2. l + pending' = k
    BY <1>3, <2>1
  <2>3. Batch(l)'
    <3>1. pending' \in 1 .. MAX_BACKLOG /\ i' \in 1 .. pending' + 1
      BY <1>3, <1>10, <2>1, Sizes
    <3>2. fed' \in Int /\ fed' < l + i'
      BY <1>1, <1>7, <2>1 DEF Following
    <3>3. l + pending' < Published' /\ newest' - (l + pending') <= 2 + begun'
      BY <1>0, <1>2, <1>6, <2>2
    <3> QED
      BY <1>6, <2>1, <2>2, <3>1, <3>2, <3>3 DEF Batch, Slot
  <2>4. ~skipped' /\ ~g_stop' => fed' = l + i' - 1
    BY <1>1, <1>7, <2>1 DEF Following
  <2>5. At(l)'
    BY <1>1, <2>1, <2>3, <2>4 DEF At, Slot
  <2> QED
    BY <2>5
<1> QED
  BY <1>3, <1>8, <1>9, <1>10, Sizes

(* What the reader finds at the next descriptor is the frame it looks for. *)
LEMMA EntryIsNext ==
  ASSUME RingInv, NEW l \in Int, l >= -1, last_index = Slot(l), Batch(l),
         i <= pending
  PROVE  desc[(last_index + i) % DESC_COUNT] = l + i /\ l + i \in Nat
<1> DEFINE f == l + i
<1>1. i \in Int /\ pending \in Int /\ i >= 1 /\ pending <= MAX_BACKLOG
      /\ l + pending < Published /\ newest - (l + pending) <= 2 + begun
  BY Sizes DEF Batch
<1>2. f \in Nat
  BY <1>1
<1>3. newest - DESC_COUNT < f /\ f < newest
  <2>1. newest - f <= MAX_BACKLOG + BatchSlack + 1
    BY <1>1, Counters, Sizes
  <2> QED
    BY <1>1, <2>1, Counters, Sizes
<1>4. desc[Slot(f)] = f
  BY <1>2, <1>3 DEF RingInv, DescInv
<1>5. (last_index + i) % DESC_COUNT = Slot(f)
  <2>1. DESC_COUNT \in Nat \ {0}
    BY Sizes
  <2>2. ((l % DESC_COUNT) + i) % DESC_COUNT = (l + i) % DESC_COUNT
    BY <1>1, <2>1, RestPlus, Zenon
  <2> QED
    BY <2>2 DEF Slot
<1> QED
  BY <1>2, <1>4, <1>5

(* The entry's units are all written; those that are not its own any more  *)
(* were overwritten.                                                       *)
LEMMA UnitIsOwn ==
  ASSUME RingInv, entry \in Nat, entry < newest, at \in 0 .. Frame - 1,
         at >= Header, payload[(entry * Frame + at) % PAYLOAD_SIZE] # entry
  PROVE  Head > entry * Frame + Header + PAYLOAD_SIZE
<1> DEFINE q == entry * Frame + at
<1>1. q \in Nat /\ entry * Frame \in Nat
  BY UnitsType, Sizes
<1>2. q < Head
  <2>1. q < newest * Frame
    <3>1. newest - 1 \in Nat /\ entry <= newest - 1
      BY Counters
    <3>2. q < (newest - 1) * Frame + Frame
      BY <3>1, UnitsOrder
    <3>3. (newest - 1) * Frame = newest * Frame - Frame /\ newest * Frame \in Int
      BY Counters, Sizes
    <3> QED
      BY <1>1, <3>2, <3>3, Sizes
  <2>2. newest * Frame <= Head /\ newest * Frame \in Nat /\ Head \in Nat
    BY HeadType DEF RingInv
  <2> QED
    BY <1>1, <2>1, <2>2
<1>3. ~(Head - PAYLOAD_SIZE <= q)
  BY <1>2 DEF RingInv, PayloadInv
<1> HIDE DEF q
<1>4. Head - PAYLOAD_SIZE > q
  BY <1>1, <1>3, Counters, Sizes
<1> QED
  BY <1>1, <1>4, Counters, Sizes DEF q

(* Every step of the reader goes on with the frame after the last one.     *)
LEMMA ReaderKeeps ==
  ASSUME Inv, Reader \/ on_signal
  PROVE  Inv'
<1>1. RingInv /\ ReaderInv
  BY DEF Inv
<1>2. KeepRing
  BY DEF Reader, Open, Leave, ReadIndex, ReadHalf, ReadOtherHalf, Poll,
         ParseEntry, CopyUnit, FeedDetector, EndBatch, on_signal
<1>3. (begun' = begun \/ begun' = 0) /\ (polled' = polled \/ polled' = 0)
  BY DEF Reader, Open, Leave, ReadIndex, ReadHalf, ReadOtherHalf, Poll,
         ParseEntry, CopyUnit, FeedDetector, EndBatch, on_signal
<1>4. RingInv' /\ Published' = Published /\ Head' = Head /\ newest' = newest
  <2>1. begun' \in 0 .. BatchSlack /\ polled' \in 0 .. PollSlack
    BY <1>1, <1>3, Counters, Sizes
  <2> QED
    BY <1>1, <1>2, <2>1, RingStays
<1>5. Published \in Nat /\ newest \in Nat /\ Head \in Nat
      /\ newest - 1 <= Published /\ Published <= newest
      /\ index = Slot(Published) /\ begun \in Nat /\ polled \in Nat
  BY <1>1, Counters, Sizes
<1>6. SUFFICES ASSUME ~misread'
               PROVE  Fresh' /\ (InStream' => \E l \in Int : At(l)')
  BY <1>4 DEF Inv, ReaderInv
<1>7. ~misread
  BY <1>6 DEF Reader, Open, Leave, ReadIndex, ReadHalf, ReadOtherHalf,
         ParseEntry, CopyUnit, FeedDetector, EndBatch, on_signal, histVars
<1>8. Fresh /\ (InStream => \E l \in Int : At(l))
  BY <1>1, <1>7 DEF ReaderInv
<1>9. CASE Open
  <2> PICK l \in Int : l = Published - 1
    BY <1>5
  <2>1. /\ pc' = "loop" /\ last_index' = Target(index) /\ polled' = 0
        /\ begun' = begun /\ g_stop' = g_stop /\ fed' = None /\ skipped'
    BY <1>8, <1>9 DEF Open, histVars, Fresh
  <2>2. Target(index) = Slot(l)
    BY <1>5, TargetOf
  <2>3. Following(l)'
    BY <1>4, <1>5, <2>1 DEF Following, None
  <2>4. At(l)'
    BY <1>5, <2>1, <2>2, <2>3 DEF At, Slot
  <2> QED
    BY <2>1, <2>4 DEF Fresh
<1>10. CASE Leave
  BY <1>10 DEF Leave, Fresh, InStream
<1>11. CASE ReadIndex
  <2>1. pc = "loop" /\ Poll(index)
    BY <1>11 DEF ReadIndex
  <2>2. pc' \in {"loop", "entry"}
    BY <2>1 DEF Poll
  <2>3. \E l \in Int : At(l)'
    BY <1>1, <1>8, <2>1, PollBegins DEF InStream
  <2> QED
    BY <2>2, <2>3 DEF Fresh
<1>12. CASE ReadHalf
  <2>1. PICK l \in Int : At(l)
    BY <1>8, <1>12 DEF ReadHalf, InStream
  <2>2. /\ pc = "loop" /\ pc' = "half" /\ last_index' = last_index
        /\ g_stop' = g_stop /\ fed' = fed /\ skipped' = skipped
        /\ begun' = begun /\ polled' = polled
    BY <1>12 DEF ReadHalf
  <2>3. Following(l)'
    BY <1>4, <2>1, <2>2 DEF Following, At
  <2>4. At(l)'
    BY <2>1, <2>2, <2>3 DEF At, Slot
  <2> QED
    BY <2>2, <2>4 DEF Fresh
<1>13. CASE ReadOtherHalf
  <2> DEFINE current == IF first = "lo" THEN (index \div Byte) * Byte + half
                                        ELSE half * Byte + (index % Byte)
  <2>1. pc = "half" /\ Poll(current) /\ misread' = (misread \/ current # index)
    BY <1>13 DEF ReadOtherHalf
  <2>2. current = index
    BY <1>6, <2>1
  <2>3. Poll(index)
    BY <2>1, <2>2
  <2>4. pc' \in {"loop", "entry"}
    BY <2>3 DEF Poll
  <2>5. \E l \in Int : At(l)'
    BY <1>1, <1>8, <2>1, <2>3, PollBegins DEF InStream
  <2> QED
    BY <2>4, <2>5 DEF Fresh
<1>14. CASE ParseEntry
  <2>1. PICK l \in Int : At(l)
    BY <1>8, <1>14 DEF ParseEntry, InStream
  <2>2. /\ pc = "entry" /\ i <= pending /\ ~g_stop /\ g_stop' = g_stop
        /\ last_index' = last_index /\ target_index' = target_index
        /\ pending' = pending /\ fed' = fed
        /\ begun' = begun /\ polled' = polled
    BY <1>14 DEF ParseEntry
  <2>3. Batch(l) /\ l >= -1 /\ last_index = Slot(l)
        /\ (~skipped => fed = l + i - 1)
    BY <2>1, <2>2 DEF At
  <2> DEFINE d == desc[(last_index + i) % DESC_COUNT]
  <2>4. d = l + i /\ d \in Nat
    BY <1>1, <2>2, <2>3, EntryIsNext
  <2>5. /\ entry' = d /\ at' = 0 /\ whole' = (d # Torn) /\ pc' = "copy"
        /\ i' = i /\ skipped' = skipped
    BY <1>14, <2>4 DEF ParseEntry, None, Torn
  <2>6. whole'
    <3>1. d # Torn
      BY <2>4 DEF Torn
    <3> HIDE DEF d
    <3> QED
      BY <2>5, <3>1, Zenon
  <2>7. Batch(l)'
    BY <1>4, <2>2, <2>3, <2>5 DEF Batch, Slot
  <2>8. Copying(l)'
    <3>1. i \in Int
      BY <2>3, Sizes DEF Batch
    <3> QED
      BY <2>2, <2>3, <2>4, <2>5, <2>6, <3>1, Sizes DEF Copying
  <2>9. At(l)'
    BY <2>2, <2>3, <2>5, <2>7, <2>8 DEF At, Slot
  <2> QED
    BY <2>5, <2>9 DEF Fresh
<1>15. CASE CopyUnit
  <2>1. PICK l \in Int : At(l)
    BY <1>8, <1>15 DEF CopyUnit, InStream
  <2>2. /\ pc = "copy" /\ at < Frame /\ at' = at + 1 /\ pc' = pc
        /\ whole' = (whole /\ (at < Header \/
                       payload[(entry * Frame + at) % PAYLOAD_SIZE] = entry))
        /\ last_index' = last_index /\ target_index' = target_index
        /\ pending' = pending /\ fed' = fed /\ i' = i /\ entry' = entry
        /\ skipped' = skipped /\ begun' = begun /\ polled' = polled
    BY <1>15 DEF CopyUnit
  <2>3. Batch(l) /\ Copying(l) /\ l >= -1 /\ last_index = Slot(l)
    BY <2>1, <2>2 DEF At
  <2>4. Batch(l)'
    BY <1>4, <2>2, <2>3 DEF Batch, Slot
  <2>5. entry \in Nat /\ entry < newest
    <3>1. i \in Int /\ pending \in Int /\ i >= 1 /\ l + pending < Published
      BY <2>3, Sizes DEF Batch
    <3> QED
      BY <1>5, <2>3, <3>1 DEF Copying
  <2>6. at \in 0 .. Frame - 1
    BY <2>2, <2>3, Sizes DEF Copying
  <2>7. ~whole' => Head' > entry' * Frame + Header + PAYLOAD_SIZE
    <3>1. CASE ~whole
      BY <1>4, <2>2, <2>3, <3>1 DEF Copying
    <3>2. CASE whole /\ ~whole'
      <4>1. at >= Header
            /\ payload[(entry * Frame + at) % PAYLOAD_SIZE] # entry
        <5>1. ~(at < Header \/
                payload[(entry * Frame + at) % PAYLOAD_SIZE] = entry)
          BY <2>2, <3>2, Zenon
        <5> QED
          BY <2>6, <5>1, Sizes
      <4>2. Head > entry * Frame + Header + PAYLOAD_SIZE
        BY <1>1, <2>5, <2>6, <4>1, UnitIsOwn
      <4> QED
        BY <1>4, <2>2, <4>2
    <3> QED
      BY <3>1, <3>2
  <2>8. Copying(l)'
    BY <2>2, <2>3, <2>6, <2>7, Sizes DEF Copying
  <2>9. At(l)'
    BY <2>2, <2>3, <2>4, <2>8 DEF At, Slot
  <2> QED
    BY <2>2, <2>9 DEF Fresh
<1>16. CASE FeedDetector
  <2>1. PICK l \in Int : At(l)
    BY <1>8, <1>16 DEF FeedDetector, InStream
  <2>2. /\ pc = "copy" /\ pc' = "entry" /\ i' = i + 1
        /\ fed' = entry /\ last_index' = last_index
        /\ target_index' = target_index /\ pending' = pending
        /\ begun' = begun /\ polled' = polled
    BY <1>16 DEF FeedDetector
  <2>3. Batch(l) /\ Copying(l) /\ l >= -1 /\ last_index = Slot(l)
    BY <2>1, <2>2 DEF At
  <2>4. /\ pending \in 1 .. MAX_BACKLOG /\ i \in Int /\ i >= 1 /\ i <= pending
        /\ fed' = l + i
    BY <2>2, <2>3, Sizes DEF Batch, Copying
  <2>5. Batch(l)'
    <3>1. i' \in 1 .. pending' + 1 /\ fed' \in Int /\ fed' < l + i'
      BY <2>2, <2>4, Sizes
    <3> QED
      BY <1>4, <2>2, <2>3, <3>1 DEF Batch, Slot
  <2>6. fed' = l + i' - 1
    BY <2>2, <2>4
  <2>7. At(l)'
    BY <2>2, <2>3, <2>5, <2>6 DEF At, Slot
  <2> QED
    BY <2>2, <2>7 DEF Fresh
<1>17. CASE EndBatch
  <2>1. PICK l \in Int : At(l)
    BY <1>8, <1>17 DEF EndBatch, InStream
  <2>2. /\ pc = "entry" /\ pc' = "loop" /\ last_index' = target_index
        /\ i > pending \/ g_stop
        /\ fed' = fed /\ g_stop' = g_stop /\ skipped' = skipped
        /\ begun' = begun /\ polled' = polled
    BY <1>17 DEF EndBatch
  <2>3. Batch(l) /\ l >= -1 /\ (~skipped /\ ~g_stop => fed = l + i - 1)
    BY <2>1, <2>2 DEF At
  <2>4. /\ pending \in 1 .. MAX_BACKLOG /\ i \in 1 .. pending + 1
        /\ fed \in Int /\ fed < l + i /\ polled = 0
    BY <2>3 DEF Batch
  <2> PICK m \in Int : m = l + pending
    BY <2>4
  <2>5. Following(m)'
    <3>1. m < Published /\ newest - m <= 2 + begun
      BY <2>3 DEF Batch
    <3>2. fed <= m /\ (~skipped /\ ~g_stop => fed = m)
      BY <2>2, <2>3, <2>4, Sizes
    <3> QED
      BY <1>4, <1>5, <2>2, <2>4, <3>1, <3>2 DEF Following
  <2>6. last_index' = Slot(m) /\ m >= -1
    BY <2>2, <2>3, <2>4, Sizes DEF Batch
  <2>7. At(m)'
    BY <2>2, <2>5, <2>6 DEF At, Slot
  <2> QED
    BY <2>2, <2>7 DEF Fresh
<1>18. CASE on_signal
  <2>1. /\ pc' = pc /\ last_index' = last_index /\ target_index' = target_index
        /\ i' = i /\ pending' = pending /\ entry' = entry /\ at' = at
        /\ whole' = whole /\ fed' = fed /\ skipped' = skipped
        /\ begun' = begun /\ polled' = polled /\ g_stop'
    BY <1>18 DEF on_signal, histVars
  <2>2. Fresh'
    BY <1>8, <2>1 DEF Fresh
  <2>3. ASSUME NEW l \in Int, At(l)
        PROVE  At(l)'
    <3>1. Following(l) => Following(l)'
      BY <1>4, <2>1 DEF Following
    <3>2. Batch(l) => Batch(l)'
      BY <1>4, <2>1 DEF Batch, Slot
    <3>3. Copying(l) => Copying(l)'
      BY <1>4, <2>1 DEF Copying
    <3> QED
      BY <2>1, <2>3, <3>1, <3>2, <3>3 DEF At, Slot
  <2> QED
    BY <1>8, <2>1, <2>2, <2>3 DEF InStream
<1> QED
  BY <1>9, <1>10, <1>11, <1>12, <1>13, <1>14, <1>15, <1>16, <1>17, <1>18
     DEF Reader

(* Nothing the writer does takes the reader's place away.                  *)
LEMMA WriterLeaves ==
  ASSUME Inv, Writer
  PROVE  Inv'
<1>1. RingInv /\ ReaderInv
  BY DEF Inv
<1>2. RingInv' /\ Moves
  BY <1>1, WriterKeeps
<1>3. UNCHANGED readerVars /\ UNCHANGED histVars
  BY DEF Writer, BeginFrame, WriteIndex, WriteDesc, WriteUnit, Doing
<1>4. pc' = pc /\ fed' = fed /\ skipped' = skipped /\ misread' = misread
  BY <1>3 DEF readerVars, histVars
<1>5. ReaderInv'
  <2>1. \A l \in Int : At(l) => At(l)'
    BY <1>1, <1>2, <1>3, AtStays
  <2> QED
    BY <1>1, <1>4, <2>1 DEF ReaderInv, Fresh, InStream
<1> QED
  BY <1>2, <1>5 DEF Inv

-----------------------------------------------------------------------------
(* Theorems *)

(* What the invariant says is always so: the ring holds the last           *)
(* DESC_COUNT descriptors and PAYLOAD_SIZE units, and a reader that never  *)
(* read a torn index is less than a round behind.                          *)
THEOREM InvariantHolds == Spec => []Inv
<1>1. Init => Inv
  <2> SUFFICES ASSUME Init PROVE Inv
    OBVIOUS
  <2>1. RingInv
    BY InitRing
  <2>2. ReaderInv
    BY DEF Init, ReaderInv, Fresh, InStream
  <2> QED
    BY <2>1, <2>2 DEF Inv
<1>2. Inv /\ [Next]_vars => Inv'
  <2> SUFFICES ASSUME Inv, [Next]_vars PROVE Inv'
    OBVIOUS
  <2>1. CASE Writer
    BY <2>1, WriterLeaves
  <2>2. CASE Reader \/ on_signal
    BY <2>2, ReaderKeeps
  <2>3. CASE UNCHANGED vars
    <3>1. /\ KeepRing /\ begun' = begun /\ polled' = polled
          /\ UNCHANGED readerVars /\ UNCHANGED histVars
      BY <2>3 DEF vars, KeepRing
    <3>2. RingInv /\ ReaderInv
      BY DEF Inv
    <3>3. RingInv' /\ Published' = Published /\ Head' = Head /\ newest' = newest
      BY <3>1, <3>2, Counters, RingStays
    <3>4. Moves
      BY <3>1, <3>2, <3>3, Counters DEF Moves
    <3>5. \A l \in Int : At(l) => At(l)'
      BY <3>1, <3>2, <3>4, AtStays
    <3>6. pc' = pc /\ fed' = fed /\ skipped' = skipped /\ misread' = misread
      BY <3>1 DEF readerVars, histVars
    <3>7. ReaderInv'
      BY <3>2, <3>5, <3>6 DEF ReaderInv, Fresh, InStream
    <3> QED
      BY <3>3, <3>7 DEF Inv
  <2> QED
    BY <2>1, <2>2, <2>3 DEF Next
<1> QED
  BY <1>1, <1>2, PTL DEF Spec

(* Audio is heard in the order it was recorded, no frame twice, and none   *)
(* is left out but by a resync, for any ring and any pauses shorter than a *)
(* round of it, unless a torn index was read.                              *)
THEOREM HeardInOrder == Spec => []InOrder
<1>1. Inv => InOrder
  <2> SUFFICES ASSUME Inv, pc = "copy", ~misread
               PROVE  entry > fed /\ (~skipped => entry = fed + 1)
    BY DEF InOrder
  <2>1. PICK l \in Int : At(l)
    BY DEF Inv, ReaderInv, InStream
  <2>2. Batch(l) /\ Copying(l)
    BY <2>1 DEF At
  <2>3. i \in Int /\ entry = l + i /\ fed \in Int /\ fed < entry
    BY <2>2, Sizes DEF Batch, Copying
  <2> QED
    BY <2>2, <2>3 DEF Copying
<1> QED
  BY <1>1, InvariantHolds, PTL

(* A frame is spoilt only if, before its last sample is copied, the writer *)
(* has gone a round of the payload area and past its first sample: nothing *)
(* is assumed of the size of the payload area.                             *)
SpoiltByOvertaking ==
  pc = "copy" /\ ~misread /\ ~whole
    => Head > entry * Frame + Header + PAYLOAD_SIZE

(* So it is with pauses shorter than a round of the descriptors, also for  *)
(* the 32768 bytes of AudioStream.                                         *)
THEOREM SpoiltOnlyByOvertaking == Spec => []SpoiltByOvertaking
<1>1. Inv => SpoiltByOvertaking
  <2> SUFFICES ASSUME Inv, pc = "copy", ~misread, ~whole
               PROVE  Head > entry * Frame + Header + PAYLOAD_SIZE
    BY DEF SpoiltByOvertaking
  <2>1. PICK l \in Int : At(l)
    BY DEF Inv, ReaderInv, InStream
  <2> QED
    BY <2>1 DEF At, Copying
<1> QED
  BY <1>1, InvariantHolds, PTL

(* Room entries fit into the payload area with the header of one more. *)
LEMMA RoomFits == Room \in Nat /\ Room * Frame <= PAYLOAD_SIZE + Header
<1>1. PAYLOAD_SIZE + Header \in Nat /\ Frame \in Nat \ {0}
  BY Sizes
<1> QED
  BY <1>1, WholeParts DEF Room

(* Every sample of a frame given to the detector is its own, if fewer than *)
(* Room newer frames had been begun when it was copied, for any ring and   *)
(* payload area and any pauses shorter than a round of the ring.           *)
THEOREM HeardWhole == Spec => []FedWhole
<1>1. Inv /\ SpoiltByOvertaking => FedWhole
  <2> SUFFICES ASSUME Inv, SpoiltByOvertaking, pc = "copy", ~misread, ~whole,
                      newest - entry < Room
               PROVE  FALSE
    BY DEF FedWhole
  <2>1. Head > entry * Frame + Header + PAYLOAD_SIZE
    BY DEF SpoiltByOvertaking
  <2>2. PICK l \in Int : At(l)
    BY DEF Inv, ReaderInv, InStream
  <2>3. entry \in Nat
    BY <2>2, Sizes DEF At, Batch, Copying
  <2>4. newest \in Nat /\ Head \in Nat /\ Head <= newest * Frame + Frame
    BY HeadType DEF Inv, RingInv
  <2> DEFINE d == newest + 1 - entry
  <2>5. d \in Int /\ d <= Room
    BY <2>3, <2>4, RoomFits
  <2>6. d * Frame <= Room * Frame
    BY <2>5, RoomFits, MoreUnits
  <2>7. /\ d * Frame = newest * Frame + Frame - entry * Frame
        /\ newest * Frame \in Int /\ entry * Frame \in Int
        /\ Room * Frame \in Int
    BY <2>3, <2>4, Sizes, RoomFits
  <2> HIDE DEF d
  <2> QED
    BY <2>1, <2>4, <2>6, <2>7, RoomFits, Sizes
<1> QED
  BY <1>1, InvariantHolds, SpoiltOnlyByOvertaking, PTL

(* What the reader can tell of that by itself: a frame is whole if those   *)
(* behind it in the batch, those begun meanwhile and the two that may have *)
(* been left alone are fewer than Room.                                    *)
WholeInTime ==
  pc = "copy" /\ at = Frame /\ ~misread
    /\ pending - i + begun + LAG_ENTRIES + 1 < Room => whole

(* So a batch spoils only the oldest frames of a long backlog: with the    *)
(* sizes of AudioStream, and nothing begun meanwhile, those with 30 or     *)
(* more behind them.                                                       *)
THEOREM ShortBacklogWhole == Spec => []WholeInTime
<1>1. Inv /\ FedWhole => WholeInTime
  <2> SUFFICES ASSUME Inv, FedWhole, pc = "copy", at = Frame, ~misread,
                      pending - i + begun + LAG_ENTRIES + 1 < Room
               PROVE  whole
    BY DEF WholeInTime
  <2>1. PICK l \in Int : At(l)
    BY DEF Inv, ReaderInv, InStream
  <2>2. /\ i \in Int /\ pending \in Int /\ entry = l + i
        /\ newest - (l + pending) <= 2 + begun
    BY <2>1, Sizes DEF At, Batch, Copying
  <2>3. newest \in Nat /\ begun \in Nat
    BY Counters, Sizes DEF Inv
  <2>4. newest - entry < Room
    BY <2>2, <2>3, RoomFits DEF LAG_ENTRIES
  <2> QED
    BY <2>4 DEF FedWhole
<1> QED
  BY <1>1, InvariantHolds, HeardWhole, PTL
=============================================================================
