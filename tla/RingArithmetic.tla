--------------------------- MODULE RingArithmetic ---------------------------
(***************************************************************************)
(* Places in a ring: what the proofs about the pre-roll of the detector    *)
(* and about the ring of anyka_ipc need to know of integer division.       *)
(***************************************************************************)
EXTENDS Integers, WellFoundedInduction, TLAPS

(* A number is so many whole turns and a rest. *)
LEMMA Division ==
  ASSUME NEW a \in Int, NEW n \in Nat \ {0}
  PROVE  a = (a \div n) * n + (a % n) /\ a \div n \in Int /\ a % n \in 0 .. n - 1
  OBVIOUS

(* A whole turn more is at least n more. *)
LEMMA Times ==
  ASSUME NEW d \in Int, NEW n \in Nat \ {0}
  PROVE  d * n \in Int /\ (d >= 1 => d * n >= n) /\ (d <= -1 => d * n <= -n)
  OBVIOUS

(* As many parts of n as there are in a are a at most. *)
LEMMA WholeParts ==
  ASSUME NEW a \in Nat, NEW n \in Nat \ {0}
  PROVE  a \div n \in Nat /\ (a \div n) * n <= a
<1> DEFINE q == a \div n
           r == a % n
<1>1. q \in Int /\ a = q * n + r /\ r \in 0 .. n - 1
  BY Division
<1> HIDE DEF q, r
<1>2. q * n \in Int /\ (q <= -1 => q * n <= -n)
  BY <1>1, Times
<1>3. q \in Nat /\ q * n <= a
  BY <1>1, <1>2
<1> QED
  BY <1>3 DEF q

(* Numbers that leave the same rest and are less than n apart are equal. *)
LEMMA SameRest ==
  ASSUME NEW a \in Int, NEW b \in Int, NEW n \in Nat \ {0},
         a % n = b % n, 0 <= a - b, a - b < n
  PROVE  a = b
<1> DEFINE p == a \div n
           q == b \div n
<1>1. a = p * n + (a % n) /\ p \in Int
  BY Division
<1>2. b = q * n + (b % n) /\ q \in Int
  BY Division
<1>3. a % n \in Int
  BY Division
<1> HIDE DEF p, q
<1>4. (p - q) * n = p * n - q * n /\ p - q \in Int
      /\ p * n \in Int /\ q * n \in Int
  BY <1>1, <1>2
<1>5. a - b = (p - q) * n
  BY <1>1, <1>2, <1>3, <1>4
<1>6. p - q = 0
  BY <1>4, <1>5, Times
<1> QED
  BY <1>5, <1>6

(* Whole turns do not change a place. *)
LEMMA WholeTurns ==
  ASSUME NEW a \in Int, NEW q \in Int, NEW n \in Nat \ {0}
  PROVE  (a + q * n) % n = a % n
<1> DEFINE b == a + q * n
           p == a \div n
           r == b \div n
           x == a % n
           y == b % n
<1>1. a = p * n + x /\ p \in Int /\ x \in 0 .. n - 1
  BY Division
<1>2. b \in Int
  OBVIOUS
<1>3. b = r * n + y /\ r \in Int /\ y \in 0 .. n - 1
  BY <1>2, Division
<1>4. b = a + q * n /\ q * n \in Int
  OBVIOUS
<1> HIDE DEF b, p, r, x, y
<1>5. (r - p - q) * n = r * n - p * n - q * n /\ r - p - q \in Int
      /\ p * n \in Int /\ r * n \in Int
  BY <1>1, <1>3
<1>6. (r - p - q) * n = x - y
  BY <1>1, <1>2, <1>3, <1>4, <1>5
<1>7. r - p - q = 0
  BY <1>1, <1>3, <1>5, <1>6, Times
<1>8. (r - p - q) * n = 0
  BY <1>7
<1>9. x = y
  BY <1>1, <1>3, <1>6, <1>8
<1> QED
  BY <1>9 DEF b, x, y

(* The same, when it is not known which is the greater one. *)
LEMMA SamePlace ==
  ASSUME NEW a \in Int, NEW b \in Int, NEW n \in Nat \ {0},
         a % n = b % n, a - b < n, b - a < n
  PROVE  a = b
<1>1. CASE 0 <= a - b
  BY <1>1, SameRest, Zenon
<1>2. CASE 0 <= b - a
  BY <1>2, SameRest, Zenon
<1> QED
  BY <1>1, <1>2

(* What is added may be added to the rest. *)
LEMMA RestPlus ==
  ASSUME NEW a \in Int, NEW b \in Int, NEW n \in Nat \ {0}
  PROVE  ((a % n) + b) % n = (a + b) % n
<1> DEFINE q == a \div n
           x == a % n
<1>1. a = q * n + x /\ q \in Int /\ x \in Int
  BY Division
<1> HIDE DEF q, x
<1>2. q * n \in Int
  BY <1>1
<1>3. a + b = (x + b) + q * n
  BY <1>1, <1>2
<1>4. x + b \in Int
  BY <1>1
<1>5. ((x + b) + q * n) % n = (x + b) % n
  BY <1>1, <1>4, WholeTurns
<1> QED
  BY <1>3, <1>5 DEF x

(* The order of two numbers is that of their quotients. *)
LEMMA Quotients ==
  ASSUME NEW f \in Int, NEW g \in Int, NEW n \in Nat \ {0},
         NEW u \in 0 .. n - 1, NEW v \in 0 .. n - 1, f * n + u <= g * n + v
  PROVE  f <= g
<1>1. (f - g) * n = f * n - g * n /\ f - g \in Int
      /\ f * n \in Int /\ g * n \in Int
  OBVIOUS
<1>2. (f - g) * n < n
  BY <1>1
<1> QED
  BY <1>1, <1>2, Times

LEMMA SmallRest ==
  ASSUME NEW n \in Nat \ {0}, NEW a \in 0 .. n - 1
  PROVE  a % n = a
  OBVIOUS

(* Going k places back, as code does it that has unsigned numbers only.    *)
LEMMA Back ==
  ASSUME NEW a \in Int, NEW k \in Int, NEW n \in Nat \ {0}
  PROVE  ((a % n) + n - k) % n = (a - k) % n
<1> DEFINE b == n - k
<1>1. b \in Int /\ a - k \in Int /\ a % n \in Int /\ 1 \in Int
  BY Division
<1>2. (a % n) + n - k = (a % n) + b
  BY <1>1
<1>3. ((a % n) + b) % n = (a + b) % n
  BY <1>1, RestPlus
<1> DEFINE c == a - k
           t == 1 * n
<1>4. a + b = c + t
  BY <1>1
<1> HIDE DEF b, c
<1>5. (c + t) % n = c % n
  BY <1>1, WholeTurns DEF c
<1> HIDE DEF t
<1> QED
  BY <1>2, <1>3, <1>4, <1>5 DEF c

(* How far a place is behind another one, if it is less than a turn.       *)
LEMMA Distance ==
  ASSUME NEW a \in Int, NEW b \in Int, NEW n \in Nat \ {0},
         0 <= a - b, a - b < n
  PROVE  ((a % n) + n - (b % n)) % n = a - b
<1> DEFINE q == b \div n
           y == b % n
<1>1. b = q * n + y /\ q \in Int /\ y \in Int
  BY Division
<1>2. ((a % n) + n - y) % n = (a - y) % n
  BY <1>1, Back
<1> HIDE DEF q, y
<1>3. q * n \in Int
  BY <1>1
<1>4. a - y = (a - b) + q * n /\ a - b \in Int
  BY <1>1, <1>3
<1>5. ((a - b) + q * n) % n = (a - b) % n
  BY <1>1, <1>4, WholeTurns
<1>6. (a - b) % n = a - b
  BY <1>4
<1> QED
  BY <1>2, <1>4, <1>5, <1>6 DEF y

(* What is bounded has a greatest element, if it has any. *)
LEMMA Greatest ==
  ASSUME NEW n \in Nat, NEW S \in SUBSET (0 .. n), S # {}
  PROVE  \E f \in S : \A g \in S : g <= f
<1> DEFINE R == OpToRel(<, Nat)
           T == {n - f : f \in S}
<1>1. T \in SUBSET Nat /\ T # {}
  <2>1. PICK f \in S : TRUE
    OBVIOUS
  <2>2. n - f \in T
    BY <2>1
  <2>3. \A g \in S : n - g \in Nat
    OBVIOUS
  <2> QED
    BY <2>2, <2>3
<1>2. IsWellFoundedOn(R, Nat)
  BY NatLessThanWellFounded
<1>3. PICK t \in T : \A u \in T : <<u, t>> \notin R
  <2> HIDE DEF R, T
  <2> QED
    BY <1>1, <1>2, WFMin
<1>4. \A u \in T : t <= u
  <2>1. t \in Nat /\ \A u \in T : u \in Nat
    BY <1>1, <1>3
  <2>2. \A u \in T : u < t => <<u, t>> \in R
    BY <2>1 DEF OpToRel
  <2>3. \A u \in T : ~(u < t)
    <3> HIDE DEF R, T
    <3> QED
      BY <1>3, <2>2, Zenon
  <2> HIDE DEF R, T
  <2> QED
    BY <2>1, <2>3
<1>5. PICK f \in S : t = n - f
  OBVIOUS
<1>6. ASSUME NEW g \in S
      PROVE  g <= f
  <2>1. n - g \in T
    OBVIOUS
  <2>2. n - f <= n - g
    BY <1>4, <1>5, <2>1
  <2> QED
    BY <2>2
<1> QED
  BY <1>6
=============================================================================
