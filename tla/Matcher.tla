------------------------------ MODULE Matcher ------------------------------
(***************************************************************************)
(* evaluate_utterance of jarvis_wake after the length test: trim and       *)
(* normalise the frames of the utterance, compare them by dynamic time     *)
(* warping in two rows with every template until one is near enough, and   *)
(* decide.  The costs are unsigned integers of the width of the machine.   *)
(***************************************************************************)
EXTENDS Integers, Sequences, FiniteSets

CONSTANTS
  UintRange,          \* 2^32
  INF_COST,
  MAX_FEATURE_FRAMES,
  FEATURE_SCALE,
  Utterances,         \* utterances: sequences of [energy, zcr], a frame each
  Templates,          \* lists of templates, each a sequence of features
  Bands, Thresholds   \* values of --band and --threshold

Metrics == [energy : Nat, zcr : Nat]

ASSUME MatcherAssumption ==
  /\ {UintRange, MAX_FEATURE_FRAMES, FEATURE_SCALE} \subseteq Nat \ {0}
  /\ INF_COST \in 1 .. UintRange - 1
  /\ \A u \in Utterances : \A k \in DOMAIN u : u[k] \in Metrics
  /\ Bands \cup Thresholds \subseteq Nat \ {0}

VARIABLES
  utt, templates, band0, threshold,  \* the input
  pc, live,                          \* features of the utterance
  t,                                 \* template being compared
  i, prev,                           \* row, and its costs
  score, best_score, accepted

inputVars == <<utt, templates, band0, threshold>>
vars == <<inputVars, pc, live, t, i, prev, score, best_score, accepted>>

Lesser(a, b)  == IF a < b THEN a ELSE b
Greater(a, b) == IF a > b THEN a ELSE b
Least(S)      == CHOOSE x \in S : \A y \in S : x <= y
Largest(S)    == CHOOSE x \in S : \A y \in S : x >= y

-----------------------------------------------------------------------------
(* extract_features *)

Frames(raw) == SubSeq(raw, 1, Lesser(Len(raw), MAX_FEATURE_FRAMES))

MaxEnergy(raw) == Largest({raw[k].energy : k \in DOMAIN raw})

(* The frames that count: from the first to the last that is loud enough.  *)
Loud(raw) == {k \in DOMAIN raw : raw[k].energy >= MaxEnergy(raw) \div 25 + 1}

First(raw) == Least(Loud(raw))

Last(raw) == Largest(Loud(raw))

(* <<>> stands for the return of -1. *)
extract_features(all) ==
  LET raw == Frames(all)
  IN  IF Len(raw) < 3 \/ MaxEnergy(raw) = 0 THEN <<>>
      ELSE IF Loud(raw) = {} \/ Last(raw) - First(raw) + 1 < 3 THEN <<>>
      ELSE [k \in 1 .. Last(raw) - First(raw) + 1 |->
              LET f == raw[First(raw) + k - 1]
              IN  [energy |-> Lesser((f.energy * FEATURE_SCALE)
                                       \div MaxEnergy(raw), 65535),
                   zcr    |-> f.zcr]]

-----------------------------------------------------------------------------
(* dtw_score, row by row *)

feature_distance(a, b) ==
  LET de == a.energy - b.energy
      dz == a.zcr - b.zcr
  IN  (de * de + 3 * dz * dz) % UintRange

Template == templates[t]

Longer == Greater(Len(live), Len(Template))

GivenBand == band0 \* mutant: the band is not widened

(* Wide enough for the corner to be reached. *)
Band == Lesser(Greater(band0, Greater(Len(live) - Len(Template),
                                      Len(Template) - Len(live))),
               MAX_FEATURE_FRAMES)

RejectTotal == (threshold * Longer) % UintRange

FirstRow == [j \in 0 .. Len(Template) |-> IF j = 0 THEN 0 ELSE INF_COST]

(* mutant: a frame of the utterance never matches two of the template *)
min3(up, left, diagonal) == Lesser(up, Lesser(left, diagonal))

NextRow ==
  LET cur[j \in 0 .. Len(Template)] ==
        IF j < Greater(i - Band, 1) \/ j > i + Band THEN INF_COST
        ELSE LET local == feature_distance(live[i], Template[j])
                 best  == min3(prev[j], cur[j - 1], prev[j - 1])
             IN  IF best >= (INF_COST - local) % UintRange THEN INF_COST
                 ELSE (best + local) % UintRange
  IN  cur

RowMin(row) == Least({row[j] : j \in DOMAIN row})

Init ==
  /\ utt \in Utterances /\ templates \in Templates
  /\ band0 \in Bands /\ threshold \in Thresholds
  /\ pc = "extract" /\ live = <<>> /\ t = 1 /\ i = 1 /\ prev = [j \in {0} |-> 0]
  /\ score = INF_COST /\ best_score = INF_COST /\ accepted = FALSE

Extract ==
  /\ pc = "extract"
  /\ live' = extract_features(utt)
  /\ IF live' = <<>> THEN pc' = "done" ELSE pc' = "row"
  /\ prev' = FirstRow
  /\ UNCHANGED <<inputVars, t, i, score, best_score, accepted>>

(* A row; the match is given up when all of it exceeds the threshold. *)
Row ==
  /\ pc = "row" /\ i <= Len(live)
  /\ IF RowMin(NextRow) > RejectTotal
       THEN /\ score' = (threshold + 1) % UintRange /\ pc' = "scored"
            /\ UNCHANGED <<i, prev>>
       ELSE i' = i + 1 /\ prev' = NextRow /\ UNCHANGED <<pc, score>>
  /\ UNCHANGED <<inputVars, live, t, best_score, accepted>>

LastCell ==
  /\ pc = "row" /\ i > Len(live)
  /\ pc' = "scored"
  /\ score' = IF prev[Len(Template)] >= INF_COST THEN INF_COST
              ELSE prev[Len(Template)] \div Longer
  /\ UNCHANGED <<inputVars, live, t, i, prev, best_score, accepted>>

BestScore == Lesser(score, best_score)

FirstDecides == TRUE \* mutant: only the first template is tried

Decides == score <= threshold \/ t = Len(templates)

(* Back in evaluate_utterance: on to the next template, or decide. *)
Compare ==
  /\ pc = "scored"
  /\ best_score' = BestScore
  /\ IF Decides
       THEN /\ pc' = "done" /\ accepted' = (best_score' <= threshold)
            /\ UNCHANGED <<t, i, prev>>
       ELSE /\ pc' = "row" /\ t' = t + 1 /\ i' = 1
            /\ prev' = [j \in 0 .. Len(templates[t + 1]) |->
                          IF j = 0 THEN 0 ELSE INF_COST]
            /\ UNCHANGED accepted
  /\ UNCHANGED <<inputVars, live, score>>

Done == pc = "done" /\ UNCHANGED vars

Next == Extract \/ Row \/ LastCell \/ Compare \/ Done

Spec == Init /\ [][Next]_vars

-----------------------------------------------------------------------------
(* Reference: the cheapest of all warping paths. *)

Between(x, y, d) == x - y <= d /\ y - x <= d

(* All monotone paths from <<1, 1>> to a cell, inside the band. *)
PathsTo(n, width) ==
  LET paths[x \in 0 .. n[1], y \in 0 .. n[2]] ==
        IF x = 0 \/ y = 0 \/ ~Between(x, y, width) THEN {}
        ELSE IF x = 1 /\ y = 1 THEN {<<<<1, 1>>>>}
        ELSE {Append(p, <<x, y>>) :
                p \in paths[x - 1, y] \cup paths[x, y - 1]
                      \cup paths[x - 1, y - 1]}
  IN  paths[n[1], n[2]]

PathCost(p, a, b) ==
  LET sum[k \in 0 .. Len(p)] ==
        IF k = 0 THEN 0
        ELSE sum[k - 1] + feature_distance(a[p[k][1]], b[p[k][2]])
  IN  sum[Len(p)]

Distance(x, y) == IF x > y THEN x - y ELSE y - x

(* Cost of the cheapest path through the first x and y frames. *)
Cheapest(x, y, a, b) ==
  LET width == Greater(band0, Distance(Len(a), Len(b)))
      costs == {PathCost(p, a, b) : p \in PathsTo(<<x, y>>, width)}
  IN  IF costs = {} THEN INF_COST ELSE Least(costs)

Total(b) == Cheapest(Len(live), Len(b), live, b)

Length(b) == Greater(Len(live), Len(b))

-----------------------------------------------------------------------------
(* Giving up early and dividing with truncation only blur the verdict by   *)
(* less than one unit of the score: a template whose mean cost is at most  *)
(* the threshold is accepted, one at least a unit above is rejected.       *)
VerdictIsSharp ==
  pc = "scored" =>
    /\ score <= threshold => Total(Template) < (threshold + 1) * Longer
    /\ score > threshold  => Total(Template) > threshold * Longer

(* "accept if score is below threshold": the utterance is accepted when    *)
(* one of the templates is near enough, wherever it stands in the list,    *)
(* and only then.                                                          *)
RightVerdict ==
  pc = "done" =>
    IF accepted
      THEN \E k \in DOMAIN templates :
             Total(templates[k]) < (threshold + 1) * Length(templates[k])
      ELSE live # <<>> => \A k \in DOMAIN templates :
             Total(templates[k]) > threshold * Length(templates[k])

=============================================================================
