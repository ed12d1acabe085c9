-------------------------- MODULE VendorBoot_proofs --------------------------
(***************************************************************************)
(* Proofs about VendorBoot, for any SD card, any of the troubles, and any  *)
(* number of restarts, lost listeners, clock steps and failed runs of      *)
(* rtsp_kick.                                                              *)
(***************************************************************************)
EXTENDS VendorBoot, TLAPS

USE BootAssumption

Labels == {"sleep", "marker", "kick", "pidof", "state", "binary", "retry",
           "note", "ports", "start", "install", "mark_success",
           "mark_anyway"}

(* The variables that decide which firmware is patched, and when, keep     *)
(* their types.  An age may be negative: the clock can be set back.        *)
TypeOK ==
  /\ pc \in Labels
  /\ sd \in Cards
  /\ OFFSETS \in {"v93", "v105"}
  /\ clock \in BOOLEAN /\ tried \in BOOLEAN
  /\ age \in Int /\ quiet \in 0 .. Retry
  /\ steps \in Nat

(* Between check_supported_binary and the end of the install the offsets   *)
(* are those of the firmware, or it is one the user vouched for.  The card *)
(* may change under the script, but only to allow more.                    *)
FitInv ==
  pc \in {"retry", "note", "ports", "start", "install"} =>
    /\ sd.fw \in {"v93", "v105"} => OFFSETS = sd.fw
    /\ sd.fw = "other" => sd.allow \/ sd.md5 = "other"

(* While nobody sets a clock that works, last_attempt tells how long the   *)
(* script has been quiet, and it is past MIN_RETRY_SECONDS at note_attempt. *)
AgeInv ==
  steps = 0 /\ clock =>
    /\ IF tried THEN age = quiet ELSE quiet = Retry
    /\ pc = "note" => quiet = Retry

Inv == TypeOK /\ FitInv /\ AgeInv

(* The script starts asleep and has not attempted anything yet. *)
LEMMA Initially == Init => Inv
<1> SUFFICES ASSUME Init PROVE Inv
  OBVIOUS
<1>1. TypeOK
  <2>1. clock \in BOOLEAN /\ tried \in BOOLEAN
    BY Zenon DEF Init
  <2> QED BY <2>1 DEF Init, TypeOK, Labels
<1> QED BY <1>1 DEF Init, Inv, FitInv, AgeInv

(* What the camera does, and what is done to the clock and the card. *)
LEMMA CameraKeeps == ASSUME Inv, Camera PROVE Inv'
<1> USE DEF Inv, TypeOK, FitInv, AgeInv, fileVars, scriptVars, countVars
<1>1. CASE ClockSteps
  <2>1. steps' = steps + 1 /\ UNCHANGED <<pc, sd, OFFSETS, tried, quiet>>
    BY <1>1 DEF ClockSteps
  <2>2. age' \in Int /\ clock' \in BOOLEAN
    <3>1. CASE clock' = clock /\ age' \in {Retry, age - Retry}
      BY <3>1
    <3>2. CASE clock' = TRUE /\ age' = age
      BY <3>2
    <3> QED BY <1>1, <3>1, <3>2 DEF ClockSteps
  <2> QED BY <2>1, <2>2
<1>2. CASE UserAllows
  <2>1. sd' = [sd EXCEPT !.allow = TRUE]
        /\ UNCHANGED <<pc, OFFSETS, clock, tried, age, quiet, steps>>
    BY <1>2 DEF UserAllows
  <2>2. sd' \in Cards /\ sd'.fw = sd.fw /\ sd'.md5 = sd.md5 /\ sd'.allow
    BY <2>1 DEF Cards
  <2> QED BY <2>1, <2>2
<1>3. CASE ~ClockSteps /\ ~UserAllows
  BY <1>3 DEF Camera, AnykaStarts, BecomesReal, CallbacksRegistered,
              PortsOpen, PortsDrop, AnykaExits
<1> QED BY <1>1, <1>2, <1>3

(* What the script does. *)
LEMMA ScriptKeeps == ASSUME Inv, Script PROVE Inv'
<1> USE DEF Inv, TypeOK, FitInv, AgeInv, At, Steps, countVars, fileVars, Labels
<1>1. CASE Wake
  <2>1. pc' = "marker" /\ UNCHANGED <<sd, OFFSETS, clock, tried, steps>>
    BY <1>1 DEF Wake
  <2>2. age' = (IF age < Retry THEN age + 1 ELSE age)
        /\ quiet' = (IF quiet < Retry THEN quiet + 1 ELSE quiet)
    BY <1>1 DEF Wake
  <2> QED BY <2>1, <2>2
<1>2. CASE CheckMarker \/ EnsureKick \/ FindPid \/ CheckState
  BY <1>2 DEF CheckMarker, EnsureKick, FindPid, CheckState
<1>3. CASE CheckBinary
  <2>1. UNCHANGED <<sd, clock, tried, age, quiet, steps>>
    BY <1>3 DEF CheckBinary
  <2>2. CASE pc' = "retry"
    <3>1. Supported(sd) /\ OFFSETS' = offsets_for_md5(sd.fw)
      BY <1>3, <2>2 DEF CheckBinary
    <3>2. sd.fw \in Firmwares
      BY DEF Cards
    <3>3. sd.fw = "other" => sd.allow \/ sd.md5 = "other"
      BY <3>1 DEF Supported
    <3> QED BY <2>1, <2>2, <3>1, <3>2, <3>3 DEF offsets_for_md5, Firmwares
  <2>3. CASE pc' # "retry"
    BY <1>3, <2>1, <2>3 DEF CheckBinary
  <2> QED BY <2>2, <2>3
<1>4. CASE CheckRetry
  <2>1. pc = "retry" /\ pc' = IF retry_allowed THEN "note" ELSE "sleep"
    BY <1>4 DEF CheckRetry
  <2>2. UNCHANGED <<sd, OFFSETS, clock, tried, age, quiet, steps>>
    BY <1>4 DEF CheckRetry
  <2> QED BY <2>1, <2>2 DEF retry_allowed
<1>5. CASE NoteAttempt
  <2>1. pc = "note" /\ pc' = "ports" /\ quiet' = 0
        /\ UNCHANGED <<sd, OFFSETS, clock, steps>>
    BY <1>5 DEF NoteAttempt
  <2>2. IF clock THEN tried' = TRUE /\ age' = 0 ELSE UNCHANGED <<tried, age>>
    BY <1>5 DEF NoteAttempt
  <2>3. CASE clock
    BY <2>1, <2>2, <2>3
  <2>4. CASE ~clock
    BY <2>1, <2>2, <2>4
  <2> QED BY <2>3, <2>4
<1>6. CASE CheckPorts \/ StartWorker \/ InstallChain
  BY <1>6 DEF CheckPorts, StartWorker, InstallChain
<1>7. CASE MarkSuccess \/ MarkAnyway
  BY <1>7 DEF MarkSuccess, MarkAnyway
<1> QED BY <1>1, <1>2, <1>3, <1>4, <1>5, <1>6, <1>7 DEF Script

(* The invariant holds in every reachable state. *)
THEOREM InvariantHolds == Spec => []Inv
<1>1. Inv /\ [Next]_vars => Inv'
  <2> SUFFICES ASSUME Inv, [Next]_vars PROVE Inv'
    OBVIOUS
  <2>1. CASE UNCHANGED vars
    BY <2>1 DEF vars, fileVars, scriptVars, countVars, Inv, TypeOK, FitInv,
                AgeInv
  <2> QED BY <2>1, CameraKeeps, ScriptKeeps DEF Next
<1> QED BY Initially, <1>1, PTL DEF Spec

(* rtsp_kick is only run against a firmware that was recognised or that    *)
(* the user vouched for, and never with the offsets of another one.        *)
THEOREM KickFits == Spec => []KickFitsFirmware
<1>1. Inv => KickFitsFirmware
  BY DEF Inv, FitInv, KickFitsFirmware, KickLabels
<1> QED BY InvariantHolds, <1>1, PTL

(* As long as nobody sets the clock two attempts are at least              *)
(* MIN_RETRY_SECONDS apart, whatever happened to anyka_ipc between.        *)
THEOREM BackoffIsHeld == Spec => BackoffHeld
<1>1. Inv /\ [Next]_vars =>
        [pc = "note" /\ pc' = "ports" /\ clock /\ steps = 0
           => quiet >= Retry]_vars
  BY DEF Inv, TypeOK, AgeInv
<1> QED BY InvariantHolds, <1>1, PTL DEF Spec, BackoffHeld
=============================================================================
