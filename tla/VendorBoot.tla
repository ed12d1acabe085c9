----------------------------- MODULE VendorBoot -----------------------------
(***************************************************************************)
(* sdcard/vendor_rtsp_boot.sh, run every 10 seconds by the loop of         *)
(* sdcard/hack.sh through custom.sh: the watchdog that copies rtsp_kick,   *)
(* starts the stock RTSP worker and installs the callback chain.  One      *)
(* instance runs at a time; anyka_ipc, its ports and the clock change      *)
(* under it between any two of its commands.  Of an rtsp_kick it sees an   *)
(* effect on anyka_ipc and an exit status.                                 *)
(***************************************************************************)
EXTENDS Integers

CONSTANTS
  Retry,          \* MIN_RETRY_SECONDS in 10-second cycles
  MaxPids,        \* bound: processes anyka_ipc runs as
  MaxDrops,       \* bound: times the listeners disappear
  MaxSteps,       \* bound: steps of the clock
  MaxFails,       \* bound: rtsp_kick runs that fail part-way
  SdCards,        \* what the SD card may hold at boot
  Worlds          \* which troubles may come together

(* What can go wrong around the script: the callbacks are registered after *)
(* it looks; an install fails although the slots match; a failed start     *)
(* leaves the guard set but no listeners; the listeners go away before the *)
(* marker is written; cp of rtsp_kick to /tmp stops part-way.              *)
Troubles == {"late", "flaky", "breaks", "drops", "copies"}

Firmwares == {"v93", "v105", "other"}

Cards == [fw : Firmwares, kick : BOOLEAN, allow : BOOLEAN,
          md5 : Firmwares \cup {"none"}]

ASSUME BootAssumption ==
  /\ Retry \in Nat \ {0} /\ MaxPids \in Nat /\ MaxDrops \in Nat
  /\ MaxSteps \in Nat /\ MaxFails \in Nat
  /\ SdCards \subseteq Cards /\ Worlds \subseteq SUBSET Troubles

VARIABLES
  \* the camera (external)
  pid,         \* pidof anyka_ipc, 0 when there is none
  pids,        \* how many processes it has run as
  real,        \* /proc/pid/exe is anyka_ipc, not its wrapper script
  trouble,     \* what may go wrong in this behaviour
  serving,     \* "off": guard 0; "half": guard set, nothing listens;
               \* "starting": ht_rtsp_start ran; "up": both ports listen
  slots,       \* the callback slots: "null", "tuya" or "chain"
  \* the files
  sd,          \* the SD card, and the firmware the camera runs
  tmpKick,     \* /tmp/rtsp_kick: "none", "partial" or "good"
  state,       \* pid in vendor_rtsp_boot.done, 0 when there is no file
  unsupported, \* vendor_rtsp_boot.unsupported exists
  tried,       \* vendor_rtsp_boot.last_attempt exists
  age,         \* now - last_attempt, in cycles; Retry stands for more
  clock,       \* does date yield a usable number?
  \* the script
  pc, PID, RECOVERY_MODE, OFFSETS,
  \* history and bounds
  quiet,       \* cycles since the last attempt
  drops, steps, fails

cameraVars == <<pid, pids, real, serving, slots, trouble>>
fileVars   == <<sd, tmpKick, state, unsupported, tried, age, clock>>
scriptVars == <<pc, PID, RECOVERY_MODE, OFFSETS>>
countVars  == <<quiet, drops, steps, fails>>
vars       == <<cameraVars, fileVars, scriptVars, countVars>>

KickLabels == {"start", "install"}

ports_ready == serving = "up"

Init ==
  /\ pid = 0 /\ pids = 0 /\ real = FALSE /\ serving = "off" /\ slots = "null"
  /\ sd \in SdCards /\ trouble \in Worlds
  /\ tmpKick = "none" /\ state = 0 /\ unsupported = FALSE
  /\ tried = FALSE /\ age = Retry /\ clock \in BOOLEAN
  /\ pc = "sleep" /\ PID = 0 /\ RECOVERY_MODE = FALSE /\ OFFSETS = "v105"
  /\ quiet = Retry /\ drops = 0 /\ steps = 0 /\ fails = 0

-----------------------------------------------------------------------------
(* The camera (external) *)

AnykaStarts ==
  /\ pid = 0 /\ pids < MaxPids
  /\ pid' = pids + 1 /\ pids' = pids + 1
  /\ UNCHANGED <<real, serving, slots, trouble, fileVars, scriptVars, countVars>>

(* The wrapper has exec'ed the program. *)
BecomesReal ==
  /\ pid # 0 /\ ~real
  /\ real' = TRUE
  /\ slots' = IF "late" \in trouble THEN "null" ELSE "tuya"
  /\ UNCHANGED <<pid, pids, serving, trouble, fileVars, scriptVars, countVars>>

CallbacksRegistered ==
  /\ real /\ slots = "null"
  /\ slots' = "tuya"
  /\ UNCHANGED <<pid, pids, real, serving, trouble, fileVars, scriptVars,
                 countVars>>

PortsOpen ==
  /\ serving = "starting"
  /\ serving' = "up"
  /\ UNCHANGED <<pid, pids, real, slots, trouble, fileVars, scriptVars,
                 countVars>>

(* The listeners go away; the guard word stays set. *)
PortsDrop ==
  /\ serving = "up" /\ drops < MaxDrops
  /\ "drops" \in trouble \/ (state = pid /\ pc \notin {"mark_success", "mark_anyway"})
  /\ serving' = "half" /\ drops' = drops + 1
  /\ UNCHANGED <<pid, pids, real, slots, trouble, fileVars, scriptVars, quiet,
                 steps, fails>>

AnykaExits ==
  /\ pid # 0 /\ pids < MaxPids
  /\ pid' = 0 /\ real' = FALSE /\ serving' = "off" /\ slots' = "null"
  /\ UNCHANGED <<pids, trouble, fileVars, scriptVars, countVars>>

(* The clock is set, forwards or back; or it becomes usable at all. *)
ClockSteps ==
  /\ steps < MaxSteps /\ steps' = steps + 1
  /\ \/ clock /\ tried /\ age' \in {Retry, age - Retry} /\ UNCHANGED clock
     \/ ~clock /\ clock' = TRUE /\ UNCHANGED age
  /\ UNCHANGED <<cameraVars, sd, tmpKick, state, unsupported, tried,
                 scriptVars, quiet, drops, fails>>

(* The user puts vendor_rtsp_boot.allow_unsupported on the card. *)
UserAllows ==
  /\ ~sd.allow
  /\ sd' = [sd EXCEPT !.allow = TRUE]
  /\ UNCHANGED <<cameraVars, tmpKick, state, unsupported, tried, age, clock,
                 scriptVars, countVars>>

Camera == AnykaStarts \/ BecomesReal \/ CallbacksRegistered \/ PortsOpen
          \/ PortsDrop \/ AnykaExits \/ ClockSteps \/ UserAllows

-----------------------------------------------------------------------------
(* The script: one command, or test of the outside world, per action *)

At(label) == pc = label

(* sleep 10, and custom.sh runs the script again. *)
Wake ==
  /\ At("sleep")
  /\ pc' = "marker"
  /\ age' = IF age < Retry THEN age + 1 ELSE age
  /\ quiet' = IF quiet < Retry THEN quiet + 1 ELSE quiet
  /\ UNCHANGED <<cameraVars, sd, tmpKick, state, unsupported, tried, clock,
                 PID, RECOVERY_MODE, OFFSETS, drops, steps, fails>>

(* Go to a label, changing nothing else but what the caller says. *)
Steps(label) ==
  /\ pc' = label
  /\ UNCHANGED <<cameraVars, countVars, sd, age, clock>>

CheckMarker ==
  /\ At("marker")
  /\ RECOVERY_MODE' = FALSE
  /\ Steps(IF unsupported THEN "sleep" ELSE "kick")
  /\ UNCHANGED <<tmpKick, state, unsupported, tried, PID, OFFSETS>>

(* ensure_rtsp_kick.  A cp that fails leaves a part of the file, and since *)
(* it is executable the next cycle takes it as it is.                      *)
EnsureKick ==
  /\ At("kick")
  /\ \/ tmpKick # "none" /\ Steps("pidof") /\ UNCHANGED tmpKick
     \/ tmpKick = "none" /\ ~sd.kick /\ Steps("sleep") /\ UNCHANGED tmpKick
     \/ tmpKick = "none" /\ sd.kick /\ Steps("pidof") /\ tmpKick' = "good"
     \/ /\ "copies" \in trouble /\ tmpKick = "none" /\ sd.kick
        /\ Steps("sleep") /\ tmpKick' = "partial"
  /\ UNCHANGED <<state, unsupported, tried, PID, RECOVERY_MODE, OFFSETS>>

FindPid ==
  /\ At("pidof")
  /\ PID' = pid
  /\ Steps(IF pid = 0 THEN "sleep" ELSE "state")
  /\ UNCHANGED <<tmpKick, state, unsupported, tried, RECOVERY_MODE, OFFSETS>>

(* Compare the done marker with the process, then with the ports. *)
Healthy == state = PID /\ ports_ready

MarkerIsEnough == state # 0 \* mutant: neither pid nor ports are compared

HealthyMarker == state # 0 /\ Healthy

CheckState ==
  /\ At("state")
  /\ RECOVERY_MODE' = (state # 0)
  /\ Steps(IF HealthyMarker THEN "sleep" ELSE "binary")
  /\ UNCHANGED <<tmpKick, state, unsupported, tried, PID, OFFSETS>>

(* The md5 is known, or the file on the SD card names it.  Without that    *)
(* file the expected md5 is the one of v105.                               *)
Supported(card) ==
  \/ card.allow
  \/ card.fw \in {"v93", "v105"}
  \/ card.md5 = card.fw

DefaultOffsets(fw) == "v105" \* mutant: no entry for the second firmware

(* offsets_for_md5: an unknown md5 gets the defaults built into rtsp_kick. *)
offsets_for_md5(fw) == IF fw = "v93" THEN "v93" ELSE "v105"

(* check_supported_binary: /proc/PID/exe must exist and be anyka_ipc. *)
CheckBinary ==
  /\ At("binary")
  /\ IF PID = pid /\ real /\ Supported(sd)
       THEN OFFSETS' = offsets_for_md5(sd.fw) /\ Steps("retry")
       ELSE UNCHANGED OFFSETS /\ Steps("sleep")
  /\ unsupported' = (unsupported \/ (PID = pid /\ real /\ ~Supported(sd)))
  /\ UNCHANGED <<tmpKick, state, tried, PID, RECOVERY_MODE>>

NoBackoff == TRUE \* mutant: MIN_RETRY_SECONDS is not honoured

retry_allowed == ~clock \/ ~tried \/ age >= Retry

CheckRetry ==
  /\ At("retry")
  /\ Steps(IF retry_allowed THEN "note" ELSE "sleep")
  /\ UNCHANGED <<tmpKick, state, unsupported, tried, PID, RECOVERY_MODE,
                 OFFSETS>>

(* note_attempt *)
NoteAttempt ==
  /\ At("note")
  /\ pc' = "ports"
  /\ IF clock THEN tried' = TRUE /\ age' = 0 ELSE UNCHANGED <<tried, age>>
  /\ quiet' = 0
  /\ UNCHANGED <<cameraVars, sd, tmpKick, state, unsupported, clock, PID,
                 RECOVERY_MODE, OFFSETS, drops, steps, fails>>

CheckPorts ==
  /\ At("ports")
  /\ Steps(IF ports_ready THEN "install" ELSE "start")
  /\ UNCHANGED <<tmpKick, state, unsupported, tried, PID, RECOVERY_MODE,
                 OFFSETS>>

(* rtsp_kick has an effect on the process it was started for, when it is   *)
(* whole and its offsets are those of the firmware.                        *)
KickWorks == tmpKick = "good" /\ PID = pid /\ OFFSETS = sd.fw

(* Without --no-guard-check it refuses when the guard word is set. *)
Refuses == serving # "off" /\ ~RECOVERY_MODE

(* The start call; its exit status is ignored. *)
StartWorker ==
  /\ At("start")
  /\ pc' = "install"
  /\ \/ /\ ~KickWorks \/ Refuses
        /\ UNCHANGED <<serving, fails>>
     \/ /\ KickWorks /\ ~Refuses
        /\ serving' = IF serving = "up" THEN "up" ELSE "starting"
        /\ UNCHANGED fails
     \/ /\ KickWorks /\ ~Refuses /\ fails < MaxFails
        /\ serving' \in IF "breaks" \in trouble /\ serving = "off"
                         THEN {"off", "half"} ELSE {serving}
        /\ fails' = fails + 1
  /\ UNCHANGED <<pid, pids, real, slots, trouble, fileVars, PID,
                 RECOVERY_MODE, OFFSETS, quiet, drops, steps>>

(* The install; it refuses slots that are not the expected wrappers. *)
InstallChain ==
  /\ At("install")
  /\ \/ /\ KickWorks /\ slots = "tuya"
        /\ slots' = "chain" /\ pc' = "mark_success" /\ UNCHANGED fails
     \/ /\ ~KickWorks \/ slots # "tuya"
        /\ pc' = "mark_anyway" /\ UNCHANGED <<slots, fails>>
     \/ /\ "flaky" \in trouble /\ fails < MaxFails
        /\ pc' = "mark_anyway" /\ fails' = fails + 1 /\ UNCHANGED slots
  /\ UNCHANGED <<pid, pids, real, serving, trouble, fileVars, PID,
                 RECOVERY_MODE, OFFSETS, quiet, drops, steps>>

(* mark_state, provided both ports listen. *)
StateIfReady == IF ports_ready THEN PID ELSE state

MarkSuccess ==
  /\ At("mark_success")
  /\ state' = StateIfReady
  /\ Steps("sleep")
  /\ UNCHANGED <<tmpKick, unsupported, tried, PID, RECOVERY_MODE, OFFSETS>>

(* The install returned non-zero: "assuming this boot is already patched". *)
MarkAnyway ==
  /\ At("mark_anyway")
  /\ state' = StateIfReady
  /\ Steps("sleep")
  /\ UNCHANGED <<tmpKick, unsupported, tried, PID, RECOVERY_MODE, OFFSETS>>

Script == Wake \/ CheckMarker \/ EnsureKick \/ FindPid \/ CheckState
          \/ CheckBinary \/ CheckRetry \/ NoteAttempt \/ CheckPorts
          \/ StartWorker \/ InstallChain \/ MarkSuccess \/ MarkAnyway

Next == Camera \/ Script

Spec == Init /\ [][Next]_vars

(* The loop of hack.sh goes on; anyka_ipc is started again when it exits,  *)
(* gets past its wrapper, registers its callbacks, and a started RTSP      *)
(* worker opens its ports.  Nothing else is assumed to happen.             *)
FairSpec ==
  /\ Spec
  /\ WF_vars(Script)
  /\ WF_vars(AnykaStarts) /\ WF_vars(BecomesReal)
  /\ WF_vars(CallbacksRegistered) /\ WF_vars(PortsOpen)

-----------------------------------------------------------------------------
(* Safety *)

(* rtsp_kick is only run against a firmware that was recognised or that    *)
(* the user vouched for on the card, and never with the offsets of another *)
(* known firmware.                                                         *)
KickFitsFirmware ==
  pc \in KickLabels =>
    /\ sd.fw \in {"v93", "v105"} => OFFSETS = sd.fw
    /\ sd.fw = "other" => sd.allow \/ sd.md5 = "other"

(* As long as nobody sets the clock, two attempts are at least             *)
(* MIN_RETRY_SECONDS apart, whatever happened to anyka_ipc between.        *)
BackoffHeld ==
  [][pc = "note" /\ pc' = "ports" /\ clock /\ steps = 0
       => quiet >= Retry]_vars

-----------------------------------------------------------------------------
(* Liveness *)

Patchable == sd.kick /\ Supported(sd) /\ sd.fw # "other"

Settled == ports_ready /\ slots = "chain" /\ state = pid /\ pc \notin KickLabels

(* On a firmware whose offsets are known, and when none of the troubles    *)
(* comes, the camera ends up, after every restart, later loss of the       *)
(* listeners, failed start and step of the clock, with its ports open and  *)
(* the chain installed, and the script leaves it alone.                    *)
Settles == Patchable /\ trouble = {} => <>[]Settled

-----------------------------------------------------------------------------
(* What the documentation claims beyond that. *)

(* "once the callbacks match the expected Tuya wrappers, the chain is      *)
(* installed and /tmp/vendor_rtsp_boot.done is created": the marker of a   *)
(* running process means that its chain is installed.                      *)
DoneMeansChained == state # 0 /\ state = pid => slots = "chain"

(* "vendor RTSP ports are not ready yet; will retry next custom.sh cycle": *)
(* the retries bring the ports up in the end.                              *)
PortsComeUp == Patchable => <>[]ports_ready
=============================================================================
