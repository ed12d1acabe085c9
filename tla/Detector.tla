------------------------------ MODULE Detector ------------------------------
(***************************************************************************)
(* The voice activity detector of jarvis_wake: samples are cut into        *)
(* frames, quiet frames go to the pre-roll ring and into the noise floor,  *)
(* start_frames loud ones in a row open an utterance, end_frames quiet     *)
(* ones close it, and it is cut off at its maximum length.  A sample is    *)
(* its position in the input, so that one sees which ones an utterance is  *)
(* made of; what evaluate_utterance makes of it is left open (Matcher).    *)
(***************************************************************************)
EXTENDS Integers, Sequences

CONSTANTS
  frame_len, max_utt_samples, min_utt_samples,
  pre_samples,    \* sample_rate * pre_ms / 1000
  start_frames, end_frames, vad_ratio, min_energy,
  IntRange,       \* 2^32: pre_write is an int and wraps
  Energies,       \* energies frames may have
  Chunks,         \* numbers of samples a read may return
  Samples         \* bound: length of the input

ASSUME DetectorAssumption ==
  /\ {frame_len, max_utt_samples, pre_samples, start_frames, end_frames,
      vad_ratio} \subseteq Nat \ {0}
  /\ min_utt_samples \in Nat /\ min_energy \in Nat /\ Samples \in Nat
  /\ Energies \subseteq Nat /\ Chunks \subseteq Nat

next_power_of_two(value) ==
  CHOOSE p \in {2^k : k \in 0 .. 12} : p >= value /\ p < 2 * value

pre_capacity == next_power_of_two(pre_samples)

(* The place of the i-th sample ever pushed: i & pre_mask, for an int.      *)
Slot(i) == (i % IntRange) % pre_capacity

(* Both sizes are powers of two.  No option changes the lengths main sets: *)
(* at 8000 and at 16000 Hz the ring holds the loud frames that come before *)
(* the one that opens an utterance, and its contents with a frame fit into *)
(* an utterance.                                                           *)
ASSUME RingAssumption ==
  /\ pre_capacity \in Nat \ {0}
  /\ IntRange \in Nat \ {0} /\ IntRange % pre_capacity = 0
  /\ (start_frames - 1) * frame_len <= pre_capacity
  /\ pre_capacity + frame_len <= max_utt_samples

VARIABLES
  \* options and signals
  once, eval_max_len, g_stop,
  \* the input
  pc,         \* "read", "samples" or "done"
  count,      \* samples of the current read still to be processed
  seen,       \* samples processed so far: the position of the last one
  \* detector_t
  frame_fill, pre_ring, pre_write, pre_count, utterance, active,
  speech_run, quiet_run, noise_floor,
  \* history
  accepted,   \* utterances accepted
  loud_from,  \* position where the present run of loud frames began
  onset,      \* where the run began that opened the utterance
  hush,       \* quiet frames in a row, up to end_frames
  closed      \* last position of the last utterance that ended

detVars  == <<frame_fill, pre_ring, pre_write, pre_count, utterance, active,
              speech_run, quiet_run, noise_floor>>
histVars == <<accepted, loud_from, onset, hush, closed>>
vars == <<once, eval_max_len, g_stop, pc, count, seen, detVars, histVars>>

(* detector_init *)
Init ==
  /\ once \in BOOLEAN /\ eval_max_len \in BOOLEAN /\ g_stop = FALSE
  /\ pc = "read" /\ count = 0 /\ seen = 0
  /\ frame_fill = 0 /\ pre_ring = [s \in 0 .. pre_capacity - 1 |-> 0]
  /\ pre_write = 0 /\ pre_count = 0 /\ utterance = <<>> /\ active = FALSE
  /\ speech_run = 0 /\ quiet_run = 0 /\ noise_floor = 1
  /\ accepted = 0 /\ loud_from = 1 /\ onset = 1 /\ hush = 0 /\ closed = 0

-----------------------------------------------------------------------------
Lesser(a, b)  == IF a < b THEN a ELSE b
Greater(a, b) == IF a > b THEN a ELSE b

Positions(from, n) == [k \in 1 .. n |-> from + k - 1]

SpeechThreshold == Greater(noise_floor * vad_ratio, min_energy)

(* The smoothed floor, rounded to the nearest integer. *)
Smoothed(energy) == Greater((noise_floor * 31 + energy + 16) \div 32, 1)

(* utterance_append: what does not fit is dropped. *)
Appended(utt, samples) ==
  utt \o SubSeq(samples, 1, Lesser(Len(samples), max_utt_samples - Len(utt)))

(* mutant: the ring is copied as it lies, whichever sample is the oldest *)
AsItLies ==
  [k \in 1 .. Lesser(pre_count, max_utt_samples) |-> pre_ring[k - 1]]

(* utterance_copy_preroll: the last pre_count samples of the ring. *)
Preroll ==
  [k \in 1 .. Lesser(pre_count, max_utt_samples) |->
     pre_ring[Slot(pre_write - pre_count + k - 1)]]

(* pre_ring_push *)
Pushed(samples) ==
  [s \in 0 .. pre_capacity - 1 |->
     LET ks == {k \in 1 .. Len(samples) : Slot(pre_write + k - 1) = s}
     IN  IF ks = {} THEN pre_ring[s]
         ELSE samples[CHOOSE k \in ks : \A j \in ks : j <= k]]

(* evaluate_utterance: too short ones are rejected, of the others the      *)
(* templates decide.  --once sets g_stop.                                  *)
Evaluate(utt) ==
  \/ UNCHANGED <<accepted, g_stop>>
  \/ /\ Len(utt) >= min_utt_samples
     /\ accepted' = accepted + 1
     /\ g_stop' = (g_stop \/ once)

(* detector_reset_utterance *)
Reset ==
  /\ active' = FALSE /\ speech_run' = 0 /\ quiet_run' = 0
  /\ utterance' = <<>>

(* mutant: the frame that overflows the utterance is taken for its end *)
AnyEnd(quiet) == TRUE

(* At the maximum length only --eval-max-len has the utterance evaluated. *)
IsEvaluated(quiet) == quiet >= end_frames \/ eval_max_len

(* mutant: the pre-roll survives the utterance *)
KeepPreroll == pre_count

PrerollAfter == 0

FrameInUtterance(frame, speech) ==
  LET utt   == Appended(utterance, frame)
      quiet == IF speech THEN 0 ELSE quiet_run + 1
  IN  /\ active
      /\ IF quiet >= end_frames \/ Len(utt) >= max_utt_samples
           THEN /\ IF IsEvaluated(quiet) THEN Evaluate(utt)
                                         ELSE UNCHANGED <<accepted, g_stop>>
                /\ Reset /\ pre_count' = PrerollAfter
                /\ closed' = utt[Len(utt)]
           ELSE /\ utterance' = utt /\ quiet_run' = quiet
                /\ UNCHANGED <<active, speech_run, pre_count, accepted,
                               g_stop, closed>>
      /\ UNCHANGED <<pre_ring, pre_write, noise_floor>>

FrameOutside(frame, energy, speech) ==
  /\ ~active
  /\ noise_floor' = IF speech THEN noise_floor ELSE Smoothed(energy)
  /\ speech_run' = IF speech THEN speech_run + 1 ELSE 0
  /\ IF speech_run' >= start_frames
       THEN /\ active' = TRUE /\ quiet_run' = 0
            /\ utterance' = Appended(Preroll, frame)
            /\ UNCHANGED <<pre_ring, pre_write, pre_count>>
       ELSE /\ pre_ring' = Pushed(frame)
            /\ pre_write' = (pre_write + frame_len) % IntRange
            /\ pre_count' = Lesser(pre_count + frame_len, pre_capacity)
            /\ UNCHANGED <<active, quiet_run, utterance>>
  /\ UNCHANGED <<accepted, g_stop, closed>>

(* detector_handle_frame, for the frame that ends at position last. *)
detector_handle_frame(last) ==
  \E energy \in Energies :
    LET speech == energy > SpeechThreshold
        frame  == Positions(last - frame_len + 1, frame_len)
    IN  /\ \/ FrameInUtterance(frame, speech)
           \/ FrameOutside(frame, energy, speech)
        /\ hush' = IF speech THEN 0 ELSE Lesser(hush + 1, end_frames)
        /\ loud_from' = IF speech /\ speech_run > 0 THEN loud_from
                        ELSE IF speech THEN frame[1] ELSE last + 1
        /\ onset' = IF active THEN onset ELSE loud_from'

(* run_stdin: fread returns. *)
Read ==
  /\ pc = "read" /\ ~g_stop
  /\ \E n \in Chunks : n <= Samples - seen /\ count' = n
  /\ pc' = "samples"
  /\ UNCHANGED <<once, eval_max_len, g_stop, seen, detVars, histVars>>

MayProcess == count > 0 /\ ~g_stop

(* One round of detector_process_samples: fill the frame, handle it. *)
ProcessSamples ==
  LET take == Lesser(frame_len - frame_fill, count)
  IN  /\ pc = "samples" /\ MayProcess
      /\ seen' = seen + take /\ count' = count - take
      /\ IF frame_fill + take = frame_len
           THEN frame_fill' = 0 /\ detector_handle_frame(seen')
           ELSE /\ frame_fill' = frame_fill + take
                /\ UNCHANGED <<pre_ring, pre_write, pre_count, utterance,
                               active, speech_run, quiet_run, noise_floor,
                               g_stop, histVars>>
      /\ UNCHANGED <<once, eval_max_len, pc>>

EndOfSamples ==
  /\ pc = "samples" /\ ~MayProcess
  /\ pc' = "read"
  /\ UNCHANGED <<once, eval_max_len, g_stop, count, seen, detVars, histVars>>

(* stdin fails: the utterance under way is given up. *)
ReadFails ==
  /\ pc = "read" /\ ~g_stop /\ pc' = "done"
  /\ UNCHANGED <<once, eval_max_len, g_stop, count, seen, detVars, histVars>>

(* End of the input or g_stop: detector_finish. *)
Finish ==
  /\ pc = "read" /\ pc' = "done"
  /\ IF active THEN Evaluate(utterance) /\ Reset
               ELSE UNCHANGED <<accepted, g_stop, active, speech_run,
                                quiet_run, utterance>>
  /\ UNCHANGED <<once, eval_max_len, count, seen, frame_fill, pre_ring,
                 pre_write, pre_count, noise_floor, loud_from, onset, hush, closed>>

on_signal ==
  /\ ~g_stop /\ pc # "done" /\ g_stop' = TRUE
  /\ UNCHANGED <<once, eval_max_len, pc, count, seen, detVars, histVars>>

Done == pc = "done" /\ UNCHANGED vars

Next == Read \/ ProcessSamples \/ EndOfSamples \/ ReadFails \/ Finish
        \/ on_signal \/ Done

Spec == Init /\ [][Next]_vars

-----------------------------------------------------------------------------
(* An utterance is one piece of the input, up to the last whole frame: the *)
(* pre-roll joins the frame after it without a gap or a repetition, also   *)
(* when the ring and the int that indexes it have wrapped.                 *)
OnePiece ==
  active => /\ utterance # <<>>
            /\ utterance = Positions(utterance[1], Len(utterance))
            /\ utterance[Len(utterance)] = seen - frame_fill

(* The beginning of the word is kept, and no audio is evaluated twice: an  *)
(* utterance starts no later than the first of the loud frames that opened *)
(* it, and has nothing of the one before it.                               *)
StartsRight ==
  active => closed < utterance[1] /\ utterance[1] <= onset

(* "max-length VAD windows are rejected by default": while the input goes  *)
(* on, something is accepted only after end_frames quiet frames in a row.  *)
OnlyAfterQuiet ==
  [][accepted' # accepted /\ ~eval_max_len /\ pc' # "done"
       => hush' = end_frames]_vars

=============================================================================
