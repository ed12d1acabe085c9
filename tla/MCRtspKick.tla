----------------------------- MODULE MCRtspKick -----------------------------
(* Command lines and symmetry for checking RtspKick with TLC. *)
EXTENDS RtspKick, TLC

Line(mode, func, dry, force, noStart, arg0) ==
  [mode |-> mode, func |-> func, dry |-> dry, force |-> force,
   noStart |-> noStart, arg0 |-> arg0]

(* What the boot script runs, and the speaker script's thread call. *)
StartLine   == Line("start", "start", FALSE, FALSE, FALSE, FALSE)
RecoverLine == Line("start", "start", FALSE, TRUE, FALSE, FALSE)
ChainLine   == Line("install", "start", FALSE, FALSE, TRUE, FALSE)
SpeakerLine == Line("thread", "other", FALSE, TRUE, FALSE, TRUE)
(* The speaker script's other calls, in the attached thread. *)
VolumeLine  == Line("start", "other", FALSE, TRUE, FALSE, FALSE)
(* By hand: ht_rtsp_start in a new thread, with a string or without, start *)
(* and install in one go, dry runs, a peek.                                *)
ThreadLine  == Line("thread", "start", FALSE, FALSE, FALSE, FALSE)
ThreadArg   == Line("thread", "start", FALSE, FALSE, FALSE, TRUE)
FullLine    == Line("install", "start", FALSE, FALSE, FALSE, FALSE)
DryChain    == Line("install", "start", TRUE, FALSE, TRUE, FALSE)
DryArg      == Line("start", "start", TRUE, FALSE, FALSE, TRUE)
PeekLine    == Line("peek", "start", FALSE, FALSE, FALSE, FALSE)

AllLines  == {StartLine, RecoverLine, ChainLine, SpeakerLine, VolumeLine,
              ThreadLine, ThreadArg, FullLine, DryChain, DryArg, PeekLine}
PairLines == {StartLine, ChainLine, VolumeLine, ThreadArg}

KickSymmetry == Permutations(Kicks)
=============================================================================
