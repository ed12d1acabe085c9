\* Two-sample frames; the ring wraps after 4 samples, its index after 8.
SPECIFICATION Spec
CONSTANTS
  frame_len = 2
  max_utt_samples = 9
  min_utt_samples = 4
  pre_samples = 3
  start_frames = 2
  end_frames = 2
  vad_ratio = 5
  min_energy = 20
  IntRange = 8
  Energies = {0, 20, 24}
  Chunks = {1, 7}
  Samples = 22
INVARIANTS
  OnePiece
  StartsRight
PROPERTIES
  OnlyAfterQuiet
