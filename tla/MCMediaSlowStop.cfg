\* A worker whose stop outlasts the start deadline or the grace window.
SPECIFICATION Spec
CONSTANTS
  Tracks = {front}
  Viewers = {v1}
  MaxPipelines = 1
  SlowStop = TRUE
  MaxEncoders = 3
  front = front
  v1 = v1
INVARIANT OneEncoderPerTrack
CHECK_DEADLOCK FALSE
