\* Two peers share two tracks and one pipeline; one peer's control queue may overflow.
SPECIFICATION RouterFairSpec
CONSTANTS
  Tracks = {front, rear}
  Viewers = {p1, p2}
  MaxPipelines = 1
  SlowStop = FALSE
  MaxEncoders = 2
  MaxSlots = 1
  Overflowing = {p1}
  front = front
  rear = rear
  p1 = p1
  p2 = p2
INVARIANTS RecordsMatchMedia OneEncoderPerTrack PipelineBound
PROPERTIES UnwatchedEncodersStop CloseReleasesAll
CHECK_DEADLOCK FALSE
