\* The control queue overflows inside video.subscribe.
SPECIFICATION RouterSpec
CONSTANTS
  Tracks = {front}
  Viewers = {p1, p2}
  MaxPipelines = 1
  SlowStop = FALSE
  MaxEncoders = 2
  MaxSlots = 1
  Overflowing = {p1}
  front = front
  p1 = p1
  p2 = p2
INVARIANT ClosedPeersHoldNothing
CHECK_DEADLOCK FALSE
