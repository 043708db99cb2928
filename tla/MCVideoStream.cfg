\* One track whose workers write streams cut anywhere and may outlast every timer.
SPECIFICATION StreamFairSpec
CONSTANTS
  Tracks = {front}
  Viewers = {v1}
  MaxPipelines = 1
  SlowStop = TRUE
  MaxEncoders = 3
  Packets <- MCPackets
  Junk <- MCJunk
  Base = 4
  MinPacket = 1
  MaxPacket = 4
  SeqNumbers = 3
  FrameStep = 2
  front = front
  v1 = v1
INVARIANTS NoStuckSource FramesIntact ContinuousTrack
PROPERTIES RetriesAreSpaced StartsAreDecided
CHECK_DEADLOCK FALSE
