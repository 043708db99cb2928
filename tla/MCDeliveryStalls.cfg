\* A channel holds one message of the largest size.
SPECIFICATION Spec
CONSTANTS
  Streams = {"odom"}
  Latest = {}
  Realtime = {}
  MaxStreams = 3
  MaxBytes = 4
  MaxMessageBytes = 2
  MaxControl = 2
  MaxMessages = 2
  MaxBuffered = 2
  MaxSamples <- Samples
  MaxResponses = 2
INVARIANT WakeUpDue
CHECK_DEADLOCK FALSE
