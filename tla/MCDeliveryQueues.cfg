\* A reliable and a latest stream share the peer budget.
SPECIFICATION FairSpec
CONSTANTS
  Streams = {"odom", "scan"}
  Latest = {"scan"}
  Realtime = {"scan"}
  MaxStreams = 3
  MaxBytes = 4
  MaxMessageBytes = 2
  MaxControl = 2
  MaxMessages = 2
  MaxBuffered = 3
  MaxSamples <- Samples
  MaxResponses = 2
INVARIANTS BytesAccounted PoliciesKept WakeUpDue
PROPERTIES ControlFirst DeniedIsNotSent QueuedIsSent
CHECK_DEADLOCK FALSE
