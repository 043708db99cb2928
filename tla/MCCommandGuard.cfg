\* Two sessions: leases of one unit expire and are taken over, hooks nest two deep.
SPECIFICATION Spec
CONSTANTS
  Epochs = {e1}
  Topics = {t1, t2}
  LeaseTimes = {1}
  MaxSessions = 2
  MaxHandles = 2
  MaxTime = 2
  MaxSeq = 1
  MaxId = 6
  MaxDepth = 2
SYMMETRY Symmetry
CONSTRAINT Explored
INVARIANTS
  TypeOK
  OneLeasePerTopic
  FencedByLease
  HandlesHaveSessions
  ResourceBounds
  PublishedInOrder
PROPERTIES
  NoLeaseStolen
  ImplementsAuthority
  PublishUnderLiveLease
