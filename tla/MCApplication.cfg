\* Two tracks to probe, four offers for two slots.
SPECIFICATION AppFairSpec
CONSTANTS
  Offers = {o1, o2, o3, o4}
  MaxPeers = 2
  MaxPending = 2
  Tracks = 2
  o1 = o1
  o2 = o2
  o3 = o3
  o4 = o4
INVARIANTS SlotsAccounted HoldsAllOrNothing
PROPERTIES RequestsEnd SlotsComeBack ShutdownEnds StartEnds
CHECK_DEADLOCK FALSE
