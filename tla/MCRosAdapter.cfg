\* Five names over three native entities, four callbacks.
SPECIFICATION Spec
CONSTANTS
  Names <- Registry
  Direction <- Directions
  EntityKey <- EntityKeys
  Callbacks = {c1, c2, c3, c4}
  None = None
  c1 = c1
  c2 = c2
  c3 = c3
  c4 = c4
SYMMETRY CallbackSymmetry
INVARIANTS StartAllOrNothing EveryListenerOnce
PROPERTIES NeverAfterRemoval
CHECK_DEADLOCK FALSE
