CONSTANTS
  v1 = v1
  v2 = v2
  v3 = v3
  c1 = c1
  c2 = c2
  f1 = f1
  f2 = f2
  None = None
  Slots <- MCSlots
  Cells <- MCCells
  Owner <- MCOwner
SPECIFICATION Spec
INVARIANTS
  CountsExact
  NoDangling
  LeaksOnlyByAdoption
PROPERTIES
  DestroyOnce
  HeldArgumentsSurvive
  ImplementsOwnership
CHECK_DEADLOCK FALSE
SYMMETRY MCSymmetry
