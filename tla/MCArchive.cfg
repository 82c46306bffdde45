CONSTANTS
  a = a
  b = b
  c = c
  Null = Null
  Objects <- MCObjects
  Lists = {b}
  Graphs <- MCGraphs
  MaxElements = 1
  MaxHeap = 4

SPECIFICATION Spec

INVARIANTS
  WrittenAsIs
  AliveOnce
  TreesComeBack
  StrongOnesLead

\* A program may stop reading.
CHECK_DEADLOCK FALSE
