CONSTANTS
  Methods <- MCMethods
  Blocks <- MCBlocks
  Outer <- MCOuter
  Programs <- ReturnPrograms
  Ordinary <- Everything
  Items = 2

SPECIFICATION Spec

INVARIANT
  ReturnedNeverRuns

\* A program that has come to its end stops.
CHECK_DEADLOCK FALSE
