CONSTANTS
  Methods <- MCMethods
  Blocks <- MCBlocks
  Outer <- MCOuter
  Programs <- MCPrograms
  Ordinary <- MCOrdinary
  Items = 2

SPECIFICATION FairSpec

INVARIANTS
  RunsAsWritten
  OrdinaryNests
  WayBack
  ContextIsCurrent
  CallersReleased

PROPERTIES
  Termination

\* A program that has come to its end stops.
CHECK_DEADLOCK FALSE
