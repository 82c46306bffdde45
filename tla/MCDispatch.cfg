CONSTANTS
  Object = Object
  Shape = Shape
  Square = Square
  None = None
  Classes <- MCClasses
  Root = Object
  Super <- MCSuper
  Messages = {"area", "draw"}
  MaxCompiles = 5
  MaxObjects = 4

SPECIFICATION Spec

INVARIANTS
  RunsNearest
  CodeMatches
  FoundWhenCurrent
  SuperSendsClimb

\* A program may stop loading.
CHECK_DEADLOCK FALSE
