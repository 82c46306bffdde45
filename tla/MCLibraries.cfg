CONSTANTS
  h1 = h1
  h2 = h2
  None = None
  Names <- MCNames
  Found <- MCFound
  Native = {"core"}
  Requires <- MCRequires
  Classes <- MCClasses
  Super <- MCSuper
  Builtin = "Object"
  Holders <- MCHolders
  MaxLibraries = 8

SPECIFICATION FairSpec

INVARIANTS
  ClassesFollowLibraries
  VisibleWhenComplete

PROPERTY
  ImportsEnd

\* A program may stop importing.
CHECK_DEADLOCK FALSE
