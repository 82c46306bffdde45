CONSTANTS
  Half = 6
  MaxEntries = 5
  Tables <- MCTables

SPECIFICATION FairSpec

INVARIANTS
  FindsEntries
  ReadsTable

PROPERTY
  Ends

\* The function returns.
CHECK_DEADLOCK FALSE
