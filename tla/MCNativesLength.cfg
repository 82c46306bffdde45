CONSTANTS
  TextMessages <- MCTextMessages
  MaxBytes = 20
  Rank <- MCRank
  CollectionMessages <- MCCollectionMessages
  MaxItems = 5
  Given <- MCGiven
SPECIFICATION Spec
INVARIANTS
  LengthCountsCharacters
\* Nothing follows undefined behaviour.
CHECK_DEADLOCK FALSE
