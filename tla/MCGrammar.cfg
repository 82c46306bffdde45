CONSTANTS
    WordAtoms <- MCWordAtoms
    Digit <- MCDigit
    Bytes <- MCBytes
    IntMax = 32767
    Names = {"x", "y", "z"}
    Operators <- MCOperators
    MaxTokens = 40
    Inputs <- MCInputs
SPECIFICATION Spec
INVARIANTS
    ReadsBack
    NamesKept
    NumbersRead
    ReadToItsEnd

    
\* The reader stops when the text has been read or refused.
CHECK_DEADLOCK FALSE
