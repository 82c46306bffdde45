CONSTANTS
    Properties <- MCProperties
    PropertyOffset = 1
    ClassProperties <- MCClassProperties
    Classes = {"Object"}
    Dotted = {".i", ".j"}
    Byte = 256
    Methods <- MCMethods
    Inherited = "inherited"
    MaxCalls = 3
    MaxAnswers = 7
SPECIFICATION Spec
INVARIANTS
    CodeIsSound
    DoesWhatItSays
\* A method that has ended, or whose messages are no longer answered, stops.
CHECK_DEADLOCK FALSE
