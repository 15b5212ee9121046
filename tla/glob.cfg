CONSTANTS
    KeyChars <- KeyBytes
    PatternChars <- GlobChars
    MaxKey = 5
    MaxPattern = 5
SPECIFICATION Spec
INVARIANTS
    VerdictCorrect
    WorkBounded
