SPECIFICATION Spec
CONSTANTS
    BadChars = {"U"}
    Chars = {"a", "/", "*", "U", "n", "m", "r", "w", "1", "f"}
    Letters = {"a", "/", "*", "U"}
    MaxRules = 3
    MaxPattern = 3
    MaxValue = 4
    PolicyRules <- MCRules
    Requests <- MCRequests
    Cases <- MCCases
    None = None
INVARIANTS
    DenyOverrides
    PatternIsGlob
    SubjectIsNamespacePrefix
