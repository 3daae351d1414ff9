SPECIFICATION Spec
CONSTANTS
    RunIds <- MCRunIds
    Plan <- MCPlan
    Notes <- MCNotes
    None = None
    Error = Error
INVARIANTS
    ReadersAgree
    ReportTruthful
CHECK_DEADLOCK FALSE
