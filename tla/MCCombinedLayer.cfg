CONSTANTS
    None = None
    NoPod = NoPod
    NoValidator = NoValidator
    ConfigChoices <- CombinedConfigs
    Requests <- CombinedRequests
SPECIFICATION Spec
INVARIANTS TypeOK VerdictCorrect
PROPERTIES Answered ImplementsAdmission RejectionJustified
