CONSTANTS
    None = None
    NoPod = NoPod
    NoValidator = NoValidator
    ConfigChoices <- RestrictionConfigs
    Requests <- RestrictionRequests
SPECIFICATION Spec
INVARIANTS TypeOK VerdictCorrect GlobalDenyEnforced
PROPERTIES Answered
