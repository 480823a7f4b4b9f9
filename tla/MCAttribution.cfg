CONSTANTS
    None = None
    NoPod = NoPod
    NoValidator = NoValidator
    ConfigChoices <- AttributionConfigs
    Requests <- AttributedRequests
SPECIFICATION Spec
INVARIANT BlameOnlyOwnMutations
