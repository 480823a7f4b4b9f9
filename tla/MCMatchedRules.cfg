CONSTANTS
    None = None
    NoPod = NoPod
    NoValidator = NoValidator
    ConfigChoices <- PermissivePolicyConfigs
    Requests <- PolicyRequests
SPECIFICATION Spec
INVARIANT MatchedRulesDecide
