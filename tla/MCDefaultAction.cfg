CONSTANTS
    None = None
    NoPod = NoPod
    NoValidator = NoValidator
    ConfigChoices <- DenyByDefaultConfigs
    Requests <- RestrictionRequests
SPECIFICATION Spec
INVARIANT DefaultActionDenyHonoured
