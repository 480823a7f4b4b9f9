CONSTANTS
    None = None
    NoPod = NoPod
    NoValidator = NoValidator
    ConfigChoices <- MisspeltPodActionConfigs
    Requests <- RestrictionRequests
SPECIFICATION Spec
INVARIANT ServedPodRestrictionActionsValid
