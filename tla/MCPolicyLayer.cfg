CONSTANTS
    None = None
    NoPod = NoPod
    NoValidator = NoValidator
    ConfigChoices <- PolicyConfigs
    Requests <- PolicyRequests
SPECIFICATION Spec
INVARIANTS TypeOK 
PROPERTIES Answered ImplementsAdmission
