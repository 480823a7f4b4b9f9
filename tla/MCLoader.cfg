CONSTANTS
    None = None
    Absent = Absent
    Unreadable = Unreadable
    Malformed = Malformed
    Names <- LoaderNames
    Ranks = {1, 2}
    Policies = {"p1", "p2"}
    RestrictionSets = {"r1"}
    ValidatorConfigs = {"v1"}
    Texts <- LoaderTexts
    MaxWrites = 1
SPECIFICATION Spec
INVARIANTS LoaderTypeOK LoadMatchesDirectory
CHECK_DEADLOCK FALSE
