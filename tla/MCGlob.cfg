CONSTANTS
    Letters = {"a", "b"}
    MaxLen = 3
SPECIFICATION Spec
INVARIANT GlobAgreesWithReference
