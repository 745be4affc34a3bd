SPECIFICATION Spec
CONSTANTS
    None = None
    FieldKey = {"plan", "build", "userId", "gone", "free"}
    LegalKey = {"plan", "build", "userId", "gone"}
    Text <- MCText
    NumberOf <- MCNumberOf
    DateOf <- MCDateOf
    PartsOf <- MCPartsOf
    RangeOf <- MCRangeOf
    Truthy = {}
    TextTest <- MCTextTest
    SafePattern = {}
    Callers <- MCCallers
    MaxFields = 2
    Origins <- MCOrigins
    UnleashFiles <- MCUnleashFiles
    Locals <- MCLocals
    EnvironmentMaps <- MCMaps
    SemverOf <- MCSemverOf
INVARIANTS CleanImportIsExact ImportAgainChangesNothing ApprovalKeepsState  EveryLossIsReported ContextOnlyAdds CaretIsCompatible
CHECK_DEADLOCK FALSE
