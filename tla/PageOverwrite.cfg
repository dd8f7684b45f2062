\* A page whose registrar is replaced by a second attach: at most one
\* fragment runs before the first attach; any number may run after it.
SPECIFICATION Spec
CONSTANTS
    Test = Test
    Regenerated = Regenerated
    Extra = Extra
    Broken = Broken
    NotAList = NotAList
    r1 = r1
    r2 = r2
    Undefined = Undefined
    Fragments <- MCFragments
    Statements <- MCStatements
    Registrars <- MCRegistrars
    AllCrates <- MCAllCrates
    Malformed <- MCMalformed
    SecondAttach = "overwrite"
    MaxRuns = 5
    MaxEarly = 1
INVARIANTS
    EverySubmittedFragmentDelivered
PROPERTIES
    ImplementsRegistryBridge
CHECK_DEADLOCK FALSE
