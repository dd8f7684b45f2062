\* The page contract of the generator: at most one fragment runs before
\* the registrar attaches; any number may run after it.
SPECIFICATION Spec
CONSTANTS
    Test = Test
    Regenerated = Regenerated
    Extra = Extra
    Broken = Broken
    NotAList = NotAList
    r1 = r1
    r2 = r2
    Undefined = Undefined
    Fragments <- MCFragments
    Statements <- MCStatements
    Registrars <- MCRegistrars
    AllCrates <- MCAllCrates
    Malformed <- MCMalformed
    SecondAttach = "reject"
    MaxRuns = 5
    MaxEarly = 1
INVARIANTS
    EverySubmittedFragmentDelivered
PROPERTIES
    ImplementsRegistryBridge
CHECK_DEADLOCK FALSE
