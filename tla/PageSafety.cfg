\* Every order of the scripts of a page: crates.js, five runs of four
\* fragments (one of them malformed), two registrars, second attach rejected.
SPECIFICATION Spec
CONSTANTS
    Test = Test
    Regenerated = Regenerated
    Extra = Extra
    Broken = Broken
    NotAList = NotAList
    r1 = r1
    r2 = r2
    Undefined = Undefined
    Fragments <- MCFragments
    Statements <- MCStatements
    Registrars <- MCRegistrars
    AllCrates <- MCAllCrates
    Malformed <- MCMalformed
    SecondAttach = "reject"
    MaxRuns = 5
    MaxEarly = 5
INVARIANTS
    TypeOK
    DeliveredIsSuffixOfSubmitted
    DisplayNeverStale
    EveryAcceptedModuleShown
PROPERTIES
    ImmediateDeliveryOnceAttached
\* A page whose scripts have all run is at rest.
CHECK_DEADLOCK FALSE
