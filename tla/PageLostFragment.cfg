\* The guarantee of the written specification, on a page where two
\* fragments may run before the registrar attaches.
SPECIFICATION Spec
CONSTANTS
    Test = Test
    Regenerated = Regenerated
    Extra = Extra
    Broken = Broken
    NotAList = NotAList
    r1 = r1
    r2 = r2
    Undefined = Undefined
    Fragments <- MCFragments
    Statements <- MCStatements
    Registrars <- MCRegistrars
    AllCrates <- MCAllCrates
    Malformed <- MCMalformed
    SecondAttach = "reject"
    MaxRuns = 2
    MaxEarly = 2
INVARIANTS
    EverySubmittedFragmentDelivered
CHECK_DEADLOCK FALSE
