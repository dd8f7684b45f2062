\* Every order of the scripts, with the registrar's script bound to run.
SPECIFICATION FairSpec
CONSTANTS
    Test = Test
    Regenerated = Regenerated
    Extra = Extra
    Broken = Broken
    NotAList = NotAList
    r1 = r1
    r2 = r2
    Undefined = Undefined
    Fragments <- MCFragments
    Statements <- MCStatements
    Registrars <- MCRegistrars
    AllCrates <- MCAllCrates
    Malformed <- MCMalformed
    SecondAttach = "reject"
    MaxRuns = 5
    MaxEarly = 5
PROPERTIES
    LatestEventuallyDelivered
CHECK_DEADLOCK FALSE
