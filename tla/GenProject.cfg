\* Three runs on one project.
SPECIFICATION Spec
CONSTANTS
    Route <- MCRoute
    Type = {"T", "U"}
    Api <- MCApi
    Before <- MCBefore
    Tests <- MCTests
    Default = "types"
    FileName <- MCFileName
    Touched <- MCTouched
    WithTest = {FALSE}
    MaxRuns = 3
INVARIANTS
    RoutesAreServed
    TypesAreDeclared
PROPERTIES
    EditsKept
    RefusalKeepsRoutes
CHECK_DEADLOCK FALSE
