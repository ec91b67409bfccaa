\* Two runs on one project, with or without --multiple and a client.
SPECIFICATION Spec
CONSTANTS
    Dir = {"src", "lib"}
    Name <- MCName
    WellKnown = {"google"}
    Main = "a"
    ProtoPaths <- MCProtoPaths
    Layouts <- MCLayouts
    On <- MCOn
    Service <- MCService
    ServiceName = {"main", "other"}
    Proto <- MCProto
    Says <- MCSays
    NoProto = 0
    Sample = 1
    Becomes <- MCBecomes
    GoDirs <- MCGoDirs
    Output = "out"
    Alike = {"a", "xa"}
    Touched <- MCTouched
    Modes <- MCModes
    MaxRuns <- MCMaxRuns
INVARIANTS
    ImportsReached
    GeneratedBuilds
    ServicesWired
    PbIsFresh
PROPERTIES
    EditsStay
CHECK_DEADLOCK FALSE
