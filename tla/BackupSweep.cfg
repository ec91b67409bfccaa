\* Two runs, a clock of two seconds; copies are kept for two: the old one is over
\* its time at once or, if the clock was on a whole second, one second later.
SPECIFICATION Spec
CONSTANTS
    Proc = {p1, p2}
    Name <- OneName
    Keep = 2
    Old <- OldCopies
    Start = 2
    MaxTime = 3
    MaxSaves = 1
    Saving = {p1}
INVARIANTS
    TornHasCopy
    ErrorStopsRun
PROPERTIES
    PanicIsRaced
    OnlyOldSwept
    RunsEnd
