\* Two writers and a lookup, in either setting.
SPECIFICATION Spec
CONSTANTS
    p1 = p1
    p2 = p2
    Pk = {p1, p2}
    Uniq = {u1, u2}
    Val = {v1}
    Writer = {w1, w2}
    Reader = {r1}
    Settings <- MCSettings
    NoEntry = NoEntry
    Missing = Missing
SYMMETRY Renamed
INVARIANTS
    StaleIsAccounted
    OnlyGivenUpStale
