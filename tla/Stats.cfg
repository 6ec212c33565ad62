SPECIFICATION Spec
CONSTANTS
    Orders = {o1, o2}
    Cleaners = {c1, c2}
    Properties = {p1}
    Others = {other}
    Prices <- MCPrices
    MaxPrice = 2
    MaxCredit = 1
    Day = 1
    Period = 1
    Limit = 2
    LastMoment = 1
    Spans <- MCSpans
    MaxMoved = 1
    NULL = NULL
    Absent = Absent
SYMMETRY Symmetry
INVARIANTS
    StatsInv
    ReportsAgree
    CountedOnce
    DatedByCompletion
