CONSTANTS
    w1 = w1
    w2 = w2
    c1 = c1
    c2 = c2
    k1 = k1
    None = None
    Closed = Closed
    Holiday = Holiday
    Unknown = Unknown
    Workers = {w1, w2}
    Rows = {c1, c2, k1}
    TableOf <- Table
    LastDay = 2
    WeekLength = 2
    Minutes <- ClockTimes
    HourTimes <- MorningTimes
    Policies <- TwoPolicies
    Capacities = {1}
    MaxBooked = 1
    MaxChanges = 3
SYMMETRY Symmetry
SPECIFICATION MCSpec
INVARIANTS
    ViewsAgree
    LeadTimeKept
    AloneRowsAsTold
CHECK_DEADLOCK FALSE
