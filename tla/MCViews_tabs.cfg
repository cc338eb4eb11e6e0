SPECIFICATION MCSpec
CONSTANTS
    e0 = e0
    e1 = e1
    c0 = c0
    c1 = c1
    c2 = c2
    r1 = r1
    r2 = r2
    Event = {e0, e1}
    Call = {c0, c1, c2}
    LastDay = 2
    PageDays = 1
    Absent = Absent
    MaxLength = 3
    WINDOW_LIMIT = 2
    ANCHOR_CONTEXT = 1
    Ask = {r1, r2}
    None = None
SYMMETRY Symmetric
INVARIANTS
    SettledTabIsRight
    WindowIsARun
    SentIsSaved
CHECK_DEADLOCK FALSE
