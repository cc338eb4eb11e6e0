SPECIFICATION MCSpec
CONSTANTS
    b1 = b1
    b2 = b2
    f1 = f1
    c1 = c1
    c2 = c2
    s1 = s1
    s2 = s2
    none = none
    Book = {b1, b2}
    Folder = {f1}
    Command = {c1, c2}
    Search = {s1, s2}
    NoClient = none
    Cap = 1
INVARIANT BlipIsNoBareError
CHECK_DEADLOCK FALSE
