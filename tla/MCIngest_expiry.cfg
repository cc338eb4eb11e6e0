\* Visibility timeouts fire under a running task and results are forgotten,
\* so attempts of one task interleave, one of them possibly lost.
SPECIFICATION Spec
CONSTANTS
    t1 = t1 t2 = t2 u1 = u1 u2 = u2 c1 = c1 c2 = c2 f1 = f1 f2 = f2 b1 = b1
    Task = {t1}
    Worker = {w1, w2}
    User = {u1, u2}
    Content = {c1, c2}
    File = {f1, f2}
    Book = {b1, b2, b3}
    KindOf <- AllApi
    UserOf <- EachUser
    ContentOf <- SameContent
    FileOf <- EachFile
    Near <- Same
    Short = {}
    Blank = {}
    Legacy = {}
    Debris = {}
    LegacyContent <- NoLegacyContent
    MaxCrashes = 1
    MaxExpiries = 2
    MaxReseeds = 0
    ResultsExpire = TRUE
    NoTask = NoTask NoBook = NoBook NoRow = NoRow NoFile = NoFile
SYMMETRY Symmetric
INVARIANTS SafetyInv
PROPERTIES ImplementsCatalog
\* once every task has settled and nobody enqueues, the pipeline rests
CHECK_DEADLOCK FALSE
