\* A sweep of the debris an early ingest left, beside an upload with a claim
\* and a manual ingest of a text without chunks; one process is lost,
\* anything may raise.
SPECIFICATION SweepSpec
CONSTANTS
    t1 = t1 t2 = t2 u1 = u1 u2 = u2 c1 = c1 c2 = c2 f1 = f1 f2 = f2 b1 = b1
    Task = {t1, t2}
    Worker = {w1}
    User = {u1, u2}
    Content = {c1, c2}
    File = {f1, f2}
    Book = {b1, b2, b3}
    KindOf <- ApiAndManual
    UserOf <- EachUser
    ContentOf <- EachContent
    FileOf <- EachFile
    Near <- Same
    Short = {}
    Blank = {c2}
    Legacy = {}
    Debris = {b1}
    LegacyContent <- NoLegacyContent
    MaxCrashes = 1
    MaxExpiries = 0
    MaxReseeds = 0
    ResultsExpire = FALSE
    MaxSweeps = 1
    NoTask = NoTask NoBook = NoBook NoRow = NoRow NoFile = NoFile
INVARIANTS ExactlyOneVectorSet QuietSweepIsThorough
PROPERTIES OwnedIsNeverSwept ImplementsCatalog
\* once every task has settled and nobody enqueues, the pipeline rests
CHECK_DEADLOCK FALSE
