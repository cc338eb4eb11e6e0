\* A book from before originals were persisted and one that is ingested anew,
\* and an upload whose text is similar to both, under a file name of its own.
SPECIFICATION Spec
CONSTANTS
    t1 = t1 t2 = t2 u1 = u1 u2 = u2 c1 = c1 c2 = c2 f1 = f1 f2 = f2 b1 = b1
    Task = {t1, t2, t3}
    Worker = {w1, w2}
    User = {u1, u2}
    Content = {c1, c2, c3}
    File = {f1, f2}
    Book = {b1, b2, b3}
    KindOf <- AllApi
    UserOf <- EachUser
    ContentOf <- ChainContent
    FileOf <- MiddleFile
    Near <- Chain
    Short = {}
    Blank = {}
    Legacy = {b1}
    Debris = {}
    LegacyContent <- NoLegacyContent
    MaxCrashes = 1
    MaxExpiries = 0
    MaxReseeds = 0
    ResultsExpire = FALSE
    NoTask = NoTask NoBook = NoBook NoRow = NoRow NoFile = NoFile
SYMMETRY Symmetric
INVARIANTS OneOriginalPerBook
PROPERTIES PointerIsNeverReplaced
\* once every task has settled and nobody enqueues, the pipeline rests
CHECK_DEADLOCK FALSE
