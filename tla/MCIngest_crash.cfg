\* Two users upload the same content, one through the seeder and its re-runs,
\* to two worker processes; any call may raise and a process is lost. Every
\* published message settles.
SPECIFICATION FairSpec
CONSTANTS
    t1 = t1 t2 = t2 u1 = u1 u2 = u2 c1 = c1 c2 = c2 f1 = f1 f2 = f2 b1 = b1
    Task = {t1, t2}
    Worker = {w1, w2}
    User = {u1, u2}
    Content = {c1, c2}
    File = {f1, f2}
    Book = {b1, b2}
    KindOf <- SeedAndApi
    UserOf <- EachUser
    ContentOf <- SameContent
    FileOf <- EachFile
    Near <- Same
    Short = {}
    Blank = {}
    Legacy = {}
    Debris = {}
    LegacyContent <- NoLegacyContent
    MaxCrashes = 1
    MaxExpiries = 0
    MaxReseeds = 1
    ResultsExpire = FALSE
    NoTask = NoTask NoBook = NoBook NoRow = NoRow NoFile = NoFile
INVARIANTS SuccessMeansOwned NoDanglingPointer ExactlyOneVectorSet OneBookPerTask
PROPERTIES EveryTaskSettles
\* once every task has settled and nobody enqueues, the pipeline rests
CHECK_DEADLOCK FALSE
