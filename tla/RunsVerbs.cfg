\* Two verbs and a money command over two runs.  A process runs one verb and a
\* run id is used once, so the system stops.
SPECIFICATION Spec
CONSTANTS
    Bodies = {"bytes"}
    NoBody = "none"
    StepNames = {"simulate", "execute"}
    FirstStep = "simulate"
    Gated = {"execute"}
    Procs = {p1, p2}
    Money = Money
    NoProc = NoProc
    Runs <- MCRuns
    Found <- MCFound
    NoRecord = NoRecord
    Unreadable = Unreadable
    NoRun = NoRun
    Lines <- MCLines
    p1 = p1
    p2 = p2
    Shapes <- MCShapes
    DayLength = 1
    Longest = 10
    PlanLife = 0
    MaxAttempts = 2
    MaxClock = 1
INVARIANTS
    DeclinedNeverLeaves
    PendingListIsComplete
    FaultsHaveACause
PROPERTIES
    PruneKeepsTheYoung
CHECK_DEADLOCK FALSE
