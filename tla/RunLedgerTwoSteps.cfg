\* A two-step run, two processes, every save result: what a reader of the
\* directory sees.  Every run id may end up used, so the system can stop.
SPECIFICATION Spec
CONSTANTS
    Bodies = {b1}
    NoBody = NoBody
    StepNames = {"simulate", "execute"}
    FirstStep = "simulate"
    Gated = {"execute"}
    Procs = {p1, p2}
    NoProc = NoProc
    Runs = {r1}
    NoRecord = NoRecord
    Inodes = {i1, i2, i3}
    NoInode = NoInode
    NoRun = NoRun
    MaxAttempts = 1
    Absent = Absent
    Gone = Gone
SYMMETRY Symmetry
INVARIANTS
    TypeOK
    SentIsRecorded
    SettledIsScrubbed
PROPERTIES
    LifecycleSpec
CHECK_DEADLOCK FALSE
