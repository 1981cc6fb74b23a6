\* A one-step run, three processes, a resend and two bodies: the lock.
\* Every run id may end up used, so the system can stop.
SPECIFICATION Spec
CONSTANTS
    Bodies = {b1, b2}
    NoBody = NoBody
    StepNames = {"execute"}
    FirstStep = "execute"
    Gated = {"execute"}
    Procs = {p1, p2, p3}
    NoProc = NoProc
    Runs = {r1}
    NoRecord = NoRecord
    Inodes = {i1, i2, i3, i4}
    NoInode = NoInode
    NoRun = NoRun
    MaxAttempts = 2
    Absent = Absent
    Gone = Gone
SYMMETRY Symmetry
INVARIANTS
    LockExclusion
PROPERTIES
    SettledAndBodyStay
    OnlySettledRecordsVanish
CHECK_DEADLOCK FALSE
