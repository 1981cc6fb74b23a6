\* Broadcast runs, a human and a script, every trouble.
SPECIFICATION Spec
CONSTANTS
    Bodies = {b1, b2}
    NoBody = NoBody
    StepNames = {"simulate", "execute"}
    FirstStep = "simulate"
    Gated = {"execute"}
    Procs = {p1, p2}
    NoProc = NoProc
    Runs = {r1}
    NoRun = NoRun
    NoRecord = NoRecord
    Keys = {k1}
    NoKey = NoKey
    K1 = k1
    OrderBody = b1
    OtherBody = b2
    Commands <- Mixed
    Trouble = {"crash", "signal", "save", "loss", "dial", "busy", "error", "denied", "stuck", "timeout", "report", "decline", "expiry"}
    MaxTrouble = 2
INVARIANTS
    TypeOK
PROPERTIES
    StoredStateIsNotConsent
