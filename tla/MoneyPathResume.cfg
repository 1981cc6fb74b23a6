\* A caller who keeps resuming.
SPECIFICATION FairSpec
CONSTANTS
    Bodies = {b1, b2}
    NoBody = NoBody
    StepNames = {"simulate", "execute"}
    FirstStep = "simulate"
    Gated = {"execute"}
    Procs = {p1}
    NoProc = NoProc
    Runs = {r1}
    NoRun = NoRun
    NoRecord = NoRecord
    Keys = {k1}
    NoKey = NoKey
    K1 = k1
    OrderBody = b1
    OtherBody = b2
    Commands <- Persistent
    Trouble = {"crash", "signal", "save", "loss", "dial", "busy", "error", "denied", "stuck", "timeout", "report", "decline"}
    MaxTrouble = 3
PROPERTIES
    ResumeSettles
