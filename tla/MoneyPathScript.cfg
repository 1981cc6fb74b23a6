\* A script that types one command at a time, every trouble but expiry and
\* decline, two runs.
SPECIFICATION Spec
CONSTANTS
    Bodies = {b1, b2}
    NoBody = NoBody
    StepNames = {"simulate", "execute"}
    FirstStep = "simulate"
    Gated = {"execute"}
    Procs = {p1}
    NoProc = NoProc
    Runs = {r1, r2}
    NoRun = NoRun
    NoRecord = NoRecord
    Keys = {k1}
    NoKey = NoKey
    K1 = k1
    OrderBody = b1
    OtherBody = b2
    Commands <- KeyedScript
    Trouble = {"crash", "signal", "save", "loss", "dial", "busy", "error", "stuck", "timeout", "report"}
    MaxTrouble = 4
INVARIANTS
    NothingSentIsTrue
    SuccessIsTrue
    SettledNoIsTrue
    OneRunPerKey
PROPERTIES
    NoSecondTransferInTheDark
