\* Every kind of command, sent up to two signals.
SPECIFICATION Spec
CONSTANTS
    Verbs = {"execute", "broadcast", "mint", "login", "read"}
    MaxSignals = 2
INVARIANTS
    ExitOneMeansNothingSent
    SuccessIsRecorded
    HeardInTimeSendsNothing
    CutRequestIsNotRecorded
    OneDocument
PROPERTIES
    SignalEnds
