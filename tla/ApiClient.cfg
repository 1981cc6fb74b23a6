\* Every operation and answer; short budgets, so that both run out.
SPECIFICATION FairSpec
CONSTANTS
    Ops = {"transfers_simulate", "transfers_execute", "create_api_key", "watch"}
    RetryBudget = 3
    Timeout = 9
    MaxLatency = 1
    Unsaid = Unsaid
    Afters = {Unsaid, 0, 2}
INVARIANTS
    TypeOK
    PerformedOnce
    NoMoneyIsTrueWithout500
    AcceptedIsTrue
    StoppedIsFinal
    OverrunIsBounded
PROPERTIES
    Ends
\* An invocation ends.
CHECK_DEADLOCK FALSE
