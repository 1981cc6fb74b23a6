-------------------------- MODULE LedgerLifecycle --------------------------
(***************************************************************************)
(* What a reader of the run directory sees of RunLedger, and the mapping   *)
(* under which RunLedger implements StepLifecycle.                         *)
(***************************************************************************)
EXTENDS RunLedger

CONSTANTS
    Absent,  \* a run id nobody can name yet
    Gone     \* a run id that is used up

ASSUME LifecycleAssumption ==
    /\ Absent # Gone
    /\ Absent \notin [StepNames -> States] /\ Gone \notin [StepNames -> States]

\* No record of run r can have been seen: its id is not handed out, or the
\* Create that got it has not written yet.
Unborn(r) == r \notin minted \/ \E p \in Procs : pc[p] = "creating" /\ run[p] = r

\* What a reader of the directory sees: the states of the steps.
Life ==
    [r \in Runs |->
        IF record[r] # NoRecord THEN [s \in StepNames |-> record[r][s].state]
        ELSE IF Unborn(r) THEN Absent
        ELSE Gone]

Lifecycle == INSTANCE StepLifecycle WITH life <- Life, sent <- sent

\* Whoever reads the directory sees runs live by StepLifecycle: a record
\* appears once with nothing sent, is rewritten only along the edges a reader
\* may rely on, and disappears once with nothing open (ledger.go, sweep.go).
LifecycleSpec == Lifecycle!Spec
=============================================================================
