--------------------------- MODULE StepLifecycle ---------------------------
(***************************************************************************)
(* What the ledger promises about a run as anybody reading the directory   *)
(* sees it, without locks, handles, sidecars or processes.                 *)
(*                                                                         *)
(* A run is absent, present, or gone for ever.  A present run maps each    *)
(* step to its state.  A rewrite of the record moves any number of steps   *)
(* along the edges below, and `sent` is the truth the record must never    *)
(* contradict: the steps whose request may have left the machine.          *)
(***************************************************************************)
CONSTANTS Runs, StepNames, Absent, Gone

VARIABLES life, sent

States == {"not_started", "awaiting_confirmation", "declined", "pending",
           "answered", "terminal", "unreachable"}

Unsent == {"not_started", "awaiting_confirmation", "declined", "unreachable"}

Settled == {"terminal", "declined", "unreachable"}

\* The states a step may be in after one rewrite of its record.  A step whose
\* request was sent never returns to a state that denies it; a settled step
\* is never reopened, though a declined one may be closed as unreachable; a
\* write-ahead pending whose send never happened may be rolled back by the
\* holder that wrote it.
After(state, wasSent) ==
    IF state = "declined" THEN {"declined", "unreachable"}
    ELSE IF state \in Settled THEN {state}
    ELSE IF wasSent THEN {"pending", "answered", "terminal"}
    ELSE States \ {"answered", "terminal"}

Present(r) == life[r] \notin {Absent, Gone}

Init ==
    /\ life = [r \in Runs |-> Absent]
    /\ sent = [r \in Runs |-> {}]

\* A run appears with every step untouched.
Appear(r) ==
    /\ life[r] = Absent
    /\ life' = [life EXCEPT ![r] = [s \in StepNames |-> "not_started"]]
    /\ UNCHANGED sent

\* An id whose record could not be written is never used again.
Waste(r) ==
    /\ life[r] = Absent
    /\ life' = [life EXCEPT ![r] = Gone]
    /\ UNCHANGED sent

Rewrite(r) ==
    /\ Present(r)
    /\ Present(r)'
    /\ \A s \in StepNames : life'[r][s] \in After(life[r][s], s \in sent[r])
    /\ \A q \in Runs \ {r} : life'[q] = life[q]
    /\ UNCHANGED sent

\* A request leaves only under a record that says it may have.
Send(r, s) ==
    /\ Present(r)
    /\ life[r][s] = "pending"
    /\ sent' = [sent EXCEPT ![r] = @ \cup {s}]
    /\ UNCHANGED life

\* A record disappears once, and only when nothing in it is open.
Vanish(r) ==
    /\ Present(r)
    /\ \A s \in StepNames : life[r][s] \in Settled
    /\ life' = [life EXCEPT ![r] = Gone]
    /\ UNCHANGED sent

Next ==
    \E r \in Runs :
        \/ Appear(r) \/ Waste(r) \/ Rewrite(r) \/ Vanish(r)
        \/ \E s \in StepNames : Send(r, s)

Spec == Init /\ [][Next]_<<life, sent>>
=============================================================================
