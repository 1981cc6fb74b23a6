---------------------------- MODULE MCRunsVerbs ----------------------------
(***************************************************************************)
(* RunsVerbs with the records earlier commands leave behind and the        *)
(* command lines of the four verbs.                                        *)
(***************************************************************************)
EXTENDS RunsVerbs, TLC

CONSTANTS p1, p2

MCRuns == 1..2

MCShapes == {{"simulate"}, {"simulate", "execute"}}

Settled == [NewStep("bytes") EXCEPT !.state = "terminal", !.outcome = "settled", !.attempts = 1]
Waiting == [NewStep("bytes") EXCEPT !.state = "awaiting_confirmation", !.token = "live"]

\* A simulate priced long ago, alone or beside a run killed at its prompt.
MCFound ==
    LET old(steps) == [steps |-> steps, created |-> -3, keep |-> 0]
        priced == old("simulate" :> Settled)
        asked == old("simulate" :> Settled @@ "execute" :> Waiting)
    IN  {<<priced, NoRecord>>, <<priced, asked>>}

\* A prune or a decline beside any verb.  Two weeks do not fit in Longest, and
\* neither do eleven units, which are refused.
MCLines ==
    LET prune(n, unit) == [verb |-> "prune", age |-> [n |-> n, unit |-> unit]]
        of(verb_, r) == [verb |-> verb_, run |-> r]
    IN  p1 :> {[verb |-> "list", pending |-> TRUE], of("show", 1), of("decline", 1),
               of("decline", 2), prune(0, "d"), prune(2, "w"), prune(11, "go")}
        @@ p2 :> {prune(2, "d"), of("decline", 2)}
=============================================================================
