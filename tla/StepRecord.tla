----------------------------- MODULE StepRecord -----------------------------
(***************************************************************************)
(* One step of a run record, and the pure functions the ledger applies to  *)
(* it (internal/runs/record.go, internal/runs/ledger.go).                  *)
(*                                                                         *)
(* A request body is a model value: the ledger only ever compares digests, *)
(* and two bodies have the same digest exactly when they are the same      *)
(* value here.  An outcome is reduced to what the ledger reads from it,    *)
(* whether its exit code is 5 or 6 ("resumable") or another ("settled").   *)
(* A plan token is none, live, or replaced by the scrub sentinel.          *)
(***************************************************************************)
EXTENDS Naturals

CONSTANTS
    Bodies,     \* the request bodies callers may offer
    NoBody,     \* a step that holds no bytes yet
    StepNames,  \* the steps of every run
    FirstStep,  \* the step that carries the caller's body at Create
    Gated       \* the execute step: the one behind the consent gate

ASSUME StepAssumption ==
    /\ NoBody \notin Bodies
    /\ FirstStep \in StepNames
    /\ Gated \subseteq StepNames

States == {"not_started", "awaiting_confirmation", "declined", "pending",
           "answered", "terminal", "unreachable"}

Tokens == {"none", "live", "scrubbed"}

Outcomes == {"none", "resumable", "settled"}

Step == [state    : States,
         body     : Bodies \cup {NoBody},
         token    : Tokens,
         outcome  : Outcomes,
         attempts : Nat]

Run == [StepNames -> Step]

-----------------------------------------------------------------------------
(* Predicates on states and steps.                                         *)

\* Variant: the predicate without "declined".
TerminalButDeclined(state) == state \in {"terminal", "unreachable"}

Terminal(state) == state \in {"terminal", "declined", "unreachable"}

MayHaveSent(state) == state \in {"pending", "answered", "terminal"}

HasPlanToken(step) == step.token = "live"

\* Variant: an answered step is taken for a closed one.
UnresolvedUnanswered(step) == step.state \in {"awaiting_confirmation", "pending"}

Unresolved(step) ==
    \/ step.state \in {"awaiting_confirmation", "pending"}
    \/ step.state = "answered" /\ step.outcome = "resumable"

UnresolvedRun(r) == \E s \in StepNames : Unresolved(r[s])

\* Variant: prune whatever the orphan check would not report.
PrunableIfResolved(r) == ~UnresolvedRun(r)

Prunable(r) == \A s \in StepNames : Terminal(r[s].state) /\ ~HasPlanToken(r[s])

-----------------------------------------------------------------------------
(* The changes a step goes through, each as a function of the step.        *)

\* A step as Create writes it: only the first carries the caller's bytes.
NewStep(body) ==
    [state |-> "not_started", body |-> body, token |-> "none",
     outcome |-> "none", attempts |-> 0]

NewRun(body) ==
    [s \in StepNames |-> NewStep(IF s = FirstStep THEN body ELSE NoBody)]

\* Variant: the token is emptied instead of replaced by the sentinel.
ScrubToEmpty(step) == IF HasPlanToken(step) THEN [step EXCEPT !.token = ""] ELSE step

\* scrubStep: a live token becomes the sentinel, the body is left alone.
Scrub(step) == IF HasPlanToken(step) THEN [step EXCEPT !.token = "scrubbed"] ELSE step

\* scrubRun: tokens of settled steps, and of plans past expiry plus the grace.
ScrubRun(r, expired) ==
    [s \in StepNames |-> IF Terminal(r[s].state) \/ expired THEN Scrub(r[s]) ELSE r[s]]

\* Variant: no digest comparison against the bytes already held.
MayBeginAnyBody(step, offered) ==
    /\ ~Terminal(step.state)
    /\ offered = NoBody => step.body # NoBody

\* Begin accepts a resend (NoBody offered), or bytes equal to those held.
MayBegin(step, offered) ==
    /\ ~Terminal(step.state)
    /\ offered = NoBody => step.body # NoBody
    /\ offered # NoBody => step.body \in {NoBody, offered}

WithBody(step, offered) == IF offered = NoBody THEN step ELSE [step EXCEPT !.body = offered]

Began(step, offered) ==
    [WithBody(step, offered) EXCEPT !.state = "pending", !.attempts = @ + 1]

Awaiting(step) == [step EXCEPT !.state = "awaiting_confirmation"]

\* SetPlan: a non-empty token, the only kind its one caller passes.
Planned(step) == [step EXCEPT !.token = "live"]

Recorded(step, outcome) ==
    IF outcome = "resumable"
    THEN [step EXCEPT !.outcome = outcome, !.state = "answered"]
    ELSE Scrub([step EXCEPT !.outcome = outcome, !.state = "terminal"])

\* Variant: the decline forgets the token.
DeclinedUnscrubbed(step) == [step EXCEPT !.state = "declined"]

Declined(step) == Scrub([step EXCEPT !.state = "declined"])

MadeUnreachable(step) == Scrub([step EXCEPT !.state = "unreachable"])
=============================================================================
