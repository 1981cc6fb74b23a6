----------------------------- MODULE ApiClient -----------------------------
(***************************************************************************)
(* One request of an invocation from its first byte to the class that is   *)
(* reported: api.Client.Do with its resends, poll.Watch with its waits,    *)
(* and followUp of the money path between them, against a FERRY server     *)
(* that performs a keyed operation once.                                   *)
(*                                                                         *)
(* Time is kept as two spans, in seconds: how long the running Do has      *)
(* taken and how long Watch has left.  A step of the program takes no      *)
(* time; a wait takes what it asked for and an answer up to MaxLatency.    *)
(***************************************************************************)
EXTENDS OutcomeTable

CONSTANTS
    Ops,            \* what is invoked: operations with a request of their own,
                    \* and "watch", which is `commands watch`
    RetryBudget,    \* --retry-budget
    Timeout,        \* --timeout
    MaxLatency,     \* bound: the longest an answer takes
    Afters,         \* values of Retry-After and retry_after_seconds; Unsaid
    Unsaid          \* the header or the field is absent

ASSUME ApiAssumption ==
    /\ Ops \subseteq {"transfers_simulate", "transfers_execute", "create_api_key", "watch"}
    /\ RetryBudget \in Nat \ {0} /\ Timeout \in Nat \ {0} /\ MaxLatency \in Nat
    /\ Unsaid \notin Int
    /\ Afters \subseteq Int \cup {Unsaid}

VARIABLES
    pc,
    op,       \* the operation of the invocation
    call,     \* the running Do: its operation, the time spent, the answer
    watch,    \* Watch: the delay before the next read, the time left and the
              \* last command that was read
    signal,   \* a signal was seen; the request context is cancelled with it
    result,   \* the class that is reported, "none" before and "interrupted"
    vague,    \* history: a 500 of the money request was answered by a resend
    srv       \* the server: state of the command, contradiction, effects

vars == <<pc, op, call, watch, signal, result, vague, srv>>

NoBody == [operation |-> "none", state |-> "none", contradiction |-> FALSE,
           txn |-> "none", error |-> NoEnvelope, after |-> Unsaid]

Blank == [transport |-> "none", status |-> 0, code |-> NoEnvelope, reason |-> "none",
          cmd |-> FALSE, parsed |-> FALSE, txn |-> "none", after |-> Unsaid, body |-> NoBody]

Fault(phase) == [Blank EXCEPT !.transport = phase]
Refusal(status, code) == [Blank EXCEPT !.status = status, !.code = code]

ServerStates == {"none", "moving", "completed", "failed", "operator",
                 "other_request", "other_credential"}

Init ==
    /\ pc = "start"
    /\ op \in Ops
    /\ call = [op |-> op, spent |-> 0, answer |-> Blank]
    /\ watch = [delay |-> 0, left |-> Timeout, body |-> NoBody, polls |-> FALSE]
    /\ signal = FALSE /\ result = "none" /\ vague = FALSE
    /\ srv \in [command : IF op = "watch" THEN {"moving", "completed", "failed", "operator"}
                          ELSE IF op = "create_api_key" THEN {"none"}
                          ELSE {"none", "other_request", "other_credential"},
                contradiction : {FALSE}, effects : {0}]

TypeOK ==
    /\ pc \in {"start", "attempt", "sent", "answered", "returned", "watching", "reading", "done"}
    /\ op \in Ops
    /\ call.op \in Operations \cup {"watch"} /\ call.spent \in Nat
    /\ watch.left \in Int /\ watch.body.state \in CommandStates \cup {"none", "novel"}
    /\ result \in Classes \cup {"none", "interrupted"}
    /\ signal \in BOOLEAN /\ vague \in BOOLEAN /\ watch.polls \in BOOLEAN
    /\ srv \in [command : ServerStates, contradiction : BOOLEAN, effects : 0 .. 2]

\* Variant: a server that asks for no wait is given none.
NoFloor(after) == IF after = Unsaid THEN 1 ELSE after

\* Meta.RetryDelaySeconds.
RetryDelay(after) == IF after = Unsaid \/ after < 1 THEN 1 ELSE after

\* Command.RetryDelaySeconds.
CommandDelay(after) == IF after = Unsaid THEN 5 ELSE IF after < 1 THEN 1 ELSE after

Finish(class) == pc' = "done" /\ result' = class

-----------------------------------------------------------------------------
(* Do.                                                                     *)

\* The invocation makes its own request, or goes to Watch at once.
Invoke ==
    /\ pc = "start"
    /\ IF op = "watch"
       THEN pc' = "watching" /\ watch' = [watch EXCEPT !.polls = TRUE]
       ELSE pc' = "attempt" /\ UNCHANGED watch
    /\ UNCHANGED <<op, call, signal, result, vague, srv>>

\* One attempt.  With the context cancelled, or with no connection, nothing
\* leaves.
Attempt ==
    /\ pc = "attempt"
    /\ \/ ~signal /\ pc' = "sent" /\ UNCHANGED call
       \/ pc' = "answered" /\ call' = [call EXCEPT !.answer = Fault("dial")]
    /\ UNCHANGED <<op, watch, signal, result, vague, srv>>

\* The request was written and no answer was read.
Lost ==
    /\ pc = "sent"
    /\ pc' = "answered"
    /\ call' = [call EXCEPT !.answer = Fault("after_write")]
    /\ UNCHANGED <<op, watch, signal, result, vague, srv>>

\* Variant: the budget is looked at without the wait to come.
AgainWhileInBudget ==
    /\ call.answer.transport = "none"
    /\ Retryable(OpClassOf[call.op], call.answer)
    /\ call.spent <= RetryBudget

\* The answer is worth a resend, and the wait before it ends in the budget.
Again ==
    /\ call.answer.transport = "none"
    /\ Retryable(OpClassOf[call.op], call.answer)
    /\ call.spent + RetryDelay(call.answer.after) <= RetryBudget

Resend ==
    /\ pc = "answered"
    /\ Again
    /\ pc' = "attempt"
    /\ LET delay == RetryDelay(call.answer.after) IN
          /\ call' = [call EXCEPT !.spent = @ + delay, !.answer = Blank]
          /\ watch' = IF watch.polls THEN [watch EXCEPT !.left = @ - delay] ELSE watch
    /\ vague' = (vague \/ (call.op # "get_command" /\ call.answer.code = "INTERNAL_ERROR"))
    /\ UNCHANGED <<op, signal, result, srv>>

Return ==
    /\ pc = "answered"
    /\ ~Again
    /\ pc' = "returned"
    /\ UNCHANGED <<op, call, watch, signal, result, vague, srv>>

-----------------------------------------------------------------------------
(* What the invocation does with the last answer of its own request.       *)

\* pollTarget: an answer that names a command still on its way.
Followed(ans) ==
    ans.cmd /\ (ans.status = 202 \/ ans.code \in {"UPSTREAM_BUSY", "IDEMPOTENCY_KEY_IN_PROGRESS"})

FirstDelay(ans) ==
    IF ans.after # Unsaid THEN RetryDelay(ans.after)
    ELSE IF ans.status = 202 /\ ans.parsed THEN CommandDelay(ans.body.after) ELSE 5

Take ==
    /\ pc = "returned" /\ ~watch.polls
    /\ \/ /\ signal /\ op # "create_api_key"
          /\ Finish("interrupted") /\ UNCHANGED watch
       \/ /\ ~signal \/ op = "create_api_key"
          /\ Finish(Classify(op, call.answer)) /\ UNCHANGED watch  \* or --no-wait
       \/ /\ ~signal /\ OpClassOf[op] \in MoneyClasses /\ Followed(call.answer)
          /\ pc' = "watching"
          /\ watch' = [watch EXCEPT !.polls = TRUE, !.delay = FirstDelay(call.answer)]
          /\ UNCHANGED result
    /\ UNCHANGED <<op, call, signal, vague, srv>>

-----------------------------------------------------------------------------
(* Watch.                                                                  *)

\* A wait that would not end before the deadline is not begun.
TimeOut ==
    /\ pc = "watching"
    /\ watch.delay > 0 /\ watch.delay >= watch.left
    /\ Finish("pending")
    /\ UNCHANGED <<op, call, watch, signal, vague, srv>>

Wait ==
    /\ pc = "watching"
    /\ watch.delay = 0 \/ watch.delay < watch.left
    /\ IF signal THEN Finish("interrupted") /\ UNCHANGED watch
       ELSE /\ pc' = "reading" /\ UNCHANGED result
            /\ watch' = [watch EXCEPT !.left = @ - watch.delay]
    /\ UNCHANGED <<op, call, signal, vague, srv>>

Read ==
    /\ pc = "reading"
    /\ IF signal THEN Finish("interrupted") /\ UNCHANGED call
       ELSE /\ pc' = "attempt" /\ UNCHANGED result
            /\ call' = [op |-> "get_command", spent |-> 0, answer |-> Blank]
    /\ UNCHANGED <<op, watch, signal, vague, srv>>

\* followUp turns an unreadable command into pending; `commands watch`
\* reports the class of the read.
Unreadable(ans) ==
    IF op = "watch" THEN Classify("get_command", ans) ELSE "pending"

TakeRead ==
    LET ans == call.answer IN
    /\ pc = "returned" /\ watch.polls
    /\ \/ signal /\ Finish("interrupted") /\ UNCHANGED watch
       \/ ~signal /\ ~ans.parsed /\ Finish(Unreadable(ans)) /\ UNCHANGED watch
       \/ /\ ~signal /\ ans.parsed
          /\ watch' = [watch EXCEPT !.body = ans.body, !.delay = CommandDelay(ans.body.after)]
          /\ IF ClassifyCommand(ans.body) = "pending" THEN pc' = "watching" /\ UNCHANGED result
             ELSE Finish(ClassifyCommand(ans.body))
    /\ UNCHANGED <<op, call, signal, vague, srv>>

\* The root's listener: the money path and Watch see the channel closed, and
\* the request context is cancelled.
Interrupt ==
    /\ ~signal /\ pc # "done"
    /\ signal' = TRUE
    /\ UNCHANGED <<pc, op, call, watch, result, vague, srv>>

-----------------------------------------------------------------------------
(* The FERRY server (external), as the comments of the table describe it:  *)
(* the replies it may give now, each with what the server becomes.         *)

Reply(ans, next) == [ans |-> ans, srv |-> next]

With(answers) == {Reply(ans, srv) : ans \in answers}

Becomes(command) ==
    [srv EXCEPT !.command = command, !.effects = IF command = "failed" THEN @ ELSE @ + 1]

Performed(answers, commands) == {Reply(ans, Becomes(c)) : ans \in answers, c \in commands}

\* Answers given before the key or the command is looked up.
Early == {Refusal(401, "TOKEN_REVOKED"), Refusal(503, "UPSTREAM_NOT_CONFIGURED")}
         \cup {[Refusal(429, "RATE_LIMITED") EXCEPT !.after = a] : a \in Afters}
         \cup {Refusal(503, "SERVICE_UNAVAILABLE")}

\* Answers that say nothing of what was done: a fault after it, a proxy's
\* page, a code from elsewhere.
Obscure == {Refusal(500, "INTERNAL_ERROR"), Refusal(502, NoEnvelope), Refusal(409, "NOVEL_CODE"),
            Refusal(404, "WEBHOOK_ENDPOINT_UNKNOWN"), Refusal(FixtureUnmatched, "NOVEL_CODE")}

Created(parsed, txn) == [Blank EXCEPT !.status = 201, !.parsed = parsed, !.txn = txn]

Named(ans) == [ans EXCEPT !.cmd = TRUE]

MovingBody(after) == [NoBody EXCEPT !.operation = op, !.state = "inflight", !.after = after]

Accepted(parsed, after) ==
    Named([Blank EXCEPT !.status = 202, !.parsed = parsed, !.body = MovingBody(after)])

Reused(reason) == [Refusal(409, "IDEMPOTENCY_KEY_REUSED") EXCEPT !.reason = reason]

\* The first request under a key.
FirstReplies ==
    Performed({Created(TRUE, "ok"), Created(TRUE, "failed"), Created(FALSE, "none")}, {"completed"})
    \cup Performed({Accepted(p, a) : p \in BOOLEAN, a \in Afters}
                   \cup {Named(Refusal(503, "UPSTREAM_BUSY"))}, {"moving"})
    \cup Performed({Named(Refusal(403, "POLICY_MAX_AMOUNT_PER_DAY"))}, {"failed"})
    \cup Performed(Obscure, {"moving", "completed", "failed"})
    \cup With({Refusal(410, "PLAN_EXPIRED"), Refusal(422, "QUOTE_REJECTED"), Refusal(503, "UPSTREAM_BUSY")})

MoneyReplies ==
    With(Early \cup Obscure) \cup
    CASE srv.command = "none" -> FirstReplies
      [] srv.command = "moving" -> With({Named(Refusal(409, "IDEMPOTENCY_KEY_IN_PROGRESS")), Accepted(TRUE, Unsaid)})
      [] srv.command = "completed" -> With({Created(TRUE, "ok"), Refusal(409, "IDEMPOTENCY_KEY_REPLAY_EXPIRED")})
      [] srv.command = "failed" -> With({Named(Refusal(403, "POLICY_MAX_AMOUNT_PER_DAY")),
                                         Named(Refusal(503, "UPSTREAM_UNAVAILABLE"))})
      [] srv.command = "operator" -> With({Named(Refusal(409, "COMMAND_UNRESOLVED"))})
      [] srv.command = "other_request" -> With({Reused("different_request")})
      [] srv.command = "other_credential" -> With({Reused("different_credential")})

\* A key mint takes no idempotency key: every one that is served makes a key.
MintReplies ==
    With(Early \cup Obscure)
    \cup Performed(Obscure \cup {Created(TRUE, "none"), Created(FALSE, "none")}, {"completed"})

Body(state) ==
    [NoBody EXCEPT !.operation = IF op = "watch" THEN "transfers_execute" ELSE op,
                   !.state = state, !.contradiction = srv.contradiction]

Bodies ==
    CASE srv.command = "moving" ->
            {[Body(s) EXCEPT !.after = a] : s \in {"inflight", "novel"}, a \in Afters}
      [] srv.command = "completed" -> {[Body("completed") EXCEPT !.txn = t] : t \in {"none", "ok"}}
      [] srv.command = "failed" ->
            {[Body("failed_terminal") EXCEPT !.error = e] :
                e \in {"QUOTE_REJECTED", "SERVICE_UNAVAILABLE", "UPSTREAM_UNKNOWN"}}
      [] srv.command = "operator" -> {Body("needs_operator")}

CommandReplies ==
    With(Early \cup Obscure)
    \cup With({[Blank EXCEPT !.status = 200, !.parsed = TRUE, !.body = b] : b \in Bodies})
    \cup IF srv.command = "operator" THEN With({Named(Refusal(409, "COMMAND_UNRESOLVED"))}) ELSE {}

Replies ==
    CASE call.op = "get_command" -> CommandReplies
      [] call.op = "create_api_key" -> MintReplies
      [] OTHER -> MoneyReplies

Serve(seconds) ==
    /\ pc = "sent"
    /\ \E reply \in Replies :
          /\ srv' = reply.srv
          /\ call' = [call EXCEPT !.answer = reply.ans, !.spent = @ + seconds]
    /\ pc' = "answered"
    /\ watch' = IF watch.polls THEN [watch EXCEPT !.left = @ - seconds] ELSE watch
    /\ UNCHANGED <<op, signal, result, vague>>

\* A request that was given up may still be served.
ServeUnheard ==
    /\ pc = "answered" /\ call.answer.transport = "after_write"
    /\ srv.command = "none"
    /\ \E c \in IF op = "create_api_key" THEN {"completed"} ELSE {"moving", "completed", "failed"} :
          srv' = Becomes(c)
    /\ UNCHANGED <<pc, op, call, watch, signal, result, vague>>

\* A command moves on, for itself.  A transaction that contradicts a failure
\* is found at the latest with it.
Work ==
    /\ pc # "done" /\ srv.command = "moving"
    /\ \E c \in {"completed", "failed", "operator"}, b \in BOOLEAN :
          /\ c = "completed" => ~b
          /\ srv' = [srv EXCEPT !.command = c, !.contradiction = b]
    /\ UNCHANGED <<pc, op, call, watch, signal, result, vague>>

-----------------------------------------------------------------------------
Client == Invoke \/ Attempt \/ Resend \/ Return \/ Take \/ TimeOut \/ Wait \/ Read \/ TakeRead

Network == Lost \/ \E seconds \in 0 .. MaxLatency : Serve(seconds)

Next == Client \/ Network \/ Interrupt \/ ServeUnheard \/ Work

Spec == Init /\ [][Next]_vars

\* The program runs. That every request ends in an answer or a fault is asked
\* of the network: the client sets no deadline on one.
FairSpec == Spec /\ WF_vars(Client) /\ WF_vars(Network)

-----------------------------------------------------------------------------
(* Properties.                                                             *)

MoneyNo == {c \in Classes : Properties[c].money = "no"}

\* The operation may have been, or may yet be, performed; the server said so
\* of a command of another credential when it said that the key is held.
MayHaveMoved ==
    \/ srv.command \in {"moving", "completed", "operator"} \/ srv.contradiction
    \/ srv.command = "other_credential" /\ call.answer.code = "IDEMPOTENCY_KEY_REUSED"

\* No invocation makes the server perform its operation twice: a money
\* request is resent under its key, and a key mint, which has none, is not
\* resent at all (AC27, AC38).
PerformedOnce == srv.effects <= 1

\* An execute reported with "no money moved" moved none and will move none,
\* through resends, commands that settle while they are watched and answers
\* of the wrong surface (C3).  It is said of calls in which no 500 was
\* followed by a resend: Do returns the last answer alone, so a failed dial
\* or a 429 after such a 500 would count as "nothing sent".
NoMoneyIsTrueWithout500 ==
    (pc = "done" /\ op = "transfers_execute" /\ result \in MoneyNo /\ ~vague) => ~MayHaveMoved

\* A transfer reported as accepted was performed, and nothing contradicts it
\* (C9).
AcceptedIsTrue ==
    (pc = "done" /\ result = "accepted_upstream") => srv.command = "completed" /\ ~srv.contradiction

\* A command that was seen to have stopped is not read again, and is not
\* reported with a class whose remedy is to wait or to resend (AC21, AC51).
StoppedIsFinal ==
    (watch.body.state \notin MovingStates \cup {"none"} \/ watch.body.contradiction)
        => pc = "done" /\ result \notin {"transient", "pending"}

\* Do ends within its budget and one answer, and Watch overruns its deadline
\* by at most the Do that was under way: with answers that come within
\* MaxLatency, --timeout plus --retry-budget bound the wait of a caller.
OverrunIsBounded ==
    /\ call.spent <= RetryBudget + MaxLatency
    /\ watch.left >= -(RetryBudget + MaxLatency)

\* Every invocation ends: neither loop can turn without time going by.
Ends == <>(pc = "done")
=============================================================================
