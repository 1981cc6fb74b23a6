--------------------------- MODULE ApiClientProofs ---------------------------
(***************************************************************************)
(* Proofs about ApiClient and the outcome table for any budgets, timeouts, *)
(* latencies and values of Retry-After.                                    *)
(***************************************************************************)
EXTENDS ApiClient, TLAPS

-----------------------------------------------------------------------------
(* The outcome table.                                                      *)

LEMMA ClassNames ==
    Classes = {"done", "accepted_upstream", "cli_fault", "usage", "refused_fix", "refused_resimulate",
               "transient", "pending", "escalate", "upstream_failed"}
  BY DEF Classes, Properties

LEMMA MoneyNoNames ==
    MoneyNo = {"done", "cli_fault", "usage", "refused_fix", "refused_resimulate", "transient"}
  <1>1. /\ Properties["done"].money = "no" /\ Properties["cli_fault"].money = "no"
        /\ Properties["usage"].money = "no" /\ Properties["refused_fix"].money = "no"
        /\ Properties["refused_resimulate"].money = "no" /\ Properties["transient"].money = "no"
        /\ Properties["accepted_upstream"].money = "accepted_upstream"
        /\ Properties["pending"].money = "unknown" /\ Properties["escalate"].money = "unknown"
        /\ Properties["upstream_failed"].money = "see_upstream"
    BY DEF Properties, Property
  <1> HIDE DEF Properties
  <1> QED BY <1>1, ClassNames DEF MoneyNo

LEMMA OperationNames ==
    /\ Operations = {"get_me", "list_api_keys", "create_api_key", "get_api_key", "revoke_api_key",
                     "list_corridors", "get_corridor", "transfers_simulate", "transfers_execute", "get_command"}
    /\ OpClassOf["transfers_simulate"] = "money_simulate"
    /\ OpClassOf["transfers_execute"] = "money_execute"
    /\ OpClassOf["create_api_key"] = "control_create"
    /\ OpClassOf["get_command"] = "read"
    /\ \A op0 \in Operations : OpClassOf[op0] \in OpClasses
  BY DEF Operations, OpClassOf, OpClasses, MoneyClasses

RowClasses == {"refused_fix", "refused_resimulate", "transient", "pending", "escalate"}

\* The rows of the table do not overlap.
LEMMA RowTable ==
    ASSUME NEW code
    PROVE  /\ code \in FixCodes => RowOf(code) = Row("refused_fix", "refused_fix", "refused_fix")
           /\ code \in SpentOnExecuteCodes => RowOf(code) = Row("refused_fix", "refused_resimulate", "refused_fix")
           /\ code \in PlanUnusableCodes =>
                 RowOf(code) = Row("refused_resimulate", "refused_resimulate", "refused_fix")
           /\ code \in TransientCodes => RowOf(code) = Row("transient", "transient", "transient")
           /\ code \in OffSurfaceCodes => RowOf(code) = Row("pending", "pending", "refused_fix")
           /\ code \in UnsureCodes => RowOf(code) = Row("pending", "pending", "transient")
           /\ code \in HeldKeyCodes => RowOf(code) = Row("escalate", "escalate", "refused_fix")
           /\ code = "COMMAND_UNRESOLVED" => RowOf(code) = Row("escalate", "escalate", "escalate")
  BY DEF RowOf, FixCodes, SpentOnExecuteCodes, PlanUnusableCodes, TransientCodes, OffSurfaceCodes,
         UnsureCodes, HeldKeyCodes

LEMMA RowFits ==
    ASSUME NEW code \in Codes, NEW class \in OpClasses
    PROVE  RowOf(code)[class] \in RowClasses
  <1>1. \A a, b, c \in RowClasses : Row(a, b, c)[class] \in RowClasses
    BY DEF Row, OpClasses, MoneyClasses
  <1>2. \E a, b, c \in RowClasses : RowOf(code) = Row(a, b, c)
    BY RowTable DEF Codes, RowClasses
  <1> QED BY <1>1, <1>2

LEMMA VerdictFits ==
    ASSUME NEW in, in.code \in Codes, NEW class \in OpClasses
    PROVE  Verdict(in, class) \in RowClasses
  BY RowFits DEF Verdict, RowClasses

\* What one answer is classified as.
LEMMA ClassifyFits ==
    ASSUME NEW op0, NEW in
    PROVE  /\ Classify(op0, in) \in Classes \ {"cli_fault", "usage"}
           /\ Classify(op0, in) = "accepted_upstream" =>
                 /\ op0 = "transfers_execute" /\ in.transport = "none"
                 /\ in.status \in 200 .. 299 /\ in.status # 202 /\ in.parsed
           /\ in.transport = "after_write" /\ op0 \in {"transfers_simulate", "transfers_execute"} =>
                 Classify(op0, in) = "pending"
  <1>1. CASE op0 \notin Operations
    BY <1>1, ClassNames, OperationNames DEF Classify
  <1>2. CASE op0 \in Operations
    <2> DEFINE class == OpClassOf[op0]
    <2>1. /\ class \in OpClasses /\ (class = "money_execute" <=> op0 = "transfers_execute")
          /\ op0 \in {"transfers_simulate", "transfers_execute"} => class # "read"
      BY <1>2, OperationNames DEF OpClassOf, Operations
    <2> DEFINE c == Classify(op0, in)
    <2>2. c = IF in.transport # "none" THEN ClassifyTransport(in, class)
              ELSE IF in.status \in 200 .. 299 THEN ClassifySuccess(in, class)
              ELSE IF in.code = NoEnvelope THEN IF class \in MoneyClasses THEN "pending" ELSE "transient"
              ELSE IF in.code \notin Codes THEN ClassifyUnknownCode(in, class)
              ELSE Verdict(in, class)
      BY <1>2 DEF Classify
    <2> HIDE DEF class, c
    <2>3. CASE in.transport # "none"
      BY <2>1, <2>2, <2>3, ClassNames DEF ClassifyTransport, c
    <2>4. CASE in.transport = "none" /\ in.status \in 200 .. 299
      <3>1. /\ ClassifySuccess(in, class) \in {"pending", "transient", "upstream_failed", "accepted_upstream", "done"}
            /\ ClassifySuccess(in, class) = "accepted_upstream" =>
                  class = "money_execute" /\ in.parsed /\ in.status # 202
        BY DEF ClassifySuccess
      <3> QED BY <2>1, <2>2, <2>4, <3>1, ClassNames DEF c
    <2>5. CASE in.transport = "none" /\ in.status \notin 200 .. 299
      <3>1. ClassifyUnknownCode(in, class) \in {"pending", "transient", "refused_fix"}
        BY DEF ClassifyUnknownCode
      <3>2. in.code \in Codes => Verdict(in, class) \in RowClasses
        BY <2>1, VerdictFits
      <3>3. c \in RowClasses
        BY <2>2, <2>5, <3>1, <3>2 DEF RowClasses
      <3> QED BY <2>5, <3>3, ClassNames DEF c, RowClasses
    <2> QED BY <2>3, <2>4, <2>5
  <1> QED BY <1>1, <1>2

\* What a command that was read is classified as.
LEMMA CommandFits ==
    ASSUME NEW c
    PROVE  /\ ClassifyCommand(c) \in Classes \ {"cli_fault", "usage", "transient"}
           /\ ClassifyCommand(c) = "pending" => c.state \in MovingStates /\ ~c.contradiction
           /\ ClassifyCommand(c) = "accepted_upstream" => c.state = "completed" /\ ~c.contradiction
           /\ c.operation = "transfers_execute" /\ ClassifyCommand(c) \in MoneyNo =>
                 c.state = "failed_terminal" /\ ~c.contradiction
  <1>1. /\ ClassifyCompleted(c) \in {"upstream_failed", "accepted_upstream", "refused_resimulate", "escalate"}
        /\ c.operation = "transfers_execute" => ClassifyCompleted(c) \in {"upstream_failed", "accepted_upstream"}
    BY DEF ClassifyCompleted
  <1>2. ClassifyFailedTerminal(c) \in {"refused_fix", "refused_resimulate", "escalate"}
    <2>1. CASE c.operation \notin Operations \/ c.error \notin Codes
      BY <2>1 DEF ClassifyFailedTerminal
    <2>2. CASE c.operation \in Operations /\ c.error \in Codes
      <3>1. RowOf(c.error)[OpClassOf[c.operation]] \in RowClasses
        BY <2>2, OperationNames, RowFits
      <3> QED BY <2>2, <3>1 DEF ClassifyFailedTerminal, RowClasses
    <2> QED BY <2>1, <2>2
  <1>3. CASE c.contradiction \/ c.state \notin CommandStates \/ c.state = "needs_operator"
    <2>1. ClassifyCommand(c) = "escalate"
      BY <1>3 DEF ClassifyCommand, CommandStates, MovingStates
    <2> QED BY <2>1, ClassNames, MoneyNoNames
  <1>4. CASE ~c.contradiction /\ c.state = "completed"
    <2>1. ClassifyCommand(c) = ClassifyCompleted(c)
      BY <1>4 DEF ClassifyCommand, CommandStates, MovingStates
    <2> QED BY <1>1, <1>4, <2>1, ClassNames, MoneyNoNames
  <1>5. CASE ~c.contradiction /\ c.state = "failed_terminal"
    <2>1. ClassifyCommand(c) = ClassifyFailedTerminal(c)
      BY <1>5 DEF ClassifyCommand, CommandStates, MovingStates
    <2> QED BY <1>2, <1>5, <2>1, ClassNames, MoneyNoNames
  <1>6. CASE ~c.contradiction /\ c.state \in MovingStates
    <2>1. ClassifyCommand(c) = "pending"
      BY <1>6 DEF ClassifyCommand, CommandStates, MovingStates
    <2> QED BY <1>6, <2>1, ClassNames, MoneyNoNames
  <1> QED BY <1>3, <1>4, <1>5, <1>6 DEF CommandStates

-----------------------------------------------------------------------------
(* Waits.                                                                  *)

After == Afters \cup {Unsaid}

LEMMA DelayFits ==
    ASSUME NEW after \in After
    PROVE  RetryDelay(after) \in Nat \ {0} /\ CommandDelay(after) \in Nat \ {0}
  BY ApiAssumption DEF After, RetryDelay, CommandDelay

-----------------------------------------------------------------------------
(* Answers and replies.                                                    *)

IsBody(body) ==
    /\ body.state \in CommandStates \cup {"none", "novel"}
    /\ body.contradiction \in BOOLEAN
    /\ body.after \in After

IsAnswer(ans) ==
    /\ ans.transport \in {"none", "dial", "after_write"} /\ ans.status \in Nat
    /\ ans.cmd \in BOOLEAN /\ ans.parsed \in BOOLEAN
    /\ ans.after \in After
    /\ IsBody(ans.body)

Servers == [command : ServerStates, contradiction : BOOLEAN, effects : Nat]

Commanded == {"moving", "completed", "failed", "operator"}

LEMMA FirstDelayFits ==
    ASSUME NEW ans, IsAnswer(ans)
    PROVE  FirstDelay(ans) \in Nat \ {0}
  BY DelayFits DEF IsAnswer, IsBody, FirstDelay

LEMMA BlankFits ==
    /\ IsBody(NoBody) /\ NoBody.state = "none" /\ NoBody.contradiction = FALSE
    /\ Blank = [transport |-> "none", status |-> 0, code |-> NoEnvelope, reason |-> "none",
                cmd |-> FALSE, parsed |-> FALSE, txn |-> "none", after |-> Unsaid, body |-> NoBody]
    /\ IsAnswer(Blank)
  <1>1. IsBody(NoBody) /\ NoBody.state = "none" /\ NoBody.contradiction = FALSE
    BY DEF NoBody, IsBody, After
  <1>2. IsAnswer(Blank)
    BY <1>1 DEF Blank, IsAnswer, After
  <1> QED BY <1>1, <1>2 DEF Blank

\* The fields of the answers the server and the network give.
LEMMA FaultFields ==
    ASSUME NEW phase \in {"dial", "after_write"}
    PROVE  /\ IsAnswer(Fault(phase)) /\ Fault(phase).transport = phase
           /\ ~Fault(phase).cmd /\ ~Fault(phase).parsed /\ Fault(phase).code = NoEnvelope
  <1> HIDE DEF NoBody
  <1> QED BY BlankFits DEF Fault, IsAnswer

LEMMA RefusalFields ==
    ASSUME NEW status \in Nat, NEW code, NEW after \in After, NEW ans,
           \/ ans = Refusal(status, code)
           \/ ans = [Refusal(status, code) EXCEPT !.after = after]
    PROVE  /\ IsAnswer(ans) /\ ans.transport = "none" /\ ans.status = status /\ ans.code = code
           /\ ~ans.cmd /\ ~ans.parsed
  BY BlankFits DEF Refusal, IsAnswer

LEMMA NamedFields ==
    ASSUME NEW status \in Nat, NEW code, NEW ans, ans = Named(Refusal(status, code))
    PROVE  /\ IsAnswer(ans) /\ ans.transport = "none" /\ ans.status = status /\ ans.code = code
           /\ ans.cmd /\ ~ans.parsed
  BY BlankFits DEF Refusal, Named, IsAnswer

LEMMA CreatedFields ==
    ASSUME NEW parsed \in BOOLEAN, NEW txn
    PROVE  /\ IsAnswer(Created(parsed, txn)) /\ Created(parsed, txn).transport = "none"
           /\ Created(parsed, txn).status = 201 /\ Created(parsed, txn).parsed = parsed
           /\ Created(parsed, txn).txn = txn /\ ~Created(parsed, txn).cmd
           /\ Created(parsed, txn).code = NoEnvelope
  BY BlankFits DEF Created, IsAnswer

LEMMA AcceptedFields ==
    ASSUME NEW parsed \in BOOLEAN, NEW after \in After
    PROVE  /\ IsAnswer(Accepted(parsed, after)) /\ Accepted(parsed, after).transport = "none"
           /\ Accepted(parsed, after).status = 202 /\ Accepted(parsed, after).parsed = parsed
           /\ Accepted(parsed, after).code = NoEnvelope
  <1>1. IsBody(MovingBody(after))
    BY DEF MovingBody, NoBody, IsBody, CommandStates, MovingStates
  <1> HIDE DEF MovingBody
  <1> QED BY <1>1, BlankFits DEF Accepted, Named, IsAnswer

LEMMA ReusedFields ==
    ASSUME NEW reason
    PROVE  /\ IsAnswer(Reused(reason)) /\ Reused(reason).transport = "none" /\ Reused(reason).status = 409
           /\ Reused(reason).code = "IDEMPOTENCY_KEY_REUSED" /\ Reused(reason).reason = reason
           /\ ~Reused(reason).cmd /\ ~Reused(reason).parsed
  BY BlankFits DEF Reused, Refusal, IsAnswer

\* Do sends a money request again after these and cannot have moved money
\* with them.
Harmless(ans) == Retryable("money_execute", ans) /\ ans.code # "INTERNAL_ERROR"

ExecuteClass(ans) == Classify("transfers_execute", ans)

\* What a money reply says of the server it comes from.
Sound(reply) ==
    /\ IsAnswer(reply.ans) /\ reply.ans.transport = "none"
    /\ \/ reply.srv = srv
       \/ srv.command = "none" /\ \E c \in {"moving", "completed", "failed"} : reply.srv = Becomes(c)
    /\ reply.ans.cmd => reply.srv.command \in Commanded
    /\ ExecuteClass(reply.ans) = "accepted_upstream" => reply.srv.command = "completed"
    /\ ExecuteClass(reply.ans) \in MoneyNo =>
          /\ reply.srv = srv \/ reply.srv.command = "failed"
          /\ reply.ans.code = "IDEMPOTENCY_KEY_REUSED" => reply.srv.command # "other_credential"
    /\ Harmless(reply.ans) => reply.srv = srv

\* An answer of a server that does nothing, and one of a server that performs.
Idle(ans) ==
    /\ IsAnswer(ans) /\ ans.transport = "none"
    /\ ans.cmd => srv.command \in Commanded
    /\ ExecuteClass(ans) = "accepted_upstream" => srv.command = "completed"
    /\ ExecuteClass(ans) \in MoneyNo /\ ans.code = "IDEMPOTENCY_KEY_REUSED" => srv.command # "other_credential"

Acts(ans, commands) ==
    /\ IsAnswer(ans) /\ ans.transport = "none" /\ ans.code # "IDEMPOTENCY_KEY_REUSED"
    /\ ExecuteClass(ans) = "accepted_upstream" => commands = {"completed"}
    /\ ExecuteClass(ans) \in MoneyNo => commands = {"failed"}
    /\ ~Harmless(ans)

LEMMA WithSound ==
    ASSUME NEW answers, \A ans \in answers : Idle(ans), NEW reply \in With(answers)
    PROVE  Sound(reply)
  <1>1. PICK ans \in answers : reply = Reply(ans, srv)
    BY DEF With
  <1>2. reply.ans = ans /\ reply.srv = srv /\ Idle(ans)
    BY <1>1 DEF Reply
  <1> QED BY <1>2 DEF Idle, Sound

LEMMA BecomesFits ==
    ASSUME srv \in Servers, srv.command = "none", srv.effects = 0, NEW c \in {"moving", "completed", "failed"}
    PROVE  /\ Becomes(c) \in Servers /\ Becomes(c).command = c /\ Becomes(c).effects <= 1
           /\ Becomes(c).contradiction = srv.contradiction
  <1> DEFINE effects == IF c = "failed" THEN srv.effects ELSE srv.effects + 1
  <1>1. Becomes(c) = [srv EXCEPT !.command = c, !.effects = effects]
    BY DEF Becomes
  <1>2. c \in ServerStates /\ effects \in Nat /\ effects <= 1
    BY DEF ServerStates
  <1> HIDE DEF effects
  <1> QED BY <1>1, <1>2 DEF Servers

LEMMA PerformedBy ==
    ASSUME NEW answers, NEW commands, NEW reply \in Performed(answers, commands)
    PROVE  \E ans \in answers, c \in commands : reply = Reply(ans, Becomes(c))
  BY DEF Performed

LEMMA PerformedSound ==
    ASSUME srv \in Servers, srv.command = "none", srv.effects = 0,
           NEW commands \in SUBSET {"moving", "completed", "failed"},
           NEW answers, \A ans \in answers : Acts(ans, commands), NEW reply \in Performed(answers, commands)
    PROVE  Sound(reply)
  <1>1. PICK ans \in answers, c \in commands : reply = Reply(ans, Becomes(c))
    BY DEF Performed
  <1>2. reply.ans = ans /\ reply.srv = Becomes(c) /\ Acts(ans, commands)
    BY <1>1 DEF Reply
  <1>3. reply.srv.command = c
    BY <1>2, BecomesFits
  <1> QED BY <1>2, <1>3 DEF Acts, Sound, Commanded

\* An answer that is no success has the class of its code.
LEMMA RefusalClass ==
    ASSUME NEW ans, ans.transport = "none", ans.status \notin 200 .. 299
    PROVE  /\ ExecuteClass(ans) # "accepted_upstream"
           /\ ans.code = NoEnvelope => ExecuteClass(ans) = "pending"
           /\ ans.code \notin Codes => ExecuteClass(ans) = "pending"
           /\ ans.code \in Codes => ExecuteClass(ans) = Verdict(ans, "money_execute")
  <1>1. "transfers_execute" \in Operations /\ OpClassOf["transfers_execute"] = "money_execute"
        /\ "money_execute" \in MoneyClasses
    BY OperationNames DEF MoneyClasses
  <1>2. NoEnvelope \notin Codes
    BY DEF NoEnvelope, Codes, FixCodes, SpentOnExecuteCodes, PlanUnusableCodes, TransientCodes,
           OffSurfaceCodes, UnsureCodes, HeldKeyCodes
  <1>3. ans.code \notin Codes /\ ans.code # NoEnvelope => ExecuteClass(ans) = "pending"
    BY <1>1 DEF ExecuteClass, Classify, ClassifyUnknownCode
  <1>4. ans.code = NoEnvelope => ExecuteClass(ans) = "pending"
    BY <1>1 DEF ExecuteClass, Classify
  <1>5. ans.code \in Codes => ExecuteClass(ans) = Verdict(ans, "money_execute")
    BY <1>1, <1>2 DEF ExecuteClass, Classify
  <1> QED BY <1>3, <1>4, <1>5, ClassifyFits DEF ExecuteClass

LEMMA EarlyAnswers ==
    ASSUME NEW ans \in Early
    PROVE  /\ IsAnswer(ans) /\ ans.transport = "none" /\ ~ans.cmd /\ ~ans.parsed
           /\ ans.status \notin 200 .. 299 /\ ans.code # "IDEMPOTENCY_KEY_REUSED"
  <1>1. PICK status \in {401, 503, 429}, code \in {"TOKEN_REVOKED", "UPSTREAM_NOT_CONFIGURED", "RATE_LIMITED",
                                                 "SERVICE_UNAVAILABLE"}, after \in After :
            ans = Refusal(status, code) \/ ans = [Refusal(status, code) EXCEPT !.after = after]
    BY DEF Early, After
  <1>2. status \in Nat /\ status \notin 200 .. 299
    OBVIOUS
  <1>3. IsAnswer(ans) /\ ans.transport = "none" /\ ans.status = status /\ ans.code = code /\ ~ans.cmd /\ ~ans.parsed
    BY <1>1, <1>2, RefusalFields
  <1> QED BY <1>2, <1>3

LEMMA ObscureAnswers ==
    ASSUME NEW ans \in Obscure
    PROVE  /\ IsAnswer(ans) /\ ans.transport = "none" /\ ~ans.cmd /\ ~ans.parsed
           /\ ans.status \notin 200 .. 299 /\ ans.code # "IDEMPOTENCY_KEY_REUSED"
           /\ ExecuteClass(ans) = "pending" /\ ~Harmless(ans)
  <1>1. PICK status \in {500, 502, 409, 404, FixtureUnmatched},
             code \in {"INTERNAL_ERROR", NoEnvelope, "NOVEL_CODE", "WEBHOOK_ENDPOINT_UNKNOWN"} :
           /\ ans = Refusal(status, code)
           /\ \/ status \in {409, 404, FixtureUnmatched}
              \/ status = 500 /\ code = "INTERNAL_ERROR"
              \/ status = 502 /\ code = NoEnvelope
    BY DEF Obscure
  <1>2. status \in Nat /\ status \notin 200 .. 299 /\ Unsaid \in After
    BY DEF FixtureUnmatched, After
  <1>3. /\ IsAnswer(ans) /\ ans.transport = "none" /\ ans.status = status /\ ans.code = code
        /\ ~ans.cmd /\ ~ans.parsed
    BY <1>1, <1>2, RefusalFields
  <1>4. ExecuteClass(ans) = "pending"
    <2>1. CASE code \in {NoEnvelope, "NOVEL_CODE"}
      <3>1. code = "NOVEL_CODE" => code \notin Codes
        BY DEF Codes, FixCodes, SpentOnExecuteCodes, PlanUnusableCodes, TransientCodes,
               OffSurfaceCodes, UnsureCodes, HeldKeyCodes
      <3> QED BY <1>2, <1>3, <2>1, <3>1, RefusalClass
    <2>2. CASE code \in {"INTERNAL_ERROR", "WEBHOOK_ENDPOINT_UNKNOWN"}
      <3>1. code \in UnsureCodes \cup OffSurfaceCodes /\ code \in Codes
        BY <2>2 DEF Codes, OffSurfaceCodes, UnsureCodes
      <3>2. RowOf(code)["money_execute"] = "pending"
        BY <3>1, RowTable DEF Row
      <3>3. Verdict(ans, "money_execute") = "pending"
        BY <1>3, <2>2, <3>2 DEF Verdict
      <3> QED BY <1>2, <1>3, <3>1, <3>3, RefusalClass
    <2> QED BY <2>1, <2>2
  <1>5. ~Harmless(ans)
    <2>1. CASE status \in {409, 404, FixtureUnmatched}
      BY <1>3, <2>1 DEF Harmless, Retryable, FixtureUnmatched
    <2>2. CASE status = 500 /\ code = "INTERNAL_ERROR"
      BY <1>3, <2>2 DEF Harmless
    <2>3. CASE status = 502 /\ code = NoEnvelope
      <3>1. NoEnvelope \notin {"UPSTREAM_BUSY", "SERVICE_UNAVAILABLE", "UPSTREAM_AUTH_UNAVAILABLE", "INTERNAL_ERROR"}
        BY DEF NoEnvelope
      <3> QED BY <1>3, <2>3, <3>1 DEF Harmless, Retryable, MoneyClasses
    <2> QED BY <1>1, <2>1, <2>2, <2>3
  <1>6. ans.code # "IDEMPOTENCY_KEY_REUSED"
    BY <1>3 DEF NoEnvelope
  <1> QED BY <1>2, <1>3, <1>4, <1>5, <1>6

\* Answers that say that the command is still on its way.
LEMMA MovingAnswers ==
    ASSUME NEW ans,
           \/ \E parsed \in BOOLEAN, after \in After : ans = Accepted(parsed, after)
           \/ ans = Named(Refusal(503, "UPSTREAM_BUSY"))
           \/ ans = Named(Refusal(409, "IDEMPOTENCY_KEY_IN_PROGRESS"))
    PROVE  /\ IsAnswer(ans) /\ ans.transport = "none" /\ ans.code # "IDEMPOTENCY_KEY_REUSED"
           /\ ExecuteClass(ans) = "pending" /\ ~Harmless(ans)
  <1>1. ASSUME NEW parsed \in BOOLEAN, NEW after \in After, ans = Accepted(parsed, after)
        PROVE  /\ IsAnswer(ans) /\ ans.transport = "none" /\ ans.code # "IDEMPOTENCY_KEY_REUSED"
               /\ ExecuteClass(ans) = "pending" /\ ~Harmless(ans)
    <2>1. /\ IsAnswer(ans) /\ ans.transport = "none" /\ ans.status = 202 /\ ans.parsed = parsed
          /\ ans.code = NoEnvelope
      BY <1>1, AcceptedFields
    <2>2. ExecuteClass(ans) = ClassifySuccess(ans, "money_execute")
      BY <2>1, OperationNames DEF ExecuteClass, Classify
    <2>3. ClassifySuccess(ans, "money_execute") = "pending"
      BY <2>1 DEF ClassifySuccess, MoneyClasses
    <2>4. ~Harmless(ans)
      BY <2>1 DEF Harmless, Retryable
    <2> QED BY <2>1, <2>2, <2>3, <2>4 DEF NoEnvelope
  <1>2. ASSUME ans = Named(Refusal(503, "UPSTREAM_BUSY"))
        PROVE  /\ IsAnswer(ans) /\ ans.transport = "none" /\ ans.code # "IDEMPOTENCY_KEY_REUSED"
               /\ ExecuteClass(ans) = "pending" /\ ~Harmless(ans)
    <2>1. /\ IsAnswer(ans) /\ ans.transport = "none" /\ ans.status = 503 /\ ans.code = "UPSTREAM_BUSY" /\ ans.cmd
      BY <1>2, NamedFields
    <2>2. ans.code \in Codes
      BY <2>1 DEF Codes, TransientCodes
    <2>3. Verdict(ans, "money_execute") = "pending"
      BY <2>1 DEF Verdict, MoneyClasses
    <2>4. ~Harmless(ans)
      BY <2>1 DEF Harmless, Retryable, MoneyClasses
    <2> QED BY <2>1, <2>2, <2>3, <2>4, RefusalClass
  <1>3. ASSUME ans = Named(Refusal(409, "IDEMPOTENCY_KEY_IN_PROGRESS"))
        PROVE  /\ IsAnswer(ans) /\ ans.transport = "none" /\ ans.code # "IDEMPOTENCY_KEY_REUSED"
               /\ ExecuteClass(ans) = "pending" /\ ~Harmless(ans)
    <2>1. /\ IsAnswer(ans) /\ ans.transport = "none" /\ ans.status = 409
          /\ ans.code = "IDEMPOTENCY_KEY_IN_PROGRESS"
      BY <1>3, NamedFields
    <2>2. ans.code \in Codes /\ ans.code \in UnsureCodes
      BY <2>1 DEF Codes, UnsureCodes
    <2>3. Verdict(ans, "money_execute") = "pending"
      BY <2>1, <2>2, RowTable DEF Verdict, Row
    <2>4. ~Harmless(ans)
      BY <2>1 DEF Harmless, Retryable
    <2> QED BY <2>1, <2>2, <2>3, <2>4, RefusalClass
  <1> QED BY <1>1, <1>2, <1>3

\* Answers that carry the transaction.
LEMMA CreatedAnswers ==
    ASSUME NEW parsed \in BOOLEAN, NEW txn, NEW ans, ans = Created(parsed, txn)
    PROVE  /\ IsAnswer(ans) /\ ans.transport = "none" /\ ans.code # "IDEMPOTENCY_KEY_REUSED" /\ ~ans.cmd
           /\ ExecuteClass(ans) \notin MoneyNo /\ ~Harmless(ans)
  <1>1. /\ IsAnswer(ans) /\ ans.transport = "none" /\ ans.status = 201 /\ ans.parsed = parsed
        /\ ans.code = NoEnvelope /\ ~ans.cmd
    BY CreatedFields
  <1>2. ExecuteClass(ans) = ClassifySuccess(ans, "money_execute")
    BY <1>1, OperationNames DEF ExecuteClass, Classify
  <1>3. ClassifySuccess(ans, "money_execute") \in {"pending", "upstream_failed", "accepted_upstream"}
    BY <1>1 DEF ClassifySuccess, MoneyClasses
  <1>4. ~Harmless(ans)
    BY <1>1 DEF Harmless, Retryable
  <1>5. ans.code # "IDEMPOTENCY_KEY_REUSED"
    BY <1>1 DEF NoEnvelope
  <1> QED BY <1>1, <1>2, <1>3, <1>4, <1>5, MoneyNoNames

\* A refusal is no success.
LEMMA RefusalAnswers ==
    ASSUME NEW status \in {401, 403, 404, 409, 410, 422, 429, 500, 502, 503}, NEW code, NEW ans,
           ans = Refusal(status, code) \/ ans = Named(Refusal(status, code))
    PROVE  /\ IsAnswer(ans) /\ ans.transport = "none" /\ ans.status = status /\ ans.code = code
           /\ ExecuteClass(ans) # "accepted_upstream"
           /\ ans.cmd => ans = Named(Refusal(status, code))
  <1>1. status \in Nat /\ status \notin 200 .. 299 /\ Unsaid \in After
    BY DEF After
  <1>2. IsAnswer(ans) /\ ans.transport = "none" /\ ans.status = status /\ ans.code = code
    BY <1>1, RefusalFields, NamedFields
  <1>3. ans = Refusal(status, code) => ~ans.cmd
    BY <1>1, RefusalFields
  <1> QED BY <1>1, <1>2, <1>3, RefusalClass

\* Every reply to the first request under a key is sound.
LEMMA FirstSound ==
    ASSUME srv \in Servers, srv.command = "none", srv.effects = 0, NEW reply \in FirstReplies
    PROVE  Sound(reply)
  <1>1. ASSUME NEW parsed \in BOOLEAN, NEW txn PROVE Acts(Created(parsed, txn), {"completed"})
    BY CreatedAnswers DEF Acts
  <1>2. ASSUME NEW ans \in {Accepted(p, a) : p \in BOOLEAN, a \in Afters} \cup {Named(Refusal(503, "UPSTREAM_BUSY"))}
        PROVE  Acts(ans, {"moving"})
    BY MovingAnswers, MoneyNoNames DEF Acts, After
  <1>3. ASSUME NEW ans \in {Named(Refusal(403, "POLICY_MAX_AMOUNT_PER_DAY"))}
        PROVE  Acts(ans, {"failed"})
    <2>1. /\ IsAnswer(ans) /\ ans.transport = "none" /\ ans.status = 403
          /\ ans.code = "POLICY_MAX_AMOUNT_PER_DAY" /\ ExecuteClass(ans) # "accepted_upstream"
      BY RefusalAnswers
    <2> QED BY <2>1 DEF Acts, Harmless, Retryable
  <1>4. ASSUME NEW ans \in Obscure PROVE Acts(ans, {"moving", "completed", "failed"})
    BY ObscureAnswers, MoneyNoNames DEF Acts
  <1>5. ASSUME NEW ans \in {Refusal(410, "PLAN_EXPIRED"), Refusal(422, "QUOTE_REJECTED"), Refusal(503, "UPSTREAM_BUSY")}
        PROVE  Idle(ans)
    <2>1. PICK status \in {410, 422, 503}, code \in {"PLAN_EXPIRED", "QUOTE_REJECTED", "UPSTREAM_BUSY"} :
            ans = Refusal(status, code)
      OBVIOUS
    <2>2. ~ans.cmd
      <3>1. Unsaid \in After /\ status \in Nat
        BY DEF After
      <3> QED BY <2>1, <3>1, RefusalFields
    <2>3. IsAnswer(ans) /\ ans.transport = "none" /\ ans.code = code /\ ExecuteClass(ans) # "accepted_upstream"
      BY <2>1, RefusalAnswers
    <2> QED BY <2>2, <2>3 DEF Idle
  <1>6. CASE reply \in Performed({Created(TRUE, "ok"), Created(TRUE, "failed"), Created(FALSE, "none")}, {"completed"})
    BY <1>1, <1>6, PerformedSound
  <1>7. CASE reply \in Performed({Accepted(p, a) : p \in BOOLEAN, a \in Afters}
                                 \cup {Named(Refusal(503, "UPSTREAM_BUSY"))}, {"moving"})
    BY <1>2, <1>7, PerformedSound
  <1>8. CASE reply \in Performed({Named(Refusal(403, "POLICY_MAX_AMOUNT_PER_DAY"))}, {"failed"})
    BY <1>3, <1>8, PerformedSound
  <1>9. CASE reply \in Performed(Obscure, {"moving", "completed", "failed"})
    BY <1>4, <1>9, PerformedSound
  <1>10. CASE reply \in With({Refusal(410, "PLAN_EXPIRED"), Refusal(422, "QUOTE_REJECTED"), Refusal(503, "UPSTREAM_BUSY")})
    BY <1>5, <1>10, WithSound
  <1> QED BY <1>6, <1>7, <1>8, <1>9, <1>10 DEF FirstReplies

LEMMA EarlySound ==
    ASSUME NEW reply \in With(Early \cup Obscure)
    PROVE  Sound(reply)
  <1>1. ASSUME NEW ans \in Early \cup Obscure PROVE Idle(ans)
    <2>1. CASE ans \in Early
      BY <2>1, EarlyAnswers, RefusalClass DEF Idle
    <2>2. CASE ans \in Obscure
      BY <2>2, ObscureAnswers DEF Idle
    <2> QED BY <2>1, <2>2
  <1> QED BY <1>1, WithSound

\* What a server that holds the key answers is what it holds.
LEMMA HeldSound ==
    ASSUME srv \in Servers, srv.command # "none", NEW reply \in MoneyReplies
    PROVE  Sound(reply)
  <1>1. CASE reply \in With(Early \cup Obscure)
    BY <1>1, EarlySound
  <1>2. CASE srv.command = "moving" /\ reply \in
               With({Named(Refusal(409, "IDEMPOTENCY_KEY_IN_PROGRESS")), Accepted(TRUE, Unsaid)})
    <2>1. ASSUME NEW ans \in {Named(Refusal(409, "IDEMPOTENCY_KEY_IN_PROGRESS")), Accepted(TRUE, Unsaid)}
          PROVE  Idle(ans)
      BY <1>2, MovingAnswers, MoneyNoNames DEF Idle, Commanded, After
    <2> QED BY <1>2, <2>1, WithSound
  <1>3. CASE srv.command = "completed" /\ reply \in
               With({Created(TRUE, "ok"), Refusal(409, "IDEMPOTENCY_KEY_REPLAY_EXPIRED")})
    <2>1. ASSUME NEW ans \in {Created(TRUE, "ok"), Refusal(409, "IDEMPOTENCY_KEY_REPLAY_EXPIRED")}
          PROVE  Idle(ans)
      <3>1. CASE ans = Created(TRUE, "ok")
        BY <1>3, <3>1, CreatedAnswers DEF Idle
      <3>2. CASE ans = Refusal(409, "IDEMPOTENCY_KEY_REPLAY_EXPIRED")
        BY <1>3, <3>2, RefusalAnswers DEF Idle, Commanded
      <3> QED BY <3>1, <3>2
    <2> QED BY <1>3, <2>1, WithSound
  <1>4. CASE srv.command = "failed" /\ reply \in
               With({Named(Refusal(403, "POLICY_MAX_AMOUNT_PER_DAY")), Named(Refusal(503, "UPSTREAM_UNAVAILABLE"))})
    <2>1. ASSUME NEW ans \in {Named(Refusal(403, "POLICY_MAX_AMOUNT_PER_DAY")), Named(Refusal(503, "UPSTREAM_UNAVAILABLE"))}
          PROVE  Idle(ans)
      BY <1>4, RefusalAnswers DEF Idle, Commanded
    <2> QED BY <1>4, <2>1, WithSound
  <1>5. CASE srv.command = "operator" /\ reply \in With({Named(Refusal(409, "COMMAND_UNRESOLVED"))})
    <2>1. ASSUME NEW ans \in {Named(Refusal(409, "COMMAND_UNRESOLVED"))}
          PROVE  Idle(ans)
      BY <1>5, RefusalAnswers DEF Idle, Commanded
    <2> QED BY <1>5, <2>1, WithSound
  <1>6. CASE srv.command = "other_request" /\ reply \in With({Reused("different_request")})
    <2>1. ASSUME NEW ans \in {Reused("different_request")} PROVE Idle(ans)
      BY <1>6, ReusedFields, RefusalClass DEF Idle
    <2> QED BY <1>6, <2>1, WithSound
  <1>7. CASE srv.command = "other_credential" /\ reply \in With({Reused("different_credential")})
    <2>1. ASSUME NEW ans \in {Reused("different_credential")} PROVE Idle(ans)
      <3>1. /\ IsAnswer(ans) /\ ans.transport = "none" /\ ans.status = 409
            /\ ans.code = "IDEMPOTENCY_KEY_REUSED" /\ ans.reason = "different_credential" /\ ~ans.cmd
        BY ReusedFields
      <3>2. ans.code \in Codes /\ ans.code \in HeldKeyCodes
        BY <3>1 DEF Codes, HeldKeyCodes
      <3>3. Verdict(ans, "money_execute") = "escalate"
        BY <3>1, <3>2, RowTable DEF Verdict, Row
      <3> QED BY <3>1, <3>2, <3>3, RefusalClass, MoneyNoNames DEF Idle
    <2> QED BY <1>7, <2>1, WithSound
  <1>8. srv.command \in {"moving", "completed", "failed", "operator", "other_request", "other_credential"}
    BY DEF Servers, ServerStates
  <1> QED BY <1>1, <1>2, <1>3, <1>4, <1>5, <1>6, <1>7, <1>8 DEF MoneyReplies

LEMMA MoneySound ==
    ASSUME srv \in Servers, srv.command = "none" => srv.effects = 0, NEW reply \in MoneyReplies
    PROVE  Sound(reply)
  <1>1. CASE srv.command = "none"
    <2>1. reply \in With(Early \cup Obscure) \/ reply \in FirstReplies
      BY <1>1 DEF MoneyReplies
    <2> QED BY <1>1, <2>1, EarlySound, FirstSound
  <1>2. CASE srv.command # "none"
    BY <1>2, HeldSound
  <1> QED BY <1>1, <1>2

LEMMA MintSound ==
    ASSUME NEW reply \in MintReplies
    PROVE  /\ IsAnswer(reply.ans) /\ reply.ans.transport = "none" /\ ~reply.ans.cmd
           /\ reply.srv = srv \/ reply.srv = Becomes("completed")
  <1>1. CASE reply \in With(Early \cup Obscure)
    <2>1. PICK ans \in Early \cup Obscure : reply = Reply(ans, srv)
      BY <1>1 DEF With
    <2> QED BY <2>1, EarlyAnswers, ObscureAnswers DEF Reply
  <1>2. CASE reply \in Performed(Obscure \cup {Created(TRUE, "none"), Created(FALSE, "none")}, {"completed"})
    <2> DEFINE answers == Obscure \cup {Created(TRUE, "none"), Created(FALSE, "none")}
    <2>0. PICK ans \in answers, c \in {"completed"} : reply = Reply(ans, Becomes(c))
      <3>1. reply \in Performed(answers, {"completed"})
        BY <1>2
      <3> HIDE DEF answers
      <3> QED BY <3>1, PerformedBy
    <2>1. reply = Reply(ans, Becomes("completed"))
      BY <2>0
    <2>2. CASE ans \in Obscure
      BY <2>1, <2>2, ObscureAnswers DEF Reply
    <2>3. CASE ans \in {Created(TRUE, "none"), Created(FALSE, "none")}
      <3>1. \E parsed \in BOOLEAN : ans = Created(parsed, "none")
        BY <2>3
      <3>2. IsAnswer(ans) /\ ans.transport = "none" /\ ~ans.cmd
        BY <3>1, CreatedFields
      <3> QED BY <2>1, <3>2 DEF Reply
    <2> QED BY <2>1, <2>2, <2>3
  <1> QED BY <1>1, <1>2 DEF MintReplies

\* What a body that was read says of the command, when it is read.
Told(body) ==
    /\ op = "transfers_execute" => body.operation = "transfers_execute"
    /\ body.state = "completed" => srv.command = "completed"
    /\ body.state = "failed_terminal" /\ ~body.contradiction => srv.command = "failed" /\ ~srv.contradiction

LEMMA BodyFields ==
    ASSUME srv \in Servers, NEW state \in CommandStates \cup {"novel"}
    PROVE  /\ Body(state) = [operation |-> IF op = "watch" THEN "transfers_execute" ELSE op, state |-> state,
                             contradiction |-> srv.contradiction, txn |-> "none", error |-> NoEnvelope,
                             after |-> Unsaid]
           /\ IsBody(Body(state))
  <1>1. Body(state) = [operation |-> IF op = "watch" THEN "transfers_execute" ELSE op, state |-> state,
                       contradiction |-> srv.contradiction, txn |-> "none", error |-> NoEnvelope,
                       after |-> Unsaid]
    <2> DEFINE of == IF op = "watch" THEN "transfers_execute" ELSE op
    <2>1. Body(state) = [NoBody EXCEPT !.operation = of, !.state = state, !.contradiction = srv.contradiction]
      BY DEF Body
    <2> HIDE DEF of
    <2>2. Body(state) = [operation |-> of, state |-> state, contradiction |-> srv.contradiction,
                         txn |-> "none", error |-> NoEnvelope, after |-> Unsaid]
      BY <2>1 DEF NoBody
    <2> QED BY <2>2 DEF of
  <1>2. srv.contradiction \in BOOLEAN
    BY DEF Servers
  <1> QED BY <1>1, <1>2 DEF IsBody, After

LEMMA BodiesFit ==
    ASSUME srv \in Servers, srv.command \in Commanded, NEW body \in Bodies
    PROVE  IsBody(body) /\ Told(body)
  <1>1. /\ "inflight" \in CommandStates /\ "completed" \in CommandStates
        /\ "failed_terminal" \in CommandStates /\ "needs_operator" \in CommandStates
    BY DEF CommandStates, MovingStates
  <1>2. CASE srv.command = "moving"
    <2>1. PICK state \in {"inflight", "novel"}, after \in Afters : body = [Body(state) EXCEPT !.after = after]
      BY <1>2 DEF Bodies
    <2>2. /\ body.state = state /\ body.after = after /\ body.contradiction = Body(state).contradiction
          /\ body.operation = Body(state).operation
      BY <1>1, <2>1, BodyFields
    <2> QED BY <1>1, <2>2, BodyFields DEF IsBody, Told, After
  <1>3. CASE srv.command = "completed"
    <2>1. PICK txn \in {"none", "ok"} : body = [Body("completed") EXCEPT !.txn = txn]
      BY <1>3 DEF Bodies
    <2>2. /\ body.state = "completed" /\ body.after = Body("completed").after
          /\ body.contradiction = Body("completed").contradiction /\ body.operation = Body("completed").operation
      BY <1>1, <2>1, BodyFields
    <2> QED BY <1>1, <1>3, <2>2, BodyFields DEF IsBody, Told
  <1>4. CASE srv.command = "failed"
    <2>1. PICK error \in {"QUOTE_REJECTED", "SERVICE_UNAVAILABLE", "UPSTREAM_UNKNOWN"} :
             body = [Body("failed_terminal") EXCEPT !.error = error]
      BY <1>4 DEF Bodies
    <2>2. /\ body.state = "failed_terminal" /\ body.after = Body("failed_terminal").after
          /\ body.contradiction = Body("failed_terminal").contradiction
          /\ body.operation = Body("failed_terminal").operation
      BY <1>1, <2>1, BodyFields
    <2> QED BY <1>1, <1>4, <2>2, BodyFields DEF IsBody, Told
  <1>5. CASE srv.command = "operator"
    <2>1. body = Body("needs_operator")
      BY <1>5 DEF Bodies
    <2> QED BY <1>1, <2>1, BodyFields DEF Told
  <1> QED BY <1>2, <1>3, <1>4, <1>5 DEF Commanded

LEMMA CommandSound ==
    ASSUME srv \in Servers, srv.command \in Commanded, NEW reply \in CommandReplies
    PROVE  /\ IsAnswer(reply.ans) /\ reply.ans.transport = "none" /\ reply.srv = srv
           /\ reply.ans.code # "IDEMPOTENCY_KEY_REUSED"
           /\ reply.ans.parsed => Told(reply.ans.body)
  <1>1. CASE reply \in With(Early \cup Obscure)
    <2>1. PICK ans \in Early \cup Obscure : reply = Reply(ans, srv)
      BY <1>1 DEF With
    <2> QED BY <2>1, EarlyAnswers, ObscureAnswers DEF Reply
  <1>2. CASE reply \in With({[Blank EXCEPT !.status = 200, !.parsed = TRUE, !.body = b] : b \in Bodies})
    <2>1. PICK body \in Bodies : reply = Reply([Blank EXCEPT !.status = 200, !.parsed = TRUE, !.body = body], srv)
      BY <1>2 DEF With
    <2> DEFINE ans == [Blank EXCEPT !.status = 200, !.parsed = TRUE, !.body = body]
    <2>2. IsBody(body) /\ Told(body)
      BY BodiesFit
    <2>3. /\ ans.body = body /\ ans.transport = "none" /\ ans.status = 200 /\ ans.code = NoEnvelope
          /\ ans.cmd = FALSE /\ ans.after = Unsaid /\ ans.parsed = TRUE
      BY BlankFits
    <2>4. IsAnswer(ans)
      BY <2>2, BlankFits DEF IsAnswer
    <2> HIDE DEF ans
    <2>5. reply.ans = ans /\ reply.srv = srv
      BY <2>1 DEF Reply, ans
    <2> QED BY <2>2, <2>3, <2>4, <2>5 DEF NoEnvelope
  <1>3. CASE reply \in With({Named(Refusal(409, "COMMAND_UNRESOLVED"))})
    <2>1. reply = Reply(Named(Refusal(409, "COMMAND_UNRESOLVED")), srv)
      BY <1>3 DEF With
    <2> QED BY <2>1, NamedFields DEF Reply
  <1> QED BY <1>1, <1>2, <1>3 DEF CommandReplies

-----------------------------------------------------------------------------
(* The invariant.                                                          *)

Shaped ==
    /\ call = [op |-> call.op, spent |-> call.spent, answer |-> call.answer]
    /\ watch = [delay |-> watch.delay, left |-> watch.left, body |-> watch.body, polls |-> watch.polls]
    /\ IsAnswer(call.answer) /\ IsBody(watch.body) /\ watch.delay \in Nat

\* Which request is under way, and of which command Watch reads.
Requests ==
    /\ pc \in {"attempt", "sent", "answered", "returned"} =>
          IF watch.polls THEN call.op = "get_command" ELSE call.op = op /\ op # "watch"
    /\ pc \in {"watching", "reading"} => watch.polls
    /\ pc = "start" => ~watch.polls /\ call.op = op
    /\ op = "create_api_key" => ~watch.polls
    /\ watch.polls \/ op = "watch" => srv.command \in Commanded

\* A server that has performed nothing holds nothing, and a key mint is asked
\* for once.
Once ==
    /\ PerformedOnce
    /\ srv.command = "none" => srv.effects = 0
    /\ op = "create_api_key" /\ pc \in {"start", "attempt", "sent"} => srv.command = "none"

\* The server holds nothing of this execute.
Untouched == srv.command \in {"none", "other_request", "other_credential"} /\ ~srv.contradiction

\* Until a request of an execute is answered, or answered with a 500, the
\* server holds nothing of it; only a command that stopped is contradicted.
Quiet ==
    /\ srv.contradiction => srv.command \in {"failed", "operator"}
    /\ op = "transfers_execute" /\ ~watch.polls /\ ~vague /\ pc \in {"start", "attempt", "sent"} => Untouched

\* What an answer says stays true until it is reported.
Heard ==
    /\ pc \in {"answered", "returned"} /\ watch.polls =>
          (call.answer.parsed => Told(call.answer.body))
    /\ pc \in {"answered", "returned"} /\ ~watch.polls =>
          /\ call.answer.cmd => srv.command \in Commanded
          /\ op = "transfers_execute" =>
                /\ ExecuteClass(call.answer) = "accepted_upstream" => srv.command = "completed"
                /\ ~vague /\ ExecuteClass(call.answer) \in MoneyNo => ~MayHaveMoved
                /\ ~vague /\ call.answer.transport = "none" /\ Harmless(call.answer) => Untouched

\* A Do spends what Watch has left.
Timely ==
    /\ pc \in {"start", "attempt", "sent"} => call.spent <= RetryBudget
    /\ ~watch.polls => watch.left = Timeout
    /\ watch.polls /\ pc \in {"attempt", "sent", "answered", "returned"} => watch.left + call.spent >= 0
    /\ pc = "watching" /\ watch.delay = 0 => watch.left >= 0
    /\ pc = "reading" => watch.left >= 0

ApiInv ==
    /\ TypeOK
    /\ Shaped
    /\ Requests
    /\ Once
    /\ Quiet
    /\ Heard
    /\ Timely
    /\ AcceptedIsTrue
    /\ NoMoneyIsTrueWithout500
    /\ StoppedIsFinal
    /\ OverrunIsBounded

-----------------------------------------------------------------------------
(* The initial states.                                                     *)

LEMMA InitHolds ==
    ASSUME Init
    PROVE  ApiInv
  <1>1. /\ pc = "start" /\ op \in Ops /\ call = [op |-> op, spent |-> 0, answer |-> Blank]
        /\ watch = [delay |-> 0, left |-> Timeout, body |-> NoBody, polls |-> FALSE]
        /\ signal = FALSE /\ result = "none" /\ vague = FALSE
        /\ srv.contradiction = FALSE /\ srv.effects = 0
        /\ srv.command \in ServerStates
        /\ srv = [command |-> srv.command, contradiction |-> srv.contradiction, effects |-> srv.effects]
        /\ op = "watch" => srv.command \in Commanded
        /\ op = "create_api_key" => srv.command = "none"
        /\ op \notin {"watch", "create_api_key"} => srv.command \in {"none", "other_request", "other_credential"}
    BY DEF Init, ServerStates, Commanded
  <1>2. op \in Operations \cup {"watch"}
    BY <1>1, ApiAssumption, OperationNames
  <1>3. srv \in [command : ServerStates, contradiction : BOOLEAN, effects : 0 .. 2]
    <2>1. 0 \in 0 .. 2 /\ FALSE \in BOOLEAN
      OBVIOUS
    <2> QED BY <1>1, <2>1
  <1>4. RetryBudget \in Nat /\ Timeout \in Nat /\ MaxLatency \in Nat
    BY ApiAssumption
  <1>5. TypeOK
    <2>1. /\ call.op = op /\ call.spent = 0 /\ watch.left = Timeout /\ watch.body = NoBody /\ watch.polls = FALSE
      BY <1>1
    <2>2. "none" \in ServerStates /\ watch.polls \in BOOLEAN /\ signal \in BOOLEAN /\ vague \in BOOLEAN
      BY <1>1, <2>1 DEF ServerStates
    <2> QED BY <1>1, <1>2, <1>3, <1>4, <2>1, <2>2, BlankFits DEF TypeOK
  <1>6. Shaped
    BY <1>1, BlankFits DEF Shaped
  <1>7. Requests
    BY <1>1 DEF Requests
  <1>8. Once
    BY <1>1 DEF Once, PerformedOnce
  <1>9. Quiet
    BY <1>1 DEF Quiet, Untouched
  <1>10. Heard
    BY <1>1 DEF Heard
  <1>11. Timely
    BY <1>1, <1>4 DEF Timely
  <1>12. AcceptedIsTrue /\ NoMoneyIsTrueWithout500
    BY <1>1 DEF AcceptedIsTrue, NoMoneyIsTrueWithout500
  <1>13. StoppedIsFinal
    BY <1>1, BlankFits DEF StoppedIsFinal
  <1>14. OverrunIsBounded
    BY <1>1, <1>4 DEF OverrunIsBounded
  <1> QED BY <1>5, <1>6, <1>7, <1>8, <1>9, <1>10, <1>11, <1>12, <1>13, <1>14 DEF ApiInv

-----------------------------------------------------------------------------
(* The steps of the client.                                                *)

\* The first request, or the first look of `commands watch`.
LEMMA InvokeKeeps ==
    ASSUME ApiInv, Invoke
    PROVE  ApiInv'
  <1>1. TypeOK'
    BY DEF ApiInv, Invoke, TypeOK, Shaped
  <1>2. Shaped'
    BY DEF ApiInv, Invoke, Shaped, TypeOK
  <1>3. Requests'
    BY DEF ApiInv, Invoke, Requests, Shaped
  <1>4. Once'
    BY DEF ApiInv, Invoke, Once, PerformedOnce
  <1>5. Quiet'
    BY DEF ApiInv, Invoke, Quiet, Untouched
  <1>6. Heard'
    BY DEF ApiInv, Invoke, Heard
  <1>7. Timely'
    BY ApiAssumption DEF ApiInv, Invoke, Timely, Shaped, Requests, TypeOK
  <1>8. AcceptedIsTrue'
    BY DEF ApiInv, Invoke, AcceptedIsTrue
  <1>9. NoMoneyIsTrueWithout500'
    BY DEF ApiInv, Invoke, NoMoneyIsTrueWithout500
  <1>10. StoppedIsFinal'
    BY DEF ApiInv, Invoke, StoppedIsFinal, Shaped
  <1>11. OverrunIsBounded'
    BY DEF ApiInv, Invoke, OverrunIsBounded, Shaped
  <1> QED BY <1>1, <1>2, <1>3, <1>4, <1>5, <1>6, <1>7, <1>8, <1>9, <1>10, <1>11 DEF ApiInv

\* An attempt leaves, or has no connection.
LEMMA AttemptKeeps ==
    ASSUME ApiInv, Attempt
    PROVE  ApiInv'
  <1>1. TypeOK'
    BY DEF ApiInv, Attempt, TypeOK, Shaped
  <1>2. Shaped'
    BY FaultFields DEF ApiInv, Attempt, Shaped, TypeOK
  <1>3. Requests'
    BY DEF ApiInv, Attempt, Requests, Shaped
  <1>4. Once'
    BY DEF ApiInv, Attempt, Once, PerformedOnce
  <1>5. Quiet'
    BY DEF ApiInv, Attempt, Quiet, Untouched
  <1>6. Heard'
    <2>1. CASE pc' = "sent"
      BY <2>1 DEF Heard
    <2>2. CASE pc' = "answered"
      <3>1. /\ call' = [call EXCEPT !.answer = Fault("dial")] /\ pc = "attempt"
            /\ op' = op /\ watch' = watch /\ vague' = vague /\ srv' = srv
        BY <2>2 DEF Attempt
      <3>2. call.answer' = Fault("dial")
        BY <3>1 DEF ApiInv, Shaped
      <3>3. /\ Fault("dial").transport = "dial" /\ ~Fault("dial").cmd /\ ~Fault("dial").parsed
            /\ Fault("dial").code # "IDEMPOTENCY_KEY_REUSED"
        BY FaultFields DEF NoEnvelope
      <3>4. ExecuteClass(Fault("dial")) # "accepted_upstream"
        BY <3>3, ClassifyFits DEF ExecuteClass
      <3>5. op = "transfers_execute" /\ ~watch.polls /\ ~vague => Untouched
        BY <3>1 DEF ApiInv, Quiet
      <3> QED BY <3>1, <3>2, <3>3, <3>4, <3>5 DEF Heard, Untouched, MayHaveMoved
    <2> QED BY <2>1, <2>2 DEF Attempt
  <1>7. Timely'
    BY DEF ApiInv, Attempt, Timely, Shaped, Requests, TypeOK
  <1>8. AcceptedIsTrue'
    BY DEF ApiInv, Attempt, AcceptedIsTrue
  <1>9. NoMoneyIsTrueWithout500'
    BY DEF ApiInv, Attempt, NoMoneyIsTrueWithout500
  <1>10. StoppedIsFinal'
    BY DEF ApiInv, Attempt, StoppedIsFinal, Shaped
  <1>11. OverrunIsBounded'
    BY DEF ApiInv, Attempt, OverrunIsBounded, Shaped
  <1> QED BY <1>1, <1>2, <1>3, <1>4, <1>5, <1>6, <1>7, <1>8, <1>9, <1>10, <1>11 DEF ApiInv

\* A request that was written gets no answer.
LEMMA LostKeeps ==
    ASSUME ApiInv, Lost
    PROVE  ApiInv'
  <1>1. TypeOK'
    BY DEF ApiInv, Lost, TypeOK, Shaped
  <1>2. Shaped'
    BY FaultFields DEF ApiInv, Lost, Shaped, TypeOK
  <1>3. Requests'
    BY DEF ApiInv, Lost, Requests, Shaped
  <1>4. Once'
    BY DEF ApiInv, Lost, Once, PerformedOnce
  <1>5. Quiet'
    BY DEF ApiInv, Lost, Quiet, Untouched
  <1>6. Heard'
    <2>1. /\ call' = [call EXCEPT !.answer = Fault("after_write")]
          /\ op' = op /\ watch' = watch /\ vague' = vague /\ srv' = srv
      BY DEF Lost
    <2>2. call.answer' = Fault("after_write")
      BY <2>1 DEF ApiInv, Shaped
    <2>3. /\ ExecuteClass(Fault("after_write")) = "pending"
          /\ Fault("after_write").transport # "none" /\ ~Fault("after_write").cmd /\ ~Fault("after_write").parsed
      BY FaultFields, ClassifyFits DEF ExecuteClass
    <2> QED BY <2>1, <2>2, <2>3, MoneyNoNames DEF Heard
  <1>7. Timely'
    BY DEF ApiInv, Lost, Timely, Shaped, Requests, TypeOK
  <1>8. AcceptedIsTrue'
    BY DEF ApiInv, Lost, AcceptedIsTrue
  <1>9. NoMoneyIsTrueWithout500'
    BY DEF ApiInv, Lost, NoMoneyIsTrueWithout500
  <1>10. StoppedIsFinal'
    BY DEF ApiInv, Lost, StoppedIsFinal, Shaped
  <1>11. OverrunIsBounded'
    BY DEF ApiInv, Lost, OverrunIsBounded, Shaped
  <1> QED BY <1>1, <1>2, <1>3, <1>4, <1>5, <1>6, <1>7, <1>8, <1>9, <1>10, <1>11 DEF ApiInv

\* Do returns its last answer.
LEMMA ReturnKeeps ==
    ASSUME ApiInv, Return
    PROVE  ApiInv'
  <1>1. TypeOK'
    BY DEF ApiInv, Return, TypeOK, Shaped
  <1>2. Shaped'
    BY DEF ApiInv, Return, Shaped, TypeOK
  <1>3. Requests'
    BY DEF ApiInv, Return, Requests, Shaped
  <1>4. Once'
    BY DEF ApiInv, Return, Once, PerformedOnce
  <1>5. Quiet'
    BY DEF ApiInv, Return, Quiet, Untouched
  <1>6. Heard'
    BY DEF ApiInv, Return, Heard, Told, MayHaveMoved, Untouched
  <1>7. Timely'
    BY DEF ApiInv, Return, Timely, Shaped, Requests, TypeOK
  <1>8. AcceptedIsTrue'
    BY DEF ApiInv, Return, AcceptedIsTrue
  <1>9. NoMoneyIsTrueWithout500'
    BY DEF ApiInv, Return, NoMoneyIsTrueWithout500
  <1>10. StoppedIsFinal'
    BY DEF ApiInv, Return, StoppedIsFinal, Shaped
  <1>11. OverrunIsBounded'
    BY DEF ApiInv, Return, OverrunIsBounded, Shaped
  <1> QED BY <1>1, <1>2, <1>3, <1>4, <1>5, <1>6, <1>7, <1>8, <1>9, <1>10, <1>11 DEF ApiInv

\* A signal moves nothing by itself.
LEMMA InterruptKeeps ==
    ASSUME ApiInv, Interrupt
    PROVE  ApiInv'
  <1>1. TypeOK'
    BY DEF ApiInv, Interrupt, TypeOK, Shaped
  <1>2. Shaped'
    BY DEF ApiInv, Interrupt, Shaped, TypeOK
  <1>3. Requests'
    BY DEF ApiInv, Interrupt, Requests, Shaped
  <1>4. Once'
    BY DEF ApiInv, Interrupt, Once, PerformedOnce
  <1>5. Quiet'
    BY DEF ApiInv, Interrupt, Quiet, Untouched
  <1>6. Heard'
    BY DEF ApiInv, Interrupt, Heard, Told, MayHaveMoved, Untouched
  <1>7. Timely'
    BY DEF ApiInv, Interrupt, Timely, Shaped, Requests, TypeOK
  <1>8. AcceptedIsTrue'
    BY DEF ApiInv, Interrupt, AcceptedIsTrue
  <1>9. NoMoneyIsTrueWithout500'
    BY DEF ApiInv, Interrupt, NoMoneyIsTrueWithout500
  <1>10. StoppedIsFinal'
    BY DEF ApiInv, Interrupt, StoppedIsFinal, Shaped
  <1>11. OverrunIsBounded'
    BY DEF ApiInv, Interrupt, OverrunIsBounded, Shaped
  <1> QED BY <1>1, <1>2, <1>3, <1>4, <1>5, <1>6, <1>7, <1>8, <1>9, <1>10, <1>11 DEF ApiInv

\* Do sends the same bytes again, after a wait that ends in its budget.
LEMMA ResendKeeps ==
    ASSUME ApiInv, Resend
    PROVE  ApiInv'
  <1> DEFINE delay == RetryDelay(call.answer.after)
  <1>1. /\ pc = "answered" /\ pc' = "attempt" /\ op' = op /\ signal' = signal /\ result' = result /\ srv' = srv
        /\ Again
        /\ call' = [call EXCEPT !.spent = @ + delay, !.answer = Blank]
        /\ watch' = IF watch.polls THEN [watch EXCEPT !.left = @ - delay] ELSE watch
        /\ vague' = (vague \/ (call.op # "get_command" /\ call.answer.code = "INTERNAL_ERROR"))
    BY DEF Resend
  <1>2. delay \in Nat \ {0}
    BY DelayFits DEF ApiInv, Shaped, IsAnswer
  <1>3. call.spent + delay <= RetryBudget
    BY <1>1 DEF Again
  <1> HIDE DEF delay
  <1>4. /\ call'.op = call.op /\ call'.spent = call.spent + delay /\ call'.answer = Blank
        /\ call' = [op |-> call'.op, spent |-> call'.spent, answer |-> call'.answer]
    BY <1>1 DEF ApiInv, Shaped
  <1>5. /\ watch'.delay = watch.delay /\ watch'.body = watch.body /\ watch'.polls = watch.polls
        /\ watch'.left = IF watch.polls THEN watch.left - delay ELSE watch.left
        /\ watch' = [delay |-> watch'.delay, left |-> watch'.left, body |-> watch'.body, polls |-> watch'.polls]
    BY <1>1 DEF ApiInv, Shaped
  <1>6. /\ call.spent \in Nat /\ watch.left \in Int /\ RetryBudget \in Nat /\ MaxLatency \in Nat
        /\ vague' \in BOOLEAN
    BY <1>1, ApiAssumption DEF ApiInv, TypeOK
  <1>7. TypeOK'
    BY <1>1, <1>2, <1>4, <1>5, <1>6 DEF ApiInv, TypeOK
  <1>8. Shaped'
    BY <1>4, <1>5, BlankFits DEF ApiInv, Shaped
  <1>9. Requests'
    BY <1>1, <1>4, <1>5 DEF ApiInv, Requests
  <1>10. Once'
    <2>1. op # "create_api_key"
      BY <1>1, OperationNames DEF ApiInv, Requests, Again, Retryable
    <2> QED BY <1>1, <2>1 DEF ApiInv, Once, PerformedOnce
  <1>11. Quiet'
    <2>1. ASSUME op = "transfers_execute", ~watch.polls, ~vague'
          PROVE  Untouched
      <3>1. ~vague /\ call.op = op /\ call.answer.code # "INTERNAL_ERROR"
        BY <1>1, <2>1 DEF ApiInv, Requests
      <3>2. Harmless(call.answer) /\ call.answer.transport = "none"
        BY <1>1, <2>1, <3>1, OperationNames DEF Again, Harmless
      <3> QED BY <1>1, <2>1, <3>1, <3>2 DEF ApiInv, Heard
    <2> QED BY <1>1, <1>5, <2>1 DEF ApiInv, Quiet, Untouched
  <1>12. Heard'
    BY <1>1 DEF Heard
  <1>13. Timely'
    BY <1>1, <1>2, <1>3, <1>4, <1>5, <1>6 DEF ApiInv, Timely
  <1>14. AcceptedIsTrue' /\ NoMoneyIsTrueWithout500'
    BY <1>1 DEF AcceptedIsTrue, NoMoneyIsTrueWithout500
  <1>15. StoppedIsFinal'
    BY <1>1, <1>5 DEF ApiInv, StoppedIsFinal
  <1>16. OverrunIsBounded'
    BY <1>1, <1>2, <1>3, <1>4, <1>5, <1>6 DEF ApiInv, Timely, OverrunIsBounded
  <1> QED BY <1>7, <1>8, <1>9, <1>10, <1>11, <1>12, <1>13, <1>14, <1>15, <1>16 DEF ApiInv

\* The last answer of the request is reported, or the command it names is
\* watched.
LEMMA TakeKeeps ==
    ASSUME ApiInv, Take
    PROVE  ApiInv'
  <1>1. /\ pc = "returned" /\ ~watch.polls /\ op' = op /\ call' = call /\ signal' = signal
        /\ vague' = vague /\ srv' = srv
    BY DEF Take
  <1>2. /\ call.op = op /\ op # "watch" /\ watch.left = Timeout
        /\ watch.body.state \in MovingStates \cup {"none"} /\ ~watch.body.contradiction
    BY <1>1 DEF ApiInv, Requests, Timely, StoppedIsFinal
  <1>3. CASE watch' = watch /\ pc' = "done" /\ result' \in {"interrupted", Classify(op, call.answer)}
    <2>1. /\ result' \in Classes \cup {"interrupted"}
          /\ result' = "accepted_upstream" => srv.command = "completed"
          /\ op = "transfers_execute" /\ result' \in MoneyNo /\ ~vague => ~MayHaveMoved
      BY <1>1, <1>3, ClassifyFits, MoneyNoNames DEF ApiInv, Heard, ExecuteClass
    <2>2. TypeOK'
      BY <1>1, <1>3, <2>1 DEF ApiInv, TypeOK
    <2>3. Shaped' /\ Requests' /\ Once' /\ Quiet' /\ Heard'
      BY <1>1, <1>3 DEF ApiInv, Shaped, Requests, Once, PerformedOnce, Quiet, Heard
    <2>4. Timely' /\ OverrunIsBounded'
      BY <1>1, <1>3 DEF ApiInv, Timely, OverrunIsBounded
    <2>5. AcceptedIsTrue'
      BY <1>1, <1>3, <2>1 DEF ApiInv, Quiet, AcceptedIsTrue
    <2>6. NoMoneyIsTrueWithout500'
      BY <1>1, <1>3, <2>1 DEF NoMoneyIsTrueWithout500, MayHaveMoved
    <2>7. StoppedIsFinal'
      BY <1>2, <1>3 DEF StoppedIsFinal
    <2> QED BY <2>2, <2>3, <2>4, <2>5, <2>6, <2>7 DEF ApiInv
  <1>4. CASE /\ OpClassOf[op] \in MoneyClasses /\ Followed(call.answer)
             /\ pc' = "watching" /\ result' = result
             /\ watch' = [watch EXCEPT !.polls = TRUE, !.delay = FirstDelay(call.answer)]
    <2>1. /\ watch'.polls = TRUE /\ watch'.delay = FirstDelay(call.answer)
          /\ watch'.left = watch.left /\ watch'.body = watch.body
          /\ watch' = [delay |-> watch'.delay, left |-> watch'.left, body |-> watch'.body, polls |-> watch'.polls]
      BY <1>4 DEF ApiInv, Shaped
    <2>2. watch'.delay \in Nat \ {0}
      BY <2>1, FirstDelayFits DEF ApiInv, Shaped
    <2>3. srv.command \in Commanded /\ op # "create_api_key"
      BY <1>1, <1>4, OperationNames DEF ApiInv, Heard, Followed, MoneyClasses
    <2>4. TypeOK'
      BY <1>1, <1>4, <2>1 DEF ApiInv, TypeOK
    <2>5. Shaped'
      BY <1>1, <2>1, <2>2 DEF ApiInv, Shaped
    <2>6. Requests'
      BY <1>1, <1>4, <2>1, <2>3 DEF ApiInv, Requests
    <2>7. Once' /\ Quiet' /\ Heard'
      BY <1>1, <1>4 DEF ApiInv, Once, PerformedOnce, Quiet, Heard
    <2>8. Timely' /\ OverrunIsBounded'
      BY <1>1, <1>4, <2>1, <2>2 DEF ApiInv, Timely, OverrunIsBounded
    <2>9. AcceptedIsTrue' /\ NoMoneyIsTrueWithout500' /\ StoppedIsFinal'
      BY <1>2, <1>4, <2>1 DEF AcceptedIsTrue, NoMoneyIsTrueWithout500, StoppedIsFinal
    <2> QED BY <2>4, <2>5, <2>6, <2>7, <2>8, <2>9 DEF ApiInv
  <1> QED BY <1>3, <1>4 DEF Take, Finish

\* The deadline of Watch.
LEMMA TimeOutKeeps ==
    ASSUME ApiInv, TimeOut
    PROVE  ApiInv'
  <1>1. TypeOK'
    BY ClassNames DEF ApiInv, TimeOut, Finish, TypeOK, Shaped
  <1>2. Shaped'
    BY DEF ApiInv, TimeOut, Finish, Shaped, TypeOK
  <1>3. Requests'
    BY DEF ApiInv, TimeOut, Finish, Requests, Shaped
  <1>4. Once'
    BY DEF ApiInv, TimeOut, Finish, Once, PerformedOnce
  <1>5. Quiet'
    BY DEF ApiInv, TimeOut, Finish, Quiet, Untouched
  <1>6. Heard'
    BY DEF ApiInv, TimeOut, Finish, Heard
  <1>7. Timely'
    BY DEF ApiInv, TimeOut, Finish, Timely, Shaped, Requests, TypeOK
  <1>8. AcceptedIsTrue'
    BY DEF ApiInv, TimeOut, Finish, AcceptedIsTrue
  <1>9. NoMoneyIsTrueWithout500'
    BY MoneyNoNames DEF ApiInv, TimeOut, Finish, NoMoneyIsTrueWithout500
  <1>10. StoppedIsFinal'
    BY DEF ApiInv, TimeOut, Finish, StoppedIsFinal, Shaped
  <1>11. OverrunIsBounded'
    BY DEF ApiInv, TimeOut, Finish, OverrunIsBounded, Shaped
  <1> QED BY <1>1, <1>2, <1>3, <1>4, <1>5, <1>6, <1>7, <1>8, <1>9, <1>10, <1>11 DEF ApiInv

\* Watch waits for its next read.
LEMMA WaitKeeps ==
    ASSUME ApiInv, Wait
    PROVE  ApiInv'
  <1>1. TypeOK'
    BY DEF ApiInv, Wait, Finish, TypeOK, Shaped
  <1>2. Shaped'
    BY DEF ApiInv, Wait, Finish, Shaped, TypeOK
  <1>3. Requests'
    BY DEF ApiInv, Wait, Finish, Requests, Shaped
  <1>4. Once'
    BY DEF ApiInv, Wait, Finish, Once, PerformedOnce
  <1>5. Quiet'
    BY DEF ApiInv, Wait, Finish, Quiet, Untouched
  <1>6. Heard'
    BY DEF ApiInv, Wait, Finish, Heard
  <1>7. Timely'
    BY DEF ApiInv, Wait, Finish, Timely, Shaped, Requests, TypeOK
  <1>8. AcceptedIsTrue'
    BY DEF ApiInv, Wait, Finish, AcceptedIsTrue
  <1>9. NoMoneyIsTrueWithout500'
    BY MoneyNoNames DEF ApiInv, Wait, Finish, NoMoneyIsTrueWithout500
  <1>10. StoppedIsFinal'
    BY DEF ApiInv, Wait, Finish, StoppedIsFinal, Shaped
  <1>11. OverrunIsBounded'
    BY ApiAssumption DEF ApiInv, Wait, Finish, OverrunIsBounded, Shaped, Timely, TypeOK
  <1> QED BY <1>1, <1>2, <1>3, <1>4, <1>5, <1>6, <1>7, <1>8, <1>9, <1>10, <1>11 DEF ApiInv

\* A read of Watch starts a Do of its own.
LEMMA ReadKeeps ==
    ASSUME ApiInv, Read
    PROVE  ApiInv'
  <1>1. TypeOK'
    BY OperationNames DEF ApiInv, Read, Finish, TypeOK, Shaped
  <1>2. Shaped'
    <2>1. watch' = watch /\ (call' = call \/ call' = [op |-> "get_command", spent |-> 0, answer |-> Blank])
      BY DEF Read
    <2>2. CASE call' = call
      BY <2>1, <2>2 DEF ApiInv, Shaped
    <2>3. CASE call' = [op |-> "get_command", spent |-> 0, answer |-> Blank]
      <3>1. call'.op = "get_command" /\ call'.spent = 0 /\ call'.answer = Blank
        BY <2>3
      <3> QED BY <2>1, <2>3, <3>1, BlankFits DEF ApiInv, Shaped
    <2> QED BY <2>1, <2>2, <2>3
  <1>3. Requests'
    BY DEF ApiInv, Read, Finish, Requests, Shaped
  <1>4. Once'
    BY DEF ApiInv, Read, Finish, Requests, Once, PerformedOnce
  <1>5. Quiet'
    BY DEF ApiInv, Read, Finish, Requests, Quiet, Untouched
  <1>6. Heard'
    BY DEF ApiInv, Read, Finish, Heard
  <1>7. Timely'
    BY ApiAssumption DEF ApiInv, Read, Finish, Timely, Shaped, Requests, TypeOK
  <1>8. AcceptedIsTrue'
    BY DEF ApiInv, Read, Finish, AcceptedIsTrue
  <1>9. NoMoneyIsTrueWithout500'
    BY MoneyNoNames DEF ApiInv, Read, Finish, NoMoneyIsTrueWithout500
  <1>10. StoppedIsFinal'
    BY DEF ApiInv, Read, Finish, StoppedIsFinal, Shaped
  <1>11. OverrunIsBounded'
    BY ApiAssumption DEF ApiInv, Read, Finish, OverrunIsBounded, Shaped, Timely, TypeOK
  <1> QED BY <1>1, <1>2, <1>3, <1>4, <1>5, <1>6, <1>7, <1>8, <1>9, <1>10, <1>11 DEF ApiInv

\* What was read is reported, or is watched on.
LEMMA TakeReadKeeps ==
    ASSUME ApiInv, TakeRead
    PROVE  ApiInv'
  <1> DEFINE body == call.answer.body
  <1>1. /\ pc = "returned" /\ watch.polls /\ op' = op /\ call' = call /\ signal' = signal
        /\ vague' = vague /\ srv' = srv
    BY DEF TakeRead
  <1>2. /\ watch.body.state \in MovingStates \cup {"none"} /\ ~watch.body.contradiction
        /\ IsBody(body) /\ (call.answer.parsed => Told(body))
        /\ srv.contradiction => srv.command \in {"failed", "operator"}
    BY <1>1 DEF ApiInv, Shaped, IsAnswer, StoppedIsFinal, Heard, Quiet
  <1>3. ASSUME pc' = "done"
        PROVE  Requests' /\ Once' /\ Quiet' /\ Heard'
    BY <1>1, <1>3 DEF ApiInv, Requests, Once, PerformedOnce, Quiet, Heard
  <1>4. CASE /\ watch' = watch /\ pc' = "done"
             /\ result' = "interrupted" \/ (~call.answer.parsed /\ result' = Unreadable(call.answer))
    <2>1. /\ result' \in Classes \cup {"interrupted"}
          /\ result' # "accepted_upstream" /\ (op # "watch" => result' \notin MoneyNo)
      BY <1>4, ClassNames, MoneyNoNames, ClassifyFits DEF Unreadable
    <2>2. TypeOK' /\ Shaped'
      BY <1>1, <1>4, <2>1 DEF ApiInv, TypeOK, Shaped
    <2>3. Timely' /\ OverrunIsBounded'
      BY <1>1, <1>4 DEF ApiInv, Timely, OverrunIsBounded
    <2>4. AcceptedIsTrue' /\ NoMoneyIsTrueWithout500' /\ StoppedIsFinal'
      BY <1>1, <1>2, <1>4, <2>1 DEF AcceptedIsTrue, NoMoneyIsTrueWithout500, StoppedIsFinal
    <2> QED BY <1>3, <1>4, <2>2, <2>3, <2>4 DEF ApiInv
  <1>5. CASE /\ call.answer.parsed
             /\ watch' = [watch EXCEPT !.body = body, !.delay = CommandDelay(body.after)]
             /\ IF ClassifyCommand(body) = "pending" THEN pc' = "watching" /\ result' = result
                ELSE pc' = "done" /\ result' = ClassifyCommand(body)
    <2>1. /\ watch'.polls = watch.polls /\ watch'.delay = CommandDelay(body.after)
          /\ watch'.left = watch.left /\ watch'.body = body
          /\ watch' = [delay |-> watch'.delay, left |-> watch'.left, body |-> watch'.body, polls |-> watch'.polls]
      BY <1>5 DEF ApiInv, Shaped
    <2>2. watch'.delay \in Nat \ {0}
      BY <1>2, <2>1, DelayFits DEF IsBody
    <2>3. Told(body)
      BY <1>2, <1>5
    <2>4. ClassifyCommand(body) \in Classes \ {"transient"}
      BY CommandFits
    <2>5. TypeOK'
      BY <1>1, <1>2, <1>5, <2>1, <2>4 DEF ApiInv, TypeOK, IsBody
    <2>6. Shaped'
      BY <1>1, <1>2, <2>1, <2>2 DEF ApiInv, Shaped
    <2>7. Requests' /\ Once' /\ Quiet' /\ Heard'
      <3>1. CASE pc' = "watching"
        BY <1>1, <2>1, <3>1 DEF ApiInv, Requests, Once, PerformedOnce, Quiet, Heard
      <3>2. CASE pc' = "done"
        BY <1>1, <2>1, <3>2 DEF ApiInv, Requests, Once, PerformedOnce, Quiet, Heard
      <3> QED BY <1>5, <3>1, <3>2
    <2>8. Timely' /\ OverrunIsBounded'
      BY <1>1, <1>5, <2>1, <2>2 DEF ApiInv, Timely, OverrunIsBounded
    <2>9. AcceptedIsTrue'
      BY <1>1, <1>2, <1>5, <2>3, CommandFits DEF AcceptedIsTrue, Told
    <2>10. NoMoneyIsTrueWithout500'
      <3>1. ASSUME op = "transfers_execute", ClassifyCommand(body) \in MoneyNo
            PROVE  srv.command = "failed" /\ ~srv.contradiction
        BY <2>3, <3>1, CommandFits DEF Told
      <3> QED BY <1>1, <1>5, <3>1 DEF NoMoneyIsTrueWithout500, MayHaveMoved
    <2>11. StoppedIsFinal'
      BY <1>5, <2>1, <2>4, CommandFits DEF StoppedIsFinal
    <2> QED BY <2>5, <2>6, <2>7, <2>8, <2>9, <2>10, <2>11 DEF ApiInv
  <1> QED BY <1>4, <1>5 DEF TakeRead, Finish

-----------------------------------------------------------------------------
(* The steps of the server.                                                *)

\* A server that held nothing has performed the operation.
LEMMA BecomesKeeps ==
    ASSUME ApiInv, srv.command = "none", NEW c \in {"moving", "completed", "failed"}, srv' = Becomes(c)
    PROVE  /\ srv' \in [command : ServerStates, contradiction : BOOLEAN, effects : 0 .. 2]
           /\ srv'.command = c /\ srv'.effects <= 1 /\ ~srv'.contradiction
  <1>1. srv \in Servers /\ srv.effects = 0 /\ ~srv.contradiction
    BY DEF ApiInv, TypeOK, Servers, Once, Quiet
  <1>2. Becomes(c) \in Servers /\ Becomes(c).command = c /\ Becomes(c).effects <= 1
        /\ Becomes(c).contradiction = srv.contradiction
    BY <1>1, BecomesFits
  <1> HIDE DEF Becomes
  <1>3. \A s \in Servers : s.effects <= 1 => s \in [command : ServerStates, contradiction : BOOLEAN, effects : 0 .. 2]
    BY DEF Servers
  <1> QED BY <1>1, <1>2, <1>3

\* A request that was given up is served.
LEMMA ServeUnheardKeeps ==
    ASSUME ApiInv, ServeUnheard
    PROVE  ApiInv'
  <1>1. /\ pc = "answered" /\ call.answer.transport = "after_write" /\ srv.command = "none"
        /\ pc' = pc /\ op' = op /\ call' = call /\ watch' = watch /\ signal' = signal
        /\ result' = result /\ vague' = vague
    BY DEF ServeUnheard
  <1>2. PICK c \in {"moving", "completed", "failed"} : srv' = Becomes(c)
    BY DEF ServeUnheard
  <1>3. /\ srv' \in [command : ServerStates, contradiction : BOOLEAN, effects : 0 .. 2]
        /\ srv'.command = c /\ srv'.effects <= 1 /\ ~srv'.contradiction
    BY <1>1, <1>2, BecomesKeeps
  <1>4. ~watch.polls /\ op # "watch"
    BY <1>1 DEF ApiInv, Requests, Commanded
  <1>5. TypeOK' /\ Shaped'
    BY <1>1, <1>3 DEF ApiInv, TypeOK, Shaped
  <1>6. Requests' /\ Once' /\ Quiet'
    BY <1>1, <1>3, <1>4 DEF ApiInv, Requests, Once, PerformedOnce, Quiet
  <1>7. Heard'
    <2>1. ~call.answer.cmd
      BY <1>1, <1>4 DEF ApiInv, Heard, Commanded
    <2>2. op = "transfers_execute" => ExecuteClass(call.answer) = "pending"
      BY <1>1, ClassifyFits DEF ExecuteClass
    <2> QED BY <1>1, <1>4, <2>1, <2>2, MoneyNoNames DEF Heard
  <1>8. Timely' /\ OverrunIsBounded'
    BY <1>1 DEF ApiInv, Timely, OverrunIsBounded
  <1>9. AcceptedIsTrue' /\ NoMoneyIsTrueWithout500' /\ StoppedIsFinal'
    BY <1>1 DEF ApiInv, AcceptedIsTrue, NoMoneyIsTrueWithout500, StoppedIsFinal
  <1> QED BY <1>5, <1>6, <1>7, <1>8, <1>9 DEF ApiInv

\* A command settles, perhaps while it is watched.
LEMMA WorkKeeps ==
    ASSUME ApiInv, Work
    PROVE  ApiInv'
  <1>1. /\ pc # "done" /\ srv.command = "moving"
        /\ pc' = pc /\ op' = op /\ call' = call /\ watch' = watch /\ signal' = signal
        /\ result' = result /\ vague' = vague
    BY DEF Work
  <1>2. PICK c \in {"completed", "failed", "operator"}, b \in BOOLEAN :
           (c = "completed" => ~b) /\ srv' = [srv EXCEPT !.command = c, !.contradiction = b]
    BY DEF Work
  <1>3. /\ srv' \in [command : ServerStates, contradiction : BOOLEAN, effects : 0 .. 2]
        /\ srv'.command = c /\ srv'.contradiction = b /\ srv'.effects = srv.effects
    BY <1>2 DEF ApiInv, TypeOK, ServerStates
  <1>4. TypeOK' /\ Shaped'
    BY <1>1, <1>3 DEF ApiInv, TypeOK, Shaped
  <1>5. Requests' /\ Once'
    BY <1>1, <1>3 DEF ApiInv, Requests, Once, PerformedOnce, Commanded
  <1>6. Quiet'
    BY <1>1, <1>2, <1>3 DEF ApiInv, Quiet, Untouched
  <1>7. Heard'
    BY <1>1, <1>3 DEF ApiInv, Heard, Told, MayHaveMoved, Untouched, Commanded
  <1>8. Timely' /\ OverrunIsBounded'
    BY <1>1 DEF ApiInv, Timely, OverrunIsBounded
  <1>9. AcceptedIsTrue' /\ NoMoneyIsTrueWithout500' /\ StoppedIsFinal'
    BY <1>1 DEF ApiInv, AcceptedIsTrue, NoMoneyIsTrueWithout500, StoppedIsFinal
  <1> QED BY <1>4, <1>5, <1>6, <1>7, <1>8, <1>9 DEF ApiInv

\* What an answer to the request under way says, and what the server is after
\* it.
LEMMA ReplyFits ==
    ASSUME ApiInv, pc = "sent", NEW reply \in Replies
    PROVE  /\ IsAnswer(reply.ans) /\ reply.ans.transport = "none"
           /\ \/ reply.srv = srv
              \/ /\ srv.command = "none" /\ ~watch.polls
                 /\ \E c \in {"moving", "completed", "failed"} : reply.srv = Becomes(c)
           /\ watch.polls /\ reply.ans.parsed => Told(reply.ans.body)
           /\ ~watch.polls /\ reply.ans.cmd => reply.srv.command \in Commanded
           /\ op = "transfers_execute" /\ ~watch.polls => Sound(reply)
  <1>1. /\ srv \in Servers /\ (srv.command = "none" => srv.effects = 0)
        /\ op \in {"transfers_simulate", "transfers_execute", "create_api_key", "watch"}
    BY ApiAssumption DEF ApiInv, TypeOK, Servers, Once
  <1>2. CASE watch.polls
    <2>1. call.op = "get_command" /\ srv.command \in Commanded
      BY <1>2 DEF ApiInv, Requests
    <2>2. reply \in CommandReplies
      BY <2>1 DEF Replies
    <2> QED BY <1>1, <1>2, <2>1, <2>2, CommandSound
  <1>3. CASE ~watch.polls
    <2>1. call.op = op /\ op # "watch"
      BY <1>3 DEF ApiInv, Requests
    <2>2. CASE op = "create_api_key"
      <3>1. reply \in MintReplies /\ srv.command = "none"
        BY <2>1, <2>2 DEF Replies, ApiInv, Once
      <3> QED BY <1>3, <2>2, <3>1, MintSound
    <2>3. CASE op \in {"transfers_simulate", "transfers_execute"}
      <3>1. reply \in MoneyReplies
        BY <2>1, <2>3 DEF Replies
      <3>2. Sound(reply)
        BY <1>1, <3>1, MoneySound
      <3> QED BY <1>3, <3>2 DEF Sound
    <2> QED BY <1>1, <2>1, <2>2, <2>3
  <1> QED BY <1>2, <1>3

\* The server answers.
LEMMA ServeKeeps ==
    ASSUME ApiInv, NEW seconds \in 0 .. MaxLatency, Serve(seconds)
    PROVE  ApiInv'
  <1>1. PICK reply \in Replies :
           srv' = reply.srv /\ call' = [call EXCEPT !.answer = reply.ans, !.spent = @ + seconds]
    BY DEF Serve
  <1>2. /\ pc = "sent" /\ pc' = "answered" /\ op' = op /\ signal' = signal /\ result' = result /\ vague' = vague
        /\ watch' = IF watch.polls THEN [watch EXCEPT !.left = @ - seconds] ELSE watch
    BY DEF Serve
  <1>3. /\ call'.op = call.op /\ call'.spent = call.spent + seconds /\ call'.answer = reply.ans
        /\ call' = [op |-> call'.op, spent |-> call'.spent, answer |-> call'.answer]
    BY <1>1 DEF ApiInv, Shaped
  <1>4. /\ watch'.delay = watch.delay /\ watch'.body = watch.body /\ watch'.polls = watch.polls
        /\ watch'.left = IF watch.polls THEN watch.left - seconds ELSE watch.left
        /\ watch' = [delay |-> watch'.delay, left |-> watch'.left, body |-> watch'.body, polls |-> watch'.polls]
    BY <1>2 DEF ApiInv, Shaped
  <1>5. /\ call.spent \in Nat /\ watch.left \in Int /\ RetryBudget \in Nat /\ MaxLatency \in Nat
        /\ seconds \in Nat /\ seconds <= MaxLatency
    BY ApiAssumption DEF ApiInv, TypeOK
  <1>6. /\ IsAnswer(reply.ans) /\ reply.ans.transport = "none"
        /\ \/ srv' = srv
           \/ /\ srv.command = "none" /\ ~watch.polls
              /\ \E c \in {"moving", "completed", "failed"} : srv' = Becomes(c)
        /\ watch.polls /\ reply.ans.parsed => Told(reply.ans.body)
        /\ ~watch.polls /\ reply.ans.cmd => srv'.command \in Commanded
        /\ op = "transfers_execute" /\ ~watch.polls => Sound(reply)
    BY <1>1, <1>2, ReplyFits
  <1>7. \/ srv' = srv
        \/ /\ srv.command = "none" /\ ~watch.polls
           /\ srv'.command \in {"moving", "completed", "failed"} /\ srv'.effects <= 1 /\ ~srv'.contradiction
    BY <1>6, BecomesKeeps
  <1>8. srv' \in [command : ServerStates, contradiction : BOOLEAN, effects : 0 .. 2]
    BY <1>6, BecomesKeeps DEF ApiInv, TypeOK
  <1>9. TypeOK'
    BY <1>2, <1>3, <1>4, <1>5, <1>8 DEF ApiInv, TypeOK
  <1>10. Shaped'
    BY <1>3, <1>4, <1>6 DEF ApiInv, Shaped
  <1>11. Requests'
    BY <1>2, <1>3, <1>4, <1>7 DEF ApiInv, Requests, Commanded
  <1>12. Once'
    BY <1>2, <1>7 DEF ApiInv, Once, PerformedOnce
  <1>13. Quiet'
    BY <1>2, <1>7 DEF ApiInv, Quiet
  <1>14. Heard'
    <2>1. watch.polls /\ reply.ans.parsed => Told(reply.ans.body)'
      BY <1>2, <1>6 DEF Told
    <2>2. ASSUME op = "transfers_execute", ~watch.polls
          PROVE  /\ ExecuteClass(reply.ans) = "accepted_upstream" => srv'.command = "completed"
                 /\ ~vague /\ ExecuteClass(reply.ans) \in MoneyNo => ~MayHaveMoved'
                 /\ ~vague /\ Harmless(reply.ans) => Untouched'
      <3>1. Sound(reply) /\ (~vague => Untouched)
        BY <1>2, <1>6, <2>2 DEF ApiInv, Quiet
      <3>2. ~vague /\ ExecuteClass(reply.ans) \in MoneyNo => ~MayHaveMoved'
        BY <1>1, <1>3, <1>7, <3>1 DEF Sound, Untouched, MayHaveMoved
      <3> QED BY <1>1, <3>1, <3>2 DEF Sound, Untouched
    <2> QED BY <1>2, <1>3, <1>4, <1>6, <2>1, <2>2 DEF Heard
  <1>15. Timely'
    BY <1>2, <1>3, <1>4, <1>5 DEF ApiInv, Timely
  <1>16. AcceptedIsTrue' /\ NoMoneyIsTrueWithout500'
    BY <1>2 DEF AcceptedIsTrue, NoMoneyIsTrueWithout500
  <1>17. StoppedIsFinal'
    BY <1>2, <1>4 DEF ApiInv, StoppedIsFinal
  <1>18. OverrunIsBounded'
    BY <1>2, <1>3, <1>4, <1>5 DEF ApiInv, Timely, OverrunIsBounded
  <1> QED BY <1>9, <1>10, <1>11, <1>12, <1>13, <1>14, <1>15, <1>16, <1>17, <1>18 DEF ApiInv

-----------------------------------------------------------------------------
(* The theorems.                                                           *)

LEMMA UnchangedKeeps ==
    ASSUME ApiInv, UNCHANGED vars
    PROVE  ApiInv'
  <1> USE DEF ApiInv, vars
  <1>1. TypeOK' /\ Shaped' /\ Requests'
    BY DEF TypeOK, Shaped, Requests
  <1>2. Once' /\ Quiet' /\ Heard'
    BY DEF Once, PerformedOnce, Quiet, Heard, Told, MayHaveMoved, Untouched
  <1>3. Timely' /\ OverrunIsBounded'
    BY DEF Timely, OverrunIsBounded
  <1>4. AcceptedIsTrue' /\ NoMoneyIsTrueWithout500' /\ StoppedIsFinal'
    BY DEF AcceptedIsTrue, NoMoneyIsTrueWithout500, StoppedIsFinal, MayHaveMoved
  <1> QED BY <1>1, <1>2, <1>3, <1>4

LEMMA NextKeeps ==
    ASSUME ApiInv, Next
    PROVE  ApiInv'
  <1>1. CASE Client
    BY <1>1, InvokeKeeps, AttemptKeeps, ResendKeeps, ReturnKeeps, TakeKeeps, TimeOutKeeps, WaitKeeps,
       ReadKeeps, TakeReadKeeps DEF Client
  <1>2. CASE Network
    BY <1>2, LostKeeps, ServeKeeps DEF Network
  <1>3. CASE Interrupt \/ ServeUnheard \/ Work
    BY <1>3, InterruptKeeps, ServeUnheardKeeps, WorkKeeps
  <1> QED BY <1>1, <1>2, <1>3 DEF Next

\* The inductive invariant of a call: the parts the properties below rest on.
THEOREM ApiClientCorrect == Spec => []ApiInv
  <1>1. Init => ApiInv
    BY InitHolds
  <1>2. ApiInv /\ [Next]_vars => ApiInv'
    BY NextKeeps, UnchangedKeeps
  <1> QED BY <1>1, <1>2, PTL DEF Spec

\* Every state of a call is typed: what api.Client.Do, poll.Watch and followUp
\* hold between them.
THEOREM ApiClientTyped == Spec => []TypeOK
  <1>1. ApiInv => TypeOK
    BY DEF ApiInv
  <1> QED BY <1>1, ApiClientCorrect, PTL

\* However Do resends and however answers are lost, the server performs the
\* operation of one invocation at most once.
THEOREM ResendsPerformOnce == Spec => []PerformedOnce
  <1>1. ApiInv => PerformedOnce
    BY DEF ApiInv, Once
  <1> QED BY <1>1, ApiClientCorrect, PTL

\* An execute that the table reports with "no money moved" moved none, and the
\* server holds nothing that could still move it, unless a 500 was followed by
\* a resend.
THEOREM NoIsTrueOfOneCall == Spec => []NoMoneyIsTrueWithout500
  <1>1. ApiInv => NoMoneyIsTrueWithout500
    BY DEF ApiInv
  <1> QED BY <1>1, ApiClientCorrect, PTL

\* A transfer reported as accepted, at once or after it was watched, has been
\* performed and is not contradicted.
THEOREM AcceptedIsTrueOfOneCall == Spec => []AcceptedIsTrue
  <1>1. ApiInv => AcceptedIsTrue
    BY DEF ApiInv
  <1> QED BY <1>1, ApiClientCorrect, PTL

\* Watch does not read a stopped command again, and reports it with a class
\* that does not send the caller back.
THEOREM WatchStopsAtTheEnd == Spec => []StoppedIsFinal
  <1>1. ApiInv => StoppedIsFinal
    BY DEF ApiInv
  <1> QED BY <1>1, ApiClientCorrect, PTL

\* Do ends within --retry-budget and one answer, and Watch overruns --timeout
\* by no more than that, for every budget, timeout and Retry-After.
THEOREM DeadlinesHold == Spec => []OverrunIsBounded
  <1>1. ApiInv => OverrunIsBounded
    BY DEF ApiInv
  <1> QED BY <1>1, ApiClientCorrect, PTL

=============================================================================
