---------------------------- MODULE OutcomeTable ----------------------------
(***************************************************************************)
(* internal/outcome as operators: what one answer of the FERRY API means   *)
(* (Classify), what a command that was read means (ClassifyCommand), what  *)
(* a class says about money and about the key, and internal/api's          *)
(* predicate for answers worth resending (Retryable).                      *)
(*                                                                         *)
(* An answer is a record: transport ("none", "dial" or "after_write"),     *)
(* status, code (NoEnvelope when the body is not the error envelope),      *)
(* reason, cmd (it names a command), parsed (a 2xx body was readable) and  *)
(* txn (the status of the transaction in it).  Sentences for the reader    *)
(* and warnings are left out.                                              *)
(***************************************************************************)
EXTENDS Integers

NoEnvelope == ""

MoneyClasses == {"money_simulate", "money_execute"}
OpClasses == MoneyClasses \cup {"read", "control_create"}

OpClassOf == [get_me |-> "read", list_api_keys |-> "read", create_api_key |-> "control_create",
              get_api_key |-> "read", revoke_api_key |-> "read", list_corridors |-> "read",
              get_corridor |-> "read", transfers_simulate |-> "money_simulate",
              transfers_execute |-> "money_execute", get_command |-> "read"]

Operations == DOMAIN OpClassOf

\* The ten classes: the exit code, the answer to "did money move", and
\* whether the identical request may be sent again under its key.
Property(exit, money, sameKeySafe) == [exit |-> exit, money |-> money, sameKeySafe |-> sameKeySafe]

Properties ==
    [done               |-> Property(0, "no", TRUE),
     accepted_upstream  |-> Property(0, "accepted_upstream", TRUE),
     cli_fault          |-> Property(1, "no", TRUE),
     usage              |-> Property(2, "no", TRUE),
     refused_fix        |-> Property(3, "no", FALSE),
     refused_resimulate |-> Property(4, "no", FALSE),
     transient          |-> Property(5, "no", TRUE),
     pending            |-> Property(6, "unknown", TRUE),
     escalate           |-> Property(7, "unknown", FALSE),
     upstream_failed    |-> Property(8, "see_upstream", FALSE)]

Classes == DOMAIN Properties

-----------------------------------------------------------------------------
(* The table: a row gives a class per operation class.                     *)

FixCodes ==
    {"TOKEN_MISSING", "TOKEN_INVALID", "TOKEN_EXPIRED", "TOKEN_REVOKED", "ORGANIZATION_SUSPENDED",
     "ENVIRONMENT_DISABLED", "WRONG_TOKEN_CLASS", "INSUFFICIENT_SCOPE", "ROLE_FORBIDDEN",
     "STEP_UP_REQUIRED", "FORBIDDEN", "NOT_FOUND", "VALIDATION_FAILED", "MALFORMED_JSON",
     "CURSOR_INVALID", "UNSUPPORTED_MEDIA_TYPE", "IDEMPOTENCY_KEY_REQUIRED",
     "IDEMPOTENCY_KEY_INVALID", "UPSTREAM_NOT_CONFIGURED", "UPSTREAM_CREDENTIALS_INVALID"}

\* Refusals that cost nothing on a simulate and the plan on an execute: the
\* spend policy and its like, and the quote surface.
SpentOnExecuteCodes ==
    {"POLICY_NOT_CONFIGURED", "POLICY_INVALID", "POLICY_UNPRICED_ASSET", "POLICY_CUSTOMER_NOT_ALLOWED",
     "POLICY_DESTINATION_NOT_ALLOWED", "POLICY_MAX_AMOUNT_PER_TRANSACTION", "POLICY_MAX_AMOUNT_PER_DAY",
     "POLICY_MAX_AMOUNT_PER_30D", "POLICY_MAX_TRANSACTIONS_PER_DAY", "DESTINATION_TOO_NEW",
     "EXECUTION_SUSPENDED", "UPSTREAM_CONTRACT_VIOLATION", "CORRIDOR_UNSUPPORTED",
     "CORRIDOR_NOT_EXECUTABLE", "DESTINATION_NOT_EXECUTABLE", "INSTRUMENT_INVALID",
     "AMOUNT_INVALID", "QUOTE_REJECTED"}

PlanUnusableCodes ==
    {"PLAN_NOT_FOUND", "PLAN_EXPIRED", "PLAN_ALREADY_USED", "PLAN_CHANGED", "PLAN_KEY_MISMATCH",
     "UPSTREAM_UNAVAILABLE"}

TransientCodes == {"RATE_LIMITED", "SERVICE_UNAVAILABLE", "UPSTREAM_BUSY", "UPSTREAM_AUTH_UNAVAILABLE"}

\* Codes of a surface this program never calls.
OffSurfaceCodes ==
    {"WEBHOOK_ENDPOINT_UNKNOWN", "WEBHOOK_ENDPOINT_RETIRED", "WEBHOOK_SIGNATURE_INVALID",
     "WEBHOOK_MODE_MISMATCH", "WEBHOOK_BODY_TOO_LARGE"}

\* The answer may be about a request that was executed.
UnsureCodes == {"INTERNAL_ERROR", "IDEMPOTENCY_KEY_IN_PROGRESS", "WEBHOOK_INGRESS_UNVERIFIED"}

HeldKeyCodes == {"IDEMPOTENCY_KEY_REUSED", "IDEMPOTENCY_KEY_REPLAY_EXPIRED"}

Codes == FixCodes \cup SpentOnExecuteCodes \cup PlanUnusableCodes \cup TransientCodes
         \cup OffSurfaceCodes \cup UnsureCodes \cup HeldKeyCodes \cup {"COMMAND_UNRESOLVED"}

Row(simulate, execute, read) ==
    [money_simulate |-> simulate, money_execute |-> execute, read |-> read, control_create |-> read]

RowOf(code) ==
    CASE code \in FixCodes            -> Row("refused_fix", "refused_fix", "refused_fix")
      [] code \in SpentOnExecuteCodes -> Row("refused_fix", "refused_resimulate", "refused_fix")
      [] code \in PlanUnusableCodes   -> Row("refused_resimulate", "refused_resimulate", "refused_fix")
      [] code \in TransientCodes      -> Row("transient", "transient", "transient")
      [] code \in OffSurfaceCodes     -> Row("pending", "pending", "refused_fix")
      [] code \in UnsureCodes         -> Row("pending", "pending", "transient")
      [] code \in HeldKeyCodes        -> Row("escalate", "escalate", "refused_fix")
      [] code = "COMMAND_UNRESOLVED"  -> Row("escalate", "escalate", "escalate")

\* Variant: any answer to a reused key is a refusal of the request.
ReusedIsRefused(in, class) ==
    IF class \in MoneyClasses /\ in.code = "IDEMPOTENCY_KEY_REUSED" THEN "refused_fix"
    ELSE RowOf(in.code)[class]

\* The row, and its two refinements by the reason and by the command.
Verdict(in, class) ==
    CASE class \in MoneyClasses /\ in.code = "IDEMPOTENCY_KEY_REUSED"
         /\ in.reason = "different_request" -> "refused_fix"
      [] class \in MoneyClasses /\ in.code = "UPSTREAM_BUSY" /\ in.cmd -> "pending"
      [] OTHER -> RowOf(in.code)[class]

-----------------------------------------------------------------------------
(* One answer.                                                             *)

ClassifyTransport(in, class) ==
    IF in.transport = "after_write" /\ class # "read" THEN "pending" ELSE "transient"

\* Variant: any readable 2xx to an execute is an acceptance.
ClassifySuccessBy2xx(in, class) ==
    CASE ~in.parsed -> IF class \in MoneyClasses THEN "pending" ELSE "transient"
      [] in.parsed /\ class = "money_execute" ->
            IF in.txn = "failed" THEN "upstream_failed" ELSE "accepted_upstream"
      [] OTHER -> IF in.status = 202 THEN "pending" ELSE "done"

ClassifySuccess(in, class) ==
    CASE ~in.parsed -> IF class \in MoneyClasses THEN "pending" ELSE "transient"
      [] in.parsed /\ in.status = 202 -> "pending"
      [] in.parsed /\ in.status # 202 /\ class = "money_execute" ->
            IF in.txn = "failed" THEN "upstream_failed" ELSE "accepted_upstream"
      [] OTHER -> "done"

ClassifyUnknownCode(in, class) ==
    CASE class \in MoneyClasses -> "pending"
      [] class \notin MoneyClasses /\ in.status >= 500 -> "transient"
      [] OTHER -> "refused_fix"

Classify(op, in) ==
    IF op \notin Operations THEN "pending"
    ELSE LET class == OpClassOf[op] IN
         IF in.transport # "none" THEN ClassifyTransport(in, class)
         ELSE IF in.status \in 200 .. 299 THEN ClassifySuccess(in, class)
         ELSE IF in.code = NoEnvelope THEN IF class \in MoneyClasses THEN "pending" ELSE "transient"
         ELSE IF in.code \notin Codes THEN ClassifyUnknownCode(in, class)
         ELSE Verdict(in, class)

-----------------------------------------------------------------------------
(* A command that was read: operation, state, contradiction, txn (the      *)
(* status in a stored result, if any) and error (last_error.code).         *)

MovingStates == {"reserved", "inflight", "upstream_unknown", "failed_retriable"}
CommandStates == MovingStates \cup {"completed", "failed_terminal", "needs_operator"}

ClassifyCompleted(c) ==
    CASE c.operation = "transfers_execute" ->
            IF c.txn = "failed" THEN "upstream_failed" ELSE "accepted_upstream"
      [] c.operation = "transfers_simulate" -> "refused_resimulate"
      [] OTHER -> "escalate"

\* A command that has stopped has no class whose remedy is to come back.
ClassifyFailedTerminal(c) ==
    IF c.operation \notin Operations \/ c.error \notin Codes THEN "escalate"
    ELSE LET class == RowOf(c.error)[OpClassOf[c.operation]] IN
         IF class \in {"transient", "pending"} THEN "escalate" ELSE class

\* Variant: a failed command is read through the table as it stands.
ClassifyCommandByTheTable(c) ==
    CASE c.contradiction \/ c.state \notin CommandStates \/ c.state = "needs_operator" -> "escalate"
      [] ~c.contradiction /\ c.state = "completed" -> ClassifyCompleted(c)
      [] ~c.contradiction /\ c.state = "failed_terminal" ->
            IF c.error \notin Codes THEN "escalate" ELSE RowOf(c.error)[OpClassOf[c.operation]]
      [] OTHER -> "pending"

ClassifyCommand(c) ==
    CASE c.contradiction \/ c.state \notin CommandStates \/ c.state = "needs_operator" -> "escalate"
      [] ~c.contradiction /\ c.state = "completed" -> ClassifyCompleted(c)
      [] ~c.contradiction /\ c.state = "failed_terminal" -> ClassifyFailedTerminal(c)
      [] OTHER -> "pending"

-----------------------------------------------------------------------------
(* Whether Do sends the same bytes again after an answer.                  *)

FixtureUnmatched == 599

\* Variant: a key mint is retried as a read is.
RetryableMint(class, in) ==
    \/ in.status = 429
    \/ in.status >= 500 /\ in.code \in {"SERVICE_UNAVAILABLE", "INTERNAL_ERROR"}

Retryable(class, in) ==
    /\ class # "control_create"
    /\ in.status # FixtureUnmatched
    /\ \/ in.status = 429
       \/ /\ in.status >= 500
          /\ \/ in.code = "UPSTREAM_BUSY" /\ ~in.cmd
             \/ in.code \in {"SERVICE_UNAVAILABLE", "UPSTREAM_AUTH_UNAVAILABLE", "INTERNAL_ERROR"}
             \/ /\ class \notin MoneyClasses
                /\ in.code \notin {"UPSTREAM_BUSY", "UPSTREAM_UNAVAILABLE", "UPSTREAM_NOT_CONFIGURED",
                                   "UPSTREAM_CREDENTIALS_INVALID"}
=============================================================================
