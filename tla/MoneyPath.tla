----------------------------- MODULE MoneyPath -----------------------------
(***************************************************************************)
(* The money path of internal/noun/transfers: what one invocation of       *)
(* `transfers create`, `transfers execute` or `runs resume` does between   *)
(* its first look at the ledger and its exit code, with the FERRY server   *)
(* and the network around it.                                              *)
(*                                                                         *)
(* RunLedger shows that a run's record has one owner at a time, so here a  *)
(* ledger call is one action on the record, under a lock `holder`.  No     *)
(* copy in memory is needed: every caller ends its invocation on a failed  *)
(* save.  A resent request is the bytes of the record under the key of the *)
(* record, so a request is named by its run and step.                      *)
(***************************************************************************)
EXTENDS StepRecord, FiniteSets

CONSTANTS
    Procs,      \* terminals or scripts, each running one invocation at a time
    NoProc,     \* nobody
    Runs,       \* run ids, minted at most once
    NoRun,      \* an invocation that works on no run yet
    NoRecord,   \* no <run>.json
    Keys,       \* values of --idempotency-key
    NoKey,      \* the flag is not given
    OrderBody,  \* the execute body built from a stored plan token
    Commands,   \* the command lines callers use
    Trouble,    \* what may happen besides; see Troubles
    MaxTrouble  \* bound on how often it happens

\* "save": a ledger write fails; "loss": the network loses a request or an
\* answer; "dial": no connection; "busy": 429 or a 503 worth resending;
\* "error": 500; "denied": 401 or 403, which do not look the key up; "stuck":
\* a command ends with an operator; "timeout": the wait for a command ends
\* early; "report": stdout cannot be written; "decline": a human runs `runs
\* decline`; "expiry": a plan is past its grace when a sweep comes by.
Troubles == {"crash", "signal", "save", "loss", "dial", "busy", "error", "denied",
             "stuck", "timeout", "report", "decline", "expiry"}

ASSUME MoneyAssumption ==
    /\ StepNames = {"simulate", "execute"} /\ Gated = {"execute"}
    /\ OrderBody \in Bodies
    /\ NoRecord \notin Run
    /\ NoKey \notin Keys /\ NoRun \notin Runs /\ NoProc \notin Procs
    /\ Keys \cap (Runs \X StepNames) = {}    \* a key the ledger makes is fresh
    /\ Commands \subseteq [verb : {"create", "execute", "resume"}, broadcast : BOOLEAN,
                           yes : BOOLEAN, tty : BOOLEAN, allow : BOOLEAN,
                           key : Keys \cup {NoKey}, body : Bodies]
    /\ \A c \in Commands : c.broadcast => c.verb = "create" /\ c.key = NoKey
    /\ Trouble \subseteq Troubles
    /\ MaxTrouble \in Nat

VARIABLES
    record,   \* record[r]: the steps of run r, or NoRecord
    given,    \* given[r]: the steps run r has and the caller's key for it
    said,     \* said[r][s]: the class recorded as the outcome of step s
    holder,   \* holder[r]: the invocation that owns run r's lock
    inv,      \* inv[p]: the invocation of p, or what its last one left
    wire,     \* requests under way: [to, run, step]
    srv,      \* srv[k]: what the server holds under idempotency key k
    trouble   \* how often trouble happened

ledger == <<record, given, said, holder>>
world == <<wire, srv>>
vars == <<ledger, inv, world, trouble>>

\* The outcome classes; "escalate" also stands for upstream_failed, the other
\* settled class whose answer to "did money move" is neither yes nor no.
Classes == {"none", "killed", "done", "accepted_upstream", "cli_fault", "usage", "refused_fix",
            "refused_resimulate", "transient", "pending", "escalate"}
MoneyNo == {"refused_fix", "refused_resimulate", "transient", "cli_fault", "usage"}

Answers == {"none", "fresh", "replay", "accepted", "in_progress", "refused", "denied",
            "busy", "error", "dial", "lost"}
PCs == {"idle", "routing", "checking", "minting", "opening", "resuming", "consent", "prompt",
        "ready", "begun", "sending", "waiting", "answered", "closing", "polling", "after", "reporting"}
SaveResults == {"ok", "early", "late"}

NoCommand == [verb |-> "none", broadcast |-> FALSE, yes |-> FALSE, tty |-> FALSE,
              allow |-> FALSE, key |-> NoKey, body |-> OrderBody]

\* implied is perform's argument commandIsConsent, flag the in-flight flag
\* (C17), signal whether one was seen.  agreed and left are history: a human
\* said yes to this invocation, and the steps it put on the wire.
Invocation == [pc : PCs, cmd : Commands \cup {NoCommand}, run : Runs \cup {NoRun},
               step : StepNames, implied : BOOLEAN, flag : BOOLEAN, signal : BOOLEAN,
               ans : Answers, exit : Classes, agreed : BOOLEAN, left : SUBSET StepNames]

Idle == [pc |-> "idle", cmd |-> NoCommand, run |-> NoRun, step |-> "simulate",
         implied |-> FALSE, flag |-> FALSE, signal |-> FALSE, ans |-> "none",
         exit |-> "none", agreed |-> FALSE, left |-> {}]

\* The key of a step: the caller's on a one-step run, else one of its own.
KeyOf(r, s) == IF given[r].key = NoKey THEN <<r, s>> ELSE given[r].key

TypeOK ==
    /\ record \in [Runs -> Run \cup {NoRecord}]
    /\ given \in [Runs -> [shape : SUBSET StepNames, key : Keys \cup {NoKey}]]
    /\ said \in [Runs -> [StepNames -> Classes]]
    /\ holder \in [Runs -> Procs \cup {NoProc}]
    /\ inv \in [Procs -> Invocation]
    /\ wire \subseteq [to : Procs \cup {NoProc}, run : Runs, step : StepNames]
    /\ srv \in [Keys \cup (Runs \X StepNames) -> {"none", "working", "done", "refused", "stuck"}]
    /\ trouble \in 0 .. MaxTrouble

Init ==
    /\ record = [r \in Runs |-> NoRecord]
    /\ given = [r \in Runs |-> [shape |-> {}, key |-> NoKey]]
    /\ said = [r \in Runs |-> [s \in StepNames |-> "none"]]
    /\ holder = [r \in Runs |-> NoProc]
    /\ inv = [p \in Procs |-> Idle]
    /\ wire = {}
    /\ srv = [k \in Keys \cup (Runs \X StepNames) |-> "none"]
    /\ trouble = 0

-----------------------------------------------------------------------------
(* Helpers.                                                                *)

At(p, label) == inv[p].pc = label

Go(p, next) == inv' = [inv EXCEPT ![p] = next]

Befalls(kind) ==
    /\ kind \in Trouble
    /\ trouble < MaxTrouble
    /\ trouble' = trouble + 1

Fine == UNCHANGED trouble

\* The steps of run r become `steps`, by the result of the save.
Save(r, steps, result) ==
    /\ IF result = "ok" THEN Fine ELSE Befalls("save")
    /\ record' = IF result = "early" THEN record ELSE [record EXCEPT ![r] = steps]

SaveStep(r, s, step, result) == Save(r, [record[r] EXCEPT ![s] = step], result)

\* wrapper.classify: a signal or a local fault is reported by the flag.
Known(i, class) ==
    IF i.signal \/ class = "cli_fault" THEN IF i.flag THEN "pending" ELSE "cli_fault"
    ELSE class

\* The invocation ends and its lock is released.
Ended(p, class) ==
    /\ Go(p, [Idle EXCEPT !.exit = class, !.run = inv[p].run, !.left = inv[p].left])
    /\ holder' = [r \in Runs |-> IF holder[r] = p THEN NoProc ELSE holder[r]]

\* It returns an error before it reported anything.
Quit(p, class) == Ended(p, Known(inv[p], class))

\* A step after which the invocation goes on when the save succeeded, and
\* quits when it failed.
GoIfSaved(p, next, result) ==
    IF result = "ok" THEN Go(p, next) /\ UNCHANGED holder ELSE Quit(p, "cli_fault")

Open(r) == record[r] # NoRecord /\ UnresolvedRun(record[r])

UnusedRuns == {r \in Runs : record[r] = NoRecord}

-----------------------------------------------------------------------------
(* Reaching a run: a new one, or one the ledger holds.                     *)

\* A caller types a command.  (Runs bounds the runs ever minted: enough must
\* be left for the invocations on their way to mint one.)
Start(p, c, r) ==
    /\ At(p, "idle")
    /\ \/ /\ c.verb # "resume" /\ r = NoRun
          /\ Cardinality(UnusedRuns) >
                Cardinality({q \in Procs : inv[q].pc \in {"routing", "checking", "minting"}})
          /\ Go(p, [Idle EXCEPT !.pc = "routing", !.cmd = c])
       \/ /\ c.verb = "resume" /\ r \in Runs
          /\ Go(p, [Idle EXCEPT !.pc = "opening", !.cmd = c, !.run = r])
    /\ Fine /\ UNCHANGED <<ledger, world>>

\* Variant: only runs that are still open are looked at.
OpenMatches(key) == {r \in Runs : Open(r) /\ key # NoKey /\ given[r].key = key}

Matches(key) == {r \in Runs : record[r] # NoRecord /\ key # NoKey /\ given[r].key = key}

\* FindByKey: the same bytes under a key the ledger holds are a resume of the
\* run that holds it, other bytes a refusal.
Route(p) ==
    LET i == inv[p]
        matches == Matches(i.cmd.key)
    IN  /\ At(p, "routing")
        /\ \/ /\ matches = {}
              /\ Go(p, [i EXCEPT !.pc = "checking"])
              /\ UNCHANGED holder
           \/ \E r \in matches :
                 IF \E s \in given[r].shape : record[r][s].body = i.cmd.body
                 THEN Go(p, [i EXCEPT !.pc = "opening", !.run = r]) /\ UNCHANGED holder
                 ELSE Quit(p, "refused_fix")
        /\ Fine /\ UNCHANGED <<record, given, said, world>>

\* Ledger.Open, and ErrRunNotFound or ErrRunLocked.
OpenRun(p) ==
    LET r == inv[p].run IN
    /\ At(p, "opening")
    /\ \/ record[r] = NoRecord /\ Quit(p, "usage")
       \/ record[r] # NoRecord /\ holder[r] # NoProc /\ Quit(p, "cli_fault")
       \/ /\ record[r] # NoRecord /\ holder[r] = NoProc
          /\ holder' = [holder EXCEPT ![r] = p]
          /\ Go(p, [inv[p] EXCEPT !.pc = IF inv[p].cmd.verb = "resume" THEN "resuming" ELSE "checking"])
    /\ Fine /\ UNCHANGED <<record, given, said, world>>

\* Runs that are unresolved and held by nobody, the matched run excepted.
Orphans(p) ==
    {r \in Runs \ {inv[p].run} : Open(r) /\ holder[r] = NoProc}

OrphanCheck(p) ==
    /\ At(p, "checking")
    /\ IF Orphans(p) = {} \/ inv[p].cmd.allow
       THEN /\ Go(p, [inv[p] EXCEPT !.pc = IF inv[p].run = NoRun THEN "minting" ELSE "resuming"])
            /\ UNCHANGED holder
       ELSE Quit(p, "cli_fault")
    /\ Fine /\ UNCHANGED <<record, given, said, world>>

\* runner.create: the command itself is the consent of the invocation that
\* mints the run.
Mint(p, r, result) ==
    LET c == inv[p].cmd
        first == IF c.verb = "execute" THEN "execute" ELSE "simulate"
        steps == [s \in StepNames |-> NewStep(IF s = first THEN c.body ELSE NoBody)]
        shape == IF c.broadcast THEN StepNames ELSE {first}
        next == [inv[p] EXCEPT !.run = r, !.step = first, !.implied = TRUE,
                               !.pc = IF first = "execute" THEN "consent" ELSE "ready"]
    IN  /\ At(p, "minting")
        /\ record[r] = NoRecord
        /\ Save(r, steps, result)
        /\ given' = IF result = "early" THEN given
                    ELSE [given EXCEPT ![r] = [shape |-> shape, key |-> c.key]]
        /\ IF result = "ok" THEN Go(p, next) /\ holder' = [holder EXCEPT ![r] = p]
           ELSE Quit(p, "cli_fault")
        /\ UNCHANGED <<said, world>>

\* Variant: an answer, even a pending one, ends the run.
ResumableUnanswered(r, s) ==
    \/ record[r][s].state \in {"awaiting_confirmation", "pending"}
    \/ /\ s = "execute" /\ given[r].shape = StepNames
       /\ record[r][s].state = "not_started" /\ HasPlanToken(record[r][s])

\* resumable: the first step a resume may act on.
Resumable(r, s) ==
    \/ Unresolved(record[r][s])
    \/ /\ s = "execute" /\ given[r].shape = StepNames
       /\ record[r][s].state = "not_started" /\ HasPlanToken(record[r][s])

\* Variant: a resume carries the consent of the command that made the run.
PickStepWithConsent(p, s) ==
    [inv[p] EXCEPT !.step = s, !.implied = TRUE, !.pc = IF s = "execute" THEN "consent" ELSE "ready"]

PickStep(p, s) ==
    [inv[p] EXCEPT !.step = s, !.implied = FALSE, !.pc = IF s = "execute" THEN "consent" ELSE "ready"]

\* resume and resumeStep: an execute step with neither body nor token is
\* stranded, and a run with nothing resumable refuses too.
Resume(p) ==
    LET r == inv[p].run
        s == IF Resumable(r, "simulate") THEN "simulate" ELSE "execute"
        stranded == s = "execute" /\ record[r][s].body = NoBody /\ ~HasPlanToken(record[r][s])
    IN  /\ At(p, "resuming")
        /\ IF Resumable(r, s) /\ ~stranded
           THEN Go(p, PickStep(p, s)) /\ UNCHANGED holder
           ELSE Quit(p, "refused_resimulate")
        /\ Fine /\ UNCHANGED <<record, given, said, world>>

-----------------------------------------------------------------------------
(* perform: consent, the write-ahead record, the flag, the request.        *)

\* consent.Ask up to the prompt.  On a terminal the question is recorded
\* before it is shown, and AwaitConfirmation refuses a step that has sent.
Consent(p, result) ==
    LET i == inv[p]
        r == i.run
        state == record[r]["execute"].state
    IN  /\ At(p, "consent")
        /\ \/ /\ i.cmd.yes \/ (~i.cmd.tty /\ i.implied)
              /\ result = "ok" /\ Fine
              /\ Go(p, [i EXCEPT !.pc = "ready"])
              /\ UNCHANGED <<record, holder>>
           \/ /\ ~i.cmd.yes /\ ~i.cmd.tty /\ ~i.implied
              /\ result = "ok" /\ Fine
              /\ Quit(p, IF MayHaveSent(state) THEN "pending" ELSE "cli_fault")
              /\ UNCHANGED record
           \/ /\ ~i.cmd.yes /\ i.cmd.tty
              /\ state \notin {"not_started", "awaiting_confirmation"}
              /\ result = "ok" /\ Fine
              /\ Quit(p, "cli_fault")
              /\ UNCHANGED record
           \/ /\ ~i.cmd.yes /\ i.cmd.tty
              /\ state \in {"not_started", "awaiting_confirmation"}
              /\ SaveStep(r, "execute", Awaiting(record[r]["execute"]), result)
              /\ GoIfSaved(p, [i EXCEPT !.pc = "prompt"], result)
        /\ UNCHANGED <<given, said, world>>

\* A y counts only while no signal has been seen.
AnswerYes(p) ==
    /\ At(p, "prompt")
    /\ ~inv[p].signal
    /\ Go(p, [inv[p] EXCEPT !.pc = "ready", !.agreed = TRUE])
    /\ Fine /\ UNCHANGED <<ledger, world>>

\* n, the end of input, or a signal.
AnswerNo(p, result) ==
    LET r == inv[p].run IN
    /\ At(p, "prompt")
    /\ SaveStep(r, "execute", Declined(record[r]["execute"]), result)
    /\ Quit(p, IF result = "ok" THEN "refused_fix" ELSE "cli_fault")
    /\ UNCHANGED <<given, said, world>>

\* The bytes a step offers: its own, or the execute body built from a token.
Offered(step) == IF step.body = NoBody THEN OrderBody ELSE NoBody

Begin(p, result) ==
    LET i == inv[p]
        r == i.run
        step == record[r][i.step]
    IN  /\ At(p, "ready")
        /\ \/ /\ i.signal
              /\ result = "ok" /\ Fine
              /\ Quit(p, "cli_fault")
              /\ UNCHANGED record
           \/ /\ ~i.signal
              /\ MayBegin(step, Offered(step))
              /\ SaveStep(r, i.step, [Began(step, Offered(step)) EXCEPT !.attempts = 0], result)
              /\ GoIfSaved(p, [i EXCEPT !.pc = "begun"], result)
        /\ UNCHANGED <<given, said, world>>

\* Variant: the flag is left for after the answer (M76).
MarkSentLate(p) ==
    /\ At(p, "begun")
    /\ Go(p, [inv[p] EXCEPT !.pc = "sending"])
    /\ Fine /\ UNCHANGED <<ledger, world>>

MarkSent(p) ==
    /\ At(p, "begun")
    /\ Go(p, [inv[p] EXCEPT !.flag = TRUE, !.pc = "sending"])
    /\ Fine /\ UNCHANGED <<ledger, world>>

\* One attempt of api.Client.Do.  A cancelled context sends nothing.
Attempt(p) ==
    LET i == inv[p] IN
    /\ At(p, "sending")
    /\ \/ /\ ~i.signal /\ Fine
          /\ wire' = wire \cup {[to |-> p, run |-> i.run, step |-> i.step]}
          /\ Go(p, [i EXCEPT !.pc = "waiting", !.left = @ \cup {i.step}])
       \/ /\ IF i.signal THEN Fine ELSE Befalls("dial")
          /\ Go(p, [i EXCEPT !.pc = "answered", !.ans = "dial"])
          /\ UNCHANGED wire
    /\ UNCHANGED <<ledger, srv>>

\* The connection breaks, or a signal cancels it.  The request is gone, or
\* still on its way to the server.
GiveUp(p) ==
    LET mine == {m \in wire : m.to = p} IN
    /\ At(p, "waiting")
    /\ IF inv[p].signal THEN Fine ELSE Befalls("loss")
    /\ \/ wire' = wire \ mine
       \/ wire' = (wire \ mine) \cup {[m EXCEPT !.to = NoProc] : m \in mine}
    /\ Go(p, [inv[p] EXCEPT !.pc = "answered", !.ans = "lost"])
    /\ UNCHANGED <<ledger, srv>>

\* Do's loop sends the same bytes again after these; when its budget is
\* spent they are the answer.
Retry(p) ==
    /\ At(p, "answered")
    /\ inv[p].ans \in {"busy", "error"}
    /\ Go(p, [inv[p] EXCEPT !.pc = "sending", !.ans = "none"])
    /\ Fine /\ UNCHANGED <<ledger, world>>

-----------------------------------------------------------------------------
(* The FERRY server (external), as the CLI relies on it: it performs a key  *)
(* once, and answers it with what it holds ever after.                     *)

Effects(state) ==
    CASE state = "none" -> {<<"done", "fresh">>, <<"working", "accepted">>, <<"refused", "refused">>}
      [] state \in {"working", "stuck"} -> {<<state, "in_progress">>}
      [] state = "done" -> {<<state, "replay">>}
      [] state = "refused" -> {<<state, "refused">>}

Answer(m, ans) ==
    /\ wire' = wire \ {m}
    /\ inv' = IF m.to = NoProc THEN inv
              ELSE [inv EXCEPT ![m.to].pc = "answered", ![m.to].ans = ans]

ServerTakes(m) ==
    LET k == KeyOf(m.run, m.step) IN
    /\ \E effect \in Effects(srv[k]) :
          /\ srv' = [srv EXCEPT ![k] = effect[1]]
          /\ \/ Answer(m, effect[2]) /\ Fine
             \/ m.to # NoProc /\ Answer(m, "lost") /\ Befalls("loss")
             \/ m.to # NoProc /\ Answer(m, "error") /\ Befalls("error")
    /\ UNCHANGED ledger

\* It answers without looking the key up.
ServerTurnsAway(m, ans) ==
    /\ Answer(m, ans)
    /\ Befalls(ans)
    /\ UNCHANGED <<ledger, srv>>

ServerWorks(k, outcome) ==
    /\ srv[k] = "working"
    /\ srv' = [srv EXCEPT ![k] = outcome]
    /\ IF outcome = "stuck" THEN Befalls("stuck") ELSE Fine
    /\ UNCHANGED <<ledger, inv, wire>>

-----------------------------------------------------------------------------
(* The answer: classified, recorded, followed up and reported.             *)

\* Variant: a 409 in progress is read as a refusal like other 4xx.
ConflictIsRefusal(s, ans) ==
    CASE ans \in {"fresh", "replay"} -> IF s = "simulate" THEN "done" ELSE "accepted_upstream"
      [] ans \in {"accepted", "lost", "error"} -> "pending"
      [] ans \in {"refused", "in_progress"} -> "refused_resimulate"
      [] ans = "denied" -> "refused_fix"
      [] ans \in {"busy", "dial"} -> "transient"

\* Variant: any 2xx to an execute is a success.
AcceptedIsSuccess(s, ans) ==
    CASE ans \in {"fresh", "replay", "accepted"} -> IF s = "simulate" THEN "done" ELSE "accepted_upstream"
      [] ans \in {"in_progress", "lost", "error"} -> "pending"
      [] ans = "refused" -> "refused_resimulate"
      [] ans = "denied" -> "refused_fix"
      [] ans \in {"busy", "dial"} -> "transient"

ClassOf(s, ans) ==
    CASE ans \in {"fresh", "replay"} -> IF s = "simulate" THEN "done" ELSE "accepted_upstream"
      [] ans \in {"accepted", "in_progress", "lost", "error"} -> "pending"
      [] ans = "refused" -> "refused_resimulate"
      [] ans = "denied" -> "refused_fix"
      [] ans \in {"busy", "dial"} -> "transient"

\* The class of a command the poll saw settle.
CommandClass(s, state) ==
    CASE state = "done" -> IF s = "execute" THEN "accepted_upstream" ELSE "refused_resimulate"
      [] state = "refused" -> "refused_resimulate"
      [] state = "stuck" -> "escalate"

\* Handle.Record with the ledger's reading of a class.
RecordClass(r, s, class, result) ==
    LET outcome == IF class \in {"transient", "pending"} THEN "resumable" ELSE "settled" IN
    /\ SaveStep(r, s, Recorded(record[r][s], outcome), result)
    /\ said' = IF result = "early" THEN said ELSE [said EXCEPT ![r][s] = class]

\* After Do: a signal ends the invocation before the answer is recorded.
RecordAnswer(p, result) ==
    LET i == inv[p]
        next == IF i.cmd.broadcast /\ i.step = "simulate" /\ i.ans = "accepted" THEN "closing"
                ELSE IF i.ans \in {"accepted", "in_progress"} THEN "polling"
                ELSE "after"
    IN  /\ At(p, "answered")
        /\ \/ /\ i.signal
              /\ result = "ok" /\ Fine
              /\ Quit(p, "cli_fault")
              /\ UNCHANGED <<record, said>>
           \/ /\ ~i.signal
              /\ RecordClass(i.run, i.step, ClassOf(i.step, i.ans), result)
              /\ GoIfSaved(p, [i EXCEPT !.pc = next], result)
        /\ UNCHANGED <<given, world>>

\* A simulate of a broadcast run left via 202: no token will ever come.
CloseExecute(p, result) ==
    LET r == inv[p].run IN
    /\ At(p, "closing")
    /\ SaveStep(r, "execute", MadeUnreachable(record[r]["execute"]), result)
    /\ GoIfSaved(p, [inv[p] EXCEPT !.pc = "polling"], result)
    /\ UNCHANGED <<given, said, world>>

\* poll.Watch and recordPoll: until the command settles, the wait ends early
\* (the recorded answer, pending, stands), or a signal arrives.
Poll(p, result) ==
    LET i == inv[p]
        state == srv[KeyOf(i.run, i.step)]
    IN  /\ At(p, "polling")
        /\ \/ /\ i.signal
              /\ result = "ok" /\ Fine
              /\ Quit(p, "cli_fault")
              /\ UNCHANGED <<record, said>>
           \/ /\ result = "ok" /\ Befalls("timeout")
              /\ Go(p, [i EXCEPT !.pc = "after"])
              /\ UNCHANGED <<record, said, holder>>
           \/ /\ ~i.signal
              /\ state \in {"done", "refused", "stuck"}
              /\ RecordClass(i.run, i.step, CommandClass(i.step, state), result)
              /\ GoIfSaved(p, [i EXCEPT !.pc = "after"], result)
        /\ UNCHANGED <<given, world>>

\* A one-step run, or the execute of a broadcast one: the recorded class is
\* what is reported.
Settle(p) ==
    LET i == inv[p] IN
    /\ At(p, "after")
    /\ i.step = "execute" \/ given[i.run].shape = {"simulate"}
    /\ Go(p, [i EXCEPT !.pc = "reporting", !.exit = said[i.run][i.step]])
    /\ Fine /\ UNCHANGED <<ledger, world>>

\* broadcast with a fresh token: the plan is stored and the execute follows
\* in the same invocation, whichever command that is.
Broadcast(p, result) ==
    LET i == inv[p]
        r == i.run
        step == record[r]["execute"]
    IN  /\ At(p, "after")
        /\ i.step = "simulate" /\ given[r].shape = StepNames
        /\ said[r]["simulate"] = "done" /\ i.ans = "fresh"
        /\ \/ /\ Terminal(step.state)
              /\ result = "ok" /\ Fine
              /\ Quit(p, "cli_fault")
              /\ UNCHANGED record
           \/ /\ ~Terminal(step.state)
              /\ SaveStep(r, "execute", Planned(step), result)
              /\ GoIfSaved(p, [i EXCEPT !.pc = "consent", !.step = "execute", !.implied = TRUE,
                                        !.ans = "none"], result)
        /\ UNCHANGED <<given, said, world>>

\* broadcast without one: the execute step is closed if it can be, and an
\* error of that save is dropped.
BroadcastWithoutPlan(p, result) ==
    LET i == inv[p]
        r == i.run
        step == record[r]["execute"]
        class == IF said[r]["simulate"] = "done" THEN "refused_resimulate" ELSE said[r]["simulate"]
    IN  /\ At(p, "after")
        /\ i.step = "simulate" /\ given[r].shape = StepNames
        /\ ~(said[r]["simulate"] = "done" /\ i.ans = "fresh")
        /\ IF Terminal(step.state) \/ MayHaveSent(step.state)
           THEN result = "ok" /\ Fine /\ UNCHANGED record
           ELSE SaveStep(r, "execute", MadeUnreachable(step), result)
        /\ Go(p, [i EXCEPT !.pc = "reporting", !.exit = class])
        /\ UNCHANGED <<given, said, holder, world>>

\* The report is written and the invocation ends with its class, whatever
\* the flag and a signal say; a report that cannot be written is a fault.
Report(p) ==
    /\ At(p, "reporting")
    /\ \/ Ended(p, inv[p].exit) /\ Fine
       \/ Quit(p, "cli_fault") /\ Befalls("report")
    /\ UNCHANGED <<record, given, said, world>>

-----------------------------------------------------------------------------
(* What befalls an invocation, and the commands that sweep the ledger.     *)

Crash(p) ==
    /\ ~At(p, "idle")
    /\ Befalls("crash")
    /\ Ended(p, "killed")
    /\ wire' = {IF m.to = p THEN [m EXCEPT !.to = NoProc] ELSE m : m \in wire}
    /\ UNCHANGED <<record, given, said, srv>>

Interrupt(p) ==
    /\ ~At(p, "idle") /\ ~inv[p].signal
    /\ Befalls("signal")
    /\ Go(p, [inv[p] EXCEPT !.signal = TRUE])
    /\ UNCHANGED <<ledger, world>>

\* `runs decline`: Open, Decline, Close, for a run nobody holds.
RunsDecline(r) ==
    /\ record[r] # NoRecord /\ holder[r] = NoProc
    /\ "execute" \in given[r].shape
    /\ record[r]["execute"].state \in {"not_started", "awaiting_confirmation"}
    /\ Befalls("decline")
    /\ record' = [record EXCEPT ![r]["execute"] = Declined(@)]
    /\ UNCHANGED <<given, said, holder, inv, world>>

\* Ledger.Scrub, which `runs list`, `show` and `prune` begin with, past expiry
\* and grace.
RunsScrub(r) ==
    /\ record[r] # NoRecord /\ holder[r] = NoProc
    /\ ScrubRun(record[r], TRUE) # record[r]
    /\ Befalls("expiry")
    /\ record' = [record EXCEPT ![r] = ScrubRun(@, TRUE)]
    /\ UNCHANGED <<given, said, holder, inv, world>>

-----------------------------------------------------------------------------
Work(p) ==
    \/ Route(p) \/ OpenRun(p) \/ OrphanCheck(p) \/ Resume(p)
    \/ AnswerYes(p) \/ MarkSent(p) \/ Attempt(p) \/ Retry(p) \/ Settle(p) \/ Report(p)
    \/ \E result \in SaveResults :
          \/ \E r \in Runs : Mint(p, r, result)
          \/ Consent(p, result) \/ AnswerNo(p, result) \/ Begin(p, result)
          \/ RecordAnswer(p, result) \/ CloseExecute(p, result) \/ Poll(p, result)
          \/ Broadcast(p, result) \/ BroadcastWithoutPlan(p, result)

ServerStep ==
    \/ \E m \in wire : ServerTakes(m) \/ \E ans \in {"busy", "error", "denied"} : ServerTurnsAway(m, ans)
    \/ \E k \in DOMAIN srv : \E outcome \in {"done", "refused", "stuck"} : ServerWorks(k, outcome)

Next ==
    \/ \E p \in Procs :
          \/ \E c \in Commands : \E r \in Runs \cup {NoRun} : Start(p, c, r)
          \/ Work(p) \/ GiveUp(p) \/ Crash(p) \/ Interrupt(p)
    \/ ServerStep
    \/ \E r \in Runs : RunsDecline(r) \/ RunsScrub(r)

Spec == Init /\ [][Next]_vars

\* Every invocation goes on, the server answers and works, and the caller
\* keeps typing the resume commands.
Fairness ==
    /\ \A p \in Procs : WF_vars(Work(p))
    /\ WF_vars(ServerStep)
    /\ \A p \in Procs, c \in Commands, r \in Runs :
          c.verb = "resume" => SF_vars(Start(p, c, r))

FairSpec == Spec /\ Fairness

-----------------------------------------------------------------------------
(* Properties.                                                             *)

\* The server has taken, or has made, the transfer of run r.
Transferred(r) == "execute" \in given[r].shape /\ srv[KeyOf(r, "execute")] \in {"working", "done"}

\* Exit 1 and exit 2 say that nothing was sent: an invocation that ends with
\* one put no request on the wire, whatever signal, failed save or broken
\* report ended it (C17).
NothingSentIsTrue ==
    \A p \in Procs :
        At(p, "idle") /\ inv[p].exit \in {"cli_fault", "usage"} => inv[p].left = {}

\* An invocation that reports a transfer as accepted is right about the
\* server, and its run says so on disk (C9, and the table's 202 row).
SuccessIsTrue ==
    \A p \in Procs :
        At(p, "idle") /\ inv[p].exit = "accepted_upstream" =>
            LET r == inv[p].run IN
            /\ srv[KeyOf(r, "execute")] = "done"
            /\ record[r]["execute"].state = "terminal"
            /\ said[r]["execute"] = "accepted_upstream"

\* A record that settled an execute as "no money moved" is never wrong, even
\* when earlier sends of the step were lost, queued or answered late (C3).
\* It holds while the server looks the key up before it refuses; see
\* UnknownIsNotDenied for the refusals that come first.
SettledNoIsTrue ==
    \A r \in Runs :
        (record[r] # NoRecord /\ record[r]["execute"].state = "terminal"
         /\ said[r]["execute"] \in MoneyNo) => ~Transferred(r)

\* An execute that a resume found in the record is sent only if this command
\* line said --yes or this terminal answered y: neither the stored plan, nor
\* the stored state, nor the consent of an earlier invocation is enough (C16).
StoredStateIsNotConsent ==
    [][\A p \in Procs :
         ("execute" \notin inv[p].left /\ "execute" \in inv'[p].left
          /\ inv[p].cmd.verb = "resume" /\ "simulate" \notin inv[p].left) =>
             inv[p].cmd.yes \/ inv[p].agreed]_vars

\* A caller who runs one invocation at a time, and passes neither --broadcast
\* nor --allow-pending, sends no execute while another run has moved money that
\* the ledger does not state as moved: after any crash, lost answer or failed
\* save, the next money command is refused first (C18, AC81). With --broadcast
\* it may: a run whose plan is stored and whose execute has not begun is no
\* orphan, and its resume makes no orphan check (resume.go Resume).
NoSecondTransferInTheDark ==
    [][\A p \in Procs : \A s \in inv'[p].left \ inv[p].left :
         s = "execute" /\ ~inv[p].cmd.allow =>
         \A r \in Runs \ {inv[p].run} :
             Transferred(r) => said[r]["execute"] = "accepted_upstream"]_vars

\* A caller who keeps typing `runs resume --yes` settles every open run, once
\* trouble stops: no sequence of faults leaves a step that no resume can end.
ResumeSettles ==
    \A r \in Runs : Open(r) ~> ~Open(r)

\* A caller who names the key, one command at a time, never owns two runs
\* under it, whatever losses, failed saves and crashes end the commands: the
\* second command finds the run of the first (AC14, AC54, AC94).
OneRunPerKey ==
    \A q, r \in Runs :
        (record[q] # NoRecord /\ record[r] # NoRecord /\ given[q].key = given[r].key)
            => q = r \/ given[q].key = NoKey

\* C3 as the plan states it: what the ledger says of a step is "no money
\* moved" only while the server has not taken the transfer.
UnknownIsNotDenied ==
    \A r \in Runs : said[r]["execute"] \in MoneyNo => ~Transferred(r)

\* C16 as the plan states it: an execute leaves only if this command line
\* carries consent or this terminal answered y.
ConsentIsOnThisCommandLine ==
    [][\A p \in Procs :
         ("execute" \notin inv[p].left /\ "execute" \in inv'[p].left) =>
             LET c == inv[p].cmd IN
             \/ c.yes \/ inv[p].agreed
             \/ ~c.tty /\ (c.broadcast \/ c.verb = "execute")]_vars
=============================================================================
