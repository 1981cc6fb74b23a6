----------------------------- MODULE Invocation -----------------------------
(***************************************************************************)
(* One process of `ferry`, from its command line to its exit code: the     *)
(* wrapper of internal/cli around a command, the goroutine that listens    *)
(* for signals, the prompt of internal/consent, and of the command itself  *)
(* what the wrapper judges: when a money request is recorded, marked, put  *)
(* on the wire, answered and reported.                                     *)
(*                                                                         *)
(* MoneyPath takes these as single steps to follow many invocations; here  *)
(* there is one, and every thread of it moves by itself.  A ledger write   *)
(* either succeeds or fails, a request is one attempt (ApiClient has the   *)
(* resends), and the wait for a command is one step.                       *)
(***************************************************************************)
EXTENDS OutcomeTable, Sequences, FiniteSets

CONSTANTS
    Verbs,      \* the commands to start, a subset of DOMAIN RequestsOf
    MaxSignals  \* bound on the signals one process is sent

\* The requests of a verb, in order.  "execute" is `transfers execute`,
\* "broadcast" `transfers create --broadcast`, "mint" `keys create`, "login"
\* `auth login`; "read" stands for every verb that sends one GET.
RequestsOf == [execute   |-> <<"transfers_execute">>,
               broadcast |-> <<"transfers_simulate", "transfers_execute">>,
               mint      |-> <<"create_api_key">>,
               login     |-> <<"get_me">>,
               read      |-> <<"list_corridors">>]

ASSUME InvocationAssumption == Verbs \subseteq DOMAIN RequestsOf /\ MaxSignals \in Nat

VARIABLES
    line,      \* the command line: verb, JSON output, a prompt to answer, input on stdin
    pc,        \* where the main goroutine is
    op,        \* the request it is at
    ans,       \* how the last request ended for it
    class,     \* the class of its answer
    err,       \* what the command returns: "none", "interrupted" or a class
    panicked,  \* the command panicked
    sent,      \* flight.Flag: a money request may have left
    record,    \* record[o]: what the ledger says of request o
    code,      \* the exit code; Running before there is one
    handler,   \* what a signal does: "default" kills, "caught" goes to the slot
    slot,      \* a signal is in the one-place channel
    listener,  \* where the listening goroutine is
    seen,      \* wrapper.seen
    own,       \* wrapper.own is closed
    cancelled, \* the context is cancelled
    key,       \* what the prompt's reader has delivered
    wire,      \* the request under way, or the answer that came back
    stdout,    \* the exit codes of whole documents on it, whether it has bytes, whether it failed
    left,      \* history: the requests that reached the network
    passed,    \* history: the money requests past their last look at own
    heard,     \* history: those that were not when own was closed
    signals    \* how many signals were sent

cli == <<line, code>>
body == <<op, ans, class, record>>
result == <<err, panicked>>
signalling == <<handler, slot, listener, seen, own, cancelled, heard, signals>>
net == <<wire, left>>
vars == <<cli, pc, body, result, sent, signalling, key, net, stdout, passed>>

Money == {"execute", "broadcast"}
Ops == UNION {{RequestsOf[v][i] : i \in DOMAIN RequestsOf[v]} : v \in DOMAIN RequestsOf}
Lines == [verb : Verbs, json : BOOLEAN, ask : BOOLEAN, reads : BOOLEAN]
MineOps == {RequestsOf[line.verb][i] : i \in DOMAIN RequestsOf[line.verb]}
IsMoney == line.verb \in Money

Body == {"stdin", "prepare", "gate", "await", "look", "prompt", "decline", "check", "begin", "mark",
         "send", "sent", "answered", "follow", "after", "report"}
PCs == {"parse", "finish", "stop", "exit", "ended"} \cup Body
Running == -1
Killed == -2

\* An answer: read ("ok", "refused", "accepted", "error"), lost on the way
\* back, never sent, or cut off by the context.
Replies == {"ok", "refused", "accepted", "error", "lost"}
Answers == Replies \cup {"none", "unsent", "cut"}
Input(a) == [transport |-> IF a \in {"lost", "cut"} THEN "after_write" ELSE IF a = "unsent" THEN "dial" ELSE "none",
             status |-> IF a = "ok" THEN 201 ELSE IF a = "accepted" THEN 202 ELSE IF a = "refused" THEN 422 ELSE 500,
             code |-> IF a = "refused" THEN "VALIDATION_FAILED" ELSE "INTERNAL_ERROR",
             reason |-> "", cmd |-> a = "accepted", parsed |-> a \in {"ok", "accepted"}, txn |-> "pending"]

Blank == [docs |-> <<>>, bytes |-> FALSE, failed |-> FALSE]
Documents == [docs : {<<>>} \cup {<<exit>> : exit \in 0 .. 8}, bytes : BOOLEAN, failed : BOOLEAN]

TypeOK ==
    /\ line \in Lines /\ pc \in PCs /\ op \in Ops /\ ans \in Answers
    /\ class \in Classes \cup {"none"} /\ err \in Classes \cup {"none", "interrupted"}
    /\ panicked \in BOOLEAN /\ sent \in BOOLEAN
    /\ record \in [Ops -> Answers \cup {"followed", "awaiting", "pending", "declined", "unreachable"}]
    /\ code \in {Running, Killed} \cup 0 .. 8
    /\ handler \in {"default", "caught"} /\ slot \in BOOLEAN
    /\ listener \in {"off", "waiting", "took", "saw", "told", "gone"}
    /\ seen \in BOOLEAN /\ own \in BOOLEAN /\ cancelled \in BOOLEAN
    /\ key \in {"none", "yes", "no", "broken"} /\ wire \in {"idle", "out"} \cup Replies
    /\ stdout \in Documents
    /\ left \subseteq Ops /\ passed \subseteq Ops /\ heard \subseteq Ops
    /\ signals \in 0 .. MaxSignals

Init ==
    /\ line \in Lines
    /\ pc = "parse" /\ op = RequestsOf[line.verb][1] /\ ans = "none" /\ class = "none"
    /\ err = "none" /\ panicked = FALSE /\ sent = FALSE
    /\ record = [o \in Ops |-> "none"] /\ code = Running
    /\ handler = "default" /\ slot = FALSE /\ listener = "off"
    /\ seen = FALSE /\ own = FALSE /\ cancelled = FALSE
    /\ key = "none" /\ wire = "idle" /\ stdout = Blank
    /\ left = {} /\ passed = {} /\ heard = {} /\ signals = 0

-----------------------------------------------------------------------------
(* Endings.                                                                *)

Goto(l) == pc' = l /\ UNCHANGED result
Fail(e) == pc' = "finish" /\ err' = e /\ UNCHANGED panicked

\* render.WriteDocument: one document, or an error with some of its bytes
\* written or none.
WriteDocument(exit) ==
    \/ stdout' = [stdout EXCEPT !.docs = Append(@, exit), !.bytes = TRUE]
    \/ stdout' = [stdout EXCEPT !.bytes = TRUE, !.failed = TRUE]
    \/ stdout' = [stdout EXCEPT !.failed = TRUE]

\* wrapper.usage and cobra around it: no handler, no finish.
BadUsage ==
    /\ pc = "parse" /\ pc' = "exit" /\ code' = Properties["usage"].exit
    /\ IF line.json THEN WriteDocument(Properties["usage"].exit) ELSE UNCHANGED stdout
    /\ UNCHANGED <<line, body, result, sent, signalling, key, net, passed>>

\* wrapper.run up to the call of the command: listen.
Start ==
    /\ pc = "parse" /\ Goto(IF line.reads THEN "stdin" ELSE "prepare")
    /\ handler' = "caught" /\ listener' = "waiting"
    /\ UNCHANGED <<cli, body, sent, slot, seen, own, cancelled, heard, signals, key, net, stdout, passed>>

\* A panic anywhere in the command, recovered by the wrapper.
Panic ==
    /\ pc \in Body /\ pc' = "finish" /\ panicked' = TRUE
    /\ UNCHANGED <<cli, body, err, sent, signalling, key, net, stdout, passed>>

Pending(ifSent) == IF ifSent THEN "pending" ELSE "cli_fault"

\* Variant: a class the command chose is never taken back.
ClassifyKnownAsIs ==
    IF panicked \/ seen \/ err = "interrupted" THEN Pending(sent) ELSE err

\* wrapper.classify
ClassifyEnd ==
    IF panicked \/ seen \/ err = "interrupted" \/ err = "cli_fault" THEN Pending(sent) ELSE err

\* main for an error without an exit code
ExitOf(e) == IF e = "interrupted" THEN 1 ELSE Properties[e].exit

\* Variant: an error is always classified.
FinishReclassified ==
    /\ pc = "finish" /\ Goto("stop")
    /\ IF ~panicked /\ err = "none" THEN code' = 0 /\ UNCHANGED stdout
       ELSE LET exit == Properties[ClassifyEnd].exit IN
            code' = exit /\ IF line.json /\ ~stdout.bytes THEN WriteDocument(exit) ELSE UNCHANGED stdout
    /\ UNCHANGED <<line, body, sent, signalling, key, net, passed>>

\* wrapper.finish: a success stands; an error the command has reported keeps
\* its code; any other end is classified and, in JSON, reported here.
Finish ==
    /\ pc = "finish" /\ Goto("stop")
    /\ \/ /\ ~panicked /\ err = "none"
          /\ code' = 0 /\ UNCHANGED stdout
       \/ /\ ~panicked /\ err # "none" /\ stdout.bytes
          /\ code' = ExitOf(err) /\ UNCHANGED stdout
       \/ /\ panicked \/ (err # "none" /\ ~stdout.bytes)
          /\ code' = Properties[ClassifyEnd].exit
          /\ IF line.json /\ ~stdout.bytes THEN WriteDocument(Properties[ClassifyEnd].exit)
             ELSE UNCHANGED stdout
    /\ UNCHANGED <<line, body, sent, signalling, key, net, passed>>

\* The deferred stop, signal.Stop and close(done); from here on a signal
\* kills.  The listener may have been about to take one.
Stop ==
    /\ pc = "stop" /\ Goto("exit")
    /\ handler' = "default"
    /\ listener' \in IF listener # "waiting" THEN {listener} ELSE IF slot THEN {"gone", "waiting"} ELSE {"gone"}
    /\ UNCHANGED <<cli, body, sent, slot, seen, own, cancelled, heard, signals, key, net, stdout, passed>>

\* The deferred cancel, and os.Exit in main.
Exit ==
    /\ pc = "exit" /\ Goto("ended") /\ cancelled' = TRUE
    /\ UNCHANGED <<cli, body, sent, handler, slot, listener, seen, own, heard, signals, key, net, stdout, passed>>

-----------------------------------------------------------------------------
(* The command up to its first request.                                    *)

\* ReadAllStdin, planToken and ReadSecret: nothing but the input ends them.
Typed ==
    /\ pc = "stdin" /\ (Goto("prepare") \/ Fail("cli_fault"))
    /\ UNCHANGED <<cli, body, sent, signalling, key, net, stdout, passed>>

\* Flags, credentials, the key lookup, the orphan check and the minting of
\* the run (its id is noted): they end the command or lead to a request.
Prepare ==
    /\ pc = "prepare"
    /\ \/ Goto(IF IsMoney THEN "gate" ELSE "send")
       \/ \E e \in {"usage", "refused_fix", "cli_fault"} : Fail(e)
    /\ UNCHANGED <<cli, body, sent, signalling, key, net, stdout, passed>>

\* obtainConsent and consent.Ask: with --yes, or without a terminal, the
\* command line has answered.
Gate ==
    /\ pc = "gate" /\ Goto(IF op = "transfers_execute" /\ line.ask THEN "await" ELSE "check")
    /\ UNCHANGED <<cli, body, sent, signalling, key, net, stdout, passed>>

\* BeforePrompt saves the record before the question is written.
AwaitConfirmation ==
    /\ pc = "await"
    /\ \/ Goto("look") /\ record' = [record EXCEPT ![op] = "awaiting"]
       \/ Fail("cli_fault") /\ record' \in {record, [record EXCEPT ![op] = "awaiting"]}
    /\ UNCHANGED <<cli, op, ans, class, sent, signalling, key, net, stdout, passed>>

\* consent.read's first select: a signal wins over an answer that is there.
Look ==
    /\ pc = "look" /\ Goto(IF own THEN "decline" ELSE "prompt")
    /\ UNCHANGED <<cli, body, sent, signalling, key, net, stdout, passed>>

\* Variant: the prompt waits for its reader alone.
PromptUnwatched ==
    /\ pc = "prompt" /\ key # "none"
    /\ \/ key = "yes" /\ Goto("check")
       \/ key = "no" /\ Goto("decline")
       \/ key = "broken" /\ Fail("cli_fault")
    /\ UNCHANGED <<cli, body, sent, signalling, key, net, stdout, passed>>

\* ... and its second, which takes either when both are there.
Prompt ==
    /\ pc = "prompt"
    /\ \/ (own \/ key = "no") /\ Goto("decline")
       \/ key = "yes" /\ Goto("check")
       \/ key = "broken" /\ Fail("cli_fault")
    /\ UNCHANGED <<cli, body, sent, signalling, key, net, stdout, passed>>

\* handle.Decline, and the refusal it is reported as.
Decline ==
    /\ pc = "decline"
    /\ \/ Fail("refused_fix") /\ record' = [record EXCEPT ![op] = "declined"]
       \/ Fail("cli_fault") /\ record' \in {record, [record EXCEPT ![op] = "declined"]}
    /\ UNCHANGED <<cli, op, ans, class, sent, signalling, key, net, stdout, passed>>

-----------------------------------------------------------------------------
(* One request: runner.perform for money, Session.Do for the others.       *)

\* Variant: nobody looks for a signal before the request is recorded.
CheckNothing ==
    /\ pc = "check" /\ Goto("begin") /\ passed' = passed \cup {op}
    /\ UNCHANGED <<cli, body, sent, signalling, key, net, stdout>>

Check ==
    /\ pc = "check"
    /\ IF own THEN Fail("interrupted") /\ UNCHANGED passed
       ELSE Goto("begin") /\ passed' = passed \cup {op}
    /\ UNCHANGED <<cli, body, sent, signalling, key, net, stdout>>

\* handle.Begin, the write-ahead record.
Begin ==
    /\ pc = "begin"
    /\ \/ Goto("mark") /\ record' = [record EXCEPT ![op] = "pending"]
       \/ Fail("cli_fault") /\ record' \in {record, [record EXCEPT ![op] = "pending"]}
    /\ UNCHANGED <<cli, op, ans, class, sent, signalling, key, net, stdout, passed>>

\* Flight.MarkSent
Mark ==
    /\ pc = "mark" /\ Goto("send") /\ sent' = TRUE
    /\ UNCHANGED <<cli, body, signalling, key, net, stdout, passed>>

\* client.Do: a cancelled context, or a dial that fails, sends nothing.
Send ==
    /\ pc = "send"
    /\ \/ /\ ~cancelled /\ Goto("sent")
          /\ wire' = "out" /\ left' = left \cup {op} /\ UNCHANGED ans
       \/ Goto("answered") /\ ans' = "unsent" /\ UNCHANGED net
    /\ UNCHANGED <<cli, op, class, record, sent, signalling, key, stdout, passed>>

\* The server's answer, or the end of the connection: not the program's.
Return ==
    /\ pc = "sent" /\ wire \in Replies /\ Goto("answered")
    /\ ans' = wire /\ wire' = "idle"
    /\ UNCHANGED <<cli, op, class, record, left, sent, signalling, key, stdout, passed>>

\* The context ends the request, answered or not.
Cut ==
    /\ pc = "sent" /\ cancelled /\ Goto("answered")
    /\ ans' = "cut" /\ wire' = "idle"
    /\ UNCHANGED <<cli, op, class, record, left, sent, signalling, key, stdout, passed>>

\* Variant: the answer is used whether or not it was written down.
AnsweredUnrecorded ==
    /\ pc = "answered" /\ class' = Classify(op, Input(ans))
    /\ \/ IsMoney /\ own /\ Fail("interrupted") /\ UNCHANGED record
       \/ /\ IsMoney /\ ~own /\ Goto(IF ans = "accepted" THEN "follow" ELSE "after")
          /\ record' \in {record, [record EXCEPT ![op] = ans]}
       \/ ~IsMoney /\ Goto("report") /\ UNCHANGED record
    /\ UNCHANGED <<cli, op, ans, sent, signalling, key, net, stdout, passed>>

\* A signal ends a money command before the answer is recorded; then the
\* answer is classified and recorded (a 202 to the simulate of a broadcast
\* also closes the execute).  login stores the token and mint the key: those
\* writes may fail too.
Answered ==
    /\ pc = "answered"
    /\ \/ IsMoney /\ own /\ Fail("interrupted") /\ UNCHANGED <<class, record>>
       \/ /\ IsMoney /\ ~own /\ class' = Classify(op, Input(ans))
          /\ LET recorded == [record EXCEPT ![op] = ans]
                 closed   == IF line.verb = "broadcast" /\ op = "transfers_simulate" /\ ans = "accepted"
                             THEN [recorded EXCEPT !["transfers_execute"] = "unreachable"] ELSE recorded
             IN  \/ Goto(IF ans = "accepted" THEN "follow" ELSE "after") /\ record' = closed
                 \/ Fail("cli_fault") /\ record' \in {record, recorded, closed}
       \/ /\ ~IsMoney /\ class' = Classify(op, Input(ans)) /\ UNCHANGED record
          /\ \/ Goto("report")
             \/ line.verb \in {"login", "mint"} /\ ans = "ok" /\ Fail("cli_fault")
    /\ UNCHANGED <<cli, op, ans, sent, signalling, key, net, stdout, passed>>

\* What poll.Watch can stop at, as followUp reads it.
FollowedClasses == IF op = "transfers_execute" THEN {"accepted_upstream", "upstream_failed", "pending", "escalate"}
                   ELSE {"refused_resimulate", "pending", "escalate"}

\* Watch ends with the command's state, which is recorded, or with none: it
\* could not be read, the time was up, or --no-wait did not start it.
Follow ==
    /\ pc = "follow" /\ ~own /\ class' \in FollowedClasses
    /\ LET followed == [record EXCEPT ![op] = "followed"] IN
       \/ Goto("after") /\ record' = followed
       \/ Goto("after") /\ class' = "pending" /\ UNCHANGED record
       \/ Fail("cli_fault") /\ record' \in {record, followed}
    /\ UNCHANGED <<cli, op, ans, sent, signalling, key, net, stdout, passed>>

\* Watch looks for a signal before and after every wait and read.
FollowInterrupted ==
    /\ pc = "follow" /\ own /\ Fail("interrupted")
    /\ UNCHANGED <<cli, body, sent, signalling, key, net, stdout, passed>>

\* runCreate and runner.broadcast: a fresh token leads to the execute, any
\* other end of the simulate closes it, as far as that can be written.
After ==
    /\ pc = "after"
    /\ IF line.verb # "broadcast" \/ op = "transfers_execute" THEN Goto("report") /\ UNCHANGED <<op, class, record>>
       ELSE \/ /\ Properties[class].exit = 0
               /\ \/ Goto("gate") /\ op' = "transfers_execute"
                  \/ Fail("cli_fault") /\ UNCHANGED op
               /\ UNCHANGED <<class, record>>
            \/ /\ Goto("report") /\ UNCHANGED op
               /\ class' = IF Properties[class].exit = 0 THEN "refused_resimulate" ELSE class
               /\ record' \in {record, [record EXCEPT !["transfers_execute"] = "unreachable"]}
    /\ UNCHANGED <<cli, ans, sent, signalling, key, net, stdout, passed>>

\* runner.report and Local.report.  A document that cannot be written is the
\* command's error; in text a write error is not noticed, and only money
\* commands print anything about a failure.
Report ==
    /\ pc = "report" /\ pc' = "finish" /\ UNCHANGED panicked
    /\ LET exit == Properties[class].exit
           said == IF exit = 0 THEN "none" ELSE class
       IN  IF line.json THEN WriteDocument(exit) /\ err' = IF stdout'.failed THEN "cli_fault" ELSE said
           ELSE /\ err' = said
                /\ IF IsMoney \/ exit = 0
                   THEN \E wrote \in BOOLEAN : stdout' = [stdout EXCEPT !.bytes = @ \/ wrote, !.failed = ~wrote]
                   ELSE UNCHANGED stdout
    /\ UNCHANGED <<cli, body, sent, signalling, key, net, passed>>

-----------------------------------------------------------------------------
(* Signals, and the goroutine that listens for one.                        *)

\* Without a handler a signal ends the process where it stands; with one it
\* takes the slot, or is dropped when the slot is taken.
Signal ==
    /\ pc # "ended" /\ signals < MaxSignals /\ signals' = signals + 1
    /\ \/ handler = "caught" /\ slot' = TRUE /\ UNCHANGED <<pc, code>>
       \/ handler = "default" /\ pc' = "ended" /\ code' = Killed /\ UNCHANGED slot
    /\ UNCHANGED <<line, body, result, sent, handler, listener, seen, own, cancelled, heard, key, net, stdout, passed>>

Listening == pc # "ended"
ListenOnly == UNCHANGED <<cli, pc, body, result, sent, handler, signals, key, net, stdout, passed>>

Take ==
    /\ Listening /\ listener = "waiting" /\ slot
    /\ slot' = FALSE /\ listener' = "took"
    /\ UNCHANGED <<seen, own, cancelled, heard>> /\ ListenOnly

See ==
    /\ Listening /\ listener = "took"
    /\ seen' = TRUE /\ listener' = "saw"
    /\ UNCHANGED <<slot, own, cancelled, heard>> /\ ListenOnly

CloseOwn == own' = TRUE /\ heard' = MineOps \ passed /\ UNCHANGED cancelled
Cancel == cancelled' = TRUE /\ UNCHANGED <<own, heard>>

\* Variant: the context first.
PublishCancelFirst ==
    /\ Listening
    /\ \/ listener = "saw" /\ listener' = "told" /\ Cancel
       \/ listener = "told" /\ listener' = "gone" /\ CloseOwn
    /\ UNCHANGED <<slot, seen>> /\ ListenOnly

\* close(w.own), then cancel(): a prompt released by the close has an answer
\* to give, a request killed by the cancel has none.
Publish ==
    /\ Listening
    /\ \/ listener = "saw" /\ listener' = "told" /\ CloseOwn
       \/ listener = "told" /\ listener' = "gone" /\ Cancel
    /\ UNCHANGED <<slot, seen>> /\ ListenOnly

-----------------------------------------------------------------------------
(* The human at the prompt, whose line its reader delivers, and the server *)
(* and network.                                                            *)

\* A line may be typed before the question is asked.
Answer ==
    /\ pc \notin {"parse", "ended"} /\ line.ask /\ key = "none" /\ key' \in {"yes", "no", "broken"}
    /\ UNCHANGED <<cli, pc, body, result, sent, signalling, net, stdout, passed>>

Serve ==
    /\ wire = "out" /\ wire' \in Replies /\ (wire' = "accepted" => IsMoney)
    /\ UNCHANGED <<cli, pc, body, result, sent, signalling, key, left, stdout, passed>>

-----------------------------------------------------------------------------

\* What main does without waiting for the human, the server or the input.
Main == \/ BadUsage \/ Start \/ Finish \/ Stop \/ Exit
        \/ Prepare \/ Gate \/ AwaitConfirmation \/ Look \/ Prompt \/ Decline
        \/ Check \/ Begin \/ Mark \/ Send \/ Cut \/ Answered \/ FollowInterrupted \/ After \/ Report

Listener == Take \/ See \/ Publish

World == Typed \/ Return \/ Follow \/ Panic \/ Signal \/ Answer \/ Serve

\* An ended process stays as it is.
Ended == pc = "ended" /\ UNCHANGED vars

Next == Main \/ Listener \/ World \/ Ended

\* Goroutines that can run do; nobody else has to.
Spec == Init /\ [][Next]_vars /\ WF_vars(Main) /\ WF_vars(Listener)

-----------------------------------------------------------------------------
(* Properties.                                                             *)

\* A money command that exits 1 put nothing on the wire, whatever panicked,
\* failed or was interrupted, and however a signal raced it (C17).  The one
\* exception is a document of which stdout took only a part: finish then
\* takes the command to have answered for itself.
ExitOneMeansNothingSent ==
    (IsMoney /\ code = Properties["cli_fault"].exit /\ ~(stdout.failed /\ stdout.bytes)) => left = {}

\* Exit 0 of a money command is an answer that is on record, for every one
\* of its requests.
SuccessIsRecorded ==
    (IsMoney /\ code = 0) => \A o \in MineOps : record[o] \in {"ok", "followed"}

\* A money request that had not passed its last look at the interrupt when
\* the interrupt was published never leaves, and the ledger does not say
\* that it may have (the order of money.go:462-473).
HeardInTimeSendsNothing ==
    \A o \in heard : IsMoney => o \notin left /\ record[o] # "pending"

\* A request this process cut off is not recorded as answered by FERRY.
CutRequestIsNotRecorded == \A o \in Ops : record[o] # "cut"

\* In JSON, a process that was not killed has written one document whose
\* exit code is its own, unless stdout refused it (AC41).
OneDocument ==
    (line.json /\ pc = "exit") =>
        \/ stdout.docs = <<code>>
        \/ stdout.docs = <<>> /\ stdout.failed

\* Once the interrupt is published a command that does not read its input
\* ends, without help from the server or from whoever sits at the prompt.
SignalEnds == (own /\ ~line.reads) ~> (pc = "ended")
=============================================================================
