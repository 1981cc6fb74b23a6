----------------------------- MODULE RunsVerbs -----------------------------
(***************************************************************************)
(* `ferry runs list`, `show`, `decline` and `prune` (internal/noun/runs)   *)
(* over the sweeps of internal/runs/sweep.go, beside one money command and *)
(* beside each other.                                                      *)
(*                                                                         *)
(* RunLedger has every process make one sweep step on one run.  Here a     *)
(* process is one command line from its arguments to its exit code: it     *)
(* walks the directory several times, each walk over the names ReadDir     *)
(* gave it, and answers from what it met.  RunLedgerProofs shows that a    *)
(* record has one owner whatever becomes of its sidecar, so a lock is here *)
(* taken on the run, and a durable write is one step with the three        *)
(* results it has there.                                                   *)
(*                                                                         *)
(* A duration is counted in units, a day is DayLength of them, and the     *)
(* width of time.Duration is kept: a product outside it wraps.             *)
(***************************************************************************)
EXTENDS StepRecord, Integers, FiniteSets, FiniteSetsExt

CONSTANTS
    Procs,        \* processes running one of the verbs
    Money,        \* the process running a money command
    NoProc,       \* nobody holds the run
    Runs,         \* run ids, as numbers: ids sort in the order of minting
    Found,        \* what earlier commands may have left: a record or NoRecord for each run
    NoRecord,     \* no <run>.json
    Unreadable,   \* a record of a newer schema
    NoRun,        \* the money command works on no run
    Lines,        \* Lines[p]: the command lines a process may be given
    DayLength,    \* the units of a day
    Longest,      \* the longest duration its type can hold
    PlanLife,     \* how long past now a new plan's token is kept
    Shapes,       \* the steps a new run may have
    MaxAttempts,  \* bound on the requests of a step
    MaxClock      \* bound on the clock

\* A record: the steps its command needed, when it was minted, and until
\* when a plan token in it is kept (its expiry plus ScrubGrace).
IsRecord(rec) ==
    \E steps \in SUBSET StepNames : rec \in [steps : [steps -> Step], created : Int, keep : Int]

IsContent(rec) == rec \in {NoRecord, Unreadable} \/ IsRecord(rec)

Age == [n : Int, unit : {"d", "w", "go"}]

Commands == [verb : {"list"}, pending : BOOLEAN]
            \cup [verb : {"show", "decline"}, run : Runs]
            \cup [verb : {"prune"}, age : Age]

ASSUME RunsVerbsAssumption ==
    /\ NoProc \notin Procs \cup {Money} /\ Money \notin Procs
    /\ Runs \subseteq Nat
    /\ NoRun \notin Runs
    /\ NoRecord # Unreadable /\ ~IsRecord(NoRecord) /\ ~IsRecord(Unreadable)
    /\ \A found \in Found : DOMAIN found = Runs /\ \A r \in Runs : IsContent(found[r])
    /\ \A p \in Procs : Lines[p] \subseteq Commands
    /\ "bytes" \in Bodies /\ "none" \notin StepNames
    /\ Shapes \subseteq SUBSET StepNames
    /\ {DayLength, Longest, PlanLife, MaxAttempts, MaxClock} \subseteq Nat

VARIABLES
    now,     \* the local clock
    record,  \* record[r]: the content of <r>.json
    minted,  \* the ids handed out
    lock,    \* lock[r]: the process holding the flock on <r>.lock
    sent,    \* the runs whose execute may have left
    mem,     \* the money command's copy of its record
    mine,    \* the run it holds
    begun,   \* the step it may send
    line,    \* line[p]: the command line of a process
    pc,      \* where it is
    todo,    \* the names of its walk that it has not come to
    limit,   \* the clock as its walk uses it: now for the scrub, the cutoff for prune
    said,    \* the runs its answer names
    exit,    \* its exit code
    failed,  \* history: the processes to whom a write or an unlink failed
    still    \* history: the runs unresolved ever since the process began

money == <<sent, mem, mine, begun>>
verb == <<pc, todo, limit, said, exit>>
vars == <<now, record, minted, lock, money, line, verb, failed, still>>

EmptyLine == [verb |-> "none"]

-----------------------------------------------------------------------------
(* What the sweeps and the verbs ask of a record.                          *)

UnresolvedIn(rec) == \E s \in DOMAIN rec.steps : Unresolved(rec.steps[s])

\* A run that cannot be read may be one that sent.
MayBeUnresolved(rec) == rec # NoRecord /\ (rec = Unreadable \/ UnresolvedIn(rec))

\* Run.Prunable: every step settled, and none with a token.
PrunableRun(rec) ==
    \A s \in DOMAIN rec.steps : Terminal(rec.steps[s].state) /\ ~HasPlanToken(rec.steps[s])

\* scrubRun, by the clock `at`.
Scrubbed(rec, at) ==
    [rec EXCEPT !.steps = [s \in DOMAIN rec.steps |->
        IF Terminal(rec.steps[s].state) \/ rec.keep < at THEN Scrub(rec.steps[s])
                                                        ELSE rec.steps[s]]]

\* What a sweep may do under the lock, having loaded the record.
Readable(r) == record[r] \notin {NoRecord, Unreadable}

\* ReadDir, as Ledger.ids filters it.
Ids == {r \in Runs : record[r] # NoRecord}

-----------------------------------------------------------------------------
(* --older-than.                                                           *)

Wrap(d) == ((d + Longest + 1) % (2 * (Longest + 1))) - (Longest + 1)

Units(unit) == CASE unit = "d" -> DayLength [] unit = "w" -> 7 * DayLength [] OTHER -> 1

\* The age the caller wrote.
Asked(age) == age.n * Units(age.unit)

Fits(d) == d \in (-Longest - 1)..Longest

\* parseAge: a count of days or weeks is multiplied in int64, any other
\* spelling is time.ParseDuration, which refuses what does not fit.
BadAge(age) == age.n < 0 \/ (age.unit = "go" /\ ~Fits(Asked(age)))

ParsedAge(age) == Wrap(Asked(age))

-----------------------------------------------------------------------------
PCs == {"idle", "scrub", "scrubbing", "list", "load", "prune", "pruning",
        "opening", "locking", "declining", "done"}

\* The exit codes the verbs answer with (Usage, Fault, pending, done).
SaveResults == {"ok", "early", "late"}
Exits == {0, 1, 2, 6}
NoExit == -1

TypeOK ==
    /\ now \in 0..MaxClock
    /\ DOMAIN record = Runs /\ \A r \in Runs : IsContent(record[r])
    /\ lock \in [Runs -> Procs \cup {Money, NoProc}]
    /\ sent \in SUBSET Runs
    /\ mem = NoRecord \/ IsRecord(mem)
    /\ mine \in Runs \cup {NoRun}
    /\ begun \in StepNames \cup {"none"}
    /\ line \in [Procs -> Commands \cup {EmptyLine}]
    /\ pc \in [Procs -> PCs]
    /\ todo \in [Procs -> SUBSET Runs]
    /\ limit \in [Procs -> Int]
    /\ said \in [Procs -> SUBSET Runs]
    /\ exit \in [Procs -> Exits \cup {NoExit}]
    /\ minted \in SUBSET Runs
    /\ failed \in SUBSET Procs
    /\ still \in [Procs -> SUBSET Runs]

\* The ledger as earlier commands left it.
Init ==
    /\ now = 0
    /\ record \in Found
    /\ minted = Ids
    /\ lock = [r \in Runs |-> NoProc]
    /\ sent = {r \in Runs : Readable(r) /\ "execute" \in DOMAIN record[r].steps
                                        /\ MayHaveSent(record[r].steps["execute"].state)}
    /\ mem = NoRecord /\ mine = NoRun /\ begun = "none"
    /\ line = [p \in Procs |-> EmptyLine]
    /\ pc = [p \in Procs |-> "idle"]
    /\ todo = [p \in Procs |-> {}]
    /\ limit = [p \in Procs |-> 0]
    /\ said = [p \in Procs |-> {}]
    /\ exit = [p \in Procs |-> NoExit]
    /\ failed = {}
    /\ still = [p \in Procs |-> {}]

Goto(p, at) == pc' = [pc EXCEPT ![p] = at]

\* The verb ends: it closes what it holds and answers.
Answer(p, code, named) ==
    /\ Goto(p, "done")
    /\ exit' = [exit EXCEPT ![p] = code]
    /\ said' = [said EXCEPT ![p] = named]
    /\ todo' = [todo EXCEPT ![p] = {}]
    /\ lock' = [r \in Runs |-> IF lock[r] = p THEN NoProc ELSE lock[r]]
    /\ limit' = [limit EXCEPT ![p] = 0]

Fault(p) == Answer(p, 1, {})
Usage(p) == Answer(p, 2, {})

\* A walk over the directory begins, by the clock `at`.
Walk(p, to, at) ==
    /\ Goto(p, to)
    /\ todo' = [todo EXCEPT ![p] = Ids]
    /\ limit' = [limit EXCEPT ![p] = at]
    /\ said' = [said EXCEPT ![p] = {}]
    /\ UNCHANGED <<lock, exit>>

\* The walk comes to the oldest run that is left.
Now(p) == Min(todo[p])
Past(p) == todo' = [todo EXCEPT ![p] = @ \ {Now(p)}]

-----------------------------------------------------------------------------
(* The verbs.                                                              *)

\* The command line is typed.
Type(p, l) ==
    /\ pc[p] = "idle"
    /\ line' = [line EXCEPT ![p] = l]
    /\ CASE l.verb = "decline" -> Goto(p, "opening") /\ UNCHANGED <<todo, limit, said, exit, lock>>
         [] l.verb = "prune" /\ BadAge(l.age) -> Usage(p)
         [] OTHER -> Walk(p, "scrub", now)
    /\ UNCHANGED <<now, record, minted, money, failed>>

\* Ledger.Scrub probes with one attempt: a run somebody has is walked past.
ScrubProbe(p) ==
    /\ pc[p] = "scrub" /\ todo[p] # {}
    /\ IF lock[Now(p)] # NoProc
       THEN Past(p) /\ UNCHANGED <<pc, lock>>
       ELSE /\ lock' = [lock EXCEPT ![Now(p)] = p]
            /\ Goto(p, "scrubbing")
            /\ UNCHANGED todo
    /\ UNCHANGED <<now, record, minted, money, line, limit, said, exit, failed>>

\* Under the lock: a record that is gone is nothing to do, one that cannot
\* be read or written ends the sweep.
ScrubOne(p, result) ==
    LET r == Now(p)
        change == Readable(r) /\ Scrubbed(record[r], limit[p]) # record[r]
    IN  /\ pc[p] = "scrubbing"
        /\ ~change => result = "ok"
        /\ record' = IF change /\ result # "early"
                     THEN [record EXCEPT ![r] = Scrubbed(@, limit[p])] ELSE record
        /\ IF record[r] = Unreadable \/ result # "ok"
           THEN Fault(p)
           ELSE /\ Past(p)
                /\ Goto(p, "scrub")
                /\ lock' = [lock EXCEPT ![r] = NoProc]
                /\ UNCHANGED <<limit, said, exit>>
        /\ failed' = IF result = "ok" THEN failed ELSE failed \cup {p}
        /\ UNCHANGED <<now, minted, money, line>>

\* load goes on to Ledger.List.
ListStart(p) ==
    /\ pc[p] = "scrub" /\ todo[p] = {}
    /\ Walk(p, "list", limit[p])
    /\ UNCHANGED <<now, record, minted, money, line, failed>>

\* Variant: an answered step is taken for a closed one.
ShowsUnanswered(l, rec) ==
    /\ l.verb = "list"
    /\ l.pending => \E s \in DOMAIN rec.steps : UnresolvedUnanswered(rec.steps[s])

\* What list answers of a run it read.
Shows(l, rec) == l.verb = "list" /\ (l.pending => UnresolvedIn(rec))

\* Variant: a record that is gone is an error like one that cannot be read.
ReadOneOrFail(p) ==
    /\ pc[p] = "list" /\ todo[p] # {}
    /\ IF ~Readable(Now(p))
       THEN Fault(p)
       ELSE /\ said' = IF Shows(line[p], record[Now(p)])
                       THEN [said EXCEPT ![p] = @ \cup {Now(p)}] ELSE said
            /\ Past(p)
            /\ UNCHANGED <<pc, lock, limit, exit>>
    /\ UNCHANGED <<now, record, minted, money, line, failed>>

\* List reads one record, without its lock.  One that a prune removed since
\* ReadDir is skipped, one that cannot be read is an error.
ReadOne(p) ==
    /\ pc[p] = "list" /\ todo[p] # {}
    /\ IF record[Now(p)] = Unreadable
       THEN Fault(p)
       ELSE /\ said' = IF Readable(Now(p)) /\ Shows(line[p], record[Now(p)])
                       THEN [said EXCEPT ![p] = @ \cup {Now(p)}] ELSE said
            /\ Past(p)
            /\ UNCHANGED <<pc, lock, limit, exit>>
    /\ UNCHANGED <<now, record, minted, money, line, failed>>

\* Variant: the cutoff lies as far ahead as the age says.
ListEndAhead(p) ==
    /\ pc[p] = "list" /\ todo[p] = {}
    /\ CASE line[p].verb = "list" -> Answer(p, 0, said[p])
         [] line[p].verb = "show" -> Goto(p, "load") /\ UNCHANGED <<todo, limit, said, exit, lock>>
         [] OTHER -> Walk(p, "prune", now + ParsedAge(line[p].age))
    /\ UNCHANGED <<now, record, minted, money, line, failed>>

\* runList answers; runShow loads its run; runPrune reads the clock again.
ListEnd(p) ==
    /\ pc[p] = "list" /\ todo[p] = {}
    /\ CASE line[p].verb = "list" -> Answer(p, 0, said[p])
         [] line[p].verb = "show" -> Goto(p, "load") /\ UNCHANGED <<todo, limit, said, exit, lock>>
         [] OTHER -> Walk(p, "prune", now + Wrap(-ParsedAge(line[p].age)))
    /\ UNCHANGED <<now, record, minted, money, line, failed>>

\* runShow reads its run again: it may have been pruned since, or rewritten
\* by a newer binary.
ShowLoad(p) ==
    /\ pc[p] = "load"
    /\ CASE record[line[p].run] = NoRecord -> Usage(p)
         [] record[line[p].run] = Unreadable -> Fault(p)
         [] OTHER -> Answer(p, 0, {line[p].run})
    /\ UNCHANGED <<now, record, minted, money, line, failed>>

PruneProbe(p) ==
    /\ pc[p] = "prune" /\ todo[p] # {}
    /\ IF lock[Now(p)] # NoProc
       THEN Past(p) /\ UNCHANGED <<pc, lock>>
       ELSE /\ lock' = [lock EXCEPT ![Now(p)] = p]
            /\ Goto(p, "pruning")
            /\ UNCHANGED todo
    /\ UNCHANGED <<now, record, minted, money, line, limit, said, exit, failed>>

\* The run is removed when it is settled and minted before the cutoff.  The
\* unlink of the record may fail, and then of the sidecar.
PruneOne(p, result) ==
    LET r == Now(p)
        goes == Readable(r) /\ PrunableRun(record[r]) /\ record[r].created < limit[p]
    IN  /\ pc[p] = "pruning"
        /\ ~goes => result = "ok"
        /\ record' = IF goes /\ result # "early" THEN [record EXCEPT ![r] = NoRecord] ELSE record
        /\ IF record[r] = Unreadable \/ result # "ok"
           THEN Fault(p)
           ELSE /\ Past(p)
                /\ said' = IF goes THEN [said EXCEPT ![p] = @ \cup {r}] ELSE said
                /\ Goto(p, "prune")
                /\ lock' = [lock EXCEPT ![r] = NoProc]
                /\ UNCHANGED <<limit, exit>>
        /\ failed' = IF result = "ok" THEN failed ELSE failed \cup {p}
        /\ UNCHANGED <<now, minted, money, line>>

PruneEnd(p) ==
    /\ pc[p] = "prune" /\ todo[p] = {}
    /\ Answer(p, 0, said[p])
    /\ UNCHANGED <<now, record, minted, money, line, failed>>

\* Ledger.Open for a decline: the record is stat'ed first.
DeclineStat(p) ==
    /\ pc[p] = "opening"
    /\ IF record[line[p].run] = NoRecord
       THEN Usage(p)
       ELSE Goto(p, "locking") /\ UNCHANGED <<todo, limit, said, exit, lock>>
    /\ UNCHANGED <<now, record, minted, money, line, failed>>

\* A holder that outlasts HolderRetry is a fault; a probe usually does not.
DeclineLock(p) ==
    LET r == line[p].run IN
    /\ pc[p] = "locking"
    /\ IF lock[r] # NoProc
       THEN Fault(p)
       ELSE /\ lock' = [lock EXCEPT ![r] = p]
            /\ Goto(p, "declining")
            /\ UNCHANGED <<todo, limit, said, exit>>
    /\ UNCHANGED <<now, record, minted, money, line, failed>>

\* Variant: what is not settled can be declined.
DeclineUnknown(p, result) ==
    LET r == line[p].run
        step == record[r].steps["execute"]
        may == Readable(r) /\ "execute" \in DOMAIN record[r].steps /\ ~Terminal(step.state)
    IN  /\ pc[p] = "declining"
        /\ ~may => result = "ok"
        /\ record' = IF may /\ result # "early"
                     THEN [record EXCEPT ![r].steps["execute"] = Declined(step)] ELSE record
        /\ IF Readable(r) /\ result = "ok" THEN Answer(p, 0, {r}) ELSE Fault(p)
        /\ failed' = IF result = "ok" THEN failed ELSE failed \cup {p}
        /\ UNCHANGED <<now, minted, money, line>>

\* Ledger.Decline under the lock, and what runDecline makes of its error.
DeclineOne(p, result) ==
    LET r == line[p].run
        rec == record[r]
        state == rec.steps["execute"].state
        may == /\ Readable(r) /\ "execute" \in DOMAIN rec.steps
               /\ state \in {"not_started", "awaiting_confirmation"}
    IN  /\ pc[p] = "declining"
        /\ ~may => result = "ok"
        /\ record' = IF may /\ result # "early"
                     THEN [record EXCEPT ![r].steps["execute"] = Declined(@)] ELSE record
        /\ CASE rec = NoRecord -> Usage(p)
             [] rec = Unreadable \/ result # "ok" -> Fault(p)
             [] Readable(r) /\ "execute" \notin DOMAIN rec.steps -> Fault(p)
             [] OTHER -> IF MayHaveSent(state) THEN Answer(p, 6, {}) ELSE Answer(p, 0, {r})
        /\ failed' = IF result = "ok" THEN failed ELSE failed \cup {p}
        /\ UNCHANGED <<now, minted, money, line>>

-----------------------------------------------------------------------------
(* The money command beside them, in the steps that change the record.     *)
(* Its whole record is written from its copy, as Handle.save does.         *)

Save(content) ==
    /\ mem' = content
    /\ record' = [record EXCEPT ![mine] = content]

\* Ledger.Create, of a transfers simulate or a transfers create.  An id is
\* greater than every id before it.
Fresh(r) == r \notin minted /\ \A q \in minted : q < r

Mint(r, steps) ==
    /\ mine = NoRun
    /\ Fresh(r)
    /\ minted' = minted \cup {r}
    /\ mine' = r
    /\ mem' = [steps |-> [s \in steps |-> NewStep("bytes")], created |-> now, keep |-> 0]
    /\ record' = [record EXCEPT ![r] = mem']
    /\ lock' = [lock EXCEPT ![r] = Money]
    /\ UNCHANGED <<now, sent, begun, line, verb, failed>>

\* Ledger.Open, of a runs resume.
Resume(r) ==
    /\ mine = NoRun
    /\ Readable(r) /\ UnresolvedIn(record[r])
    /\ lock[r] = NoProc
    /\ mine' = r
    /\ mem' = record[r]
    /\ lock' = [lock EXCEPT ![r] = Money]
    /\ UNCHANGED <<now, record, minted, sent, begun, line, verb, failed>>

\* The execute comes after its simulate, and with a token or as a resend.
MayStart(s) ==
    /\ mine # NoRun /\ begun = "none"
    /\ s \in DOMAIN mem.steps
    /\ MayBegin(mem.steps[s], "bytes")
    /\ mem.steps[s].attempts < MaxAttempts
    /\ s = "execute" => \/ HasPlanToken(mem.steps[s])
                        \/ MayHaveSent(mem.steps[s].state)

Begin(s) ==
    /\ MayStart(s)
    /\ Save([mem EXCEPT !.steps[s] = Began(@, "bytes")])
    /\ begun' = s
    /\ UNCHANGED <<now, minted, lock, sent, mine, line, verb, failed>>

\* The request leaves, and its answer is recorded if there is one.
Send ==
    /\ begun = "execute"
    /\ sent' = sent \cup {mine}
    /\ UNCHANGED <<now, record, minted, lock, mem, mine, begun, line, verb, failed>>

Record(outcome) ==
    /\ begun # "none"
    /\ begun = "execute" => mine \in sent
    /\ Save([mem EXCEPT !.steps[begun] = Recorded(@, outcome)])
    /\ begun' = "none"
    /\ UNCHANGED <<now, minted, lock, sent, mine, line, verb, failed>>

\* The simulate of a broadcast run is settled: its plan is kept, and the
\* caller is asked.
Plan ==
    /\ mine # NoRun /\ DOMAIN mem.steps = {"simulate", "execute"}
    /\ mem.steps["simulate"].state = "terminal"
    /\ mem.steps["execute"].state = "not_started"
    /\ Save([mem EXCEPT !.steps["execute"] = Planned(@), !.keep = now + PlanLife])
    /\ UNCHANGED <<now, minted, lock, sent, mine, begun, line, verb, failed>>

Ask ==
    /\ mine # NoRun /\ "execute" \in DOMAIN mem.steps
    /\ mem.steps["execute"].state = "not_started"
    /\ HasPlanToken(mem.steps["execute"])
    /\ Save([mem EXCEPT !.steps["execute"] = Awaiting(@)])
    /\ UNCHANGED <<now, minted, lock, sent, mine, begun, line, verb, failed>>

\* The prompt is answered no.
SayNo ==
    /\ mine # NoRun /\ "execute" \in DOMAIN mem.steps
    /\ mem.steps["execute"].state = "awaiting_confirmation"
    /\ Save([mem EXCEPT !.steps["execute"] = Declined(@)])
    /\ UNCHANGED <<now, minted, lock, sent, mine, begun, line, verb, failed>>

\* The money command ends or is killed: the record stays as it is.
Leave ==
    /\ mine # NoRun
    /\ lock' = [lock EXCEPT ![mine] = NoProc]
    /\ mine' = NoRun /\ mem' = NoRecord /\ begun' = "none"
    /\ UNCHANGED <<now, record, minted, sent, line, verb, failed>>

\* A newer ferry on the same directory mints a run this one cannot read.
MintNewer(r) ==
    /\ Fresh(r)
    /\ minted' = minted \cup {r}
    /\ record' = [record EXCEPT ![r] = Unreadable]
    /\ UNCHANGED <<now, lock, money, line, verb, failed>>

Tick ==
    /\ now < MaxClock
    /\ now' = now + 1
    /\ UNCHANGED <<record, minted, lock, money, line, verb, failed>>

\* A verb is killed: its descriptors close.
Die(p) ==
    /\ pc[p] \notin {"idle", "done"}
    /\ Answer(p, NoExit, {})
    /\ line' = [line EXCEPT ![p] = EmptyLine]
    /\ UNCHANGED <<now, record, minted, money, failed>>

-----------------------------------------------------------------------------
Sweep(p) ==
    \/ ScrubProbe(p) \/ ListStart(p) \/ ReadOne(p) \/ ListEnd(p)
    \/ PruneProbe(p) \/ PruneEnd(p)
    \/ \E result \in SaveResults : ScrubOne(p, result) \/ PruneOne(p, result)

Verb(p) ==
    \/ \E l \in Lines[p] : Type(p, l)
    \/ Sweep(p)
    \/ ShowLoad(p)
    \/ DeclineStat(p) \/ DeclineLock(p)
    \/ \E result \in SaveResults : DeclineOne(p, result)
    \/ Die(p)

MoneyStep ==
    \/ \E r \in Runs : Resume(r) \/ \E steps \in Shapes : Mint(r, steps)
    \/ \E s \in StepNames : Begin(s)
    \/ Send \/ Plan \/ Ask \/ SayNo \/ Leave
    \/ \E outcome \in {"resumable", "settled"} : Record(outcome)

Anyone == (\E p \in Procs : Verb(p)) \/ MoneyStep \/ (\E r \in Runs : MintNewer(r)) \/ Tick

\* History: who has been unresolved since a list began, until it ends.
Next ==
    /\ Anyone
    /\ still' = [p \in Procs |->
          IF line'[p].verb # "list" THEN {}
          ELSE CASE pc[p] = "idle" -> {r \in Runs : MayBeUnresolved(record[r])}
                 [] pc[p] = "done" -> still[p]
                 [] OTHER -> {r \in still[p] : MayBeUnresolved(record'[r])}]

Spec == Init /\ [][Next]_vars

-----------------------------------------------------------------------------
\* Prune removes a run only when it was minted longer ago than the age on
\* its command line, whatever ran between the reading of the clock and the
\* unlink: as long as the age is one a duration can hold.
PruneKeepsTheYoung ==
    [][\A r \in Runs : record[r] # NoRecord /\ record'[r] = NoRecord =>
          \E p \in Procs :
             /\ pc[p] = "pruning" /\ line[p].verb = "prune"
             /\ Fits(Asked(line[p].age)) => record[r].created + Asked(line[p].age) < now]_vars

\* A decline that answered 0 is the last word: the execute of its run has not
\* left and never does, whichever money command held or takes up the run.
DeclinedNeverLeaves ==
    \A p \in Procs : line[p] # EmptyLine /\ line[p].verb = "decline" /\ exit[p] = 0
                        => line[p].run \notin sent

\* `list --pending` that answers 0 names every run that may have been
\* unresolved from its start to its end: nothing that is held, rewritten,
\* minted or pruned beside it makes it forget one, and one it cannot read
\* makes it fail instead.
PendingListIsComplete ==
    \A p \in Procs : line[p] # EmptyLine /\ line[p].verb = "list" /\ exit[p] = 0
                        => pc[p] = "done" /\ still[p] \subseteq said[p]

\* A verb fails only for the disk, for a record this version cannot read, or,
\* a decline, for its run: never because another verb or a money command was
\* at work in the directory.
FaultsHaveACause ==
    \A p \in Procs : exit[p] = 1 =>
        \/ p \in failed
        \/ line[p].verb = "decline"
        \/ \E r \in Runs : record[r] = Unreadable
=============================================================================
