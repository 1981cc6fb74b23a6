-------------------------- MODULE RunRecordProofs --------------------------
(***************************************************************************)
(* What the record says, for any number of processes, runs, steps, bodies  *)
(* and inodes: proofs that rest on the lock proved exclusive in            *)
(* RunLedgerProofs.                                                        *)
(*                                                                         *)
(* None of the properties is inductive alone, because every write copies   *)
(* a holder's memory over the record: what protects the record is a        *)
(* property of every copy that may still be written.  RecordInv says it of *)
(* the record and of the copies in the same words (Honest), and bounds how *)
(* far the record may be behind a copy (Behind).                           *)
(***************************************************************************)
EXTENDS RunLedgerProofs

\* A step tells the truth about its request and keeps no token it settled.
Honest(step, wasSent) ==
    /\ wasSent => MayHaveSent(step.state)
    /\ step.state \in {"answered", "terminal"} => wasSent
    /\ Terminal(step.state) => ~HasPlanToken(step)

\* `later` may be written over `earlier`.
Behind(earlier, later) ==
    /\ Terminal(earlier.state) =>
          \/ later.state = earlier.state
          \/ earlier.state = "declined" /\ later.state = "unreachable"
    /\ earlier.body # NoBody => later.body = earlier.body

RecordsHonest ==
    \A r \in Runs : \A s \in StepNames :
        /\ s \in sent[r] => r \in minted
        /\ record[r] # NoRecord => Honest(record[r][s], s \in sent[r])

CopiesHonest ==
    \A p \in Procs : \A s \in StepNames :
        /\ pc[p] \in {"creating", "held", "saving"} => Honest(mem[p][s], s \in sent[run[p]])
        /\ pc[p] = "creating" => mem[p][s].state = "not_started"

RecordsBehind ==
    \A p \in Procs : \A s \in StepNames :
        pc[p] \in {"held", "saving"} => Behind(record[run[p]][s], mem[p][s])

\* A holder that may send has a record, on disk and in memory, that says it
\* is about to.
StagesBacked ==
    \A p \in Procs : \A s \in StepNames :
        /\ pc[p] # "held" => stage[p][s] = "none"
        /\ pc[p] = "held" /\ stage[p][s] = "begun" =>
              record[run[p]][s].state = "pending" /\ mem[p][s].state = "pending"
        /\ pc[p] = "held" /\ stage[p][s] = "sent" => s \in sent[run[p]]

RemovingPrunable ==
    \A p \in Procs : pc[p] = "removing" => Prunable(record[run[p]])

RecordInv == RecordsHonest /\ CopiesHonest /\ RecordsBehind /\ StagesBacked /\ RemovingPrunable

-----------------------------------------------------------------------------
(* The step functions.                                                     *)

\* What a method of a Handle may make of step b: c is what it tries to save,
\* k is what stays in memory.
Fits(b, c, k, wasSent) ==
    /\ Honest(c, wasSent) /\ Honest(k, wasSent)
    /\ Behind(b, c) /\ Behind(b, k) /\ Behind(c, k)
    /\ MayHaveSent(b.state) => MayHaveSent(c.state) /\ MayHaveSent(k.state)

LEMMA ScrubFacts ==
    ASSUME NEW step \in Step
    PROVE  /\ Scrub(step).state = step.state
           /\ Scrub(step).body = step.body
           /\ ~HasPlanToken(Scrub(step))
           /\ Scrub(step) \in Step
BY ScrubType DEF Scrub, HasPlanToken, Step

LEMMA BeganFits ==
    ASSUME NEW b \in Step, NEW offered \in Bodies \cup {NoBody}, NEW s, NEW S,
           NEW result \in SaveResults, Honest(b, s \in S), MayBegin(b, offered)
    PROVE  Fits(b, Began(b, offered),
                IF result = "ok" THEN Began(b, offered) ELSE WithBody(b, offered), s \in S)
<1> DEFINE w == WithBody(b, offered)
           c == Began(b, offered)
<1>1. /\ w \in Step
      /\ w.state = b.state
      /\ w.token = b.token
      /\ b.body # NoBody => w.body = b.body
  BY BeganType DEF WithBody, MayBegin, Step
<1>2. c.state = "pending" /\ c.body = w.body
  BY <1>1 DEF Began, Step
<1> HIDE DEF w, c
<1>3. Fits(b, c, c, s \in S) /\ Fits(b, c, w, s \in S)
  BY <1>1, <1>2 DEF Fits, Honest, Behind, MayHaveSent, Terminal, MayBegin, HasPlanToken
<1>4. QED
  BY <1>3 DEF w, c

LEMMA RecordedFits ==
    ASSUME NEW b \in Step, NEW outcome \in {"resumable", "settled"},
           NEW s, NEW S, s \in S, Honest(b, s \in S), ~Terminal(b.state)
    PROVE  Fits(b, Recorded(b, outcome), Recorded(b, outcome), s \in S)
<1> DEFINE c == Recorded(b, outcome)
           t == [b EXCEPT !.outcome = outcome, !.state = "terminal"]
<1>1. t \in Step /\ t.state = "terminal" /\ t.body = b.body
  BY DEF Step, States, Tokens, Outcomes
<1>2. c.body = b.body
  BY <1>1, ScrubFacts DEF Recorded, Step
<1>3. c.state = "answered" \/ (c.state = "terminal" /\ ~HasPlanToken(c))
  BY <1>1, ScrubFacts DEF Recorded, Step
<1> HIDE DEF c, t
<1>4. Fits(b, c, c, s \in S)
  BY <1>2, <1>3 DEF Fits, Honest, Behind, MayHaveSent, Terminal
<1>5. QED
  BY <1>4 DEF c

LEMMA SettingFits ==
    ASSUME NEW b \in Step, NEW s, NEW S, Honest(b, s \in S)
    PROVE  /\ b.state \in {"not_started", "awaiting_confirmation"}
                => /\ Fits(b, Awaiting(b), Awaiting(b), s \in S)
                   /\ Fits(b, Declined(b), Declined(b), s \in S)
           /\ ~Terminal(b.state) => Fits(b, Planned(b), Planned(b), s \in S)
           /\ ~MayHaveSent(b.state) => Fits(b, MadeUnreachable(b), MadeUnreachable(b), s \in S)
<1>1. /\ Awaiting(b).state = "awaiting_confirmation"
      /\ Awaiting(b).body = b.body
  BY DEF Awaiting, Step
<1>2. /\ Planned(b).state = b.state
      /\ Planned(b).body = b.body
  BY DEF Planned, Step
<1>3. /\ [b EXCEPT !.state = "declined"] \in Step
      /\ [b EXCEPT !.state = "unreachable"] \in Step
  BY DEF Step, States
<1>4. /\ Declined(b).state = "declined"
      /\ Declined(b).body = b.body
      /\ ~HasPlanToken(Declined(b))
  BY <1>3, ScrubFacts DEF Declined, Step
<1>5. /\ MadeUnreachable(b).state = "unreachable"
      /\ MadeUnreachable(b).body = b.body
      /\ ~HasPlanToken(MadeUnreachable(b))
  BY <1>3, ScrubFacts DEF MadeUnreachable, Step
<1> USE DEF Fits, Honest, Behind, MayHaveSent, Terminal
<1>6. b.state \in {"not_started", "awaiting_confirmation"}
        => Fits(b, Awaiting(b), Awaiting(b), s \in S)
  BY <1>1
<1>7. b.state \in {"not_started", "awaiting_confirmation"}
        => Fits(b, Declined(b), Declined(b), s \in S)
  BY <1>4
<1>8. ~Terminal(b.state) => Fits(b, Planned(b), Planned(b), s \in S)
  BY <1>2
<1>9. ~MayHaveSent(b.state) => Fits(b, MadeUnreachable(b), MadeUnreachable(b), s \in S)
  BY <1>5
<1>10. QED
  BY <1>6, <1>7, <1>8, <1>9

LEMMA PlanStays ==
    ASSUME NEW b \in Step
    PROVE  Planned(b).state = b.state
BY DEF Planned, Step

\* Scrubbing a record leaves it honest and ahead of what it was.
LEMMA ScrubRunFits ==
    ASSUME NEW r \in Run, NEW expired \in BOOLEAN, NEW s \in StepNames,
           NEW S, Honest(r[s], s \in S)
    PROVE  Honest(ScrubRun(r, expired)[s], s \in S) /\ Behind(r[s], ScrubRun(r, expired)[s])
<1>1. r[s] \in Step
  BY DEF Run
<1>2. ScrubRun(r, expired)[s] \in {r[s], Scrub(r[s])}
  BY DEF ScrubRun
<1>3. QED
  BY <1>1, <1>2, ScrubFacts DEF Honest, Behind, MayHaveSent, Terminal

-----------------------------------------------------------------------------
(* The methods of a Handle, as far as the record is concerned.             *)

HolderStep(p, s) ==
    \E c, k \in Step, result \in SaveResults :
        /\ pc[p] = "held"
        /\ Write(run[p], [mem[p] EXCEPT ![s] = c], result)
        /\ mem' = [mem EXCEPT ![p] = [mem[p] EXCEPT ![s] = k]]
        /\ Fits(mem[p][s], c, k, s \in sent[run[p]])
        /\ stage[p][s] = "begun" => c.state = "pending" /\ k.state = "pending"
        /\ \/ stage' = stage
           \/ /\ result = "ok" /\ c.state = "pending" /\ k.state = "pending"
              /\ stage' = [stage EXCEPT ![p][s] = "begun"]
        /\ UNCHANGED <<minted, entry, flock, pc, job, run, fd, ret, sent>>

LEMMA RewriteIsHolderStep ==
    ASSUME LockInv, NEW p \in Procs, NEW s \in StepNames, NEW result \in SaveResults,
           NEW c \in Step, pc[p] = "held", Rewrite(p, s, c, result),
           Fits(mem[p][s], c, c, s \in sent[run[p]]), stage[p][s] = "begun" => c.state = "pending"
    PROVE  HolderStep(p, s)
<1>1. mem' = [mem EXCEPT ![p] = [mem[p] EXCEPT ![s] = c]]
  BY DEF Rewrite
<1>2. mem'[p] = [mem[p] EXCEPT ![s] = c]
  BY <1>1 DEF LockInv, TypeOK
<1>3. Write(run[p], [mem[p] EXCEPT ![s] = c], result)
  BY <1>2 DEF Rewrite
<1>4. stage' = stage /\ UNCHANGED <<minted, entry, flock, pc, job, run, fd, ret, sent>>
  BY DEF Rewrite
<1>5. QED
  BY <1>1, <1>3, <1>4 DEF HolderStep

LEMMA BeginIsHolderStep ==
    ASSUME LockInv, RecordInv, NEW p \in Procs, NEW s \in StepNames,
           NEW offered \in Bodies \cup {NoBody}, NEW result \in SaveResults,
           Begin(p, s, offered, result)
    PROVE  HolderStep(p, s)
<1> DEFINE b == mem[p][s]
           c == Began(b, offered)
           k == IF result = "ok" THEN c ELSE WithBody(b, offered)
<1>1. pc[p] = "held" /\ MayBegin(b, offered)
  BY DEF Begin
<1>2. b \in Step /\ Honest(b, s \in sent[run[p]])
  BY <1>1 DEF LockInv, Situated, Run, RecordInv, CopiesHonest
<1>3. c \in Step /\ k \in Step /\ Fits(b, c, k, s \in sent[run[p]])
  BY <1>1, <1>2, BeganType, BeganFits
<1>4. c.state = "pending" /\ WithBody(b, offered).state = b.state
  <2>1. WithBody(b, offered) \in Step /\ WithBody(b, offered).state = b.state
    BY <1>2, BeganType DEF WithBody, Step
  <2>2. QED
    BY <2>1 DEF Began, Step
<1>10. stage[p][s] = "begun" => k.state = "pending"
  BY <1>1, <1>4 DEF RecordInv, StagesBacked
<1>5. Write(run[p], [mem[p] EXCEPT ![s] = c], result)
  BY DEF Begin
<1>6. mem' = [mem EXCEPT ![p] = [mem[p] EXCEPT ![s] = k]]
  BY DEF Begin
<1>7. \/ stage' = stage
      \/ /\ result = "ok" /\ k = c
         /\ stage' = [stage EXCEPT ![p][s] = "begun"]
  BY DEF Begin
<1>8. UNCHANGED <<minted, entry, flock, pc, job, run, fd, ret, sent>>
  BY DEF Begin
<1> HIDE DEF b, c, k
<1>9. QED
  BY <1>1, <1>3, <1>4, <1>5, <1>6, <1>7, <1>8, <1>10 DEF HolderStep, b

LEMMA MethodsAreHolderSteps ==
    ASSUME LockInv, RecordInv, NEW p \in Procs, NEW s \in StepNames, HandleStep(p, s)
    PROVE  HolderStep(p, s) \/ Send(p, s)
<1>1. pc[p] = "held" => mem[p][s] \in Step /\ Honest(mem[p][s], s \in sent[run[p]])
  BY DEF LockInv, Situated, Run, RecordInv, CopiesHonest
<1>2. /\ pc[p] = "held" /\ stage[p][s] = "sent" => s \in sent[run[p]]
      /\ pc[p] = "held" /\ stage[p][s] = "begun" => mem[p][s].state = "pending"
  BY DEF RecordInv, StagesBacked
<1> SUFFICES ASSUME NEW result \in SaveResults,
                    \/ \E offered \in Bodies \cup {NoBody} : Begin(p, s, offered, result)
                    \/ \E outcome \in {"resumable", "settled"} : Record(p, s, outcome, result)
                    \/ AwaitConfirmation(p, s, result)
                    \/ SetPlan(p, s, result)
                    \/ Decline(p, s, result)
                    \/ Unreachable(p, s, result)
             PROVE  HolderStep(p, s)
  BY DEF HandleStep
<1>3. CASE \E offered \in Bodies \cup {NoBody} : Begin(p, s, offered, result)
  BY <1>3, BeginIsHolderStep
<1>4. ASSUME NEW outcome \in {"resumable", "settled"}, Record(p, s, outcome, result)
      PROVE  HolderStep(p, s)
  <2>1. pc[p] = "held" /\ stage[p][s] = "sent" /\ ~Terminal(mem[p][s].state)
    BY <1>4 DEF Record
  <2>2. s \in sent[run[p]]
    BY <1>2, <2>1
  <2>3. Fits(mem[p][s], Recorded(mem[p][s], outcome), Recorded(mem[p][s], outcome), s \in sent[run[p]])
    BY <1>1, <2>1, <2>2, RecordedFits
  <2>4. QED
    BY <1>1, <1>4, <2>1, <2>3, RecordedType, RewriteIsHolderStep DEF Record
<1>5. CASE AwaitConfirmation(p, s, result)
  BY <1>1, <1>2, <1>5, SettingTypes, SettingFits, RewriteIsHolderStep DEF AwaitConfirmation
<1>6. CASE SetPlan(p, s, result)
  BY <1>1, <1>2, <1>6, SettingTypes, SettingFits, PlanStays, RewriteIsHolderStep DEF SetPlan
<1>7. CASE Decline(p, s, result)
  BY <1>1, <1>2, <1>7, SettingTypes, SettingFits, RewriteIsHolderStep DEF Decline
<1>8. CASE Unreachable(p, s, result)
  BY <1>1, <1>2, <1>8, SettingTypes, SettingFits, RewriteIsHolderStep DEF Unreachable, MayHaveSent
<1>9. QED
  BY <1>3, <1>4, <1>5, <1>6, <1>7, <1>8

-----------------------------------------------------------------------------
(* RecordInv is inductive, given LockInv.                                  *)

\* Whoever is past the lock of an existing record, or creates it, is alone.
LEMMA Alone ==
    ASSUME LockInv, NEW p \in Procs, NEW q \in Procs, pc[p] \in Owning, pc[q] \in Owning,
           run[p] = run[q], record[run[p]] # NoRecord \/ pc[p] = "creating"
    PROVE  p = q
<1>1. CASE pc[p] = "creating"
  BY <1>1 DEF LockInv, CreatingAlone, Owning
<1>2. CASE record[run[p]] # NoRecord
  BY <1>2 DEF LockInv, FlockOwned, SidecarStays
<1>3. QED
  BY <1>1, <1>2

\* A step that leaves the records and the other processes alone and does not
\* bring its own process to a place where a copy matters.
Quiet(p) ==
    /\ UNCHANGED <<record, sent>>
    /\ minted \subseteq minted'
    /\ \A q \in Procs \ {p} :
          pc'[q] = pc[q] /\ run'[q] = run[q] /\ mem'[q] = mem[q] /\ stage'[q] = stage[q]
    /\ pc'[p] \notin {"creating", "held", "saving", "removing"}
    /\ \A s \in StepNames : stage'[p][s] = "none"

\* Nothing that matters to the record changes.
LEMMA QuietKeepsRecord ==
    ASSUME LockInv, RecordInv, NEW p \in Procs,
           Quiet(p)
    PROVE  RecordInv'
<1> USE DEF RecordInv, LockInv
<1>1. RecordsHonest'
  BY LedgerAssumption DEF TypeOK, RecordsHonest, CopiesHonest, RecordsBehind, StagesBacked, RemovingPrunable, Quiet
<1>2. CopiesHonest'
  <2>1. ASSUME NEW q \in Procs, pc'[q] \in {"creating", "held", "saving"}
        PROVE  pc'[q] = pc[q] /\ run'[q] = run[q] /\ mem'[q] = mem[q] /\ sent' = sent
    BY <2>1 DEF Quiet
  <2>2. QED
    BY <2>1 DEF CopiesHonest
<1>3. RecordsBehind'
  BY LedgerAssumption DEF TypeOK, RecordsHonest, CopiesHonest, RecordsBehind, StagesBacked, RemovingPrunable, Quiet
<1>4. StagesBacked'
  BY LedgerAssumption DEF TypeOK, RecordsHonest, CopiesHonest, RecordsBehind, StagesBacked, RemovingPrunable, Quiet
<1>5. RemovingPrunable'
  BY LedgerAssumption DEF TypeOK, RecordsHonest, CopiesHonest, RecordsBehind, StagesBacked, RemovingPrunable, Quiet
<1>6. QED
  BY <1>1, <1>2, <1>3, <1>4, <1>5

\* Leaving is quiet when the directory's records are left alone.
LEMMA LeaveIsQuiet ==
    ASSUME LockInv, NEW p \in Procs, NEW verdict, Leave(p, verdict),
           UNCHANGED <<record, minted, sent>>
    PROVE  Quiet(p)
BY DEF LockInv, TypeOK, Leave, Quiet, NotStaged

\* The copy a Create starts from.
LEMMA CreateKeepsRecord ==
    ASSUME LockInv, RecordInv, NEW p \in Procs,
           NEW r \in Runs, NEW body \in Bodies, Create(p, r, body)
    PROVE  RecordInv'
<1> USE DEF RecordInv, LockInv
<1>a. \A s \in StepNames : NewRun(body)[s].state = "not_started" /\ ~HasPlanToken(NewRun(body)[s])
  BY DEF NewRun, NewStep, HasPlanToken
<1>b. \A s \in StepNames : s \notin sent[r]
  BY DEF RecordsHonest, Create
<1>c. \A s \in StepNames : Honest(NewRun(body)[s], s \in sent[r])
  BY <1>a, <1>b DEF Honest, Terminal
<1>1. RecordsHonest'
  BY <1>c, LedgerAssumption DEF TypeOK, RecordsHonest, CopiesHonest, RecordsBehind, StagesBacked, RemovingPrunable, Create, Start
<1>2. CopiesHonest'
  BY <1>a, <1>c, LedgerAssumption DEF TypeOK, RecordsHonest, CopiesHonest, RecordsBehind, StagesBacked, RemovingPrunable, Create, Start
<1>3. RecordsBehind'
  BY <1>c, LedgerAssumption DEF TypeOK, RecordsHonest, CopiesHonest, RecordsBehind, StagesBacked, RemovingPrunable, Create, Start
<1>4. StagesBacked'
  BY <1>c, LedgerAssumption DEF TypeOK, RecordsHonest, CopiesHonest, RecordsBehind, StagesBacked, RemovingPrunable, Create, Start
<1>5. RemovingPrunable'
  BY <1>c, LedgerAssumption DEF TypeOK, RecordsHonest, CopiesHonest, RecordsBehind, StagesBacked, RemovingPrunable, Create, Start
<1>6. QED
  BY <1>1, <1>2, <1>3, <1>4, <1>5

\* Create saved its copy and holds the run.
LEMMA CreatedKeepsRecord ==
    ASSUME LockInv, RecordInv, NEW p \in Procs,
           pc[p] = "creating", Write(run[p], mem[p], "ok"),
           pc' = [pc EXCEPT ![p] = "held"],
           UNCHANGED <<minted, entry, flock, job, run, fd, mem, stage, ret, sent>>
    PROVE  RecordInv'
<1> USE DEF RecordInv, LockInv
<1>a. run[p] \in Runs /\ record' = [record EXCEPT ![run[p]] = mem[p]]
  BY LedgerAssumption DEF Situated, TypeOK, Write
<1>b. \A q \in Procs : pc[q] \in Owning /\ run[q] = run[p] => q = p
  BY Alone DEF Owning
<1>1. RecordsHonest'
  BY <1>a, <1>b, LedgerAssumption DEF TypeOK, RecordsHonest, CopiesHonest, RecordsBehind, StagesBacked, RemovingPrunable, Owning, Behind, Situated
<1>2. CopiesHonest'
  BY <1>a, <1>b, LedgerAssumption DEF TypeOK, RecordsHonest, CopiesHonest, RecordsBehind, StagesBacked, RemovingPrunable, Owning, Behind, Situated
<1>3. RecordsBehind'
  <2>1. \A t \in StepNames : Behind(mem[p][t], mem[p][t])
    BY DEF Behind
  <2>2. record'[run[p]] = mem[p] /\ \A r \in Runs \ {run[p]} : record'[r] = record[r]
    BY <1>a DEF TypeOK
  <2>3. \A q \in Procs \ {p} : pc[q] \in {"held", "saving"} => run[q] \in Runs \ {run[p]}
    BY <1>b, LedgerAssumption DEF Owning, Situated, TypeOK
  <2>4. QED
    BY <2>1, <2>2, <2>3 DEF RecordsBehind, TypeOK
<1>4. StagesBacked'
  BY <1>a, <1>b, LedgerAssumption DEF TypeOK, RecordsHonest, CopiesHonest, RecordsBehind, StagesBacked, RemovingPrunable, Owning, Behind, Situated
<1>5. RemovingPrunable'
  BY <1>a, <1>b, LedgerAssumption DEF TypeOK, RecordsHonest, CopiesHonest, RecordsBehind, StagesBacked, RemovingPrunable, Owning, Behind, Situated
<1>6. QED
  BY <1>1, <1>2, <1>3, <1>4, <1>5

\* A process writes its copy and ends its job.
LEMMA SavedKeepsRecord ==
    ASSUME LockInv, RecordInv, NEW p \in Procs,
           NEW result \in SaveResults, pc[p] \in {"creating", "saving"},
           Write(run[p], mem[p], result), Leave(p, "none"), UNCHANGED <<minted, entry, sent>>
    PROVE  RecordInv'
<1> USE DEF RecordInv, LockInv
<1>a. run[p] \in Runs /\ record' \in {record, [record EXCEPT ![run[p]] = mem[p]]}
  BY DEF Situated, TypeOK, Write
<1>b. \A q \in Procs : pc[q] \in Owning /\ run[q] = run[p] => q = p
  BY Alone DEF Owning, RecordThere
<1>1. RecordsHonest'
  BY <1>a, <1>b, LedgerAssumption DEF TypeOK, RecordsHonest, CopiesHonest, RecordsBehind, StagesBacked, RemovingPrunable, Owning, Leave, NotStaged, Situated
<1>2. CopiesHonest'
  BY <1>a, <1>b, LedgerAssumption DEF TypeOK, RecordsHonest, CopiesHonest, RecordsBehind, StagesBacked, RemovingPrunable, Owning, Leave, NotStaged, Situated
<1>3. RecordsBehind'
  BY <1>a, <1>b, LedgerAssumption DEF TypeOK, RecordsHonest, CopiesHonest, RecordsBehind, StagesBacked, RemovingPrunable, Owning, Leave, NotStaged, Situated
<1>4. StagesBacked'
  BY <1>a, <1>b, LedgerAssumption DEF TypeOK, RecordsHonest, CopiesHonest, RecordsBehind, StagesBacked, RemovingPrunable, Owning, Leave, NotStaged, Situated
<1>5. RemovingPrunable'
  BY <1>a, <1>b, LedgerAssumption DEF TypeOK, RecordsHonest, CopiesHonest, RecordsBehind, StagesBacked, RemovingPrunable, Owning, Leave, NotStaged, Situated
<1>6. QED
  BY <1>1, <1>2, <1>3, <1>4, <1>5

\* Open holds the run with what it read.
LEMMA OpenLoadKeepsRecord ==
    ASSUME LockInv, RecordInv, NEW p \in Procs,
           OpenLoad(p)
    PROVE  RecordInv'
<1> USE DEF RecordInv, LockInv
<1>1. RecordsHonest'
  BY LedgerAssumption DEF TypeOK, RecordsHonest, CopiesHonest, RecordsBehind, StagesBacked, RemovingPrunable, OpenLoad, disk, Behind, Situated
<1>2. CopiesHonest'
  BY LedgerAssumption DEF TypeOK, RecordsHonest, CopiesHonest, RecordsBehind, StagesBacked, RemovingPrunable, OpenLoad, disk, Behind, Situated
<1>3. RecordsBehind'
  BY LedgerAssumption DEF TypeOK, RecordsHonest, CopiesHonest, RecordsBehind, StagesBacked, RemovingPrunable, OpenLoad, disk, Behind, Situated
<1>4. StagesBacked'
  BY LedgerAssumption DEF TypeOK, RecordsHonest, CopiesHonest, RecordsBehind, StagesBacked, RemovingPrunable, OpenLoad, disk, Behind, Situated
<1>5. RemovingPrunable'
  BY LedgerAssumption DEF TypeOK, RecordsHonest, CopiesHonest, RecordsBehind, StagesBacked, RemovingPrunable, OpenLoad, disk, Behind, Situated
<1>6. QED
  BY <1>1, <1>2, <1>3, <1>4, <1>5

\* Scrub prepares its copy.
LEMMA ScrubLoadKeepsRecord ==
    ASSUME LockInv, RecordInv, NEW p \in Procs,
           NEW expired \in BOOLEAN, pc[p] = "locked", record[run[p]] # NoRecord,
           mem' = [mem EXCEPT ![p] = ScrubRun(record[run[p]], expired)], pc' = [pc EXCEPT ![p] = "saving"],
           UNCHANGED <<record, minted, entry, flock, job, run, fd, stage, ret, sent>>
    PROVE  RecordInv'
<1> USE DEF RecordInv, LockInv
<1>a. run[p] \in Runs /\ record[run[p]] \in Run
  BY DEF Situated, TypeOK
<1>b. \A s \in StepNames :
          /\ Honest(ScrubRun(record[run[p]], expired)[s], s \in sent[run[p]])
          /\ Behind(record[run[p]][s], ScrubRun(record[run[p]], expired)[s])
  BY <1>a, ScrubRunFits DEF RecordsHonest
<1>1. RecordsHonest'
  BY <1>b, LedgerAssumption DEF TypeOK, RecordsHonest, CopiesHonest, RecordsBehind, StagesBacked, RemovingPrunable, Situated
<1>2. CopiesHonest'
  BY <1>b, LedgerAssumption DEF TypeOK, RecordsHonest, CopiesHonest, RecordsBehind, StagesBacked, RemovingPrunable, Situated
<1>3. RecordsBehind'
  BY <1>b, LedgerAssumption DEF TypeOK, RecordsHonest, CopiesHonest, RecordsBehind, StagesBacked, RemovingPrunable, Situated
<1>4. StagesBacked'
  BY <1>b, LedgerAssumption DEF TypeOK, RecordsHonest, CopiesHonest, RecordsBehind, StagesBacked, RemovingPrunable, Situated
<1>5. RemovingPrunable'
  BY <1>b, LedgerAssumption DEF TypeOK, RecordsHonest, CopiesHonest, RecordsBehind, StagesBacked, RemovingPrunable, Situated
<1>6. QED
  BY <1>1, <1>2, <1>3, <1>4, <1>5

\* Prune found the record prunable.
LEMMA PruneLoadKeepsRecord ==
    ASSUME LockInv, RecordInv, NEW p \in Procs,
           pc[p] = "locked", Prunable(record[run[p]]),
           pc' = [pc EXCEPT ![p] = "removing"],
           UNCHANGED <<record, minted, entry, flock, job, run, fd, mem, stage, ret, sent>>
    PROVE  RecordInv'
<1> USE DEF RecordInv, LockInv
<1>1. RecordsHonest'
  BY LedgerAssumption DEF TypeOK, RecordsHonest, CopiesHonest, RecordsBehind, StagesBacked, RemovingPrunable, Verdicts
<1>2. CopiesHonest'
  BY LedgerAssumption DEF TypeOK, RecordsHonest, CopiesHonest, RecordsBehind, StagesBacked, RemovingPrunable, Verdicts
<1>3. RecordsBehind'
  BY LedgerAssumption DEF TypeOK, RecordsHonest, CopiesHonest, RecordsBehind, StagesBacked, RemovingPrunable, Verdicts
<1>4. StagesBacked'
  BY LedgerAssumption DEF TypeOK, RecordsHonest, CopiesHonest, RecordsBehind, StagesBacked, RemovingPrunable, Verdicts
<1>5. RemovingPrunable'
  BY LedgerAssumption DEF TypeOK, RecordsHonest, CopiesHonest, RecordsBehind, StagesBacked, RemovingPrunable, Verdicts
<1>6. QED
  BY <1>1, <1>2, <1>3, <1>4, <1>5

\* The record goes.
LEMMA PruneRecordKeepsRecord ==
    ASSUME LockInv, RecordInv, NEW p \in Procs,
           PruneRecord(p)
    PROVE  RecordInv'
<1> USE DEF RecordInv, LockInv
<1>b. \A q \in Procs : pc[q] \in Owning /\ run[q] = run[p] => q = p
  BY Alone DEF PruneRecord, Owning, RecordThere
<1>1. RecordsHonest'
  BY <1>b, LedgerAssumption DEF TypeOK, RecordsHonest, CopiesHonest, RecordsBehind, StagesBacked, RemovingPrunable, PruneRecord, Owning
<1>2. CopiesHonest'
  BY <1>b, LedgerAssumption DEF TypeOK, RecordsHonest, CopiesHonest, RecordsBehind, StagesBacked, RemovingPrunable, PruneRecord, Owning
<1>3. RecordsBehind'
  BY <1>b, LedgerAssumption DEF TypeOK, RecordsHonest, CopiesHonest, RecordsBehind, StagesBacked, RemovingPrunable, PruneRecord, Owning
<1>4. StagesBacked'
  BY <1>b, LedgerAssumption DEF TypeOK, RecordsHonest, CopiesHonest, RecordsBehind, StagesBacked, RemovingPrunable, PruneRecord, Owning
<1>5. RemovingPrunable'
  BY <1>b, LedgerAssumption DEF TypeOK, RecordsHonest, CopiesHonest, RecordsBehind, StagesBacked, RemovingPrunable, PruneRecord, Owning
<1>6. QED
  BY <1>1, <1>2, <1>3, <1>4, <1>5

\* A holder rewrites its record.
LEMMA HolderStepKeepsRecord ==
    ASSUME LockInv, RecordInv, NEW p \in Procs,
           NEW s \in StepNames, HolderStep(p, s)
    PROVE  RecordInv'
<1> USE DEF RecordInv, LockInv
<1>a. PICK c \in Step, k \in Step, result \in SaveResults :
        /\ pc[p] = "held"
        /\ Write(run[p], [mem[p] EXCEPT ![s] = c], result)
        /\ mem' = [mem EXCEPT ![p] = [mem[p] EXCEPT ![s] = k]]
        /\ Fits(mem[p][s], c, k, s \in sent[run[p]])
        /\ stage[p][s] = "begun" => c.state = "pending" /\ k.state = "pending"
        /\ \/ stage' = stage
           \/ /\ result = "ok" /\ c.state = "pending" /\ k.state = "pending"
              /\ stage' = [stage EXCEPT ![p][s] = "begun"]
        /\ UNCHANGED <<minted, entry, flock, pc, job, run, fd, ret, sent>>
  BY DEF HolderStep
<1>b. \A q \in Procs : pc[q] \in Owning /\ run[q] = run[p] => q = p
  BY <1>a, Alone DEF Owning, RecordThere
<1> DEFINE content == [mem[p] EXCEPT ![s] = c]
           kept == [mem[p] EXCEPT ![s] = k]
<1>c. /\ mem[p] \in Run /\ run[p] \in Runs /\ record[run[p]] \in Run
      /\ pc[p] = "held" /\ record[run[p]] # NoRecord
  BY <1>a DEF Situated, RecordThere, TypeOK
<1>d. \A t \in StepNames : content[t] = (IF t = s THEN c ELSE mem[p][t])
                        /\ kept[t] = (IF t = s THEN k ELSE mem[p][t])
  BY <1>c DEF Run
<1>e. \A t \in StepNames : /\ Honest(mem[p][t], t \in sent[run[p]])
                           /\ Behind(record[run[p]][t], mem[p][t])
  BY <1>c DEF CopiesHonest, RecordsBehind
<1>f. \A t \in StepNames :
        /\ Honest(content[t], t \in sent[run[p]])
        /\ Honest(kept[t], t \in sent[run[p]])
        /\ MayHaveSent(mem[p][t].state) => MayHaveSent(content[t].state) /\ MayHaveSent(kept[t].state)
  BY <1>a, <1>d, <1>e DEF Fits
<1>g. \A t \in StepNames : Behind(record[run[p]][t], kept[t]) /\ Behind(content[t], kept[t])
  BY <1>a, <1>d, <1>e DEF Fits, Behind, Terminal
<1>h. record' \in {record, [record EXCEPT ![run[p]] = content]} /\ mem' = [mem EXCEPT ![p] = kept]
  BY <1>a DEF Write
<1>i. stage' # stage => /\ record' = [record EXCEPT ![run[p]] = content]
                        /\ content[s].state = "pending" /\ kept[s].state = "pending"
                        /\ stage' = [stage EXCEPT ![p][s] = "begun"]
  BY <1>a, <1>d DEF Write
<1>j. UNCHANGED <<minted, pc, run, sent>>
  BY <1>a
<1>k. content \in Run
  BY <1>c DEF Run
<1> HIDE DEF content, kept
<1>l. /\ mem'[p] = kept
      /\ \A q \in Procs \ {p} : mem'[q] = mem[q]
      /\ record'[run[p]] \in {record[run[p]], content}
      /\ \A r \in Runs \ {run[p]} : record'[r] = record[r]
  BY <1>c, <1>h DEF TypeOK
<1>1. RecordsHonest'
  BY <1>c, <1>f, <1>j, <1>l DEF RecordsHonest
<1>2. CopiesHonest'
  BY <1>c, <1>f, <1>j, <1>l DEF CopiesHonest
<1>3. RecordsBehind'
  <2> SUFFICES ASSUME NEW q \in Procs, NEW t \in StepNames, pc[q] \in {"held", "saving"}
               PROVE  Behind(record'[run[q]][t], mem'[q][t])
    BY <1>j DEF RecordsBehind
  <2>1. CASE q = p
    BY <2>1, <1>g, <1>l
  <2>2. CASE q # p
    BY <2>2, <1>b, <1>l DEF Owning, RecordsBehind, Situated, TypeOK
  <2>3. QED
    BY <2>1, <2>2
<1>4. StagesBacked'
  <2>1. ASSUME NEW q \in Procs \ {p}, NEW t \in StepNames
        PROVE  /\ stage'[q][t] = stage[q][t]
               /\ mem'[q] = mem[q]
               /\ pc[q] = "held" => record'[run[q]] = record[run[q]]
    BY <1>b, <1>c, <1>i, <1>l DEF Owning, Situated, TypeOK
  <2>2. ASSUME NEW t \in StepNames, stage'[p][t] = "begun"
        PROVE  record'[run[p]][t].state = "pending" /\ kept[t].state = "pending"
    <3>1. CASE stage'[p][t] = stage[p][t]
      <4>1. mem[p][t].state = "pending" /\ record[run[p]][t].state = "pending"
        BY <2>2, <3>1, <1>c DEF StagesBacked
      <4>2. content[t].state = "pending" /\ kept[t].state = "pending"
        BY <1>a, <1>d, <2>2, <3>1, <4>1
      <4>3. QED
        BY <1>l, <4>1, <4>2
    <3>2. CASE stage'[p][t] # stage[p][t]
      <4>1. /\ t = s
            /\ record' = [record EXCEPT ![run[p]] = content]
            /\ content[s].state = "pending" /\ kept[s].state = "pending"
        BY <3>2, <1>i DEF TypeOK
      <4>2. record'[run[p]] = content
        BY <4>1, <1>c DEF TypeOK
      <4>3. QED
        BY <4>1, <4>2
    <3>3. QED
      BY <3>1, <3>2
  <2>3. ASSUME NEW t \in StepNames, stage'[p][t] = "sent"
        PROVE  stage[p][t] = "sent"
    BY <2>3, <1>i DEF TypeOK
  <2>4. QED
    BY <2>1, <2>2, <2>3, <1>c, <1>j, <1>l DEF StagesBacked
<1>5. RemovingPrunable'
  BY <1>b, <1>c, <1>j, <1>l DEF RemovingPrunable, Owning, Situated, TypeOK
<1>6. QED
  BY <1>1, <1>2, <1>3, <1>4, <1>5

\* A request leaves under a record that says it may have.
LEMMA SendKeepsRecord ==
    ASSUME LockInv, RecordInv, NEW p \in Procs,
           NEW s \in StepNames, Send(p, s)
    PROVE  RecordInv'
<1> USE DEF RecordInv, LockInv
<1>b. \A q \in Procs : pc[q] \in Owning /\ run[q] = run[p] => q = p
  BY Alone DEF Send, Owning, RecordThere
<1>1. RecordsHonest'
  BY <1>b, LedgerAssumption DEF TypeOK, RecordsHonest, CopiesHonest, RecordsBehind, StagesBacked, RemovingPrunable, Send, disk, Owning, Situated, Honest, MayHaveSent
<1>2. CopiesHonest'
  BY <1>b, LedgerAssumption DEF TypeOK, RecordsHonest, CopiesHonest, RecordsBehind, StagesBacked, RemovingPrunable, Send, disk, Owning, Situated, Honest, MayHaveSent
<1>3. RecordsBehind'
  BY <1>b, LedgerAssumption DEF TypeOK, RecordsHonest, CopiesHonest, RecordsBehind, StagesBacked, RemovingPrunable, Send, disk, Owning, Situated, Honest, MayHaveSent
<1>4. StagesBacked'
  BY <1>b, LedgerAssumption DEF TypeOK, RecordsHonest, CopiesHonest, RecordsBehind, StagesBacked, RemovingPrunable, Send, disk, Owning, Situated, Honest, MayHaveSent
<1>5. RemovingPrunable'
  BY <1>b, LedgerAssumption DEF TypeOK, RecordsHonest, CopiesHonest, RecordsBehind, StagesBacked, RemovingPrunable, Send, disk, Owning, Situated, Honest, MayHaveSent
<1>6. QED
  BY <1>1, <1>2, <1>3, <1>4, <1>5

-----------------------------------------------------------------------------
(* The record invariant and what follows from it.                          *)

LEMMA InitRecord == Init => RecordInv
BY DEF Init, RecordInv, RecordsHonest, CopiesHonest, RecordsBehind, StagesBacked,
       RemovingPrunable, NotStaged

LEMMA StartStepKeepsRecord ==
    ASSUME LockInv, RecordInv, NEW p \in Procs, NEW r \in Runs, StartStep(p, r)
    PROVE  RecordInv'
<1>1. CASE \E body \in Bodies : Create(p, r, body)
  BY <1>1, CreateKeepsRecord
<1>2. ASSUME NEW which, record[r] # NoRecord, Start(p, r, which, "opening"),
             \A q \in Procs \ {p} : mem'[q] = mem[q], UNCHANGED <<disk, fd, stage, sent>>
      PROVE  Quiet(p)
  BY <1>2 DEF LockInv, TypeOK, RecordInv, StagesBacked, Quiet, Start, disk
<1>3. CASE OpenStat(p, r)
  BY <1>2, <1>3, QuietKeepsRecord DEF OpenStat
<1>4. CASE \E which \in {"scrub", "prune"} : ListForSweep(p, r, which)
  BY <1>2, <1>4, QuietKeepsRecord DEF ListForSweep
<1>5. CASE ListForOrphans(p, r)
  <2>1. \A q \in Procs \ {p} : mem'[q] = mem[q]
    BY <1>5 DEF ListForOrphans, LockInv, TypeOK
  <2>2. QED
    BY <1>2, <1>5, <2>1, QuietKeepsRecord DEF ListForOrphans
<1>6. QED
  BY <1>1, <1>3, <1>4, <1>5 DEF StartStep

LEMMA LockStepKeepsRecord ==
    ASSUME LockInv, RecordInv, NEW p \in Procs, LockStep(p)
    PROVE  RecordInv'
<1> USE DEF LockInv, TypeOK, RecordInv, StagesBacked
<1>1. CASE \E result \in SaveResults : CreateSave(p, result)
  BY <1>1, CreatedKeepsRecord, SavedKeepsRecord DEF CreateSave
<1>2. CASE OpenSidecar(p)
  BY <1>2, QuietKeepsRecord DEF OpenSidecar, Quiet
<1>3. CASE Flock(p)
  BY <1>3, QuietKeepsRecord DEF Flock, Quiet
<1>4. CASE FlockBusy(p)
  BY <1>4, LeaveIsQuiet, QuietKeepsRecord DEF FlockBusy
<1>5. CASE OpenLoad(p)
  BY <1>5, OpenLoadKeepsRecord
<1>6. CASE OpenGone(p)
  BY <1>6, QuietKeepsRecord DEF OpenGone, Quiet
<1>7. CASE RemoveLitter(p)
  BY <1>7, LeaveIsQuiet, QuietKeepsRecord DEF RemoveLitter
<1>8. QED
  BY <1>1, <1>2, <1>3, <1>4, <1>5, <1>6, <1>7 DEF LockStep

LEMMA ProbeStepKeepsRecord ==
    ASSUME LockInv, RecordInv, NEW p \in Procs, ProbeStep(p)
    PROVE  RecordInv'
<1>1. CASE OrphanFound(p)
  BY <1>1, LeaveIsQuiet, QuietKeepsRecord DEF OrphanFound
<1>2. ASSUME NEW expired \in BOOLEAN, ScrubLoad(p, expired)
      PROVE  RecordInv'
  <2>1. CASE Leave(p, "none")
    BY <1>2, <2>1, LeaveIsQuiet, QuietKeepsRecord DEF ScrubLoad
  <2>2. CASE ~Leave(p, "none")
    BY <1>2, <2>2, ScrubLoadKeepsRecord DEF ScrubLoad
  <2>3. QED
    BY <2>1, <2>2
<1>3. CASE \E result \in SaveResults : ScrubSave(p, result)
  BY <1>3, SavedKeepsRecord DEF ScrubSave
<1>4. ASSUME NEW old \in BOOLEAN, PruneLoad(p, old)
      PROVE  RecordInv'
  <2>1. CASE Leave(p, "none")
    BY <1>4, <2>1, LeaveIsQuiet, QuietKeepsRecord DEF PruneLoad
  <2>2. CASE ~Leave(p, "none")
    BY <1>4, <2>2, PruneLoadKeepsRecord DEF PruneLoad
  <2>3. QED
    BY <2>1, <2>2
<1>5. CASE PruneRecord(p)
  BY <1>5, PruneRecordKeepsRecord
<1>6. CASE PruneSidecar(p)
  BY <1>6, LeaveIsQuiet, QuietKeepsRecord DEF PruneSidecar
<1>7. CASE PruneFails(p)
  BY <1>7, LeaveIsQuiet, QuietKeepsRecord DEF PruneFails
<1>8. QED
  BY <1>1, <1>2, <1>3, <1>4, <1>5, <1>6, <1>7 DEF ProbeStep

LEMMA NextKeepsRecord == LockInv /\ RecordInv /\ [Next]_vars => RecordInv'
<1> SUFFICES ASSUME LockInv, RecordInv, [Next]_vars PROVE RecordInv'
  OBVIOUS
<1>1. CASE UNCHANGED vars
  BY <1>1 DEF vars, disk, local, RecordInv, RecordsHonest, CopiesHonest, RecordsBehind,
              StagesBacked, RemovingPrunable
<1>2. ASSUME NEW p \in Procs,
             \/ \E r \in Runs : StartStep(p, r)
             \/ LockStep(p)
             \/ ProbeStep(p)
             \/ \E s \in StepNames : HandleStep(p, s)
             \/ Close(p)
             \/ Crash(p)
      PROVE  RecordInv'
  <2>1. CASE \E s \in StepNames : HandleStep(p, s)
    BY <2>1, MethodsAreHolderSteps, HolderStepKeepsRecord, SendKeepsRecord
  <2>2. CASE Close(p) \/ Crash(p)
    BY <2>2, LeaveIsQuiet, QuietKeepsRecord DEF Close, Crash
  <2>3. QED
    BY <1>2, <2>1, <2>2, StartStepKeepsRecord, LockStepKeepsRecord, ProbeStepKeepsRecord
<1>3. QED
  BY <1>1, <1>2 DEF Next

\* RecordInv holds in every state a set of ferry processes can bring a run
\* directory to.
THEOREM RecordInvariant == Spec => []RecordInv
<1>1. Init /\ LockInv => RecordInv
  BY InitRecord
<1>2. QED
  BY <1>1, NextKeepsRecord, LockInvariant, PTL DEF Spec

\* A step whose request may have left is never described on disk as one that
\* has not (C1; ledger.go Begin and Decline).
THEOREM SentStaysRecorded == Spec => []SentIsRecorded
<1>1. LockInv /\ RecordInv => SentIsRecorded
  BY DEF LockInv, TypeOK, RecordInv, RecordsHonest, Honest, SentIsRecorded
<1>2. QED
  BY <1>1, LockInvariant, RecordInvariant, PTL

\* A settled step holds no live plan token on disk (C6; ledger.go scrubStep).
THEOREM SettledStaysScrubbed == Spec => []SettledIsScrubbed
<1>1. RecordInv => SettledIsScrubbed
  BY DEF RecordInv, RecordsHonest, Honest, SettledIsScrubbed
<1>2. QED
  BY <1>1, RecordInvariant, PTL

-----------------------------------------------------------------------------
(* What a step may do to a record.                                         *)

\* Some record is created, rewritten by content it was behind, or removed.
RecordStep ==
    \E r \in Runs :
        \/ record[r] = NoRecord /\ \E content \in Run : record' = [record EXCEPT ![r] = content]
        \/ \E content \in Run :
              /\ \A s \in StepNames : Behind(record[r][s], content[s])
              /\ record' = [record EXCEPT ![r] = content]
        \/ Prunable(record[r]) /\ record' = [record EXCEPT ![r] = NoRecord]

LEMMA HolderStepOnRecord ==
    ASSUME LockInv, RecordInv, NEW p \in Procs, NEW s \in StepNames, HolderStep(p, s)
    PROVE  RecordStep \/ record' = record
<1>1. PICK c \in Step, k \in Step, result \in SaveResults :
        /\ pc[p] = "held"
        /\ Write(run[p], [mem[p] EXCEPT ![s] = c], result)
        /\ Fits(mem[p][s], c, k, s \in sent[run[p]])
  BY DEF HolderStep
<1> DEFINE content == [mem[p] EXCEPT ![s] = c]
<1>2. run[p] \in Runs /\ mem[p] \in Run
  BY <1>1 DEF LockInv, TypeOK, Situated
<1>3. content \in Run /\ \A t \in StepNames : content[t] = IF t = s THEN c ELSE mem[p][t]
  BY <1>2 DEF Run
<1>4. \A t \in StepNames : Behind(record[run[p]][t], mem[p][t])
  BY <1>1 DEF RecordInv, RecordsBehind
<1>5. \A t \in StepNames : Behind(record[run[p]][t], content[t])
  BY <1>1, <1>3, <1>4 DEF Fits, Behind, Terminal
<1>6. record' \in {record, [record EXCEPT ![run[p]] = content]}
  BY <1>1 DEF Write
<1> HIDE DEF content
<1>7. QED
  BY <1>2, <1>3, <1>5, <1>6 DEF RecordStep

LEMMA NextOnRecord ==
    ASSUME LockInv, RecordInv, Next
    PROVE  RecordStep \/ record' = record
<1> PICK p \in Procs :
      \/ \E r \in Runs : StartStep(p, r)
      \/ LockStep(p)
      \/ ProbeStep(p)
      \/ \E s \in StepNames : HandleStep(p, s)
      \/ Close(p)
      \/ Crash(p)
  BY DEF Next
<1>1. CASE \E s \in StepNames : HandleStep(p, s)
  BY <1>1, MethodsAreHolderSteps, HolderStepOnRecord DEF Send, disk
<1>2. ASSUME NEW result \in SaveResults, pc[p] \in {"creating", "saving"}, Write(run[p], mem[p], result)
      PROVE  RecordStep \/ record' = record
  <2>1. run[p] \in Runs /\ mem[p] \in Run
    BY <1>2, LedgerAssumption DEF LockInv, TypeOK, Situated
  <2>2. pc[p] = "creating" => record[run[p]] = NoRecord
    BY DEF LockInv, CreatingAlone
  <2>3. pc[p] = "saving" => \A s \in StepNames : Behind(record[run[p]][s], mem[p][s])
    BY DEF RecordInv, RecordsBehind
  <2>4. record' \in {record, [record EXCEPT ![run[p]] = mem[p]]}
    BY <1>2 DEF Write
  <2>5. QED
    BY <1>2, <2>1, <2>2, <2>3, <2>4 DEF RecordStep
<1>3. CASE LockStep(p)
  BY <1>2, <1>3 DEF LockStep, CreateSave, OpenSidecar, Flock, FlockBusy, OpenLoad, OpenGone,
                    RemoveLitter, disk
<1>4. CASE PruneRecord(p)
  BY <1>4 DEF PruneRecord, RecordInv, RemovingPrunable, LockInv, TypeOK, Situated, RecordStep
<1>5. CASE ProbeStep(p)
  BY <1>2, <1>4, <1>5 DEF ProbeStep, OrphanFound, ScrubLoad, ScrubSave, PruneLoad, PruneSidecar,
                          PruneFails
<1>6. CASE \E r \in Runs : StartStep(p, r)
  BY <1>6 DEF StartStep, Create, OpenStat, ListForSweep, ListForOrphans, disk
<1>7. CASE Close(p) \/ Crash(p)
  BY <1>7 DEF Close, Crash
<1>8. QED
  BY <1>1, <1>3, <1>5, <1>6, <1>7

\* No write reopens a settled step or touches request bytes on disk (C2).
THEOREM SettledAndBodyStayForever == Spec => SettledAndBodyStay
<1> DEFINE Stay ==
      \A r \in Runs : (record[r] # NoRecord /\ record'[r] # NoRecord) =>
         \A s \in StepNames :
            /\ Terminal(record[r][s].state) =>
                  \/ record'[r][s].state = record[r][s].state
                  \/ record[r][s].state = "declined" /\ record'[r][s].state = "unreachable"
            /\ record[r][s].body # NoBody => record'[r][s].body = record[r][s].body
<1>1. LockInv /\ RecordInv /\ [Next]_vars => [Stay]_vars
  <2> SUFFICES ASSUME LockInv, RecordInv, Next PROVE Stay
    OBVIOUS
  <2>1. CASE record' = record
    BY <2>1
  <2>2. CASE RecordStep
    BY <2>2 DEF RecordStep, Behind, LockInv, TypeOK
  <2>3. QED
    BY <2>1, <2>2, NextOnRecord
<1>2. QED
  BY <1>1, LockInvariant, RecordInvariant, PTL DEF Spec, SettledAndBodyStay

\* A record disappears only with nothing open in it (AC57, AC92).
THEOREM OnlySettledRecordsEverVanish == Spec => OnlySettledRecordsVanish
<1> DEFINE Settled ==
      \A r \in Runs : (record[r] # NoRecord /\ record'[r] = NoRecord) =>
         \A s \in StepNames :
            /\ record[r][s].state \in {"terminal", "declined", "unreachable"}
            /\ ~HasPlanToken(record[r][s])
<1>1. LockInv /\ RecordInv /\ [Next]_vars => [Settled]_vars
  <2> SUFFICES ASSUME LockInv, RecordInv, Next PROVE Settled
    OBVIOUS
  <2>1. CASE record' = record
    BY <2>1
  <2>2. CASE RecordStep
    BY <2>2, LedgerAssumption DEF RecordStep, Prunable, Terminal, LockInv, TypeOK
  <2>3. QED
    BY <2>1, <2>2, NextOnRecord
<1>2. QED
  BY <1>1, LockInvariant, RecordInvariant, PTL DEF Spec, OnlySettledRecordsVanish

-----------------------------------------------------------------------------
(* RunLedger implements StepLifecycle.                                     *)

\* What a reader sees of one run.
Seen(r) ==
    IF record[r] # NoRecord THEN [s \in StepNames |-> record[r][s].state]
    ELSE IF Unborn(r) THEN Absent
    ELSE Gone

Unmoved == \A r \in Runs : Unborn(r)' <=> Unborn(r)

LEMMA LifeSeen ==
    ASSUME TypeOK, NEW r \in Runs
    PROVE  /\ Life[r] = Seen(r)
           /\ Lifecycle!Present(r) <=> record[r] # NoRecord
<1>1. Life[r] = Seen(r)
  BY DEF Life, Seen
<1>2. record[r] # NoRecord => Seen(r) \in [StepNames -> States]
  BY DEF TypeOK, Run, Step, Seen
<1>3. QED
  BY <1>1, <1>2, LifecycleAssumption DEF Lifecycle!Present, Seen

LEMMA LifeSeenNext ==
    ASSUME TypeOK', NEW r \in Runs
    PROVE  /\ Life'[r] = Seen(r)'
           /\ Lifecycle!Present(r)' <=> record'[r] # NoRecord
<1>1. Life'[r] = Seen(r)'
  BY DEF Life, Seen
<1>2. record'[r] # NoRecord => Seen(r)' \in [StepNames -> States]
  BY DEF TypeOK, Run, Step, Seen
<1>3. QED
  BY <1>1, <1>2, LifecycleAssumption DEF Lifecycle!Present, Seen

LEMMA SeenSame ==
    ASSUME NEW r \in Runs, record'[r] = record[r], Unborn(r)' <=> Unborn(r)
    PROVE  Life'[r] = Life[r]
BY DEF Life

\* Only one run looks different.
LEMMA OneLife ==
    ASSUME NEW r \in Runs, \A q \in Runs \ {r} : Life'[q] = Life[q]
    PROVE  Life' = [Life EXCEPT ![r] = Life'[r]]
<1>1. Life' = [q \in Runs |-> Life'[q]] /\ Life = [q \in Runs |-> Life[q]]
  BY DEF Life
<1>2. [Life EXCEPT ![r] = Life'[r]] = [q \in Runs |-> IF q = r THEN Life'[r] ELSE Life[q]]
  BY <1>1
<1>3. QED
  BY <1>1, <1>2

LEMMA NothingSeen ==
    ASSUME Unmoved, UNCHANGED <<record, sent>>
    PROVE  UNCHANGED <<Life, sent>>
<1>1. \A r \in Runs : Life'[r] = Life[r]
  BY SeenSame DEF Unmoved
<1>2. QED
  BY <1>1 DEF Life

\* A process that is not creating a run, and does not begin to.
LEMMA OthersUnborn ==
    ASSUME NEW p \in Procs, pc[p] # "creating", pc'[p] # "creating", minted' = minted,
           \A q \in Procs \ {p} : pc'[q] = pc[q] /\ run'[q] = run[q]
    PROVE  Unmoved
BY DEF Unmoved, Unborn

\* A process that is through with creating a run.
LEMMA Borne ==
    ASSUME LockInv, NEW p \in Procs, pc[p] = "creating", pc'[p] # "creating", minted' = minted,
           \A q \in Procs \ {p} : pc'[q] = pc[q] /\ run'[q] = run[q], NEW r, r = run[p]
    PROVE  /\ r \in Runs /\ record[r] = NoRecord /\ Unborn(r) /\ ~Unborn(r)'
           /\ \A q \in Runs \ {r} : Unborn(q)' <=> Unborn(q)
<1>1. r \in minted /\ r \in Runs
  BY DEF LockInv, TypeOK, Situated
<1>2. record[r] = NoRecord /\ \A q \in Procs \ {p} : pc[q] = "creating" => run[q] # r
  BY DEF LockInv, CreatingAlone
<1>3. QED
  BY <1>1, <1>2 DEF Unborn

LEMMA LeaveMoves ==
    ASSUME LockInv, NEW p \in Procs, NEW verdict, Leave(p, verdict)
    PROVE  pc'[p] = "idle" /\ \A q \in Procs \ {p} : pc'[q] = pc[q] /\ run'[q] = run[q]
BY DEF LockInv, TypeOK, Leave

\* The id of a run that could not be written is used up.
LEMMA Wastes ==
    ASSUME LockInv, LockInv', NEW p \in Procs, pc[p] = "creating", pc'[p] # "creating",
           UNCHANGED <<record, minted, sent>>,
           \A q \in Procs \ {p} : pc'[q] = pc[q] /\ run'[q] = run[q]
    PROVE  Lifecycle!Next
<1>0. PICK r : r = run[p]
  OBVIOUS
<1>1. /\ r \in Runs /\ record[r] = NoRecord /\ Unborn(r) /\ ~Unborn(r)'
      /\ \A q \in Runs \ {r} : Unborn(q)' <=> Unborn(q)
  BY <1>0, Borne
<1>2. Life[r] = Absent /\ Life'[r] = Gone
  BY <1>1, LifeSeen, LifeSeenNext DEF LockInv, Seen
<1>3. \A q \in Runs \ {r} : Life'[q] = Life[q]
  BY <1>1, SeenSame
<1>4. Life' = [Life EXCEPT ![r] = Gone]
  BY <1>1, <1>2, <1>3, OneLife
<1>5. Lifecycle!Waste(r)
  BY <1>2, <1>4 DEF Lifecycle!Waste
<1>6. QED
  BY <1>1, <1>5 DEF Lifecycle!Next

\* A run appears with every step untouched.
LEMMA Appears ==
    ASSUME LockInv, RecordInv, LockInv', NEW p \in Procs, pc[p] = "creating", pc'[p] # "creating",
           record' = [record EXCEPT ![run[p]] = mem[p]], UNCHANGED <<minted, sent>>,
           \A q \in Procs \ {p} : pc'[q] = pc[q] /\ run'[q] = run[q]
    PROVE  Lifecycle!Next
<1>0. PICK r : r = run[p]
  OBVIOUS
<1>1. /\ r \in Runs /\ record[r] = NoRecord /\ Unborn(r)
      /\ \A q \in Runs \ {r} : Unborn(q)' <=> Unborn(q)
  BY <1>0, Borne
<1>2. mem[p] \in Run /\ \A s \in StepNames : mem[p][s].state = "not_started"
  BY DEF LockInv, Situated, RecordInv, CopiesHonest
<1>3. record'[r] = mem[p] /\ \A q \in Runs \ {r} : record'[q] = record[q]
  BY <1>0, <1>1 DEF LockInv, TypeOK
<1>4. record'[r] # NoRecord
  BY <1>2, <1>3, LedgerAssumption
<1>5. Life[r] = Absent
  BY <1>1, LifeSeen DEF LockInv, Seen
<1>6. Life'[r] = [s \in StepNames |-> "not_started"]
  <2>1. Life'[r] = [s \in StepNames |-> record'[r][s].state]
    BY <1>1, <1>4, LifeSeenNext DEF LockInv, Seen
  <2>2. QED
    BY <1>2, <1>3, <2>1
<1>7. \A q \in Runs \ {r} : Life'[q] = Life[q]
  BY <1>1, <1>3, SeenSame
<1>8. Life' = [Life EXCEPT ![r] = [s \in StepNames |-> "not_started"]]
  BY <1>1, <1>6, <1>7, OneLife
<1>9. Lifecycle!Appear(r)
  BY <1>5, <1>8 DEF Lifecycle!Appear
<1>10. QED
  BY <1>1, <1>9 DEF Lifecycle!Next

\* A write over a record the writer's copy is ahead of is one a reader may see.
LEMMA Rewrites ==
    ASSUME LockInv, LockInv', RecordInv', Unmoved, NEW r \in Runs, record[r] # NoRecord,
           NEW content \in Run, \A s \in StepNames : Behind(record[r][s], content[s]),
           \A s \in StepNames : s \in sent[r] => MayHaveSent(record[r][s].state),
           record' = [record EXCEPT ![r] = content], UNCHANGED sent
    PROVE  Lifecycle!Next
<1>1. record'[r] = content /\ \A q \in Runs \ {r} : record'[q] = record[q]
  BY DEF LockInv, TypeOK
<1>2. content # NoRecord /\ record[r] \in Run
  BY LedgerAssumption DEF LockInv, TypeOK
<1>3. /\ Life[r] = [s \in StepNames |-> record[r][s].state]
      /\ Life'[r] = [s \in StepNames |-> content[s].state]
      /\ Lifecycle!Present(r) /\ Lifecycle!Present(r)'
  <2>1. Life[r] = Seen(r) /\ Life'[r] = Seen(r)' /\ Lifecycle!Present(r) /\ Lifecycle!Present(r)'
    BY <1>1, <1>2, LifeSeen, LifeSeenNext DEF LockInv
  <2>2. Seen(r)' = [s \in StepNames |-> record'[r][s].state]
    BY <1>1, <1>2 DEF Seen
  <2>3. [s \in StepNames |-> record'[r][s].state] = [s \in StepNames |-> content[s].state]
    BY <1>1
  <2>4. QED
    BY <2>1, <2>2, <2>3 DEF Seen
<1>4. ASSUME NEW s \in StepNames
      PROVE  Life'[r][s] \in Lifecycle!After(Life[r][s], s \in sent[r])
  <2>1. PICK old, new : old = record[r][s].state /\ new = content[s].state
    OBVIOUS
  <2>2. old \in States /\ new \in States
    BY <1>2, <2>1 DEF Run, Step
  <2>3. Honest(content[s], s \in sent[r])
    BY <1>1, <1>2 DEF RecordInv, RecordsHonest
  <2>4. /\ s \in sent[r] => new \in {"pending", "answered", "terminal"}
        /\ new \in {"answered", "terminal"} => s \in sent[r]
    BY <2>1, <2>3 DEF Honest, MayHaveSent
  <2>5. old \in {"terminal", "declined", "unreachable"} =>
            new = old \/ (old = "declined" /\ new = "unreachable")
    BY <2>1 DEF Behind, Terminal
  <2>6. new \in Lifecycle!After(old, s \in sent[r])
    BY <2>2, <2>4, <2>5 DEF Lifecycle!After, Lifecycle!Settled, Lifecycle!States, States
  <2>7. QED
    BY <1>3, <2>1, <2>6
<1>5. \A q \in Runs \ {r} : Life'[q] = Life[q]
  BY <1>1, SeenSame DEF Unmoved
<1>6. Lifecycle!Rewrite(r)
  BY <1>3, <1>4, <1>5 DEF Lifecycle!Rewrite
<1>7. QED
  BY <1>6 DEF Lifecycle!Next

LEMMA Vanishes ==
    ASSUME LockInv, RecordInv, LockInv', NEW p \in Procs, PruneRecord(p)
    PROVE  Lifecycle!Next
<1>0. PICK r : r = run[p]
  OBVIOUS
<1>1. /\ pc[p] = "removing" /\ pc'[p] = "unlinking" /\ UNCHANGED <<minted, sent, run>>
      /\ \A q \in Procs \ {p} : pc'[q] = pc[q]
      /\ record' = [record EXCEPT ![r] = NoRecord]
  BY <1>0 DEF PruneRecord, LockInv, TypeOK
<1>2. r \in minted /\ r \in Runs /\ record[r] # NoRecord /\ Prunable(record[r])
  BY <1>0, <1>1 DEF LockInv, TypeOK, Situated, RecordThere, RecordInv, RemovingPrunable
<1>3. Unmoved
  BY <1>1, OthersUnborn
<1>4. ~Unborn(r)'
  BY <1>0, <1>1, <1>2 DEF Unborn, LockInv, CreatingAlone
<1>5. record'[r] = NoRecord /\ \A q \in Runs \ {r} : record'[q] = record[q]
  BY <1>1, <1>2 DEF LockInv, TypeOK
<1>6. Life'[r] = Gone
  BY <1>2, <1>4, <1>5, LifeSeenNext DEF LockInv, Seen
<1>7. \A q \in Runs \ {r} : Life'[q] = Life[q]
  BY <1>3, <1>5, SeenSame DEF Unmoved
<1>8. Life' = [Life EXCEPT ![r] = Gone]
  BY <1>2, <1>6, <1>7, OneLife
<1>9. Lifecycle!Present(r) /\ \A s \in StepNames : Life[r][s] \in Lifecycle!Settled
  BY <1>2, LifeSeen DEF LockInv, Seen, Prunable, Terminal, Lifecycle!Settled
<1>10. Lifecycle!Vanish(r)
  BY <1>1, <1>8, <1>9 DEF Lifecycle!Vanish
<1>11. QED
  BY <1>2, <1>10 DEF Lifecycle!Next

LEMMA Sends ==
    ASSUME LockInv, RecordInv, LockInv', NEW p \in Procs, NEW s \in StepNames, Send(p, s)
    PROVE  Lifecycle!Next
<1>0. PICK r : r = run[p]
  OBVIOUS
<1>1. /\ pc[p] = "held" /\ stage[p][s] = "begun" /\ UNCHANGED <<record, minted, pc, run>>
      /\ sent' = [sent EXCEPT ![r] = @ \cup {s}]
  BY <1>0 DEF Send, disk
<1>2. r \in Runs /\ record[r] # NoRecord /\ record[r][s].state = "pending"
  BY <1>0, <1>1 DEF LockInv, TypeOK, Situated, RecordThere, RecordInv, StagesBacked
<1>3. Life' = Life
  BY <1>1 DEF Life, Unborn
<1>4. Lifecycle!Present(r) /\ Life[r][s] = "pending"
  BY <1>2, LifeSeen DEF LockInv, Seen
<1>5. Lifecycle!Send(r, s)
  BY <1>1, <1>3, <1>4 DEF Lifecycle!Send
<1>6. QED
  BY <1>2, <1>5 DEF Lifecycle!Next

\* Every write of a copy is a rewrite a reader may see, or leaves the record.
LEMMA CopyWritten ==
    ASSUME LockInv, RecordInv, LockInv', RecordInv', NEW p \in Procs, pc[p] \in {"held", "saving"},
           pc'[p] \in {"held", "saving", "idle"}, NEW content \in Run, NEW result,
           Write(run[p], content, result),
           \A s \in StepNames : Behind(record[run[p]][s], content[s]), UNCHANGED <<minted, sent>>,
           \A q \in Procs \ {p} : pc'[q] = pc[q] /\ run'[q] = run[q]
    PROVE  Lifecycle!Next \/ UNCHANGED <<Life, sent>>
<1>0. PICK r : r = run[p]
  OBVIOUS
<1>1. Unmoved
  BY OthersUnborn
<1>2. r \in Runs /\ record[r] # NoRecord
  BY <1>0 DEF LockInv, TypeOK, Situated, RecordThere
<1>3. \A s \in StepNames : s \in sent[r] => MayHaveSent(record[r][s].state)
  BY <1>2 DEF RecordInv, RecordsHonest, Honest
<1>4. record' = record \/ record' = [record EXCEPT ![r] = content]
  BY <1>0 DEF Write
<1>5. CASE record' = record
  BY <1>1, <1>5, NothingSeen
<1>6. CASE record' = [record EXCEPT ![r] = content]
  <2>1. \A s \in StepNames : Behind(record[r][s], content[s])
    BY <1>0
  <2>2. QED
    BY <1>1, <1>2, <1>3, <1>6, <2>1, Rewrites
<1>7. QED
  BY <1>4, <1>5, <1>6

LEMMA CreateSaveLives ==
    ASSUME LockInv, RecordInv, LockInv', NEW p \in Procs, NEW result \in SaveResults, CreateSave(p, result)
    PROVE  Lifecycle!Next
<1>1. pc[p] = "creating" /\ UNCHANGED <<minted, sent>> /\ Write(run[p], mem[p], result)
  BY DEF CreateSave
<1>2. pc'[p] # "creating" /\ \A q \in Procs \ {p} : pc'[q] = pc[q] /\ run'[q] = run[q]
  <2>1. CASE Leave(p, "none")
    BY <2>1, LeaveMoves
  <2>2. CASE pc' = [pc EXCEPT ![p] = "held"] /\ UNCHANGED run
    BY <2>2 DEF LockInv, TypeOK
  <2>3. QED
    BY <2>1, <2>2 DEF CreateSave
<1>3. record' = record \/ record' = [record EXCEPT ![run[p]] = mem[p]]
  BY <1>1 DEF Write
<1>4. QED
  BY <1>1, <1>2, <1>3, Wastes, Appears

LEMMA HandleLives ==
    ASSUME LockInv, RecordInv, LockInv', RecordInv', NEW p \in Procs, NEW s \in StepNames, HandleStep(p, s)
    PROVE  Lifecycle!Next \/ UNCHANGED <<Life, sent>>
<1>1. CASE Send(p, s)
  BY <1>1, Sends
<1>2. CASE HolderStep(p, s)
  <2>1. PICK c \in Step, k \in Step, result \in SaveResults :
          /\ pc[p] = "held"
          /\ Write(run[p], [mem[p] EXCEPT ![s] = c], result)
          /\ Fits(mem[p][s], c, k, s \in sent[run[p]])
          /\ UNCHANGED <<minted, pc, run, sent>>
    BY <1>2 DEF HolderStep
  <2>2. PICK content : content = [mem[p] EXCEPT ![s] = c]
    OBVIOUS
  <2>3. content \in Run /\ \A t \in StepNames : content[t] = IF t = s THEN c ELSE mem[p][t]
    BY <2>1, <2>2 DEF LockInv, Situated, Run
  <2>4. \A t \in StepNames : Behind(record[run[p]][t], mem[p][t])
    BY <2>1 DEF RecordInv, RecordsBehind
  <2>5. \A t \in StepNames : Behind(record[run[p]][t], content[t])
    BY <2>1, <2>3, <2>4 DEF Fits, Behind, Terminal
  <2>6. QED
    BY <2>1, <2>2, <2>3, <2>5, CopyWritten
<1>3. QED
  BY <1>1, <1>2, MethodsAreHolderSteps

\* A step that leaves the records alone and is not about a new run.
LEMMA LeavingLives ==
    ASSUME LockInv, NEW p \in Procs, NEW verdict, pc[p] # "creating", Leave(p, verdict),
           UNCHANGED <<record, minted, sent>>
    PROVE  UNCHANGED <<Life, sent>>
<1>1. Unmoved
  BY LeaveMoves, OthersUnborn
<1>2. QED
  BY <1>1, NothingSeen

LEMMA MovingLives ==
    ASSUME LockInv, NEW p \in Procs, pc[p] # "creating", NEW label, label # "creating",
           pc' = [pc EXCEPT ![p] = label], UNCHANGED <<record, minted, sent>>,
           \A q \in Procs \ {p} : run'[q] = run[q]
    PROVE  UNCHANGED <<Life, sent>>
<1>1. Unmoved
  BY OthersUnborn DEF LockInv, TypeOK
<1>2. QED
  BY <1>1, NothingSeen

LEMMA StartLives ==
    ASSUME LockInv, NEW p \in Procs, NEW r \in Runs, StartStep(p, r)
    PROVE  UNCHANGED <<Life, sent>>
<1>1. ASSUME NEW body \in Bodies, Create(p, r, body) PROVE UNCHANGED <<Life, sent>>
  <2>1. /\ pc[p] = "idle" /\ r \notin minted /\ minted' = minted \cup {r} /\ UNCHANGED <<record, sent>>
        /\ pc'[p] = "creating" /\ run'[p] = r
        /\ \A q \in Procs \ {p} : pc'[q] = pc[q] /\ run'[q] = run[q]
    BY <1>1 DEF Create, Start, LockInv, TypeOK
  <2>2. Unmoved
    BY <2>1 DEF Unmoved, Unborn
  <2>3. QED
    BY <2>1, <2>2, NothingSeen
<1>2. ASSUME NEW which, Start(p, r, which, "opening"), UNCHANGED <<record, minted, sent>>
      PROVE  UNCHANGED <<Life, sent>>
  BY <1>2, MovingLives DEF Start, LockInv, TypeOK
<1>3. QED
  BY <1>1, <1>2 DEF StartStep, OpenStat, ListForSweep, ListForOrphans, disk

LEMMA LockLives ==
    ASSUME LockInv, RecordInv, LockInv', NEW p \in Procs, LockStep(p)
    PROVE  Lifecycle!Next \/ UNCHANGED <<Life, sent>>
<1>1. CASE \E result \in SaveResults : CreateSave(p, result)
  BY <1>1, CreateSaveLives
<1>2. CASE FlockBusy(p) \/ RemoveLitter(p)
  BY <1>2, LeavingLives DEF FlockBusy, RemoveLitter
<1>3. CASE OpenSidecar(p) \/ Flock(p) \/ OpenLoad(p) \/ OpenGone(p)
  BY <1>3, MovingLives DEF OpenSidecar, Flock, OpenLoad, OpenGone, disk
<1>4. QED
  BY <1>1, <1>2, <1>3 DEF LockStep

LEMMA ProbeLives ==
    ASSUME LockInv, RecordInv, LockInv', RecordInv', NEW p \in Procs, ProbeStep(p)
    PROVE  Lifecycle!Next \/ UNCHANGED <<Life, sent>>
<1>1. CASE OrphanFound(p) \/ PruneSidecar(p) \/ PruneFails(p)
  BY <1>1, LeavingLives DEF OrphanFound, PruneSidecar, PruneFails
<1>2. CASE \E expired \in BOOLEAN : ScrubLoad(p, expired)
  BY <1>2, LeavingLives, MovingLives DEF ScrubLoad
<1>3. CASE \E old \in BOOLEAN : PruneLoad(p, old)
  BY <1>3, LeavingLives, MovingLives DEF PruneLoad
<1>4. ASSUME NEW result \in SaveResults, ScrubSave(p, result)
      PROVE  Lifecycle!Next \/ UNCHANGED <<Life, sent>>
  <2>1. /\ pc[p] = "saving" /\ Write(run[p], mem[p], result) /\ Leave(p, "none")
        /\ UNCHANGED <<minted, sent>>
    BY <1>4 DEF ScrubSave
  <2>2. mem[p] \in Run /\ \A s \in StepNames : Behind(record[run[p]][s], mem[p][s])
    BY <2>1 DEF LockInv, Situated, RecordInv, RecordsBehind
  <2>3. pc'[p] = "idle" /\ \A q \in Procs \ {p} : pc'[q] = pc[q] /\ run'[q] = run[q]
    BY <2>1, LeaveMoves
  <2>4. QED
    BY <2>1, <2>2, <2>3, CopyWritten
<1>5. CASE PruneRecord(p)
  BY <1>5, Vanishes
<1>6. QED
  BY <1>1, <1>2, <1>3, <1>4, <1>5 DEF ProbeStep

LEMMA LeavesLive ==
    ASSUME LockInv, LockInv', NEW p \in Procs, Close(p) \/ Crash(p)
    PROVE  Lifecycle!Next \/ UNCHANGED <<Life, sent>>
<1>1. Leave(p, "none") /\ UNCHANGED <<record, minted, sent>>
  BY DEF Close, Crash
<1>2. CASE pc[p] = "creating"
  <2>1. pc'[p] # "creating" /\ \A q \in Procs \ {p} : pc'[q] = pc[q] /\ run'[q] = run[q]
    BY <1>1, LeaveMoves
  <2>2. QED
    BY <1>1, <1>2, <2>1, Wastes
<1>3. CASE pc[p] # "creating"
  BY <1>1, <1>3, LeavingLives
<1>4. QED
  BY <1>2, <1>3

LEMMA NextLives ==
    ASSUME LockInv, RecordInv, LockInv', RecordInv', [Next]_vars
    PROVE  Lifecycle!Next \/ UNCHANGED <<Life, sent>>
<1>1. CASE UNCHANGED vars
  BY <1>1 DEF vars, disk, local, Life, Unborn
<1>2. CASE Next
  BY <1>2, StartLives, LockLives, ProbeLives, HandleLives, LeavesLive DEF Next
<1>3. QED
  BY <1>1, <1>2

\* Whatever processes, crashes and failed writes do, a reader of the run
\* directory sees runs live by StepLifecycle: each appears once, untouched; its
\* steps move along the edges of After; a request leaves only under "pending";
\* and it disappears for good, with nothing open (ledger.go, sweep.go).
THEOREM LedgerImplementsLifecycle == Spec => LifecycleSpec
<1>1. Init => Lifecycle!Init
  <2>1. Init => Life = [r \in Runs |-> Absent]
    BY DEF Init, Life, Unborn
  <2>2. QED
    BY <2>1 DEF Init, Lifecycle!Init
<1>2. LockInv /\ RecordInv /\ LockInv' /\ RecordInv' /\ [Next]_vars => [Lifecycle!Next]_<<Life, sent>>
  BY NextLives
<1>3. QED
  BY <1>1, <1>2, LockInvariant, RecordInvariant, PTL DEF Spec, LifecycleSpec, Lifecycle!Spec

=============================================================================
