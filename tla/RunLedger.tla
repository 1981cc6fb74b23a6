----------------------------- MODULE RunLedger -----------------------------
(***************************************************************************)
(* The run ledger of internal/runs: one directory shared by every ferry    *)
(* process on a machine, holding a record <run>.json and a sidecar         *)
(* <run>.lock per run.                                                     *)
(*                                                                         *)
(* Every process works through one of five jobs: it creates a run, opens   *)
(* one as a holder, or probes one for Orphans, Scrub or Prune.  A system   *)
(* call another process can observe is one action.  flock locks an inode   *)
(* and not a name, so a sidecar is a directory entry pointing at an inode  *)
(* and a process that opened it keeps its own inode whatever happens to    *)
(* the entry afterwards.                                                   *)
(*                                                                         *)
(* A durable write (fsx.WriteFileAtomic) has three results: it succeeds,   *)
(* it fails with the old record in place, or it fails in the directory     *)
(* fsync with the new record already in place.                             *)
(***************************************************************************)
EXTENDS StepRecord, FiniteSets

CONSTANTS
    Procs,       \* ferry processes
    NoProc,      \* nobody holds the flock
    Runs,        \* run ids; each is minted at most once (they are ULIDs)
    NoRecord,    \* no <run>.json
    Inodes,      \* inodes a sidecar may get; a free one may be reused
    NoInode,     \* no <run>.lock, or no open descriptor
    NoRun,       \* a process that works on no run
    MaxAttempts  \* bound on a step's attempts

ASSUME LedgerAssumption ==
    /\ NoProc \notin Procs
    /\ NoInode \notin Inodes
    /\ NoRun \notin Runs
    /\ NoRecord \notin Run
    /\ MaxAttempts \in Nat

VARIABLES
    record,  \* record[r]: the content of <r>.json, or NoRecord
    minted,  \* run ids handed out so far
    entry,   \* entry[r]: the inode the name <r>.lock points at, or NoInode
    flock,   \* flock[i]: the process holding the exclusive flock on inode i
    pc,      \* where a process is in its job
    job,     \* what it came for
    run,     \* the run it works on
    fd,      \* the inode behind its open sidecar descriptor
    mem,     \* the copy of the record in its memory
    stage,   \* stage[p][s]: how far this holder's own request for s has got
    ret,     \* what its last Orphans probe concluded about the run
    sent     \* sent[r]: the steps whose request may have left (the truth)

disk == <<record, minted, entry, flock>>
local == <<pc, job, run, fd, mem, stage, ret>>
vars == <<disk, local, sent>>

Jobs == {"none", "create", "open", "orphans", "scrub", "prune"}
Probes == {"orphans", "scrub", "prune"}
Stages == {"none", "begun", "sent"}
SaveResults == {"ok", "early", "late"}
Verdicts == {"none", "orphan", "held"}
PCs == {"idle", "creating", "opening", "locking", "locked", "held",
        "saving", "removing", "unlinking", "litter"}

\* The locations at which a process owns the flock on its descriptor.
Owning == {"creating", "locked", "held", "saving", "removing", "unlinking"}

NotStaged == [s \in StepNames |-> "none"]

TypeOK ==
    /\ record \in [Runs -> Run \cup {NoRecord}]
    /\ minted \in SUBSET Runs
    /\ entry \in [Runs -> Inodes \cup {NoInode}]
    /\ flock \in [Inodes -> Procs \cup {NoProc}]
    /\ pc \in [Procs -> PCs]
    /\ job \in [Procs -> Jobs]
    /\ run \in [Procs -> Runs \cup {NoRun}]
    /\ fd \in [Procs -> Inodes \cup {NoInode}]
    /\ mem \in [Procs -> Run \cup {NoRecord}]
    /\ stage \in [Procs -> [StepNames -> Stages]]
    /\ ret \in [Procs -> Verdicts]
    /\ sent \in [Runs -> SUBSET StepNames]

Init ==
    /\ record = [r \in Runs |-> NoRecord]
    /\ minted = {}
    /\ entry = [r \in Runs |-> NoInode]
    /\ flock = [i \in Inodes |-> NoProc]
    /\ pc = [p \in Procs |-> "idle"]
    /\ job = [p \in Procs |-> "none"]
    /\ run = [p \in Procs |-> NoRun]
    /\ fd = [p \in Procs |-> NoInode]
    /\ mem = [p \in Procs |-> NoRecord]
    /\ stage = [p \in Procs |-> NotStaged]
    /\ ret = [p \in Procs |-> "none"]
    /\ sent = [r \in Runs |-> {}]

-----------------------------------------------------------------------------
(* Helpers.                                                                *)

\* An inode no name and no descriptor refers to.
Free(i) == /\ flock[i] = NoProc
           /\ \A r \in Runs : entry[r] # i
           /\ \A p \in Procs : fd[p] # i

\* The descriptor is closed, which also drops the flock; the call returns.
Leave(p, verdict) ==
    /\ flock' = [i \in Inodes |-> IF flock[i] = p THEN NoProc ELSE flock[i]]
    /\ pc' = [pc EXCEPT ![p] = "idle"]
    /\ job' = [job EXCEPT ![p] = "none"]
    /\ run' = [run EXCEPT ![p] = NoRun]
    /\ fd' = [fd EXCEPT ![p] = NoInode]
    /\ mem' = [mem EXCEPT ![p] = NoRecord]
    /\ stage' = [stage EXCEPT ![p] = NotStaged]
    /\ ret' = [ret EXCEPT ![p] = verdict]

\* What a write of `content` leaves on disk, by its result.
Write(r, content, result) ==
    record' = IF result = "early" THEN record ELSE [record EXCEPT ![r] = content]

Start(p, r, which, at) ==
    /\ pc[p] = "idle"
    /\ pc' = [pc EXCEPT ![p] = at]
    /\ job' = [job EXCEPT ![p] = which]
    /\ run' = [run EXCEPT ![p] = r]
    /\ ret' = [ret EXCEPT ![p] = "none"]

-----------------------------------------------------------------------------
(* Ledger.Create.                                                          *)

\* The record does not exist and its sidecar is taken.  The id is a fresh
\* ULID, so no other process can name it before the record does.
Create(p, r, body) ==
    /\ r \notin minted
    /\ record[r] = NoRecord
    /\ Start(p, r, "create", "creating")
    /\ \E i \in Inodes :
          /\ Free(i)
          /\ entry' = [entry EXCEPT ![r] = i]
          /\ flock' = [flock EXCEPT ![i] = p]
          /\ fd' = [fd EXCEPT ![p] = i]
    /\ minted' = minted \cup {r}
    /\ mem' = [mem EXCEPT ![p] = NewRun(body)]
    /\ UNCHANGED <<record, stage, sent>>

CreateSave(p, result) ==
    /\ pc[p] = "creating"
    /\ Write(run[p], mem[p], result)
    /\ \/ /\ result = "ok"
          /\ pc' = [pc EXCEPT ![p] = "held"]
          /\ UNCHANGED <<flock, job, run, fd, mem, stage, ret>>
       \/ /\ result # "ok"
          /\ Leave(p, "none")
    /\ UNCHANGED <<minted, entry, sent>>

-----------------------------------------------------------------------------
(* Reaching a run that exists: Open as a holder, or one of the probes.     *)

\* Open stats the record before it touches the sidecar.
OpenStat(p, r) ==
    /\ record[r] # NoRecord
    /\ Start(p, r, "open", "opening")
    /\ UNCHANGED <<disk, fd, mem, stage, sent>>

\* Scrub and Prune list the directory; their first look at the content is
\* under the lock.
ListForSweep(p, r, which) ==
    /\ record[r] # NoRecord
    /\ Start(p, r, which, "opening")
    /\ UNCHANGED <<disk, fd, mem, stage, sent>>

\* Orphans reads the record without the lock, and probes only a run that is
\* unresolved in that copy.
ListForOrphans(p, r) ==
    /\ record[r] # NoRecord
    /\ UnresolvedRun(record[r])
    /\ Start(p, r, "orphans", "opening")
    /\ mem' = [mem EXCEPT ![p] = record[r]]
    /\ UNCHANGED <<disk, fd, stage, sent>>

\* acquire opens the sidecar with O_CREATE.
OpenSidecar(p) ==
    /\ pc[p] = "opening"
    /\ pc' = [pc EXCEPT ![p] = "locking"]
    /\ \/ /\ entry[run[p]] # NoInode
          /\ fd' = [fd EXCEPT ![p] = entry[run[p]]]
          /\ UNCHANGED entry
       \/ /\ entry[run[p]] = NoInode
          /\ \E i \in Inodes :
                /\ Free(i)
                /\ entry' = [entry EXCEPT ![run[p]] = i]
                /\ fd' = [fd EXCEPT ![p] = i]
    /\ UNCHANGED <<record, minted, flock, job, run, mem, stage, ret, sent>>

Flock(p) ==
    /\ pc[p] = "locking"
    /\ flock[fd[p]] = NoProc
    /\ flock' = [flock EXCEPT ![fd[p]] = p]
    /\ pc' = [pc EXCEPT ![p] = "locked"]
    /\ UNCHANGED <<record, minted, entry, job, run, fd, mem, stage, ret, sent>>

\* The lock is somebody else's: at once for a probe, which answers "held",
\* and after the retries of HolderRetry for Open, which is ErrRunLocked.
FlockBusy(p) ==
    /\ pc[p] = "locking"
    /\ flock[fd[p]] # NoProc
    /\ Leave(p, IF job[p] = "orphans" THEN "held" ELSE "none")
    /\ UNCHANGED <<record, minted, entry, sent>>

\* Open re-reads the record under the lock.
OpenLoad(p) ==
    /\ pc[p] = "locked"
    /\ job[p] = "open"
    /\ record[run[p]] # NoRecord
    /\ mem' = [mem EXCEPT ![p] = record[run[p]]]
    /\ pc' = [pc EXCEPT ![p] = "held"]
    /\ UNCHANGED <<disk, job, run, fd, stage, ret, sent>>

\* The record is gone: Open releases first and removes the sidecar second.
OpenGone(p) ==
    /\ pc[p] = "locked"
    /\ job[p] = "open"
    /\ record[run[p]] = NoRecord
    /\ flock' = [flock EXCEPT ![fd[p]] = NoProc]
    /\ fd' = [fd EXCEPT ![p] = NoInode]
    /\ pc' = [pc EXCEPT ![p] = "litter"]
    /\ UNCHANGED <<record, minted, entry, job, run, mem, stage, ret, sent>>

RemoveLitter(p) ==
    /\ pc[p] = "litter"
    /\ entry' = [entry EXCEPT ![run[p]] = NoInode]
    /\ Leave(p, "none")
    /\ UNCHANGED <<record, minted, sent>>

-----------------------------------------------------------------------------
(* The probes, under the lock.                                             *)

\* Orphans does nothing under the lock: having got it is the answer, and the
\* run is reported as the earlier copy had it.
OrphanFound(p) ==
    /\ pc[p] = "locked"
    /\ job[p] = "orphans"
    /\ Leave(p, "orphan")
    /\ UNCHANGED <<record, minted, entry, sent>>

\* Scrub loads the record and saves it only if a token goes.  Whether the
\* plan is past expiry and grace is the local clock's to say.
ScrubLoad(p, expired) ==
    /\ pc[p] = "locked"
    /\ job[p] = "scrub"
    /\ \/ /\ record[run[p]] # NoRecord
          /\ ScrubRun(record[run[p]], expired) # record[run[p]]
          /\ mem' = [mem EXCEPT ![p] = ScrubRun(record[run[p]], expired)]
          /\ pc' = [pc EXCEPT ![p] = "saving"]
          /\ UNCHANGED <<flock, job, run, fd, stage, ret>>
       \/ /\ record[run[p]] # NoRecord => ScrubRun(record[run[p]], expired) = record[run[p]]
          /\ Leave(p, "none")
    /\ UNCHANGED <<record, minted, entry, sent>>

ScrubSave(p, result) ==
    /\ pc[p] = "saving"
    /\ Write(run[p], mem[p], result)
    /\ Leave(p, "none")
    /\ UNCHANGED <<minted, entry, sent>>

\* Prune keeps a record that is gone, open, or younger than the cutoff.
PruneLoad(p, old) ==
    /\ pc[p] = "locked"
    /\ job[p] = "prune"
    /\ \/ /\ record[run[p]] # NoRecord
          /\ Prunable(record[run[p]])
          /\ old
          /\ pc' = [pc EXCEPT ![p] = "removing"]
          /\ UNCHANGED <<flock, job, run, fd, mem, stage, ret>>
       \/ /\ record[run[p]] # NoRecord => ~(Prunable(record[run[p]]) /\ old)
          /\ Leave(p, "none")
    /\ UNCHANGED <<record, minted, entry, sent>>

\* Variant: the sidecar goes first (M107).
PruneSidecarFirst(p) ==
    /\ pc[p] = "removing"
    /\ entry' = [entry EXCEPT ![run[p]] = NoInode]
    /\ pc' = [pc EXCEPT ![p] = "unlinking"]
    /\ UNCHANGED <<record, minted, flock, job, run, fd, mem, stage, ret, sent>>

\* The record goes first.
PruneRecord(p) ==
    /\ pc[p] = "removing"
    /\ record' = [record EXCEPT ![run[p]] = NoRecord]
    /\ pc' = [pc EXCEPT ![p] = "unlinking"]
    /\ UNCHANGED <<minted, entry, flock, job, run, fd, mem, stage, ret, sent>>

\* The sidecar goes second, and the lock with the descriptor.
PruneSidecar(p) ==
    /\ pc[p] = "unlinking"
    /\ entry' = [entry EXCEPT ![run[p]] = NoInode]
    /\ Leave(p, "none")
    /\ UNCHANGED <<record, minted, sent>>

\* Either unlink may fail; the probe ends with what it had done.
PruneFails(p) ==
    /\ pc[p] \in {"removing", "unlinking"}
    /\ Leave(p, "none")
    /\ UNCHANGED <<record, minted, entry, sent>>

-----------------------------------------------------------------------------
(* The methods of a Handle.  Each changes memory, then saves the whole     *)
(* record; only Begin takes its change back when the save fails.  The last *)
(* four are called for the execute step alone (noun/transfers).            *)

\* A method that leaves its change in memory whatever the save returned.
Rewrite(p, s, step, result) ==
    /\ mem' = [mem EXCEPT ![p][s] = step]
    /\ Write(run[p], mem'[p], result)
    /\ UNCHANGED <<minted, entry, flock, pc, job, run, fd, stage, ret, sent>>

\* Begin writes the pending record before the caller may send.  On a failed
\* save memory gets the old state and attempts back, and keeps the body.
Begin(p, s, offered, result) ==
    LET before == mem[p][s]
        after == Began(before, offered)
    IN  /\ pc[p] = "held"
        /\ MayBegin(before, offered)
        /\ before.attempts < MaxAttempts
        /\ Write(run[p], [mem[p] EXCEPT ![s] = after], result)
        /\ mem' = [mem EXCEPT ![p][s] = IF result = "ok" THEN after ELSE WithBody(before, offered)]
        /\ stage' = IF result = "ok" THEN [stage EXCEPT ![p][s] = "begun"] ELSE stage
        /\ UNCHANGED <<minted, entry, flock, pc, job, run, fd, ret, sent>>

\* The caller's side of the write: MarkSent and the request, only after a
\* Begin of this handle returned nil.
Send(p, s) ==
    /\ pc[p] = "held"
    /\ stage[p][s] = "begun"
    /\ stage' = [stage EXCEPT ![p][s] = "sent"]
    /\ sent' = [sent EXCEPT ![run[p]] = @ \cup {s}]
    /\ UNCHANGED <<disk, pc, job, run, fd, mem, ret>>

\* The caller records the answer to a request this handle sent, and again
\* after following its command, but never over a settled answer.
Record(p, s, outcome, result) ==
    /\ pc[p] = "held"
    /\ stage[p][s] = "sent"
    /\ ~Terminal(mem[p][s].state)
    /\ Rewrite(p, s, Recorded(mem[p][s], outcome), result)

AwaitConfirmation(p, s, result) ==
    /\ pc[p] = "held"
    /\ mem[p][s].state \in {"not_started", "awaiting_confirmation"}
    /\ Rewrite(p, s, Awaiting(mem[p][s]), result)

SetPlan(p, s, result) ==
    /\ pc[p] = "held"
    /\ ~Terminal(mem[p][s].state)
    /\ Rewrite(p, s, Planned(mem[p][s]), result)

\* Variant: a step in any state can be declined (M103).
DeclineAnything(p, s, result) ==
    /\ pc[p] = "held"
    /\ Rewrite(p, s, Declined(mem[p][s]), result)

Decline(p, s, result) ==
    /\ pc[p] = "held"
    /\ mem[p][s].state \in {"not_started", "awaiting_confirmation"}
    /\ Rewrite(p, s, Declined(mem[p][s]), result)

Unreachable(p, s, result) ==
    /\ pc[p] = "held"
    /\ ~MayHaveSent(mem[p][s].state)
    /\ Rewrite(p, s, MadeUnreachable(mem[p][s]), result)

Close(p) ==
    /\ pc[p] = "held"
    /\ Leave(p, "none")
    /\ UNCHANGED <<record, minted, entry, sent>>

\* A process dies between two of the steps above: the kernel closes its
\* descriptors, and only the directory survives.
Crash(p) ==
    /\ pc[p] # "idle"
    /\ Leave(p, "none")
    /\ UNCHANGED <<record, minted, entry, sent>>

-----------------------------------------------------------------------------
HandleStep(p, s) ==
    \/ Send(p, s)
    \/ \E result \in SaveResults :
          \/ \E offered \in Bodies \cup {NoBody} : Begin(p, s, offered, result)
          \/ \E outcome \in {"resumable", "settled"} : Record(p, s, outcome, result)
          \/ s \in Gated /\ ( \/ AwaitConfirmation(p, s, result)
                              \/ SetPlan(p, s, result)
                              \/ Decline(p, s, result)
                              \/ Unreachable(p, s, result) )

ProbeStep(p) ==
    \/ OrphanFound(p)
    \/ \E expired \in BOOLEAN : ScrubLoad(p, expired)
    \/ \E result \in SaveResults : ScrubSave(p, result)
    \/ \E old \in BOOLEAN : PruneLoad(p, old)
    \/ PruneRecord(p) \/ PruneSidecar(p) \/ PruneFails(p)

StartStep(p, r) ==
    \/ \E body \in Bodies : Create(p, r, body)
    \/ OpenStat(p, r)
    \/ \E which \in {"scrub", "prune"} : ListForSweep(p, r, which)
    \/ ListForOrphans(p, r)

LockStep(p) ==
    \/ \E result \in SaveResults : CreateSave(p, result)
    \/ OpenSidecar(p) \/ Flock(p) \/ FlockBusy(p)
    \/ OpenLoad(p) \/ OpenGone(p) \/ RemoveLitter(p)

Next ==
    \E p \in Procs :
        \/ \E r \in Runs : StartStep(p, r)
        \/ LockStep(p)
        \/ ProbeStep(p)
        \/ \E s \in StepNames : HandleStep(p, s)
        \/ Close(p) \/ Crash(p)

Spec == Init /\ [][Next]_vars

-----------------------------------------------------------------------------
(* Properties.                                                             *)

\* While a run's record exists, no two processes own its lock: not two
\* holders, and not a holder and a sweep that is about to rewrite or remove
\* the record.  It is what the sidecar, its life beyond every rename and the
\* order of Prune's two unlinks are for (lock.go, sweep.go Prune, M107).
LockExclusion ==
    \A p, q \in Procs :
        /\ pc[p] \in Owning /\ pc[q] \in Owning
        /\ run[p] = run[q]
        /\ record[run[p]] # NoRecord
        => p = q

\* A step whose request may have left the machine is never described on disk
\* as one that has not: whatever sweeps, crashes and failed saves come in
\* between, the record says pending, answered or terminal (C1, and the
\* promise of Handle.Decline that unknown never turns into no).
SentIsRecorded ==
    \A r \in Runs : \A s \in sent[r] :
        record[r] # NoRecord => MayHaveSent(record[r][s].state)

\* A settled step holds no live plan token on disk: the scrub is part of the
\* write that settles it, and no later write of a stale copy brings the token
\* back (C6).
SettledIsScrubbed ==
    \A r \in Runs : record[r] # NoRecord =>
        \A s \in StepNames : Terminal(record[r][s].state) => ~HasPlanToken(record[r][s])

\* No write reopens a settled step: terminal and unreachable stay, declined
\* can only be closed as unreachable.  And no write replaces or drops request
\* bytes once they are on disk (C2: one key, one body).
SettledAndBodyStay ==
    [][\A r \in Runs : (record[r] # NoRecord /\ record'[r] # NoRecord) =>
         \A s \in StepNames :
            /\ Terminal(record[r][s].state) =>
                  \/ record'[r][s].state = record[r][s].state
                  \/ record[r][s].state = "declined" /\ record'[r][s].state = "unreachable"
            /\ record[r][s].body # NoBody => record'[r][s].body = record[r][s].body]_vars

\* A record never disappears while it holds an open question, even when the
\* decision to prune it was taken several steps earlier (AC57, AC92).
OnlySettledRecordsVanish ==
    [][\A r \in Runs : (record[r] # NoRecord /\ record'[r] = NoRecord) =>
         \A s \in StepNames :
            /\ record[r][s].state \in {"terminal", "declined", "unreachable"}
            /\ ~HasPlanToken(record[r][s])]_vars

=============================================================================
