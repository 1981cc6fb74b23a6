-------------------------- MODULE RunLedgerProofs --------------------------
(***************************************************************************)
(* Proofs about RunLedger for any number of processes, runs, steps,        *)
(* bodies and inodes.                                                      *)
(*                                                                         *)
(* The argument has two layers.  LockInv says what the sidecars and flocks *)
(* look like: it is inductive, gives LockExclusion, and so lets every      *)
(* later proof treat the owner of a run's lock as alone with its record.   *)
(* RunRecordProofs then relates the record to the copies in memory.        *)
(***************************************************************************)
EXTENDS LedgerLifecycle, TLAPS

-----------------------------------------------------------------------------
(* The inductive invariant of the lock.                                    *)

\* What each location implies about a process's own variables.
Situated ==
    \A p \in Procs :
        /\ pc[p] # "idle" => run[p] \in minted
        /\ pc[p] \in Owning \cup {"locking"} => fd[p] \in Inodes
        /\ pc[p] \in {"creating", "held", "saving"} => mem[p] \in Run

\* An owner's descriptor carries its flock.
FlockOwned == \A p \in Procs : pc[p] \in Owning => flock[fd[p]] = p

\* A record's sidecar has been there since before the record, and everybody
\* who opened the sidecar of an existing record opened that inode.
SidecarStays ==
    /\ \A r \in Runs : record[r] # NoRecord => r \in minted /\ entry[r] \in Inodes
    /\ \A p \in Procs :
          pc[p] \in Owning \cup {"locking"} /\ record[run[p]] # NoRecord => fd[p] = entry[run[p]]

\* Nobody can name a run whose record is still being created.
CreatingAlone ==
    \A p \in Procs : pc[p] = "creating" =>
        /\ record[run[p]] = NoRecord
        /\ entry[run[p]] = fd[p]
        /\ \A q \in Procs : pc[q] # "idle" /\ run[q] = run[p] => q = p

\* Where the code relies on the record being there, or on it being gone.
RecordThere ==
    \A p \in Procs :
        /\ pc[p] \in {"held", "saving", "removing"} => record[run[p]] # NoRecord
        /\ pc[p] \in {"unlinking", "litter"} => record[run[p]] = NoRecord

LockInv == TypeOK /\ Situated /\ FlockOwned /\ SidecarStays /\ CreatingAlone /\ RecordThere

-----------------------------------------------------------------------------
(* The step functions keep the type of a step.                             *)

LEMMA ScrubType == ASSUME NEW step \in Step PROVE Scrub(step) \in Step
BY DEF Scrub, Step, States, Tokens, Outcomes

LEMMA BeganType ==
    ASSUME NEW step \in Step, NEW offered \in Bodies \cup {NoBody}
    PROVE  /\ WithBody(step, offered) \in Step
           /\ Began(step, offered) \in Step
<1>1. WithBody(step, offered) \in Step
  BY DEF WithBody, Step, States, Tokens, Outcomes
<1>2. ASSUME NEW st \in Step
      PROVE  [st EXCEPT !.state = "pending", !.attempts = @ + 1] \in Step
  <2>1. st.attempts + 1 \in Nat
    BY DEF Step
  <2>2. [st EXCEPT !.state = "pending"].attempts = st.attempts
    BY DEF Step
  <2>3. QED
    BY <2>1, <2>2 DEF Step, States, Tokens, Outcomes
<1>3. QED
  BY <1>1, <1>2 DEF Began

LEMMA RecordedType ==
    ASSUME NEW step \in Step, NEW outcome \in {"resumable", "settled"}
    PROVE  Recorded(step, outcome) \in Step
<1>1. [step EXCEPT !.outcome = outcome, !.state = "answered"] \in Step
  BY DEF Step, States, Tokens, Outcomes
<1>2. [step EXCEPT !.outcome = outcome, !.state = "terminal"] \in Step
  BY DEF Step, States, Tokens, Outcomes
<1>3. QED
  BY <1>1, <1>2, ScrubType DEF Recorded

LEMMA SettingTypes ==
    ASSUME NEW step \in Step
    PROVE  /\ Awaiting(step) \in Step
           /\ Planned(step) \in Step
           /\ Declined(step) \in Step
           /\ MadeUnreachable(step) \in Step
<1>1. Awaiting(step) \in Step
  BY DEF Awaiting, Step, States, Tokens, Outcomes
<1>2. Planned(step) \in Step
  BY DEF Planned, Step, States, Tokens, Outcomes
<1>3. [step EXCEPT !.state = "declined"] \in Step
  BY DEF Step, States, Tokens, Outcomes
<1>4. [step EXCEPT !.state = "unreachable"] \in Step
  BY DEF Step, States, Tokens, Outcomes
<1>5. QED
  BY <1>1, <1>2, <1>3, <1>4, ScrubType DEF Declined, MadeUnreachable

LEMMA NewRunType == ASSUME NEW body \in Bodies PROVE NewRun(body) \in Run
BY StepAssumption DEF NewRun, NewStep, Run, Step, States, Tokens, Outcomes

LEMMA ScrubRunType == ASSUME NEW r \in Run, NEW expired \in BOOLEAN PROVE ScrubRun(r, expired) \in Run
BY ScrubType DEF ScrubRun, Run

-----------------------------------------------------------------------------
(* The handle's methods, as far as the lock is concerned.                  *)

\* Some rewrite of the record by a holder, and some change of its memory.
HolderWrites(p) ==
    \E content, kept \in Run, result \in SaveResults :
        /\ pc[p] = "held"
        /\ Write(run[p], content, result)
        /\ mem' = [mem EXCEPT ![p] = kept]
        /\ stage' \in [Procs -> [StepNames -> Stages]]
        /\ UNCHANGED <<minted, entry, flock, pc, job, run, fd, ret, sent>>

LEMMA RewriteIsHolderWrites ==
    ASSUME LockInv, NEW p \in Procs, NEW s \in StepNames, NEW result \in SaveResults,
           NEW step \in Step, pc[p] = "held", Rewrite(p, s, step, result)
    PROVE  HolderWrites(p)
<1> DEFINE kept == [mem[p] EXCEPT ![s] = step]
<1>1. mem[p] \in Run
  BY DEF LockInv, Situated
<1>2. kept \in Run
  BY <1>1 DEF Run
<1>3. mem' = [mem EXCEPT ![p] = kept]
  BY DEF Rewrite
<1>4. mem'[p] = kept
  BY <1>3 DEF LockInv, TypeOK
<1>5. stage' \in [Procs -> [StepNames -> Stages]]
  BY DEF Rewrite, LockInv, TypeOK
<1>6. QED
  BY <1>2, <1>3, <1>4, <1>5 DEF HolderWrites, Rewrite

LEMMA BeginIsHolderWrites ==
    ASSUME LockInv, NEW p \in Procs, NEW s \in StepNames, NEW result \in SaveResults,
           NEW offered \in Bodies \cup {NoBody}, Begin(p, s, offered, result)
    PROVE  HolderWrites(p)
<1> DEFINE after == Began(mem[p][s], offered)
           kept == IF result = "ok" THEN after ELSE WithBody(mem[p][s], offered)
<1>1. mem[p] \in Run /\ pc[p] = "held"
  BY DEF LockInv, Situated, Begin
<1>2. mem[p][s] \in Step
  BY <1>1 DEF Run
<1>3. after \in Step /\ kept \in Step
  BY <1>2, BeganType
<1>4. [mem[p] EXCEPT ![s] = after] \in Run /\ [mem[p] EXCEPT ![s] = kept] \in Run
  BY <1>1, <1>3 DEF Run
<1>5. mem' = [mem EXCEPT ![p] = [mem[p] EXCEPT ![s] = kept]]
  BY DEF Begin
<1>6. stage' \in [Procs -> [StepNames -> Stages]]
  BY DEF Begin, LockInv, TypeOK, Stages
<1>7. Write(run[p], [mem[p] EXCEPT ![s] = after], result)
  BY DEF Begin
<1>8. UNCHANGED <<minted, entry, flock, pc, job, run, fd, ret, sent>>
  BY DEF Begin
<1>9. QED
  BY <1>1, <1>4, <1>5, <1>6, <1>7, <1>8 DEF HolderWrites

\* Every method of a Handle but Send is such a rewrite.
LEMMA MethodsAreHolderWrites ==
    ASSUME LockInv, NEW p \in Procs, NEW s \in StepNames, HandleStep(p, s)
    PROVE  HolderWrites(p) \/ Send(p, s)
<1>1. pc[p] = "held" => mem[p][s] \in Step
  BY DEF LockInv, Situated, Run
<1> SUFFICES ASSUME NEW result \in SaveResults,
                    \/ \E offered \in Bodies \cup {NoBody} : Begin(p, s, offered, result)
                    \/ \E outcome \in {"resumable", "settled"} : Record(p, s, outcome, result)
                    \/ AwaitConfirmation(p, s, result)
                    \/ SetPlan(p, s, result)
                    \/ Decline(p, s, result)
                    \/ Unreachable(p, s, result)
             PROVE  HolderWrites(p)
  BY DEF HandleStep
<1>2. CASE \E offered \in Bodies \cup {NoBody} : Begin(p, s, offered, result)
  BY <1>2, BeginIsHolderWrites
<1>3. CASE \E outcome \in {"resumable", "settled"} : Record(p, s, outcome, result)
  BY <1>1, <1>3, RecordedType, RewriteIsHolderWrites DEF Record
<1>4. CASE AwaitConfirmation(p, s, result)
  BY <1>1, <1>4, SettingTypes, RewriteIsHolderWrites DEF AwaitConfirmation
<1>5. CASE SetPlan(p, s, result)
  BY <1>1, <1>5, SettingTypes, RewriteIsHolderWrites DEF SetPlan
<1>6. CASE Decline(p, s, result)
  BY <1>1, <1>6, SettingTypes, RewriteIsHolderWrites DEF Decline
<1>7. CASE Unreachable(p, s, result)
  BY <1>1, <1>7, SettingTypes, RewriteIsHolderWrites DEF Unreachable
<1>8. QED
  BY <1>2, <1>3, <1>4, <1>5, <1>6, <1>7

-----------------------------------------------------------------------------
(* One lemma for each way a step can touch the lock.                       *)

\* Leaving puts values of the right type everywhere.
LEMMA LeaveTypes ==
    ASSUME TypeOK, NEW p \in Procs, NEW verdict \in Verdicts, Leave(p, verdict)
    PROVE  /\ flock' \in [Inodes -> Procs \cup {NoProc}]
           /\ pc' \in [Procs -> PCs]
           /\ job' \in [Procs -> Jobs]
           /\ run' \in [Procs -> Runs \cup {NoRun}]
           /\ fd' \in [Procs -> Inodes \cup {NoInode}]
           /\ mem' \in [Procs -> Run \cup {NoRecord}]
           /\ stage' \in [Procs -> [StepNames -> Stages]]
           /\ ret' \in [Procs -> Verdicts]
<1>1. flock' \in [Inodes -> Procs \cup {NoProc}]
  BY DEF TypeOK, Leave
<1>2. pc' \in [Procs -> PCs]
  BY DEF TypeOK, Leave, PCs
<1>3. job' \in [Procs -> Jobs]
  BY DEF TypeOK, Leave, Jobs
<1>4. run' \in [Procs -> Runs \cup {NoRun}] /\ fd' \in [Procs -> Inodes \cup {NoInode}]
  BY DEF TypeOK, Leave
<1>5. mem' \in [Procs -> Run \cup {NoRecord}]
  BY DEF TypeOK, Leave
<1>6. NotStaged \in [StepNames -> Stages]
  BY DEF NotStaged, Stages
<1>7. stage' \in [Procs -> [StepNames -> Stages]]
  BY <1>6 DEF TypeOK, Leave
<1>8. ret' \in [Procs -> Verdicts]
  BY DEF TypeOK, Leave
<1>9. QED
  BY <1>1, <1>2, <1>3, <1>4, <1>5, <1>7, <1>8

\* A process ends its job and the directory stays as it was.
LEMMA LeavingKeepsLock ==
    ASSUME LockInv, NEW p \in Procs, NEW verdict \in Verdicts, Leave(p, verdict),
           UNCHANGED <<record, minted, entry, sent>>
    PROVE  LockInv'
<1> USE DEF LockInv
<1>1. TypeOK'
  BY LeaveTypes DEF TypeOK
<1>2. Situated'
  BY LedgerAssumption DEF TypeOK, Situated, FlockOwned, SidecarStays, CreatingAlone, RecordThere, PCs, Owning, Leave
<1>3. FlockOwned'
  BY LedgerAssumption DEF TypeOK, Situated, FlockOwned, SidecarStays, CreatingAlone, RecordThere, PCs, Owning, Leave
<1>4. SidecarStays'
  BY LedgerAssumption DEF TypeOK, Situated, FlockOwned, SidecarStays, CreatingAlone, RecordThere, PCs, Owning, Leave
<1>5. CreatingAlone'
  BY LedgerAssumption DEF TypeOK, Situated, FlockOwned, SidecarStays, CreatingAlone, RecordThere, PCs, Owning, Leave
<1>6. RecordThere'
  BY LedgerAssumption DEF TypeOK, Situated, FlockOwned, SidecarStays, CreatingAlone, RecordThere, PCs, Owning, Leave
<1>7. QED
  BY <1>1, <1>2, <1>3, <1>4, <1>5, <1>6

\* A holder rewrites its record, whatever the result of the save.
LEMMA HolderWritesKeepsLock ==
    ASSUME LockInv, NEW p \in Procs, HolderWrites(p)
    PROVE  LockInv'
<1> USE DEF LockInv
<1>1. TypeOK'
  <2>1. record' \in [Runs -> Run \cup {NoRecord}]
    BY LedgerAssumption DEF TypeOK, HolderWrites, Write
  <2>2. mem' \in [Procs -> Run \cup {NoRecord}]
    BY LedgerAssumption DEF TypeOK, HolderWrites, Write
  <2>3. QED
    BY <2>1, <2>2 DEF TypeOK, HolderWrites, Write
<1>2. Situated'
  BY LedgerAssumption DEF TypeOK, Situated, FlockOwned, SidecarStays, CreatingAlone, RecordThere, PCs, Owning, HolderWrites, Write
<1>3. FlockOwned'
  BY LedgerAssumption DEF TypeOK, Situated, FlockOwned, SidecarStays, CreatingAlone, RecordThere, PCs, Owning, HolderWrites, Write
<1>4. SidecarStays'
  BY LedgerAssumption DEF TypeOK, Situated, FlockOwned, SidecarStays, CreatingAlone, RecordThere, PCs, Owning, HolderWrites, Write
<1>5. CreatingAlone'
  BY LedgerAssumption DEF TypeOK, Situated, FlockOwned, SidecarStays, CreatingAlone, RecordThere, PCs, Owning, HolderWrites, Write
<1>6. RecordThere'
  BY LedgerAssumption DEF TypeOK, Situated, FlockOwned, SidecarStays, CreatingAlone, RecordThere, PCs, Owning, HolderWrites, Write
<1>7. QED
  BY <1>1, <1>2, <1>3, <1>4, <1>5, <1>6

\* A fresh run takes an inode nobody else refers to.
LEMMA CreateKeepsLock ==
    ASSUME LockInv, NEW p \in Procs, NEW r \in Runs, NEW body \in Bodies, Create(p, r, body)
    PROVE  LockInv'
<1> USE DEF LockInv
<1>1. TypeOK'
  <2>1. minted' \in SUBSET Runs
    BY NewRunType, LedgerAssumption DEF TypeOK, Create, Start, PCs, Jobs, Verdicts
  <2>2. entry' \in [Runs -> Inodes \cup {NoInode}]
    BY NewRunType, LedgerAssumption DEF TypeOK, Create, Start, PCs, Jobs, Verdicts
  <2>3. flock' \in [Inodes -> Procs \cup {NoProc}]
    BY NewRunType, LedgerAssumption DEF TypeOK, Create, Start, PCs, Jobs, Verdicts
  <2>4. pc' \in [Procs -> PCs]
    BY NewRunType, LedgerAssumption DEF TypeOK, Create, Start, PCs, Jobs, Verdicts
  <2>5. job' \in [Procs -> Jobs]
    BY NewRunType, LedgerAssumption DEF TypeOK, Create, Start, PCs, Jobs, Verdicts
  <2>6. run' \in [Procs -> Runs \cup {NoRun}]
    BY NewRunType, LedgerAssumption DEF TypeOK, Create, Start, PCs, Jobs, Verdicts
  <2>7. fd' \in [Procs -> Inodes \cup {NoInode}]
    BY NewRunType, LedgerAssumption DEF TypeOK, Create, Start, PCs, Jobs, Verdicts
  <2>8. mem' \in [Procs -> Run \cup {NoRecord}]
    BY NewRunType, LedgerAssumption DEF TypeOK, Create, Start, PCs, Jobs, Verdicts
  <2>9. ret' \in [Procs -> Verdicts]
    BY NewRunType, LedgerAssumption DEF TypeOK, Create, Start, PCs, Jobs, Verdicts
  <2>10. QED
    BY <2>1, <2>2, <2>3, <2>4, <2>5, <2>6, <2>7, <2>8, <2>9 DEF TypeOK, Create, Start, PCs, Jobs, Verdicts
<1>2. Situated'
  BY NewRunType, LedgerAssumption DEF TypeOK, Situated, PCs, Owning, Create, Start
<1>3. FlockOwned'
  BY LedgerAssumption DEF TypeOK, Situated, FlockOwned, SidecarStays, CreatingAlone, RecordThere, PCs, Owning, Create, Start, Free
<1>4. SidecarStays'
  BY LedgerAssumption DEF TypeOK, Situated, FlockOwned, SidecarStays, CreatingAlone, RecordThere, PCs, Owning, Create, Start, Free
<1>5. CreatingAlone'
  BY LedgerAssumption DEF TypeOK, Situated, FlockOwned, SidecarStays, CreatingAlone, RecordThere, PCs, Owning, Create, Start, Free
<1>6. RecordThere'
  BY LedgerAssumption DEF TypeOK, Situated, FlockOwned, SidecarStays, CreatingAlone, RecordThere, PCs, Owning, Create, Start, Free
<1>7. QED
  BY <1>1, <1>2, <1>3, <1>4, <1>5, <1>6

\* Create saved the record and returns a Handle.
LEMMA CreatedKeepsLock ==
    ASSUME LockInv, NEW p \in Procs, pc[p] = "creating", Write(run[p], mem[p], "ok"),
           pc' = [pc EXCEPT ![p] = "held"],
           UNCHANGED <<minted, entry, flock, job, run, fd, mem, stage, ret, sent>>
    PROVE  LockInv'
<1> USE DEF LockInv
<1>0. mem[p] \in Run /\ run[p] \in Runs
  BY LedgerAssumption DEF Situated, TypeOK
<1>1. TypeOK'
  BY <1>0, LedgerAssumption DEF TypeOK, Situated, FlockOwned, SidecarStays, CreatingAlone, RecordThere, PCs, Owning, Write
<1>2. Situated'
  BY <1>0, LedgerAssumption DEF TypeOK, Situated, FlockOwned, SidecarStays, CreatingAlone, RecordThere, PCs, Owning, Write
<1>3. FlockOwned'
  BY <1>0, LedgerAssumption DEF TypeOK, Situated, FlockOwned, SidecarStays, CreatingAlone, RecordThere, PCs, Owning, Write
<1>4. SidecarStays'
  BY <1>0, LedgerAssumption DEF TypeOK, Situated, FlockOwned, SidecarStays, CreatingAlone, RecordThere, PCs, Owning, Write
<1>5. CreatingAlone'
  BY <1>0, LedgerAssumption DEF TypeOK, Situated, FlockOwned, SidecarStays, CreatingAlone, RecordThere, PCs, Owning, Write
<1>6. RecordThere'
  BY <1>0, LedgerAssumption DEF TypeOK, Situated, FlockOwned, SidecarStays, CreatingAlone, RecordThere, PCs, Owning, Write
<1>7. QED
  BY <1>1, <1>2, <1>3, <1>4, <1>5, <1>6

\* A process writes the record it prepared and ends its job: a scrub, or a
\* Create whose save reported an error.
LEMMA SavedKeepsLock ==
    ASSUME LockInv, NEW p \in Procs, NEW result \in SaveResults, pc[p] \in {"creating", "saving"},
           Write(run[p], mem[p], result), Leave(p, "none"), UNCHANGED <<minted, entry, sent>>
    PROVE  LockInv'
<1> USE DEF LockInv
<1>0. mem[p] \in Run /\ run[p] \in Runs /\ "none" \in Verdicts
  BY DEF Situated, TypeOK, Verdicts
<1>1. TypeOK'
  <2>1. record' \in [Runs -> Run \cup {NoRecord}]
    BY <1>0 DEF TypeOK, Write
  <2>2. QED
    BY <1>0, <2>1, LeaveTypes DEF TypeOK
<1>2. Situated'
  BY <1>0, LedgerAssumption DEF TypeOK, Situated, FlockOwned, SidecarStays, CreatingAlone, RecordThere, PCs, Owning, Write, Leave
<1>3. FlockOwned'
  BY <1>0, LedgerAssumption DEF TypeOK, Situated, FlockOwned, SidecarStays, CreatingAlone, RecordThere, PCs, Owning, Write, Leave
<1>4. SidecarStays'
  BY <1>0, LedgerAssumption DEF TypeOK, Situated, FlockOwned, SidecarStays, CreatingAlone, RecordThere, PCs, Owning, Write, Leave
<1>5. CreatingAlone'
  BY <1>0, LedgerAssumption DEF TypeOK, Situated, FlockOwned, SidecarStays, CreatingAlone, RecordThere, PCs, Owning, Write, Leave
<1>6. RecordThere'
  BY <1>0, LedgerAssumption DEF TypeOK, Situated, FlockOwned, SidecarStays, CreatingAlone, RecordThere, PCs, Owning, Write, Leave
<1>7. QED
  BY <1>1, <1>2, <1>3, <1>4, <1>5, <1>6

\* Open or a probe picks a run whose record it saw.
LEMMA StartKeepsLock ==
    ASSUME LockInv, NEW p \in Procs, NEW r \in Runs, NEW which \in Jobs, record[r] # NoRecord, Start(p, r, which, "opening"),
           mem' \in [Procs -> Run \cup {NoRecord}], \A q \in Procs \ {p} : mem'[q] = mem[q],
           UNCHANGED <<disk, fd, stage, sent>>
    PROVE  LockInv'
<1> USE DEF LockInv
<1>1. TypeOK'
  <2>1. pc' \in [Procs -> PCs]
    BY LedgerAssumption DEF TypeOK, Start, PCs, Jobs, Verdicts, disk
  <2>2. job' \in [Procs -> Jobs]
    BY LedgerAssumption DEF TypeOK, Start, PCs, Jobs, Verdicts, disk
  <2>3. run' \in [Procs -> Runs \cup {NoRun}]
    BY LedgerAssumption DEF TypeOK, Start, PCs, Jobs, Verdicts, disk
  <2>4. ret' \in [Procs -> Verdicts]
    BY LedgerAssumption DEF TypeOK, Start, PCs, Jobs, Verdicts, disk
  <2>5. QED
    BY <2>1, <2>2, <2>3, <2>4 DEF TypeOK, Start, PCs, Jobs, Verdicts, disk
<1>2. Situated'
  BY LedgerAssumption DEF TypeOK, Situated, FlockOwned, SidecarStays, CreatingAlone, RecordThere, PCs, Owning, Start, disk
<1>3. FlockOwned'
  BY LedgerAssumption DEF TypeOK, Situated, FlockOwned, SidecarStays, CreatingAlone, RecordThere, PCs, Owning, Start, disk
<1>4. SidecarStays'
  BY LedgerAssumption DEF TypeOK, Situated, FlockOwned, SidecarStays, CreatingAlone, RecordThere, PCs, Owning, Start, disk
<1>5. CreatingAlone'
  BY DEF TypeOK, SidecarStays, Situated, CreatingAlone, Start, disk
<1>6. RecordThere'
  BY LedgerAssumption DEF TypeOK, Situated, FlockOwned, SidecarStays, CreatingAlone, RecordThere, PCs, Owning, Start, disk
<1>7. QED
  BY <1>1, <1>2, <1>3, <1>4, <1>5, <1>6

\* The sidecar of an existing record is opened, never created anew.
LEMMA OpenSidecarKeepsLock ==
    ASSUME LockInv, NEW p \in Procs, OpenSidecar(p)
    PROVE  LockInv'
<1> USE DEF LockInv
<1>1. TypeOK'
  <2>1. entry' \in [Runs -> Inodes \cup {NoInode}]
    BY LedgerAssumption DEF TypeOK, OpenSidecar, PCs, Situated
  <2>2. fd' \in [Procs -> Inodes \cup {NoInode}]
    BY LedgerAssumption DEF TypeOK, OpenSidecar, PCs, Situated
  <2>3. pc' \in [Procs -> PCs]
    BY LedgerAssumption DEF TypeOK, OpenSidecar, PCs, Situated
  <2>4. QED
    BY <2>1, <2>2, <2>3 DEF TypeOK, OpenSidecar, PCs, Situated
<1>2. Situated'
  BY LedgerAssumption DEF TypeOK, Situated, FlockOwned, SidecarStays, CreatingAlone, RecordThere, PCs, Owning, OpenSidecar, Free
<1>3. FlockOwned'
  BY LedgerAssumption DEF TypeOK, Situated, FlockOwned, SidecarStays, CreatingAlone, RecordThere, PCs, Owning, OpenSidecar, Free
<1>4. SidecarStays'
  BY LedgerAssumption DEF TypeOK, Situated, FlockOwned, SidecarStays, CreatingAlone, RecordThere, PCs, Owning, OpenSidecar, Free
<1>5. CreatingAlone'
  BY LedgerAssumption DEF TypeOK, Situated, FlockOwned, SidecarStays, CreatingAlone, RecordThere, PCs, Owning, OpenSidecar, Free
<1>6. RecordThere'
  BY LedgerAssumption DEF TypeOK, Situated, FlockOwned, SidecarStays, CreatingAlone, RecordThere, PCs, Owning, OpenSidecar, Free
<1>7. QED
  BY <1>1, <1>2, <1>3, <1>4, <1>5, <1>6

\* The flock is taken only when nobody has it.
LEMMA FlockKeepsLock ==
    ASSUME LockInv, NEW p \in Procs, Flock(p)
    PROVE  LockInv'
<1> USE DEF LockInv
<1>1. TypeOK'
  BY LedgerAssumption DEF TypeOK, Situated, FlockOwned, SidecarStays, CreatingAlone, RecordThere, PCs, Owning, Flock
<1>2. Situated'
  BY LedgerAssumption DEF TypeOK, Situated, FlockOwned, SidecarStays, CreatingAlone, RecordThere, PCs, Owning, Flock
<1>3. FlockOwned'
  BY LedgerAssumption DEF TypeOK, Situated, FlockOwned, SidecarStays, CreatingAlone, RecordThere, PCs, Owning, Flock
<1>4. SidecarStays'
  BY LedgerAssumption DEF TypeOK, Situated, FlockOwned, SidecarStays, CreatingAlone, RecordThere, PCs, Owning, Flock
<1>5. CreatingAlone'
  BY LedgerAssumption DEF TypeOK, Situated, FlockOwned, SidecarStays, CreatingAlone, RecordThere, PCs, Owning, Flock
<1>6. RecordThere'
  BY LedgerAssumption DEF TypeOK, Situated, FlockOwned, SidecarStays, CreatingAlone, RecordThere, PCs, Owning, Flock
<1>7. QED
  BY <1>1, <1>2, <1>3, <1>4, <1>5, <1>6

\* Open becomes a holder with what it read under the lock.
LEMMA OpenLoadKeepsLock ==
    ASSUME LockInv, NEW p \in Procs, OpenLoad(p)
    PROVE  LockInv'
<1> USE DEF LockInv
<1>1. TypeOK'
  BY LedgerAssumption DEF TypeOK, Situated, FlockOwned, SidecarStays, CreatingAlone, RecordThere, PCs, Owning, OpenLoad, disk
<1>2. Situated'
  BY LedgerAssumption DEF TypeOK, Situated, FlockOwned, SidecarStays, CreatingAlone, RecordThere, PCs, Owning, OpenLoad, disk
<1>3. FlockOwned'
  BY LedgerAssumption DEF TypeOK, Situated, FlockOwned, SidecarStays, CreatingAlone, RecordThere, PCs, Owning, OpenLoad, disk
<1>4. SidecarStays'
  BY LedgerAssumption DEF TypeOK, Situated, FlockOwned, SidecarStays, CreatingAlone, RecordThere, PCs, Owning, OpenLoad, disk
<1>5. CreatingAlone'
  BY LedgerAssumption DEF TypeOK, Situated, FlockOwned, SidecarStays, CreatingAlone, RecordThere, PCs, Owning, OpenLoad, disk
<1>6. RecordThere'
  BY LedgerAssumption DEF TypeOK, Situated, FlockOwned, SidecarStays, CreatingAlone, RecordThere, PCs, Owning, OpenLoad, disk
<1>7. QED
  BY <1>1, <1>2, <1>3, <1>4, <1>5, <1>6

\* Open found the record gone.
LEMMA OpenGoneKeepsLock ==
    ASSUME LockInv, NEW p \in Procs, OpenGone(p)
    PROVE  LockInv'
<1> USE DEF LockInv
<1>1. TypeOK'
  BY LedgerAssumption DEF TypeOK, Situated, FlockOwned, SidecarStays, CreatingAlone, RecordThere, PCs, Owning, OpenGone
<1>2. Situated'
  BY LedgerAssumption DEF TypeOK, Situated, FlockOwned, SidecarStays, CreatingAlone, RecordThere, PCs, Owning, OpenGone
<1>3. FlockOwned'
  BY LedgerAssumption DEF TypeOK, Situated, FlockOwned, SidecarStays, CreatingAlone, RecordThere, PCs, Owning, OpenGone
<1>4. SidecarStays'
  BY LedgerAssumption DEF TypeOK, Situated, FlockOwned, SidecarStays, CreatingAlone, RecordThere, PCs, Owning, OpenGone
<1>5. CreatingAlone'
  BY LedgerAssumption DEF TypeOK, Situated, FlockOwned, SidecarStays, CreatingAlone, RecordThere, PCs, Owning, OpenGone
<1>6. RecordThere'
  BY LedgerAssumption DEF TypeOK, Situated, FlockOwned, SidecarStays, CreatingAlone, RecordThere, PCs, Owning, OpenGone
<1>7. QED
  BY <1>1, <1>2, <1>3, <1>4, <1>5, <1>6

\* A sidecar is removed only once its record is gone for good.
LEMMA RemoveEntryKeepsLock ==
    ASSUME LockInv, NEW p \in Procs, pc[p] \in {"litter", "unlinking"},
           entry' = [entry EXCEPT ![run[p]] = NoInode], Leave(p, "none"),
           UNCHANGED <<record, minted, sent>>
    PROVE  LockInv'
<1> USE DEF LockInv
<1>0. run[p] \in Runs /\ record[run[p]] = NoRecord /\ "none" \in Verdicts
  BY DEF Situated, TypeOK, RecordThere, Verdicts
<1>1. TypeOK'
  BY <1>0, LeaveTypes DEF TypeOK
<1>2. Situated'
  BY <1>0, LedgerAssumption DEF TypeOK, Situated, FlockOwned, SidecarStays, CreatingAlone, RecordThere, PCs, Owning, Leave
<1>3. FlockOwned'
  BY <1>0, LedgerAssumption DEF TypeOK, Situated, FlockOwned, SidecarStays, CreatingAlone, RecordThere, PCs, Owning, Leave
<1>4. SidecarStays'
  BY <1>0, LedgerAssumption DEF TypeOK, Situated, FlockOwned, SidecarStays, CreatingAlone, RecordThere, PCs, Owning, Leave
<1>5. CreatingAlone'
  BY <1>0, LedgerAssumption DEF TypeOK, Situated, FlockOwned, SidecarStays, CreatingAlone, RecordThere, PCs, Owning, Leave
<1>6. RecordThere'
  BY <1>0, LedgerAssumption DEF TypeOK, Situated, FlockOwned, SidecarStays, CreatingAlone, RecordThere, PCs, Owning, Leave
<1>7. QED
  BY <1>1, <1>2, <1>3, <1>4, <1>5, <1>6

\* Scrub prepares the record it is going to save.
LEMMA ScrubLoadKeepsLock ==
    ASSUME LockInv, NEW p \in Procs, NEW content \in Run, pc[p] = "locked", record[run[p]] # NoRecord,
           mem' = [mem EXCEPT ![p] = content], pc' = [pc EXCEPT ![p] = "saving"],
           UNCHANGED <<record, minted, entry, flock, job, run, fd, stage, ret, sent>>
    PROVE  LockInv'
<1> USE DEF LockInv
<1>1. TypeOK'
  BY LedgerAssumption DEF TypeOK, Situated, FlockOwned, SidecarStays, CreatingAlone, RecordThere, PCs, Owning, Verdicts
<1>2. Situated'
  BY LedgerAssumption DEF TypeOK, Situated, FlockOwned, SidecarStays, CreatingAlone, RecordThere, PCs, Owning, Verdicts
<1>3. FlockOwned'
  BY LedgerAssumption DEF TypeOK, Situated, FlockOwned, SidecarStays, CreatingAlone, RecordThere, PCs, Owning, Verdicts
<1>4. SidecarStays'
  BY LedgerAssumption DEF TypeOK, Situated, FlockOwned, SidecarStays, CreatingAlone, RecordThere, PCs, Owning, Verdicts
<1>5. CreatingAlone'
  BY LedgerAssumption DEF TypeOK, Situated, FlockOwned, SidecarStays, CreatingAlone, RecordThere, PCs, Owning, Verdicts
<1>6. RecordThere'
  BY LedgerAssumption DEF TypeOK, Situated, FlockOwned, SidecarStays, CreatingAlone, RecordThere, PCs, Owning, Verdicts
<1>7. QED
  BY <1>1, <1>2, <1>3, <1>4, <1>5, <1>6

\* Prune decided to remove the record it loaded under the lock.
LEMMA PruneLoadKeepsLock ==
    ASSUME LockInv, NEW p \in Procs, pc[p] = "locked", record[run[p]] # NoRecord,
           pc' = [pc EXCEPT ![p] = "removing"],
           UNCHANGED <<record, minted, entry, flock, job, run, fd, mem, stage, ret, sent>>
    PROVE  LockInv'
<1> USE DEF LockInv
<1>1. TypeOK'
  BY LedgerAssumption DEF TypeOK, Situated, FlockOwned, SidecarStays, CreatingAlone, RecordThere, PCs, Owning, Verdicts
<1>2. Situated'
  BY LedgerAssumption DEF TypeOK, Situated, FlockOwned, SidecarStays, CreatingAlone, RecordThere, PCs, Owning, Verdicts
<1>3. FlockOwned'
  BY LedgerAssumption DEF TypeOK, Situated, FlockOwned, SidecarStays, CreatingAlone, RecordThere, PCs, Owning, Verdicts
<1>4. SidecarStays'
  BY LedgerAssumption DEF TypeOK, Situated, FlockOwned, SidecarStays, CreatingAlone, RecordThere, PCs, Owning, Verdicts
<1>5. CreatingAlone'
  BY LedgerAssumption DEF TypeOK, Situated, FlockOwned, SidecarStays, CreatingAlone, RecordThere, PCs, Owning, Verdicts
<1>6. RecordThere'
  BY LedgerAssumption DEF TypeOK, Situated, FlockOwned, SidecarStays, CreatingAlone, RecordThere, PCs, Owning, Verdicts
<1>7. QED
  BY <1>1, <1>2, <1>3, <1>4, <1>5, <1>6

\* Prune removes a record: no holder can be relying on it.
LEMMA PruneRecordKeepsLock ==
    ASSUME LockInv, NEW p \in Procs, PruneRecord(p)
    PROVE  LockInv'
<1> USE DEF LockInv
<1>1. TypeOK'
  BY LedgerAssumption DEF TypeOK, Situated, FlockOwned, SidecarStays, CreatingAlone, RecordThere, PCs, Owning, PruneRecord
<1>2. Situated'
  BY LedgerAssumption DEF TypeOK, Situated, FlockOwned, SidecarStays, CreatingAlone, RecordThere, PCs, Owning, PruneRecord
<1>3. FlockOwned'
  BY LedgerAssumption DEF TypeOK, Situated, FlockOwned, SidecarStays, CreatingAlone, RecordThere, PCs, Owning, PruneRecord
<1>4. SidecarStays'
  BY LedgerAssumption DEF TypeOK, Situated, FlockOwned, SidecarStays, CreatingAlone, RecordThere, PCs, Owning, PruneRecord
<1>5. CreatingAlone'
  BY LedgerAssumption DEF TypeOK, Situated, FlockOwned, SidecarStays, CreatingAlone, RecordThere, PCs, Owning, PruneRecord
<1>6. RecordThere'
  BY LedgerAssumption DEF TypeOK, Situated, FlockOwned, SidecarStays, CreatingAlone, RecordThere, PCs, Owning, PruneRecord
<1>7. QED
  BY <1>1, <1>2, <1>3, <1>4, <1>5, <1>6

\* A request leaves.
LEMMA SendKeepsLock ==
    ASSUME LockInv, NEW p \in Procs, NEW s \in StepNames, Send(p, s)
    PROVE  LockInv'
<1> USE DEF LockInv
<1>1. TypeOK'
  BY LedgerAssumption DEF TypeOK, Situated, FlockOwned, SidecarStays, CreatingAlone, RecordThere, PCs, Owning, Send, disk, Stages
<1>2. Situated'
  BY LedgerAssumption DEF TypeOK, Situated, FlockOwned, SidecarStays, CreatingAlone, RecordThere, PCs, Owning, Send, disk, Stages
<1>3. FlockOwned'
  BY LedgerAssumption DEF TypeOK, Situated, FlockOwned, SidecarStays, CreatingAlone, RecordThere, PCs, Owning, Send, disk, Stages
<1>4. SidecarStays'
  BY LedgerAssumption DEF TypeOK, Situated, FlockOwned, SidecarStays, CreatingAlone, RecordThere, PCs, Owning, Send, disk, Stages
<1>5. CreatingAlone'
  BY LedgerAssumption DEF TypeOK, Situated, FlockOwned, SidecarStays, CreatingAlone, RecordThere, PCs, Owning, Send, disk, Stages
<1>6. RecordThere'
  BY LedgerAssumption DEF TypeOK, Situated, FlockOwned, SidecarStays, CreatingAlone, RecordThere, PCs, Owning, Send, disk, Stages
<1>7. QED
  BY <1>1, <1>2, <1>3, <1>4, <1>5, <1>6

-----------------------------------------------------------------------------
(* The lock invariant.                                                     *)

LEMMA InitLock == Init => LockInv
<1> SUFFICES ASSUME Init PROVE LockInv
  OBVIOUS
<1>1. NotStaged \in [StepNames -> Stages]
  BY DEF NotStaged, Stages
<1>2. TypeOK
  BY <1>1 DEF Init, TypeOK, PCs, Jobs, Verdicts
<1>3. QED
  BY <1>2 DEF Init, LockInv, Situated, FlockOwned, SidecarStays, CreatingAlone, RecordThere, Owning

LEMMA StartStepKeepsLock ==
    ASSUME LockInv, NEW p \in Procs, NEW r \in Runs, StartStep(p, r)
    PROVE  LockInv'
<1> USE DEF LockInv, TypeOK
<1>1. CASE \E body \in Bodies : Create(p, r, body)
  BY <1>1, CreateKeepsLock
<1>2. CASE OpenStat(p, r)
  BY <1>2, StartKeepsLock DEF OpenStat, Jobs
<1>3. CASE \E which \in {"scrub", "prune"} : ListForSweep(p, r, which)
  BY <1>3, StartKeepsLock DEF ListForSweep, Jobs
<1>4. CASE ListForOrphans(p, r)
  <2>1. /\ mem' \in [Procs -> Run \cup {NoRecord}]
        /\ \A q \in Procs \ {p} : mem'[q] = mem[q]
    BY <1>4 DEF ListForOrphans
  <2>2. QED
    BY <1>4, <2>1, StartKeepsLock DEF ListForOrphans, Jobs
<1>5. QED
  BY <1>1, <1>2, <1>3, <1>4 DEF StartStep

LEMMA LockStepKeepsLock ==
    ASSUME LockInv, NEW p \in Procs, LockStep(p)
    PROVE  LockInv'
<1>1. CASE \E result \in SaveResults : CreateSave(p, result)
  BY <1>1, CreatedKeepsLock, SavedKeepsLock DEF CreateSave
<1>2. CASE OpenSidecar(p)
  BY <1>2, OpenSidecarKeepsLock
<1>3. CASE Flock(p)
  BY <1>3, FlockKeepsLock
<1>4. CASE FlockBusy(p)
  BY <1>4, LeavingKeepsLock DEF FlockBusy, Verdicts
<1>5. CASE OpenLoad(p)
  BY <1>5, OpenLoadKeepsLock
<1>6. CASE OpenGone(p)
  BY <1>6, OpenGoneKeepsLock
<1>7. CASE RemoveLitter(p)
  BY <1>7, RemoveEntryKeepsLock DEF RemoveLitter
<1>8. QED
  BY <1>1, <1>2, <1>3, <1>4, <1>5, <1>6, <1>7 DEF LockStep

LEMMA ProbeStepKeepsLock ==
    ASSUME LockInv, NEW p \in Procs, ProbeStep(p)
    PROVE  LockInv'
<1> USE DEF Verdicts
<1>1. CASE OrphanFound(p)
  BY <1>1, LeavingKeepsLock DEF OrphanFound
<1>2. ASSUME NEW expired \in BOOLEAN, ScrubLoad(p, expired)
      PROVE  LockInv'
  <2> DEFINE content == ScrubRun(record[run[p]], expired)
  <2>1. CASE record[run[p]] # NoRecord /\ content # record[run[p]]
    <3>1. content \in Run
      BY <2>1, <1>2, ScrubRunType DEF LockInv, TypeOK, Situated, ScrubLoad
    <3>2. QED
      BY <1>2, <2>1, <3>1, ScrubLoadKeepsLock DEF ScrubLoad
  <2>2. CASE ~(record[run[p]] # NoRecord /\ content # record[run[p]])
    BY <1>2, <2>2, LeavingKeepsLock DEF ScrubLoad
  <2>3. QED
    BY <2>1, <2>2
<1>3. CASE \E result \in SaveResults : ScrubSave(p, result)
  BY <1>3, SavedKeepsLock DEF ScrubSave
<1>4. ASSUME NEW old \in BOOLEAN, PruneLoad(p, old)
      PROVE  LockInv'
  <2>1. CASE Leave(p, "none")
    BY <1>4, <2>1, LeavingKeepsLock DEF PruneLoad
  <2>2. CASE ~Leave(p, "none")
    BY <1>4, <2>2, PruneLoadKeepsLock DEF PruneLoad
  <2>3. QED
    BY <2>1, <2>2
<1>5. CASE PruneRecord(p)
  BY <1>5, PruneRecordKeepsLock
<1>6. CASE PruneSidecar(p)
  BY <1>6, RemoveEntryKeepsLock DEF PruneSidecar
<1>7. CASE PruneFails(p)
  BY <1>7, LeavingKeepsLock DEF PruneFails
<1>8. QED
  BY <1>1, <1>2, <1>3, <1>4, <1>5, <1>6, <1>7 DEF ProbeStep

LEMMA NextKeepsLock == LockInv /\ [Next]_vars => LockInv'
<1> SUFFICES ASSUME LockInv, [Next]_vars PROVE LockInv'
  OBVIOUS
<1>1. CASE UNCHANGED vars
  BY <1>1 DEF vars, disk, local, LockInv, TypeOK, Situated, FlockOwned, SidecarStays,
              CreatingAlone, RecordThere
<1>2. ASSUME NEW p \in Procs,
             \/ \E r \in Runs : StartStep(p, r)
             \/ LockStep(p)
             \/ ProbeStep(p)
             \/ \E s \in StepNames : HandleStep(p, s)
             \/ Close(p)
             \/ Crash(p)
      PROVE  LockInv'
  <2>1. CASE \E s \in StepNames : HandleStep(p, s)
    BY <2>1, MethodsAreHolderWrites, HolderWritesKeepsLock, SendKeepsLock
  <2>2. CASE Close(p) \/ Crash(p)
    BY <2>2, LeavingKeepsLock DEF Close, Crash, Verdicts
  <2>3. QED
    BY <1>2, <2>1, <2>2, StartStepKeepsLock, LockStepKeepsLock, ProbeStepKeepsLock
<1>3. QED
  BY <1>1, <1>2 DEF Next

\* LockInv holds in every state a set of ferry processes can bring a run
\* directory to.
THEOREM LockInvariant == Spec => []LockInv
BY InitLock, NextKeepsLock, PTL DEF Spec

\* Every variable keeps its type.
THEOREM TypeCorrect == Spec => []TypeOK
<1>1. LockInv => TypeOK
  BY DEF LockInv
<1>2. QED
  BY <1>1, LockInvariant, PTL

\* Two processes never own the lock of one existing record: the sidecar's
\* inode cannot be exchanged under a holder (lock.go; sweep.go Prune).
THEOREM LockIsExclusive == Spec => []LockExclusion
<1>1. LockInv => LockExclusion
  BY DEF LockInv, FlockOwned, SidecarStays, LockExclusion
<1>2. QED
  BY <1>1, LockInvariant, PTL

=============================================================================
