--------------------------- MODULE RunsVerbsProofs ---------------------------
(***************************************************************************)
(* Proofs about RunsVerbs for any number of processes and runs, any        *)
(* command lines and any records that earlier commands left.               *)
(*                                                                         *)
(* A record changes only under its lock, and then in one of a few ways.    *)
(* What a verb has found out therefore stays true of the runs it names as  *)
(* long as those few ways keep it true.                                    *)
(***************************************************************************)
EXTENDS RunsVerbs, NaturalsInduction, WellFoundedInduction, TLAPS

Verbs(p) == line[p].verb

\* Where a process can be is given by its command line, and it answers once.
Sits(p) ==
    /\ pc[p] = "idle" => line[p] = EmptyLine
    /\ pc[p] \in {"scrub", "scrubbing", "list"} => Verbs(p) \in {"list", "show", "prune"}
    /\ pc[p] = "load" => Verbs(p) = "show"
    /\ pc[p] \in {"prune", "pruning"} => Verbs(p) = "prune"
    /\ pc[p] \in {"opening", "locking", "declining"} => Verbs(p) = "decline"
    /\ pc[p] # "done" => exit[p] = NoExit
    /\ pc[p] # "done" /\ Verbs(p) = "prune" => ~BadAge(line[p].age)

Situated == \A p \in Procs : Sits(p)

\* A sweep that works on a run, and a decline, hold its lock.
Holds(p) ==
    /\ pc[p] \in {"scrubbing", "pruning"} => todo[p] # {} /\ lock[Now(p)] = p
    /\ pc[p] = "declining" => lock[line[p].run] = p

VerbHolds == \A p \in Procs : Holds(p)

\* So does the money command, whose copy is the record.
MoneyHolds ==
    /\ mine = NoRun => mem = NoRecord /\ begun = "none"
    /\ mine # NoRun => lock[mine] = Money /\ IsRecord(mem) /\ record[mine] = mem /\ mine \in minted
    /\ begun # "none" => /\ mine # NoRun
                         /\ begun \in DOMAIN mem.steps
                         /\ mem.steps[begun].state = "pending"

MintedOnce == \A r \in Runs \ minted : record[r] = NoRecord

ExecuteIn(rec, states) == "execute" \in DOMAIN rec.steps /\ rec.steps["execute"].state \in states

\* Whatever a process walks over, waits for or has is a run that was minted.
Knows(p) ==
    /\ todo[p] \subseteq minted
    /\ pc[p] \in {"locking", "declining"} => line[p].run \in minted

Known ==
    /\ \A p \in Procs : Knows(p)
    /\ \A r \in Runs : lock[r] # NoProc => r \in minted

\* An execute that may have left is on record as one that may have.
SentOnRecord ==
    \A r \in sent : r \in minted /\ (record[r] # NoRecord =>
        IsRecord(record[r]) /\ ExecuteIn(record[r], {"pending", "answered", "terminal"}))

\* An execute that was declined is on record as one that is over.
HasDeclined(p) ==
    Verbs(p) = "decline" /\ exit[p] = 0 =>
        /\ line[p].run \in minted \ sent
        /\ record[line[p].run] # NoRecord =>
              /\ IsRecord(record[line[p].run])
              /\ ExecuteIn(record[line[p].run], {"declined", "unreachable"})

DeclinedOnRecord == \A p \in Procs : HasDeclined(p)

\* A walk has every unresolved run behind it or before it.
Covers(p) ==
    Verbs(p) = "list" =>
        /\ pc[p] = "list" => still[p] \subseteq said[p] \cup todo[p]
        /\ exit[p] = 0 => still[p] \subseteq said[p]

ListCovers == \A p \in Procs : Covers(p)

\* The cutoff of a prune was computed at an earlier time.
LooksBack(p) ==
    pc[p] \in {"prune", "pruning"} => limit[p] <= now + Wrap(-ParsedAge(line[p].age))

CutoffInThePast == \A p \in Procs : LooksBack(p)

\* What a verb fails for.
Blames(p) ==
    exit[p] = 1 => p \in failed \/ Verbs(p) = "decline" \/ \E r \in Runs : record[r] = Unreadable

VerbsInv ==
    /\ TypeOK
    /\ Situated
    /\ VerbHolds
    /\ MoneyHolds
    /\ MintedOnce
    /\ Known
    /\ SentOnRecord
    /\ DeclinedOnRecord
    /\ ListCovers
    /\ CutoffInThePast
    /\ FaultsHaveACause

-----------------------------------------------------------------------------
(* Records and steps.                                                      *)

Less == {ss \in Nat \X Nat : ss[1] < ss[2]}

LEMMA MinFits ==
    ASSUME NEW S, S \subseteq Runs, S # {}
    PROVE  Min(S) \in S
  <1>1. S \subseteq Nat
    BY RunsVerbsAssumption
  <1>2. IsWellFoundedOn(Less, Nat)
    BY NatLessThanWellFounded DEF OpToRel, Less
  <1>3. PICK x \in S : \A y \in S : ~(<<y, x>> \in Less)
    BY <1>1, <1>2, WFMin
  <1>4. ASSUME NEW y \in S PROVE x <= y
    <2>1. x \in Nat /\ y \in Nat /\ <<y, x>> \in Nat \X Nat
      BY <1>1
    <2>2. <<y, x>> \in Less <=> y < x
      BY <2>1 DEF Less
    <2> QED BY <1>3, <2>1, <2>2
  <1> QED BY <1>4 DEF Min

LEMMA RecordFits ==
    ASSUME NEW rec, IsRecord(rec)
    PROVE  /\ rec \notin {NoRecord, Unreadable}
           /\ rec.created \in Int /\ rec.keep \in Int
           /\ DOMAIN rec.steps \in SUBSET StepNames
           /\ rec.steps \in [DOMAIN rec.steps -> Step]
           /\ rec \in [steps : [DOMAIN rec.steps -> Step], created : Int, keep : Int]
  <1>1. rec \notin {NoRecord, Unreadable}
    BY RunsVerbsAssumption
  <1>2. PICK S \in SUBSET StepNames : rec \in [steps : [S -> Step], created : Int, keep : Int]
    BY DEF IsRecord
  <1>3. rec.steps \in [S -> Step]
    BY <1>2
  <1>4. DOMAIN rec.steps = S
    BY <1>3
  <1> QED BY <1>1, <1>2, <1>3, <1>4

\* One step of a record is replaced.
LEMMA WithStep ==
    ASSUME NEW rec, IsRecord(rec), NEW s \in DOMAIN rec.steps, NEW step \in Step,
           NEW new, new = [rec EXCEPT !.steps[s] = step]
    PROVE  /\ IsRecord(new)
           /\ new.created = rec.created
           /\ DOMAIN new.steps = DOMAIN rec.steps
           /\ new.steps[s] = step
           /\ \A q \in DOMAIN rec.steps \ {s} : new.steps[q] = rec.steps[q]
  <1>1. /\ DOMAIN rec.steps \in SUBSET StepNames
        /\ rec \in [steps : [DOMAIN rec.steps -> Step], created : Int, keep : Int]
    BY RecordFits
  <1>2. new \in [steps : [DOMAIN rec.steps -> Step], created : Int, keep : Int]
    BY <1>1
  <1>3. IsRecord(new)
    BY <1>1, <1>2 DEF IsRecord
  <1> QED BY <1>1, <1>3

\* The changes of StepRecord that the verbs and the money command make.
LEMMA ChangesFit ==
    ASSUME NEW step \in Step
    PROVE  /\ Scrub(step) \in Step /\ Scrub(step).state = step.state
           /\ Declined(step) \in Step /\ Declined(step).state = "declined"
           /\ Planned(step) \in Step /\ Planned(step).state = step.state
           /\ Awaiting(step) \in Step /\ Awaiting(step).state = "awaiting_confirmation"
           /\ Began(step, "bytes") \in Step /\ Began(step, "bytes").state = "pending"
           /\ \A outcome \in {"resumable", "settled"} :
                 /\ Recorded(step, outcome) \in Step
                 /\ Recorded(step, outcome).state \in {"answered", "terminal"}
  <1> USE DEF Step, States, Tokens, Outcomes
  <1>1. Scrub(step) \in Step /\ Scrub(step).state = step.state
    BY DEF Scrub, HasPlanToken
  <1>2. Declined(step) \in Step /\ Declined(step).state = "declined"
    BY DEF Declined, Scrub, HasPlanToken
  <1>3. Planned(step) \in Step /\ Planned(step).state = step.state
    BY DEF Planned
  <1>4. Awaiting(step) \in Step /\ Awaiting(step).state = "awaiting_confirmation"
    BY DEF Awaiting
  <1>5. Began(step, "bytes") \in Step /\ Began(step, "bytes").state = "pending"
    <2> DEFINE held == WithBody(step, "bytes")
    <2>1. held \in Step
      BY RunsVerbsAssumption DEF WithBody
    <2>2. Began(step, "bytes") = [held EXCEPT !.state = "pending", !.attempts = held.attempts + 1]
      BY DEF Began
    <2> HIDE DEF held
    <2>3. held.attempts + 1 \in Nat
      BY <2>1
    <2>4. Began(step, "bytes") = [state |-> "pending", body |-> held.body, token |-> held.token,
                                  outcome |-> held.outcome, attempts |-> held.attempts + 1]
      BY <2>1, <2>2
    <2> QED BY <2>1, <2>3, <2>4
  <1>6. ASSUME NEW outcome \in {"resumable", "settled"}
        PROVE  Recorded(step, outcome) \in Step /\ Recorded(step, outcome).state \in {"answered", "terminal"}
    BY DEF Recorded, Scrub, HasPlanToken
  <1> QED BY <1>1, <1>2, <1>3, <1>4, <1>5, <1>6

\* A scrub leaves the states of the steps alone.
LEMMA ScrubbedFits ==
    ASSUME NEW rec, IsRecord(rec), NEW at
    PROVE  /\ IsRecord(Scrubbed(rec, at))
           /\ Scrubbed(rec, at).created = rec.created
           /\ DOMAIN Scrubbed(rec, at).steps = DOMAIN rec.steps
           /\ \A s \in DOMAIN rec.steps : Scrubbed(rec, at).steps[s].state = rec.steps[s].state
  <1>1. /\ DOMAIN rec.steps \in SUBSET StepNames
        /\ rec \in [steps : [DOMAIN rec.steps -> Step], created : Int, keep : Int]
    BY RecordFits
  <1> DEFINE steps == [s \in DOMAIN rec.steps |-> IF Terminal(rec.steps[s].state) \/ rec.keep < at
                                                   THEN Scrub(rec.steps[s]) ELSE rec.steps[s]]
  <1>2. \A s \in DOMAIN rec.steps : steps[s] \in Step /\ steps[s].state = rec.steps[s].state
    BY <1>1, ChangesFit
  <1>3. steps \in [DOMAIN rec.steps -> Step]
    BY <1>2
  <1>4. Scrubbed(rec, at) = [rec EXCEPT !.steps = steps]
    BY DEF Scrubbed
  <1> HIDE DEF steps
  <1>5. Scrubbed(rec, at) \in [steps : [DOMAIN rec.steps -> Step], created : Int, keep : Int]
        /\ Scrubbed(rec, at).steps = steps /\ Scrubbed(rec, at).created = rec.created
    BY <1>1, <1>3, <1>4
  <1>6. DOMAIN steps = DOMAIN rec.steps
    BY <1>3
  <1> QED BY <1>1, <1>2, <1>5, <1>6 DEF IsRecord

-----------------------------------------------------------------------------
(* Ages.                                                                   *)

LEMMA WrapFits ==
    ASSUME NEW d \in Int
    PROVE  /\ Wrap(d) \in Int
           /\ Fits(d) => Wrap(d) = d
  <1> DEFINE m == 2 * (Longest + 1)
  <1>1. Longest \in Nat
    BY RunsVerbsAssumption
  <1>2. m \in Nat /\ m > 0
    BY <1>1
  <1>3. (d + Longest + 1) % m \in Int
    BY <1>1, <1>2
  <1>4. ASSUME Fits(d) PROVE (d + Longest + 1) % m = d + Longest + 1
    BY <1>1, <1>4 DEF Fits
  <1> QED BY <1>1, <1>3, <1>4 DEF Wrap

LEMMA AgeFits ==
    ASSUME NEW age \in Age
    PROVE  /\ Asked(age) \in Int
           /\ ParsedAge(age) \in Int
           /\ age.n >= 0 => Asked(age) >= 0
  <1>1. Units(age.unit) \in Nat
    BY RunsVerbsAssumption DEF Units, Age
  <1>2. age.n \in Int
    BY DEF Age
  <1>3. Asked(age) \in Int /\ (age.n >= 0 => Asked(age) >= 0)
    BY <1>1, <1>2 DEF Asked
  <1> QED BY <1>3, WrapFits DEF ParsedAge

-----------------------------------------------------------------------------
(* What a step of a verb does: to its process, to a lock, to a record.     *)

Free(r, p) == lock[r] = p /\ lock'[r] = NoProc
Grab(r, p) == /\ lock[r] = NoProc /\ lock'[r] = p
              /\ r \in todo[p] \/ (pc[p] = "locking" /\ r = line[p].run)

\* Only p's own place changes, and the locks p has or takes.
Moves(p) ==
    /\ pc' \in [Procs -> PCs] /\ todo' \in [Procs -> SUBSET Runs] /\ limit' \in [Procs -> Int]
    /\ said' \in [Procs -> SUBSET Runs] /\ exit' \in [Procs -> Exits \cup {NoExit}]
    /\ lock' \in [Runs -> Procs \cup {Money, NoProc}]
    /\ \A q \in Procs \ {p} : /\ pc'[q] = pc[q] /\ todo'[q] = todo[q] /\ limit'[q] = limit[q]
                              /\ said'[q] = said[q] /\ exit'[q] = exit[q]
    /\ \A r \in Runs : lock'[r] = lock[r] \/ Free(r, p) \/ Grab(r, p)
    /\ todo'[p] \subseteq todo[p] \cup Ids

SameStates(a, b) ==
    /\ IsRecord(b) /\ DOMAIN b.steps = DOMAIN a.steps
    /\ \A s \in DOMAIN a.steps : b.steps[s].state = a.steps[s].state

DeclinedIn(a, b) ==
    /\ IsRecord(b) /\ DOMAIN b.steps = DOMAIN a.steps
    /\ ExecuteIn(a, {"not_started", "awaiting_confirmation"})
    /\ ExecuteIn(b, {"declined"})

\* A record is scrubbed, declined or removed by the one who has its lock.
Touches(p) ==
    /\ DOMAIN record' = Runs
    /\ \A r \in Runs : record'[r] = record[r] \/
          /\ lock[r] = p /\ IsRecord(record[r])
          /\ record'[r] = NoRecord \/ SameStates(record[r], record'[r]) \/ DeclinedIn(record[r], record'[r])

\* What a decline that answers 0 has seen and left.
DeclineAnswers(p) ==
    LET r == line[p].run IN
    /\ r \in Runs /\ line'[p] = line[p]
    /\ IsRecord(record[r]) /\ ~ExecuteIn(record[r], {"pending", "answered", "terminal"})
    /\ IsRecord(record'[r]) /\ ExecuteIn(record'[r], {"declined", "unreachable"})

\* How the walk of a list goes on and ends.
ListGoesOn(p) ==
    /\ pc'[p] = "list" =>
          \/ todo'[p] = Ids
          \/ /\ pc[p] = "list" /\ said[p] \subseteq said'[p] /\ todo'[p] = todo[p] \ {Now(p)}
             /\ Now(p) \in Runs /\ record[Now(p)] # Unreadable /\ line'[p] = line[p]
             /\ Readable(Now(p)) /\ Shows(line[p], record[Now(p)]) => Now(p) \in said'[p]
    /\ pc'[p] = "list" => record' = record
    /\ exit'[p] = 0 => pc[p] = "list" /\ pc'[p] = "done" /\ todo[p] = {} /\ said'[p] = said[p]

PruneRemoves(p) ==
    \A r \in Runs : record[r] # NoRecord /\ record'[r] = NoRecord =>
        pc[p] = "pruning" /\ Verbs(p) = "prune" /\ IsRecord(record[r]) /\ record[r].created < limit[p]

CutoffStays(p) ==
    pc'[p] \in {"prune", "pruning"} => line'[p] = line[p] /\
        \/ pc[p] \in {"prune", "pruning"} /\ limit'[p] = limit[p]
        \/ limit'[p] = now + Wrap(-ParsedAge(line[p].age))

VerbEffect(p) ==
    /\ Moves(p) /\ Touches(p) /\ UNCHANGED <<now, minted, sent, mem, mine, begun>>
    /\ line' \in [Procs -> Commands \cup {EmptyLine}] /\ \A q \in Procs \ {p} : line'[q] = line[q]
    /\ failed \subseteq failed' /\ failed' \subseteq failed \cup {p}
    /\ Sits(p)' /\ Holds(p)' /\ Blames(p)'
    /\ Verbs(p)' = "decline" /\ exit'[p] = 0 => DeclineAnswers(p)
    /\ Verbs(p)' = "list" => ListGoesOn(p)
    /\ PruneRemoves(p) /\ CutoffStays(p)
    /\ pc'[p] = "locking" => record[line'[p].run] # NoRecord /\ line'[p].run \in Runs
    /\ pc'[p] = "declining" => lock'[line'[p].run] = p
    /\ exit'[p] = 0 => pc'[p] = "done"

LEMMA AnswerMoves ==
    ASSUME TypeOK, NEW p \in Procs, NEW code \in Exits \cup {NoExit}, NEW named \in SUBSET Runs,
           Answer(p, code, named)
    PROVE  /\ Moves(p)
           /\ pc'[p] = "done" /\ exit'[p] = code /\ said'[p] = named
           /\ \A r \in Runs : lock[r] = p => lock'[r] = NoProc
  <1>1. lock' \in [Runs -> Procs \cup {Money, NoProc}]
        /\ \A r \in Runs : lock'[r] = IF lock[r] = p THEN NoProc ELSE lock[r]
    BY DEF Answer, TypeOK
  <1>2. /\ pc' \in [Procs -> PCs] /\ todo' \in [Procs -> SUBSET Runs] /\ limit' \in [Procs -> Int]
        /\ said' \in [Procs -> SUBSET Runs] /\ exit' \in [Procs -> Exits \cup {NoExit}] /\ todo'[p] = {}
    BY DEF Answer, TypeOK, Goto, PCs
  <1>3. /\ pc'[p] = "done" /\ exit'[p] = code /\ said'[p] = named
        /\ \A q \in Procs \ {p} : /\ pc'[q] = pc[q] /\ todo'[q] = todo[q] /\ limit'[q] = limit[q]
                                  /\ said'[q] = said[q] /\ exit'[q] = exit[q]
    BY DEF Answer, TypeOK, Goto
  <1>4. \A r \in Runs : lock'[r] = lock[r] \/ Free(r, p)
    BY <1>1 DEF Free
  <1> QED BY <1>1, <1>2, <1>3, <1>4 DEF Moves

LEMMA WalkMoves ==
    ASSUME TypeOK, NEW p \in Procs, NEW to \in PCs, NEW at \in Int, Walk(p, to, at)
    PROVE  /\ Moves(p)
           /\ pc'[p] = to /\ todo'[p] = Ids /\ limit'[p] = at /\ said'[p] = {}
           /\ exit' = exit /\ lock' = lock
  <1>1. Ids \in SUBSET Runs
    BY DEF Ids
  <1> QED BY <1>1 DEF Walk, Goto, Moves, TypeOK

LEMMA GotoMoves ==
    ASSUME TypeOK, NEW p \in Procs, NEW to \in PCs, Goto(p, to),
           UNCHANGED <<todo, limit, said, exit, lock>>
    PROVE  Moves(p) /\ pc'[p] = to
  BY DEF Goto, Moves, TypeOK

\* The walk passes a run, whoever has it.
LEMMA NowFits ==
    ASSUME TypeOK, NEW p \in Procs, todo[p] # {}
    PROVE  Now(p) \in todo[p] /\ Now(p) \in Runs
  BY MinFits DEF TypeOK, Now

\* A lock is taken on a run that nobody has.
LEMMA TakeMoves ==
    ASSUME TypeOK, NEW p \in Procs, NEW to \in PCs, NEW r \in Runs, lock[r] = NoProc,
           r \in todo[p] \/ (pc[p] = "locking" /\ r = line[p].run),
           lock' = [lock EXCEPT ![r] = p], Goto(p, to), UNCHANGED <<todo, limit, said, exit>>
    PROVE  Moves(p) /\ pc'[p] = to /\ lock'[r] = p
  BY DEF Goto, Moves, TypeOK, Grab

\* ... and given back at the end of the work on it, which passes it.
LEMMA PassMoves ==
    ASSUME TypeOK, NEW p \in Procs, NEW to \in PCs, todo[p] # {}, lock[Now(p)] = p,
           lock' = [lock EXCEPT ![Now(p)] = NoProc], Goto(p, to), Past(p), UNCHANGED <<limit, exit>>,
           said' = said \/ said' = [said EXCEPT ![p] = @ \cup {Now(p)}]
    PROVE  Moves(p) /\ pc'[p] = to
  <1>1. Now(p) \in Runs
    BY NowFits
  <1>2. lock' \in [Runs -> Procs \cup {Money, NoProc}]
        /\ \A r \in Runs : lock'[r] = lock[r] \/ Free(r, p)
    BY <1>1 DEF TypeOK, Free
  <1>3. /\ pc' \in [Procs -> PCs] /\ todo' \in [Procs -> SUBSET Runs]
        /\ said' \in [Procs -> SUBSET Runs] /\ pc'[p] = to /\ todo'[p] \subseteq todo[p]
    BY <1>1 DEF TypeOK, Goto, Past
  <1>4. \A q \in Procs \ {p} : pc'[q] = pc[q] /\ todo'[q] = todo[q] /\ said'[q] = said[q]
    BY DEF TypeOK, Goto, Past
  <1> QED BY <1>2, <1>3, <1>4 DEF Moves, TypeOK

\* Each step of a verb, with the place it leads to.
LEMMA TypeEffect ==
    ASSUME TypeOK, Situated, NEW p \in Procs, NEW l \in Lines[p], Type(p, l)
    PROVE  /\ Moves(p) /\ record' = record /\ line' = [line EXCEPT ![p] = l] /\ failed' = failed
           /\ Sits(p)' /\ Holds(p)' /\ exit'[p] # 1
           /\ pc[p] = "idle"
           /\ pc'[p] = "done" => exit'[p] = 2
           /\ pc'[p] \in {"opening", "done", "scrub"}
  <1>1. l \in Commands /\ line'[p] = l /\ pc[p] = "idle" /\ exit[p] = NoExit
    BY RunsVerbsAssumption DEF Type, Situated, Sits, TypeOK, NoExit
  <1>2. CASE l.verb = "decline"
    <2>1. Goto(p, "opening") /\ UNCHANGED <<todo, limit, said, exit, lock>>
      BY <1>2 DEF Type
    <2> QED BY <1>1, <1>2, <2>1, GotoMoves DEF Type, PCs, Sits, Holds, Verbs, NoExit
  <1>3. CASE l.verb = "prune" /\ BadAge(l.age)
    <2>1. Answer(p, 2, {})
      BY <1>3 DEF Type, Usage
    <2> QED BY <1>1, <1>3, <2>1, AnswerMoves DEF Type, Exits, Sits, Holds, Verbs, NoExit
  <1>4. CASE l.verb # "decline" /\ ~(l.verb = "prune" /\ BadAge(l.age))
    <2>1. Walk(p, "scrub", now)
      BY <1>4 DEF Type
    <2>2. l.verb \in {"list", "show", "prune"}
      BY <1>1, <1>4 DEF Commands
    <2>3. now \in Int
      BY RunsVerbsAssumption DEF TypeOK
    <2> QED BY <1>1, <1>4, <2>1, <2>2, <2>3, WalkMoves DEF Type, PCs, Sits, Holds, Verbs, NoExit
  <1> QED BY <1>2, <1>3, <1>4

LEMMA ScrubProbeEffect ==
    ASSUME TypeOK, Situated, NEW p \in Procs, ScrubProbe(p)
    PROVE  /\ Moves(p) /\ record' = record /\ line' = line /\ failed' = failed
           /\ Sits(p)' /\ Holds(p)' /\ exit'[p] # 1
           /\ pc'[p] \in {"scrub", "scrubbing"}
  <1>1. pc[p] = "scrub" /\ Now(p) \in todo[p] /\ Now(p) \in Runs /\ line' = line /\ exit' = exit
    BY NowFits DEF ScrubProbe
  <1>2. CASE lock[Now(p)] # NoProc
    <2>1. Past(p) /\ UNCHANGED <<pc, lock, limit, said, exit>>
      BY <1>2 DEF ScrubProbe
    <2>2. Moves(p)
      BY <2>1 DEF Past, Moves, TypeOK
    <2> QED BY <1>1, <2>1, <2>2 DEF ScrubProbe, Situated, Sits, Holds, Verbs, NoExit
  <1>3. CASE lock[Now(p)] = NoProc
    <2>1. /\ lock' = [lock EXCEPT ![Now(p)] = p] /\ Goto(p, "scrubbing")
          /\ UNCHANGED <<todo, limit, said, exit>>
      BY <1>3 DEF ScrubProbe
    <2>2. Moves(p) /\ pc'[p] = "scrubbing" /\ lock'[Now(p)] = p
      BY <1>1, <1>3, <2>1, TakeMoves DEF PCs
    <2>3. Now(p)' = Now(p)
      BY <2>1 DEF Now
    <2> QED BY <1>1, <2>1, <2>2, <2>3 DEF ScrubProbe, Situated, Sits, Holds, Verbs, NoExit
  <1> QED BY <1>2, <1>3

\* A record that is there can be read or it cannot.
LEMMA ReadableFits ==
    ASSUME TypeOK, NEW r \in Runs
    PROVE  /\ Readable(r) <=> IsRecord(record[r])
           /\ ~Readable(r) => record[r] \in {NoRecord, Unreadable}
  BY RunsVerbsAssumption DEF Readable, TypeOK, IsContent

LEMMA ScrubOneEffect ==
    ASSUME TypeOK, Situated, VerbHolds, NEW p \in Procs, NEW result \in SaveResults, ScrubOne(p, result)
    PROVE  /\ Moves(p) /\ Touches(p) /\ line' = line
           /\ Sits(p)' /\ Holds(p)' /\ Blames(p)'
           /\ pc'[p] \in {"scrub", "done"} /\ exit'[p] \in {NoExit, 1}
           /\ \A r \in Runs : record[r] # NoRecord => record'[r] # NoRecord
           /\ \A r \in Runs : record[r] # record'[r] => SameStates(record[r], record'[r])
  <1> DEFINE r == Now(p)
             new == Scrubbed(record[r], limit[p])
             change == Readable(r) /\ new # record[r]
  <1>1. /\ pc[p] = "scrubbing" /\ todo[p] # {} /\ lock[r] = p /\ r \in Runs /\ line' = line
        /\ exit[p] = NoExit /\ Verbs(p) \in {"list", "show", "prune"}
        /\ Verbs(p) = "prune" => ~BadAge(line[p].age)
    BY NowFits DEF ScrubOne, VerbHolds, Holds, Situated, Sits
  <1>2. record' = IF change /\ result # "early" THEN [record EXCEPT ![r] = new] ELSE record
    BY DEF ScrubOne
  <1>3. change => IsRecord(record[r]) /\ SameStates(record[r], new)
    BY <1>1, ReadableFits, ScrubbedFits DEF SameStates
  <1> HIDE DEF new, change
  <1>4. \A q \in Runs : record'[q] = record[q]
                      \/ (q = r /\ IsRecord(record[q]) /\ SameStates(record[q], record'[q]) /\ IsRecord(record'[q]))
    BY <1>1, <1>2, <1>3 DEF TypeOK, SameStates
  <1>5. Touches(p) /\ \A q \in Runs : /\ record[q] # NoRecord => record'[q] # NoRecord
                                      /\ record[q] # record'[q] => SameStates(record[q], record'[q])
    BY <1>1, <1>2, <1>4, RunsVerbsAssumption DEF Touches, TypeOK
  <1>6. CASE record[r] = Unreadable \/ result # "ok"
    <2>1. Answer(p, 1, {}) /\ failed' = IF result = "ok" THEN failed ELSE failed \cup {p}
      BY <1>6 DEF ScrubOne, Fault
    <2>2. Moves(p) /\ pc'[p] = "done" /\ exit'[p] = 1
      BY <2>1, AnswerMoves DEF Exits
    <2>3. record[r] = Unreadable => record'[r] = Unreadable
      BY <1>2, <1>3, RunsVerbsAssumption
    <2>4. Blames(p)'
      BY <1>1, <1>6, <2>1, <2>3 DEF Blames
    <2> QED BY <1>1, <1>5, <2>2, <2>4 DEF Sits, Holds
  <1>7. CASE ~(record[r] = Unreadable \/ result # "ok")
    <2>1. /\ Past(p) /\ Goto(p, "scrub") /\ lock' = [lock EXCEPT ![r] = NoProc]
          /\ UNCHANGED <<limit, said, exit>>
      BY <1>7 DEF ScrubOne
    <2>2. Moves(p) /\ pc'[p] = "scrub"
      BY <1>1, <2>1, PassMoves DEF PCs
    <2> QED BY <1>1, <1>5, <2>1, <2>2 DEF Sits, Holds, Blames, Verbs, NoExit
  <1> QED BY <1>6, <1>7

LEMMA ListStartEffect ==
    ASSUME TypeOK, Situated, NEW p \in Procs, ListStart(p)
    PROVE  /\ Moves(p) /\ record' = record /\ line' = line /\ failed' = failed
           /\ Sits(p)' /\ Holds(p)' /\ exit'[p] = NoExit
           /\ pc'[p] = "list" /\ todo'[p] = Ids
  <1>1. pc[p] = "scrub" /\ Walk(p, "list", limit[p]) /\ limit[p] \in Int
    BY DEF ListStart, TypeOK
  <1> QED BY <1>1, WalkMoves DEF ListStart, PCs, Situated, Sits, Holds, Verbs

LEMMA ReadOneEffect ==
    ASSUME TypeOK, Situated, NEW p \in Procs, ReadOne(p)
    PROVE  /\ Moves(p) /\ record' = record /\ line' = line /\ failed' = failed
           /\ Sits(p)' /\ Holds(p)' /\ Blames(p)'
           /\ pc[p] = "list" /\ pc'[p] \in {"list", "done"} /\ exit'[p] \in {NoExit, 1}
           /\ pc'[p] = "list" => /\ said[p] \subseteq said'[p] /\ todo'[p] = todo[p] \ {Now(p)}
                                 /\ Now(p) \in Runs /\ record[Now(p)] # Unreadable
                                 /\ Readable(Now(p)) /\ Shows(line[p], record[Now(p)]) => Now(p) \in said'[p]
  <1>1. pc[p] = "list" /\ Now(p) \in todo[p] /\ Now(p) \in Runs /\ record' = record /\ line' = line /\ failed' = failed
        /\ exit[p] = NoExit /\ said \in [Procs -> SUBSET Runs]
    BY NowFits DEF ReadOne, Situated, Sits, TypeOK
  <1>2. CASE record[Now(p)] = Unreadable
    <2>1. Answer(p, 1, {})
      BY <1>2 DEF ReadOne, Fault
    <2>2. Moves(p) /\ pc'[p] = "done" /\ exit'[p] = 1
      BY <2>1, AnswerMoves DEF Exits
    <2> QED BY <1>1, <1>2, <2>2 DEF Sits, Holds, Blames
  <1>3. CASE record[Now(p)] # Unreadable
    <2>1. /\ said' = IF Readable(Now(p)) /\ Shows(line[p], record[Now(p)])
                     THEN [said EXCEPT ![p] = @ \cup {Now(p)}] ELSE said
          /\ Past(p) /\ UNCHANGED <<pc, lock, limit, exit>>
      BY <1>3 DEF ReadOne
    <2>2. said' \in [Procs -> SUBSET Runs] /\ (\A q \in Procs \ {p} : said'[q] = said[q])
      BY <1>1, <2>1
    <2>3. Moves(p)
      BY <2>1, <2>2 DEF Moves, Past, TypeOK
    <2>4. said[p] \subseteq said'[p]
          /\ (Readable(Now(p)) /\ Shows(line[p], record[Now(p)]) => Now(p) \in said'[p])
      BY <1>1, <2>1
    <2>5. todo'[p] = todo[p] \ {Now(p)}
      BY <2>1 DEF Past, TypeOK
    <2> QED BY <1>1, <1>3, <2>1, <2>3, <2>4, <2>5 DEF Situated, Sits, Holds, Blames, Verbs, NoExit
  <1> QED BY <1>2, <1>3

LEMMA ListEndEffect ==
    ASSUME TypeOK, Situated, NEW p \in Procs, ListEnd(p)
    PROVE  /\ Moves(p) /\ record' = record /\ line' = line /\ failed' = failed
           /\ Sits(p)' /\ Holds(p)' /\ exit'[p] \in {NoExit, 0}
           /\ pc[p] = "list" /\ todo[p] = {} /\ pc'[p] \in {"done", "load", "prune"}
           /\ Verbs(p) = "list" => pc'[p] = "done" /\ said'[p] = said[p]
           /\ pc'[p] = "prune" => limit'[p] = now + Wrap(-ParsedAge(line[p].age))
  <1>1. /\ pc[p] = "list" /\ todo[p] = {} /\ record' = record /\ line' = line /\ failed' = failed
        /\ exit[p] = NoExit /\ Verbs(p) \in {"list", "show", "prune"} /\ line[p] \in Commands \cup {EmptyLine}
        /\ said[p] \in SUBSET Runs /\ (Verbs(p) = "prune" => ~BadAge(line[p].age))
    BY DEF ListEnd, Situated, Sits, TypeOK
  <1>2. CASE Verbs(p) = "list"
    <2>1. Answer(p, 0, said[p])
      BY <1>2 DEF ListEnd, Verbs
    <2>2. Moves(p) /\ pc'[p] = "done" /\ exit'[p] = 0 /\ said'[p] = said[p]
      BY <1>1, <2>1, AnswerMoves DEF Exits
    <2> QED BY <1>1, <1>2, <2>2 DEF Sits, Holds
  <1>3. CASE Verbs(p) = "show"
    <2>1. Goto(p, "load") /\ UNCHANGED <<todo, limit, said, exit, lock>>
      BY <1>3 DEF ListEnd, Verbs
    <2>2. Moves(p) /\ pc'[p] = "load"
      BY <2>1, GotoMoves DEF PCs
    <2> QED BY <1>1, <1>3, <2>1, <2>2 DEF Sits, Holds, Verbs
  <1>4. CASE Verbs(p) = "prune"
    <2>1. Walk(p, "prune", now + Wrap(-ParsedAge(line[p].age)))
      BY <1>4 DEF ListEnd, Verbs
    <2>2. line[p].age \in Age
      BY <1>1, <1>4 DEF Commands, Verbs, EmptyLine
    <2>3. now + Wrap(-ParsedAge(line[p].age)) \in Int
      BY <2>2, AgeFits, WrapFits, RunsVerbsAssumption DEF TypeOK
    <2>4. Moves(p) /\ pc'[p] = "prune" /\ exit' = exit
          /\ limit'[p] = now + Wrap(-ParsedAge(line[p].age))
      BY <2>1, <2>3, WalkMoves DEF PCs
    <2> QED BY <1>1, <1>4, <2>4 DEF Sits, Holds, Verbs
  <1> QED BY <1>1, <1>2, <1>3, <1>4

LEMMA ShowLoadEffect ==
    ASSUME TypeOK, Situated, NEW p \in Procs, ShowLoad(p)
    PROVE  /\ Moves(p) /\ record' = record /\ line' = line /\ failed' = failed
           /\ Sits(p)' /\ Holds(p)' /\ Blames(p)'
           /\ pc'[p] = "done" /\ Verbs(p) = "show"
  <1> DEFINE r == line[p].run
  <1>1. /\ pc[p] = "load" /\ record' = record /\ line' = line /\ failed' = failed
        /\ Verbs(p) = "show" /\ r \in Runs
    BY DEF ShowLoad, Situated, Sits, TypeOK, Commands, EmptyLine, Verbs
  <1>2. CASE record[r] = NoRecord
    <2>1. Answer(p, 2, {})
      BY <1>2, RunsVerbsAssumption DEF ShowLoad, Usage
    <2>2. Moves(p) /\ pc'[p] = "done" /\ exit'[p] = 2
      BY <2>1, AnswerMoves DEF Exits
    <2> QED BY <1>1, <2>2 DEF Sits, Holds, Blames
  <1>3. CASE record[r] = Unreadable
    <2>1. Answer(p, 1, {})
      BY <1>3, RunsVerbsAssumption DEF ShowLoad, Fault
    <2>2. Moves(p) /\ pc'[p] = "done" /\ exit'[p] = 1
      BY <2>1, AnswerMoves DEF Exits
    <2> QED BY <1>1, <1>3, <2>2 DEF Sits, Holds, Blames
  <1>4. CASE record[r] \notin {NoRecord, Unreadable}
    <2>1. Answer(p, 0, {r})
      BY <1>4 DEF ShowLoad
    <2>2. Moves(p) /\ pc'[p] = "done" /\ exit'[p] = 0
      BY <1>1, <2>1, AnswerMoves DEF Exits
    <2> QED BY <1>1, <2>2 DEF Sits, Holds, Blames
  <1> QED BY <1>2, <1>3, <1>4

LEMMA PruneProbeEffect ==
    ASSUME TypeOK, Situated, NEW p \in Procs, PruneProbe(p)
    PROVE  /\ Moves(p) /\ record' = record /\ line' = line /\ failed' = failed
           /\ Sits(p)' /\ Holds(p)' /\ exit'[p] # 1
           /\ pc[p] = "prune" /\ pc'[p] \in {"prune", "pruning"} /\ limit' = limit /\ exit' = exit
  <1>1. /\ pc[p] = "prune" /\ Now(p) \in todo[p] /\ Now(p) \in Runs /\ line' = line /\ exit' = exit
        /\ limit' = limit
    BY NowFits DEF PruneProbe
  <1>2. CASE lock[Now(p)] # NoProc
    <2>1. Past(p) /\ UNCHANGED <<pc, lock, limit, said, exit>>
      BY <1>2 DEF PruneProbe
    <2>2. Moves(p)
      BY <2>1 DEF Past, Moves, TypeOK
    <2> QED BY <1>1, <2>1, <2>2 DEF PruneProbe, Situated, Sits, Holds, Verbs, NoExit
  <1>3. CASE lock[Now(p)] = NoProc
    <2>1. /\ lock' = [lock EXCEPT ![Now(p)] = p] /\ Goto(p, "pruning")
          /\ UNCHANGED <<todo, limit, said, exit>>
      BY <1>3 DEF PruneProbe
    <2>2. Moves(p) /\ pc'[p] = "pruning" /\ lock'[Now(p)] = p
      BY <1>1, <1>3, <2>1, TakeMoves DEF PCs
    <2>3. Now(p)' = Now(p)
      BY <2>1 DEF Now
    <2> QED BY <1>1, <2>1, <2>2, <2>3 DEF PruneProbe, Situated, Sits, Holds, Verbs, NoExit
  <1> QED BY <1>2, <1>3

LEMMA PruneOneEffect ==
    ASSUME TypeOK, Situated, VerbHolds, NEW p \in Procs, NEW result \in SaveResults, PruneOne(p, result)
    PROVE  /\ Moves(p) /\ Touches(p) /\ line' = line
           /\ Sits(p)' /\ Holds(p)' /\ Blames(p)'
           /\ pc[p] = "pruning" /\ Verbs(p) = "prune" /\ pc'[p] \in {"prune", "done"}
           /\ pc'[p] = "prune" => limit' = limit
           /\ exit'[p] \in {NoExit, 1}
           /\ \A r \in Runs : record'[r] # record[r] =>
                 record'[r] = NoRecord /\ IsRecord(record[r]) /\ record[r].created < limit[p]
  <1> DEFINE r == Now(p)
             goes == Readable(r) /\ PrunableRun(record[r]) /\ record[r].created < limit[p]
  <1>1. /\ pc[p] = "pruning" /\ todo[p] # {} /\ lock[r] = p /\ r \in Runs /\ line' = line
        /\ exit[p] = NoExit /\ Verbs(p) = "prune" /\ ~BadAge(line[p].age)
    BY NowFits DEF PruneOne, VerbHolds, Holds, Situated, Sits
  <1>2. record' = IF goes /\ result # "early" THEN [record EXCEPT ![r] = NoRecord] ELSE record
    BY DEF PruneOne
  <1>3. goes => IsRecord(record[r]) /\ record[r].created < limit[p]
    BY <1>1, ReadableFits
  <1>4. CASE record[r] = Unreadable \/ result # "ok"
    <2>1. Answer(p, 1, {}) /\ failed' = IF result = "ok" THEN failed ELSE failed \cup {p}
      BY <1>4 DEF PruneOne, Fault
    <2>2. Moves(p) /\ pc'[p] = "done" /\ exit'[p] = 1
      BY <2>1, AnswerMoves DEF Exits
    <2>3. record[r] = Unreadable => record'[r] = Unreadable
      BY <1>2, <1>3, RunsVerbsAssumption
    <2>4. Blames(p)'
      BY <1>1, <1>4, <2>1, <2>3 DEF Blames
    <2>5. Sits(p)' /\ Holds(p)'
      BY <2>2 DEF Sits, Holds
    <2> QED BY <1>1, <1>2, <1>3, <2>2, <2>4, <2>5 DEF Touches, TypeOK
  <1>5. CASE ~(record[r] = Unreadable \/ result # "ok")
    <2>1. /\ Past(p) /\ Goto(p, "prune") /\ lock' = [lock EXCEPT ![r] = NoProc]
          /\ UNCHANGED <<limit, exit>>
          /\ said' = said \/ said' = [said EXCEPT ![p] = @ \cup {r}]
      BY <1>5 DEF PruneOne
    <2>2. Moves(p) /\ pc'[p] = "prune"
      BY <1>1, <2>1, PassMoves DEF PCs
    <2>3. Sits(p)' /\ Holds(p)' /\ Blames(p)'
      BY <1>1, <2>1, <2>2 DEF Sits, Holds, Blames, Verbs, NoExit
    <2> QED BY <1>1, <1>2, <1>3, <2>1, <2>2, <2>3 DEF Touches, TypeOK
  <1> QED BY <1>4, <1>5

LEMMA PruneEndEffect ==
    ASSUME TypeOK, Situated, NEW p \in Procs, PruneEnd(p)
    PROVE  /\ Moves(p) /\ record' = record /\ line' = line /\ failed' = failed
           /\ Sits(p)' /\ Holds(p)' /\ exit'[p] # 1
           /\ pc'[p] = "done" /\ Verbs(p) = "prune"
  <1>1. /\ pc[p] = "prune" /\ record' = record /\ line' = line /\ failed' = failed /\ Verbs(p) = "prune"
        /\ Answer(p, 0, said[p]) /\ said[p] \in SUBSET Runs
    BY DEF PruneEnd, Situated, Sits, TypeOK
  <1>2. Moves(p) /\ pc'[p] = "done" /\ exit'[p] = 0
    BY <1>1, AnswerMoves DEF Exits
  <1> QED BY <1>1, <1>2 DEF Sits, Holds

LEMMA DeclineStatEffect ==
    ASSUME TypeOK, Situated, NEW p \in Procs, DeclineStat(p)
    PROVE  /\ Moves(p) /\ record' = record /\ line' = line /\ failed' = failed
           /\ Sits(p)' /\ Holds(p)' /\ exit'[p] \notin {0, 1}
           /\ pc'[p] \in {"locking", "done"} /\ Verbs(p) = "decline" /\ line[p].run \in Runs
           /\ pc'[p] = "locking" => record[line[p].run] # NoRecord
  <1>1. /\ pc[p] = "opening" /\ record' = record /\ line' = line /\ failed' = failed /\ Verbs(p) = "decline"
        /\ exit[p] = NoExit /\ line[p].run \in Runs
    BY DEF DeclineStat, Situated, Sits, TypeOK, Commands, EmptyLine, Verbs
  <1>2. CASE record[line[p].run] = NoRecord
    <2>1. Answer(p, 2, {})
      BY <1>2 DEF DeclineStat, Usage
    <2>2. Moves(p) /\ pc'[p] = "done" /\ exit'[p] = 2
      BY <2>1, AnswerMoves DEF Exits
    <2> QED BY <1>1, <2>2 DEF Sits, Holds
  <1>3. CASE record[line[p].run] # NoRecord
    <2>1. Goto(p, "locking") /\ UNCHANGED <<todo, limit, said, exit, lock>>
      BY <1>3 DEF DeclineStat
    <2>2. Moves(p) /\ pc'[p] = "locking"
      BY <2>1, GotoMoves DEF PCs
    <2> QED BY <1>1, <1>3, <2>1, <2>2 DEF Sits, Holds, Verbs, NoExit
  <1> QED BY <1>2, <1>3

LEMMA DeclineLockEffect ==
    ASSUME TypeOK, Situated, NEW p \in Procs, DeclineLock(p)
    PROVE  /\ Moves(p) /\ record' = record /\ line' = line /\ failed' = failed
           /\ Sits(p)' /\ Holds(p)' /\ Blames(p)' /\ exit'[p] # 0
           /\ pc'[p] \in {"declining", "done"} /\ Verbs(p) = "decline"
  <1>1. /\ pc[p] = "locking" /\ record' = record /\ line' = line /\ failed' = failed /\ Verbs(p) = "decline"
        /\ exit[p] = NoExit /\ line[p].run \in Runs
    BY DEF DeclineLock, Situated, Sits, TypeOK, Commands, EmptyLine, Verbs
  <1>2. CASE lock[line[p].run] # NoProc
    <2>1. Answer(p, 1, {})
      BY <1>2 DEF DeclineLock, Fault
    <2>2. Moves(p) /\ pc'[p] = "done" /\ exit'[p] = 1
      BY <2>1, AnswerMoves DEF Exits
    <2> QED BY <1>1, <2>2 DEF Sits, Holds, Blames, Verbs
  <1>3. CASE lock[line[p].run] = NoProc
    <2>1. /\ lock' = [lock EXCEPT ![line[p].run] = p] /\ Goto(p, "declining")
          /\ UNCHANGED <<todo, limit, said, exit>>
      BY <1>3 DEF DeclineLock
    <2>2. Moves(p) /\ pc'[p] = "declining" /\ lock'[line[p].run] = p
      BY <1>1, <1>3, <2>1, TakeMoves DEF PCs
    <2> QED BY <1>1, <2>1, <2>2 DEF Sits, Holds, Blames, Verbs, NoExit
  <1> QED BY <1>2, <1>3

LEMMA DieEffect ==
    ASSUME TypeOK, NEW p \in Procs, Die(p)
    PROVE  /\ Moves(p) /\ record' = record /\ line' = [line EXCEPT ![p] = EmptyLine] /\ failed' = failed
           /\ Sits(p)' /\ Holds(p)' /\ exit'[p] = NoExit
           /\ pc'[p] = "done" /\ Verbs(p)' = "none"
  <1>1. Answer(p, NoExit, {}) /\ record' = record /\ line' = [line EXCEPT ![p] = EmptyLine] /\ failed' = failed
    BY DEF Die
  <1>2. Moves(p) /\ pc'[p] = "done" /\ exit'[p] = NoExit
    BY <1>1, AnswerMoves
  <1>3. line'[p] = EmptyLine
    BY <1>1 DEF TypeOK
  <1> QED BY <1>1, <1>2, <1>3 DEF Sits, Holds, Verbs, EmptyLine

\* After a decline that answers 0 the execute of the run is over, and it had
\* not left.
LEMMA DeclineOneEffect ==
    ASSUME TypeOK, Situated, VerbHolds, NEW p \in Procs, NEW result \in SaveResults, DeclineOne(p, result)
    PROVE  /\ Moves(p) /\ Touches(p) /\ line' = line
           /\ Sits(p)' /\ Holds(p)' /\ Blames(p)'
           /\ pc'[p] = "done" /\ Verbs(p) = "decline" /\ line[p].run \in Runs
           /\ \A q \in Runs : record[q] # NoRecord => record'[q] # NoRecord
           /\ exit'[p] = 0 => /\ IsRecord(record[line[p].run])
                              /\ ~ExecuteIn(record[line[p].run], {"pending", "answered", "terminal"})
                              /\ IsRecord(record'[line[p].run])
                              /\ ExecuteIn(record'[line[p].run], {"declined", "unreachable"})
  <1> DEFINE r == line[p].run
             rec == record[r]
             state == rec.steps["execute"].state
             may == /\ Readable(r) /\ "execute" \in DOMAIN rec.steps
                    /\ state \in {"not_started", "awaiting_confirmation"}
             new == [rec EXCEPT !.steps["execute"] = Declined(@)]
  <1>1. /\ pc[p] = "declining" /\ lock[r] = p /\ r \in Runs /\ line' = line /\ Verbs(p) = "decline"
    BY DEF DeclineOne, VerbHolds, Holds, Situated, Sits, TypeOK, Commands, EmptyLine, Verbs
  <1>2. record' = IF may /\ result # "early" THEN [record EXCEPT ![r] = new] ELSE record
    <2>1. record' = IF may /\ result # "early"
                    THEN [record EXCEPT ![r].steps["execute"] = Declined(@)] ELSE record
      BY DEF DeclineOne
    <2>2. [record EXCEPT ![r].steps["execute"] = Declined(@)] = [record EXCEPT ![r] = new]
      BY <1>1 DEF TypeOK
    <2> QED BY <2>1, <2>2
  <1>3. may => IsRecord(rec) /\ DeclinedIn(rec, new)
    <2>1. SUFFICES ASSUME may PROVE IsRecord(rec) /\ DeclinedIn(rec, new)
      OBVIOUS
    <2>2. IsRecord(rec) /\ "execute" \in DOMAIN rec.steps
      BY <1>1, <2>1, ReadableFits
    <2>3. rec.steps["execute"] \in Step
      BY <2>2, RecordFits
    <2>4. Declined(rec.steps["execute"]) \in Step /\ Declined(rec.steps["execute"]).state = "declined"
      BY <2>3, ChangesFit
    <2>5. new = [rec EXCEPT !.steps["execute"] = Declined(rec.steps["execute"])]
      OBVIOUS
    <2> HIDE DEF new
    <2>6. IsRecord(new) /\ DOMAIN new.steps = DOMAIN rec.steps
          /\ new.steps["execute"] = Declined(rec.steps["execute"])
      BY <2>2, <2>4, <2>5, WithStep
    <2> QED BY <2>1, <2>2, <2>4, <2>6 DEF DeclinedIn, ExecuteIn
  <1> HIDE DEF new
  <1>4. Touches(p)
    BY <1>1, <1>2, <1>3 DEF Touches, TypeOK
  <1>5. \A q \in Runs : record[q] # NoRecord => record'[q] # NoRecord
    BY <1>1, <1>2, <1>3, RunsVerbsAssumption DEF TypeOK, DeclinedIn
  <1>6. PICK code \in {0, 1, 2, 6}, named \in SUBSET Runs : Answer(p, code, named) /\ (code = 0 =>
           rec \notin {NoRecord, Unreadable} /\ result = "ok" /\ "execute" \in DOMAIN rec.steps /\ ~MayHaveSent(state))
    <2>1. CASE rec = NoRecord
      <3>1. Usage(p)
        BY <2>1, RunsVerbsAssumption DEF DeclineOne, Readable
      <3> QED BY <3>1 DEF Usage
    <2>2. CASE rec = Unreadable \/ (rec # NoRecord /\ result # "ok")
      BY <2>2, RunsVerbsAssumption DEF DeclineOne, Fault
    <2>3. CASE rec \notin {NoRecord, Unreadable} /\ result = "ok" /\ "execute" \notin DOMAIN rec.steps
      BY <2>3 DEF DeclineOne, Fault, Readable
    <2>4. CASE rec \notin {NoRecord, Unreadable} /\ result = "ok" /\ "execute" \in DOMAIN rec.steps
      BY <1>1, <2>4 DEF DeclineOne, Readable
    <2> QED BY <2>1, <2>2, <2>3, <2>4
  <1>7. Moves(p) /\ pc'[p] = "done" /\ exit'[p] = code
    BY <1>6, AnswerMoves DEF Exits
  <1>8. Sits(p)' /\ Holds(p)' /\ Blames(p)'
    BY <1>1, <1>7 DEF Sits, Holds, Blames, Verbs
  <1>9. ASSUME code = 0
        PROVE  /\ IsRecord(rec) /\ ~ExecuteIn(rec, {"pending", "answered", "terminal"})
               /\ IsRecord(record'[r]) /\ ExecuteIn(record'[r], {"declined", "unreachable"})
    <2>1. IsRecord(rec) /\ "execute" \in DOMAIN rec.steps /\ ~MayHaveSent(state) /\ result = "ok" /\ Readable(r)
      BY <1>1, <1>6, <1>9, ReadableFits
    <2>2. state \in {"not_started", "awaiting_confirmation", "declined", "unreachable"}
      BY <2>1, RecordFits DEF Step, States, MayHaveSent
    <2>3. CASE may
      <3>1. record'[r] = new
        BY <1>1, <1>2, <2>1, <2>3 DEF TypeOK
      <3> QED BY <1>3, <2>1, <2>2, <2>3, <3>1 DEF DeclinedIn, ExecuteIn
    <2>4. CASE ~may
      <3>1. record' = record
        BY <1>2, <2>4
      <3> QED BY <2>1, <2>2, <2>4, <3>1 DEF ExecuteIn
    <2> QED BY <2>3, <2>4
  <1> QED BY <1>1, <1>4, <1>5, <1>7, <1>8, <1>9

LEMMA SameRecords ==
    ASSUME TypeOK, record' = record, NEW p \in Procs
    PROVE  Touches(p) /\ PruneRemoves(p)
  BY DEF Touches, PruneRemoves, TypeOK

LEMMA VerbSteps ==
    ASSUME TypeOK, Situated, VerbHolds, NEW p \in Procs, Verb(p)
    PROVE  VerbEffect(p)
  <1> USE DEF VerbEffect, money
  <1>0. line \in [Procs -> Commands \cup {EmptyLine}] /\ Sits(p) /\ Holds(p)
    BY DEF TypeOK, Situated, VerbHolds
  <1>1. ASSUME NEW l \in Lines[p], Type(p, l) PROVE VerbEffect(p)
    <2>1. UNCHANGED <<now, minted, sent, mem, mine, begun>> /\ l \in Commands
      BY <1>1, RunsVerbsAssumption DEF Type
    <2> QED BY <1>0, <1>1, <2>1, TypeEffect, SameRecords DEF Blames, ListGoesOn, CutoffStays, Sits, NoExit
  <1>2. CASE ScrubProbe(p)
    <2>1. UNCHANGED <<now, minted, sent, mem, mine, begun>>
      BY <1>2 DEF ScrubProbe
    <2> QED BY <1>0, <1>2, <2>1, ScrubProbeEffect, SameRecords DEF Blames, ListGoesOn, CutoffStays, Sits, Holds, Verbs, NoExit
  <1>3. CASE ListStart(p)
    <2>1. UNCHANGED <<now, minted, sent, mem, mine, begun>>
      BY <1>3 DEF ListStart
    <2> QED BY <1>0, <1>3, <2>1, ListStartEffect, SameRecords DEF Blames, ListGoesOn, CutoffStays, Sits, Holds, Verbs, NoExit
  <1>4. CASE ReadOne(p)
    <2>1. UNCHANGED <<now, minted, sent, mem, mine, begun>>
      BY <1>4 DEF ReadOne
    <2> QED BY <1>0, <1>4, <2>1, ReadOneEffect, SameRecords DEF Blames, ListGoesOn, CutoffStays, Sits, Holds, Verbs, NoExit
  <1>5. CASE ListEnd(p)
    <2>1. UNCHANGED <<now, minted, sent, mem, mine, begun>>
      BY <1>5 DEF ListEnd
    <2> QED BY <1>0, <1>5, <2>1, ListEndEffect, SameRecords DEF Blames, ListGoesOn, CutoffStays, Sits, Holds, Verbs, NoExit
  <1>6. CASE PruneProbe(p)
    <2>1. UNCHANGED <<now, minted, sent, mem, mine, begun>>
      BY <1>6 DEF PruneProbe
    <2> QED BY <1>0, <1>6, <2>1, PruneProbeEffect, SameRecords DEF Blames, ListGoesOn, CutoffStays, Sits, Holds, Verbs, NoExit
  <1>7. CASE PruneEnd(p)
    <2>1. UNCHANGED <<now, minted, sent, mem, mine, begun>>
      BY <1>7 DEF PruneEnd
    <2> QED BY <1>0, <1>7, <2>1, PruneEndEffect, SameRecords DEF Blames, ListGoesOn, CutoffStays, Sits, Holds, Verbs, NoExit
  <1>8. CASE ShowLoad(p)
    <2>1. UNCHANGED <<now, minted, sent, mem, mine, begun>>
      BY <1>8 DEF ShowLoad
    <2> QED BY <1>0, <1>8, <2>1, ShowLoadEffect, SameRecords DEF Blames, ListGoesOn, CutoffStays, Sits, Holds, Verbs, NoExit
  <1>9. CASE DeclineStat(p)
    <2>1. UNCHANGED <<now, minted, sent, mem, mine, begun>>
      BY <1>9 DEF DeclineStat
    <2> QED BY <1>0, <1>9, <2>1, DeclineStatEffect, SameRecords DEF Blames, ListGoesOn, CutoffStays, Sits, Holds, Verbs, NoExit
  <1>10. CASE DeclineLock(p)
    <2>1. UNCHANGED <<now, minted, sent, mem, mine, begun>>
      BY <1>10 DEF DeclineLock
    <2> QED BY <1>0, <1>10, <2>1, DeclineLockEffect, SameRecords DEF Blames, ListGoesOn, CutoffStays, Sits, Holds, Verbs, NoExit
  <1>11. CASE Die(p)
    <2>1. UNCHANGED <<now, minted, sent, mem, mine, begun>>
      BY <1>11 DEF Die
    <2> QED BY <1>0, <1>11, <2>1, DieEffect, SameRecords DEF Blames, ListGoesOn, CutoffStays, Sits, Holds, Verbs, NoExit
  <1>12. ASSUME NEW result \in SaveResults, ScrubOne(p, result) PROVE VerbEffect(p)
    <2>1. /\ UNCHANGED <<now, minted, sent, mem, mine, begun>>
          /\ failed \subseteq failed' /\ failed' \subseteq failed \cup {p}
      BY <1>12 DEF ScrubOne
    <2> QED BY <1>0, <1>12, <2>1, ScrubOneEffect DEF ListGoesOn, CutoffStays, PruneRemoves, DeclineAnswers, Sits, Verbs, NoExit
  <1>13. ASSUME NEW result \in SaveResults, PruneOne(p, result) PROVE VerbEffect(p)
    <2>1. /\ UNCHANGED <<now, minted, sent, mem, mine, begun>>
          /\ failed \subseteq failed' /\ failed' \subseteq failed \cup {p}
      BY <1>13 DEF PruneOne
    <2> QED BY <1>0, <1>13, <2>1, PruneOneEffect DEF ListGoesOn, CutoffStays, PruneRemoves, DeclineAnswers, Sits, Verbs, NoExit
  <1>14. ASSUME NEW result \in SaveResults, DeclineOne(p, result) PROVE VerbEffect(p)
    <2>1. /\ UNCHANGED <<now, minted, sent, mem, mine, begun>>
          /\ failed \subseteq failed' /\ failed' \subseteq failed \cup {p}
      BY <1>14 DEF DeclineOne
    <2> QED BY <1>0, <1>14, <2>1, DeclineOneEffect DEF ListGoesOn, CutoffStays, PruneRemoves, DeclineAnswers, Sits, Verbs, NoExit
  <1> QED BY <1>1, <1>2, <1>3, <1>4, <1>5, <1>6, <1>7, <1>8, <1>9, <1>10, <1>11, <1>12, <1>13, <1>14 DEF Verb, Sweep

-----------------------------------------------------------------------------
(* What the money command does: to its lock, its record and its copy.      *)

\* It never takes back that a request may have left, nor that one never will.
Keeps(a, b) ==
    /\ IsRecord(b) /\ DOMAIN b.steps = DOMAIN a.steps
    /\ \A states \in {{"pending", "answered", "terminal"}, {"declined", "unreachable"}} :
          ExecuteIn(a, states) => ExecuteIn(b, states)

MoneyEffect ==
    /\ UNCHANGED <<now, line, verb, failed>>
    /\ minted \subseteq minted' /\ minted' \subseteq Runs
    /\ lock' \in [Runs -> Procs \cup {Money, NoProc}]
    /\ \A r \in Runs : lock[r] \in Procs => lock'[r] = lock[r]
    /\ \A r \in Runs : lock'[r] \in Procs => lock'[r] = lock[r]
    /\ \A r \in Runs : lock'[r] # NoProc => r \in minted'
    /\ DOMAIN record' = Runs
    /\ \A r \in Runs : \/ record'[r] = record[r] /\ (r \in minted' => r \in minted)
                       \/ r \notin minted /\ r \in minted' /\ IsContent(record'[r]) /\ record'[r] # NoRecord
                       \/ r \in minted /\ IsRecord(record[r]) /\ Keeps(record[r], record'[r])
    /\ mine' \in Runs \cup {NoRun} /\ begun' \in StepNames \cup {"none"}
    /\ MoneyHolds'
    /\ sent \subseteq sent'
    /\ \A r \in sent' \ sent : r \in Runs /\ r \in minted /\ record' = record /\ IsRecord(record[r])
                             /\ ExecuteIn(record[r], {"pending"})

\* One step of the record is rewritten, from the copy.
LEMMA SaveEffect ==
    ASSUME TypeOK, MoneyHolds, mine # NoRun, NEW new, IsRecord(new), Keeps(mem, new), Save(new),
           UNCHANGED <<now, minted, lock, sent, mine, line, verb, failed>>, Known,
           begun' \in StepNames \cup {"none"},
           begun' # "none" => begun' \in DOMAIN new.steps /\ new.steps[begun'].state = "pending"
    PROVE  MoneyEffect
  <1>1. /\ mine \in Runs /\ mine \in minted /\ lock[mine] = Money /\ IsRecord(mem) /\ record[mine] = mem
        /\ minted \subseteq Runs
    BY DEF TypeOK, MoneyHolds
  <1>2. DOMAIN record' = Runs /\ record'[mine] = new /\ mem' = new
        /\ \A r \in Runs \ {mine} : record'[r] = record[r]
    BY <1>1 DEF Save, TypeOK
  <1>3. MoneyHolds'
    BY <1>1, <1>2 DEF MoneyHolds
  <1>4. /\ UNCHANGED <<now, line, verb, failed>> /\ minted \subseteq minted' /\ minted' \subseteq Runs
        /\ lock' = lock /\ mine' = mine /\ sent' = sent
    BY <1>1
  <1>5. \A r \in Runs : lock'[r] # NoProc => r \in minted'
    BY <1>4 DEF Known
  <1>6. \A r \in Runs : \/ record'[r] = record[r] /\ (r \in minted' => r \in minted)
                        \/ r \in minted /\ IsRecord(record[r]) /\ Keeps(record[r], record'[r])
    BY <1>1, <1>2
  <1>7. lock' \in [Runs -> Procs \cup {Money, NoProc}] /\ mine' \in Runs \cup {NoRun}
    BY <1>4 DEF TypeOK
  <1> QED BY <1>2, <1>3, <1>4, <1>5, <1>6, <1>7 DEF MoneyEffect

LEMMA MintEffect ==
    ASSUME TypeOK, MoneyHolds, MintedOnce, Known, NEW r \in Runs, NEW steps \in Shapes, Mint(r, steps)
    PROVE  MoneyEffect
  <1>1. /\ mine = NoRun /\ r \notin minted /\ minted' = minted \cup {r} /\ mine' = r /\ begun' = begun
        /\ record' = [record EXCEPT ![r] = mem'] /\ lock' = [lock EXCEPT ![r] = Money]
        /\ UNCHANGED <<now, sent, line, verb, failed>>
    BY DEF Mint, Fresh
  <1>2. record[r] = NoRecord /\ lock[r] = NoProc
    BY <1>1 DEF MintedOnce, Known
  <1>3. IsRecord(mem')
    <2>1. NewStep("bytes") \in Step
      BY RunsVerbsAssumption DEF NewStep, Step, States, Tokens, Outcomes
    <2>2. [s \in steps |-> NewStep("bytes")] \in [steps -> Step] /\ steps \in SUBSET StepNames
      BY <2>1, RunsVerbsAssumption
    <2>3. now \in Int
      BY RunsVerbsAssumption DEF TypeOK
    <2>4. mem' = [steps |-> [s \in steps |-> NewStep("bytes")], created |-> now, keep |-> 0]
      BY DEF Mint
    <2>5. mem' \in [steps : [steps -> Step], created : Int, keep : Int]
      BY <2>2, <2>3, <2>4
    <2> QED BY <2>2, <2>5 DEF IsRecord
  <1>4. mem' \notin {NoRecord, Unreadable}
    BY <1>3, RecordFits
  <1>5. DOMAIN record' = Runs /\ record'[r] = mem' /\ \A q \in Runs \ {r} : record'[q] = record[q]
    BY <1>1 DEF TypeOK
  <1>6. lock' \in [Runs -> Procs \cup {Money, NoProc}] /\ lock'[r] = Money
        /\ \A q \in Runs \ {r} : lock'[q] = lock[q]
    BY <1>1 DEF TypeOK
  <1>7. begun = "none"
    BY <1>1 DEF MoneyHolds
  <1>8. MoneyHolds'
    BY <1>1, <1>3, <1>5, <1>6, <1>7, RunsVerbsAssumption DEF MoneyHolds
  <1>9. /\ minted \subseteq minted' /\ minted' \subseteq Runs
        /\ mine' \in Runs \cup {NoRun} /\ begun' \in StepNames \cup {"none"} /\ sent' = sent
    BY <1>1 DEF TypeOK
  <1>10. \A q \in Runs : /\ lock[q] \in Procs => lock'[q] = lock[q]
                         /\ lock'[q] \in Procs => lock'[q] = lock[q]
                         /\ lock'[q] # NoProc => q \in minted'
    BY <1>1, <1>2, <1>6, RunsVerbsAssumption DEF Known
  <1>11. \A q \in Runs : \/ record'[q] = record[q] /\ (q \in minted' => q \in minted)
                         \/ q \notin minted /\ q \in minted' /\ IsContent(record'[q]) /\ record'[q] # NoRecord
    BY <1>1, <1>3, <1>4, <1>5 DEF IsContent
  <1> QED BY <1>1, <1>5, <1>6, <1>8, <1>9, <1>10, <1>11 DEF MoneyEffect

\* What may have left stays so, what is over stays over.
StaysOver(a, b) ==
    /\ a \in {"pending", "answered", "terminal"} => b \in {"pending", "answered", "terminal"}
    /\ a \in {"declined", "unreachable"} => b \in {"declined", "unreachable"}

LEMMA KeepsWithStep ==
    ASSUME NEW rec, IsRecord(rec), NEW s \in DOMAIN rec.steps, NEW step \in Step,
           StaysOver(rec.steps[s].state, step.state),
           NEW new, new = [rec EXCEPT !.steps[s] = step]
    PROVE  IsRecord(new) /\ Keeps(rec, new) /\ s \in DOMAIN new.steps /\ new.steps[s] = step
  <1>1. /\ IsRecord(new) /\ DOMAIN new.steps = DOMAIN rec.steps /\ new.steps[s] = step
        /\ \A q \in DOMAIN rec.steps \ {s} : new.steps[q] = rec.steps[q]
    BY WithStep
  <1>2. \A q \in DOMAIN rec.steps : StaysOver(rec.steps[q].state, new.steps[q].state)
    BY <1>1 DEF StaysOver
  <1> HIDE DEF Step
  <1> QED BY <1>1, <1>2 DEF Keeps, ExecuteIn, StaysOver

\* The money command has a copy of a record that is a record.
LEMMA CopyFits ==
    ASSUME MoneyHolds, mine # NoRun
    PROVE  IsRecord(mem) /\ \A s \in DOMAIN mem.steps : s \in StepNames /\ mem.steps[s] \in Step
  <1>1. IsRecord(mem)
    BY DEF MoneyHolds
  <1> QED BY <1>1, RecordFits

LEMMA BeginEffect ==
    ASSUME TypeOK, MoneyHolds, Known, NEW s \in StepNames, Begin(s)
    PROVE  MoneyEffect
  <1> DEFINE step == Began(mem.steps[s], "bytes")
             new == [mem EXCEPT !.steps[s] = step]
  <1>1. /\ mine # NoRun /\ s \in DOMAIN mem.steps /\ MayBegin(mem.steps[s], "bytes") /\ begun' = s
        /\ UNCHANGED <<now, minted, lock, sent, mine, line, verb, failed>>
    BY DEF Begin, MayStart
  <1>2. Save(new)
    BY DEF Begin
  <1>3. IsRecord(mem) /\ mem.steps[s] \in Step
    BY <1>1, CopyFits
  <1>4. step \in Step /\ step.state = "pending"
    BY <1>3, ChangesFit
  <1>5. StaysOver(mem.steps[s].state, step.state)
    BY <1>1, <1>4 DEF StaysOver, MayBegin, Terminal
  <1> HIDE DEF step
  <1>6. IsRecord(new) /\ Keeps(mem, new) /\ s \in DOMAIN new.steps /\ new.steps[s] = step
    BY <1>1, <1>3, <1>4, <1>5, KeepsWithStep
  <1> HIDE DEF new
  <1> QED BY <1>1, <1>2, <1>4, <1>6, SaveEffect

LEMMA RecordEffect ==
    ASSUME TypeOK, MoneyHolds, Known, NEW outcome \in {"resumable", "settled"}, Record(outcome)
    PROVE  MoneyEffect
  <1> DEFINE step == Recorded(mem.steps[begun], outcome)
             new == [mem EXCEPT !.steps[begun] = step]
  <1>1. /\ mine # NoRun /\ begun \in DOMAIN mem.steps /\ mem.steps[begun].state = "pending" /\ begun' = "none"
        /\ UNCHANGED <<now, minted, lock, sent, mine, line, verb, failed>>
    BY DEF Record, MoneyHolds
  <1>2. Save(new)
    BY DEF Record
  <1>3. IsRecord(mem) /\ mem.steps[begun] \in Step
    BY <1>1, CopyFits
  <1>4. step \in Step /\ step.state \in {"answered", "terminal"}
    BY <1>3, ChangesFit
  <1>5. StaysOver(mem.steps[begun].state, step.state)
    BY <1>1, <1>4 DEF StaysOver
  <1> HIDE DEF step
  <1>6. IsRecord(new) /\ Keeps(mem, new)
    BY <1>1, <1>3, <1>4, <1>5, KeepsWithStep
  <1> HIDE DEF new
  <1> QED BY <1>1, <1>2, <1>6, SaveEffect

\* A prompt is shown, or answered no: the execute has not begun.
LEMMA PromptEffect ==
    ASSUME TypeOK, MoneyHolds, Known, Ask \/ SayNo
    PROVE  MoneyEffect
  <1> DEFINE step == IF Ask THEN Awaiting(mem.steps["execute"]) ELSE Declined(mem.steps["execute"])
             new == [mem EXCEPT !.steps["execute"] = step]
  <1>1. /\ mine # NoRun /\ "execute" \in DOMAIN mem.steps
        /\ mem.steps["execute"].state \in {"not_started", "awaiting_confirmation"}
        /\ UNCHANGED <<now, minted, lock, sent, mine, begun, line, verb, failed>>
    BY DEF Ask, SayNo
  <1>2. Save(new)
    BY DEF Ask, SayNo
  <1>3. IsRecord(mem) /\ mem.steps["execute"] \in Step
    BY <1>1, CopyFits
  <1>4. step \in Step /\ step.state \in {"awaiting_confirmation", "declined"}
    BY <1>3, ChangesFit
  <1>5. StaysOver(mem.steps["execute"].state, step.state)
    BY <1>1 DEF StaysOver
  <1> HIDE DEF step
  <1>6. IsRecord(new) /\ Keeps(mem, new)
    BY <1>1, <1>3, <1>4, <1>5, KeepsWithStep
  <1>7. begun \in DOMAIN mem.steps /\ begun # "execute" => new.steps[begun] = mem.steps[begun]
    BY <1>1, <1>3, <1>4, WithStep
  <1>8. DOMAIN new.steps = DOMAIN mem.steps
    BY <1>6 DEF Keeps
  <1> HIDE DEF new
  <1>9. begun' # "none" => begun' \in DOMAIN new.steps /\ new.steps[begun'].state = "pending"
    BY <1>1, <1>7, <1>8 DEF MoneyHolds
  <1>10. begun' \in StepNames \cup {"none"}
    BY <1>1 DEF TypeOK
  <1> QED BY <1>1, <1>2, <1>6, <1>9, <1>10, SaveEffect

LEMMA PlanEffect ==
    ASSUME TypeOK, MoneyHolds, Known, Plan
    PROVE  MoneyEffect
  <1> DEFINE step == Planned(mem.steps["execute"])
             half == [mem EXCEPT !.steps["execute"] = step]
             new == [half EXCEPT !.keep = now + PlanLife]
  <1>1. /\ mine # NoRun /\ "execute" \in DOMAIN mem.steps
        /\ mem.steps["execute"].state = "not_started"
        /\ UNCHANGED <<now, minted, lock, sent, mine, begun, line, verb, failed>>
    BY DEF Plan
  <1>2. IsRecord(mem) /\ mem.steps["execute"] \in Step
    BY <1>1, CopyFits
  <1>3. Save(new)
    BY DEF Plan
  <1>4. step \in Step /\ step.state = mem.steps["execute"].state
    BY <1>2, ChangesFit
  <1>5. StaysOver(mem.steps["execute"].state, step.state)
    BY <1>4 DEF StaysOver
  <1> HIDE DEF step
  <1>6. IsRecord(half) /\ Keeps(mem, half)
    BY <1>1, <1>2, <1>4, <1>5, KeepsWithStep
  <1>7. begun \in DOMAIN mem.steps /\ begun # "execute" => half.steps[begun] = mem.steps[begun]
    BY <1>1, <1>2, <1>4, WithStep
  <1> HIDE DEF half
  <1>8. now + PlanLife \in Int
    BY RunsVerbsAssumption DEF TypeOK
  <1>9. half \in [steps : [DOMAIN half.steps -> Step], created : Int, keep : Int]
        /\ DOMAIN half.steps \in SUBSET StepNames
    BY <1>6, RecordFits
  <1>10. new \in [steps : [DOMAIN half.steps -> Step], created : Int, keep : Int] /\ new.steps = half.steps
    BY <1>8, <1>9
  <1> HIDE DEF new
  <1>11. IsRecord(new)
    BY <1>9, <1>10 DEF IsRecord
  <1>12. Keeps(mem, new)
    BY <1>6, <1>10, <1>11 DEF Keeps, ExecuteIn
  <1>13. begun' # "none" => begun' \in DOMAIN new.steps /\ new.steps[begun'].state = "pending"
    BY <1>1, <1>6, <1>7, <1>10 DEF MoneyHolds, Keeps
  <1>14. begun' \in StepNames \cup {"none"}
    BY <1>1 DEF TypeOK
  <1> QED BY <1>1, <1>3, <1>11, <1>12, <1>13, <1>14, SaveEffect

LEMMA ResumeEffect ==
    ASSUME TypeOK, MoneyHolds, MintedOnce, Known, NEW r \in Runs, Resume(r)
    PROVE  MoneyEffect
  <1>1. /\ mine = NoRun /\ mine' = r /\ mem' = record[r] /\ lock[r] = NoProc /\ begun = "none" /\ begun' = begun
        /\ lock' = [lock EXCEPT ![r] = Money] /\ Readable(r)
        /\ UNCHANGED <<now, record, minted, sent, line, verb, failed>>
    BY DEF Resume, MoneyHolds
  <1>2. IsRecord(record[r]) /\ r \in minted
    BY <1>1, ReadableFits DEF MintedOnce, Readable
  <1>3. lock' \in [Runs -> Procs \cup {Money, NoProc}] /\ lock'[r] = Money
        /\ \A q \in Runs \ {r} : lock'[q] = lock[q]
    BY <1>1 DEF TypeOK
  <1>4. MoneyHolds'
    BY <1>1, <1>2, <1>3, RunsVerbsAssumption DEF MoneyHolds
  <1>5. \A q \in Runs : /\ lock[q] \in Procs => lock'[q] = lock[q]
                        /\ lock'[q] \in Procs => lock'[q] = lock[q]
                        /\ lock'[q] # NoProc => q \in minted'
    BY <1>1, <1>2, <1>3, RunsVerbsAssumption DEF Known
  <1>6. /\ minted' = minted /\ minted' \subseteq Runs /\ DOMAIN record' = Runs /\ record' = record
        /\ mine' \in Runs \cup {NoRun} /\ begun' \in StepNames \cup {"none"} /\ sent' = sent
    BY <1>1 DEF TypeOK
  <1> QED BY <1>1, <1>3, <1>4, <1>5, <1>6 DEF MoneyEffect

LEMMA LeaveEffect ==
    ASSUME TypeOK, MoneyHolds, Known, Leave
    PROVE  MoneyEffect
  <1>1. /\ mine # NoRun /\ mine' = NoRun /\ mem' = NoRecord /\ begun' = "none"
        /\ lock' = [lock EXCEPT ![mine] = NoProc]
        /\ UNCHANGED <<now, record, minted, sent, line, verb, failed>>
    BY DEF Leave
  <1>2. mine \in Runs /\ lock[mine] = Money
    BY <1>1 DEF TypeOK, MoneyHolds
  <1>3. lock' \in [Runs -> Procs \cup {Money, NoProc}] /\ lock'[mine] = NoProc
        /\ \A q \in Runs \ {mine} : lock'[q] = lock[q]
    BY <1>1, <1>2 DEF TypeOK
  <1>4. MoneyHolds'
    BY <1>1 DEF MoneyHolds
  <1>5. \A q \in Runs : /\ lock[q] \in Procs => lock'[q] = lock[q]
                        /\ lock'[q] \in Procs => lock'[q] = lock[q]
                        /\ lock'[q] # NoProc => q \in minted'
    BY <1>1, <1>2, <1>3, RunsVerbsAssumption DEF Known
  <1>6. /\ minted' = minted /\ minted' \subseteq Runs /\ DOMAIN record' = Runs /\ record' = record
        /\ mine' \in Runs \cup {NoRun} /\ begun' \in StepNames \cup {"none"} /\ sent' = sent
    BY <1>1 DEF TypeOK
  <1> QED BY <1>1, <1>3, <1>4, <1>5, <1>6 DEF MoneyEffect

LEMMA SendEffect ==
    ASSUME TypeOK, MoneyHolds, Known, Send
    PROVE  MoneyEffect
  <1>1. /\ begun = "execute" /\ sent' = sent \cup {mine}
        /\ UNCHANGED <<now, record, minted, lock, mem, mine, begun, line, verb, failed>>
    BY DEF Send
  <1>2. /\ mine # NoRun /\ IsRecord(mem) /\ record[mine] = mem /\ mine \in minted
        /\ "execute" \in DOMAIN mem.steps /\ mem.steps["execute"].state = "pending"
    BY <1>1, RunsVerbsAssumption DEF MoneyHolds, TypeOK
  <1>3. MoneyHolds'
    BY <1>1 DEF MoneyHolds
  <1>4. \A q \in Runs : lock'[q] # NoProc => q \in minted'
    BY <1>1 DEF Known
  <1>5. /\ minted' = minted /\ minted' \subseteq Runs /\ DOMAIN record' = Runs /\ record' = record
        /\ mine' \in Runs \cup {NoRun} /\ begun' \in StepNames \cup {"none"}
        /\ lock' \in [Runs -> Procs \cup {Money, NoProc}] /\ lock' = lock
    BY <1>1 DEF TypeOK
  <1>6. \A r \in sent' \ sent : r \in Runs /\ r \in minted /\ record' = record /\ IsRecord(record[r])
                             /\ ExecuteIn(record[r], {"pending"})
    BY <1>1, <1>2 DEF ExecuteIn, TypeOK
  <1> QED BY <1>1, <1>3, <1>4, <1>5, <1>6 DEF MoneyEffect

LEMMA MoneySteps ==
    ASSUME TypeOK, MoneyHolds, MintedOnce, Known, MoneyStep
    PROVE  MoneyEffect
  BY MintEffect, ResumeEffect, BeginEffect, RecordEffect, PromptEffect, PlanEffect, SendEffect, LeaveEffect
     DEF MoneyStep

-----------------------------------------------------------------------------
(* What any step does to the records, and to a process that is not in it.  *)

Evolves(r) ==
    \/ record'[r] = record[r] /\ (r \in minted' => r \in minted)
    \/ r \notin minted /\ r \in minted' /\ IsContent(record'[r]) /\ record'[r] # NoRecord
    \/ r \in minted /\ IsRecord(record[r]) /\ (record'[r] = NoRecord \/ Keeps(record[r], record'[r]))

StepEffect ==
    /\ now' \in 0..MaxClock /\ now <= now'
    /\ minted \subseteq minted' /\ minted' \subseteq Runs
    /\ DOMAIN record' = Runs
    /\ \A r \in Runs : Evolves(r)
    /\ failed \subseteq failed' /\ failed' \subseteq Procs
    /\ sent \subseteq sent'
    /\ \A r \in sent' \ sent : r \in Runs /\ r \in minted /\ record' = record /\ IsRecord(record[r])
                               /\ ExecuteIn(record[r], {"pending"})

Rests(p) ==
    /\ line'[p] = line[p] /\ pc'[p] = pc[p] /\ todo'[p] = todo[p] /\ limit'[p] = limit[p]
    /\ said'[p] = said[p] /\ exit'[p] = exit[p]
    /\ \A r \in Runs : lock[r] = p => lock'[r] = p
    /\ pc[p] = "idle" \/ still'[p] \subseteq still[p]

\* The history of a process.
Remembers(p) ==
    Verbs(p)' = "list" =>
        /\ pc[p] = "idle" => still'[p] \subseteq Ids
        /\ pc[p] \notin {"idle", "done"} => still'[p] \subseteq {r \in still[p] : MayBeUnresolved(record'[r])}
        /\ pc[p] = "done" => still'[p] = still[p]

LEMMA StillMoves ==
    ASSUME TypeOK, Next
    PROVE  /\ still' \in [Procs -> SUBSET Runs]
           /\ \A p \in Procs : Remembers(p) /\ (Verbs(p)' # "list" => still'[p] = {})
  <1>1. still' = [p \in Procs |->
          IF line'[p].verb # "list" THEN {}
          ELSE CASE pc[p] = "idle" -> {r \in Runs : MayBeUnresolved(record[r])}
                 [] pc[p] = "done" -> still[p]
                 [] OTHER -> {r \in still[p] : MayBeUnresolved(record'[r])}]
    BY DEF Next
  <1>2. ASSUME NEW p \in Procs
        PROVE  /\ still'[p] \subseteq Runs /\ (Verbs(p)' # "list" => still'[p] = {})
               /\ Remembers(p)
    <2>1. still[p] \subseteq Runs
      BY DEF TypeOK
    <2>2. still'[p] = IF line'[p].verb # "list" THEN {}
                  ELSE CASE pc[p] = "idle" -> {r \in Runs : MayBeUnresolved(record[r])}
                         [] pc[p] = "done" -> still[p]
                         [] OTHER -> {r \in still[p] : MayBeUnresolved(record'[r])}
      BY <1>1
    <2>3. CASE line'[p].verb # "list"
      BY <2>2, <2>3 DEF Verbs, Remembers
    <2>4. CASE line'[p].verb = "list" /\ pc[p] = "idle"
      <3>1. still'[p] = {r \in Runs : MayBeUnresolved(record[r])}
        BY <2>2, <2>4
      <3> QED BY <2>4, <3>1 DEF Verbs, Remembers, Ids, MayBeUnresolved
    <2>5. CASE line'[p].verb = "list" /\ pc[p] = "done"
      BY <2>1, <2>2, <2>5 DEF Verbs, Remembers
    <2>6. CASE line'[p].verb = "list" /\ pc[p] \notin {"idle", "done"}
      <3>1. still'[p] = {r \in still[p] : MayBeUnresolved(record'[r])}
        BY <2>2, <2>6
      <3> QED BY <2>1, <2>6, <3>1 DEF Verbs, Remembers
    <2> QED BY <2>3, <2>4, <2>5, <2>6
  <1>3. still' = [p \in Procs |-> still'[p]]
    BY <1>1
  <1> QED BY <1>2, <1>3

\* A process that rests keeps all it has found out.
LEMMA RestEffect ==
    ASSUME VerbsInv, StepEffect, NEW p \in Procs, Rests(p)
    PROVE  Sits(p)' /\ Holds(p)' /\ Knows(p)' /\ HasDeclined(p)' /\ Covers(p)' /\ LooksBack(p)' /\ Blames(p)'
  <1>1. /\ line[p] \in Commands \cup {EmptyLine} /\ todo[p] \subseteq Runs /\ limit[p] \in Int /\ now \in Int
        /\ Sits(p) /\ Holds(p) /\ Knows(p) /\ HasDeclined(p) /\ Covers(p) /\ LooksBack(p) /\ Blames(p)
    BY DEF VerbsInv, TypeOK, Situated, VerbHolds, Known, DeclinedOnRecord, ListCovers, CutoffInThePast,
           FaultsHaveACause, Blames, Verbs
  <1>2. Sits(p)'
    BY <1>1 DEF Sits, Rests, Verbs
  <1>3. Holds(p)'
    <2>1. CASE pc[p] \in {"scrubbing", "pruning"}
      <3>1. Now(p) \in Runs
        BY <1>1, <2>1, MinFits DEF Holds, Now
      <3>2. Now(p)' = Now(p)
        BY DEF Now, Rests
      <3> QED BY <1>1, <2>1, <3>1, <3>2 DEF Holds, Rests
    <2>2. CASE pc[p] = "declining"
      <3>1. line[p].run \in Runs
        BY <1>1, <2>2 DEF Sits, Verbs, Commands, EmptyLine
      <3> QED BY <1>1, <2>2, <3>1 DEF Holds, Rests
    <2> QED BY <1>1, <2>1, <2>2 DEF Holds, Rests
  <1>4. Knows(p)'
    BY <1>1 DEF Knows, Rests, StepEffect
  <1>5. HasDeclined(p)'
    <2>1. SUFFICES ASSUME Verbs(p)' = "decline", exit'[p] = 0
                   PROVE  /\ line[p].run \in minted' \ sent'
                          /\ record'[line[p].run] # NoRecord =>
                                /\ IsRecord(record'[line[p].run])
                                /\ ExecuteIn(record'[line[p].run], {"declined", "unreachable"})
      BY DEF HasDeclined, Rests, ExecuteIn
    <2> DEFINE r == line[p].run
    <2>2. /\ r \in minted \ sent
          /\ record[r] # NoRecord => IsRecord(record[r]) /\ ExecuteIn(record[r], {"declined", "unreachable"})
      BY <1>1, <2>1 DEF HasDeclined, Rests, Verbs
    <2>3. r \in minted' /\ r \in Runs /\ Evolves(r)
      BY <2>2 DEF StepEffect
    <2>4. r \notin sent'
      <3>1. SUFFICES ASSUME r \in sent' PROVE FALSE
        OBVIOUS
      <3>2. IsRecord(record[r]) /\ ExecuteIn(record[r], {"pending"})
        BY <2>2, <3>1 DEF StepEffect
      <3> QED BY <2>2, <3>2, RecordFits DEF ExecuteIn
    <2>5. record'[r] # NoRecord => IsRecord(record'[r]) /\ ExecuteIn(record'[r], {"declined", "unreachable"})
      BY <2>2, <2>3, RecordFits DEF Evolves, Keeps
    <2> QED BY <2>3, <2>4, <2>5
  <1>6. Covers(p)'
    <2>1. Verbs(p) = "list" => pc[p] # "idle"
      BY <1>1 DEF Sits, EmptyLine, Verbs
    <2> QED BY <1>1, <2>1 DEF Covers, Rests, Verbs
  <1>7. LooksBack(p)'
    <2>1. SUFFICES ASSUME pc[p] \in {"prune", "pruning"}
                   PROVE  limit[p] <= now' + Wrap(-ParsedAge(line[p].age))
      BY DEF LooksBack, Rests, ParsedAge, Wrap, Asked, Units
    <2>2. line[p].age \in Age
      BY <1>1, <2>1 DEF Sits, Verbs, Commands, EmptyLine
    <2>3. Wrap(-ParsedAge(line[p].age)) \in Int
      BY <2>2, AgeFits, WrapFits
    <2>4. limit[p] <= now + Wrap(-ParsedAge(line[p].age))
      BY <1>1, <2>1 DEF LooksBack
    <2>5. now' \in Int /\ now <= now'
      BY RunsVerbsAssumption DEF StepEffect
    <2> QED BY <1>1, <2>3, <2>4, <2>5
  <1>8. Blames(p)'
    <2>1. \A r \in Runs : record[r] = Unreadable => record'[r] = Unreadable
      <3>1. ASSUME NEW r \in Runs, record[r] = Unreadable PROVE record'[r] = Unreadable
        <4>1. r \in minted
          BY <3>1, RunsVerbsAssumption DEF VerbsInv, MintedOnce
        <4> QED BY <3>1, <4>1, RecordFits DEF StepEffect, Evolves
      <3> QED BY <3>1
    <2> QED BY <1>1, <2>1 DEF Blames, Rests, StepEffect, Verbs
  <1> QED BY <1>2, <1>3, <1>4, <1>5, <1>6, <1>7, <1>8

\* A process that is done takes no step, and keeps its command line.
LEMMA VerbGuards ==
    ASSUME TypeOK, NEW p \in Procs, Verb(p)
    PROVE  pc[p] # "done" /\ (pc[p] # "idle" /\ Verbs(p)' # "none" => line'[p] = line[p])
  <1>1. ASSUME NEW l \in Lines[p], Type(p, l) PROVE pc[p] = "idle"
    BY <1>1 DEF Type
  <1>2. CASE Sweep(p)
    BY <1>2 DEF Sweep, ScrubProbe, ListStart, ReadOne, ListEnd, PruneProbe, PruneEnd, ScrubOne, PruneOne
  <1>3. CASE ShowLoad(p) \/ DeclineStat(p) \/ DeclineLock(p) \/ \E result \in SaveResults : DeclineOne(p, result)
    BY <1>3 DEF ShowLoad, DeclineStat, DeclineLock, DeclineOne
  <1>4. CASE Die(p)
    <2>1. line'[p] = EmptyLine /\ pc[p] # "done"
      BY <1>4 DEF Die, TypeOK
    <2> QED BY <2>1 DEF Verbs, EmptyLine
  <1> QED BY <1>1, <1>2, <1>3, <1>4 DEF Verb

\* A step of a verb, seen as any step.
LEMMA VerbEvolves ==
    ASSUME VerbsInv, NEW p \in Procs, VerbEffect(p)
    PROVE  StepEffect
  <1>1. TypeOK /\ MintedOnce
    BY DEF VerbsInv
  <1>2. /\ UNCHANGED <<now, minted, sent>> /\ failed \subseteq failed' /\ failed' \subseteq failed \cup {p}
        /\ Touches(p)
    BY DEF VerbEffect
  <1>3. ASSUME NEW r \in Runs PROVE Evolves(r)
    <2>1. CASE record'[r] = record[r]
      BY <1>2, <2>1 DEF Evolves
    <2>2. CASE record'[r] # record[r]
      <3>1. /\ IsRecord(record[r])
            /\ record'[r] = NoRecord \/ SameStates(record[r], record'[r]) \/ DeclinedIn(record[r], record'[r])
        BY <1>2, <2>2 DEF Touches
      <3>2. r \in minted
        BY <1>1, <3>1, RecordFits DEF MintedOnce
      <3>3. SameStates(record[r], record'[r]) => Keeps(record[r], record'[r])
        BY DEF SameStates, Keeps, ExecuteIn
      <3>4. DeclinedIn(record[r], record'[r]) => Keeps(record[r], record'[r])
        BY DEF DeclinedIn, Keeps, ExecuteIn
      <3> QED BY <3>1, <3>2, <3>3, <3>4 DEF Evolves
    <2> QED BY <2>1, <2>2
  <1>4. now \in 0..MaxClock /\ now <= now' /\ minted \subseteq Runs /\ failed' \subseteq Procs /\ DOMAIN record' = Runs
    BY <1>1, <1>2, RunsVerbsAssumption DEF TypeOK, Touches
  <1> QED BY <1>2, <1>3, <1>4 DEF StepEffect

LEMMA OthersRest ==
    ASSUME VerbsInv, NEW p \in Procs, VerbEffect(p), NEW q \in Procs \ {p}, Remembers(q),
           Verbs(q)' # "list" => still'[q] = {}
    PROVE  Rests(q)
  <1>1. \A r \in Runs : lock[r] = q => lock'[r] = q
    BY RunsVerbsAssumption DEF VerbEffect, Moves, Free, Grab
  <1>2. line'[q] = line[q] /\ pc'[q] = pc[q] /\ todo'[q] = todo[q] /\ limit'[q] = limit[q]
        /\ said'[q] = said[q] /\ exit'[q] = exit[q]
    BY DEF VerbEffect, Moves
  <1>3. pc[q] = "idle" \/ still'[q] \subseteq still[q]
    BY DEF Remembers
  <1> QED BY <1>1, <1>2, <1>3 DEF Rests

\* What a verb finds out in its own step.
LEMMA ActEffect ==
    ASSUME VerbsInv, NEW p \in Procs, VerbEffect(p), StepEffect, Remembers(p),
           pc[p] # "done" /\ (pc[p] # "idle" /\ Verbs(p)' # "none" => line'[p] = line[p])
    PROVE  Sits(p)' /\ Holds(p)' /\ Knows(p)' /\ HasDeclined(p)' /\ Covers(p)' /\ LooksBack(p)' /\ Blames(p)'
  <1>1. /\ line'[p] \in Commands \cup {EmptyLine} /\ Sits(p)' /\ Holds(p)' /\ Blames(p)' /\ now' = now
        /\ minted' = minted /\ sent' = sent
    BY DEF VerbEffect
  <1>2. /\ TypeOK /\ MintedOnce /\ Known /\ Knows(p) /\ Covers(p) /\ LooksBack(p) /\ SentOnRecord /\ Sits(p)
    BY DEF VerbsInv, Known, ListCovers, CutoffInThePast, Situated
  <1>3. Ids \subseteq minted /\ now \in Int
    <2>1. Ids \subseteq minted
      BY <1>2 DEF MintedOnce, Ids
    <2>2. now \in Int
      BY <1>2, RunsVerbsAssumption DEF TypeOK
    <2> QED BY <2>1, <2>2
  <1>4. Knows(p)'
    <2>1. todo'[p] \subseteq minted
      BY <1>2, <1>3 DEF VerbEffect, Moves, Knows
    <2>2. ASSUME pc'[p] = "locking" PROVE line'[p].run \in minted
      BY <1>2, <2>2 DEF VerbEffect, MintedOnce
    <2>3. ASSUME pc'[p] = "declining" PROVE line'[p].run \in minted
      <3>1. line'[p].run \in Runs /\ lock'[line'[p].run] = p
        BY <1>1, <2>3 DEF VerbEffect, Sits, Verbs, Commands, EmptyLine
      <3>2. lock'[line'[p].run] = lock[line'[p].run] \/ Free(line'[p].run, p) \/ Grab(line'[p].run, p)
        BY <3>1 DEF VerbEffect, Moves
      <3> QED BY <1>2, <3>1, <3>2, RunsVerbsAssumption DEF Free, Grab, Known, Knows
    <2> QED BY <1>1, <2>1, <2>2, <2>3 DEF Knows
  <1>5. HasDeclined(p)'
    <2>1. SUFFICES ASSUME Verbs(p)' = "decline", exit'[p] = 0 PROVE HasDeclined(p)'
      BY DEF HasDeclined
    <2>2. DeclineAnswers(p)
      BY <2>1 DEF VerbEffect
    <2> DEFINE r == line[p].run
    <2>3. r \in minted /\ r \notin sent
      BY <1>2, <2>2, RecordFits DEF DeclineAnswers, MintedOnce, SentOnRecord
    <2> QED BY <1>1, <2>2, <2>3 DEF HasDeclined, DeclineAnswers, ExecuteIn
  <1>6. Covers(p)'
    <2>1. SUFFICES ASSUME Verbs(p)' = "list"
                   PROVE  /\ pc'[p] = "list" => still'[p] \subseteq said'[p] \cup todo'[p]
                          /\ exit'[p] = 0 => still'[p] \subseteq said'[p]
      BY DEF Covers
    <2>2. ListGoesOn(p)
      BY <2>1 DEF VerbEffect
    <2>3. /\ pc[p] = "idle" => still'[p] \subseteq Ids
          /\ pc[p] # "idle" => still'[p] \subseteq {r \in still[p] : MayBeUnresolved(record'[r])}
      BY <2>1 DEF Remembers
    <2>4. pc[p] = "list" => line'[p] = line[p] /\ Verbs(p) = "list" /\ still[p] \subseteq said[p] \cup todo[p]
      BY <1>2, <2>1 DEF Covers, Verbs
    <2>5. still'[p] \subseteq Ids \/ pc'[p] # "list"
      <3>1. SUFFICES ASSUME pc'[p] = "list", pc[p] # "idle" PROVE still'[p] \subseteq Ids
        BY <2>3
      <3>2. record' = record /\ still[p] \subseteq Runs
        BY <1>2, <2>2, <3>1 DEF ListGoesOn, TypeOK
      <3> QED BY <2>3, <3>1, <3>2 DEF MayBeUnresolved, Ids
    <2>6. ASSUME pc'[p] = "list", pc[p] = "list", said[p] \subseteq said'[p],
                 todo'[p] = todo[p] \ {Now(p)}, record[Now(p)] # Unreadable, record' = record,
                 Now(p) \in Runs,
                 Readable(Now(p)) /\ Shows(line[p], record[Now(p)]) => Now(p) \in said'[p]
          PROVE  still'[p] \subseteq said'[p] \cup todo'[p]
      <3>1. Now(p) \in still'[p] => Now(p) \in said'[p]
        BY <2>3, <2>4, <2>6 DEF MayBeUnresolved, Readable, Shows, Verbs
      <3>2. still'[p] \subseteq said[p] \cup todo[p]
        BY <2>3, <2>4, <2>6
      <3> QED BY <2>6, <3>1, <3>2
    <2>7. pc'[p] = "list" => still'[p] \subseteq said'[p] \cup todo'[p]
      BY <2>2, <2>5, <2>6 DEF ListGoesOn
    <2>8. exit'[p] = 0 => still'[p] \subseteq said'[p]
      BY <2>2, <2>3, <2>4 DEF ListGoesOn
    <2> QED BY <2>7, <2>8
  <1>7. LooksBack(p)'
    <2>1. SUFFICES ASSUME pc'[p] \in {"prune", "pruning"}
                   PROVE  limit'[p] <= now' + Wrap(-ParsedAge(line'[p].age))
      BY DEF LooksBack, ParsedAge, Wrap, Asked, Units
    <2>2. line'[p] = line[p] /\ line[p].age \in Age
      BY <1>1, <2>1 DEF VerbEffect, CutoffStays, Sits, Verbs, Commands, EmptyLine
    <2>3. Wrap(-ParsedAge(line[p].age)) \in Int
      BY <2>2, AgeFits, WrapFits
    <2> QED BY <1>1, <1>2, <1>3, <2>1, <2>2, <2>3 DEF VerbEffect, CutoffStays, LooksBack
  <1> QED BY <1>1, <1>4, <1>5, <1>6, <1>7

-----------------------------------------------------------------------------
(* The invariant.                                                          *)

LEMMA RecordsKept ==
    ASSUME VerbsInv, StepEffect
    PROVE  /\ \A r \in Runs : IsContent(record'[r])
           /\ MintedOnce' /\ SentOnRecord'
  <1>1. TypeOK /\ MintedOnce /\ SentOnRecord
    BY DEF VerbsInv
  <1>2. ASSUME NEW r \in Runs PROVE IsContent(record'[r])
    <2>1. IsContent(record[r]) /\ Evolves(r)
      BY <1>1 DEF TypeOK, StepEffect
    <2> QED BY <2>1 DEF Evolves, Keeps, IsContent
  <1>3. MintedOnce'
    BY <1>1 DEF MintedOnce, StepEffect, Evolves
  <1>4. ASSUME NEW r \in sent'
        PROVE  r \in minted' /\ (record'[r] # NoRecord =>
                  IsRecord(record'[r]) /\ ExecuteIn(record'[r], {"pending", "answered", "terminal"}))
    <2>1. CASE r \in sent
      <3>1. /\ r \in minted /\ r \in Runs
            /\ record[r] # NoRecord =>
                  IsRecord(record[r]) /\ ExecuteIn(record[r], {"pending", "answered", "terminal"})
        BY <1>1, <2>1 DEF SentOnRecord, TypeOK
      <3>2. Evolves(r) /\ r \in minted'
        BY <3>1 DEF StepEffect
      <3> QED BY <3>1, <3>2, RecordFits DEF Evolves, Keeps
    <2>2. CASE r \notin sent
      <3>1. r \in minted /\ record' = record /\ IsRecord(record[r]) /\ ExecuteIn(record[r], {"pending"})
        BY <2>2 DEF StepEffect
      <3> QED BY <3>1 DEF StepEffect, ExecuteIn
    <2> QED BY <2>1, <2>2
  <1>5. SentOnRecord'
    BY <1>4 DEF SentOnRecord, ExecuteIn, IsRecord
  <1> QED BY <1>2, <1>3, <1>5

LEMMA VerbKeeps ==
    ASSUME VerbsInv, Next, NEW p \in Procs, Verb(p)
    PROVE  VerbsInv'
  <1>1. TypeOK /\ Situated /\ VerbHolds /\ MoneyHolds /\ MintedOnce /\ Known
    BY DEF VerbsInv
  <1>2. VerbEffect(p) /\ StepEffect
    BY <1>1, VerbSteps, VerbEvolves
  <1>3. /\ still' \in [Procs -> SUBSET Runs]
        /\ \A q \in Procs : Remembers(q) /\ (Verbs(q)' # "list" => still'[q] = {})
    BY <1>1, StillMoves
  <1>4. Sits(p)' /\ Holds(p)' /\ Knows(p)' /\ HasDeclined(p)' /\ Covers(p)' /\ LooksBack(p)' /\ Blames(p)'
    BY <1>1, <1>2, <1>3, VerbGuards, ActEffect
  <1>5. ASSUME NEW q \in Procs \ {p}
        PROVE  Sits(q)' /\ Holds(q)' /\ Knows(q)' /\ HasDeclined(q)' /\ Covers(q)' /\ LooksBack(q)' /\ Blames(q)'
    <2>1. Rests(q)
      BY <1>2, <1>3, OthersRest
    <2> QED BY <1>2, <2>1, RestEffect
  <1>6. \A q \in Procs :
          Sits(q)' /\ Holds(q)' /\ Knows(q)' /\ HasDeclined(q)' /\ Covers(q)' /\ LooksBack(q)' /\ Blames(q)'
    BY <1>4, <1>5
  <1>7. /\ \A r \in Runs : IsContent(record'[r])
        /\ MintedOnce' /\ SentOnRecord'
    BY <1>2, RecordsKept
  <1>8. TypeOK'
    <2>1. /\ DOMAIN record' = Runs /\ minted' \in SUBSET Runs /\ failed' \in SUBSET Procs /\ now' \in 0..MaxClock
      BY <1>2 DEF StepEffect
    <2>2. /\ UNCHANGED <<sent, mem, mine, begun>> /\ line' \in [Procs -> Commands \cup {EmptyLine}]
          /\ pc' \in [Procs -> PCs] /\ todo' \in [Procs -> SUBSET Runs] /\ limit' \in [Procs -> Int]
          /\ said' \in [Procs -> SUBSET Runs] /\ exit' \in [Procs -> Exits \cup {NoExit}]
          /\ lock' \in [Runs -> Procs \cup {Money, NoProc}]
      BY <1>2 DEF VerbEffect, Moves
    <2> QED BY <1>1, <1>3, <1>7, <2>1, <2>2 DEF TypeOK, IsContent, IsRecord
  <1>9. MoneyHolds'
    <2>1. UNCHANGED <<minted, sent, mem, mine, begun>>
      BY <1>2 DEF VerbEffect
    <2>2. CASE mine = NoRun
      BY <1>1, <2>1, <2>2 DEF MoneyHolds
    <2>3. CASE mine # NoRun
      <3>1. mine \in Runs /\ lock[mine] = Money
        BY <1>1, <2>3 DEF MoneyHolds, TypeOK
      <3>2. lock'[mine] = Money
        BY <1>2, <3>1, RunsVerbsAssumption DEF VerbEffect, Moves, Free, Grab
      <3>3. record'[mine] = record[mine]
        BY <1>2, <3>1, RunsVerbsAssumption DEF VerbEffect, Touches
      <3> QED BY <1>1, <2>1, <2>3, <3>2, <3>3 DEF MoneyHolds, IsRecord
    <2> QED BY <2>2, <2>3
  <1>10. \A r \in Runs : lock'[r] # NoProc => r \in minted'
    <2>1. ASSUME NEW r \in Runs, lock'[r] # NoProc PROVE r \in minted
      <3>1. lock'[r] = lock[r] \/ Grab(r, p)
        BY <1>2, <2>1 DEF VerbEffect, Moves, Free
      <3> QED BY <1>1, <2>1, <3>1 DEF Grab, Known, Knows
    <2> QED BY <1>2, <2>1 DEF StepEffect
  <1>11. Situated' /\ VerbHolds' /\ Known' /\ DeclinedOnRecord' /\ ListCovers' /\ CutoffInThePast'
    BY <1>6, <1>10 DEF Situated, VerbHolds, Known, DeclinedOnRecord, ListCovers, CutoffInThePast
  <1>12. FaultsHaveACause'
    BY <1>6 DEF FaultsHaveACause, Blames, Verbs
  <1> QED BY <1>7, <1>8, <1>9, <1>11, <1>12 DEF VerbsInv

\* A step of the money command, of a newer ferry, of the clock, or none.
AsideEffect ==
    /\ UNCHANGED <<line, verb, failed>>
    /\ StepEffect
    /\ lock' \in [Runs -> Procs \cup {Money, NoProc}]
    /\ \A r \in Runs : /\ lock[r] \in Procs => lock'[r] = lock[r]
                       /\ lock'[r] # NoProc => r \in minted'
    /\ mine' \in Runs \cup {NoRun} /\ begun' \in StepNames \cup {"none"}
    /\ MoneyHolds'
    /\ still' \in [Procs -> SUBSET Runs]
    /\ \A p \in Procs : pc[p] = "idle" \/ still'[p] \subseteq still[p]

LEMMA AsideKeeps ==
    ASSUME VerbsInv, AsideEffect
    PROVE  VerbsInv'
  <1>1. TypeOK /\ StepEffect /\ MoneyHolds'
    BY DEF VerbsInv, AsideEffect
  <1>2. ASSUME NEW p \in Procs
        PROVE  Sits(p)' /\ Holds(p)' /\ Knows(p)' /\ HasDeclined(p)' /\ Covers(p)' /\ LooksBack(p)' /\ Blames(p)'
    <2>1. \A r \in Runs : lock[r] = p => lock'[r] = p
      BY DEF AsideEffect
    <2>2. line' = line /\ pc' = pc /\ todo' = todo /\ limit' = limit /\ said' = said /\ exit' = exit
      BY DEF AsideEffect, verb
    <2>3. pc[p] = "idle" \/ still'[p] \subseteq still[p]
      BY DEF AsideEffect
    <2>4. Rests(p)
      BY <2>1, <2>2, <2>3 DEF Rests
    <2> QED BY <1>1, <2>4, RestEffect
  <1>3. /\ \A r \in Runs : IsContent(record'[r])
        /\ MintedOnce' /\ SentOnRecord'
    BY <1>1, RecordsKept
  <1>4. sent' \subseteq Runs
    BY <1>1 DEF StepEffect, TypeOK
  <1>5. mem' = NoRecord \/ IsRecord(mem')
    BY <1>1 DEF MoneyHolds, IsRecord
  <1>6. TypeOK'
    <2>1. /\ DOMAIN record' = Runs /\ minted' \in SUBSET Runs /\ failed' \in SUBSET Procs /\ now' \in 0..MaxClock
      BY <1>1 DEF StepEffect
    <2>2. line' = line /\ pc' = pc /\ todo' = todo /\ limit' = limit /\ said' = said /\ exit' = exit
      BY DEF AsideEffect, verb
    <2>3. /\ lock' \in [Runs -> Procs \cup {Money, NoProc}] /\ still' \in [Procs -> SUBSET Runs]
          /\ mine' \in Runs \cup {NoRun} /\ begun' \in StepNames \cup {"none"}
      BY DEF AsideEffect
    <2> QED BY <1>1, <1>3, <1>4, <1>5, <2>1, <2>2, <2>3 DEF TypeOK, IsContent, IsRecord
  <1>7. Situated' /\ VerbHolds' /\ Known' /\ DeclinedOnRecord' /\ ListCovers' /\ CutoffInThePast'
    BY <1>2 DEF Situated, VerbHolds, Known, DeclinedOnRecord, ListCovers, CutoffInThePast, AsideEffect
  <1>8. FaultsHaveACause'
    BY <1>2 DEF FaultsHaveACause, Blames, Verbs
  <1> QED BY <1>1, <1>3, <1>6, <1>7, <1>8 DEF VerbsInv

LEMMA MoneyIsAside ==
    ASSUME VerbsInv, Next, MoneyStep
    PROVE  AsideEffect
  <1>1. TypeOK /\ MoneyHolds /\ MintedOnce /\ Known
    BY DEF VerbsInv
  <1>2. MoneyEffect
    BY <1>1, MoneySteps
  <1>3. ASSUME NEW r \in Runs PROVE Evolves(r)
    BY <1>2 DEF MoneyEffect, Evolves
  <1>4. StepEffect
    BY <1>1, <1>2, <1>3, RunsVerbsAssumption DEF MoneyEffect, StepEffect, TypeOK
  <1>5. /\ still' \in [Procs -> SUBSET Runs]
        /\ \A q \in Procs : pc[q] = "idle" \/ still'[q] \subseteq still[q]
    BY <1>1, StillMoves DEF Remembers
  <1> QED BY <1>2, <1>4, <1>5 DEF MoneyEffect, AsideEffect

LEMMA NewerIsAside ==
    ASSUME VerbsInv, Next, NEW r \in Runs, MintNewer(r)
    PROVE  AsideEffect
  <1>1. TypeOK /\ MoneyHolds /\ MintedOnce /\ Known
    BY DEF VerbsInv
  <1>2. /\ r \notin minted /\ minted' = minted \cup {r} /\ record' = [record EXCEPT ![r] = Unreadable]
        /\ UNCHANGED <<now, lock, sent, mem, mine, begun, line, verb, failed>>
    BY DEF MintNewer, Fresh, money
  <1>3. DOMAIN record' = Runs /\ record'[r] = Unreadable /\ \A q \in Runs \ {r} : record'[q] = record[q]
    BY <1>1, <1>2 DEF TypeOK
  <1>4. ASSUME NEW q \in Runs PROVE Evolves(q)
    BY <1>2, <1>3, RunsVerbsAssumption DEF Evolves, IsContent
  <1>5. StepEffect
    BY <1>1, <1>2, <1>3, <1>4, RunsVerbsAssumption DEF StepEffect, TypeOK
  <1>6. /\ still' \in [Procs -> SUBSET Runs]
        /\ \A q \in Procs : pc[q] = "idle" \/ still'[q] \subseteq still[q]
    BY <1>1, StillMoves DEF Remembers
  <1>7. MoneyHolds'
    <2>1. mine # NoRun => mine \in Runs /\ mine # r
      BY <1>1, <1>2 DEF MoneyHolds, TypeOK
    <2> QED BY <1>1, <1>2, <1>3, <2>1 DEF MoneyHolds, IsRecord
  <1>8. /\ lock' \in [Runs -> Procs \cup {Money, NoProc}] /\ lock' = lock
        /\ mine' \in Runs \cup {NoRun} /\ begun' \in StepNames \cup {"none"}
    BY <1>1, <1>2 DEF TypeOK
  <1>9. \A q \in Runs : lock'[q] # NoProc => q \in minted'
    BY <1>1, <1>2, <1>8 DEF Known
  <1> QED BY <1>2, <1>5, <1>6, <1>7, <1>8, <1>9 DEF AsideEffect

LEMMA TickIsAside ==
    ASSUME VerbsInv, (Next /\ Tick) \/ UNCHANGED vars
    PROVE  AsideEffect
  <1>1. TypeOK /\ MoneyHolds /\ MintedOnce /\ Known /\ Situated
    BY DEF VerbsInv
  <1>2. /\ UNCHANGED <<record, minted, lock, sent, mem, mine, begun, line, verb, failed>>
        /\ now' = now \/ (now < MaxClock /\ now' = now + 1)
    BY DEF Tick, vars, money
  <1>3. now' \in 0..MaxClock /\ now <= now'
    BY <1>1, <1>2, RunsVerbsAssumption DEF TypeOK
  <1>4. StepEffect
    BY <1>1, <1>2, <1>3 DEF StepEffect, TypeOK, Evolves
  <1>5. MoneyHolds'
    BY <1>1, <1>2 DEF MoneyHolds, IsRecord
  <1>6. /\ lock' \in [Runs -> Procs \cup {Money, NoProc}] /\ lock' = lock
        /\ mine' \in Runs \cup {NoRun} /\ begun' \in StepNames \cup {"none"}
    BY <1>1, <1>2 DEF TypeOK
  <1>7. \A q \in Runs : lock'[q] # NoProc => q \in minted'
    BY <1>1, <1>2 DEF Known
  <1>8. /\ still' \in [Procs -> SUBSET Runs]
        /\ \A q \in Procs : pc[q] = "idle" \/ still'[q] \subseteq still[q]
    <2>1. CASE Next
      BY <1>1, <2>1, StillMoves DEF Remembers
    <2>2. CASE UNCHANGED vars
      BY <1>1, <2>2 DEF vars, TypeOK
    <2> QED BY <2>1, <2>2
  <1> QED BY <1>2, <1>4, <1>5, <1>6, <1>7, <1>8 DEF AsideEffect

LEMMA VerbsStart == Init => VerbsInv
  <1> SUFFICES ASSUME Init PROVE VerbsInv
    OBVIOUS
  <1>1. /\ now = 0 /\ record \in Found /\ minted = Ids
        /\ lock = [r \in Runs |-> NoProc]
        /\ sent = {r \in Runs : Readable(r) /\ "execute" \in DOMAIN record[r].steps
                                            /\ MayHaveSent(record[r].steps["execute"].state)}
        /\ mem = NoRecord /\ mine = NoRun /\ begun = "none"
        /\ line = [p \in Procs |-> EmptyLine] /\ pc = [p \in Procs |-> "idle"]
        /\ todo = [p \in Procs |-> {}] /\ limit = [p \in Procs |-> 0] /\ said = [p \in Procs |-> {}]
        /\ exit = [p \in Procs |-> NoExit] /\ failed = {} /\ still = [p \in Procs |-> {}]
    BY DEF Init
  <1>2. DOMAIN record = Runs /\ \A r \in Runs : IsContent(record[r])
    BY <1>1, RunsVerbsAssumption
  <1>3. TypeOK
    <2>1. now \in 0..MaxClock
      BY <1>1, RunsVerbsAssumption
    <2>2. minted \in SUBSET Runs /\ sent \in SUBSET Runs
      BY <1>1 DEF Ids
    <2>3. pc \in [Procs -> PCs] /\ exit \in [Procs -> Exits \cup {NoExit}] /\ limit \in [Procs -> Int]
      BY <1>1 DEF PCs
    <2> QED BY <1>1, <1>2, <2>1, <2>2, <2>3 DEF TypeOK
  <1>4. \A p \in Procs : line[p] = EmptyLine /\ pc[p] = "idle" /\ exit[p] = NoExit /\ todo[p] = {}
    BY <1>1
  <1>5. Situated /\ VerbHolds /\ DeclinedOnRecord /\ ListCovers /\ CutoffInThePast /\ FaultsHaveACause
    BY <1>4 DEF Situated, Sits, VerbHolds, Holds, DeclinedOnRecord, HasDeclined, ListCovers, Covers,
                CutoffInThePast, LooksBack, FaultsHaveACause, EmptyLine, Verbs, NoExit
  <1>6. MoneyHolds /\ MintedOnce
    BY <1>1 DEF MoneyHolds, MintedOnce, Ids
  <1>7. Known
    BY <1>1, <1>4 DEF Known, Knows
  <1>8. SentOnRecord
    <2>1. ASSUME NEW r \in sent
          PROVE  r \in minted /\ IsRecord(record[r]) /\ ExecuteIn(record[r], {"pending", "answered", "terminal"})
      BY <1>1, <1>2, <2>1 DEF Readable, Ids, IsContent, MayHaveSent, ExecuteIn
    <2> QED BY <2>1 DEF SentOnRecord
  <1> QED BY <1>3, <1>5, <1>6, <1>7, <1>8 DEF VerbsInv

LEMMA VerbsStep == VerbsInv /\ [Next]_vars => VerbsInv'
  <1> SUFFICES ASSUME VerbsInv, [Next]_vars PROVE VerbsInv'
    OBVIOUS
  <1>1. CASE Next
    <2>1. ASSUME NEW p \in Procs, Verb(p) PROVE VerbsInv'
      BY <1>1, <2>1, VerbKeeps
    <2>2. CASE MoneyStep
      BY <1>1, <2>2, MoneyIsAside, AsideKeeps
    <2>3. ASSUME NEW r \in Runs, MintNewer(r) PROVE VerbsInv'
      BY <1>1, <2>3, NewerIsAside, AsideKeeps
    <2>4. CASE Tick
      BY <1>1, <2>4, TickIsAside, AsideKeeps
    <2> QED BY <1>1, <2>1, <2>2, <2>3, <2>4 DEF Next, Anyone
  <1>2. CASE UNCHANGED vars
    BY <1>2, TickIsAside, AsideKeeps
  <1> QED BY <1>1, <1>2

\* The verbs, a money command beside them and a newer ferry keep the
\* invariant, however their steps interleave.
THEOREM VerbsCorrect == Spec => []VerbsInv
  BY VerbsStart, VerbsStep, PTL DEF Spec

\* Every variable keeps its type.
THEOREM VerbsTyped == Spec => []TypeOK
  <1>1. VerbsInv => TypeOK
    BY DEF VerbsInv
  <1> QED BY <1>1, VerbsCorrect, PTL

\* A decline that answered 0 is the last word on its run (Ledger.Decline): the
\* record says that the execute is over, and no money command begins it again.
THEOREM DeclineIsTheLastWord == Spec => []DeclinedNeverLeaves
  <1>1. VerbsInv => DeclinedNeverLeaves
    BY DEF VerbsInv, DeclinedOnRecord, HasDeclined, DeclinedNeverLeaves, Verbs
  <1> QED BY <1>1, VerbsCorrect, PTL

\* A pending list that answers 0 has named every run that was unresolved all
\* along (Ledger.List, runList).
THEOREM ListNamesThePending == Spec => []PendingListIsComplete
  <1>1. VerbsInv => PendingListIsComplete
    BY DEF VerbsInv, ListCovers, Covers, Situated, Sits, PendingListIsComplete, Verbs, NoExit
  <1> QED BY <1>1, VerbsCorrect, PTL

\* A verb fails for the disk or for a record it cannot read, and never for
\* what another process did beside it.
THEOREM VerbsFailForACause == Spec => []FaultsHaveACause
  <1>1. VerbsInv => FaultsHaveACause
    BY DEF VerbsInv
  <1> QED BY <1>1, VerbsCorrect, PTL

\* Only a prune removes a record, and only one minted longer ago than the age
\* it was given: the cutoff lies that far behind a clock that has only gone on.
LEMMA PruneSparesTheYoung ==
    ASSUME VerbsInv, Next, NEW r \in Runs, record[r] # NoRecord, record'[r] = NoRecord
    PROVE  \E p \in Procs :
             /\ pc[p] = "pruning" /\ line[p].verb = "prune"
             /\ Fits(Asked(line[p].age)) => record[r].created + Asked(line[p].age) < now
  <1>1. TypeOK /\ Situated /\ VerbHolds /\ MoneyHolds /\ MintedOnce /\ Known /\ CutoffInThePast
    BY DEF VerbsInv
  <1>2. ASSUME NEW p \in Procs, Verb(p)
        PROVE  /\ pc[p] = "pruning" /\ line[p].verb = "prune"
               /\ Fits(Asked(line[p].age)) => record[r].created + Asked(line[p].age) < now
    <2>1. /\ pc[p] = "pruning" /\ Verbs(p) = "prune"
          /\ IsRecord(record[r]) /\ record[r].created < limit[p]
      BY <1>1, <1>2, VerbSteps DEF VerbEffect, PruneRemoves
    <2> DEFINE asked == Asked(line[p].age)
    <2>2. line[p].age \in Age /\ line[p].age.n >= 0
      <3>1. line[p].age \in Age /\ ~BadAge(line[p].age)
        BY <1>1, <2>1 DEF TypeOK, Situated, Sits, Verbs, Commands, EmptyLine
      <3> QED BY <3>1 DEF BadAge, Age
    <2>3. asked \in Int /\ asked >= 0 /\ now \in Int /\ Longest \in Nat
      BY <1>1, <2>2, AgeFits, RunsVerbsAssumption DEF TypeOK
    <2>4. limit[p] \in Int /\ limit[p] <= now + Wrap(-ParsedAge(line[p].age)) /\ record[r].created \in Int
      BY <1>1, <2>1, RecordFits DEF TypeOK, CutoffInThePast, LooksBack
    <2>5. ASSUME Fits(asked) PROVE record[r].created + asked < now
      <3>1. ParsedAge(line[p].age) = asked
        BY <2>3, <2>5, WrapFits DEF ParsedAge
      <3>2. Fits(-asked) /\ -asked \in Int
        BY <2>3, <2>5 DEF Fits
      <3>3. Wrap(-asked) = -asked
        BY <3>2, WrapFits
      <3> HIDE DEF asked
      <3> QED BY <2>1, <2>3, <2>4, <3>1, <3>3
    <2> QED BY <2>1, <2>5 DEF Verbs
  <1>3. ~MoneyStep
    <2>1. MoneyStep => IsRecord(record'[r]) \/ record'[r] # NoRecord
      BY <1>1, MoneySteps DEF MoneyEffect, Keeps
    <2> QED BY <2>1, RecordFits
  <1>4. \A q \in Runs : ~MintNewer(q)
    BY <1>1, RunsVerbsAssumption DEF MintNewer, TypeOK
  <1>5. ~Tick
    BY DEF Tick
  <1>6. PICK p \in Procs : Verb(p)
    BY <1>3, <1>4, <1>5 DEF Next, Anyone
  <1> QED BY <1>2, <1>6

THEOREM PruneLooksBack == Spec => PruneKeepsTheYoung
  <1>1. VerbsInv /\ [Next]_vars =>
          [\A r \in Runs : record[r] # NoRecord /\ record'[r] = NoRecord =>
             \E p \in Procs :
                /\ pc[p] = "pruning" /\ line[p].verb = "prune"
                /\ Fits(Asked(line[p].age)) => record[r].created + Asked(line[p].age) < now]_vars
    BY PruneSparesTheYoung
  <1> QED BY <1>1, VerbsCorrect, PTL DEF Spec, PruneKeepsTheYoung

=============================================================================
