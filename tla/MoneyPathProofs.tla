-------------------------- MODULE MoneyPathProofs --------------------------
(***************************************************************************)
(* Proofs about MoneyPath for any numbers of processes, runs and keys, any *)
(* command lines and any amount of trouble.                                *)
(***************************************************************************)
EXTENDS MoneyPath, TLAPS

-----------------------------------------------------------------------------
(* The invariant.                                                          *)

\* Before it reaches a step, between Begin and the answer, and between the
\* gate and the request.
Early == {"routing", "checking", "minting", "opening", "resuming"}
Sending == {"begun", "sending", "waiting", "answered"}
Gate == {"consent", "prompt", "ready"}
AtStep == Gate \cup Sending \cup {"closing", "polling", "after", "reporting"}

\* An invocation that works on a run owns its lock.
Works(i) == i.pc \in AtStep \cup {"resuming"} \/ (i.pc = "checking" /\ i.run # NoRun)

\* What an invocation knows of itself: what it sent it has flagged, and an end
\* that says "nothing was sent" is one of an invocation that sent nothing.
Flagged(i) ==
    /\ i.pc \in Early => i.left = {} /\ ~i.flag /\ i.ans = "none"
    /\ i.pc \in {"sending", "waiting", "answered"} => i.flag
    /\ i.pc # "idle" /\ i.left # {} => i.flag
    /\ i.pc = "waiting" => i.step \in i.left
    /\ i.pc = "answered" => i.ans # "none"
    /\ i.pc \in AtStep /\ i.ans = "fresh" => i.step \in i.left
    /\ i.pc \notin {"idle", "reporting"} => i.exit = "none"
    /\ i.pc = "reporting" => i.exit \notin {"cli_fault", "usage"}
    /\ i.pc = "idle" /\ i.exit \in {"cli_fault", "usage"} => i.left = {}

\* The execute of a resume has consent of this invocation, or follows a
\* simulate that this invocation sent.
Agreed(i) ==
    /\ i.pc \in {"consent", "prompt"} => i.step = "execute"
    /\ i.pc = "consent" /\ i.implied /\ i.cmd.verb = "resume" => "simulate" \in i.left
    /\ i.pc \in {"ready", "begun", "sending", "waiting", "answered"} /\ i.step = "execute"
       /\ i.cmd.verb = "resume" => i.cmd.yes \/ i.agreed \/ "simulate" \in i.left

Fit(i) ==
    /\ Flagged(i) /\ Agreed(i)
    /\ i.pc \in {"routing", "minting"} => i.run = NoRun
    /\ i.pc \in {"routing", "checking", "minting"} => i.cmd.verb # "resume"
    /\ i.pc = "opening" => i.run \in Runs
    /\ i.pc \in {"opening", "resuming"} \/ (i.pc = "checking" /\ i.run # NoRun) => ~i.cmd.broadcast
    /\ i.pc = "closing" => i.step = "simulate" /\ i.cmd.broadcast

\* What the record says of the step an invocation is at, and the server of the
\* answer it got.
Staged(i) ==
    LET steps == record[i.run]
        held == srv[KeyOf(i.run, i.step)]
    IN  /\ i.step \in given[i.run].shape
        /\ i.cmd.broadcast => given[i.run].shape = StepNames
        /\ i.pc \in Gate /\ i.step = "execute" /\ given[i.run].shape = StepNames =>
              steps["simulate"].state = "terminal"
        /\ i.pc = "prompt" => steps["execute"].state = "awaiting_confirmation"
        /\ i.pc \in Sending => steps[i.step].state = "pending"
        /\ i.pc \in {"closing", "polling"} => steps[i.step].state = "answered"
        /\ i.pc = "answered" /\ i.ans = "refused" => held = "refused"
        /\ i.pc = "answered" /\ i.ans \in {"fresh", "replay"} => held = "done"

Placed(p) ==
    LET i == inv[p] IN
    /\ Works(i) => i.run \in Runs /\ record[i.run] # NoRecord /\ holder[i.run] = p
    /\ i.pc \in AtStep => Staged(i)
    /\ i.exit = "accepted_upstream" => i.run \in Runs /\ said[i.run]["execute"] = "accepted_upstream"

\* What an execute that is settled says, and what the server holds of it.
True(r) ==
    LET held == srv[KeyOf(r, "execute")]
        class == said[r]["execute"]
    IN  \/ class = "accepted_upstream" /\ held = "done"
        \/ class = "refused_resimulate" /\ held = "refused"
        \/ class = "escalate" /\ held = "stuck"
        \/ class = "refused_fix" /\ "denied" \in Trouble

\* A run has the steps of its command; its execute is reached only through a
\* settled simulate; a step that is not of the command is never
\* begun.
OnRecord(r) ==
    LET simulate == record[r]["simulate"]
        execute == record[r]["execute"]
    IN  /\ given[r].shape \in {{"simulate"}, {"execute"}, StepNames}
        /\ given[r].shape = StepNames /\ (execute.state \in {"awaiting_confirmation", "pending", "answered", "terminal"}
                                          \/ HasPlanToken(execute)) => simulate.state = "terminal"
        /\ \A s \in StepNames \ given[r].shape : record[r][s].state = "not_started"
        /\ execute.state = "terminal" => True(r)

Content(r) ==
    /\ record[r] # NoRecord => OnRecord(r)
    /\ said[r]["execute"] = "accepted_upstream" =>
          record[r] # NoRecord /\ record[r]["execute"].state = "terminal"
    /\ said[r]["simulate"] = "done" =>
          record[r] # NoRecord /\ record[r]["simulate"].state = "terminal"
    /\ said[r]["simulate"] # "accepted_upstream"
    /\ \A s \in StepNames : said[r][s] \notin {"cli_fault", "usage"}

\* A lock is held by an invocation that works on its run.
Held(r) == holder[r] # NoProc => Works(inv[holder[r]]) /\ inv[holder[r]].run = r

\* A request under way is of a step that is on record, and its sender waits.
Wired(m) ==
    /\ record[m.run] # NoRecord /\ m.step \in given[m.run].shape
    /\ m.to # NoProc => LET i == inv[m.to] IN i.pc = "waiting" /\ i.run = m.run /\ i.step = m.step

PathInv ==
    /\ TypeOK
    /\ \A p \in Procs : Fit(inv[p])
    /\ \A p \in Procs : Placed(p)
    /\ \A r \in Runs : Content(r)
    /\ \A r \in Runs : Held(r)
    /\ \A m \in wire : Wired(m)
    /\ "denied" \notin Trouble => \A p \in Procs : inv[p].ans # "denied"

-----------------------------------------------------------------------------
(* What a change of a step keeps.                                          *)

Dirty(step) ==
    step.state \in {"awaiting_confirmation", "pending", "answered", "terminal"} \/ HasPlanToken(step)

LEMMA Names ==
    /\ StepNames = {"simulate", "execute"}
    /\ NoRecord \notin Run /\ NoRun \notin Runs /\ NoProc \notin Procs /\ NoKey \notin Keys
  BY MoneyAssumption

LEMMA ChangesFit ==
    ASSUME NEW step \in Step
    PROVE  /\ Awaiting(step) \in Step /\ Awaiting(step).state = "awaiting_confirmation"
           /\ Planned(step) \in Step /\ Planned(step).state = step.state
           /\ Scrub(step) \in Step /\ Scrub(step).state = step.state /\ ~HasPlanToken(Scrub(step))
           /\ Declined(step) \in Step /\ Declined(step).state = "declined" /\ ~HasPlanToken(Declined(step))
           /\ MadeUnreachable(step) \in Step /\ MadeUnreachable(step).state = "unreachable"
           /\ ~HasPlanToken(MadeUnreachable(step))
  BY DEF Step, States, Tokens, Awaiting, Planned, Scrub, HasPlanToken, Declined, MadeUnreachable

LEMMA RecordedFits ==
    ASSUME NEW step \in Step, NEW outcome \in {"resumable", "settled"}
    PROVE  /\ Recorded(step, outcome) \in Step
           /\ Recorded(step, outcome).state = IF outcome = "resumable" THEN "answered" ELSE "terminal"
           /\ Recorded(step, outcome).outcome = outcome
  BY DEF Step, States, Tokens, Outcomes, Recorded, Scrub, HasPlanToken

LEMMA BeganFits ==
    ASSUME NEW step \in Step, NEW offered \in Bodies \cup {NoBody}, NEW next,
           next = [Began(step, offered) EXCEPT !.attempts = 0]
    PROVE  next \in Step /\ next.state = "pending"
  <1>1. WithBody(step, offered) \in Step
    BY DEF WithBody, Step
  <1> DEFINE held == WithBody(step, offered)
  <1> HIDE DEF held
  <1>2. "pending" \in States /\ \A n \in Nat : n + 1 \in Nat
    BY DEF States
  <1>3. [held EXCEPT !.state = "pending", !.attempts = @ + 1] \in Step
    BY <1>1, <1>2 DEF Step, held
  <1>4. Began(step, offered) = [held EXCEPT !.state = "pending", !.attempts = @ + 1]
    BY DEF Began, held
  <1>5. Began(step, offered) \in Step /\ Began(step, offered).state = "pending"
    BY <1>1, <1>3, <1>4 DEF Step, held
  <1> QED BY <1>5 DEF Step

LEMMA NewFits ==
    ASSUME NEW body \in Bodies \cup {NoBody}
    PROVE  NewStep(body) \in Step /\ NewStep(body).state = "not_started" /\ ~HasPlanToken(NewStep(body))
  BY DEF NewStep, Step, States, Tokens, Outcomes, HasPlanToken

\* A save of one step.
LEMMA SaveFits ==
    ASSUME record \in [Runs -> Run \cup {NoRecord}], trouble \in 0 .. MaxTrouble,
           NEW r \in Runs, record[r] # NoRecord, NEW s \in StepNames, NEW step \in Step,
           NEW result \in SaveResults, SaveStep(r, s, step, result)
    PROVE  /\ record' \in [Runs -> Run \cup {NoRecord}] /\ trouble' \in 0 .. MaxTrouble
           /\ \A q \in Runs \ {r} : record'[q] = record[q]
           /\ record'[r] # NoRecord
           /\ result = "early" => record' = record
           /\ result # "early" =>
                 record'[r][s] = step /\ \A t \in StepNames \ {s} : record'[r][t] = record[r][t]
  <1> DEFINE steps == [record[r] EXCEPT ![s] = step]
  <1>1. record[r] \in Run /\ steps \in Run
    BY DEF Run
  <1>2. steps[s] = step /\ \A t \in StepNames \ {s} : steps[t] = record[r][t]
    BY <1>1 DEF Run
  <1>3. Save(r, steps, result)
    BY DEF SaveStep
  <1>4. trouble' \in 0 .. MaxTrouble
    BY <1>3, MoneyAssumption DEF Save, Fine, Befalls
  <1> HIDE DEF steps
  <1>5. record' = IF result = "early" THEN record ELSE [record EXCEPT ![r] = steps]
    BY <1>3 DEF Save
  <1> QED BY <1>1, <1>2, <1>4, <1>5, Names

LEMMA KeyFits ==
    ASSUME TypeOK, NEW r \in Runs, NEW s \in StepNames
    PROVE  KeyOf(r, s) \in Keys \cup (Runs \X StepNames) /\ KeyOf(r, s) \in DOMAIN srv
  BY DEF TypeOK, KeyOf

-----------------------------------------------------------------------------
(* What a step of one process leaves alone.                                *)

\* A key that is answered for good keeps its answer.
Steady == \A k \in Keys \cup (Runs \X StepNames) : srv[k] \in {"done", "refused", "stuck"} => srv'[k] = srv[k]

LEMMA ContentSame ==
    ASSUME TypeOK, Steady, NEW r \in Runs, Content(r),
           record'[r] = record[r], given'[r] = given[r], said'[r] = said[r]
    PROVE  Content(r)'
  <1>1. ASSUME True(r) PROVE True(r)'
    <2>1. KeyOf(r, "execute")' = KeyOf(r, "execute") /\ KeyOf(r, "execute") \in Keys \cup (Runs \X StepNames)
      BY KeyFits, Names DEF KeyOf
    <2> QED BY <1>1, <2>1 DEF True, Steady
  <1> QED BY <1>1 DEF Content, OnRecord

LEMMA PlacedSame ==
    ASSUME TypeOK, Steady, NEW p \in Procs, Placed(p), inv'[p] = inv[p],
           \A r \in Runs : said[r]["execute"] = "accepted_upstream" => said'[r]["execute"] = "accepted_upstream",
           Works(inv[p]) => /\ record'[inv[p].run] = record[inv[p].run]
                            /\ given'[inv[p].run] = given[inv[p].run]
                            /\ holder'[inv[p].run] = holder[inv[p].run]
    PROVE  Placed(p)'
  <1> DEFINE i == inv[p]
  <1>1. Works(i) => i.run \in Runs /\ record[i.run] # NoRecord /\ holder[i.run] = p
    BY DEF Placed
  <1>2. i.pc \in AtStep => Works(i) /\ Staged(i) /\ i.step \in StepNames
    BY DEF Placed, Works, TypeOK, Invocation
  <1>3. i' = i
    OBVIOUS
  <1> HIDE DEF i
  <1>4. ASSUME i.pc \in AtStep PROVE Staged(i)'
    <2>1. KeyOf(i.run, i.step)' = KeyOf(i.run, i.step)
      BY <1>1, <1>2, <1>4 DEF KeyOf, i
    <2>2. KeyOf(i.run, i.step) \in Keys \cup (Runs \X StepNames)
      BY <1>1, <1>2, <1>4, KeyFits
    <2>3. record'[i.run] = record[i.run] /\ given'[i.run] = given[i.run]
      BY <1>2, <1>4 DEF i
    <2> QED BY <1>2, <1>3, <1>4, <2>1, <2>2, <2>3 DEF Staged, Steady
  <1> QED BY <1>1, <1>3, <1>4 DEF Placed, i

\* A step that moves the processes `moved` and the runs `own`.
LEMMA Local ==
    ASSUME PathInv, TypeOK', Steady, NEW moved \in SUBSET Procs, NEW own \in SUBSET Runs,
           \A q \in Procs \ moved : inv'[q] = inv[q] /\ (Works(inv[q]) => inv[q].run \notin own),
           \A r \in Runs \ own : /\ record'[r] = record[r] /\ said'[r] = said[r] /\ given'[r] = given[r]
                                 /\ holder'[r] = holder[r] /\ holder[r] \notin moved,
           \A r \in own : said[r]["execute"] = "accepted_upstream" => said'[r]["execute"] = "accepted_upstream",
           \A p \in moved : Fit(inv'[p]) /\ Placed(p)' /\ ("denied" \notin Trouble => inv'[p].ans # "denied"),
           \A r \in own : Content(r)' /\ Held(r)',
           \A m \in wire' : Wired(m)'
    PROVE  PathInv'
  <1>1. \A p \in Procs : Fit(inv'[p]) /\ ("denied" \notin Trouble => inv'[p].ans # "denied")
    BY DEF PathInv
  <1>2. \A p \in Procs : Placed(p)'
    <2> SUFFICES ASSUME NEW p \in Procs \ moved PROVE Placed(p)'
      OBVIOUS
    <2>1. Placed(p) /\ inv'[p] = inv[p] /\ TypeOK
      BY DEF PathInv
    <2>2. Works(inv[p]) => inv[p].run \in Runs \ own
      BY <2>1 DEF Placed
    <2>3. \A r \in Runs : said[r]["execute"] = "accepted_upstream" => said'[r]["execute"] = "accepted_upstream"
      OBVIOUS
    <2> QED BY <2>1, <2>2, <2>3, PlacedSame
  <1>3. \A r \in Runs : Content(r)'
    <2> SUFFICES ASSUME NEW r \in Runs \ own PROVE Content(r)'
      OBVIOUS
    <2> QED BY ContentSame DEF PathInv
  <1>4. \A r \in Runs : Held(r)'
    <2> SUFFICES ASSUME NEW r \in Runs \ own PROVE Held(r)'
      OBVIOUS
    <2>1. holder'[r] = holder[r] /\ Held(r) /\ holder[r] \in (Procs \ moved) \cup {NoProc}
      BY DEF PathInv, TypeOK
    <2> QED BY <2>1 DEF Held
  <1> QED BY <1>1, <1>2, <1>3, <1>4 DEF PathInv

\* The parts of TypeOK.
Shelf ==
    /\ record \in [Runs -> Run \cup {NoRecord}]
    /\ given \in [Runs -> [shape : SUBSET StepNames, key : Keys \cup {NoKey}]]
    /\ said \in [Runs -> [StepNames -> Classes]]

Beyond ==
    /\ wire \subseteq [to : Procs \cup {NoProc}, run : Runs, step : StepNames]
    /\ srv \in [Keys \cup (Runs \X StepNames) -> {"none", "working", "done", "refused", "stuck"}]
    /\ trouble \in 0 .. MaxTrouble

LEMMA TroubleFits ==
    ASSUME trouble \in 0 .. MaxTrouble, Fine \/ \E kind \in Troubles : Befalls(kind)
    PROVE  trouble' \in 0 .. MaxTrouble
  BY MoneyAssumption DEF Fine, Befalls

\* A step of p changes no run that another process holds, and leaves the rest
\* in order.
Own(p) ==
    /\ Steady
    /\ \A r \in Runs : holder[r] \notin {p, NoProc} =>
          record'[r] = record[r] /\ given'[r] = given[r] /\ said'[r] = said[r]
    /\ \A r \in Runs : said[r]["execute"] = "accepted_upstream" => said'[r]["execute"] = "accepted_upstream"
    /\ \A r \in Runs : holder[r] \in {p, NoProc} => Content(r)'

LEMMA OthersWork ==
    ASSUME PathInv, NEW p \in Procs, NEW q \in Procs \ {p}, Works(inv[q])
    PROVE  inv[q].run \in Runs /\ holder[inv[q].run] = q
  BY DEF PathInv, Placed

\* The invocation goes on, with its locks.
LEMMA Stays ==
    ASSUME PathInv, NEW p \in Procs, NEW next \in Invocation, inv' = [inv EXCEPT ![p] = next],
           UNCHANGED holder, Shelf', Beyond', Own(p),
           Works(inv[p]) => Works(next) /\ next.run = inv[p].run,
           Fit(next), Placed(p)', "denied" \notin Trouble => next.ans # "denied",
           \A m \in wire' : Wired(m)'
    PROVE  PathInv'
  <1> DEFINE own == {r \in Runs : holder[r] \in {p, NoProc}}
  <1>1. TypeOK'
    BY DEF PathInv, TypeOK, Shelf, Beyond
  <1>2. inv'[p] = next /\ \A q \in Procs \ {p} : inv'[q] = inv[q]
    BY DEF PathInv, TypeOK
  <1>3. \A r \in own : holder[r] = p => Works(inv[p]) /\ inv[p].run = r
    BY Names DEF PathInv, Held
  <1>4. \A r \in own : Held(r)'
    BY <1>2, <1>3 DEF Held
  <1>5. \A q \in Procs \ {p} : Works(inv[q]) => inv[q].run \notin own
    BY OthersWork, Names
  <1> QED
    <2>1. {p} \in SUBSET Procs /\ own \in SUBSET Runs
      OBVIOUS
    <2>2. Steady /\ (\A r \in own : Content(r)' /\ Held(r)')
          /\ \A r \in own : said[r]["execute"] = "accepted_upstream" => said'[r]["execute"] = "accepted_upstream"
      BY <1>4 DEF Own
    <2>3. \A r \in Runs \ own : /\ record'[r] = record[r] /\ said'[r] = said[r] /\ given'[r] = given[r]
                                /\ holder'[r] = holder[r] /\ holder[r] \notin {p}
      BY DEF Own
    <2> HIDE DEF own
    <2>4. \A q \in Procs \ {p} : inv'[q] = inv[q] /\ (Works(inv[q]) => inv[q].run \notin own)
      BY <1>2, <1>5
    <2>5. \A q \in {p} : Fit(inv'[q]) /\ Placed(q)' /\ ("denied" \notin Trouble => inv'[q].ans # "denied")
      BY <1>2
    <2> QED BY <1>1, <2>1, <2>2, <2>3, <2>4, <2>5, Local

\* The invocation ends, and its locks are released.
LEMMA Leaves ==
    ASSUME PathInv, NEW p \in Procs, NEW class \in Classes, Ended(p, class),
           Shelf', Beyond', Own(p),
           class = "accepted_upstream" =>
               inv[p].run \in Runs /\ said'[inv[p].run]["execute"] = "accepted_upstream",
           class \in {"cli_fault", "usage"} => inv[p].left = {},
           \A m \in wire' : Wired(m)'
    PROVE  PathInv'
  <1> DEFINE own == {r \in Runs : holder[r] \in {p, NoProc}}
             next == [Idle EXCEPT !.exit = class, !.run = inv[p].run, !.left = inv[p].left]
  <1>1. inv[p] \in Invocation /\ inv \in [Procs -> Invocation] /\ holder \in [Runs -> Procs \cup {NoProc}]
    BY DEF PathInv, TypeOK
  <1>2. /\ next.pc = "idle" /\ next.exit = class /\ next.run = inv[p].run /\ next.left = inv[p].left
        /\ next.ans = "none"
    BY DEF Idle
  <1>3. next \in Invocation
    <2>1. "idle" \in PCs /\ "none" \in Answers /\ "simulate" \in StepNames /\ {} \in SUBSET StepNames
      BY Names DEF PCs, Answers
    <2>2. inv[p].run \in Runs \cup {NoRun} /\ inv[p].left \in SUBSET StepNames
      BY <1>1 DEF Invocation
    <2> QED BY <2>1, <2>2 DEF Invocation, Idle
  <1> HIDE DEF next
  <1>4. inv' = [inv EXCEPT ![p] = next] /\ holder' = [r \in Runs |-> IF holder[r] = p THEN NoProc ELSE holder[r]]
    BY DEF Ended, Go, next
  <1>5. TypeOK'
    BY <1>1, <1>3, <1>4 DEF TypeOK, Shelf, Beyond
  <1>6. inv'[p] = next /\ \A q \in Procs \ {p} : inv'[q] = inv[q]
    BY <1>1, <1>4
  <1>7. Fit(next)
    BY <1>2 DEF Fit, Flagged, Agreed, Early, AtStep, Gate, Sending
  <1>8. Placed(p)'
    BY <1>2, <1>6 DEF Placed, Works, AtStep, Gate, Sending
  <1>9. \A q \in Procs \ {p} : Works(inv[q]) => inv[q].run \notin own
    BY OthersWork, Names
  <1> QED
    <2>1. {p} \in SUBSET Procs /\ own \in SUBSET Runs
      OBVIOUS
    <2>2. \A r \in own : Held(r)'
      BY <1>4 DEF Held
    <2>3. Steady /\ (\A r \in own : Content(r)' /\ Held(r)')
          /\ \A r \in own : said[r]["execute"] = "accepted_upstream" => said'[r]["execute"] = "accepted_upstream"
      BY <2>2 DEF Own
    <2>4. \A r \in Runs \ own : /\ record'[r] = record[r] /\ said'[r] = said[r] /\ given'[r] = given[r]
                                /\ holder'[r] = holder[r] /\ holder[r] \notin {p}
      BY <1>4 DEF Own
    <2> HIDE DEF own
    <2>5. \A q \in Procs \ {p} : inv'[q] = inv[q] /\ (Works(inv[q]) => inv[q].run \notin own)
      BY <1>6, <1>9
    <2>6. \A q \in {p} : Fit(inv'[q]) /\ Placed(q)' /\ ("denied" \notin Trouble => inv'[q].ans # "denied")
      BY <1>2, <1>6, <1>7, <1>8
    <2> QED BY <1>5, <2>1, <2>3, <2>4, <2>5, <2>6, Local

LEMMA WireKeeps ==
    ASSUME PathInv, NEW p \in Procs, NEW next, inv' = [inv EXCEPT ![p] = next],
           inv[p].pc = "waiting" => next.pc = "waiting" /\ next.run = inv[p].run /\ next.step = inv[p].step,
           wire' = wire,
           \A r \in Runs : record[r] # NoRecord => record'[r] # NoRecord /\ given'[r] = given[r]
    PROVE  \A m \in wire' : Wired(m)'
  <1> SUFFICES ASSUME NEW m \in wire PROVE Wired(m)'
    OBVIOUS
  <1>1. Wired(m) /\ m.run \in Runs /\ m.to \in Procs \cup {NoProc}
    BY DEF PathInv, TypeOK
  <1>2. inv'[p] = next /\ \A q \in Procs \ {p} : inv'[q] = inv[q]
    BY DEF PathInv, TypeOK
  <1>3. CASE m.to = p
    BY <1>1, <1>2, <1>3, Names DEF Wired
  <1>4. CASE m.to # p
    BY <1>1, <1>2, <1>4 DEF Wired
  <1> QED BY <1>3, <1>4

LEMMA LedgerSame ==
    ASSUME PathInv, NEW p \in Procs, UNCHANGED <<record, given, said>>, Steady
    PROVE  Own(p) /\ Shelf'
  <1>1. \A r \in Runs : Content(r)'
    BY ContentSame DEF PathInv
  <1> QED BY <1>1 DEF Own, Shelf, PathInv, TypeOK

LEMMA OneRun ==
    ASSUME PathInv, NEW p \in Procs, Works(inv[p]), Steady, NEW r, r = inv[p].run,
           \A q \in Runs \ {r} : record'[q] = record[q] /\ given'[q] = given[q] /\ said'[q] = said[q],
           said[r]["execute"] = "accepted_upstream" => said'[r]["execute"] = "accepted_upstream",
           Content(r)'
    PROVE  Own(p)
  <1>1. r \in Runs /\ holder[r] = p
    BY DEF PathInv, Placed
  <1>2. \A q \in Runs : Content(q)'
    BY ContentSame DEF PathInv
  <1>3. \A q \in Runs : holder[q] \notin {p, NoProc} => record'[q] = record[q] /\ given'[q] = given[q] /\ said'[q] = said[q]
    BY <1>1
  <1>4. \A q \in Runs : said[q]["execute"] = "accepted_upstream" => said'[q]["execute"] = "accepted_upstream"
    BY <1>1
  <1> QED BY <1>2, <1>3, <1>4 DEF Own

LEMMA SteadySame == UNCHANGED srv => Steady
  BY DEF Steady

\* An invocation that only moves.
LEMMA Moves ==
    ASSUME PathInv, NEW p \in Procs, NEW next \in Invocation, Go(p, next),
           UNCHANGED <<ledger, world>>, trouble' \in 0 .. MaxTrouble,
           inv[p].pc = "waiting" => next.pc = "waiting" /\ next.run = inv[p].run /\ next.step = inv[p].step,
           Works(next) <=> Works(inv[p]), Works(next) => next.run = inv[p].run,
           Fit(next), next.pc \in AtStep => Staged(next),
           next.exit = "accepted_upstream" =>
               next.run \in Runs /\ said[next.run]["execute"] = "accepted_upstream",
           "denied" \notin Trouble => next.ans # "denied"
    PROVE  PathInv'
  <1>1. inv' = [inv EXCEPT ![p] = next] /\ UNCHANGED <<record, given, said, holder, wire, srv>>
    BY DEF Go, ledger, world
  <1>2. Steady
    BY <1>1, SteadySame
  <1>3. Own(p) /\ Shelf'
    BY <1>1, <1>2, LedgerSame
  <1>4. Beyond'
    BY <1>1 DEF Beyond, PathInv, TypeOK
  <1>5. inv'[p] = next
    BY <1>1 DEF PathInv, TypeOK
  <1>6. Works(next) => next.run \in Runs /\ record[next.run] # NoRecord /\ holder[next.run] = p
    BY DEF PathInv, Placed
  <1>7. next.pc \in AtStep => Staged(next)'
    <2>1. KeyOf(next.run, next.step)' = KeyOf(next.run, next.step)
      BY <1>1 DEF KeyOf
    <2> QED BY <1>1, <2>1 DEF Staged
  <1>8. Placed(p)'
    BY <1>1, <1>5, <1>6, <1>7 DEF Placed
  <1>9. \A m \in wire' : Wired(m)'
    BY <1>1, WireKeeps
  <1> QED BY <1>1, <1>3, <1>4, <1>8, <1>9, Stays

LEMMA KnownFits ==
    ASSUME NEW i \in Invocation, Flagged(i), i.pc # "idle", NEW class \in Classes, class # "accepted_upstream"
    PROVE  /\ Known(i, class) \in Classes /\ Known(i, class) # "accepted_upstream"
           /\ Known(i, class) \in {"cli_fault", "usage"} => i.left = {} \/ class = "usage"
  BY DEF Known, Flagged, Classes

\* An invocation that ends with an error, its record changed or not.
LEMMA Quits ==
    ASSUME PathInv, NEW p \in Procs, NEW class \in Classes, Quit(p, class), class # "accepted_upstream",
           inv[p].pc \notin {"idle", "waiting"}, class = "usage" => inv[p].left = {},
           Shelf', trouble' \in 0 .. MaxTrouble, UNCHANGED world, Own(p),
           \A r \in Runs : record[r] # NoRecord => record'[r] # NoRecord /\ given'[r] = given[r]
    PROVE  PathInv'
  <1> DEFINE known == Known(inv[p], class)
  <1>1. inv[p] \in Invocation /\ Flagged(inv[p])
    BY DEF PathInv, TypeOK, Fit
  <1>2. known \in Classes /\ known # "accepted_upstream" /\ (known \in {"cli_fault", "usage"} => inv[p].left = {})
    BY <1>1, KnownFits
  <1>3. Ended(p, known)
    BY DEF Quit
  <1> HIDE DEF known
  <1>4. UNCHANGED <<wire, srv>> /\ Beyond'
    BY DEF world, Beyond, PathInv, TypeOK
  <1>5. \A m \in wire' : Wired(m)'
    BY <1>3, <1>4, WireKeeps DEF Ended, Go
  <1> QED BY <1>2, <1>3, <1>4, <1>5, Leaves

\* An error before anything was written.
LEMMA QuitsEarly ==
    ASSUME PathInv, NEW p \in Procs, NEW class \in Classes, Quit(p, class), class # "accepted_upstream",
           inv[p].pc \notin {"idle", "waiting"}, class = "usage" => inv[p].left = {},
           UNCHANGED <<record, given, said, world>>, trouble' \in 0 .. MaxTrouble
    PROVE  PathInv'
  <1>1. Steady
    BY SteadySame DEF world
  <1>2. Own(p) /\ Shelf'
    BY <1>1, LedgerSame
  <1> QED BY <1>2, Quits

-----------------------------------------------------------------------------
(* Steps that change no record.                                            *)

LEMMA Facts ==
    ASSUME PathInv, NEW p \in Procs
    PROVE  /\ TypeOK /\ inv[p] \in Invocation /\ Fit(inv[p]) /\ Placed(p)
           /\ "denied" \notin Trouble => inv[p].ans # "denied"
           /\ Works(inv[p]) => /\ inv[p].run \in Runs /\ record[inv[p].run] \in Run /\ OnRecord(inv[p].run)
                               /\ Content(inv[p].run) /\ holder[inv[p].run] = p
  BY DEF PathInv, TypeOK, Placed, Content

LEMMA IdleFits ==
    /\ Idle \in Invocation /\ Idle.left = {} /\ ~Idle.flag /\ Idle.ans = "none" /\ Idle.exit = "none"
    /\ Idle.pc = "idle" /\ Idle.run = NoRun
  <1>1. "idle" \in PCs /\ "none" \in Answers /\ "none" \in Classes
        /\ "simulate" \in StepNames /\ {} \in SUBSET StepNames
    BY Names DEF PCs, Answers, Classes
  <1> QED BY <1>1 DEF Invocation, Idle

LEMMA StartKeeps ==
    ASSUME PathInv, NEW p \in Procs, NEW c \in Commands, NEW r \in Runs \cup {NoRun}, Start(p, c, r)
    PROVE  PathInv'
  <1>1. At(p, "idle") /\ UNCHANGED <<ledger, world>> /\ trouble' = trouble /\ TypeOK
    BY Facts DEF Start, Fine
  <1>2. trouble' \in 0 .. MaxTrouble
    BY <1>1 DEF TypeOK
  <1>3. "routing" \in PCs /\ "opening" \in PCs
    BY DEF PCs
  <1>4. CASE c.verb # "resume" /\ r = NoRun /\ Go(p, [Idle EXCEPT !.pc = "routing", !.cmd = c])
    <2> DEFINE next == [Idle EXCEPT !.pc = "routing", !.cmd = c]
    <2>1. next \in Invocation
      BY <1>3, IdleFits DEF Invocation
    <2>2. /\ next.pc = "routing" /\ next.left = {} /\ ~next.flag /\ next.ans = "none" /\ next.exit = "none"
          /\ next.run = NoRun /\ next.cmd = c
      BY IdleFits DEF Invocation
    <2> HIDE DEF next
    <2>3. Fit(next)
      BY <1>4, <2>2 DEF Fit, Flagged, Agreed, Early, AtStep, Gate, Sending
    <2>4. ~Works(next) /\ ~Works(inv[p]) /\ next.pc \notin AtStep
      BY <1>1, <2>2 DEF At, Works, AtStep, Gate, Sending
    <2>5. Go(p, next)
      BY <1>4 DEF next
    <2> QED BY <1>1, <1>2, <2>1, <2>2, <2>3, <2>4, <2>5, Moves DEF At
  <1>5. CASE c.verb = "resume" /\ r \in Runs /\ Go(p, [Idle EXCEPT !.pc = "opening", !.cmd = c, !.run = r])
    <2> DEFINE next == [Idle EXCEPT !.pc = "opening", !.cmd = c, !.run = r]
    <2>1. next \in Invocation
      BY <1>3, IdleFits DEF Invocation
    <2>2. /\ next.pc = "opening" /\ next.left = {} /\ ~next.flag /\ next.ans = "none" /\ next.exit = "none"
          /\ next.run = r /\ next.cmd = c
      BY IdleFits DEF Invocation
    <2>3. c \in [verb : {"create", "execute", "resume"}, broadcast : BOOLEAN, yes : BOOLEAN, tty : BOOLEAN,
                 allow : BOOLEAN, key : Keys \cup {NoKey}, body : Bodies]
          /\ (c.broadcast => c.verb = "create")
      BY MoneyAssumption
    <2> HIDE DEF next
    <2>4. ~c.broadcast
      BY <1>5, <2>3
    <2>5. Fit(next)
      BY <1>5, <2>2, <2>4 DEF Fit, Flagged, Agreed, Early, AtStep, Gate, Sending
    <2>6. ~Works(next) /\ ~Works(inv[p]) /\ next.pc \notin AtStep
      BY <1>1, <2>2 DEF At, Works, AtStep, Gate, Sending
    <2>7. Go(p, next)
      BY <1>5 DEF next
    <2> QED BY <1>1, <1>2, <2>1, <2>2, <2>5, <2>6, <2>7, Moves DEF At
  <1> QED BY <1>4, <1>5 DEF Start

LEMMA RouteKeeps ==
    ASSUME PathInv, NEW p \in Procs, Route(p)
    PROVE  PathInv'
  <1>1. inv[p] \in Invocation /\ inv[p].pc = "routing" /\ inv[p].run = NoRun /\ inv[p].left = {} /\ ~inv[p].flag
        /\ inv[p].ans = "none" /\ inv[p].exit = "none" /\ inv[p].cmd.verb # "resume"
    BY Facts DEF Route, At, Fit, Flagged, Early
  <1>2. UNCHANGED <<record, given, said, world>> /\ trouble' \in 0 .. MaxTrouble
    BY Facts DEF Route, Fine, TypeOK
  <1>3. "checking" \in PCs /\ "opening" \in PCs /\ "refused_fix" \in Classes
    BY DEF PCs, Classes
  <1>4. CASE Go(p, [inv[p] EXCEPT !.pc = "checking"]) /\ UNCHANGED holder
    <2> DEFINE next == [inv[p] EXCEPT !.pc = "checking"]
    <2>1. next \in Invocation
      BY <1>1, <1>3 DEF Invocation
    <2>2. /\ next.pc = "checking" /\ next.left = {} /\ ~next.flag /\ next.ans = "none" /\ next.exit = "none"
          /\ next.run = NoRun /\ next.cmd = inv[p].cmd
      BY <1>1 DEF Invocation
    <2>3. Go(p, next) /\ UNCHANGED <<ledger, world>>
      BY <1>2, <1>4 DEF ledger
    <2> HIDE DEF next
    <2>4. Fit(next)
      BY <1>1, <2>2 DEF Fit, Flagged, Agreed, Early, AtStep, Gate, Sending
    <2>5. ~Works(next) /\ ~Works(inv[p]) /\ next.pc \notin AtStep
      BY <1>1, <2>2 DEF Works, AtStep, Gate, Sending
    <2> QED BY <1>1, <1>2, <2>1, <2>2, <2>3, <2>4, <2>5, Moves
  <1>5. ASSUME NEW r \in Matches(inv[p].cmd.key), Go(p, [inv[p] EXCEPT !.pc = "opening", !.run = r]), UNCHANGED holder
        PROVE  PathInv'
    <2> DEFINE next == [inv[p] EXCEPT !.pc = "opening", !.run = r]
    <2>1. r \in Runs /\ inv[p].cmd.key # NoKey
      BY DEF Matches
    <2>2. next \in Invocation
      BY <1>1, <1>3, <2>1 DEF Invocation
    <2>3. /\ next.pc = "opening" /\ next.left = {} /\ ~next.flag /\ next.ans = "none" /\ next.exit = "none"
          /\ next.run = r /\ next.cmd = inv[p].cmd
      BY <1>1 DEF Invocation
    <2>4. Go(p, next) /\ UNCHANGED <<ledger, world>>
      BY <1>2, <1>5 DEF ledger
    <2>5. ~inv[p].cmd.broadcast
      <3>1. inv[p].cmd \in Commands \cup {NoCommand}
        BY <1>1 DEF Invocation
      <3>2. inv[p].cmd \in Commands => (inv[p].cmd.broadcast => inv[p].cmd.key = NoKey)
        BY MoneyAssumption
      <3> QED BY <2>1, <3>1, <3>2 DEF NoCommand
    <2> HIDE DEF next
    <2>6. Fit(next)
      BY <2>1, <2>3, <2>5 DEF Fit, Flagged, Agreed, Early, AtStep, Gate, Sending
    <2>7. ~Works(next) /\ ~Works(inv[p]) /\ next.pc \notin AtStep
      BY <1>1, <2>3 DEF Works, AtStep, Gate, Sending
    <2> QED BY <1>1, <1>2, <2>2, <2>3, <2>4, <2>6, <2>7, Moves
  <1>6. CASE Quit(p, "refused_fix")
    BY <1>1, <1>2, <1>3, <1>6, QuitsEarly
  <1> QED BY <1>4, <1>5, <1>6 DEF Route

LEMMA OrphanCheckKeeps ==
    ASSUME PathInv, NEW p \in Procs, OrphanCheck(p)
    PROVE  PathInv'
  <1>1. inv[p] \in Invocation /\ inv[p].pc = "checking" /\ inv[p].left = {} /\ ~inv[p].flag
        /\ inv[p].ans = "none" /\ inv[p].exit = "none" /\ Fit(inv[p])
    BY Facts DEF OrphanCheck, At, Fit, Flagged, Early
  <1>2. UNCHANGED <<record, given, said, world>> /\ trouble' \in 0 .. MaxTrouble
    BY Facts DEF OrphanCheck, Fine, TypeOK
  <1>3. "minting" \in PCs /\ "resuming" \in PCs /\ "cli_fault" \in Classes
    BY DEF PCs, Classes
  <1>4. CASE Go(p, [inv[p] EXCEPT !.pc = IF inv[p].run = NoRun THEN "minting" ELSE "resuming"]) /\ UNCHANGED holder
    <2> DEFINE next == [inv[p] EXCEPT !.pc = IF inv[p].run = NoRun THEN "minting" ELSE "resuming"]
    <2>1. next \in Invocation
      BY <1>1, <1>3 DEF Invocation
    <2>2. /\ next.pc = IF inv[p].run = NoRun THEN "minting" ELSE "resuming"
          /\ next.left = {} /\ ~next.flag /\ next.ans = "none" /\ next.exit = "none"
          /\ next.run = inv[p].run /\ next.cmd = inv[p].cmd
      BY <1>1 DEF Invocation
    <2>3. Go(p, next) /\ UNCHANGED <<ledger, world>>
      BY <1>2, <1>4 DEF ledger
    <2> HIDE DEF next
    <2>4. Fit(next)
      BY <1>1, <2>2 DEF Fit, Flagged, Agreed, Early, AtStep, Gate, Sending
    <2>5. (Works(next) <=> Works(inv[p])) /\ next.pc \notin AtStep
      BY <1>1, <2>2 DEF Works, AtStep, Gate, Sending
    <2> QED BY <1>1, <1>2, <2>1, <2>2, <2>3, <2>4, <2>5, Moves
  <1>5. CASE Quit(p, "cli_fault")
    BY <1>1, <1>2, <1>3, <1>5, QuitsEarly
  <1> QED BY <1>4, <1>5 DEF OrphanCheck

LEMMA AnswerYesKeeps ==
    ASSUME PathInv, NEW p \in Procs, AnswerYes(p)
    PROVE  PathInv'
  <1>1. inv[p] \in Invocation /\ inv[p].pc = "prompt" /\ Fit(inv[p]) /\ Staged(inv[p])
        /\ ("denied" \notin Trouble => inv[p].ans # "denied") /\ inv[p].exit = "none"
    BY Facts DEF AnswerYes, At, Fit, Flagged, Placed, AtStep, Gate
  <1>2. UNCHANGED <<ledger, world>> /\ trouble' \in 0 .. MaxTrouble
    BY Facts DEF AnswerYes, Fine, TypeOK
  <1> DEFINE next == [inv[p] EXCEPT !.pc = "ready", !.agreed = TRUE]
  <1>3. next \in Invocation
    <2>1. "ready" \in PCs
      BY DEF PCs
    <2> QED BY <1>1, <2>1 DEF Invocation
  <1>4. /\ next.pc = "ready" /\ next.left = inv[p].left /\ next.flag = inv[p].flag /\ next.ans = inv[p].ans
        /\ next.exit = inv[p].exit /\ next.run = inv[p].run /\ next.cmd = inv[p].cmd
        /\ next.step = inv[p].step /\ next.agreed
    BY <1>1 DEF Invocation
  <1>5. Go(p, next)
    BY DEF AnswerYes
  <1> HIDE DEF next
  <1>6. Fit(next)
    BY <1>1, <1>4 DEF Fit, Flagged, Agreed, Early, AtStep, Gate, Sending
  <1>7. Staged(next)
    BY <1>1, <1>4 DEF Staged, Gate, Sending
  <1>8. Works(next) /\ Works(inv[p])
    BY <1>1, <1>4 DEF Works, AtStep, Gate
  <1> QED BY <1>1, <1>2, <1>3, <1>4, <1>5, <1>6, <1>7, <1>8, Moves

LEMMA MarkSentKeeps ==
    ASSUME PathInv, NEW p \in Procs, MarkSent(p)
    PROVE  PathInv'
  <1>1. inv[p] \in Invocation /\ inv[p].pc = "begun" /\ Fit(inv[p]) /\ Staged(inv[p])
        /\ ("denied" \notin Trouble => inv[p].ans # "denied") /\ inv[p].exit = "none"
    BY Facts DEF MarkSent, At, Fit, Flagged, Placed, AtStep, Sending
  <1>2. UNCHANGED <<ledger, world>> /\ trouble' \in 0 .. MaxTrouble
    BY Facts DEF MarkSent, Fine, TypeOK
  <1> DEFINE next == [inv[p] EXCEPT !.flag = TRUE, !.pc = "sending"]
  <1>3. next \in Invocation
    <2>1. "sending" \in PCs
      BY DEF PCs
    <2> QED BY <1>1, <2>1 DEF Invocation
  <1>4. /\ next.pc = "sending" /\ next.left = inv[p].left /\ next.flag /\ next.ans = inv[p].ans
        /\ next.exit = inv[p].exit /\ next.run = inv[p].run /\ next.cmd = inv[p].cmd
        /\ next.step = inv[p].step /\ next.agreed = inv[p].agreed
    BY <1>1 DEF Invocation
  <1>5. Go(p, next)
    BY DEF MarkSent
  <1> HIDE DEF next
  <1>6. Fit(next)
    BY <1>1, <1>4 DEF Fit, Flagged, Agreed, Early, AtStep, Gate, Sending
  <1>7. Staged(next)
    BY <1>1, <1>4 DEF Staged, Gate, Sending
  <1>8. Works(next) /\ Works(inv[p])
    BY <1>1, <1>4 DEF Works, AtStep, Sending
  <1> QED BY <1>1, <1>2, <1>3, <1>4, <1>5, <1>6, <1>7, <1>8, Moves

LEMMA RetryKeeps ==
    ASSUME PathInv, NEW p \in Procs, Retry(p)
    PROVE  PathInv'
  <1>1. inv[p] \in Invocation /\ inv[p].pc = "answered" /\ Fit(inv[p]) /\ Staged(inv[p]) /\ inv[p].exit = "none"
    BY Facts DEF Retry, At, Fit, Flagged, Placed, AtStep, Sending
  <1>2. UNCHANGED <<ledger, world>> /\ trouble' \in 0 .. MaxTrouble
    BY Facts DEF Retry, Fine, TypeOK
  <1> DEFINE next == [inv[p] EXCEPT !.pc = "sending", !.ans = "none"]
  <1>3. next \in Invocation
    <2>1. "sending" \in PCs /\ "none" \in Answers
      BY DEF PCs, Answers
    <2> QED BY <1>1, <2>1 DEF Invocation
  <1>4. /\ next.pc = "sending" /\ next.left = inv[p].left /\ next.flag = inv[p].flag /\ next.ans = "none"
        /\ next.exit = inv[p].exit /\ next.run = inv[p].run /\ next.cmd = inv[p].cmd
        /\ next.step = inv[p].step /\ next.agreed = inv[p].agreed
    BY <1>1 DEF Invocation
  <1>5. Go(p, next)
    BY DEF Retry
  <1> HIDE DEF next
  <1>6. Fit(next)
    BY <1>1, <1>4 DEF Fit, Flagged, Agreed, Early, AtStep, Gate, Sending
  <1>7. Staged(next)
    BY <1>1, <1>4 DEF Staged, Gate, Sending
  <1>8. Works(next) /\ Works(inv[p])
    BY <1>1, <1>4 DEF Works, AtStep, Sending
  <1> QED BY <1>1, <1>2, <1>3, <1>4, <1>5, <1>6, <1>7, <1>8, Moves

LEMMA SettleKeeps ==
    ASSUME PathInv, NEW p \in Procs, Settle(p)
    PROVE  PathInv'
  <1>1. inv[p] \in Invocation /\ inv[p].pc = "after" /\ Fit(inv[p]) /\ Staged(inv[p])
        /\ ("denied" \notin Trouble => inv[p].ans # "denied") /\ inv[p].exit = "none"
        /\ inv[p].run \in Runs /\ Content(inv[p].run)
    BY Facts DEF Settle, At, Fit, Flagged, Placed, AtStep, Works
  <1>2. UNCHANGED <<ledger, world>> /\ trouble' \in 0 .. MaxTrouble
    BY Facts DEF Settle, Fine, TypeOK
  <1> DEFINE exit == said[inv[p].run][inv[p].step]
             next == [inv[p] EXCEPT !.pc = "reporting", !.exit = exit]
  <1>3. inv[p].step \in StepNames /\ exit \in Classes
    BY <1>1, Facts DEF Invocation, TypeOK
  <1>4. exit \notin {"cli_fault", "usage"}
    BY <1>1, <1>3 DEF Content
  <1>5. exit = "accepted_upstream" => said[inv[p].run]["execute"] = "accepted_upstream"
    BY <1>1, <1>3, Names DEF Content
  <1>6. Go(p, next)
    BY DEF Settle
  <1> HIDE DEF exit
  <1>7. next \in Invocation
    <2>1. "reporting" \in PCs
      BY DEF PCs
    <2> QED BY <1>1, <1>3, <2>1 DEF Invocation
  <1>8. /\ next.pc = "reporting" /\ next.left = inv[p].left /\ next.flag = inv[p].flag /\ next.ans = inv[p].ans
        /\ next.exit = exit /\ next.run = inv[p].run /\ next.cmd = inv[p].cmd
        /\ next.step = inv[p].step /\ next.agreed = inv[p].agreed
    BY <1>1 DEF Invocation
  <1> HIDE DEF next
  <1>9. Fit(next)
    BY <1>1, <1>4, <1>8 DEF Fit, Flagged, Agreed, Early, AtStep, Gate, Sending
  <1>10. Staged(next)
    BY <1>1, <1>8 DEF Staged, Gate, Sending
  <1>11. Works(next) /\ Works(inv[p])
    BY <1>1, <1>8 DEF Works, AtStep
  <1> QED BY <1>1, <1>2, <1>5, <1>6, <1>7, <1>8, <1>9, <1>10, <1>11, Moves

LEMMA InterruptKeeps ==
    ASSUME PathInv, NEW p \in Procs, Interrupt(p)
    PROVE  PathInv'
  <1>1. inv[p] \in Invocation /\ Fit(inv[p]) /\ Placed(p)
        /\ ("denied" \notin Trouble => inv[p].ans # "denied")
    BY Facts
  <1>2. UNCHANGED <<ledger, world>> /\ trouble' \in 0 .. MaxTrouble
    BY Facts, TroubleFits DEF Interrupt, TypeOK, Troubles
  <1> DEFINE next == [inv[p] EXCEPT !.signal = TRUE]
  <1>3. next \in Invocation
    BY <1>1 DEF Invocation
  <1>4. /\ next.pc = inv[p].pc /\ next.left = inv[p].left /\ next.flag = inv[p].flag /\ next.ans = inv[p].ans
        /\ next.exit = inv[p].exit /\ next.run = inv[p].run /\ next.cmd = inv[p].cmd
        /\ next.step = inv[p].step /\ next.agreed = inv[p].agreed /\ next.implied = inv[p].implied
    BY <1>1 DEF Invocation
  <1>5. Go(p, next)
    BY DEF Interrupt
  <1> HIDE DEF next
  <1>6. Fit(next)
    BY <1>1, <1>4 DEF Fit, Flagged, Agreed
  <1>7. next.pc \in AtStep => Staged(next)
    BY <1>1, <1>4 DEF Staged, Placed
  <1>8. Works(next) <=> Works(inv[p])
    BY <1>4 DEF Works
  <1>9. next.exit = "accepted_upstream" => next.run \in Runs /\ said[next.run]["execute"] = "accepted_upstream"
    BY <1>1, <1>4 DEF Placed
  <1> QED BY <1>1, <1>2, <1>3, <1>4, <1>5, <1>6, <1>7, <1>8, <1>9, Moves

LEMMA ResumeKeeps ==
    ASSUME PathInv, NEW p \in Procs, Resume(p)
    PROVE  PathInv'
  <1>1. inv[p] \in Invocation /\ inv[p].pc = "resuming" /\ inv[p].left = {} /\ ~inv[p].flag
        /\ inv[p].ans = "none" /\ inv[p].exit = "none" /\ ~inv[p].cmd.broadcast
    BY Facts DEF Resume, At, Fit, Flagged, Early
  <1>2. Works(inv[p]) /\ inv[p].run \in Runs /\ record[inv[p].run] \in Run /\ OnRecord(inv[p].run)
    BY <1>1, Facts DEF Works
  <1>3. UNCHANGED <<record, given, said, world>> /\ trouble' \in 0 .. MaxTrouble
    BY Facts DEF Resume, Fine, TypeOK
  <1>4. "consent" \in PCs /\ "ready" \in PCs /\ "refused_resimulate" \in Classes
    BY DEF PCs, Classes
  <1>5. ASSUME NEW s \in StepNames, Resumable(inv[p].run, s), Go(p, PickStep(p, s)), UNCHANGED holder
        PROVE  PathInv'
    <2> DEFINE next == PickStep(p, s)
    <2>1. next \in Invocation
      BY <1>1, <1>4 DEF Invocation, PickStep
    <2>2. /\ next.pc = (IF s = "execute" THEN "consent" ELSE "ready") /\ next.step = s /\ ~next.implied
          /\ next.left = {} /\ ~next.flag /\ next.ans = "none" /\ next.exit = "none"
          /\ next.run = inv[p].run /\ next.cmd = inv[p].cmd
      BY <1>1 DEF Invocation, PickStep
    <2>3. Go(p, next) /\ UNCHANGED <<ledger, world>>
      BY <1>3, <1>5 DEF ledger
    <2> HIDE DEF next
    <2>4. Fit(next)
      BY <1>1, <2>2 DEF Fit, Flagged, Agreed, Early, AtStep, Gate, Sending
    <2>5. /\ s \in given[inv[p].run].shape
          /\ s = "execute" /\ given[inv[p].run].shape = StepNames => record[inv[p].run]["simulate"].state = "terminal"
      BY <1>2, <1>5, Names DEF Resumable, Unresolved, OnRecord
    <2>6. Staged(next)
      BY <1>1, <2>2, <2>5 DEF Staged, Gate, Sending
    <2>7. Works(next) /\ Works(inv[p])
      BY <1>1, <2>2 DEF Works, AtStep, Gate
    <2> QED BY <1>1, <1>3, <1>5, <2>1, <2>2, <2>3, <2>4, <2>6, <2>7, Moves
  <1>6. CASE Quit(p, "refused_resimulate")
    BY <1>1, <1>3, <1>4, <1>6, QuitsEarly
  <1> QED
    <2> DEFINE s == IF Resumable(inv[p].run, "simulate") THEN "simulate" ELSE "execute"
    <2>1. s \in StepNames
      BY Names
    <2>2. \/ Resumable(inv[p].run, s) /\ Go(p, PickStep(p, s)) /\ UNCHANGED holder
          \/ Quit(p, "refused_resimulate")
      BY DEF Resume
    <2> HIDE DEF s
    <2> QED BY <1>5, <1>6, <2>1, <2>2

-----------------------------------------------------------------------------
(* Steps that save a record.                                               *)

\* A change of one step that is not settled and is not settled by it.
LEMMA ContentStep ==
    ASSUME TypeOK, Steady, NEW r \in Runs, Content(r), record[r] # NoRecord,
           given'[r] = given[r], said'[r] = said[r], record'[r] # NoRecord,
           NEW s \in StepNames, s \in given[r].shape, \A t \in StepNames \ {s} : record'[r][t] = record[r][t],
           record[r][s].state # "terminal", record'[r][s].state # "terminal",
           s = "execute" /\ given[r].shape = StepNames /\ Dirty(record'[r][s]) => record[r]["simulate"].state = "terminal"
    PROVE  Content(r)'
  <1>1. OnRecord(r)
    BY DEF Content
  <1>2. ASSUME True(r) PROVE True(r)'
    <2>1. KeyOf(r, "execute")' = KeyOf(r, "execute") /\ KeyOf(r, "execute") \in Keys \cup (Runs \X StepNames)
      BY KeyFits, Names DEF KeyOf
    <2> QED BY <1>2, <2>1 DEF True, Steady
  <1>3. CASE s = "simulate"
    <2>1. record'[r]["execute"] = record[r]["execute"]
      BY <1>3, Names
    <2>2. ~(given[r].shape = StepNames /\ Dirty(record[r]["execute"]))
      BY <1>1, <1>3 DEF OnRecord, Dirty
    <2>3. OnRecord(r)'
      BY <1>1, <1>2, <1>3, <2>1, <2>2 DEF OnRecord, Dirty
    <2>4. said[r]["simulate"] # "done"
      BY <1>3 DEF Content
    <2> QED BY <2>1, <2>3, <2>4 DEF Content
  <1>4. CASE s = "execute"
    <2>1. record'[r]["simulate"] = record[r]["simulate"]
      BY <1>4, Names
    <2>2. said[r]["execute"] # "accepted_upstream"
      BY <1>4 DEF Content
    <2>3. OnRecord(r)'
      <3>1. given[r].shape \in {{"simulate"}, {"execute"}, StepNames}
        BY <1>1 DEF OnRecord
      <3>2. given[r].shape = StepNames /\ Dirty(record'[r]["execute"]) => record'[r]["simulate"].state = "terminal"
        BY <1>4, <2>1
      <3>3. \A t \in StepNames \ given[r].shape : record'[r][t].state = "not_started"
        BY <1>1 DEF OnRecord
      <3> QED BY <1>4, <3>1, <3>2, <3>3 DEF OnRecord, Dirty
    <2> QED BY <2>1, <2>2, <2>3 DEF Content
  <1> QED BY <1>3, <1>4, Names

\* A save of a step of p's run.
LEMMA Saves ==
    ASSUME PathInv, NEW p \in Procs, Works(inv[p]), NEW r, r = inv[p].run,
           NEW s \in given[r].shape, NEW step \in Step, NEW result \in SaveResults,
           SaveStep(r, s, step, result), UNCHANGED <<given, said, world>>,
           record[r][s].state # "terminal", step.state # "terminal",
           s = "execute" /\ given[r].shape = StepNames /\ Dirty(step) => record[r]["simulate"].state = "terminal"
    PROVE  /\ Own(p) /\ Shelf' /\ Steady /\ trouble' \in 0 .. MaxTrouble
           /\ \A q \in Runs : record[q] # NoRecord => record'[q] # NoRecord
           /\ result = "early" => record' = record
           /\ result # "early" =>
                 record'[r][s] = step /\ \A t \in StepNames \ {s} : record'[r][t] = record[r][t]
  <1>1. r \in Runs /\ record[r] # NoRecord /\ Content(r) /\ TypeOK /\ s \in StepNames
    <2>1. r \in Runs /\ record[r] \in Run /\ Content(r) /\ TypeOK
      BY Facts
    <2>2. given[r].shape \in SUBSET StepNames
      BY <2>1 DEF TypeOK
    <2> QED BY <2>1, <2>2, Names
  <1>2. /\ record' \in [Runs -> Run \cup {NoRecord}] /\ trouble' \in 0 .. MaxTrouble
        /\ \A q \in Runs \ {r} : record'[q] = record[q]
        /\ record'[r] # NoRecord
        /\ result = "early" => record' = record
        /\ result # "early" =>
              record'[r][s] = step /\ \A t \in StepNames \ {s} : record'[r][t] = record[r][t]
    <2>1. record \in [Runs -> Run \cup {NoRecord}] /\ trouble \in 0 .. MaxTrouble
      BY <1>1 DEF TypeOK
    <2> QED BY <1>1, <2>1, SaveFits
  <1>3. Steady
    BY SteadySame DEF world
  <1>4. Shelf'
    BY <1>1, <1>2 DEF Shelf, TypeOK
  <1>5. Content(r)'
    <2>1. CASE result = "early"
      BY <1>1, <1>2, <1>3, <2>1, ContentSame
    <2>2. CASE result # "early"
      BY <1>1, <1>2, <1>3, <2>2, ContentStep
    <2> QED BY <2>1, <2>2
  <1>6. Own(p)
    BY <1>2, <1>3, <1>5, OneRun
  <1> QED BY <1>1, <1>2, <1>3, <1>4, <1>6

\* An invocation that saved goes on, or ends with a local fault.
LEMMA GoesIfSaved ==
    ASSUME PathInv, NEW p \in Procs, Works(inv[p]), inv[p].pc \notin {"idle", "waiting"},
           NEW next \in Invocation, NEW result \in SaveResults, GoIfSaved(p, next, result),
           Own(p), Shelf', trouble' \in 0 .. MaxTrouble, UNCHANGED <<given, world>>,
           \A q \in Runs : record[q] # NoRecord => record'[q] # NoRecord,
           result = "ok" =>
               /\ Works(next) /\ next.run = inv[p].run /\ Fit(next) /\ next.exit = "none"
               /\ next.pc \in AtStep => Staged(next)'
               /\ "denied" \notin Trouble => next.ans # "denied"
    PROVE  PathInv'
  <1>1. CASE result = "ok"
    <2>1. inv' = [inv EXCEPT ![p] = next] /\ UNCHANGED holder
      BY <1>1 DEF GoIfSaved, Go
    <2>2. inv'[p] = next
      BY <2>1, Facts DEF TypeOK
    <2>3. next.run \in Runs /\ record[next.run] # NoRecord /\ holder[next.run] = p
      BY <1>1 DEF PathInv, Placed
    <2>4. Placed(p)'
      BY <1>1, <2>1, <2>2, <2>3 DEF Placed
    <2>5. UNCHANGED <<wire, srv>> /\ Beyond'
      BY Facts DEF world, Beyond, TypeOK
    <2>6. \A m \in wire' : Wired(m)'
      BY <2>1, <2>5, WireKeeps
    <2> QED BY <1>1, <2>1, <2>4, <2>5, <2>6, Stays
  <1>2. CASE result # "ok"
    <2>1. Quit(p, "cli_fault") /\ "cli_fault" \in Classes
      BY <1>2 DEF GoIfSaved, Classes
    <2> QED BY <2>1, Quits
  <1> QED BY <1>1, <1>2

LEMMA ConsentKeeps ==
    ASSUME PathInv, NEW p \in Procs, NEW result \in SaveResults, Consent(p, result)
    PROVE  PathInv'
  <1>1. PICK i, r : i = inv[p] /\ r = inv[p].run
    OBVIOUS
  <1>2. i \in Invocation /\ i.pc = "consent" /\ i.step = "execute" /\ Fit(i) /\ i.exit = "none"
        /\ Staged(i) /\ ("denied" \notin Trouble => i.ans # "denied")
    BY <1>1, Facts DEF Consent, At, Fit, Flagged, Agreed, Placed, AtStep, Gate
  <1>3. Works(inv[p]) /\ r \in Runs /\ record[r] \in Run
    BY <1>1, <1>2, Facts DEF Works, AtStep, Gate
  <1>4. UNCHANGED <<given, said, world>> /\ "pending" \in Classes /\ "cli_fault" \in Classes
    BY DEF Consent, Classes
  <1>5. CASE (i.cmd.yes \/ (~i.cmd.tty /\ i.implied)) /\ Fine /\ Go(p, [i EXCEPT !.pc = "ready"])
             /\ UNCHANGED <<record, holder>>
    <2>1. PICK next : next = [i EXCEPT !.pc = "ready"]
      OBVIOUS
    <2>2. next \in Invocation
      <3>1. "ready" \in PCs
        BY DEF PCs
      <3> QED BY <1>2, <2>1, <3>1 DEF Invocation
    <2>3. /\ next.pc = "ready" /\ next.left = i.left /\ next.flag = i.flag /\ next.ans = i.ans /\ next.exit = i.exit
          /\ next.run = i.run /\ next.cmd = i.cmd /\ next.step = i.step /\ next.agreed = i.agreed
      BY <1>2, <2>1 DEF Invocation
    <2>4. Go(p, next) /\ UNCHANGED <<ledger, world>> /\ trouble' \in 0 .. MaxTrouble
      BY <1>4, <1>5, <2>1, Facts DEF ledger, Fine, TypeOK
    <2>5. Fit(next)
      BY <1>2, <1>5, <2>3 DEF Fit, Flagged, Agreed, Early, AtStep, Gate, Sending
    <2>6. Staged(next)
      BY <1>2, <2>3 DEF Staged, Gate, Sending
    <2>7. Works(next)
      BY <2>3 DEF Works, AtStep, Gate
    <2> QED BY <1>1, <1>2, <1>3, <2>2, <2>3, <2>4, <2>5, <2>6, <2>7, Moves
  <1>6. ASSUME NEW class \in {"pending", "cli_fault"}, Quit(p, class), Fine, UNCHANGED record
        PROVE  PathInv'
    <2>1. trouble' \in 0 .. MaxTrouble
      BY <1>6, Facts DEF Fine, TypeOK
    <2> QED BY <1>1, <1>2, <1>4, <1>6, <2>1, QuitsEarly
  <1>7. CASE /\ record[r]["execute"].state \in {"not_started", "awaiting_confirmation"}
             /\ SaveStep(r, "execute", Awaiting(record[r]["execute"]), result)
             /\ GoIfSaved(p, [i EXCEPT !.pc = "prompt"], result)
    <2>1. PICK next, step : next = [i EXCEPT !.pc = "prompt"] /\ step = Awaiting(record[r]["execute"])
      OBVIOUS
    <2>2. next \in Invocation
      <3>1. "prompt" \in PCs
        BY DEF PCs
      <3> QED BY <1>2, <2>1, <3>1 DEF Invocation
    <2>3. /\ next.pc = "prompt" /\ next.left = i.left /\ next.flag = i.flag /\ next.ans = i.ans /\ next.exit = i.exit
          /\ next.run = i.run /\ next.cmd = i.cmd /\ next.step = i.step
      BY <1>2, <2>1 DEF Invocation
    <2>4. step \in Step /\ step.state = "awaiting_confirmation"
      BY <1>3, <2>1, Names, ChangesFit DEF Run
    <2>5. "execute" \in given[r].shape /\ (given[r].shape = StepNames => record[r]["simulate"].state = "terminal")
      BY <1>1, <1>2 DEF Staged, Gate
    <2>6. SaveStep(r, "execute", step, result)
      BY <1>7, <2>1
    <2>7. /\ Own(p) /\ Shelf' /\ trouble' \in 0 .. MaxTrouble
          /\ \A q \in Runs : record[q] # NoRecord => record'[q] # NoRecord
          /\ result # "early" => record'[r]["execute"] = step
                                 /\ \A t \in StepNames \ {"execute"} : record'[r][t] = record[r][t]
      BY <1>1, <1>3, <1>4, <1>7, <2>4, <2>5, <2>6, Saves
    <2>8. Fit(next)
      BY <1>2, <2>3 DEF Fit, Flagged, Agreed, Early, AtStep, Gate, Sending
    <2>9. Works(next)
      BY <2>3 DEF Works, AtStep, Gate
    <2>10. result = "ok" => Staged(next)'
      BY <1>1, <1>2, <1>4, <2>3, <2>4, <2>5, <2>7, Names DEF Staged, Gate, Sending
    <2>11. GoIfSaved(p, next, result)
      BY <1>7, <2>1
    <2> QED BY <1>1, <1>2, <1>3, <1>4, <2>2, <2>3, <2>7, <2>8, <2>9, <2>10, <2>11, GoesIfSaved
  <1> QED
    <2> DEFINE refused == IF MayHaveSent(record[r]["execute"].state) THEN "pending" ELSE "cli_fault"
    <2>1. refused \in {"pending", "cli_fault"}
      OBVIOUS
    <2>2. \/ (i.cmd.yes \/ (~i.cmd.tty /\ i.implied)) /\ Fine /\ Go(p, [i EXCEPT !.pc = "ready"])
             /\ UNCHANGED <<record, holder>>
          \/ Fine /\ Quit(p, refused) /\ UNCHANGED record
          \/ Fine /\ Quit(p, "cli_fault") /\ UNCHANGED record
          \/ /\ record[r]["execute"].state \in {"not_started", "awaiting_confirmation"}
             /\ SaveStep(r, "execute", Awaiting(record[r]["execute"]), result)
             /\ GoIfSaved(p, [i EXCEPT !.pc = "prompt"], result)
      BY <1>1 DEF Consent
    <2> HIDE DEF refused
    <2> QED BY <1>5, <1>6, <1>7, <2>1, <2>2

LEMMA AnswerNoKeeps ==
    ASSUME PathInv, NEW p \in Procs, NEW result \in SaveResults, AnswerNo(p, result)
    PROVE  PathInv'
  <1>1. PICK r, step : r = inv[p].run /\ step = Declined(record[r]["execute"])
    OBVIOUS
  <1>2. inv[p].pc = "prompt" /\ inv[p].step = "execute" /\ Staged(inv[p]) /\ Works(inv[p])
    BY Facts DEF AnswerNo, At, Fit, Agreed, Placed, Works, AtStep, Gate
  <1>3. r \in Runs /\ record[r] \in Run
    BY <1>1, <1>2, Facts
  <1>4. UNCHANGED <<given, said, world>> /\ SaveStep(r, "execute", step, result)
    BY <1>1 DEF AnswerNo
  <1>5. step \in Step /\ step.state = "declined" /\ ~HasPlanToken(step)
    BY <1>1, <1>3, Names, ChangesFit DEF Run
  <1>6. "execute" \in given[r].shape /\ record[r]["execute"].state = "awaiting_confirmation"
    BY <1>1, <1>2 DEF Staged
  <1>7. Own(p) /\ Shelf' /\ trouble' \in 0 .. MaxTrouble /\ \A q \in Runs : record[q] # NoRecord => record'[q] # NoRecord
    BY <1>1, <1>2, <1>3, <1>4, <1>5, <1>6, Saves DEF Dirty
  <1>8. PICK class : class = IF result = "ok" THEN "refused_fix" ELSE "cli_fault"
    OBVIOUS
  <1>9. Quit(p, class) /\ class \in Classes /\ class \notin {"accepted_upstream", "usage"}
    BY <1>8 DEF AnswerNo, Classes
  <1> QED BY <1>2, <1>4, <1>7, <1>9, Quits

LEMMA BeginKeeps ==
    ASSUME PathInv, NEW p \in Procs, NEW result \in SaveResults, Begin(p, result)
    PROVE  PathInv'
  <1>1. PICK i, r : i = inv[p] /\ r = inv[p].run
    OBVIOUS
  <1>2. i \in Invocation /\ i.pc = "ready" /\ i.step \in StepNames /\ Fit(i) /\ i.exit = "none"
        /\ Staged(i) /\ ("denied" \notin Trouble => i.ans # "denied")
    BY <1>1, Facts DEF Begin, At, Fit, Flagged, Placed, AtStep, Gate, Invocation
  <1>3. Works(inv[p]) /\ r \in Runs /\ record[r] \in Run
    BY <1>1, <1>2, Facts DEF Works, AtStep, Gate
  <1>4. UNCHANGED <<given, said, world>> /\ "cli_fault" \in Classes
    BY DEF Begin, Classes
  <1>5. CASE Fine /\ Quit(p, "cli_fault") /\ UNCHANGED record
    <2>1. trouble' \in 0 .. MaxTrouble
      BY <1>5, Facts DEF Fine, TypeOK
    <2> QED BY <1>1, <1>2, <1>4, <1>5, <2>1, QuitsEarly
  <1>6. CASE LET step == record[r][i.step] IN
             /\ MayBegin(step, Offered(step))
             /\ SaveStep(r, i.step, [Began(step, Offered(step)) EXCEPT !.attempts = 0], result)
             /\ GoIfSaved(p, [i EXCEPT !.pc = "begun"], result)
    <2>1. PICK next, old, step : /\ next = [i EXCEPT !.pc = "begun"] /\ old = record[r][i.step]
                                 /\ step = [Began(old, Offered(old)) EXCEPT !.attempts = 0]
      OBVIOUS
    <2>2. next \in Invocation
      <3>1. "begun" \in PCs
        BY DEF PCs
      <3> QED BY <1>2, <2>1, <3>1 DEF Invocation
    <2>3. /\ next.pc = "begun" /\ next.left = i.left /\ next.flag = i.flag /\ next.ans = i.ans /\ next.exit = i.exit
          /\ next.run = i.run /\ next.cmd = i.cmd /\ next.step = i.step /\ next.agreed = i.agreed
      BY <1>2, <2>1 DEF Invocation
    <2>4. step \in Step /\ step.state = "pending"
      <3>1. old \in Step
        BY <1>2, <1>3, <2>1 DEF Run
      <3>2. Offered(old) \in Bodies \cup {NoBody}
        BY MoneyAssumption DEF Offered
      <3> QED BY <2>1, <3>1, <3>2, BeganFits
    <2>5. i.step \in given[r].shape
          /\ (i.step = "execute" /\ given[r].shape = StepNames => record[r]["simulate"].state = "terminal")
      BY <1>1, <1>2 DEF Staged, Gate
    <2>6. SaveStep(r, i.step, step, result) /\ record[r][i.step].state # "terminal"
      BY <1>6, <2>1 DEF MayBegin, Terminal
    <2>7. /\ Own(p) /\ Shelf' /\ trouble' \in 0 .. MaxTrouble
          /\ \A q \in Runs : record[q] # NoRecord => record'[q] # NoRecord
          /\ result # "early" => record'[r][i.step] = step
      BY <1>1, <1>3, <1>4, <2>4, <2>5, <2>6, Saves
    <2>8. Fit(next)
      BY <1>2, <2>3 DEF Fit, Flagged, Agreed, Early, AtStep, Gate, Sending
    <2>9. Works(next)
      BY <2>3 DEF Works, AtStep, Sending
    <2>10. result = "ok" => Staged(next)'
      BY <1>1, <1>2, <1>4, <2>3, <2>4, <2>5, <2>7 DEF Staged, Gate, Sending
    <2>11. GoIfSaved(p, next, result)
      BY <1>6, <2>1
    <2> QED BY <1>1, <1>2, <1>3, <1>4, <2>2, <2>3, <2>7, <2>8, <2>9, <2>10, <2>11, GoesIfSaved
  <1> QED BY <1>1, <1>5, <1>6 DEF Begin

LEMMA CloseExecuteKeeps ==
    ASSUME PathInv, NEW p \in Procs, NEW result \in SaveResults, CloseExecute(p, result)
    PROVE  PathInv'
  <1>1. PICK i, r : i = inv[p] /\ r = inv[p].run
    OBVIOUS
  <1>2. i \in Invocation /\ i.pc = "closing" /\ i.step = "simulate" /\ Fit(i) /\ i.exit = "none"
        /\ Staged(i) /\ i.cmd.broadcast /\ ("denied" \notin Trouble => i.ans # "denied")
    BY <1>1, Facts DEF CloseExecute, At, Fit, Flagged, Placed, AtStep
  <1>3. Works(inv[p]) /\ r \in Runs /\ record[r] \in Run /\ OnRecord(r)
    BY <1>1, <1>2, Facts DEF Works, AtStep
  <1>4. PICK next, step : next = [i EXCEPT !.pc = "polling"] /\ step = MadeUnreachable(record[r]["execute"])
    OBVIOUS
  <1>5. UNCHANGED <<given, said, world>> /\ SaveStep(r, "execute", step, result) /\ GoIfSaved(p, next, result)
    BY <1>1, <1>4 DEF CloseExecute
  <1>6. next \in Invocation
    <2>1. "polling" \in PCs
      BY DEF PCs
    <2> QED BY <1>2, <1>4, <2>1 DEF Invocation
  <1>7. /\ next.pc = "polling" /\ next.left = i.left /\ next.flag = i.flag /\ next.ans = i.ans /\ next.exit = i.exit
        /\ next.run = i.run /\ next.cmd = i.cmd /\ next.step = i.step
    BY <1>2, <1>4 DEF Invocation
  <1>8. step \in Step /\ step.state = "unreachable" /\ ~HasPlanToken(step)
    BY <1>3, <1>4, Names, ChangesFit DEF Run
  <1>9. given[r].shape = StepNames /\ record[r]["simulate"].state = "answered"
    BY <1>1, <1>2 DEF Staged
  <1>10. "execute" \in given[r].shape /\ record[r]["execute"].state # "terminal" /\ ~Dirty(step)
    BY <1>3, <1>8, <1>9, Names DEF OnRecord, Dirty
  <1>11. /\ Own(p) /\ Shelf' /\ trouble' \in 0 .. MaxTrouble
         /\ \A q \in Runs : record[q] # NoRecord => record'[q] # NoRecord
         /\ result # "early" => \A t \in StepNames \ {"execute"} : record'[r][t] = record[r][t]
    BY <1>1, <1>3, <1>5, <1>8, <1>10, Saves
  <1>12. Fit(next)
    BY <1>2, <1>7 DEF Fit, Flagged, Agreed, Early, AtStep, Gate, Sending
  <1>13. Works(next)
    BY <1>7 DEF Works, AtStep
  <1>14. result = "ok" => Staged(next)'
    BY <1>1, <1>2, <1>5, <1>7, <1>9, <1>11, Names DEF Staged, Gate, Sending
  <1> QED BY <1>1, <1>2, <1>3, <1>5, <1>6, <1>7, <1>11, <1>12, <1>13, <1>14, GoesIfSaved

LEMMA BroadcastKeeps ==
    ASSUME PathInv, NEW p \in Procs, NEW result \in SaveResults, Broadcast(p, result)
    PROVE  PathInv'
  <1>1. PICK i, r : i = inv[p] /\ r = inv[p].run
    OBVIOUS
  <1>2. i \in Invocation /\ i.pc = "after" /\ i.step = "simulate" /\ Fit(i) /\ i.exit = "none" /\ Staged(i)
        /\ i.ans = "fresh"
    BY <1>1, Facts DEF Broadcast, At, Fit, Flagged, Placed, AtStep
  <1>3. Works(inv[p]) /\ r \in Runs /\ record[r] \in Run /\ Content(r)
    BY <1>1, <1>2, Facts DEF Works, AtStep
  <1>4. UNCHANGED <<given, said, world>> /\ "cli_fault" \in Classes
    BY DEF Broadcast, Classes
  <1>5. given[r].shape = StepNames /\ record[r]["simulate"].state = "terminal"
    BY <1>1, <1>3 DEF Broadcast, Content
  <1>6. CASE Fine /\ Quit(p, "cli_fault") /\ UNCHANGED record
    <2>1. trouble' \in 0 .. MaxTrouble
      BY <1>6, Facts DEF Fine, TypeOK
    <2> QED BY <1>1, <1>2, <1>4, <1>6, <2>1, QuitsEarly
  <1>7. CASE LET step == record[r]["execute"] IN
             /\ ~Terminal(step.state)
             /\ SaveStep(r, "execute", Planned(step), result)
             /\ GoIfSaved(p, [i EXCEPT !.pc = "consent", !.step = "execute", !.implied = TRUE, !.ans = "none"], result)
    <2>1. PICK next, step : /\ next = [i EXCEPT !.pc = "consent", !.step = "execute", !.implied = TRUE, !.ans = "none"]
                            /\ step = Planned(record[r]["execute"])
      OBVIOUS
    <2>2. SaveStep(r, "execute", step, result) /\ GoIfSaved(p, next, result)
      BY <1>7, <2>1
    <2>3. next \in Invocation
      <3>1. "consent" \in PCs /\ "none" \in Answers
        BY DEF PCs, Answers
      <3> QED BY <1>2, <2>1, <3>1, Names DEF Invocation
    <2>4. /\ next.pc = "consent" /\ next.left = i.left /\ next.flag = i.flag /\ next.ans = "none" /\ next.exit = i.exit
          /\ next.run = i.run /\ next.cmd = i.cmd /\ next.step = "execute"
      BY <1>2, <2>1 DEF Invocation
    <2>5. step \in Step /\ step.state # "terminal" /\ record[r]["execute"].state # "terminal"
      BY <1>3, <1>7, <2>1, Names, ChangesFit DEF Run, Terminal
    <2>6. /\ Own(p) /\ Shelf' /\ trouble' \in 0 .. MaxTrouble
          /\ \A q \in Runs : record[q] # NoRecord => record'[q] # NoRecord
          /\ result # "early" => \A t \in StepNames \ {"execute"} : record'[r][t] = record[r][t]
      BY <1>1, <1>3, <1>4, <1>5, <2>2, <2>5, Names, Saves
    <2>7. Fit(next)
      BY <1>2, <2>4 DEF Fit, Flagged, Agreed, Early, AtStep, Gate, Sending
    <2>8. Works(next)
      BY <2>4 DEF Works, AtStep, Gate
    <2>9. result = "ok" => Staged(next)'
      BY <1>1, <1>2, <1>4, <1>5, <2>4, <2>6, Names DEF Staged, Gate, Sending
    <2> QED BY <1>1, <1>2, <1>3, <1>4, <2>2, <2>3, <2>4, <2>6, <2>7, <2>8, <2>9, GoesIfSaved
  <1> QED BY <1>1, <1>6, <1>7 DEF Broadcast

LEMMA BroadcastWithoutPlanKeeps ==
    ASSUME PathInv, NEW p \in Procs, NEW result \in SaveResults, BroadcastWithoutPlan(p, result)
    PROVE  PathInv'
  <1>1. PICK i, r, class, step :
           /\ i = inv[p] /\ r = inv[p].run /\ step = MadeUnreachable(record[r]["execute"])
           /\ class = IF said[r]["simulate"] = "done" THEN "refused_resimulate" ELSE said[r]["simulate"]
    OBVIOUS
  <1>2. i \in Invocation /\ i.pc = "after" /\ i.step = "simulate" /\ Fit(i) /\ Staged(i)
        /\ ("denied" \notin Trouble => i.ans # "denied")
    BY <1>1, Facts DEF BroadcastWithoutPlan, At, Placed, AtStep
  <1>3. Works(inv[p]) /\ r \in Runs /\ record[r] \in Run /\ Content(r) /\ holder[r] = p
    BY <1>1, <1>2, Facts DEF Works, AtStep
  <1>4. class \in Classes /\ class \notin {"accepted_upstream", "cli_fault", "usage"}
    <2>1. said[r]["simulate"] \in Classes
      BY <1>3, Names, Facts DEF TypeOK
    <2>2. said[r]["simulate"] \notin {"accepted_upstream", "cli_fault", "usage"}
      BY <1>3, Names DEF Content
    <2>3. "refused_resimulate" \in Classes
      BY DEF Classes
    <2> QED BY <1>1, <2>1, <2>2, <2>3
  <1>5. UNCHANGED <<given, said, holder, world>>
    BY DEF BroadcastWithoutPlan
  <1>6. given[r].shape = StepNames
    BY <1>1 DEF BroadcastWithoutPlan
  <1>7. /\ Own(p) /\ Shelf' /\ trouble' \in 0 .. MaxTrouble
        /\ \A q \in Runs : record[q] # NoRecord => record'[q] # NoRecord
    <2>1. CASE Fine /\ UNCHANGED record
      <3>1. trouble' \in 0 .. MaxTrouble
        BY <2>1, Facts DEF Fine, TypeOK
      <3>2. Steady
        BY <1>5, SteadySame DEF world
      <3> QED BY <1>5, <2>1, <3>1, <3>2, LedgerSame
    <2>2. CASE ~Terminal(record[r]["execute"].state) /\ SaveStep(r, "execute", step, result)
      <3>1. step \in Step /\ step.state = "unreachable" /\ ~Dirty(step) /\ record[r]["execute"].state # "terminal"
        BY <1>1, <1>3, <2>2, Names, ChangesFit DEF Run, Terminal, Dirty
      <3> QED BY <1>1, <1>3, <1>5, <1>6, <2>2, <3>1, Names, Saves
    <2> QED BY <1>1, <2>1, <2>2 DEF BroadcastWithoutPlan
  <1>8. PICK next : next = [i EXCEPT !.pc = "reporting", !.exit = class]
    OBVIOUS
  <1>9. next \in Invocation
    <2>1. "reporting" \in PCs
      BY DEF PCs
    <2> QED BY <1>2, <1>4, <1>8, <2>1 DEF Invocation
  <1>10. /\ next.pc = "reporting" /\ next.left = i.left /\ next.flag = i.flag /\ next.ans = i.ans /\ next.exit = class
         /\ next.run = i.run /\ next.cmd = i.cmd /\ next.step = i.step
    BY <1>2, <1>8 DEF Invocation
  <1>11. inv' = [inv EXCEPT ![p] = next] /\ inv'[p] = next
    BY <1>1, <1>8, Facts DEF BroadcastWithoutPlan, Go, TypeOK
  <1>12. Fit(next)
    BY <1>2, <1>4, <1>10 DEF Fit, Flagged, Agreed, Early, AtStep, Gate, Sending
  <1>13. Works(next)
    BY <1>10 DEF Works, AtStep
  <1>14. Staged(next)'
    BY <1>1, <1>2, <1>5, <1>10 DEF Staged, Gate, Sending
  <1>15. Placed(p)'
    BY <1>1, <1>3, <1>4, <1>5, <1>7, <1>10, <1>11, <1>14, Names DEF Placed
  <1>16. UNCHANGED <<wire, srv>> /\ Beyond'
    BY <1>5, <1>7, Facts DEF world, Beyond, TypeOK
  <1>17. \A m \in wire' : Wired(m)'
    BY <1>1, <1>2, <1>5, <1>7, <1>11, <1>16, WireKeeps
  <1> QED BY <1>1, <1>2, <1>5, <1>7, <1>9, <1>10, <1>11, <1>12, <1>13, <1>15, <1>16, <1>17, Stays

-----------------------------------------------------------------------------
(* Steps that record an answer.                                            *)

Resumes(class) == class \in {"transient", "pending"}

\* What the record may say of a step of run r now.
Justified(r, s, class) ==
    LET held == srv[KeyOf(r, s)] IN
    /\ class \in Classes \ {"cli_fault", "usage"}
    /\ s = "simulate" => class # "accepted_upstream"
    /\ s = "execute" /\ ~Resumes(class) =>
          \/ class = "accepted_upstream" /\ held = "done"
          \/ class = "refused_resimulate" /\ held = "refused"
          \/ class = "escalate" /\ held = "stuck"
          \/ class = "refused_fix" /\ "denied" \in Trouble

LEMMA Records ==
    ASSUME PathInv, NEW p \in Procs, Works(inv[p]), NEW r, r = inv[p].run,
           NEW s \in given[r].shape, record[r][s].state \in {"pending", "answered"},
           NEW class, Justified(r, s, class), NEW result \in SaveResults,
           RecordClass(r, s, class, result), UNCHANGED <<given, world>>
    PROVE  /\ Own(p) /\ Shelf' /\ trouble' \in 0 .. MaxTrouble
           /\ \A q \in Runs : record[q] # NoRecord => record'[q] # NoRecord
           /\ result # "early" => record'[r][s].state = IF Resumes(class) THEN "answered" ELSE "terminal"
  <1>1. r \in Runs /\ record[r] \in Run /\ record[r] # NoRecord /\ Content(r) /\ OnRecord(r) /\ TypeOK
    BY Facts, Names
  <1>2. s \in StepNames /\ record[r][s] \in Step
    <2>1. given[r].shape \in SUBSET StepNames
      BY <1>1 DEF TypeOK
    <2> QED BY <1>1, <2>1 DEF Run
  <1>3. PICK outcome, step : /\ outcome = IF Resumes(class) THEN "resumable" ELSE "settled"
                             /\ step = Recorded(record[r][s], outcome)
    OBVIOUS
  <1>4. step \in Step /\ step.state = IF Resumes(class) THEN "answered" ELSE "terminal"
    BY <1>2, <1>3, RecordedFits
  <1>5. SaveStep(r, s, step, result)
        /\ said' = IF result = "early" THEN said ELSE [said EXCEPT ![r][s] = class]
    BY <1>3 DEF RecordClass, Resumes
  <1>6. /\ record' \in [Runs -> Run \cup {NoRecord}] /\ trouble' \in 0 .. MaxTrouble
        /\ \A q \in Runs \ {r} : record'[q] = record[q]
        /\ record'[r] # NoRecord
        /\ result = "early" => record' = record
        /\ result # "early" =>
              record'[r][s] = step /\ \A t \in StepNames \ {s} : record'[r][t] = record[r][t]
    <2>1. record \in [Runs -> Run \cup {NoRecord}] /\ trouble \in 0 .. MaxTrouble
      BY <1>1 DEF TypeOK
    <2> QED BY <1>1, <1>2, <1>4, <1>5, <2>1, SaveFits
  <1>7. /\ said \in [Runs -> [StepNames -> Classes]] /\ class \in Classes /\ said' \in [Runs -> [StepNames -> Classes]]
        /\ \A q \in Runs \ {r} : said'[q] = said[q]
        /\ result = "early" => said' = said
        /\ result # "early" => said'[r][s] = class /\ \A t \in StepNames \ {s} : said'[r][t] = said[r][t]
    <2>1. said \in [Runs -> [StepNames -> Classes]] /\ class \in Classes
      BY <1>1 DEF TypeOK, Justified
    <2> QED BY <1>1, <1>2, <1>5, <2>1
  <1>8. Shelf'
    BY <1>1, <1>6, <1>7 DEF Shelf, TypeOK
  <1>9. Steady /\ given' = given /\ srv' = srv
    BY SteadySame DEF world
  <1>10. said[r]["execute"] = "accepted_upstream" => s # "execute"
    BY <1>1 DEF Content
  <1>11. said[r]["execute"] = "accepted_upstream" => said'[r]["execute"] = "accepted_upstream"
    BY <1>7, <1>10, Names
  <1>12. CASE result = "early"
    <2>1. Content(r)'
      BY <1>1, <1>6, <1>7, <1>9, <1>12, ContentSame
    <2>2. Own(p)
      BY <1>6, <1>7, <1>9, <1>11, <2>1, OneRun
    <2> QED BY <1>6, <1>8, <1>12, <2>2, Names, <1>1
  <1>13. CASE result # "early" /\ s = "simulate"
    <2>1. record'[r]["execute"] = record[r]["execute"] /\ said'[r]["execute"] = said[r]["execute"]
      BY <1>6, <1>7, <1>13, Names
    <2>2. ~(given[r].shape = StepNames /\ Dirty(record[r]["execute"]))
      BY <1>1, <1>13 DEF OnRecord, Dirty
    <2>3. record[r]["execute"].state # "terminal"
      <3>1. given[r].shape = {"simulate"} => record[r]["execute"].state = "not_started"
        BY <1>1, Names DEF OnRecord
      <3>2. given[r].shape \in {{"simulate"}, StepNames}
        BY <1>1, <1>13 DEF OnRecord
      <3> QED BY <2>2, <3>1, <3>2 DEF Dirty
    <2>4. OnRecord(r)'
      BY <1>1, <1>2, <1>9, <1>13, <2>1, <2>2, <2>3, Names DEF OnRecord, Dirty
    <2>5. said'[r]["simulate"] = class /\ class \notin {"cli_fault", "usage", "accepted_upstream"}
          /\ (class = "done" => record'[r]["simulate"].state = "terminal")
      BY <1>4, <1>6, <1>7, <1>13 DEF Justified, Resumes
    <2>6. said[r]["execute"] # "accepted_upstream" /\ said[r]["execute"] \notin {"cli_fault", "usage"}
      BY <1>1, <2>3, Names DEF Content
    <2>7. Content(r)'
      BY <1>6, <2>1, <2>4, <2>5, <2>6, Names DEF Content
    <2>8. Own(p)
      BY <1>6, <1>7, <1>9, <1>11, <2>7, OneRun
    <2> QED BY <1>4, <1>6, <1>8, <1>13, <2>8, Names, <1>1
  <1>14. CASE result # "early" /\ s = "execute"
    <2>1. record'[r]["simulate"] = record[r]["simulate"] /\ said'[r]["simulate"] = said[r]["simulate"]
          /\ record'[r]["execute"] = step /\ said'[r]["execute"] = class
      BY <1>6, <1>7, <1>14, Names
    <2>2. given[r].shape = StepNames => record[r]["simulate"].state = "terminal"
      BY <1>1, <1>14 DEF OnRecord
    <2>3. step.state = "terminal" => True(r)'
      <3>1. KeyOf(r, "execute")' = KeyOf(r, "execute")
        BY <1>9 DEF KeyOf
      <3> QED BY <1>4, <1>9, <1>14, <2>1, <3>1 DEF True, Justified
    <2>4. OnRecord(r)'
      BY <1>1, <1>2, <1>9, <1>14, <2>1, <2>2, <2>3, Names DEF OnRecord
    <2>5. class \notin {"cli_fault", "usage"} /\ (class = "accepted_upstream" => step.state = "terminal")
      BY <1>4 DEF Justified, Resumes
    <2>6. said[r]["simulate"] \notin {"cli_fault", "usage", "accepted_upstream"}
          /\ (said[r]["simulate"] = "done" => record[r]["simulate"].state = "terminal")
      BY <1>1, Names DEF Content
    <2>7. Content(r)'
      BY <1>6, <2>1, <2>4, <2>5, <2>6, Names DEF Content
    <2>8. Own(p)
      BY <1>6, <1>7, <1>9, <1>11, <2>7, OneRun
    <2> QED BY <1>4, <1>6, <1>8, <1>14, <2>8, Names, <1>1
  <1> QED BY <1>2, <1>12, <1>13, <1>14, Names

LEMMA AnswerJustified ==
    ASSUME PathInv, NEW p \in Procs, inv[p].pc = "answered"
    PROVE  Justified(inv[p].run, inv[p].step, ClassOf(inv[p].step, inv[p].ans))
  <1>1. PICK i, s, ans : i = inv[p] /\ s = inv[p].step /\ ans = inv[p].ans
    OBVIOUS
  <1>2. i \in Invocation /\ Staged(i) /\ i.pc = "answered" /\ ("denied" \notin Trouble => ans # "denied")
        /\ s \in {"simulate", "execute"} /\ ans \in Answers \ {"none"}
    BY <1>1, Facts, Names DEF Placed, AtStep, Sending, Invocation, Fit, Flagged
  <1>3. (ans = "refused" => srv[KeyOf(i.run, s)] = "refused")
        /\ (ans \in {"fresh", "replay"} => srv[KeyOf(i.run, s)] = "done")
    BY <1>1, <1>2 DEF Staged
  <1>4. Justified(i.run, s, ClassOf(s, ans))
    <2>1. CASE ans \in {"fresh", "replay"}
      BY <1>2, <1>3, <2>1 DEF ClassOf, Justified, Resumes, Classes
    <2>2. CASE ans \in {"accepted", "in_progress", "lost", "error"}
      BY <1>2, <1>3, <2>2 DEF ClassOf, Justified, Resumes, Classes
    <2>3. CASE ans = "refused"
      BY <1>2, <1>3, <2>3 DEF ClassOf, Justified, Resumes, Classes
    <2>4. CASE ans = "denied"
      BY <1>2, <1>3, <2>4 DEF ClassOf, Justified, Resumes, Classes
    <2>5. CASE ans \in {"busy", "dial"}
      BY <1>2, <1>3, <2>5 DEF ClassOf, Justified, Resumes, Classes
    <2> QED BY <1>2, <2>1, <2>2, <2>3, <2>4, <2>5 DEF Answers
  <1> QED BY <1>1, <1>4

LEMMA RecordAnswerKeeps ==
    ASSUME PathInv, NEW p \in Procs, NEW result \in SaveResults, RecordAnswer(p, result)
    PROVE  PathInv'
  <1>1. PICK i, r, class, pc :
           /\ i = inv[p] /\ r = inv[p].run /\ class = ClassOf(i.step, i.ans)
           /\ pc = IF i.cmd.broadcast /\ i.step = "simulate" /\ i.ans = "accepted" THEN "closing"
                   ELSE IF i.ans \in {"accepted", "in_progress"} THEN "polling"
                   ELSE "after"
    OBVIOUS
  <1>2. i \in Invocation /\ i.pc = "answered" /\ i.step \in StepNames /\ Fit(i) /\ i.exit = "none"
        /\ Staged(i) /\ ("denied" \notin Trouble => i.ans # "denied")
    BY <1>1, Facts DEF RecordAnswer, At, Fit, Flagged, Placed, AtStep, Sending, Invocation
  <1>3. Works(inv[p]) /\ r \in Runs /\ record[r] \in Run
    BY <1>1, <1>2, Facts DEF Works, AtStep, Sending
  <1>4. UNCHANGED <<given, world>> /\ "cli_fault" \in Classes
    BY DEF RecordAnswer, Classes
  <1>5. CASE Fine /\ Quit(p, "cli_fault") /\ UNCHANGED <<record, said>>
    <2>1. trouble' \in 0 .. MaxTrouble
      BY <1>5, Facts DEF Fine, TypeOK
    <2> QED BY <1>1, <1>2, <1>4, <1>5, <2>1, QuitsEarly
  <1>6. CASE RecordClass(r, i.step, class, result) /\ GoIfSaved(p, [i EXCEPT !.pc = pc], result)
    <2>1. PICK next : next = [i EXCEPT !.pc = pc]
      OBVIOUS
    <2>2. GoIfSaved(p, next, result)
      BY <1>6, <2>1
    <2>3. pc \in {"closing", "polling", "after"} /\ pc \in PCs
      BY <1>1 DEF PCs
    <2>4. next \in Invocation
      BY <1>2, <2>1, <2>3 DEF Invocation
    <2>5. /\ next.pc = pc /\ next.left = i.left /\ next.flag = i.flag /\ next.ans = i.ans /\ next.exit = i.exit
          /\ next.run = i.run /\ next.cmd = i.cmd /\ next.step = i.step
      BY <1>2, <2>1 DEF Invocation
    <2>6. i.step \in given[r].shape /\ record[r][i.step].state = "pending"
      BY <1>1, <1>2 DEF Staged, Sending
    <2>7. Justified(r, i.step, class)
      BY <1>1, <1>2, AnswerJustified
    <2>8. /\ Own(p) /\ Shelf' /\ trouble' \in 0 .. MaxTrouble
          /\ \A q \in Runs : record[q] # NoRecord => record'[q] # NoRecord
          /\ result # "early" => record'[r][i.step].state = IF Resumes(class) THEN "answered" ELSE "terminal"
      BY <1>1, <1>3, <1>4, <1>6, <2>6, <2>7, Records
    <2>9. pc \in {"closing", "polling"} => Resumes(class)
      <3>1. i.ans \in {"accepted", "in_progress"} => class = "pending"
        BY <1>1 DEF ClassOf
      <3> QED BY <1>1, <3>1 DEF Resumes
    <2>10. Fit(next)
      BY <1>1, <1>2, <2>3, <2>5 DEF Fit, Flagged, Agreed, Early, AtStep, Gate, Sending
    <2>11. Works(next)
      BY <2>3, <2>5 DEF Works, AtStep
    <2>12. result = "ok" => Staged(next)'
      <3>1. next.pc \notin Gate \cup Sending \cup {"prompt", "answered"}
        BY <2>3, <2>5 DEF Gate, Sending
      <3>2. result = "ok" /\ pc \in {"closing", "polling"} => record'[r][i.step].state = "answered"
        BY <2>8, <2>9
      <3> QED BY <1>1, <1>2, <1>4, <2>3, <2>5, <2>6, <3>1, <3>2 DEF Staged
    <2> QED BY <1>1, <1>2, <1>3, <1>4, <2>2, <2>4, <2>5, <2>8, <2>10, <2>11, <2>12, GoesIfSaved
  <1> QED BY <1>1, <1>5, <1>6 DEF RecordAnswer

LEMMA PollKeeps ==
    ASSUME PathInv, NEW p \in Procs, NEW result \in SaveResults, Poll(p, result)
    PROVE  PathInv'
  <1>1. PICK i, r, held, class, next :
           /\ i = inv[p] /\ r = inv[p].run /\ held = srv[KeyOf(i.run, i.step)]
           /\ class = CommandClass(i.step, held) /\ next = [i EXCEPT !.pc = "after"]
    OBVIOUS
  <1>2. i \in Invocation /\ i.pc = "polling" /\ i.step \in StepNames /\ Fit(i) /\ i.exit = "none"
        /\ Staged(i) /\ ("denied" \notin Trouble => i.ans # "denied")
    BY <1>1, Facts DEF Poll, At, Fit, Flagged, Placed, AtStep, Invocation
  <1>3. Works(inv[p]) /\ r \in Runs /\ record[r] \in Run
    BY <1>1, <1>2, Facts DEF Works, AtStep
  <1>4. UNCHANGED <<given, world>> /\ "cli_fault" \in Classes
    BY DEF Poll, Classes
  <1>5. next \in Invocation
    <2>1. "after" \in PCs
      BY DEF PCs
    <2> QED BY <1>1, <1>2, <2>1 DEF Invocation
  <1>6. /\ next.pc = "after" /\ next.left = i.left /\ next.flag = i.flag /\ next.ans = i.ans /\ next.exit = i.exit
        /\ next.run = i.run /\ next.cmd = i.cmd /\ next.step = i.step
    BY <1>1, <1>2 DEF Invocation
  <1>7. Fit(next) /\ Works(next)
    <2>1. Fit(next)
      BY <1>2, <1>6 DEF Fit, Flagged, Agreed, Early, AtStep, Gate, Sending
    <2>2. Works(next)
      BY <1>6 DEF Works, AtStep
    <2> QED BY <2>1, <2>2
  <1>8. CASE Fine /\ Quit(p, "cli_fault") /\ UNCHANGED <<record, said>>
    <2>1. trouble' \in 0 .. MaxTrouble
      BY <1>8, Facts DEF Fine, TypeOK
    <2> QED BY <1>1, <1>2, <1>4, <1>8, <2>1, QuitsEarly
  <1>9. CASE Befalls("timeout") /\ Go(p, next) /\ UNCHANGED <<record, said, holder>>
    <2>1. trouble' \in 0 .. MaxTrouble
      BY <1>9, Facts, TroubleFits DEF TypeOK, Troubles
    <2>2. UNCHANGED <<ledger, world>>
      BY <1>4, <1>9 DEF ledger
    <2>3. Staged(next)
      BY <1>2, <1>6 DEF Staged, Gate, Sending
    <2> QED BY <1>1, <1>2, <1>3, <1>5, <1>6, <1>7, <1>9, <2>1, <2>2, <2>3, Moves
  <1>10. CASE /\ held \in {"done", "refused", "stuck"}
              /\ RecordClass(r, i.step, class, result) /\ GoIfSaved(p, next, result)
    <2>1. i.step \in given[r].shape /\ record[r][i.step].state = "answered"
      BY <1>1, <1>2 DEF Staged
    <2>2. Justified(r, i.step, class)
      <3>1. i.step \in {"simulate", "execute"} /\ held = srv[KeyOf(r, i.step)]
        BY <1>1, <1>2, Names
      <3>2. CASE held = "done"
        BY <1>1, <3>1, <3>2 DEF CommandClass, Justified, Resumes, Classes
      <3>3. CASE held = "refused"
        BY <1>1, <3>1, <3>3 DEF CommandClass, Justified, Resumes, Classes
      <3>4. CASE held = "stuck"
        BY <1>1, <3>1, <3>4 DEF CommandClass, Justified, Resumes, Classes
      <3> QED BY <1>10, <3>2, <3>3, <3>4
    <2>3. /\ Own(p) /\ Shelf' /\ trouble' \in 0 .. MaxTrouble
          /\ \A q \in Runs : record[q] # NoRecord => record'[q] # NoRecord
      BY <1>1, <1>3, <1>4, <1>10, <2>1, <2>2, Records
    <2>4. Staged(next)'
      BY <1>1, <1>2, <1>4, <1>6 DEF Staged, Gate, Sending
    <2> QED BY <1>1, <1>2, <1>3, <1>4, <1>5, <1>6, <1>7, <1>10, <2>3, <2>4, GoesIfSaved
  <1> QED BY <1>1, <1>8, <1>9, <1>10 DEF Poll

-----------------------------------------------------------------------------
(* The ends of an invocation, and the steps that take a lock.              *)

LEMMA ReportKeeps ==
    ASSUME PathInv, NEW p \in Procs, Report(p)
    PROVE  PathInv'
  <1>1. PICK i : i = inv[p]
    OBVIOUS
  <1>2. i \in Invocation /\ i.pc = "reporting" /\ Fit(i) /\ i.exit \notin {"cli_fault", "usage"} /\ i.exit \in Classes
        /\ (i.exit = "accepted_upstream" => i.run \in Runs /\ said[i.run]["execute"] = "accepted_upstream")
    BY <1>1, Facts DEF Report, At, Fit, Flagged, Placed, Invocation
  <1>3. UNCHANGED <<record, given, said, world>> /\ "cli_fault" \in Classes
    BY DEF Report, Classes
  <1>4. CASE Ended(p, i.exit) /\ Fine
    <2>1. Own(p) /\ Shelf'
      BY <1>3, SteadySame, LedgerSame DEF world
    <2>2. UNCHANGED <<wire, srv>> /\ Beyond'
      BY <1>3, <1>4, Facts DEF world, Beyond, TypeOK, Fine
    <2>3. \A m \in wire' : Wired(m)'
      BY <1>1, <1>2, <1>3, <1>4, <2>2, WireKeeps DEF Ended, Go
    <2> QED BY <1>1, <1>2, <1>3, <1>4, <2>1, <2>2, <2>3, Leaves
  <1>5. CASE Quit(p, "cli_fault") /\ Befalls("report")
    <2>1. trouble' \in 0 .. MaxTrouble
      BY <1>5, Facts, TroubleFits DEF TypeOK, Troubles
    <2> QED BY <1>1, <1>2, <1>3, <1>5, <2>1, QuitsEarly
  <1> QED BY <1>1, <1>4, <1>5 DEF Report

LEMMA CrashKeeps ==
    ASSUME PathInv, NEW p \in Procs, Crash(p)
    PROVE  PathInv'
  <1>1. UNCHANGED <<record, given, said, srv>> /\ Ended(p, "killed") /\ "killed" \in Classes
        /\ wire' = {IF m.to = p THEN [m EXCEPT !.to = NoProc] ELSE m : m \in wire}
    BY DEF Crash, Classes
  <1>2. Own(p) /\ Shelf'
    BY <1>1, SteadySame, LedgerSame
  <1>3. trouble' \in 0 .. MaxTrouble
    BY Facts, TroubleFits DEF Crash, TypeOK, Troubles
  <1>4. Beyond'
    BY <1>1, <1>3, Facts DEF Beyond, TypeOK
  <1>5. ASSUME NEW m \in wire' PROVE Wired(m)'
    <2>1. PICK n \in wire : m = IF n.to = p THEN [n EXCEPT !.to = NoProc] ELSE n
      BY <1>1
    <2>2. Wired(n) /\ n \in [to : Procs \cup {NoProc}, run : Runs, step : StepNames]
      BY DEF PathInv, TypeOK
    <2>3. m.run = n.run /\ m.step = n.step /\ m.to = IF n.to = p THEN NoProc ELSE n.to
      BY <2>1, <2>2
    <2>4. \A q \in Procs \ {p} : inv'[q] = inv[q]
      BY <1>1, Facts DEF Ended, Go, TypeOK
    <2> QED BY <1>1, <2>2, <2>3, <2>4 DEF Wired
  <1> QED BY <1>1, <1>2, <1>4, <1>5, Leaves

\* Nobody works on a run whose lock is free, or that is not on record.
LEMMA FreeRun ==
    ASSUME PathInv, NEW r \in Runs, holder[r] = NoProc \/ record[r] = NoRecord
    PROVE  holder[r] = NoProc /\ \A q \in Procs : Works(inv[q]) => inv[q].run # r
  BY Names DEF PathInv, Placed, Held, TypeOK

LEMMA OpenRunKeeps ==
    ASSUME PathInv, NEW p \in Procs, OpenRun(p)
    PROVE  PathInv'
  <1>1. PICK i, r : i = inv[p] /\ r = inv[p].run
    OBVIOUS
  <1>2. i \in Invocation /\ i.pc = "opening" /\ r \in Runs /\ i.left = {} /\ ~i.flag /\ i.ans = "none"
        /\ i.exit = "none" /\ ~i.cmd.broadcast
    BY <1>1, Facts DEF OpenRun, At, Fit, Flagged, Early
  <1>3. UNCHANGED <<record, given, said, world>> /\ trouble' \in 0 .. MaxTrouble
        /\ {"usage", "cli_fault"} \subseteq Classes
    BY Facts DEF OpenRun, Fine, TypeOK, Classes
  <1>4. ASSUME NEW class \in {"usage", "cli_fault"}, Quit(p, class) PROVE PathInv'
    BY <1>1, <1>2, <1>3, <1>4, QuitsEarly
  <1>5. CASE /\ record[r] # NoRecord /\ holder[r] = NoProc
             /\ holder' = [holder EXCEPT ![r] = p]
             /\ Go(p, [i EXCEPT !.pc = IF i.cmd.verb = "resume" THEN "resuming" ELSE "checking"])
    <2>1. PICK next : next = [i EXCEPT !.pc = IF i.cmd.verb = "resume" THEN "resuming" ELSE "checking"]
      OBVIOUS
    <2>2. next \in Invocation
      <3>1. "resuming" \in PCs /\ "checking" \in PCs
        BY DEF PCs
      <3> QED BY <1>2, <2>1, <3>1 DEF Invocation
    <2>3. /\ next.pc = IF i.cmd.verb = "resume" THEN "resuming" ELSE "checking"
          /\ next.left = {} /\ ~next.flag /\ next.ans = "none" /\ next.exit = "none"
          /\ next.run = r /\ next.cmd = i.cmd
      BY <1>1, <1>2, <2>1 DEF Invocation
    <2>4. inv' = [inv EXCEPT ![p] = next] /\ inv'[p] = next /\ \A q \in Procs \ {p} : inv'[q] = inv[q]
      BY <1>5, <2>1, Facts DEF Go, TypeOK
    <2>5. holder'[r] = p /\ \A q \in Runs \ {r} : holder'[q] = holder[q]
      BY <1>2, <1>5, Facts DEF TypeOK
    <2>6. TypeOK'
      BY <1>2, <1>3, <1>5, <2>2, <2>4, Facts DEF TypeOK, world
    <2>7. Fit(next)
      BY <1>2, <2>3 DEF Fit, Flagged, Agreed, Early, AtStep, Gate, Sending
    <2>8. Works(next) /\ next.pc \notin AtStep
      BY <1>2, <2>3, Names DEF Works, AtStep, Gate, Sending
    <2>9. Placed(p)'
      BY <1>2, <1>3, <1>5, <2>3, <2>4, <2>5, <2>8 DEF Placed
    <2>10. Steady /\ Content(r)'
      <3>1. Steady
        BY <1>3, SteadySame DEF world
      <3> QED BY <1>2, <1>3, <3>1, Facts, ContentSame DEF PathInv
    <2>11. Held(r)'
      BY <2>3, <2>4, <2>5, <2>8 DEF Held
    <2>12. \A q \in Runs : holder[q] # p
      BY <1>1, <1>2, Names DEF PathInv, Held, Works, AtStep, Gate, Sending
    <2>13. \A m \in wire' : Wired(m)'
      BY <1>1, <1>2, <1>3, <2>4, WireKeeps DEF world
    <2>14. \A q \in Procs \ {p} : inv'[q] = inv[q] /\ (Works(inv[q]) => inv[q].run \notin {r})
      BY <1>2, <1>5, <2>4, FreeRun
    <2>15. \A q \in Runs \ {r} : /\ record'[q] = record[q] /\ said'[q] = said[q] /\ given'[q] = given[q]
                                 /\ holder'[q] = holder[q] /\ holder[q] \notin {p}
      BY <1>3, <2>5, <2>12
    <2>16. \A q \in {p} : Fit(inv'[q]) /\ Placed(q)' /\ ("denied" \notin Trouble => inv'[q].ans # "denied")
      BY <2>3, <2>4, <2>7, <2>9
    <2>17. {p} \in SUBSET Procs /\ {r} \in SUBSET Runs
      BY <1>2
    <2>18. \A q \in {r} : /\ Content(q)' /\ Held(q)'
                          /\ said[q]["execute"] = "accepted_upstream" => said'[q]["execute"] = "accepted_upstream"
      BY <1>3, <2>10, <2>11
    <2> QED BY <2>6, <2>10, <2>13, <2>14, <2>15, <2>16, <2>17, <2>18, Local
  <1> QED BY <1>1, <1>4, <1>5 DEF OpenRun

LEMMA CommandFits ==
    ASSUME PathInv, NEW p \in Procs
    PROVE  /\ inv[p].cmd.body \in Bodies /\ inv[p].cmd.key \in Keys \cup {NoKey}
           /\ inv[p].cmd.broadcast => inv[p].cmd.verb = "create"
  <1>1. inv[p].cmd \in Commands \cup {NoCommand}
    BY Facts DEF Invocation
  <1>2. CASE inv[p].cmd \in Commands
    BY <1>2, MoneyAssumption
  <1>3. CASE inv[p].cmd = NoCommand
    BY <1>3, MoneyAssumption DEF NoCommand
  <1> QED BY <1>1, <1>2, <1>3

\* A run as it is minted.
LEMMA MintedContent ==
    ASSUME PathInv, NEW r \in Runs, record[r] = NoRecord, UNCHANGED said, record'[r] # NoRecord,
           given'[r].shape \in {{"simulate"}, {"execute"}, StepNames},
           \A s \in StepNames : record'[r][s].state = "not_started" /\ ~HasPlanToken(record'[r][s])
    PROVE  Content(r)'
  <1>1. Content(r)
    BY DEF PathInv
  <1>2. OnRecord(r)'
    BY Names DEF OnRecord
  <1> QED BY <1>1, <1>2 DEF Content

LEMMA MintKeeps ==
    ASSUME PathInv, NEW p \in Procs, NEW r \in Runs, NEW result \in SaveResults, Mint(p, r, result)
    PROVE  PathInv'
  <1>1. PICK i, c, first, steps, shape :
           /\ i = inv[p] /\ c = inv[p].cmd
           /\ first = IF c.verb = "execute" THEN "execute" ELSE "simulate"
           /\ steps = [s \in StepNames |-> NewStep(IF s = first THEN c.body ELSE NoBody)]
           /\ shape = IF c.broadcast THEN StepNames ELSE {first}
    OBVIOUS
  <1>2. i \in Invocation /\ i.pc = "minting" /\ i.left = {} /\ ~i.flag /\ i.ans = "none"
        /\ i.exit = "none" /\ c.verb # "resume" /\ i.cmd = c
    BY <1>1, Facts DEF Mint, At, Fit, Flagged, Early
  <1>3. c.body \in Bodies /\ c.key \in Keys \cup {NoKey} /\ (c.broadcast => c.verb = "create")
    BY <1>1, CommandFits
  <1>4. first \in StepNames /\ shape \in SUBSET StepNames /\ first \in shape
        /\ shape \in {{"simulate"}, {"execute"}, StepNames}
        /\ (shape = StepNames => first = "simulate")
    BY <1>1, <1>3, Names
  <1>5. steps \in Run /\ \A s \in StepNames : steps[s].state = "not_started" /\ ~HasPlanToken(steps[s])
    <2>1. \A s \in StepNames : LET body == IF s = first THEN c.body ELSE NoBody IN
             NewStep(body) \in Step /\ NewStep(body).state = "not_started" /\ ~HasPlanToken(NewStep(body))
      BY <1>3, NewFits
    <2> QED BY <1>1, <2>1 DEF Run
  <1>6. /\ record[r] = NoRecord /\ UNCHANGED <<said, world>> /\ Save(r, steps, result)
        /\ given' = IF result = "early" THEN given ELSE [given EXCEPT ![r] = [shape |-> shape, key |-> c.key]]
    BY <1>1 DEF Mint
  <1>7. trouble' \in 0 .. MaxTrouble
    BY <1>6, Facts, TroubleFits DEF Save, TypeOK, Troubles
  <1>8. record' = IF result = "early" THEN record ELSE [record EXCEPT ![r] = steps]
    BY <1>6 DEF Save
  <1>9. Shelf'
    BY <1>3, <1>4, <1>5, <1>6, <1>8, Facts DEF Shelf, TypeOK
  <1>10. holder[r] = NoProc /\ \A q \in Procs : Works(inv[q]) => inv[q].run # r
    BY <1>6, FreeRun
  <1>11. Steady
    BY <1>6, SteadySame DEF world
  <1>12. \A q \in Runs \ {r} : record'[q] = record[q] /\ given'[q] = given[q] /\ said'[q] = said[q]
    BY <1>6, <1>8, Facts DEF TypeOK
  <1>13. result # "early" => record'[r] = steps /\ given'[r] = [shape |-> shape, key |-> c.key]
    BY <1>6, <1>8, Facts DEF TypeOK
  <1>14. Content(r)'
    <2>1. CASE result = "early"
      BY <1>6, <1>8, <1>11, <2>1, Facts, ContentSame DEF PathInv
    <2>2. CASE result # "early"
      <3>1. record'[r] # NoRecord
        BY <1>5, <1>13, <2>2, Names
      <3>2. given'[r].shape = shape
        BY <1>13, <2>2
      <3> QED BY <1>4, <1>5, <1>6, <1>13, <2>2, <3>1, <3>2, MintedContent
    <2> QED BY <2>1, <2>2
  <1>15. \A q \in Runs : record[q] # NoRecord => record'[q] # NoRecord /\ given'[q] = given[q]
    BY <1>6, <1>12
  <1>16. CASE result # "ok"
    <2>1. Quit(p, "cli_fault") /\ "cli_fault" \in Classes
      BY <1>16 DEF Mint, Classes
    <2>2. \A q \in Runs : Content(q)'
      BY <1>11, <1>12, <1>14, Facts, ContentSame DEF PathInv
    <2>3. \A q \in Runs : holder[q] \notin {p, NoProc} =>
             record'[q] = record[q] /\ given'[q] = given[q] /\ said'[q] = said[q]
      BY <1>10, <1>12
    <2>4. Own(p)
      BY <1>6, <1>11, <2>2, <2>3 DEF Own
    <2> QED BY <1>1, <1>2, <1>6, <1>7, <1>9, <1>15, <2>1, <2>4, Quits
  <1>17. CASE result = "ok"
    <2>1. PICK next : next = [i EXCEPT !.run = r, !.step = first, !.implied = TRUE,
                                       !.pc = IF first = "execute" THEN "consent" ELSE "ready"]
      OBVIOUS
    <2>2. next \in Invocation
      <3>1. "consent" \in PCs /\ "ready" \in PCs
        BY DEF PCs
      <3> QED BY <1>2, <1>4, <2>1, <3>1 DEF Invocation
    <2>3. /\ next.pc = IF first = "execute" THEN "consent" ELSE "ready"
          /\ next.left = {} /\ ~next.flag /\ next.ans = "none" /\ next.exit = "none"
          /\ next.run = r /\ next.cmd = c /\ next.step = first
      BY <1>2, <2>1 DEF Invocation
    <2>4. inv' = [inv EXCEPT ![p] = next] /\ holder' = [holder EXCEPT ![r] = p]
      BY <1>1, <1>17, <2>1 DEF Mint, Go
    <2>5. inv'[p] = next /\ \A q \in Procs \ {p} : inv'[q] = inv[q]
      BY <2>4, Facts DEF TypeOK
    <2>6. holder'[r] = p /\ \A q \in Runs \ {r} : holder'[q] = holder[q]
      BY <2>4, Facts DEF TypeOK
    <2>7. TypeOK'
      BY <1>6, <1>7, <1>9, <2>2, <2>4, Facts DEF TypeOK, Shelf, world
    <2>8. Fit(next)
      BY <1>2, <2>3 DEF Fit, Flagged, Agreed, Early, AtStep, Gate, Sending
    <2>9. Works(next) /\ next.pc \in Gate
      BY <2>3 DEF Works, AtStep, Gate
    <2>10. record'[r] # NoRecord /\ given'[r].shape = shape
      BY <1>5, <1>13, <1>17, Names
    <2>11. Staged(next)'
      BY <1>1, <1>4, <2>3, <2>10 DEF Staged, Gate, Sending
    <2>12. Placed(p)'
      BY <2>3, <2>5, <2>6, <2>10, <2>11 DEF Placed
    <2>13. Held(r)'
      BY <2>3, <2>5, <2>6, <2>9 DEF Held
    <2>14. \A q \in Runs : holder[q] # p
      BY <1>1, <1>2, Names DEF PathInv, Held, Works, AtStep, Gate, Sending
    <2>15. \A m \in wire' : Wired(m)'
      BY <1>1, <1>2, <1>6, <1>15, <2>4, WireKeeps DEF world
    <2>16. \A q \in Procs \ {p} : inv'[q] = inv[q] /\ (Works(inv[q]) => inv[q].run \notin {r})
      BY <1>10, <2>5
    <2>17. \A q \in Runs \ {r} : /\ record'[q] = record[q] /\ said'[q] = said[q] /\ given'[q] = given[q]
                                 /\ holder'[q] = holder[q] /\ holder[q] \notin {p}
      BY <1>12, <2>6, <2>14
    <2>18. \A q \in {p} : Fit(inv'[q]) /\ Placed(q)' /\ ("denied" \notin Trouble => inv'[q].ans # "denied")
      BY <2>3, <2>5, <2>8, <2>12
    <2>19. {p} \in SUBSET Procs /\ {r} \in SUBSET Runs
      OBVIOUS
    <2>20. \A q \in {r} : /\ Content(q)' /\ Held(q)'
                          /\ said[q]["execute"] = "accepted_upstream" => said'[q]["execute"] = "accepted_upstream"
      BY <1>6, <1>14, <2>13
    <2> QED BY <1>11, <2>7, <2>15, <2>16, <2>17, <2>18, <2>19, <2>20, Local
  <1> QED BY <1>16, <1>17

-----------------------------------------------------------------------------
(* The wire and the server.                                                *)

LEMMA AttemptKeeps ==
    ASSUME PathInv, NEW p \in Procs, Attempt(p)
    PROVE  PathInv'
  <1>1. PICK i, r : i = inv[p] /\ r = inv[p].run
    OBVIOUS
  <1>2. i \in Invocation /\ i.pc = "sending" /\ i.step \in StepNames /\ Fit(i) /\ i.exit = "none"
        /\ Staged(i) /\ ("denied" \notin Trouble => i.ans # "denied")
    BY <1>1, Facts DEF Attempt, At, Fit, Flagged, Placed, AtStep, Sending, Invocation
  <1>3. Works(inv[p]) /\ r \in Runs /\ record[r] \in Run /\ holder[r] = p
    BY <1>1, <1>2, Facts DEF Works, AtStep, Sending
  <1>4. UNCHANGED <<record, given, said, holder, srv>>
    BY DEF Attempt, ledger
  <1>5. CASE /\ Fine /\ wire' = wire \cup {[to |-> p, run |-> i.run, step |-> i.step]}
             /\ Go(p, [i EXCEPT !.pc = "waiting", !.left = @ \cup {i.step}])
    <2>1. PICK next, left : left = i.left \cup {i.step} /\ next = [i EXCEPT !.pc = "waiting", !.left = left]
      OBVIOUS
    <2>2. left \in SUBSET StepNames
      BY <1>2, <2>1 DEF Invocation
    <2>3. next \in Invocation
      <3>1. "waiting" \in PCs
        BY DEF PCs
      <3> QED BY <1>2, <2>1, <2>2, <3>1 DEF Invocation
    <2>4. /\ next.pc = "waiting" /\ next.left = left /\ next.flag = i.flag /\ next.ans = i.ans /\ next.exit = i.exit
          /\ next.run = i.run /\ next.cmd = i.cmd /\ next.step = i.step /\ next.agreed = i.agreed
      BY <1>2, <2>1 DEF Invocation
    <2>5. [i EXCEPT !.pc = "waiting", !.left = @ \cup {i.step}] = next
      BY <1>2, <2>1 DEF Invocation
    <2>6. inv' = [inv EXCEPT ![p] = next] /\ inv'[p] = next /\ \A q \in Procs \ {p} : inv'[q] = inv[q]
      BY <1>5, <2>5, Facts DEF Go, TypeOK
    <2>7. Own(p) /\ Shelf'
      BY <1>4, SteadySame, LedgerSame
    <2>8. Beyond'
      <3>1. [to |-> p, run |-> i.run, step |-> i.step] \in [to : Procs \cup {NoProc}, run : Runs, step : StepNames]
        BY <1>1, <1>2, <1>3
      <3>2. wire \subseteq [to : Procs \cup {NoProc}, run : Runs, step : StepNames] /\ trouble' = trouble
        BY <1>5, Facts DEF TypeOK, Fine
      <3>3. wire' \subseteq [to : Procs \cup {NoProc}, run : Runs, step : StepNames]
        BY <1>5, <3>1, <3>2
      <3> QED BY <1>4, <3>2, <3>3, Facts DEF Beyond, TypeOK
    <2>9. Fit(next)
      BY <1>2, <2>1, <2>4 DEF Fit, Flagged, Agreed, Early, AtStep, Gate, Sending
    <2>10. Works(next)
      BY <2>4 DEF Works, AtStep, Sending
    <2>11. Staged(next)'
      BY <1>1, <1>2, <1>4, <2>4 DEF Staged, Gate, Sending
    <2>12. Placed(p)'
      BY <1>1, <1>2, <1>3, <1>4, <2>4, <2>6, <2>11, Names DEF Placed
    <2>13. ASSUME NEW m \in wire' PROVE Wired(m)'
      <3>1. CASE m \in wire
        <4>1. Wired(m)
          BY <3>1 DEF PathInv
        <4>2. m.to # p /\ m.to \in Procs \cup {NoProc}
          BY <1>1, <1>2, <3>1, <4>1, Names, Facts DEF Wired, TypeOK
        <4> QED BY <1>4, <2>6, <4>1, <4>2 DEF Wired
      <3>2. CASE m = [to |-> p, run |-> i.run, step |-> i.step]
        <4>1. m.to = p /\ m.run = r /\ m.step = i.step
          BY <1>1, <3>2
        <4>2. i.step \in given[r].shape
          BY <1>1, <1>2 DEF Staged
        <4> QED BY <1>1, <1>3, <1>4, <2>4, <2>6, <4>1, <4>2, Names DEF Wired
      <3> QED BY <1>5, <3>1, <3>2
    <2> QED BY <1>1, <1>2, <1>3, <1>4, <2>3, <2>4, <2>6, <2>7, <2>8, <2>9, <2>10, <2>12, <2>13, Stays
  <1>6. CASE /\ IF i.signal THEN Fine ELSE Befalls("dial")
             /\ Go(p, [i EXCEPT !.pc = "answered", !.ans = "dial"])
             /\ UNCHANGED wire
    <2>1. PICK next : next = [i EXCEPT !.pc = "answered", !.ans = "dial"]
      OBVIOUS
    <2>2. next \in Invocation
      <3>1. "answered" \in PCs /\ "dial" \in Answers
        BY DEF PCs, Answers
      <3> QED BY <1>2, <2>1, <3>1 DEF Invocation
    <2>3. /\ next.pc = "answered" /\ next.left = i.left /\ next.flag = i.flag /\ next.ans = "dial" /\ next.exit = i.exit
          /\ next.run = i.run /\ next.cmd = i.cmd /\ next.step = i.step /\ next.agreed = i.agreed
      BY <1>2, <2>1 DEF Invocation
    <2>4. trouble' \in 0 .. MaxTrouble
      BY <1>6, Facts, TroubleFits DEF TypeOK, Troubles
    <2>5. Go(p, next) /\ UNCHANGED <<ledger, world>>
      BY <1>4, <1>6, <2>1 DEF ledger, world
    <2>6. Fit(next)
      BY <1>2, <2>3 DEF Fit, Flagged, Agreed, Early, AtStep, Gate, Sending
    <2>7. Staged(next)
      BY <1>2, <2>3 DEF Staged, Gate, Sending
    <2>8. Works(next)
      BY <2>3 DEF Works, AtStep, Sending
    <2> QED BY <1>1, <1>2, <1>3, <2>2, <2>3, <2>4, <2>5, <2>6, <2>7, <2>8, Moves
  <1> QED BY <1>1, <1>5, <1>6 DEF Attempt

\* The invocation that waits gets an answer.
LEMMA Answered ==
    ASSUME PathInv, NEW p \in Procs, inv[p].pc = "waiting", NEW ans \in Answers \ {"none"},
           inv' = [inv EXCEPT ![p] = [inv[p] EXCEPT !.pc = "answered", !.ans = ans]],
           UNCHANGED ledger, Steady, Beyond', \A m \in wire' : Wired(m)',
           ans = "refused" => srv'[KeyOf(inv[p].run, inv[p].step)] = "refused",
           ans \in {"fresh", "replay"} => srv'[KeyOf(inv[p].run, inv[p].step)] = "done",
           "denied" \notin Trouble => ans # "denied"
    PROVE  PathInv'
  <1>1. PICK i, next : i = inv[p] /\ next = [i EXCEPT !.pc = "answered", !.ans = ans]
    OBVIOUS
  <1>2. i \in Invocation /\ i.pc = "waiting" /\ Fit(i) /\ i.exit = "none" /\ Staged(i) /\ i.step \in i.left
    BY <1>1, Facts DEF Fit, Flagged, Placed, AtStep, Sending
  <1>3. Works(inv[p]) /\ i.run \in Runs /\ record[i.run] \in Run /\ holder[i.run] = p
    BY <1>1, <1>2, Facts DEF Works, AtStep, Sending
  <1>4. next \in Invocation
    <2>1. "answered" \in PCs
      BY DEF PCs
    <2> QED BY <1>1, <1>2, <2>1 DEF Invocation
  <1>5. /\ next.pc = "answered" /\ next.left = i.left /\ next.flag = i.flag /\ next.ans = ans /\ next.exit = i.exit
        /\ next.run = i.run /\ next.cmd = i.cmd /\ next.step = i.step /\ next.agreed = i.agreed
    BY <1>1, <1>2 DEF Invocation
  <1>6. inv' = [inv EXCEPT ![p] = next] /\ inv'[p] = next
    BY <1>1, Facts DEF TypeOK
  <1>7. UNCHANGED <<record, given, said, holder>>
    BY DEF ledger
  <1>8. Own(p) /\ Shelf'
    BY <1>7, LedgerSame
  <1>9. Fit(next)
    BY <1>2, <1>5 DEF Fit, Flagged, Agreed, Early, AtStep, Gate, Sending
  <1>10. Works(next)
    BY <1>5 DEF Works, AtStep, Sending
  <1>11. Staged(next)'
    <2>1. KeyOf(next.run, next.step)' = KeyOf(inv[p].run, inv[p].step)
      BY <1>1, <1>5, <1>7 DEF KeyOf
    <2> QED BY <1>1, <1>2, <1>5, <1>7, <2>1 DEF Staged, Gate, Sending
  <1>12. Placed(p)'
    <2>1. next.run \in Runs /\ record'[next.run] # NoRecord /\ holder'[next.run] = p /\ next.exit = "none"
      BY <1>2, <1>3, <1>5, <1>7, Names
    <2> QED BY <1>6, <1>11, <2>1 DEF Placed
  <1> QED BY <1>1, <1>3, <1>4, <1>5, <1>6, <1>7, <1>8, <1>9, <1>10, <1>12, Stays

LEMMA GiveUpKeeps ==
    ASSUME PathInv, NEW p \in Procs, GiveUp(p)
    PROVE  PathInv'
  <1>1. inv[p].pc = "waiting" /\ UNCHANGED <<ledger, srv>> /\ "lost" \in Answers \ {"none"}
        /\ inv' = [inv EXCEPT ![p] = [inv[p] EXCEPT !.pc = "answered", !.ans = "lost"]]
    BY DEF GiveUp, At, Go, Answers
  <1>2. trouble' \in 0 .. MaxTrouble
    BY Facts, TroubleFits DEF GiveUp, TypeOK, Troubles
  <1>3. ASSUME NEW m \in wire'
        PROVE  /\ m \in [to : Procs \cup {NoProc}, run : Runs, step : StepNames] /\ m.to # p
               /\ \E n \in wire : m.run = n.run /\ m.step = n.step /\ m.to \in {n.to, NoProc}
    <2>1. wire \subseteq [to : Procs \cup {NoProc}, run : Runs, step : StepNames]
      BY Facts DEF TypeOK
    <2>2. CASE m \in wire \ {n \in wire : n.to = p}
      BY <2>1, <2>2
    <2>3. CASE m \in {[n EXCEPT !.to = NoProc] : n \in {n \in wire : n.to = p}}
      <3>1. PICK n \in wire : m = [n EXCEPT !.to = NoProc]
        BY <2>3
      <3>2. n \in [to : Procs \cup {NoProc}, run : Runs, step : StepNames]
        BY <2>1
      <3> QED BY <3>1, <3>2, Names
    <2> QED BY <2>2, <2>3 DEF GiveUp
  <1>4. Beyond'
    BY <1>1, <1>2, <1>3, Facts DEF Beyond, TypeOK
  <1>5. ASSUME NEW m \in wire' PROVE Wired(m)'
    <2>1. PICK n \in wire : m.run = n.run /\ m.step = n.step /\ m.to \in {n.to, NoProc}
      BY <1>3
    <2>2. Wired(n) /\ m.to # p /\ m.to \in Procs \cup {NoProc}
      BY <1>3 DEF PathInv
    <2>3. \A q \in Procs \ {p} : inv'[q] = inv[q]
      BY <1>1, Facts DEF TypeOK
    <2> QED BY <1>1, <2>1, <2>2, <2>3 DEF Wired, ledger
  <1>6. Steady
    BY <1>1, SteadySame
  <1> QED BY <1>1, <1>4, <1>5, <1>6, Answered

\* Nobody moves: the world does, or a sweep changes runs nobody holds.
LEMMA Sweeps ==
    ASSUME PathInv, UNCHANGED <<given, said, holder, inv>>, Steady, TypeOK',
           NEW own \in SUBSET Runs, \A r \in own : holder[r] = NoProc /\ Content(r)',
           \A r \in Runs \ own : record'[r] = record[r],
           \A m \in wire' : Wired(m)'
    PROVE  PathInv'
  <1>1. \A q \in Procs \ {} : inv'[q] = inv[q] /\ (Works(inv[q]) => inv[q].run \notin own)
    BY FreeRun
  <1>2. \A r \in Runs \ own : /\ record'[r] = record[r] /\ said'[r] = said[r] /\ given'[r] = given[r]
                              /\ holder'[r] = holder[r] /\ holder[r] \notin {}
    OBVIOUS
  <1>3. \A r \in own : /\ Content(r)' /\ Held(r)'
                       /\ said[r]["execute"] = "accepted_upstream" => said'[r]["execute"] = "accepted_upstream"
    BY DEF Held
  <1>4. {} \in SUBSET Procs
        /\ \A q \in {} : Fit(inv'[q]) /\ Placed(q)' /\ ("denied" \notin Trouble => inv'[q].ans # "denied")
    OBVIOUS
  <1> QED BY <1>1, <1>2, <1>3, <1>4, Local

LEMMA AnswerKeeps ==
    ASSUME PathInv, NEW m \in wire, NEW ans \in Answers \ {"none"}, Answer(m, ans),
           UNCHANGED ledger, Steady, trouble' \in 0 .. MaxTrouble,
           srv' \in [Keys \cup (Runs \X StepNames) -> {"none", "working", "done", "refused", "stuck"}],
           ans = "refused" => srv'[KeyOf(m.run, m.step)] = "refused",
           ans \in {"fresh", "replay"} => srv'[KeyOf(m.run, m.step)] = "done",
           "denied" \notin Trouble => ans # "denied"
    PROVE  PathInv'
  <1>1. wire \subseteq [to : Procs \cup {NoProc}, run : Runs, step : StepNames] /\ wire' = wire \ {m}
        /\ UNCHANGED <<record, given, said, holder>>
    BY Facts DEF Answer, ledger, PathInv, TypeOK
  <1>2. Beyond'
    BY <1>1 DEF Beyond
  <1>3. Wired(m) /\ m \in [to : Procs \cup {NoProc}, run : Runs, step : StepNames]
    BY <1>1 DEF PathInv
  <1>4. CASE m.to = NoProc
    <2>1. UNCHANGED inv
      BY <1>4 DEF Answer
    <2>2. TypeOK'
      BY <1>1, <1>2, <2>1 DEF Beyond, PathInv, TypeOK
    <2>3. \A n \in wire' : Wired(n)'
      BY <1>1, <2>1 DEF PathInv, Wired
    <2>4. {} \in SUBSET Runs /\ (\A r \in {} : holder[r] = NoProc /\ Content(r)')
          /\ \A r \in Runs \ {} : record'[r] = record[r]
      BY <1>1
    <2> QED BY <1>1, <2>1, <2>2, <2>3, <2>4, Sweeps
  <1>5. CASE m.to # NoProc
    <2>1. PICK p : p = m.to
      OBVIOUS
    <2>2. p \in Procs /\ inv[p].pc = "waiting" /\ inv[p].run = m.run /\ inv[p].step = m.step
      BY <1>3, <1>5, <2>1 DEF Wired
    <2>3. inv' = [inv EXCEPT ![p] = [inv[p] EXCEPT !.pc = "answered", !.ans = ans]]
      BY <1>5, <2>1, <2>2, Facts DEF Answer, TypeOK
    <2>4. ASSUME NEW n \in wire' PROVE Wired(n)'
      <3>1. n \in wire /\ n # m /\ Wired(n) /\ n \in [to : Procs \cup {NoProc}, run : Runs, step : StepNames]
        BY <1>1 DEF PathInv
      <3>2. n.to # p
        <4>1. n.to = p => n.run = m.run /\ n.step = m.step
          BY <1>5, <2>1, <2>2, <3>1 DEF Wired
        <4> QED BY <1>3, <2>1, <3>1, <4>1
      <3>3. \A q \in Procs \ {p} : inv'[q] = inv[q]
        BY <2>2, <2>3, Facts DEF TypeOK
      <3> QED BY <1>1, <3>1, <3>2, <3>3 DEF Wired
    <2> QED BY <1>2, <2>2, <2>3, <2>4, Answered
  <1> QED BY <1>4, <1>5

Holdings == {"none", "working", "done", "refused", "stuck"}

LEMMA EffectFits ==
    ASSUME NEW state \in Holdings, NEW effect \in Effects(state)
    PROVE  /\ effect[1] \in Holdings /\ effect[2] \in {"fresh", "accepted", "refused", "in_progress", "replay"}
           /\ state \in {"done", "refused", "stuck"} => effect[1] = state
           /\ effect[2] = "refused" => effect[1] = "refused"
           /\ effect[2] \in {"fresh", "replay"} => effect[1] = "done"
  <1>1. CASE state = "none"
    BY <1>1 DEF Effects, Holdings
  <1>2. CASE state \in {"working", "stuck"}
    BY <1>2 DEF Effects, Holdings
  <1>3. CASE state = "done"
    BY <1>3 DEF Effects, Holdings
  <1>4. CASE state = "refused"
    BY <1>4 DEF Effects, Holdings
  <1> QED BY <1>1, <1>2, <1>3, <1>4 DEF Holdings

LEMMA ServerTakesKeeps ==
    ASSUME PathInv, NEW m \in wire, ServerTakes(m)
    PROVE  PathInv'
  <1>1. srv \in [Keys \cup (Runs \X StepNames) -> Holdings] /\ m.run \in Runs /\ m.step \in StepNames
        /\ trouble \in 0 .. MaxTrouble /\ TypeOK
    BY DEF PathInv, TypeOK, Holdings
  <1>2. PICK k : k = KeyOf(m.run, m.step)
    OBVIOUS
  <1>3. k \in Keys \cup (Runs \X StepNames)
    BY <1>1, <1>2, KeyFits
  <1>4. PICK effect \in Effects(srv[k]) :
           /\ srv' = [srv EXCEPT ![k] = effect[1]]
           /\ \/ Answer(m, effect[2]) /\ Fine
              \/ m.to # NoProc /\ Answer(m, "lost") /\ Befalls("loss")
              \/ m.to # NoProc /\ Answer(m, "error") /\ Befalls("error")
    BY <1>2 DEF ServerTakes
  <1>5. /\ effect[1] \in Holdings /\ effect[2] \in {"fresh", "accepted", "refused", "in_progress", "replay"}
        /\ srv[k] \in {"done", "refused", "stuck"} => effect[1] = srv[k]
        /\ effect[2] = "refused" => effect[1] = "refused"
        /\ effect[2] \in {"fresh", "replay"} => effect[1] = "done"
    <2>1. srv[k] \in Holdings
      BY <1>1, <1>3
    <2> QED BY <2>1, EffectFits
  <1>6. srv' \in [Keys \cup (Runs \X StepNames) -> Holdings] /\ srv'[k] = effect[1]
    BY <1>1, <1>3, <1>4, <1>5
  <1>7. Steady
    BY <1>1, <1>3, <1>4, <1>5 DEF Steady
  <1>8. UNCHANGED ledger
    BY DEF ServerTakes
  <1>9. trouble' \in 0 .. MaxTrouble
    BY <1>1, <1>4, TroubleFits DEF Troubles
  <1>10. PICK ans : /\ Answer(m, ans) /\ ans \in {effect[2], "lost", "error"}
    BY <1>4
  <1>11. ans \in Answers \ {"none"} /\ ans # "denied"
         /\ (ans = "refused" => srv'[k] = "refused") /\ (ans \in {"fresh", "replay"} => srv'[k] = "done")
    BY <1>5, <1>6, <1>10 DEF Answers
  <1> QED BY <1>2, <1>6, <1>7, <1>8, <1>9, <1>10, <1>11, AnswerKeeps DEF Holdings

LEMMA ServerTurnsAwayKeeps ==
    ASSUME PathInv, NEW m \in wire, NEW ans \in {"busy", "error", "denied"}, ServerTurnsAway(m, ans)
    PROVE  PathInv'
  <1>1. UNCHANGED <<ledger, srv>> /\ Answer(m, ans) /\ ans \in Trouble
    BY DEF ServerTurnsAway, Befalls
  <1>2. trouble' \in 0 .. MaxTrouble
    BY TroubleFits DEF PathInv, TypeOK, Troubles, ServerTurnsAway
  <1>3. Steady /\ srv' \in [Keys \cup (Runs \X StepNames) -> {"none", "working", "done", "refused", "stuck"}]
    BY <1>1, SteadySame DEF PathInv, TypeOK
  <1>4. ans \in Answers \ {"none"} /\ ans \notin {"refused", "fresh", "replay"}
    BY DEF Answers
  <1> QED BY <1>1, <1>2, <1>3, <1>4, AnswerKeeps

LEMMA ServerWorksKeeps ==
    ASSUME PathInv, NEW k \in DOMAIN srv, NEW outcome \in {"done", "refused", "stuck"}, ServerWorks(k, outcome)
    PROVE  PathInv'
  <1>1. srv \in [Keys \cup (Runs \X StepNames) -> Holdings] /\ TypeOK
    BY DEF PathInv, TypeOK, Holdings
  <1>2. UNCHANGED <<record, given, said, holder, inv, wire>> /\ srv[k] = "working"
        /\ srv' = [srv EXCEPT ![k] = outcome]
    BY DEF ServerWorks, ledger
  <1>3. trouble' \in 0 .. MaxTrouble
    BY <1>1, TroubleFits DEF TypeOK, Troubles, ServerWorks
  <1>4. Steady
    BY <1>1, <1>2 DEF Steady
  <1>5. srv' \in [Keys \cup (Runs \X StepNames) -> Holdings]
    BY <1>1, <1>2 DEF Holdings
  <1>6. TypeOK'
    BY <1>1, <1>2, <1>3, <1>5 DEF TypeOK, Holdings
  <1>7. \A m \in wire' : Wired(m)'
    BY <1>2 DEF PathInv, Wired
  <1>8. {} \in SUBSET Runs /\ (\A r \in {} : holder[r] = NoProc /\ Content(r)')
        /\ \A r \in Runs \ {} : record'[r] = record[r]
    BY <1>2
  <1> QED BY <1>2, <1>4, <1>6, <1>7, <1>8, Sweeps

LEMMA RunsDeclineKeeps ==
    ASSUME PathInv, NEW r \in Runs, RunsDecline(r)
    PROVE  PathInv'
  <1>1. TypeOK /\ Content(r) /\ record[r] # NoRecord /\ record[r] \in Run /\ OnRecord(r)
    BY DEF PathInv, RunsDecline, TypeOK, Content
  <1>2. PICK step : step = Declined(record[r]["execute"])
    OBVIOUS
  <1>3. step \in Step /\ step.state = "declined" /\ ~HasPlanToken(step)
    BY <1>1, <1>2, Names, ChangesFit DEF Run
  <1>4. PICK steps : steps = [record[r] EXCEPT !["execute"] = step]
    OBVIOUS
  <1>5. steps \in Run /\ steps["execute"] = step /\ \A t \in StepNames \ {"execute"} : steps[t] = record[r][t]
    BY <1>1, <1>3, <1>4, Names DEF Run
  <1>6. record' = [record EXCEPT ![r] = steps]
    BY <1>1, <1>2, <1>4 DEF RunsDecline, TypeOK
  <1>7. record' \in [Runs -> Run \cup {NoRecord}] /\ record'[r] = steps /\ \A q \in Runs \ {r} : record'[q] = record[q]
    BY <1>1, <1>5, <1>6 DEF TypeOK
  <1>8. UNCHANGED <<given, said, holder, inv, wire, srv>> /\ holder[r] = NoProc /\ "execute" \in given[r].shape
        /\ record[r]["execute"].state \in {"not_started", "awaiting_confirmation"}
    BY DEF RunsDecline, world
  <1>9. trouble' \in 0 .. MaxTrouble
    BY <1>1, TroubleFits DEF TypeOK, Troubles, RunsDecline
  <1>10. TypeOK' /\ Steady
    BY <1>1, <1>7, <1>8, <1>9, SteadySame DEF TypeOK
  <1>11. Content(r)'
    BY <1>1, <1>3, <1>5, <1>7, <1>8, <1>10, Names, ContentStep DEF Dirty
  <1>12. \A m \in wire' : Wired(m)'
    BY <1>5, <1>7, <1>8, Names DEF PathInv, Wired, TypeOK
  <1>13. {r} \in SUBSET Runs /\ (\A q \in {r} : holder[q] = NoProc /\ Content(q)')
         /\ \A q \in Runs \ {r} : record'[q] = record[q]
    BY <1>7, <1>8, <1>11
  <1> QED BY <1>8, <1>10, <1>12, <1>13, Sweeps

LEMMA RunsScrubKeeps ==
    ASSUME PathInv, NEW r \in Runs, RunsScrub(r)
    PROVE  PathInv'
  <1>1. TypeOK /\ Content(r) /\ record[r] # NoRecord /\ record[r] \in Run /\ OnRecord(r)
    BY DEF PathInv, RunsScrub, TypeOK, Content
  <1>2. PICK steps : steps = ScrubRun(record[r], TRUE)
    OBVIOUS
  <1>3. steps = [s \in StepNames |-> Scrub(record[r][s])]
    BY <1>2 DEF ScrubRun
  <1>4. \A s \in StepNames : steps[s] \in Step /\ steps[s].state = record[r][s].state /\ ~HasPlanToken(steps[s])
    BY <1>1, <1>3, ChangesFit DEF Run
  <1>5. steps \in Run
    BY <1>3, <1>4 DEF Run
  <1>6. record' \in [Runs -> Run \cup {NoRecord}] /\ record'[r] = steps /\ \A q \in Runs \ {r} : record'[q] = record[q]
    BY <1>1, <1>2, <1>5 DEF RunsScrub, TypeOK
  <1>7. UNCHANGED <<given, said, holder, inv, wire, srv>> /\ holder[r] = NoProc
    BY DEF RunsScrub, world
  <1>8. trouble' \in 0 .. MaxTrouble
    BY <1>1, TroubleFits DEF TypeOK, Troubles, RunsScrub
  <1>9. TypeOK'
    BY <1>1, <1>6, <1>7, <1>8 DEF TypeOK
  <1>10. Steady
    BY <1>7, SteadySame
  <1>11. Content(r)'
    <2>1. OnRecord(r)'
      <3>1. ASSUME True(r) PROVE True(r)'
        <4>1. KeyOf(r, "execute")' = KeyOf(r, "execute")
          BY <1>7 DEF KeyOf
        <4> QED BY <1>7, <3>1, <4>1 DEF True
      <3> QED BY <1>1, <1>4, <1>6, <1>7, <3>1, Names DEF OnRecord
    <2>2. record'[r] # NoRecord
      BY <1>5, <1>6, Names
    <2> QED BY <1>1, <1>4, <1>6, <1>7, <2>1, <2>2, Names DEF Content
  <1>12. \A m \in wire' : Wired(m)'
    BY <1>5, <1>6, <1>7, Names DEF PathInv, Wired, TypeOK
  <1>13. {r} \in SUBSET Runs /\ (\A q \in {r} : holder[q] = NoProc /\ Content(q)')
         /\ \A q \in Runs \ {r} : record'[q] = record[q]
    BY <1>6, <1>7, <1>11
  <1> QED BY <1>7, <1>9, <1>10, <1>12, <1>13, Sweeps

-----------------------------------------------------------------------------
(* The invariant holds.                                                    *)

LEMMA StartsWell ==
    ASSUME Init
    PROVE  PathInv
  <1>1. TypeOK
    <2>1. "none" \in Classes /\ {} \in SUBSET StepNames /\ NoKey \in Keys \cup {NoKey} /\ 0 \in 0 .. MaxTrouble
      BY MoneyAssumption DEF Classes
    <2> QED BY <2>1, IdleFits DEF Init, TypeOK
  <1>2. ASSUME NEW p \in Procs PROVE Fit(inv[p]) /\ Placed(p) /\ ~Works(inv[p]) /\ inv[p].ans # "denied"
    <2>1. inv[p] = Idle
      BY DEF Init
    <2>2. Fit(inv[p])
      BY <2>1, IdleFits DEF Fit, Flagged, Agreed, Early, AtStep, Gate, Sending
    <2>3. ~Works(inv[p]) /\ inv[p].pc \notin AtStep
      BY <2>1, IdleFits DEF Works, AtStep, Gate, Sending
    <2> QED BY <2>1, <2>2, <2>3, IdleFits DEF Placed
  <1>3. \A r \in Runs : Content(r) /\ Held(r)
    BY Names DEF Init, Content, Held
  <1> QED BY <1>1, <1>2, <1>3 DEF Init, PathInv

LEMMA StutterKeeps ==
    ASSUME PathInv, UNCHANGED vars
    PROVE  PathInv'
  <1>1. UNCHANGED <<record, given, said, holder, inv, wire, srv, trouble>>
    BY DEF vars, ledger, world
  <1>2. TypeOK' /\ Steady
    BY <1>1, SteadySame DEF PathInv, TypeOK
  <1>3. {} \in SUBSET Runs /\ (\A r \in {} : holder[r] = NoProc /\ Content(r)')
        /\ \A r \in Runs \ {} : record'[r] = record[r]
    BY <1>1
  <1>4. \A m \in wire' : Wired(m)'
    BY <1>1 DEF PathInv, Wired
  <1> QED BY <1>1, <1>2, <1>3, <1>4, Sweeps

LEMMA WorkKeeps ==
    ASSUME PathInv, NEW p \in Procs, Work(p)
    PROVE  PathInv'
  <1>1. ASSUME NEW result \in SaveResults, NEW r \in Runs, Mint(p, r, result) PROVE PathInv'
    BY <1>1, MintKeeps
  <1>2. ASSUME NEW result \in SaveResults,
               \/ Consent(p, result) \/ AnswerNo(p, result) \/ Begin(p, result)
               \/ RecordAnswer(p, result) \/ CloseExecute(p, result) \/ Poll(p, result)
               \/ Broadcast(p, result) \/ BroadcastWithoutPlan(p, result)
        PROVE  PathInv'
    BY <1>2, ConsentKeeps, AnswerNoKeeps, BeginKeeps, RecordAnswerKeeps, CloseExecuteKeeps, PollKeeps,
       BroadcastKeeps, BroadcastWithoutPlanKeeps
  <1>3. CASE \/ Route(p) \/ OpenRun(p) \/ OrphanCheck(p) \/ Resume(p)
             \/ AnswerYes(p) \/ MarkSent(p) \/ Attempt(p) \/ Retry(p) \/ Settle(p) \/ Report(p)
    BY <1>3, RouteKeeps, OpenRunKeeps, OrphanCheckKeeps, ResumeKeeps, AnswerYesKeeps, MarkSentKeeps,
       AttemptKeeps, RetryKeeps, SettleKeeps, ReportKeeps
  <1> QED BY <1>1, <1>2, <1>3 DEF Work

LEMMA PathKeeps ==
    ASSUME PathInv, [Next]_vars
    PROVE  PathInv'
  <1>1. ASSUME NEW p \in Procs, NEW c \in Commands, NEW r \in Runs \cup {NoRun}, Start(p, c, r) PROVE PathInv'
    BY <1>1, StartKeeps
  <1>2. ASSUME NEW p \in Procs, Work(p) \/ GiveUp(p) \/ Crash(p) \/ Interrupt(p) PROVE PathInv'
    BY <1>2, WorkKeeps, GiveUpKeeps, CrashKeeps, InterruptKeeps
  <1>3. CASE ServerStep
    BY <1>3, ServerTakesKeeps, ServerTurnsAwayKeeps, ServerWorksKeeps DEF ServerStep
  <1>4. ASSUME NEW r \in Runs, RunsDecline(r) \/ RunsScrub(r) PROVE PathInv'
    BY <1>4, RunsDeclineKeeps, RunsScrubKeeps
  <1>5. CASE UNCHANGED vars
    BY <1>5, StutterKeeps
  <1> QED BY <1>1, <1>2, <1>3, <1>4, <1>5 DEF Next

\* The invariant of the money path: what an invocation knows of itself, what
\* the record of its run says of the step it is at, what a settled execute
\* says of the server, who holds a lock, and what is under way (money.go,
\* resume.go, broadcast.go).
THEOREM MoneyPathCorrect == Spec => []PathInv
  <1>1. Init => PathInv
    BY StartsWell
  <1>2. PathInv /\ [Next]_vars => PathInv'
    BY PathKeeps
  <1> QED BY <1>1, <1>2, PTL DEF Spec

\* The state of the money path is well typed.
THEOREM MoneyPathTyped == Spec => []TypeOK
  <1>1. PathInv => TypeOK
    BY DEF PathInv
  <1> QED BY <1>1, MoneyPathCorrect, PTL

\* Exit 1 and exit 2 tell the truth: an invocation that ends with one put no
\* request on the wire (the in-flight flag of money.go, C17).
THEOREM ExitOneIsTrue == Spec => []NothingSentIsTrue
  <1>1. PathInv => NothingSentIsTrue
    BY DEF PathInv, Fit, Flagged, NothingSentIsTrue, At
  <1> QED BY <1>1, MoneyPathCorrect, PTL

\* Exit 0 of a transfer tells the truth: the server made the transfer and the
\* record of the run says so, with any trouble and any number of invocations.
THEOREM ExitZeroIsTrue == Spec => []SuccessIsTrue
  <1>1. ASSUME PathInv, NEW p \in Procs, At(p, "idle"), inv[p].exit = "accepted_upstream", NEW r, r = inv[p].run
        PROVE  /\ srv[KeyOf(r, "execute")] = "done"
               /\ record[r]["execute"].state = "terminal"
               /\ said[r]["execute"] = "accepted_upstream"
    <2>1. r \in Runs /\ said[r]["execute"] = "accepted_upstream"
      BY <1>1 DEF PathInv, Placed
    <2>2. record[r]["execute"].state = "terminal" /\ OnRecord(r)
      BY <1>1, <2>1 DEF PathInv, Content
    <2>3. srv[KeyOf(r, "execute")] = "done"
      BY <2>1, <2>2 DEF OnRecord, True
    <2> QED BY <2>1, <2>2, <2>3
  <1>2. PathInv => SuccessIsTrue
    BY <1>1 DEF SuccessIsTrue
  <1> QED BY <1>2, MoneyPathCorrect, PTL

\* A record that settled an execute as "no money moved" is right about the
\* server, when the server looks a key up before it refuses a request (C3).
THEOREM SettledNo ==
    ASSUME "denied" \notin Trouble
    PROVE  Spec => []SettledNoIsTrue
  <1>1. ASSUME PathInv, NEW r \in Runs, record[r] # NoRecord, record[r]["execute"].state = "terminal",
               said[r]["execute"] \in MoneyNo
        PROVE  ~Transferred(r)
    <2>1. True(r)
      BY <1>1 DEF PathInv, Content, OnRecord
    <2>2. srv[KeyOf(r, "execute")] = "refused"
      BY <1>1, <2>1 DEF True, MoneyNo
    <2> QED BY <2>2 DEF Transferred
  <1>2. PathInv => SettledNoIsTrue
    BY <1>1 DEF SettledNoIsTrue
  <1> QED BY <1>2, MoneyPathCorrect, PTL

-----------------------------------------------------------------------------
(* What an invocation puts on the wire.                                    *)

\* An invocation sends the step it is at, from the place where it sends.
Sends ==
    \A p \in Procs : \/ inv'[p].left \subseteq inv[p].left
                     \/ inv[p].pc = "sending" /\ inv'[p].left = inv[p].left \cup {inv[p].step}

LEMMA GoSends ==
    ASSUME TypeOK, NEW p \in Procs, NEW next, Go(p, next),
           \/ next.left \subseteq inv[p].left
           \/ inv[p].pc = "sending" /\ next.left = inv[p].left \cup {inv[p].step}
    PROVE  Sends
  BY DEF TypeOK, Go, Sends

LEMMA EndedSends ==
    ASSUME TypeOK, NEW p \in Procs, NEW class, Ended(p, class)
    PROVE  Sends
  <1>1. PICK next : next = [Idle EXCEPT !.exit = class, !.run = inv[p].run, !.left = inv[p].left]
    OBVIOUS
  <1>2. next.left = inv[p].left /\ Go(p, next)
    BY <1>1 DEF Idle, Ended
  <1> QED BY <1>2, GoSends

LEMMA QuitSends ==
    ASSUME TypeOK, NEW p \in Procs, NEW class, Quit(p, class)
    PROVE  Sends
  BY EndedSends DEF Quit

LEMMA SavedSends ==
    ASSUME TypeOK, NEW p \in Procs, NEW next, NEW result, GoIfSaved(p, next, result), next.left \subseteq inv[p].left
    PROVE  Sends
  BY GoSends, QuitSends DEF GoIfSaved

LEMMA WorkSends ==
    ASSUME TypeOK, NEW p \in Procs, Work(p) \/ GiveUp(p) \/ Crash(p) \/ Interrupt(p)
    PROVE  Sends
  <1>1. PICK i : i = inv[p] /\ i \in Invocation
    BY DEF TypeOK
  <1>2. CASE Route(p)
    BY <1>1, <1>2, GoSends, QuitSends DEF Route, Invocation
  <1>3. CASE OpenRun(p)
    BY <1>1, <1>3, GoSends, QuitSends DEF OpenRun, Invocation
  <1>4. CASE OrphanCheck(p)
    BY <1>1, <1>4, GoSends, QuitSends DEF OrphanCheck, Invocation
  <1>5. CASE Resume(p)
    <2>1. \A s : PickStep(p, s).left = inv[p].left
      BY <1>1 DEF PickStep, Invocation
    <2> QED BY <1>5, <2>1, GoSends, QuitSends DEF Resume
  <1>6. CASE AnswerYes(p)
    BY <1>1, <1>6, GoSends DEF AnswerYes, Invocation
  <1>7. CASE MarkSent(p)
    BY <1>1, <1>7, GoSends DEF MarkSent, Invocation
  <1>8. CASE Attempt(p)
    <2>1. PICK next : /\ next = [i EXCEPT !.pc = "waiting", !.left = @ \cup {i.step}]
      OBVIOUS
    <2>2. next.left = i.left \cup {i.step}
      BY <1>1, <2>1 DEF Invocation
    <2>3. CASE Go(p, next)
      BY <1>1, <1>8, <2>2, <2>3, GoSends DEF Attempt, At
    <2>4. CASE Go(p, [i EXCEPT !.pc = "answered", !.ans = "dial"])
      BY <1>1, <2>4, GoSends DEF Invocation
    <2> QED BY <1>1, <1>8, <2>1, <2>3, <2>4 DEF Attempt
  <1>9. CASE Retry(p)
    BY <1>1, <1>9, GoSends DEF Retry, Invocation
  <1>10. CASE Settle(p)
    BY <1>1, <1>10, GoSends DEF Settle, Invocation
  <1>11. CASE Report(p)
    BY <1>11, EndedSends, QuitSends DEF Report
  <1>12. CASE GiveUp(p)
    BY <1>1, <1>12, GoSends DEF GiveUp, Invocation
  <1>13. CASE Crash(p)
    BY <1>13, EndedSends DEF Crash
  <1>14. CASE Interrupt(p)
    BY <1>1, <1>14, GoSends DEF Interrupt, Invocation
  <1>15. ASSUME NEW result \in SaveResults,
                \/ \E r \in Runs : Mint(p, r, result)
                \/ Consent(p, result) \/ AnswerNo(p, result) \/ Begin(p, result)
                \/ RecordAnswer(p, result) \/ CloseExecute(p, result) \/ Poll(p, result)
                \/ Broadcast(p, result) \/ BroadcastWithoutPlan(p, result)
         PROVE  Sends
    <2>1. ASSUME NEW r \in Runs, Mint(p, r, result) PROVE Sends
      <3>1. PICK next, first : next = [inv[p] EXCEPT !.run = r, !.step = first, !.implied = TRUE,
                                         !.pc = IF first = "execute" THEN "consent" ELSE "ready"]
                               /\ (Go(p, next) \/ Quit(p, "cli_fault"))
        BY <2>1 DEF Mint
      <3>2. next.left = inv[p].left
        BY <1>1, <3>1 DEF Invocation
      <3> QED BY <3>1, <3>2, GoSends, QuitSends
    <2>2. CASE Consent(p, result)
      BY <1>1, <2>2, GoSends, QuitSends, SavedSends DEF Consent, Invocation
    <2>3. CASE AnswerNo(p, result)
      BY <2>3, QuitSends DEF AnswerNo
    <2>4. CASE Begin(p, result)
      BY <1>1, <2>4, QuitSends, SavedSends DEF Begin, Invocation
    <2>5. CASE RecordAnswer(p, result)
      BY <1>1, <2>5, QuitSends, SavedSends DEF RecordAnswer, Invocation
    <2>6. CASE CloseExecute(p, result)
      BY <1>1, <2>6, SavedSends DEF CloseExecute, Invocation
    <2>7. CASE Poll(p, result)
      BY <1>1, <2>7, GoSends, QuitSends, SavedSends DEF Poll, Invocation
    <2>8. CASE Broadcast(p, result)
      BY <1>1, <2>8, QuitSends, SavedSends DEF Broadcast, Invocation
    <2>9. CASE BroadcastWithoutPlan(p, result)
      BY <1>1, <2>9, GoSends DEF BroadcastWithoutPlan, Invocation
    <2> QED BY <1>15, <2>1, <2>2, <2>3, <2>4, <2>5, <2>6, <2>7, <2>8, <2>9
  <1> QED BY <1>2, <1>3, <1>4, <1>5, <1>6, <1>7, <1>8, <1>9, <1>10, <1>11, <1>12, <1>13, <1>14, <1>15 DEF Work

LEMMA NextSends ==
    ASSUME PathInv, [Next]_vars
    PROVE  Sends
  <1>1. TypeOK
    BY DEF PathInv
  <1>2. ASSUME NEW p \in Procs, NEW c \in Commands, NEW r \in Runs \cup {NoRun}, Start(p, c, r) PROVE Sends
    <2>1. [Idle EXCEPT !.pc = "routing", !.cmd = c].left = {}
          /\ [Idle EXCEPT !.pc = "opening", !.cmd = c, !.run = r].left = {}
      BY DEF Idle
    <2> QED BY <1>1, <1>2, <2>1, GoSends DEF Start
  <1>3. ASSUME NEW p \in Procs, Work(p) \/ GiveUp(p) \/ Crash(p) \/ Interrupt(p) PROVE Sends
    BY <1>1, <1>3, WorkSends
  <1>4. CASE UNCHANGED inv
    BY <1>4 DEF Sends
  <1>5. ASSUME NEW m \in wire, NEW ans, Answer(m, ans) PROVE Sends
    <2>1. CASE m.to = NoProc
      BY <1>4, <1>5, <2>1 DEF Answer
    <2>2. CASE m.to # NoProc
      <3>1. m.to \in Procs
        BY <2>2, <1>1 DEF TypeOK
      <3>2. \A p \in Procs : inv'[p].left = inv[p].left
        BY <1>1, <1>5, <2>2, <3>1 DEF Answer, TypeOK, Invocation
      <3> QED BY <3>2 DEF Sends
    <2> QED BY <2>1, <2>2
  <1>6. CASE ServerStep
    BY <1>4, <1>5, <1>6 DEF ServerStep, ServerTakes, ServerTurnsAway, ServerWorks
  <1>7. ASSUME NEW r \in Runs, RunsDecline(r) \/ RunsScrub(r) PROVE Sends
    BY <1>4, <1>7 DEF RunsDecline, RunsScrub
  <1>8. CASE UNCHANGED vars
    BY <1>4, <1>8 DEF vars
  <1> QED BY <1>2, <1>3, <1>6, <1>7, <1>8 DEF Next

\* The consent of an earlier invocation, a stored plan and a stored state send
\* nothing: the execute a resume found leaves with --yes or an answer at this
\* terminal (the gate of perform and of resume.go, C16).
THEOREM ResumeNeedsConsent == Spec => StoredStateIsNotConsent
  <1>1. ASSUME PathInv, Sends, NEW p \in Procs,
               "execute" \notin inv[p].left, "execute" \in inv'[p].left,
               inv[p].cmd.verb = "resume", "simulate" \notin inv[p].left
        PROVE  inv[p].cmd.yes \/ inv[p].agreed
    <2>1. inv[p].pc = "sending" /\ inv[p].step = "execute"
      BY <1>1 DEF Sends
    <2> QED BY <1>1, <2>1 DEF PathInv, Fit, Agreed
  <1>2. PathInv /\ [Next]_vars =>
           [\A p \in Procs :
              ("execute" \notin inv[p].left /\ "execute" \in inv'[p].left
               /\ inv[p].cmd.verb = "resume" /\ "simulate" \notin inv[p].left) =>
                  inv[p].cmd.yes \/ inv[p].agreed]_vars
    BY <1>1, NextSends
  <1> QED BY <1>2, MoneyPathCorrect, PTL DEF Spec, StoredStateIsNotConsent

-----------------------------------------------------------------------------
(* One caller at a time, who does not pass --broadcast and passes          *)
(* --allow-pending to no execute.                                          *)

Cautious == \A c \in Commands : ~c.broadcast /\ (c.verb = "execute" => ~c.allow)

ExecOpen(r) == record[r] # NoRecord /\ Unresolved(record[r]["execute"])

\* An invocation on its way to mint a run has found no run under its key.
LookedUp(p) ==
    inv[p].pc = "minting" \/ (inv[p].pc = "checking" /\ inv[p].run = NoRun) => Matches(inv[p].cmd.key) = {}

\* An invocation that has passed the orphan check, or the gate, is alone.
Alone(p) ==
    LET i == inv[p] IN
    /\ i.pc \in AtStep /\ i.step = "execute" => \A r \in Runs \ {i.run} : ~ExecOpen(r)
    /\ i.pc = "minting" /\ i.cmd.verb = "execute" => \A r \in Runs : ~ExecOpen(r)

\* What is under way to the server, or with it, the record may have sent.
Backed(r) ==
    "execute" \in given[r].shape
    /\ ((\E m \in wire : m.run = r /\ m.step = "execute") \/ srv[KeyOf(r, "execute")] # "none")
        => MayHaveSent(record[r]["execute"].state)

\* A key the server holds something under is a key of a run on record.
Served(k) ==
    srv[k] # "none" => \E r \in Runs, s \in StepNames :
                          record[r] # NoRecord /\ s \in given[r].shape /\ KeyOf(r, s) = k

KeyInv == PathInv /\ OneRunPerKey /\ \A p \in Procs : LookedUp(p)

DarkInv ==
    /\ KeyInv
    /\ \A r \in Runs : given[r].shape # StepNames /\ Backed(r)
    /\ \A r \in Runs : given[r].shape # {} => record[r] # NoRecord
    /\ \A r \in Runs : record[r] # NoRecord /\ record[r]["execute"].state = "answered" =>
                          record[r]["execute"].outcome = "resumable"
    /\ \A k \in Keys \cup (Runs \X StepNames) : Served(k)
    /\ \A q, r \in Runs : ExecOpen(q) /\ ExecOpen(r) => q = r
    /\ \A p \in Procs : Alone(p)

\* What a step of the only process p makes of the execute step of run r.
Changed(p, r, old, new) ==
    LET i == inv[p] IN
    \/ new.state = old.state /\ new.outcome = old.outcome
    \/ new.state = "declined" /\ ~MayHaveSent(old.state)
    \/ new.state = "unreachable" /\ given[r].shape = StepNames
    \/ /\ i.pc \in AtStep /\ i.step = "execute" /\ i.run = r
       /\ \/ new.state = "awaiting_confirmation" /\ ~MayHaveSent(old.state)
          \/ new.state \in {"pending", "terminal"}
          \/ new.state = "answered" /\ new.outcome = "resumable"

Turned(p) ==
    \A r \in Runs :
        /\ given'[r] = given[r] /\ (record'[r] = NoRecord <=> record[r] = NoRecord)
        /\ record[r] # NoRecord => Changed(p, r, record[r]["execute"], record'[r]["execute"])

\* Where p comes from when it is on its way to mint a run, or at an execute.
Walk(p) ==
    LET i == inv[p]
        j == inv'[p]
    IN  /\ j.pc = "checking" /\ j.run = NoRun =>
              j.cmd = i.cmd /\ \/ i.pc = "checking" /\ i.run = NoRun
                               \/ Matches(i.cmd.key) = {}
        /\ j.pc = "minting" =>
              j.cmd = i.cmd /\ \/ i.pc = "minting"
                               \/ /\ i.pc = "checking" /\ i.run = NoRun
                                  /\ Orphans(p) = {} \/ i.cmd.allow
        /\ j.pc \in AtStep /\ j.step = "execute" =>
              j.run = i.run /\ \/ i.pc \in AtStep /\ i.step = "execute"
                               \/ i.pc = "resuming" /\ Resumable(i.run, "execute")
                               \/ i.pc \in AtStep /\ given[i.run].shape = StepNames

\* Where the requests under way, and what the server holds, come from.
Flow(p) ==
    /\ \A m \in wire' : \/ \E n \in wire : n.run = m.run /\ n.step = m.step
                        \/ inv[p].pc = "sending" /\ m.run = inv[p].run /\ m.step = inv[p].step
    /\ \A k \in Keys \cup (Runs \X StepNames) :
          srv'[k] # "none" => srv[k] # "none" \/ \E m \in wire : KeyOf(m.run, m.step) = k

Stride(p) == Turned(p) /\ Walk(p) /\ Flow(p)

LEMMA TurnedSame ==
    ASSUME NEW p \in Procs, UNCHANGED <<record, given>>
    PROVE  Turned(p)
  BY DEF Turned, Changed

LEMMA TurnedSave ==
    ASSUME PathInv, NEW p \in Procs, Works(inv[p]), NEW r, r = inv[p].run,
           NEW s \in StepNames, NEW step \in Step, NEW result \in SaveResults,
           SaveStep(r, s, step, result), UNCHANGED given,
           s = "execute" => Changed(p, r, record[r]["execute"], step)
    PROVE  Turned(p)
  <1>1. r \in Runs /\ record[r] # NoRecord /\ TypeOK
    BY Facts, Names
  <1>2. /\ \A q \in Runs \ {r} : record'[q] = record[q]
        /\ record'[r] # NoRecord
        /\ result = "early" => record' = record
        /\ result # "early" =>
              record'[r][s] = step /\ \A t \in StepNames \ {s} : record'[r][t] = record[r][t]
    BY <1>1, SaveFits DEF TypeOK
  <1>3. ASSUME NEW q \in Runs, record[q] # NoRecord
        PROVE  Changed(p, q, record[q]["execute"], record'[q]["execute"])
    <2>1. CASE q # r \/ result = "early" \/ s # "execute"
      <3>1. record'[q]["execute"] = record[q]["execute"]
        BY <1>2, <2>1, Names
      <3> QED BY <3>1 DEF Changed
    <2>2. CASE q = r /\ result # "early" /\ s = "execute"
      <3>1. record'[q]["execute"] = step
        BY <1>2, <2>2
      <3> QED BY <2>2, <3>1
    <2> QED BY <2>1, <2>2
  <1> QED BY <1>1, <1>2, <1>3 DEF Turned

LEMMA WalkEnds ==
    ASSUME TypeOK, NEW p \in Procs, NEW class, Ended(p, class)
    PROVE  Walk(p)
  <1>1. PICK next : next = [Idle EXCEPT !.exit = class, !.run = inv[p].run, !.left = inv[p].left]
    OBVIOUS
  <1>2. next.pc = "idle" /\ inv'[p] = next
    BY <1>1 DEF Idle, Ended, Go, TypeOK
  <1> QED BY <1>2 DEF Walk, AtStep, Gate, Sending

LEMMA WalkQuits ==
    ASSUME TypeOK, NEW p \in Procs, NEW class, Quit(p, class)
    PROVE  Walk(p)
  BY WalkEnds DEF Quit

LEMMA WalkGoes ==
    ASSUME TypeOK, NEW p \in Procs, NEW next, Go(p, next), next.pc \notin {"checking", "minting"},
           next.pc \in AtStep /\ next.step = "execute" =>
               inv[p].pc \in AtStep /\ inv[p].step = "execute" /\ next.run = inv[p].run
    PROVE  Walk(p)
  <1>1. inv'[p] = next
    BY DEF Go, TypeOK
  <1> QED BY <1>1 DEF Walk

LEMMA WalkSaves ==
    ASSUME TypeOK, NEW p \in Procs, NEW next, NEW result, GoIfSaved(p, next, result),
           next.pc \notin {"checking", "minting"},
           next.pc \in AtStep /\ next.step = "execute" =>
               inv[p].pc \in AtStep /\ inv[p].step = "execute" /\ next.run = inv[p].run
    PROVE  Walk(p)
  BY WalkQuits, WalkGoes DEF GoIfSaved

LEMMA FlowSame ==
    ASSUME NEW p \in Procs, UNCHANGED world
    PROVE  Flow(p)
  BY DEF Flow, world

LEMMA QuietStrides ==
    ASSUME PathInv, NEW p \in Procs,
           \/ Route(p) \/ OpenRun(p) \/ OrphanCheck(p) \/ Resume(p) \/ AnswerYes(p) \/ MarkSent(p)
           \/ Retry(p) \/ Settle(p) \/ Report(p) \/ Interrupt(p)
    PROVE  Stride(p)
  <1>1. UNCHANGED <<record, given, world>>
    BY DEF Route, OpenRun, OrphanCheck, Resume, AnswerYes, MarkSent, Retry, Settle, Report, Interrupt, ledger
  <1>2. Turned(p) /\ Flow(p)
    BY <1>1, TurnedSame, FlowSame
  <1>3. PICK i : i = inv[p] /\ i \in Invocation /\ TypeOK
    BY DEF PathInv, TypeOK
  <1>4. ASSUME Route(p) PROVE Walk(p)
    <2>1. CASE Matches(i.cmd.key) = {} /\ Go(p, [i EXCEPT !.pc = "checking"])
      <3>1. inv'[p] = [i EXCEPT !.pc = "checking"]
        BY <1>3, <2>1 DEF Go, TypeOK
      <3>2. inv'[p].pc = "checking" /\ inv'[p].cmd = i.cmd
        BY <1>3, <3>1 DEF Invocation
      <3> QED BY <1>3, <2>1, <3>2 DEF Walk, AtStep, Gate, Sending
    <2>2. ASSUME NEW r, Go(p, [i EXCEPT !.pc = "opening", !.run = r]) PROVE Walk(p)
      <3>1. [i EXCEPT !.pc = "opening", !.run = r].pc = "opening"
        BY <1>3 DEF Invocation
      <3> QED BY <1>3, <2>2, <3>1, WalkGoes DEF AtStep, Gate, Sending
    <2>3. CASE Quit(p, "refused_fix")
      BY <1>3, <2>3, WalkQuits
    <2> QED BY <1>3, <1>4, <2>1, <2>2, <2>3 DEF Route
  <1>5. ASSUME OpenRun(p) PROVE Walk(p)
    <2>1. CASE Go(p, [i EXCEPT !.pc = IF i.cmd.verb = "resume" THEN "resuming" ELSE "checking"])
      <3>1. inv'[p] = [i EXCEPT !.pc = IF i.cmd.verb = "resume" THEN "resuming" ELSE "checking"]
        BY <1>3, <2>1 DEF Go, TypeOK
      <3>2. inv'[p].pc \in {"resuming", "checking"} /\ inv'[p].run = i.run
        BY <1>3, <3>1 DEF Invocation
      <3>3. i.run # NoRun
        BY <1>3, <1>5, Facts, Names DEF Fit, OpenRun, At
      <3> QED BY <3>2, <3>3 DEF Walk, AtStep, Gate, Sending
    <2>2. ASSUME NEW class, Quit(p, class) PROVE Walk(p)
      BY <1>3, <2>2, WalkQuits
    <2> QED BY <1>3, <1>5, <2>1, <2>2 DEF OpenRun
  <1>6. ASSUME OrphanCheck(p) PROVE Walk(p)
    <2>1. CASE /\ Orphans(p) = {} \/ i.cmd.allow
               /\ Go(p, [i EXCEPT !.pc = IF i.run = NoRun THEN "minting" ELSE "resuming"])
      <3>1. inv'[p] = [i EXCEPT !.pc = IF i.run = NoRun THEN "minting" ELSE "resuming"]
        BY <1>3, <2>1 DEF Go, TypeOK
      <3>2. inv'[p].pc = (IF i.run = NoRun THEN "minting" ELSE "resuming") /\ inv'[p].cmd = i.cmd
        BY <1>3, <3>1 DEF Invocation
      <3>3. i.pc = "checking"
        BY <1>3, <1>6 DEF OrphanCheck, At
      <3> QED BY <1>3, <2>1, <3>2, <3>3 DEF Walk, AtStep, Gate, Sending
    <2>2. CASE Quit(p, "cli_fault")
      BY <1>3, <2>2, WalkQuits
    <2> QED BY <1>3, <1>6, <2>1, <2>2 DEF OrphanCheck
  <1>7. ASSUME Resume(p) PROVE Walk(p)
    <2>1. ASSUME NEW s \in StepNames, Resumable(i.run, s), Go(p, PickStep(p, s)) PROVE Walk(p)
      <3>1. inv'[p] = PickStep(p, s)
        BY <1>3, <2>1 DEF Go, TypeOK
      <3>2. inv'[p].pc \in {"consent", "ready"} /\ inv'[p].step = s /\ inv'[p].run = i.run
        BY <1>3, <3>1 DEF Invocation, PickStep
      <3>3. i.pc = "resuming"
        BY <1>3, <1>7 DEF Resume, At
      <3> QED BY <1>3, <2>1, <3>2, <3>3 DEF Walk
    <2>2. CASE Quit(p, "refused_resimulate")
      BY <1>3, <2>2, WalkQuits
    <2> QED
      <3> DEFINE s == IF Resumable(inv[p].run, "simulate") THEN "simulate" ELSE "execute"
      <3>1. s \in StepNames
        BY Names
      <3>2. \/ Resumable(inv[p].run, s) /\ Go(p, PickStep(p, s))
            \/ Quit(p, "refused_resimulate")
        BY <1>7 DEF Resume
      <3> HIDE DEF s
      <3> QED BY <1>3, <2>1, <2>2, <3>1, <3>2
  <1>8. ASSUME AnswerYes(p) PROVE Walk(p)
    <2>1. PICK next : next = [i EXCEPT !.pc = "ready", !.agreed = TRUE]
      OBVIOUS
    <2>2. next.pc = "ready" /\ next.step = i.step /\ next.run = i.run
      BY <1>3, <2>1 DEF Invocation
    <2> QED BY <1>3, <1>8, <2>1, <2>2, WalkGoes DEF AnswerYes, At, AtStep, Gate
  <1>9. ASSUME MarkSent(p) PROVE Walk(p)
    <2>1. PICK next : next = [i EXCEPT !.flag = TRUE, !.pc = "sending"]
      OBVIOUS
    <2>2. next.pc = "sending" /\ next.step = i.step /\ next.run = i.run
      BY <1>3, <2>1 DEF Invocation
    <2> QED BY <1>3, <1>9, <2>1, <2>2, WalkGoes DEF MarkSent, At, AtStep, Sending
  <1>10. ASSUME Retry(p) PROVE Walk(p)
    <2>1. PICK next : next = [i EXCEPT !.pc = "sending", !.ans = "none"]
      OBVIOUS
    <2>2. next.pc = "sending" /\ next.step = i.step /\ next.run = i.run
      BY <1>3, <2>1 DEF Invocation
    <2> QED BY <1>3, <1>10, <2>1, <2>2, WalkGoes DEF Retry, At, AtStep, Sending
  <1>11. ASSUME Settle(p) PROVE Walk(p)
    <2>1. PICK next : next = [i EXCEPT !.pc = "reporting", !.exit = said[i.run][i.step]]
      OBVIOUS
    <2>2. next.pc = "reporting" /\ next.step = i.step /\ next.run = i.run
      BY <1>3, <2>1 DEF Invocation
    <2> QED BY <1>3, <1>11, <2>1, <2>2, WalkGoes DEF Settle, At, AtStep
  <1>12. ASSUME Report(p) PROVE Walk(p)
    BY <1>3, <1>12, WalkEnds, WalkQuits DEF Report
  <1>13. ASSUME Interrupt(p) PROVE Walk(p)
    <2>1. inv'[p] = [i EXCEPT !.signal = TRUE]
      BY <1>3, <1>13 DEF Interrupt, Go, TypeOK
    <2>2. inv'[p].pc = i.pc /\ inv'[p].run = i.run /\ inv'[p].step = i.step /\ inv'[p].cmd = i.cmd
      BY <1>3, <2>1 DEF Invocation
    <2> QED BY <1>3, <2>2 DEF Walk
  <1>14. Walk(p)
    BY <1>4, <1>5, <1>6, <1>7, <1>8, <1>9, <1>10, <1>11, <1>12, <1>13
  <1> QED BY <1>2, <1>14 DEF Stride

LEMMA SaveStrides ==
    ASSUME PathInv, NEW p \in Procs, NEW result \in SaveResults,
           \/ Consent(p, result) \/ AnswerNo(p, result) \/ Begin(p, result) \/ RecordAnswer(p, result)
           \/ CloseExecute(p, result) \/ Poll(p, result)
           \/ Broadcast(p, result) \/ BroadcastWithoutPlan(p, result)
    PROVE  Stride(p)
  <1>1. UNCHANGED <<given, world>> /\ Flow(p)
    BY FlowSame DEF Consent, AnswerNo, Begin, RecordAnswer, CloseExecute, Poll, Broadcast, BroadcastWithoutPlan
  <1>2. PICK i, r : i = inv[p] /\ r = inv[p].run
    OBVIOUS
  <1>3. i \in Invocation /\ TypeOK /\ i.pc \in AtStep /\ Works(inv[p]) /\ Staged(i) /\ Fit(i)
    BY <1>2, Facts DEF Consent, AnswerNo, Begin, RecordAnswer, CloseExecute, Poll, Broadcast, BroadcastWithoutPlan,
       At, AtStep, Gate, Sending, Works, Placed
  <1>4. r \in Runs /\ record[r] \in Run /\ i.step \in StepNames /\ record[r][i.step] \in Step
        /\ record[r]["execute"] \in Step /\ record[r] # NoRecord
    BY <1>2, <1>3, Facts, Names DEF Run, Invocation
  <1>5. ASSUME NEW s \in StepNames, NEW step \in Step, SaveStep(r, s, step, result),
               s = "execute" => Changed(p, r, record[r]["execute"], step)
        PROVE  Turned(p)
    BY <1>1, <1>2, <1>3, <1>5, TurnedSave
  <1>6. UNCHANGED record => Turned(p)
    BY <1>1, TurnedSame
  <1>7. ASSUME NEW class, Quit(p, class) PROVE Walk(p)
    BY <1>3, <1>7, WalkQuits
  <1>8. ASSUME NEW next, next.pc \in AtStep, next.step = i.step, next.run = i.run,
               Go(p, next) \/ GoIfSaved(p, next, result)
        PROVE  Walk(p)
    <2>1. next.pc \notin {"checking", "minting"}
      BY <1>8 DEF AtStep, Gate, Sending
    <2> QED BY <1>2, <1>3, <1>8, <2>1, WalkGoes, WalkSaves
  <1>9. ASSUME NEW pc \in AtStep, NEW next, next = [i EXCEPT !.pc = pc], Go(p, next) \/ GoIfSaved(p, next, result)
        PROVE  Walk(p)
    <2>1. next.pc = pc /\ next.step = i.step /\ next.run = i.run
      BY <1>3, <1>9 DEF Invocation
    <2> QED BY <1>8, <1>9, <2>1
  <1>10. {"ready", "prompt", "begun", "polling", "after", "reporting", "closing"} \subseteq AtStep
    BY DEF AtStep, Gate, Sending
  <1>11. ASSUME NEW class, RecordClass(r, i.step, class, result) PROVE Turned(p)
    <2>1. PICK outcome, step : /\ outcome = IF class \in {"transient", "pending"} THEN "resumable" ELSE "settled"
                               /\ step = Recorded(record[r][i.step], outcome)
                               /\ SaveStep(r, i.step, step, result)
      BY <1>11 DEF RecordClass
    <2>2. /\ step \in Step /\ step.state = IF outcome = "resumable" THEN "answered" ELSE "terminal"
          /\ step.outcome = outcome
      <3>1. outcome \in {"resumable", "settled"}
        BY <2>1
      <3> QED BY <1>4, <2>1, <3>1, RecordedFits
    <2>3. i.step = "execute" => Changed(p, r, record[r]["execute"], step)
      BY <1>2, <1>3, <2>2 DEF Changed
    <2> QED BY <1>4, <1>5, <2>1, <2>2, <2>3
  <1>12. ASSUME Consent(p, result) PROVE Turned(p) /\ Walk(p)
    <2>1. i.step = "execute"
      BY <1>2, <1>3, <1>12 DEF Consent, At, Fit, Agreed
    <2>2. CASE Go(p, [i EXCEPT !.pc = "ready"]) /\ UNCHANGED record
      BY <1>6, <1>9, <1>10, <2>2
    <2>3. ASSUME NEW class, Quit(p, class), UNCHANGED record PROVE Turned(p) /\ Walk(p)
      BY <1>6, <1>7, <2>3
    <2>4. CASE /\ record[r]["execute"].state \in {"not_started", "awaiting_confirmation"}
               /\ SaveStep(r, "execute", Awaiting(record[r]["execute"]), result)
               /\ GoIfSaved(p, [i EXCEPT !.pc = "prompt"], result)
      <3>1. PICK step : step = Awaiting(record[r]["execute"])
        OBVIOUS
      <3>2. step \in Step /\ step.state = "awaiting_confirmation"
        BY <1>4, <3>1, ChangesFit
      <3>3. Changed(p, r, record[r]["execute"], step)
        BY <1>2, <1>3, <2>1, <2>4, <3>2 DEF Changed, MayHaveSent
      <3>4. Turned(p)
        BY <1>5, <2>4, <3>1, <3>2, <3>3, Names
      <3> QED BY <1>9, <1>10, <2>4, <3>4
    <2> QED BY <1>2, <1>12, <2>2, <2>3, <2>4 DEF Consent
  <1>13. ASSUME AnswerNo(p, result) PROVE Turned(p) /\ Walk(p)
    <2>1. PICK step : step = Declined(record[r]["execute"])
      OBVIOUS
    <2>2. step \in Step /\ step.state = "declined"
      BY <1>4, <2>1, ChangesFit
    <2>3. record[r]["execute"].state = "awaiting_confirmation"
      BY <1>2, <1>3, <1>13 DEF AnswerNo, At, Staged
    <2>4. Changed(p, r, record[r]["execute"], step)
      BY <2>2, <2>3 DEF Changed, MayHaveSent
    <2>5. Turned(p)
      BY <1>2, <1>5, <1>13, <2>1, <2>2, <2>4, Names DEF AnswerNo
    <2> QED BY <1>7, <1>13, <2>5 DEF AnswerNo
  <1>14. ASSUME Begin(p, result) PROVE Turned(p) /\ Walk(p)
    <2>1. CASE Quit(p, "cli_fault") /\ UNCHANGED record
      BY <1>6, <1>7, <2>1
    <2>2. CASE LET step == record[r][i.step] IN
               /\ SaveStep(r, i.step, [Began(step, Offered(step)) EXCEPT !.attempts = 0], result)
               /\ GoIfSaved(p, [i EXCEPT !.pc = "begun"], result)
      <3>1. PICK old, step : old = record[r][i.step] /\ step = [Began(old, Offered(old)) EXCEPT !.attempts = 0]
        OBVIOUS
      <3>2. Offered(old) \in Bodies \cup {NoBody}
        BY MoneyAssumption DEF Offered
      <3>3. step \in Step /\ step.state = "pending"
        BY <1>4, <3>1, <3>2, BeganFits
      <3>4. i.step = "execute" => Changed(p, r, record[r]["execute"], step)
        BY <1>2, <1>3, <3>3 DEF Changed
      <3>5. Turned(p)
        BY <1>4, <1>5, <2>2, <3>1, <3>3, <3>4
      <3> QED BY <1>9, <1>10, <2>2, <3>5
    <2> QED BY <1>2, <1>14, <2>1, <2>2 DEF Begin
  <1>15. ASSUME RecordAnswer(p, result) PROVE Turned(p) /\ Walk(p)
    <2>1. CASE Quit(p, "cli_fault") /\ UNCHANGED record
      BY <1>6, <1>7, <2>1
    <2>2. ASSUME NEW pc \in AtStep, NEW class, RecordClass(r, i.step, class, result),
                 GoIfSaved(p, [i EXCEPT !.pc = pc], result)
          PROVE  Turned(p) /\ Walk(p)
      BY <1>9, <1>11, <2>2
    <2>3. PICK pc \in {"closing", "polling", "after"} :
             \/ Quit(p, "cli_fault") /\ UNCHANGED record
             \/ /\ RecordClass(r, i.step, ClassOf(i.step, i.ans), result)
                /\ GoIfSaved(p, [i EXCEPT !.pc = pc], result)
      BY <1>2, <1>15 DEF RecordAnswer
    <2> QED BY <1>10, <2>1, <2>2, <2>3
  <1>16. ASSUME CloseExecute(p, result) PROVE Turned(p) /\ Walk(p)
    <2>1. PICK step : step = MadeUnreachable(record[r]["execute"])
      OBVIOUS
    <2>2. step \in Step /\ step.state = "unreachable"
      BY <1>4, <2>1, ChangesFit
    <2>3. given[r].shape = StepNames
      BY <1>2, <1>3, <1>16 DEF CloseExecute, At, Fit, Staged
    <2>4. Changed(p, r, record[r]["execute"], step)
      BY <2>2, <2>3 DEF Changed
    <2>5. Turned(p)
      BY <1>2, <1>5, <1>16, <2>1, <2>2, <2>4, Names DEF CloseExecute
    <2>6. GoIfSaved(p, [i EXCEPT !.pc = "polling"], result)
      BY <1>2, <1>16 DEF CloseExecute
    <2> QED BY <1>9, <1>10, <2>5, <2>6
  <1>17. ASSUME Poll(p, result) PROVE Turned(p) /\ Walk(p)
    <2>1. CASE Quit(p, "cli_fault") /\ UNCHANGED record
      BY <1>6, <1>7, <2>1
    <2>2. CASE Go(p, [i EXCEPT !.pc = "after"]) /\ UNCHANGED record
      BY <1>6, <1>9, <1>10, <2>2
    <2>3. ASSUME NEW class, RecordClass(r, i.step, class, result), GoIfSaved(p, [i EXCEPT !.pc = "after"], result)
          PROVE  Turned(p) /\ Walk(p)
      BY <1>9, <1>10, <1>11, <2>3
    <2> QED BY <1>2, <1>17, <2>1, <2>2, <2>3 DEF Poll
  <1>18. ASSUME Broadcast(p, result) PROVE Turned(p) /\ Walk(p)
    <2>1. CASE Quit(p, "cli_fault") /\ UNCHANGED record
      BY <1>6, <1>7, <2>1
    <2>2. CASE /\ SaveStep(r, "execute", Planned(record[r]["execute"]), result)
               /\ GoIfSaved(p, [i EXCEPT !.pc = "consent", !.step = "execute", !.implied = TRUE, !.ans = "none"], result)
      <3>1. PICK next, step : /\ next = [i EXCEPT !.pc = "consent", !.step = "execute", !.implied = TRUE, !.ans = "none"]
                              /\ step = Planned(record[r]["execute"])
        OBVIOUS
      <3>2. step \in Step /\ step.state = record[r]["execute"].state /\ step.outcome = record[r]["execute"].outcome
        BY <1>4, <3>1, ChangesFit DEF Planned, Step
      <3>3. Turned(p)
        BY <1>5, <2>2, <3>1, <3>2, Names DEF Changed
      <3>4. next.pc = "consent" /\ next.run = i.run
        BY <1>3, <3>1 DEF Invocation
      <3>5. CASE result = "ok"
        <4>1. inv'[p] = next
          BY <1>3, <2>2, <3>1, <3>5 DEF GoIfSaved, Go, TypeOK
        <4>2. given[r].shape = StepNames
          BY <1>2, <1>18 DEF Broadcast
        <4>3. Walk(p)
          BY <1>2, <1>3, <3>4, <4>1, <4>2 DEF Walk
        <4> QED BY <3>3, <4>3
      <3>6. CASE result # "ok"
        BY <1>7, <2>2, <3>3, <3>6 DEF GoIfSaved
      <3> QED BY <3>5, <3>6
    <2> QED BY <1>2, <1>18, <2>1, <2>2 DEF Broadcast
  <1>19. ASSUME BroadcastWithoutPlan(p, result) PROVE Turned(p) /\ Walk(p)
    <2>1. PICK step, class : /\ step = MadeUnreachable(record[r]["execute"])
                             /\ Go(p, [i EXCEPT !.pc = "reporting", !.exit = class])
      BY <1>2, <1>19 DEF BroadcastWithoutPlan
    <2>2. step \in Step /\ step.state = "unreachable"
      BY <1>4, <2>1, ChangesFit
    <2>3. Changed(p, r, record[r]["execute"], step)
      BY <1>2, <1>19, <2>2 DEF Changed, BroadcastWithoutPlan
    <2>4. UNCHANGED record \/ SaveStep(r, "execute", step, result)
      BY <1>2, <1>19, <2>1 DEF BroadcastWithoutPlan
    <2>5. Turned(p)
      BY <1>5, <1>6, <2>2, <2>3, <2>4, Names
    <2>6. PICK next : next = [i EXCEPT !.pc = "reporting", !.exit = class]
      OBVIOUS
    <2>7. next.pc = "reporting" /\ next.step = i.step /\ next.run = i.run
      BY <1>3, <2>6 DEF Invocation
    <2> QED BY <1>8, <1>10, <2>1, <2>5, <2>6, <2>7
  <1>20. Turned(p) /\ Walk(p)
    BY <1>12, <1>13, <1>14, <1>15, <1>16, <1>17, <1>18, <1>19
  <1> QED BY <1>1, <1>20 DEF Stride

LEMMA WireStrides ==
    ASSUME PathInv, NEW p \in Procs, Attempt(p) \/ GiveUp(p) \/ Crash(p)
    PROVE  Stride(p)
  <1>1. UNCHANGED <<record, given, srv>>
    BY DEF Attempt, GiveUp, Crash, ledger
  <1>2. Turned(p)
    BY <1>1, TurnedSame
  <1>3. PICK i : i = inv[p] /\ i \in Invocation /\ TypeOK
    BY DEF PathInv, TypeOK
  <1>4. wire \subseteq [to : Procs \cup {NoProc}, run : Runs, step : StepNames]
    BY <1>3 DEF TypeOK
  <1>5. ASSUME Attempt(p) PROVE Walk(p) /\ Flow(p)
    <2>1. i.pc = "sending"
      BY <1>3, <1>5 DEF Attempt, At
    <2>2. \A m \in wire' : m \in wire \/ (m.run = i.run /\ m.step = i.step)
      BY <1>3, <1>5 DEF Attempt
    <2>3. Flow(p)
      BY <1>1, <1>3, <2>1, <2>2 DEF Flow
    <2>4. PICK next, left, ans : /\ next = [i EXCEPT !.pc = "waiting", !.left = left] \/ next = [i EXCEPT !.pc = "answered", !.ans = ans]
                                 /\ Go(p, next)
      BY <1>3, <1>5 DEF Attempt
    <2>5. next.pc \in {"waiting", "answered"} /\ next.step = i.step /\ next.run = i.run
      BY <1>3, <2>4 DEF Invocation
    <2> QED BY <1>3, <2>1, <2>3, <2>4, <2>5, WalkGoes DEF AtStep, Sending
  <1>6. ASSUME GiveUp(p) PROVE Walk(p) /\ Flow(p)
    <2>1. ASSUME NEW m \in wire' PROVE \E n \in wire : n.run = m.run /\ n.step = m.step
      <3>1. m \in wire \/ \E n \in wire : m = [n EXCEPT !.to = NoProc]
        BY <1>6 DEF GiveUp
      <3>2. \A n \in wire : [n EXCEPT !.to = NoProc].run = n.run /\ [n EXCEPT !.to = NoProc].step = n.step
        BY <1>4
      <3> QED BY <3>1, <3>2
    <2>2. Flow(p)
      BY <1>1, <2>1 DEF Flow
    <2>3. PICK next : next = [i EXCEPT !.pc = "answered", !.ans = "lost"]
      OBVIOUS
    <2>4. next.pc = "answered" /\ next.step = i.step /\ next.run = i.run
      BY <1>3, <2>3 DEF Invocation
    <2> QED BY <1>3, <1>6, <2>2, <2>3, <2>4, WalkGoes DEF GiveUp, At, AtStep, Sending
  <1>7. ASSUME Crash(p) PROVE Walk(p) /\ Flow(p)
    <2>1. ASSUME NEW m \in wire' PROVE \E n \in wire : n.run = m.run /\ n.step = m.step
      <3>1. m \in wire \/ \E n \in wire : m = [n EXCEPT !.to = NoProc]
        BY <1>7 DEF Crash
      <3>2. \A n \in wire : [n EXCEPT !.to = NoProc].run = n.run /\ [n EXCEPT !.to = NoProc].step = n.step
        BY <1>4
      <3> QED BY <3>1, <3>2
    <2>2. Flow(p)
      BY <1>1, <2>1 DEF Flow
    <2> QED BY <1>3, <1>7, <2>2, WalkEnds DEF Crash
  <1> QED BY <1>2, <1>5, <1>6, <1>7 DEF Stride

LEMMA StartStrides ==
    ASSUME PathInv, NEW p \in Procs, NEW c \in Commands, NEW r \in Runs \cup {NoRun}, Start(p, c, r)
    PROVE  Stride(p)
  <1>1. UNCHANGED <<record, given, world>> /\ TypeOK
    BY DEF Start, ledger, PathInv
  <1>2. PICK next : Go(p, next) /\ next.pc \in {"routing", "opening"}
    <2>1. CASE Go(p, [Idle EXCEPT !.pc = "routing", !.cmd = c])
      <3>1. [Idle EXCEPT !.pc = "routing", !.cmd = c].pc = "routing"
        BY DEF Idle
      <3> QED BY <2>1, <3>1
    <2>2. CASE Go(p, [Idle EXCEPT !.pc = "opening", !.cmd = c, !.run = r])
      <3>1. [Idle EXCEPT !.pc = "opening", !.cmd = c, !.run = r].pc = "opening"
        BY DEF Idle
      <3> QED BY <2>2, <3>1
    <2> QED BY <2>1, <2>2 DEF Start
  <1>3. Walk(p)
    BY <1>1, <1>2, WalkGoes DEF AtStep, Gate, Sending
  <1> QED BY <1>1, <1>3, TurnedSame, FlowSame DEF Stride

LEMMA ServerStrides ==
    ASSUME PathInv, NEW p, Procs = {p}, ServerStep
    PROVE  Stride(p)
  <1>1. UNCHANGED <<record, given>> /\ TypeOK /\ p \in Procs
    BY DEF ServerStep, ServerTakes, ServerTurnsAway, ServerWorks, ledger, PathInv
  <1>2. Turned(p)
    BY <1>1, TurnedSame
  <1>3. PICK i : i = inv[p] /\ i \in Invocation
    BY <1>1 DEF TypeOK
  <1>4. ASSUME inv'[p] = i PROVE Walk(p)
    BY <1>3, <1>4 DEF Walk
  <1>5. ASSUME NEW m \in wire, NEW ans, Answer(m, ans) PROVE Walk(p) /\ wire' \subseteq wire
    <2>1. CASE m.to = NoProc
      BY <1>3, <1>4, <1>5, <2>1 DEF Answer
    <2>2. CASE m.to # NoProc
      <3>1. m.to = p /\ i.pc = "waiting"
        <4>1. m.to \in Procs \cup {NoProc}
          BY <1>1 DEF TypeOK
        <4>2. Wired(m)
          BY DEF PathInv
        <4> QED BY <1>3, <2>2, <4>1, <4>2 DEF Wired
      <3>2. inv' = [inv EXCEPT ![p] = [i EXCEPT !.pc = "answered", !.ans = ans]]
        BY <1>1, <1>3, <1>5, <2>2, <3>1 DEF Answer, TypeOK
      <3>3. PICK next : next = [i EXCEPT !.pc = "answered", !.ans = ans]
        OBVIOUS
      <3>4. next.pc = "answered" /\ next.step = i.step /\ next.run = i.run
        BY <1>3, <3>3 DEF Invocation
      <3> QED BY <1>1, <1>3, <1>5, <3>1, <3>2, <3>3, <3>4, WalkGoes DEF Answer, Go, AtStep, Sending
    <2> QED BY <2>1, <2>2
  <1>6. ASSUME NEW m \in wire, ServerTakes(m) PROVE Walk(p) /\ Flow(p)
    <2>1. PICK k, state : k = KeyOf(m.run, m.step) /\ srv' = [srv EXCEPT ![k] = state]
      BY <1>6 DEF ServerTakes
    <2>2. Walk(p) /\ wire' \subseteq wire
      BY <1>5, <1>6 DEF ServerTakes
    <2>3. \A l \in Keys \cup (Runs \X StepNames) : l # k => srv'[l] = srv[l]
      BY <1>1, <2>1 DEF TypeOK
    <2> QED BY <2>1, <2>2, <2>3 DEF Flow
  <1>7. ASSUME NEW m \in wire, NEW ans, ServerTurnsAway(m, ans) PROVE Walk(p) /\ Flow(p)
    <2>1. Walk(p) /\ wire' \subseteq wire /\ UNCHANGED srv
      BY <1>5, <1>7 DEF ServerTurnsAway
    <2> QED BY <2>1 DEF Flow
  <1>8. ASSUME NEW k \in DOMAIN srv, NEW outcome, ServerWorks(k, outcome) PROVE Walk(p) /\ Flow(p)
    <2>1. UNCHANGED <<inv, wire>> /\ srv[k] = "working" /\ srv' = [srv EXCEPT ![k] = outcome]
      BY <1>8 DEF ServerWorks
    <2>2. \A l \in Keys \cup (Runs \X StepNames) : l # k => srv'[l] = srv[l]
      BY <1>1, <2>1 DEF TypeOK
    <2> QED BY <1>3, <1>4, <2>1, <2>2 DEF Flow
  <1> QED BY <1>2, <1>6, <1>7, <1>8 DEF Stride, ServerStep

LEMMA SweepStrides ==
    ASSUME PathInv, NEW p \in Procs, NEW r \in Runs, RunsDecline(r) \/ RunsScrub(r)
    PROVE  Stride(p)
  <1>1. UNCHANGED <<given, inv, world>> /\ record[r] # NoRecord /\ TypeOK
    BY DEF RunsDecline, RunsScrub, PathInv
  <1>2. Walk(p) /\ Flow(p)
    BY <1>1, FlowSame DEF Walk
  <1>3. record[r] \in Run /\ record[r]["execute"] \in Step
    BY <1>1, Names DEF TypeOK, Run
  <1>4. PICK steps : record' = [record EXCEPT ![r] = steps] /\ steps \in Run
                     /\ Changed(p, r, record[r]["execute"], steps["execute"])
    <2>1. CASE RunsDecline(r)
      <3>1. PICK step, steps : step = Declined(record[r]["execute"]) /\ steps = [record[r] EXCEPT !["execute"] = step]
        OBVIOUS
      <3>2. step \in Step /\ step.state = "declined"
        BY <1>3, <3>1, ChangesFit
      <3>3. steps \in Run /\ steps["execute"] = step
        BY <1>3, <3>1, <3>2, Names DEF Run
      <3>4. record' = [record EXCEPT ![r] = steps]
        BY <1>1, <2>1, <3>1 DEF RunsDecline, TypeOK
      <3>5. Changed(p, r, record[r]["execute"], steps["execute"])
        BY <2>1, <3>2, <3>3 DEF RunsDecline, Changed, MayHaveSent
      <3> QED BY <3>3, <3>4, <3>5
    <2>2. CASE RunsScrub(r)
      <3>1. PICK steps : steps = ScrubRun(record[r], TRUE)
        OBVIOUS
      <3>2. steps = [s \in StepNames |-> Scrub(record[r][s])]
        BY <3>1 DEF ScrubRun
      <3>3. ASSUME NEW s \in StepNames
            PROVE  /\ steps[s] \in Step /\ steps[s].state = record[r][s].state
                   /\ steps[s].outcome = record[r][s].outcome
        <4>1. PICK old, new : old = record[r][s] /\ old \in Step /\ new = Scrub(old)
          BY <1>3 DEF Run
        <4>2. new \in Step /\ new.state = old.state
          BY <4>1, ChangesFit
        <4>3. new.outcome = old.outcome
          BY <4>1 DEF Scrub, Step
        <4> QED BY <3>2, <4>1, <4>2, <4>3
      <3>4. steps \in Run
        BY <3>2, <3>3 DEF Run
      <3>5. Changed(p, r, record[r]["execute"], steps["execute"])
        BY <3>3, Names DEF Changed
      <3> QED BY <2>2, <3>1, <3>4, <3>5 DEF RunsScrub
    <2> QED BY <2>1, <2>2
  <1>5. record'[r] = steps /\ \A q \in Runs \ {r} : record'[q] = record[q]
    BY <1>1, <1>4 DEF TypeOK
  <1>6. steps # NoRecord
    BY <1>4, Names
  <1>7. ASSUME NEW q \in Runs, record[q] # NoRecord
        PROVE  Changed(p, q, record[q]["execute"], record'[q]["execute"])
    BY <1>4, <1>5, <1>7 DEF Changed
  <1>8. Turned(p)
    BY <1>1, <1>5, <1>6, <1>7 DEF Turned
  <1> QED BY <1>2, <1>8 DEF Stride

LEMMA NextStrides ==
    ASSUME PathInv, NEW p, Procs = {p}, [Next]_vars
    PROVE  Stride(p) \/ \E r \in Runs, result \in SaveResults : Mint(p, r, result)
  <1>1. p \in Procs
    OBVIOUS
  <1>2. CASE UNCHANGED vars
    <2>1. UNCHANGED <<record, given, inv, world>>
      BY <1>2 DEF vars, ledger
    <2>2. Walk(p)
      BY <2>1 DEF Walk
    <2> QED BY <1>1, <2>1, <2>2, TurnedSame, FlowSame DEF Stride
  <1>3. CASE \E c \in Commands : \E r \in Runs \cup {NoRun} : Start(p, c, r)
    BY <1>1, <1>3, StartStrides
  <1>4. CASE Work(p)
    BY <1>1, <1>4, QuietStrides, SaveStrides, WireStrides DEF Work
  <1>5. CASE GiveUp(p) \/ Crash(p) \/ Interrupt(p)
    BY <1>1, <1>5, QuietStrides, WireStrides
  <1>6. CASE ServerStep
    BY <1>6, ServerStrides
  <1>7. CASE \E r \in Runs : RunsDecline(r) \/ RunsScrub(r)
    BY <1>1, <1>7, SweepStrides
  <1> QED BY <1>2, <1>3, <1>4, <1>5, <1>6, <1>7 DEF Next

\* What a mint leaves: a run under the key of the command, that sent nothing.
LEMMA MintDoes ==
    ASSUME PathInv, NEW p \in Procs, NEW r \in Runs, NEW result \in SaveResults, Mint(p, r, result)
    PROVE  LET c == inv[p].cmd
               j == inv'[p]
           IN  /\ inv[p].pc = "minting" /\ record[r] = NoRecord /\ UNCHANGED <<wire, srv>>
               /\ \A q \in Runs \ {r} : record'[q] = record[q] /\ given'[q] = given[q]
               /\ j.pc = "idle" \/ /\ j.pc \in Gate /\ j.run = r
                                   /\ record'[r] # NoRecord
                                   /\ j.step = IF c.verb = "execute" THEN "execute" ELSE "simulate"
               /\ \/ record' = record /\ given' = given
                  \/ /\ record'[r] # NoRecord /\ given'[r].key = c.key
                     /\ given'[r].shape = IF c.broadcast THEN StepNames
                                          ELSE {IF c.verb = "execute" THEN "execute" ELSE "simulate"}
                     /\ record'[r]["execute"].state = "not_started"
  <1>1. PICK i, c, first, steps, shape :
           /\ i = inv[p] /\ c = inv[p].cmd
           /\ first = IF c.verb = "execute" THEN "execute" ELSE "simulate"
           /\ steps = [s \in StepNames |-> NewStep(IF s = first THEN c.body ELSE NoBody)]
           /\ shape = IF c.broadcast THEN StepNames ELSE {first}
    OBVIOUS
  <1>2. i \in Invocation /\ i.pc = "minting" /\ TypeOK
    BY <1>1, Facts DEF Mint, At
  <1>3. c.body \in Bodies
    BY <1>1, CommandFits
  <1>4. steps \in Run /\ steps["execute"].state = "not_started"
    <2>1. \A s \in StepNames : LET body == IF s = first THEN c.body ELSE NoBody IN
             NewStep(body) \in Step /\ NewStep(body).state = "not_started"
      BY <1>3, NewFits
    <2> QED BY <1>1, <2>1, Names DEF Run
  <1>5. /\ record[r] = NoRecord /\ UNCHANGED <<wire, srv>>
        /\ record' = IF result = "early" THEN record ELSE [record EXCEPT ![r] = steps]
        /\ given' = IF result = "early" THEN given ELSE [given EXCEPT ![r] = [shape |-> shape, key |-> c.key]]
    BY <1>1 DEF Mint, Save, world
  <1>6. \A q \in Runs \ {r} : record'[q] = record[q] /\ given'[q] = given[q]
    BY <1>2, <1>5 DEF TypeOK
  <1>7. result # "early" => record'[r] = steps /\ given'[r] = [shape |-> shape, key |-> c.key]
    BY <1>2, <1>5 DEF TypeOK
  <1>8. PICK j : j = inv'[p]
    OBVIOUS
  <1>9. j.pc = "idle" \/ (j.pc \in Gate /\ j.run = r /\ j.step = first /\ result = "ok")
    <2>1. CASE result = "ok"
      <3>1. PICK next : next = [i EXCEPT !.run = r, !.step = first, !.implied = TRUE,
                                         !.pc = IF first = "execute" THEN "consent" ELSE "ready"]
        OBVIOUS
      <3>2. next.pc \in {"consent", "ready"} /\ next.run = r /\ next.step = first
        BY <1>2, <3>1 DEF Invocation
      <3>3. j = next
        BY <1>1, <1>2, <1>8, <2>1, <3>1 DEF Mint, Go, TypeOK
      <3> QED BY <2>1, <3>2, <3>3 DEF Gate
    <2>2. CASE result # "ok"
      <3>1. PICK class, next : Go(p, next) /\ next = [Idle EXCEPT !.exit = class, !.run = inv[p].run, !.left = inv[p].left]
        BY <2>2 DEF Mint, Quit, Ended
      <3>2. next.pc = "idle" /\ j = next
        BY <1>2, <1>8, <3>1 DEF Idle, Go, TypeOK
      <3> QED BY <3>2
    <2> QED BY <2>1, <2>2
  <1>10. steps # NoRecord
    BY <1>4, Names
  <1> QED BY <1>1, <1>2, <1>4, <1>5, <1>6, <1>7, <1>8, <1>9, <1>10

LEMMA MatchesSame ==
    ASSUME NEW p, Turned(p), NEW key
    PROVE  Matches(key)' = Matches(key)
  BY DEF Turned, Matches

LEMMA KeyKeeps ==
    ASSUME NEW p, Procs = {p}, KeyInv, [Next]_vars
    PROVE  KeyInv'
  <1>1. PathInv /\ PathInv' /\ p \in Procs /\ LookedUp(p) /\ TypeOK
    BY PathKeeps DEF KeyInv, PathInv
  <1>2. CASE Stride(p)
    <2>1. Turned(p) /\ Walk(p)
      BY <1>2 DEF Stride
    <2>2. OneRunPerKey'
      BY <2>1 DEF KeyInv, OneRunPerKey, Turned
    <2>3. PICK i, j : i = inv[p] /\ j = inv'[p]
      OBVIOUS
    <2>4. ASSUME j.pc = "minting" \/ (j.pc = "checking" /\ j.run = NoRun)
          PROVE  Matches(j.cmd.key) = {}
      BY <1>1, <2>1, <2>3, <2>4 DEF Walk, LookedUp
    <2>5. Matches(j.cmd.key)' = Matches(j.cmd.key)
      BY <2>1, MatchesSame
    <2>6. LookedUp(p)'
      <3>1. Matches(inv[p].cmd.key)' = Matches(j.cmd.key)'
        BY <2>3 DEF Matches
      <3> QED BY <2>3, <2>4, <2>5, <3>1 DEF LookedUp
    <2> QED BY <1>1, <2>2, <2>6 DEF KeyInv
  <1>3. ASSUME NEW r \in Runs, NEW result \in SaveResults, Mint(p, r, result) PROVE KeyInv'
    <2>1. PICK c : c = inv[p].cmd
      OBVIOUS
    <2>2. /\ inv[p].pc = "minting" /\ record[r] = NoRecord
          /\ \A q \in Runs \ {r} : record'[q] = record[q] /\ given'[q] = given[q]
          /\ inv'[p].pc \in Gate \cup {"idle"}
          /\ \/ record' = record /\ given' = given
             \/ given'[r].key = c.key
      BY <1>1, <1>3, <2>1, MintDoes
    <2>3. \A q \in Runs : record[q] # NoRecord /\ given[q].key = c.key => c.key = NoKey
      BY <1>1, <2>1, <2>2 DEF LookedUp, Matches
    <2>4. OneRunPerKey'
      <3>1. CASE record' = record /\ given' = given
        BY <3>1 DEF KeyInv, OneRunPerKey
      <3>2. CASE given'[r].key = c.key
        BY <2>2, <2>3, <3>2 DEF KeyInv, OneRunPerKey
      <3> QED BY <2>2, <3>1, <3>2
    <2>5. LookedUp(p)'
      BY <2>2 DEF LookedUp, Gate
    <2> QED BY <1>1, <2>4, <2>5 DEF KeyInv
  <1> QED BY <1>1, <1>2, <1>3, NextStrides

LEMMA KeyStarts ==
    ASSUME Init
    PROVE  KeyInv
  <1>1. PathInv
    BY StartsWell
  <1>2. OneRunPerKey
    BY DEF Init, OneRunPerKey
  <1>3. \A p \in Procs : LookedUp(p)
    BY DEF Init, LookedUp, Idle
  <1> QED BY <1>1, <1>2, <1>3 DEF KeyInv

\* A caller who runs one command at a time owns one run per key: the command
\* that mints a run looked for its key first, and no run was made since
\* (FindByKey before Create; AC14, AC54, AC94).
THEOREM KeyNamesOneRun ==
    ASSUME NEW p, Procs = {p}
    PROVE  Spec => []OneRunPerKey
  <1>1. Init => KeyInv
    BY KeyStarts
  <1>2. KeyInv /\ [Next]_vars => KeyInv'
    BY KeyKeeps
  <1>3. KeyInv => OneRunPerKey
    BY DEF KeyInv
  <1> QED BY <1>1, <1>2, <1>3, PTL DEF Spec

-----------------------------------------------------------------------------
(* One careful caller makes no transfer in the dark.                       *)

\* A key names one step of one run on record, unless the caller named it; and
\* then it names one run.
LEMMA SameKey ==
    ASSUME KeyInv, NEW q \in Runs, NEW r \in Runs, record[q] # NoRecord, record[r] # NoRecord,
           NEW s \in StepNames, NEW t \in StepNames, KeyOf(q, s) = KeyOf(r, t)
    PROVE  q = r
  <1>1. given[q].key \in Keys \cup {NoKey} /\ given[r].key \in Keys \cup {NoKey}
    BY DEF KeyInv, PathInv, TypeOK
  <1>2. \A k \in Keys : k # <<q, s>> /\ k # <<r, t>>
    BY MoneyAssumption
  <1> QED BY <1>1, <1>2 DEF KeyOf, KeyInv, OneRunPerKey

\* The execute of a run that has only an execute, or only a simulate.
LEMMA Lone ==
    ASSUME DarkInv, NEW r \in Runs, given[r].shape # {}
    PROVE  /\ record[r] # NoRecord /\ record[r] \in Run /\ record[r]["execute"] \in Step
           /\ "execute" \in given[r].shape => given[r].shape = {"execute"}
  <1>1. record[r] # NoRecord /\ given[r].shape # StepNames
    BY DEF DarkInv
  <1>2. record[r] \in Run /\ OnRecord(r)
    BY <1>1 DEF DarkInv, KeyInv, PathInv, TypeOK, Content
  <1> QED BY <1>1, <1>2, Names DEF OnRecord, Run

\* What may have been sent stays on record as that, and an execute is opened
\* only by the invocation that is at it.
LEMMA ChangedKeeps ==
    ASSUME DarkInv, NEW p, NEW r \in Runs, NEW old, NEW new, Changed(p, r, old, new)
    PROVE  /\ MayHaveSent(old.state) => MayHaveSent(new.state)
           /\ (old.state = "answered" => old.outcome = "resumable") =>
                  (new.state = "answered" => new.outcome = "resumable")
           /\ Unresolved(new) =>
                  Unresolved(old) \/ (inv[p].pc \in AtStep /\ inv[p].step = "execute" /\ inv[p].run = r)
  <1>1. given[r].shape # StepNames
    BY DEF DarkInv
  <1> QED BY <1>1 DEF Changed, MayHaveSent, Unresolved

LEMMA BackedKeeps ==
    ASSUME NEW p, Procs = {p}, DarkInv, Stride(p), NEW r \in Runs
    PROVE  Backed(r)'
  <1>1. Turned(p) /\ Flow(p) /\ KeyInv /\ PathInv /\ TypeOK /\ Backed(r) /\ p \in Procs
    BY DEF Stride, DarkInv, KeyInv, PathInv
  <1>2. given'[r] = given[r]
    BY <1>1 DEF Turned
  <1> SUFFICES ASSUME "execute" \in given[r].shape,
                      \/ \E m \in wire' : m.run = r /\ m.step = "execute"
                      \/ srv'[KeyOf(r, "execute")'] # "none"
               PROVE  MayHaveSent(record'[r]["execute"].state)
    BY <1>2 DEF Backed
  <1>3. record[r] # NoRecord /\ given[r].shape = {"execute"}
    BY Lone
  <1>4. KeyOf(r, "execute")' = KeyOf(r, "execute") /\ KeyOf(r, "execute") \in Keys \cup (Runs \X StepNames)
    BY <1>1, <1>2, KeyFits, Names DEF KeyOf
  <1>5. MayHaveSent(record[r]["execute"].state)
    <2>1. ASSUME NEW m \in wire', m.run = r, m.step = "execute" PROVE MayHaveSent(record[r]["execute"].state)
      <3>1. CASE \E n \in wire : n.run = m.run /\ n.step = m.step
        BY <1>1, <2>1, <3>1 DEF Backed
      <3>2. CASE inv[p].pc = "sending" /\ inv[p].run = r /\ inv[p].step = "execute"
        <4>1. Staged(inv[p])
          BY <1>1, <3>2, Facts DEF Placed, AtStep, Sending
        <4>2. record[r]["execute"].state = "pending"
          BY <3>2, <4>1 DEF Staged, Sending
        <4> QED BY <4>2 DEF MayHaveSent
      <3> QED BY <1>1, <2>1, <3>1, <3>2 DEF Flow
    <2>2. ASSUME NEW m \in wire, KeyOf(m.run, m.step) = KeyOf(r, "execute")
          PROVE  MayHaveSent(record[r]["execute"].state)
      <3>1. m.run \in Runs /\ m.step \in StepNames /\ Wired(m)
        BY <1>1 DEF PathInv, TypeOK
      <3>2. m.run = r
        BY <1>1, <1>3, <2>2, <3>1, SameKey, Names DEF Wired
      <3>3. m.step = "execute"
        BY <1>3, <3>1, <3>2 DEF Wired
      <3> QED BY <1>1, <3>2, <3>3 DEF Backed
    <2>3. CASE srv[KeyOf(r, "execute")] # "none"
      BY <1>1, <2>3 DEF Backed
    <2> QED BY <1>1, <1>4, <2>1, <2>2, <2>3 DEF Flow
  <1>6. Changed(p, r, record[r]["execute"], record'[r]["execute"])
    BY <1>1, <1>3 DEF Turned
  <1> QED BY <1>5, <1>6, ChangedKeeps

LEMMA ServedKeeps ==
    ASSUME NEW p, Procs = {p}, DarkInv, Stride(p), NEW k \in Keys \cup (Runs \X StepNames)
    PROVE  Served(k)'
  <1>1. Turned(p) /\ Flow(p) /\ PathInv /\ TypeOK /\ Served(k)
    BY DEF Stride, DarkInv, KeyInv, PathInv
  <1> SUFFICES ASSUME srv'[k] # "none"
               PROVE  \E r \in Runs, s \in StepNames :
                         record'[r] # NoRecord /\ s \in given'[r].shape /\ KeyOf(r, s)' = k
    BY DEF Served
  <1>2. PICK r \in Runs, s \in StepNames : record[r] # NoRecord /\ s \in given[r].shape /\ KeyOf(r, s) = k
    <2>1. CASE srv[k] # "none"
      BY <1>1, <2>1 DEF Served
    <2>2. ASSUME NEW m \in wire, KeyOf(m.run, m.step) = k
          PROVE  \E r \in Runs, s \in StepNames : record[r] # NoRecord /\ s \in given[r].shape /\ KeyOf(r, s) = k
      BY <1>1, <2>2 DEF PathInv, TypeOK, Wired
    <2> QED BY <1>1, <2>1, <2>2 DEF Flow
  <1>3. given'[r] = given[r] /\ record'[r] # NoRecord
    BY <1>1, <1>2 DEF Turned
  <1>4. KeyOf(r, s)' = KeyOf(r, s)
    BY <1>3 DEF KeyOf
  <1> QED BY <1>2, <1>3, <1>4

LEMMA CommandCareful ==
    ASSUME TypeOK, Cautious, NEW p \in Procs
    PROVE  ~inv[p].cmd.broadcast /\ (inv[p].cmd.verb = "execute" => ~inv[p].cmd.allow)
  <1>1. inv[p].cmd \in Commands \cup {NoCommand}
    BY DEF TypeOK, Invocation
  <1> QED BY <1>1 DEF Cautious, NoCommand

LEMMA StrideKeepsDark ==
    ASSUME NEW p, Procs = {p}, Cautious, DarkInv, KeyInv', Stride(p)
    PROVE  DarkInv'
  <1>1. Turned(p) /\ Walk(p) /\ PathInv /\ TypeOK /\ p \in Procs /\ Alone(p)
    BY DEF Stride, DarkInv, KeyInv, PathInv
  <1>2. \A r \in Runs : given'[r] = given[r] /\ (record'[r] = NoRecord <=> record[r] = NoRecord)
    BY <1>1 DEF Turned
  <1>3. \A r \in Runs : given'[r].shape # StepNames /\ Backed(r)'
    BY <1>2, BackedKeeps DEF DarkInv
  <1>4. \A r \in Runs : given'[r].shape # {} => record'[r] # NoRecord
    BY <1>2 DEF DarkInv
  <1>5. \A k \in Keys \cup (Runs \X StepNames) : Served(k)'
    BY ServedKeeps
  <1>6. ASSUME NEW r \in Runs, record'[r] # NoRecord, record'[r]["execute"].state = "answered"
        PROVE  record'[r]["execute"].outcome = "resumable"
    <2>1. record[r] # NoRecord /\ Changed(p, r, record[r]["execute"], record'[r]["execute"])
      BY <1>1, <1>2, <1>6 DEF Turned
    <2>2. record[r]["execute"].state = "answered" => record[r]["execute"].outcome = "resumable"
      BY <2>1 DEF DarkInv
    <2> QED BY <1>6, <2>1, <2>2, ChangedKeeps
  <1>7. PICK i, j : i = inv[p] /\ j = inv'[p]
    OBVIOUS
  <1>8. ASSUME NEW r \in Runs, ExecOpen(r)'
        PROVE  ExecOpen(r) \/ (i.pc \in AtStep /\ i.step = "execute" /\ i.run = r)
    <2>1. record[r] # NoRecord /\ Changed(p, r, record[r]["execute"], record'[r]["execute"])
      BY <1>1, <1>2, <1>8 DEF Turned, ExecOpen
    <2>2. Unresolved(record'[r]["execute"])
      BY <1>8 DEF ExecOpen, Unresolved
    <2> QED BY <1>7, <2>1, <2>2, ChangedKeeps DEF ExecOpen
  <1>9. ASSUME NEW q \in Runs, NEW r \in Runs, ExecOpen(q)', ExecOpen(r)' PROVE q = r
    <2>1. ExecOpen(q) /\ ExecOpen(r) => q = r
      BY DEF DarkInv
    <2> QED BY <1>1, <1>7, <1>8, <1>9, <2>1 DEF Alone
  <1>10. ASSUME j.pc \in AtStep, j.step = "execute", NEW r \in Runs \ {j.run} PROVE ~ExecOpen(r)'
    <2>1. j.run = i.run /\ \/ i.pc \in AtStep /\ i.step = "execute"
                           \/ i.pc = "resuming" /\ Resumable(i.run, "execute")
                           \/ i.pc \in AtStep /\ given[i.run].shape = StepNames
      BY <1>1, <1>7, <1>10 DEF Walk
    <2>2. i.run \in Runs /\ record[i.run] # NoRecord
      <3>1. Works(i)
        BY <2>1 DEF Works
      <3> QED BY <1>1, <1>7, <3>1, Facts, Names
    <2>3. given[i.run].shape # StepNames
      BY <2>2 DEF DarkInv
    <2>4. ~ExecOpen(r)
      <3>1. CASE i.pc \in AtStep /\ i.step = "execute"
        BY <1>1, <1>7, <1>10, <2>1, <3>1 DEF Alone
      <3>2. CASE Resumable(i.run, "execute")
        <4>1. ExecOpen(i.run)
          BY <2>2, <2>3, <3>2 DEF Resumable, ExecOpen
        <4> QED BY <1>10, <2>1, <2>2, <4>1 DEF DarkInv
      <3> QED BY <2>1, <2>3, <3>1, <3>2
    <2> QED BY <1>8, <1>10, <2>1, <2>4
  <1>11. ASSUME j.pc = "minting", j.cmd.verb = "execute", NEW r \in Runs PROVE ~ExecOpen(r)'
    <2>1. j.cmd = i.cmd /\ \/ i.pc = "minting"
                           \/ /\ i.pc = "checking" /\ i.run = NoRun
                              /\ Orphans(p) = {} \/ i.cmd.allow
      BY <1>1, <1>7, <1>11 DEF Walk
    <2>2. i.pc \notin AtStep
      BY <2>1 DEF AtStep, Gate, Sending
    <2>3. ~ExecOpen(r)
      <3>1. CASE i.pc = "minting"
        BY <1>1, <1>7, <1>11, <2>1, <3>1 DEF Alone
      <3>2. CASE i.pc = "checking" /\ i.run = NoRun /\ Orphans(p) = {}
        <4>1. ~Works(i)
          BY <2>2, <3>2 DEF Works
        <4>2. holder[r] = NoProc
          <5>1. Held(r) /\ holder[r] \in Procs \cup {NoProc}
            BY <1>1 DEF PathInv, TypeOK
          <5> QED BY <1>7, <4>1, <5>1 DEF Held
        <4>3. r # NoRun /\ r \notin Orphans(p)
          BY <3>2, Names
        <4>4. ~Open(r)
          BY <1>7, <3>2, <4>2, <4>3 DEF Orphans
        <4> QED BY <4>4, Names DEF Open, UnresolvedRun, ExecOpen
      <3>3. CASE i.cmd.allow
        BY <1>1, <1>7, <1>11, <2>1, <3>3, CommandCareful
      <3> QED BY <2>1, <3>1, <3>2, <3>3
    <2> QED BY <1>8, <2>2, <2>3
  <1>12. Alone(p)'
    BY <1>7, <1>10, <1>11 DEF Alone
  <1>13. \A q \in Procs : Alone(q)'
    BY <1>12
  <1> QED BY <1>3, <1>4, <1>5, <1>6, <1>9, <1>13 DEF DarkInv

LEMMA MintKeepsDark ==
    ASSUME NEW p, Procs = {p}, Cautious, DarkInv, KeyInv',
           NEW r \in Runs, NEW result \in SaveResults, Mint(p, r, result)
    PROVE  DarkInv'
  <1>1. PathInv /\ TypeOK /\ p \in Procs /\ Alone(p) /\ LookedUp(p)
    BY DEF DarkInv, KeyInv, PathInv
  <1>2. PICK c, j, first : /\ c = inv[p].cmd /\ j = inv'[p]
                           /\ first = IF c.verb = "execute" THEN "execute" ELSE "simulate"
    OBVIOUS
  <1>3. ~c.broadcast /\ c.key \in Keys \cup {NoKey}
    BY <1>1, <1>2, CommandCareful, CommandFits
  <1>4. /\ inv[p].pc = "minting" /\ record[r] = NoRecord /\ UNCHANGED <<wire, srv>>
        /\ \A q \in Runs \ {r} : record'[q] = record[q] /\ given'[q] = given[q]
        /\ j.pc = "idle" \/ (j.pc \in Gate /\ j.run = r /\ record'[r] # NoRecord /\ j.step = first)
        /\ \/ record' = record /\ given' = given
           \/ /\ record'[r] # NoRecord /\ given'[r].key = c.key /\ given'[r].shape = {first}
              /\ record'[r]["execute"].state = "not_started"
    BY <1>1, <1>2, <1>3, MintDoes
  <1>5. j.pc \notin {"minting"} /\ (j.pc = "idle" => j.pc \notin AtStep)
    BY <1>4 DEF AtStep, Gate, Sending
  <1>6. CASE record' = record /\ given' = given
    <2>1. j.pc = "idle"
      BY <1>4, <1>6
    <2>2. \A q \in Procs : Alone(q)'
      BY <1>2, <1>5, <2>1 DEF Alone
    <2>3. \A q \in Runs : given'[q].shape # StepNames /\ Backed(q)'
      BY <1>4, <1>6 DEF DarkInv, Backed, KeyOf
    <2>4. \A k \in Keys \cup (Runs \X StepNames) : Served(k)'
      BY <1>4, <1>6 DEF DarkInv, Served, KeyOf
    <2>5. \A q, s \in Runs : ExecOpen(q)' /\ ExecOpen(s)' => q = s
      BY <1>6 DEF DarkInv, ExecOpen
    <2> QED BY <1>6, <2>2, <2>3, <2>4, <2>5 DEF DarkInv
  <1>7. CASE /\ record'[r] # NoRecord /\ given'[r].key = c.key /\ given'[r].shape = {first}
             /\ record'[r]["execute"].state = "not_started"
    <2>1. \A q \in Runs : given'[q].shape # StepNames
      <3>1. {first} # StepNames
        BY Names
      <3> QED BY <1>4, <1>7, <3>1 DEF DarkInv
    <2>2. \A q \in Runs \ {r} : \A s \in StepNames : KeyOf(q, s)' = KeyOf(q, s)
      BY <1>4 DEF KeyOf
    <2>3. \A q \in Runs \ {r} : Backed(q)'
      BY <1>4, <2>2, Names DEF DarkInv, Backed
    <2>4. Backed(r)'
      <3>1. ~\E m \in wire : m.run = r
        BY <1>1, <1>4 DEF PathInv, Wired
      <3>2. PICK k : k = IF c.key = NoKey THEN <<r, "execute">> ELSE c.key
        OBVIOUS
      <3>3. KeyOf(r, "execute")' = k /\ k \in Keys \cup (Runs \X StepNames)
        BY <1>3, <1>7, <3>2, Names DEF KeyOf
      <3>4. ASSUME NEW q \in Runs, NEW s \in StepNames, record[q] # NoRecord, KeyOf(q, s) = k PROVE FALSE
        <4>1. q # r /\ given[q].key \in Keys \cup {NoKey}
          BY <1>1, <1>4, <3>4 DEF TypeOK
        <4>2. \A l \in Keys : l # <<q, s>> /\ l # <<r, "execute">>
          BY MoneyAssumption, Names
        <4>3. c.key # NoKey => given[q].key # c.key
          BY <1>1, <1>2, <1>4, <3>4 DEF LookedUp, Matches
        <4> QED BY <1>3, <3>2, <3>4, <4>1, <4>2, <4>3 DEF KeyOf
      <3>5. srv[k] = "none"
        BY <3>3, <3>4 DEF DarkInv, Served
      <3> QED BY <1>4, <3>1, <3>3, <3>5 DEF Backed
    <2>5. \A q \in Runs : given'[q].shape # {} => record'[q] # NoRecord
      BY <1>4, <1>7 DEF DarkInv
    <2>6. \A q \in Runs : record'[q] # NoRecord /\ record'[q]["execute"].state = "answered" =>
                             record'[q]["execute"].outcome = "resumable"
      BY <1>4, <1>7 DEF DarkInv
    <2>7. ASSUME NEW k \in Keys \cup (Runs \X StepNames) PROVE Served(k)'
      <3> SUFFICES ASSUME srv[k] # "none"
                   PROVE  \E q \in Runs, s \in StepNames :
                             record'[q] # NoRecord /\ s \in given'[q].shape /\ KeyOf(q, s)' = k
        BY <1>4 DEF Served
      <3>1. PICK q \in Runs, s \in StepNames : record[q] # NoRecord /\ s \in given[q].shape /\ KeyOf(q, s) = k
        BY DEF DarkInv, Served
      <3>2. q # r
        BY <1>4, <3>1
      <3> QED BY <1>4, <2>2, <3>1, <3>2
    <2>8. ~ExecOpen(r)' /\ \A q \in Runs \ {r} : ExecOpen(q)' <=> ExecOpen(q)
      <3>1. ~Unresolved(record'[r]["execute"])
        BY <1>7 DEF Unresolved
      <3> QED BY <1>4, <3>1 DEF ExecOpen, Unresolved
    <2>9. \A q, s \in Runs : ExecOpen(q)' /\ ExecOpen(s)' => q = s
      BY <2>8 DEF DarkInv
    <2>10. Alone(p)'
      <3>1. ASSUME j.pc \in AtStep, j.step = "execute", NEW q \in Runs PROVE ~ExecOpen(q)'
        BY <1>1, <1>2, <1>4, <1>5, <2>8, <3>1 DEF Alone
      <3> QED BY <1>2, <1>5, <3>1 DEF Alone
    <2> QED BY <2>1, <2>3, <2>4, <2>5, <2>6, <2>7, <2>9, <2>10 DEF DarkInv
  <1> QED BY <1>4, <1>6, <1>7

LEMMA DarkKeeps ==
    ASSUME NEW p, Procs = {p}, Cautious, DarkInv, [Next]_vars
    PROVE  DarkInv'
  <1>1. PathInv /\ KeyInv
    BY DEF DarkInv, KeyInv
  <1>2. KeyInv'
    BY <1>1, KeyKeeps
  <1> QED BY <1>1, <1>2, NextStrides, StrideKeepsDark, MintKeepsDark

LEMMA DarkStarts ==
    ASSUME Init
    PROVE  DarkInv
  <1>1. KeyInv
    BY KeyStarts
  <1>2. \A r \in Runs : given[r].shape = {} /\ record[r] = NoRecord
    BY DEF Init
  <1>3. {} # StepNames
    BY Names
  <1>4. \A r \in Runs : Backed(r)
    BY <1>2 DEF Backed
  <1>5. \A k \in Keys \cup (Runs \X StepNames) : Served(k)
    BY DEF Init, Served
  <1>6. \A p \in Procs : Alone(p)
    BY DEF Init, Alone, Idle, AtStep, Gate, Sending
  <1> QED BY <1>1, <1>2, <1>3, <1>4, <1>5, <1>6 DEF DarkInv, ExecOpen

\* An execute that leaves finds every other run on record as not sent, or as
\* settled, and what is settled is true of the server.
LEMMA NothingInTheDark ==
    ASSUME NEW p, Procs = {p}, "denied" \notin Trouble, DarkInv, Sends,
           "execute" \in inv'[p].left \ inv[p].left, NEW r \in Runs \ {inv[p].run}, Transferred(r)
    PROVE  said[r]["execute"] = "accepted_upstream"
  <1>1. inv[p].pc = "sending" /\ inv[p].step = "execute"
    BY DEF Sends
  <1>2. ~ExecOpen(r)
    BY <1>1 DEF DarkInv, Alone, AtStep, Sending
  <1>3. record[r] # NoRecord /\ record[r]["execute"] \in Step
    BY Lone DEF Transferred
  <1>4. MayHaveSent(record[r]["execute"].state)
    BY DEF DarkInv, Backed, Transferred
  <1>5. record[r]["execute"].state = "terminal"
    BY <1>2, <1>3, <1>4 DEF DarkInv, ExecOpen, Unresolved, MayHaveSent
  <1>6. True(r)
    BY <1>3, <1>5 DEF DarkInv, KeyInv, PathInv, Content, OnRecord
  <1> QED BY <1>6 DEF True, Transferred

\* A caller who runs one command at a time, passes --allow-pending to no
\* execute and does not broadcast, sends no execute while another run has
\* moved money that the ledger does not state as moved: an execute that may
\* have been sent is on record as that before it leaves, stays unresolved
\* until the answer is known, and the orphan check refuses the next one (C18,
\* AC81).
THEOREM NoTransferInTheDark ==
    ASSUME NEW caller, Procs = {caller}, Cautious, "denied" \notin Trouble
    PROVE  Spec => NoSecondTransferInTheDark
  <1>1. Init => DarkInv
    BY DarkStarts
  <1>2. DarkInv /\ [Next]_vars => DarkInv'
    BY DarkKeeps
  <1>3. DarkInv /\ [Next]_vars =>
           [\A p \in Procs : \A s \in inv'[p].left \ inv[p].left :
              s = "execute" /\ ~inv[p].cmd.allow =>
              \A r \in Runs \ {inv[p].run} :
                  Transferred(r) => said[r]["execute"] = "accepted_upstream"]_vars
    <2>1. DarkInv => PathInv
      BY DEF DarkInv, KeyInv
    <2> QED BY <2>1, NextSends, NothingInTheDark
  <1>4. Spec =>
           [][\A p \in Procs : \A s \in inv'[p].left \ inv[p].left :
                s = "execute" /\ ~inv[p].cmd.allow =>
                \A r \in Runs \ {inv[p].run} :
                    Transferred(r) => said[r]["execute"] = "accepted_upstream"]_vars
    BY <1>1, <1>2, <1>3, PTL DEF Spec
  <1> QED BY <1>4 DEF NoSecondTransferInTheDark

=============================================================================
