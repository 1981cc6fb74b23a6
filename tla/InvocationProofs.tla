-------------------------- MODULE InvocationProofs --------------------------
(***************************************************************************)
(* Proofs about Invocation for every choice of commands and any number of  *)
(* signals.                                                                *)
(*                                                                         *)
(* What protects a transfer is the order in which the main goroutine and   *)
(* the listener do things, so the invariant says, for each place main can  *)
(* be at, what it has passed, marked and written down, and for each place  *)
(* of the listener what it has published.                                  *)
(***************************************************************************)
EXTENDS Invocation, TLAPS

\* Until it has ended, a command has failed at nothing, printed nothing and
\* has no exit code; what it is about to report is a class.
Unfinished ==
    /\ pc \in Body \cup {"parse"} => err = "none" /\ ~panicked /\ stdout = Blank
    /\ pc \in Body \cup {"parse", "finish"} => code = Running
    /\ pc \in {"after", "report"} => class \in Classes
    /\ class # "cli_fault"
    /\ err \in Classes => Properties[err].exit # 0
    /\ op \in MineOps

\* own is closed before the context is cancelled, and a request is cut off by
\* a cancelled context alone.
PublishedInOrder ==
    /\ listener = "told" => own
    /\ cancelled => own \/ pc = "ended"
    /\ pc = "answered" /\ ans = "cut" => cancelled

\* A money request is marked before it leaves.
MarkedBeforeSent == IsMoney /\ (pc = "send" \/ left # {}) => sent

\* ... is looked at for an interrupt before it is recorded, and passes that
\* look only while own is open.
LookedBeforeBegun ==
    /\ heard # {} => own
    /\ heard \cap passed = {}
    /\ pc \in {"begin", "mark"} \/ (IsMoney /\ pc = "send") => op \in passed
    /\ IsMoney => left \subseteq passed
    /\ \A o \in Ops : record[o] = "pending" => o \in passed

OnRecord(o) == record[o] \in {"ok", "followed"}

\* A class that means success has its answer on record, and the execute of a
\* broadcast follows a simulate that has.
SuccessOnRecord ==
    /\ line.verb = "broadcast" /\ op = "transfers_execute" => OnRecord("transfers_simulate")
    /\ (IsMoney /\ pc \in {"after", "report"} /\ Properties[class].exit = 0) => OnRecord(op)
    /\ (IsMoney /\ pc = "report" /\ Properties[class].exit = 0) => op = "transfers_execute"
    /\ (IsMoney /\ pc = "finish" /\ err = "none" /\ ~panicked) => \A o \in MineOps : OnRecord(o)

\* What a finished command left on stdout fits the way it ended.
DocumentFits ==
    /\ stdout.docs # <<>> => stdout.bytes
    /\ pc = "finish" /\ panicked => stdout = Blank
    /\ pc = "finish" /\ stdout.bytes /\ err \in {"interrupted", "cli_fault"} => stdout.failed
    /\ (line.json /\ pc = "finish" /\ ~panicked /\ (stdout.bytes \/ err = "none")) =>
          \/ stdout.docs = <<IF err = "none" THEN 0 ELSE ExitOf(err)>>
          \/ err # "none" /\ stdout.docs = <<>> /\ stdout.failed
    /\ (line.json /\ pc \in {"stop", "exit"}) =>
          \/ stdout.docs = <<code>>
          \/ stdout.docs = <<>> /\ stdout.failed

InvocationInv ==
    /\ TypeOK
    /\ Unfinished
    /\ PublishedInOrder
    /\ MarkedBeforeSent
    /\ LookedBeforeBegun
    /\ SuccessOnRecord
    /\ DocumentFits
    /\ ExitOneMeansNothingSent
    /\ SuccessIsRecorded
    /\ CutRequestIsNotRecorded

-----------------------------------------------------------------------------
(* The table and the requests of a verb.                                   *)

LEMMA ClassesAre ==
    Classes = {"done", "accepted_upstream", "cli_fault", "usage", "refused_fix", "refused_resimulate",
               "transient", "pending", "escalate", "upstream_failed"}
  BY DEF Classes, Properties

\* Two classes end with 0, one with 1.
LEMMA ExitFits ==
    ASSUME NEW c \in Classes
    PROVE  /\ Properties[c].exit \in 0 .. 8
           /\ Properties[c].exit = 0 => c \in {"done", "accepted_upstream"}
           /\ Properties[c].exit = 1 <=> c = "cli_fault"
  BY ClassesAre DEF Properties, Property

LEMMA OpsAre ==
    Ops = {"transfers_simulate", "transfers_execute", "create_api_key", "get_me", "list_corridors"}
  <1>1. DOMAIN RequestsOf = {"execute", "broadcast", "mint", "login", "read"}
    BY DEF RequestsOf
  <1>2. /\ RequestsOf["execute"] = <<"transfers_execute">>
        /\ RequestsOf["broadcast"] = <<"transfers_simulate", "transfers_execute">>
        /\ RequestsOf["mint"] = <<"create_api_key">>
        /\ RequestsOf["login"] = <<"get_me">>
        /\ RequestsOf["read"] = <<"list_corridors">>
    BY DEF RequestsOf
  <1> QED BY <1>1, <1>2 DEF Ops

LEMMA MineFits ==
    ASSUME line \in Lines
    PROVE  /\ MineOps \subseteq Ops
           /\ RequestsOf[line.verb][1] \in MineOps
           /\ line.verb = "execute" => MineOps = {"transfers_execute"}
           /\ line.verb = "broadcast" => /\ MineOps = {"transfers_simulate", "transfers_execute"}
                                         /\ RequestsOf[line.verb][1] = "transfers_simulate"
           /\ IsMoney <=> line.verb \in {"execute", "broadcast"}
  <1>1. line.verb \in {"execute", "broadcast", "mint", "login", "read"}
    BY InvocationAssumption DEF Lines, RequestsOf
  <1> QED BY <1>1, OpsAre DEF MineOps, RequestsOf, IsMoney, Money

\* An answer has one of seven classes; for a money request only "ok" means
\* success.
LEMMA ClassifyFits ==
    ASSUME NEW o \in Ops, NEW a \in Answers
    PROVE  /\ Classify(o, Input(a)) \in Classes \ {"cli_fault", "usage"}
           /\ o \in {"transfers_simulate", "transfers_execute"} /\ a # "ok"
                 => Properties[Classify(o, Input(a))].exit # 0
  <1> DEFINE k == OpClassOf[o]
  <1>1. /\ Operations = {"get_me", "list_api_keys", "create_api_key", "get_api_key", "revoke_api_key",
                         "list_corridors", "get_corridor", "transfers_simulate", "transfers_execute",
                         "get_command"}
        /\ k \in OpClasses
        /\ o \in {"transfers_simulate", "transfers_execute"} => k \in MoneyClasses
        /\ Ops \subseteq Operations
    BY OpsAre DEF Operations, OpClassOf, OpClasses, MoneyClasses
  <1>2. a \in {"ok", "refused", "accepted", "error", "lost", "none", "unsent", "cut"}
    BY DEF Answers, Replies
  <1>3. RowOf("VALIDATION_FAILED")[k] = "refused_fix"
    BY <1>1 DEF RowOf, Row, FixCodes, SpentOnExecuteCodes, PlanUnusableCodes, TransientCodes, OffSurfaceCodes,
                UnsureCodes, HeldKeyCodes, OpClasses, MoneyClasses
  <1>4. RowOf("INTERNAL_ERROR")[k] \in {"pending", "transient"}
    BY <1>1 DEF RowOf, Row, FixCodes, SpentOnExecuteCodes, PlanUnusableCodes, TransientCodes, OffSurfaceCodes,
                UnsureCodes, HeldKeyCodes, OpClasses, MoneyClasses
  <1>5. "VALIDATION_FAILED" \in Codes /\ "INTERNAL_ERROR" \in Codes
    BY DEF Codes, FixCodes, UnsureCodes
  <1>6. CASE a \in {"lost", "cut", "unsent"}
    <2>1. Input(a).transport # "none"
      BY <1>6 DEF Input
    <2>2. Classify(o, Input(a)) \in {"pending", "transient"}
      BY <1>1, <2>1 DEF Classify, ClassifyTransport
    <2> QED BY <2>2, ClassesAre, ExitFits
  <1>7. CASE a \in {"ok", "accepted"}
    <2>1. Input(a).transport = "none" /\ Input(a).status \in 200 .. 299
          /\ Input(a).txn = "pending" /\ (a = "accepted" => Input(a).status = 202)
      BY <1>7 DEF Input
    <2>2. Input(a).parsed
      BY <1>7, Zenon DEF Input
    <2>3. Classify(o, Input(a)) \in {"pending", "accepted_upstream", "done"}
          /\ (a = "accepted" => Classify(o, Input(a)) = "pending")
      BY <1>1, <2>1, <2>2 DEF Classify, ClassifySuccess
    <2> QED BY <1>7, <2>3, ClassesAre, ExitFits
  <1>8. CASE a \in {"refused", "error", "none"}
    <2>1. /\ Input(a).transport = "none" /\ Input(a).status \notin 200 .. 299
          /\ Input(a).code = (IF a = "refused" THEN "VALIDATION_FAILED" ELSE "INTERNAL_ERROR")
      BY <1>8 DEF Input
    <2>2. Classify(o, Input(a)) = RowOf(Input(a).code)[k]
      BY <1>1, <1>5, <2>1 DEF Classify, Verdict, NoEnvelope
    <2> QED BY <1>3, <1>4, <2>1, <2>2, ClassesAre, ExitFits
  <1> QED BY <1>2, <1>6, <1>7, <1>8

-----------------------------------------------------------------------------
(* The invariant, conjunct by conjunct.                                    *)

LEMMA Prelude ==
    ASSUME TypeOK, [Next]_vars
    PROVE  line' = line /\ MineOps' = MineOps /\ IsMoney' = IsMoney
  <1>1. line' = line
    BY DEF Next, Main, Listener, World, Ended, vars, cli, ListenOnly, BadUsage, Start, Finish, Stop, Exit, Prepare,
           Gate, AwaitConfirmation, Look, Prompt, Decline, Check, Begin, Mark, Send, Cut, Answered,
           FollowInterrupted, After, Report, Take, See, Publish, Typed, Return, Follow, Panic, Signal, Answer, Serve
  <1> QED BY <1>1 DEF MineOps, IsMoney

\* A document is written whole, or stdout has failed.
LEMMA WriteFits ==
    ASSUME NEW exit \in 0 .. 8, stdout \in Documents, stdout.docs = <<>>, WriteDocument(exit)
    PROVE  /\ stdout' \in Documents
           /\ \/ stdout'.docs = <<exit>> /\ stdout'.bytes /\ stdout'.failed = stdout.failed
              \/ stdout'.docs = <<>> /\ stdout'.failed
  <1>1. Append(<<>>, exit) = <<exit>>
    OBVIOUS
  <1>2. CASE stdout' = [stdout EXCEPT !.docs = Append(@, exit), !.bytes = TRUE]
    BY <1>1, <1>2 DEF Documents
  <1>3. CASE stdout' = [stdout EXCEPT !.bytes = TRUE, !.failed = TRUE]
    BY <1>3 DEF Documents
  <1>4. CASE stdout' = [stdout EXCEPT !.failed = TRUE]
    BY <1>4 DEF Documents
  <1> QED BY <1>2, <1>3, <1>4 DEF WriteDocument

LEMMA TypeStep ==
    ASSUME TypeOK, Unfinished, DocumentFits, [Next]_vars
    PROVE  TypeOK'
  <1> USE DEF TypeOK, Unfinished, cli, body, result, signalling, net, Running, Killed, Answers, Replies, Blank, PCs, Body, Documents
  <1>1. CASE BadUsage
    <2>1. Properties["usage"].exit = 2
      BY DEF Properties, Property
    <2>2. stdout' \in Documents
      BY <1>1, <2>1, WriteFits DEF BadUsage
    <2> QED BY <1>1, <2>1, <2>2 DEF BadUsage
  <1>2. CASE Start
    BY <1>2, OpsAre, ClassesAre, ExitFits, Prelude, MineFits DEF Start, Goto
  <1>3. CASE Finish
    <2>1. panicked \/ err # "none" => ClassifyEnd \in Classes
      BY ClassesAre DEF ClassifyEnd, Pending
    <2>2. err # "none" => ExitOf(err) \in 0 .. 8
      BY ClassesAre, ExitFits DEF ExitOf
    <2>3. code' \in 0 .. 8
      BY <1>3, <2>1, <2>2, ExitFits DEF Finish
    <2>4. stdout' \in Documents
      BY <1>3, <2>1, ExitFits, WriteFits DEF Finish, DocumentFits
    <2> QED BY <1>3, <2>3, <2>4 DEF Finish, Goto
  <1>4. CASE Stop
    BY <1>4, OpsAre, ClassesAre, ExitFits, Prelude, MineFits DEF Stop, Goto
  <1>5. CASE Exit
    BY <1>5, OpsAre, ClassesAre, ExitFits, Prelude, MineFits DEF Exit, Goto
  <1>6. CASE Prepare
    BY <1>6, OpsAre, ClassesAre, ExitFits, Prelude, MineFits DEF Prepare, Goto, Fail
  <1>7. CASE Gate
    BY <1>7, OpsAre, ClassesAre, ExitFits, Prelude, MineFits DEF Gate, Goto
  <1>8. CASE AwaitConfirmation
    BY <1>8, OpsAre, ClassesAre, ExitFits, Prelude, MineFits DEF AwaitConfirmation, Goto, Fail
  <1>9. CASE Look
    BY <1>9, OpsAre, ClassesAre, ExitFits, Prelude, MineFits DEF Look, Goto
  <1>10. CASE Prompt
    BY <1>10, OpsAre, ClassesAre, ExitFits, Prelude, MineFits DEF Prompt, Goto, Fail
  <1>11. CASE Decline
    BY <1>11, OpsAre, ClassesAre, ExitFits, Prelude, MineFits DEF Decline, Fail
  <1>12. CASE Check
    <2>1. passed' \subseteq Ops /\ pc' \in PCs /\ err' \in {"none", "interrupted"} /\ UNCHANGED panicked
      BY <1>12 DEF Check, Goto, Fail
    <2> QED BY <1>12, <2>1 DEF Check
  <1>13. CASE Begin
    BY <1>13, OpsAre, ClassesAre, ExitFits, Prelude, MineFits DEF Begin, Goto, Fail
  <1>14. CASE Mark
    BY <1>14, OpsAre, ClassesAre, ExitFits, Prelude, MineFits DEF Mark, Goto
  <1>15. CASE Send
    <2>1. wire' \in {"idle", "out"} \cup Replies /\ left' \subseteq Ops
      BY <1>15 DEF Send
    <2>2. pc' \in PCs /\ ans' \in Answers /\ UNCHANGED result
      BY <1>15 DEF Send, Goto
    <2> QED BY <1>15, <2>1, <2>2 DEF Send
  <1>16. CASE Cut
    BY <1>16, OpsAre, ClassesAre, ExitFits, Prelude, MineFits DEF Cut, Goto
  <1>17. CASE Answered
    <2>1. class' \in Classes \cup {"none"}
      BY <1>17, ClassifyFits DEF Answered
    <2>2. pc' \in PCs /\ err' \in {"none", "interrupted", "cli_fault"} /\ UNCHANGED panicked
      BY <1>17 DEF Answered, Goto, Fail
    <2>3. record' \in [Ops -> Answers \cup {"followed", "awaiting", "pending", "declined", "unreachable"}]
      BY <1>17, OpsAre DEF Answered
    <2> QED BY <1>17, <2>1, <2>2, <2>3, ClassesAre DEF Answered
  <1>18. CASE FollowInterrupted
    BY <1>18, OpsAre, ClassesAre, ExitFits, Prelude, MineFits DEF FollowInterrupted, Fail
  <1>19. CASE After
    BY <1>19, OpsAre, ClassesAre, ExitFits, Prelude, MineFits DEF After, Goto, Fail
  <1>20. CASE Report
    <2>1. err' \in Classes \cup {"none"}
      BY <1>20, ClassesAre DEF Report
    <2>2. stdout' \in Documents
      <3>1. CASE line.json
        BY <1>20, <3>1, ExitFits, WriteFits DEF Report
      <3>2. CASE ~line.json
        BY <1>20, <3>2 DEF Report
      <3> QED BY <3>1, <3>2
    <2>3. pc' \in PCs /\ UNCHANGED panicked
      BY <1>20 DEF Report
    <2>4. UNCHANGED <<cli, body, sent, signalling, key, net, passed>>
      BY <1>20 DEF Report
    <2> QED BY <2>1, <2>2, <2>3, <2>4
  <1>21. CASE Take
    <2>1. slot' \in BOOLEAN /\ listener' = "took"
      BY <1>21 DEF Take
    <2> QED BY <1>21, <2>1 DEF Take, ListenOnly
  <1>22. CASE See
    BY <1>22, OpsAre, ClassesAre, ExitFits, Prelude, MineFits DEF See, ListenOnly
  <1>23. CASE Publish
    <2>1. heard' \subseteq Ops /\ own' \in BOOLEAN /\ cancelled' \in BOOLEAN
          /\ listener' \in {"told", "gone"}
      BY <1>23, MineFits DEF Publish, CloseOwn, Cancel
    <2> QED BY <1>23, <2>1 DEF Publish, ListenOnly
  <1>24. CASE Typed
    BY <1>24, OpsAre, ClassesAre, ExitFits, Prelude, MineFits DEF Typed, Goto, Fail
  <1>25. CASE Return
    BY <1>25, OpsAre, ClassesAre, ExitFits, Prelude, MineFits DEF Return, Goto
  <1>26. CASE Follow
    BY <1>26, OpsAre, ClassesAre, ExitFits, Prelude, MineFits DEF Follow, Goto, Fail, FollowedClasses
  <1>27. CASE Panic
    BY <1>27, OpsAre, ClassesAre, ExitFits, Prelude, MineFits DEF Panic
  <1>28. CASE Signal
    <2>1. signals' \in 0 .. MaxSignals
      BY <1>28, InvocationAssumption DEF Signal
    <2>2. pc' \in PCs /\ code' \in {Killed} \cup {code} /\ slot' \in BOOLEAN
      BY <1>28 DEF Signal
    <2> QED BY <1>28, <2>1, <2>2 DEF Signal
  <1>29. CASE Answer
    BY <1>29, OpsAre, ClassesAre, ExitFits, Prelude, MineFits DEF Answer
  <1>30. CASE Serve
    BY <1>30, OpsAre, ClassesAre, ExitFits, Prelude, MineFits DEF Serve
  <1>31. CASE UNCHANGED vars
    BY <1>31, OpsAre, ClassesAre, ExitFits, Prelude, MineFits DEF vars
  <1> QED
    BY <1>1, <1>2, <1>3, <1>4, <1>5, <1>6, <1>7, <1>8, <1>9, <1>10, <1>11, <1>12, <1>13, <1>14, <1>15, <1>16, <1>17, <1>18, <1>19, <1>20, <1>21, <1>22, <1>23, <1>24, <1>25, <1>26, <1>27, <1>28, <1>29, <1>30, <1>31 DEF Next, Main, Listener, World, Ended

LEMMA UnfinishedStep ==
    ASSUME TypeOK, Unfinished, DocumentFits, [Next]_vars
    PROVE  Unfinished'
  <1> USE DEF cli, body, result, signalling, net, Unfinished, Body, Running, Killed
  <1>1. CASE BadUsage
    BY <1>1, Prelude, ExitFits, ClassesAre DEF BadUsage, WriteDocument, TypeOK
  <1>2. CASE Start
    BY <1>2, Prelude, ExitFits, ClassesAre DEF Start, Goto, TypeOK
  <1>3. CASE Finish
    BY <1>3, Prelude, ExitFits, ClassesAre DEF Finish, Goto, WriteDocument, ExitOf, ClassifyEnd, Pending, TypeOK
  <1>4. CASE Stop
    BY <1>4, Prelude, ExitFits, ClassesAre DEF Stop, Goto, TypeOK
  <1>5. CASE Exit
    BY <1>5, Prelude, ExitFits, ClassesAre DEF Exit, Goto, TypeOK
  <1>6. CASE Prepare
    BY <1>6, Prelude, ExitFits, ClassesAre DEF Prepare, Goto, Fail, TypeOK
  <1>7. CASE Gate
    BY <1>7, Prelude, ExitFits, ClassesAre DEF Gate, Goto, TypeOK
  <1>8. CASE AwaitConfirmation
    BY <1>8, Prelude, ExitFits, ClassesAre DEF AwaitConfirmation, Goto, Fail, TypeOK
  <1>9. CASE Look
    BY <1>9, Prelude, ExitFits, ClassesAre DEF Look, Goto, TypeOK
  <1>10. CASE Prompt
    BY <1>10, Prelude, ExitFits, ClassesAre DEF Prompt, Goto, Fail, TypeOK
  <1>11. CASE Decline
    BY <1>11, Prelude, ExitFits, ClassesAre DEF Decline, Fail, TypeOK
  <1>12. CASE Check
    BY <1>12, Prelude, ExitFits, ClassesAre DEF Check, Goto, Fail, TypeOK
  <1>13. CASE Begin
    BY <1>13, Prelude, ExitFits, ClassesAre DEF Begin, Goto, Fail, TypeOK
  <1>14. CASE Mark
    BY <1>14, Prelude, ExitFits, ClassesAre DEF Mark, Goto, TypeOK
  <1>15. CASE Send
    BY <1>15, Prelude, ExitFits, ClassesAre DEF Send, Goto, TypeOK
  <1>16. CASE Cut
    BY <1>16, Prelude, ExitFits, ClassesAre DEF Cut, Goto, TypeOK
  <1>17. CASE Answered
    BY <1>17, Prelude, ExitFits, ClassesAre, ClassifyFits DEF Answered, Goto, Fail, TypeOK
  <1>18. CASE FollowInterrupted
    BY <1>18, Prelude, ExitFits, ClassesAre DEF FollowInterrupted, Fail, TypeOK
  <1>19. CASE After
    BY <1>19, Prelude, ExitFits, ClassesAre, MineFits DEF After, Goto, Fail, TypeOK
  <1>20. CASE Report
    BY <1>20, Prelude, ExitFits, ClassesAre DEF Report, WriteDocument, TypeOK
  <1>21. CASE Take
    BY <1>21, Prelude, ExitFits, ClassesAre DEF Take, ListenOnly, TypeOK
  <1>22. CASE See
    BY <1>22, Prelude, ExitFits, ClassesAre DEF See, ListenOnly, TypeOK
  <1>23. CASE Publish
    BY <1>23, Prelude, ExitFits, ClassesAre DEF Publish, ListenOnly, CloseOwn, Cancel, TypeOK
  <1>24. CASE Typed
    BY <1>24, Prelude, ExitFits, ClassesAre DEF Typed, Goto, Fail, TypeOK
  <1>25. CASE Return
    BY <1>25, Prelude, ExitFits, ClassesAre DEF Return, Goto, TypeOK
  <1>26. CASE Follow
    BY <1>26, Prelude, ExitFits, ClassesAre DEF Follow, Goto, Fail, FollowedClasses, TypeOK
  <1>27. CASE Panic
    BY <1>27, Prelude, ExitFits, ClassesAre DEF Panic, TypeOK
  <1>28. CASE Signal
    BY <1>28, Prelude, ExitFits, ClassesAre DEF Signal, TypeOK
  <1>29. CASE Answer
    BY <1>29, Prelude, ExitFits, ClassesAre DEF Answer, TypeOK
  <1>30. CASE Serve
    BY <1>30, Prelude, ExitFits, ClassesAre DEF Serve, TypeOK
  <1>31. CASE UNCHANGED vars
    BY <1>31, Prelude, ExitFits, ClassesAre DEF vars
  <1> QED
    BY <1>1, <1>2, <1>3, <1>4, <1>5, <1>6, <1>7, <1>8, <1>9, <1>10, <1>11, <1>12, <1>13, <1>14, <1>15, <1>16, <1>17, <1>18, <1>19, <1>20, <1>21, <1>22, <1>23, <1>24, <1>25, <1>26, <1>27, <1>28, <1>29, <1>30, <1>31 DEF Next, Main, Listener, World, Ended

LEMMA PublishedStep ==
    ASSUME TypeOK, PublishedInOrder, [Next]_vars
    PROVE  PublishedInOrder'
  <1> USE DEF cli, body, result, signalling, net, PublishedInOrder
  <1>1. CASE BadUsage
    BY <1>1 DEF BadUsage, WriteDocument, TypeOK, Body
  <1>2. CASE Start
    BY <1>2 DEF Start, Goto, TypeOK, Body
  <1>3. CASE Finish
    BY <1>3 DEF Finish, Goto, WriteDocument, ExitOf, ClassifyEnd, Pending, TypeOK, Body
  <1>4. CASE Stop
    BY <1>4 DEF Stop, Goto, TypeOK, Body
  <1>5. CASE Exit
    BY <1>5 DEF Exit, Goto, TypeOK, Body
  <1>6. CASE Prepare
    BY <1>6 DEF Prepare, Goto, Fail, TypeOK, Body
  <1>7. CASE Gate
    BY <1>7 DEF Gate, Goto, TypeOK, Body
  <1>8. CASE AwaitConfirmation
    BY <1>8 DEF AwaitConfirmation, Goto, Fail, TypeOK, Body
  <1>9. CASE Look
    BY <1>9 DEF Look, Goto, TypeOK, Body
  <1>10. CASE Prompt
    BY <1>10 DEF Prompt, Goto, Fail, TypeOK, Body
  <1>11. CASE Decline
    BY <1>11 DEF Decline, Fail, TypeOK, Body
  <1>12. CASE Check
    BY <1>12 DEF Check, Goto, Fail, TypeOK, Body
  <1>13. CASE Begin
    BY <1>13 DEF Begin, Goto, Fail, TypeOK, Body
  <1>14. CASE Mark
    BY <1>14 DEF Mark, Goto, TypeOK, Body
  <1>15. CASE Send
    BY <1>15 DEF Send, Goto, TypeOK, Body
  <1>16. CASE Cut
    BY <1>16 DEF Cut, Goto, TypeOK, Body
  <1>17. CASE Answered
    BY <1>17 DEF Answered, Goto, Fail, TypeOK, Body
  <1>18. CASE FollowInterrupted
    BY <1>18 DEF FollowInterrupted, Fail, TypeOK, Body
  <1>19. CASE After
    BY <1>19 DEF After, Goto, Fail, TypeOK, Body
  <1>20. CASE Report
    BY <1>20 DEF Report, WriteDocument, TypeOK, Body
  <1>21. CASE Take
    BY <1>21 DEF Take, ListenOnly, TypeOK, Body
  <1>22. CASE See
    BY <1>22 DEF See, ListenOnly, TypeOK, Body
  <1>23. CASE Publish
    BY <1>23 DEF Publish, ListenOnly, CloseOwn, Cancel, TypeOK, Body
  <1>24. CASE Typed
    BY <1>24 DEF Typed, Goto, Fail, TypeOK, Body
  <1>25. CASE Return
    BY <1>25 DEF Return, Goto, Replies
  <1>26. CASE Follow
    BY <1>26 DEF Follow, Goto, Fail, FollowedClasses, TypeOK, Body
  <1>27. CASE Panic
    BY <1>27 DEF Panic, TypeOK, Body
  <1>28. CASE Signal
    BY <1>28 DEF Signal, TypeOK, Body
  <1>29. CASE Answer
    BY <1>29 DEF Answer, TypeOK, Body
  <1>30. CASE Serve
    BY <1>30 DEF Serve, TypeOK, Body
  <1>31. CASE UNCHANGED vars
    BY <1>31 DEF vars
  <1> QED
    BY <1>1, <1>2, <1>3, <1>4, <1>5, <1>6, <1>7, <1>8, <1>9, <1>10, <1>11, <1>12, <1>13, <1>14, <1>15, <1>16, <1>17, <1>18, <1>19, <1>20, <1>21, <1>22, <1>23, <1>24, <1>25, <1>26, <1>27, <1>28, <1>29, <1>30, <1>31 DEF Next, Main, Listener, World, Ended

LEMMA MarkedStep ==
    ASSUME TypeOK, MarkedBeforeSent, Unfinished, [Next]_vars
    PROVE  MarkedBeforeSent'
  <1> USE DEF cli, body, result, signalling, net, MarkedBeforeSent
  <1>1. CASE BadUsage
    BY <1>1, Prelude DEF BadUsage, WriteDocument, TypeOK, Body
  <1>2. CASE Start
    BY <1>2, Prelude DEF Start, Goto, TypeOK, Body
  <1>3. CASE Finish
    BY <1>3, Prelude DEF Finish, Goto, WriteDocument, ExitOf, ClassifyEnd, Pending, TypeOK, Body
  <1>4. CASE Stop
    BY <1>4, Prelude DEF Stop, Goto, TypeOK, Body
  <1>5. CASE Exit
    BY <1>5, Prelude DEF Exit, Goto, TypeOK, Body
  <1>6. CASE Prepare
    BY <1>6, Prelude DEF Prepare, Goto, Fail, TypeOK, Body
  <1>7. CASE Gate
    BY <1>7, Prelude DEF Gate, Goto, TypeOK, Body
  <1>8. CASE AwaitConfirmation
    BY <1>8, Prelude DEF AwaitConfirmation, Goto, Fail, TypeOK, Body
  <1>9. CASE Look
    BY <1>9, Prelude DEF Look, Goto, TypeOK, Body
  <1>10. CASE Prompt
    BY <1>10, Prelude DEF Prompt, Goto, Fail, TypeOK, Body
  <1>11. CASE Decline
    BY <1>11, Prelude DEF Decline, Fail, TypeOK, Body
  <1>12. CASE Check
    BY <1>12, Prelude DEF Check, Goto, Fail, TypeOK, Body
  <1>13. CASE Begin
    BY <1>13, Prelude DEF Begin, Goto, Fail, TypeOK, Body
  <1>14. CASE Mark
    BY <1>14, Prelude DEF Mark, Goto, TypeOK, Body
  <1>15. CASE Send
    BY <1>15, Prelude DEF Send, Goto, TypeOK, Body
  <1>16. CASE Cut
    BY <1>16, Prelude DEF Cut, Goto, TypeOK, Body
  <1>17. CASE Answered
    BY <1>17, Prelude DEF Answered, Goto, Fail, TypeOK, Body
  <1>18. CASE FollowInterrupted
    BY <1>18, Prelude DEF FollowInterrupted, Fail, TypeOK, Body
  <1>19. CASE After
    BY <1>19, Prelude DEF After, Goto, Fail, TypeOK, Body
  <1>20. CASE Report
    BY <1>20, Prelude DEF Report, WriteDocument, TypeOK, Body
  <1>21. CASE Take
    BY <1>21, Prelude DEF Take, ListenOnly, TypeOK, Body
  <1>22. CASE See
    BY <1>22, Prelude DEF See, ListenOnly, TypeOK, Body
  <1>23. CASE Publish
    BY <1>23, Prelude DEF Publish, ListenOnly, CloseOwn, Cancel, TypeOK, Body
  <1>24. CASE Typed
    BY <1>24, Prelude DEF Typed, Goto, Fail, TypeOK, Body
  <1>25. CASE Return
    BY <1>25, Prelude DEF Return, Goto, TypeOK, Body
  <1>26. CASE Follow
    BY <1>26, Prelude DEF Follow, Goto, Fail, FollowedClasses, TypeOK, Body
  <1>27. CASE Panic
    BY <1>27, Prelude DEF Panic, TypeOK, Body
  <1>28. CASE Signal
    BY <1>28, Prelude DEF Signal, TypeOK, Body
  <1>29. CASE Answer
    BY <1>29, Prelude DEF Answer, TypeOK, Body
  <1>30. CASE Serve
    BY <1>30, Prelude DEF Serve, TypeOK, Body
  <1>31. CASE UNCHANGED vars
    BY <1>31, Prelude DEF vars
  <1> QED
    BY <1>1, <1>2, <1>3, <1>4, <1>5, <1>6, <1>7, <1>8, <1>9, <1>10, <1>11, <1>12, <1>13, <1>14, <1>15, <1>16, <1>17, <1>18, <1>19, <1>20, <1>21, <1>22, <1>23, <1>24, <1>25, <1>26, <1>27, <1>28, <1>29, <1>30, <1>31 DEF Next, Main, Listener, World, Ended

LEMMA LookedStep ==
    ASSUME TypeOK, LookedBeforeBegun, Unfinished, PublishedInOrder, [Next]_vars
    PROVE  LookedBeforeBegun'
  <1> USE DEF cli, body, result, signalling, net, LookedBeforeBegun
  <1>1. CASE BadUsage
    BY <1>1, Prelude, MineFits DEF BadUsage, WriteDocument, TypeOK, Body, Answers, Replies
  <1>2. CASE Start
    BY <1>2, Prelude, MineFits DEF Start, Goto, TypeOK, Body, Answers, Replies
  <1>3. CASE Finish
    BY <1>3, Prelude, MineFits DEF Finish, Goto, WriteDocument, ExitOf, ClassifyEnd, Pending, TypeOK, Body, Answers, Replies
  <1>4. CASE Stop
    BY <1>4, Prelude, MineFits DEF Stop, Goto, TypeOK, Body, Answers, Replies
  <1>5. CASE Exit
    BY <1>5, Prelude, MineFits DEF Exit, Goto, TypeOK, Body, Answers, Replies
  <1>6. CASE Prepare
    BY <1>6, Prelude, MineFits DEF Prepare, Goto, Fail, TypeOK, Body, Answers, Replies
  <1>7. CASE Gate
    BY <1>7, Prelude, MineFits DEF Gate, Goto, TypeOK, Body, Answers, Replies
  <1>8. CASE AwaitConfirmation
    BY <1>8, Prelude, MineFits DEF AwaitConfirmation, Goto, Fail, TypeOK, Body, Answers, Replies
  <1>9. CASE Look
    BY <1>9, Prelude, MineFits DEF Look, Goto, TypeOK, Body, Answers, Replies
  <1>10. CASE Prompt
    BY <1>10, Prelude, MineFits DEF Prompt, Goto, Fail, TypeOK, Body, Answers, Replies
  <1>11. CASE Decline
    BY <1>11, Prelude, MineFits DEF Decline, Fail, TypeOK, Body, Answers, Replies
  <1>12. CASE Check
    BY <1>12, Prelude, MineFits DEF Check, Goto, Fail, TypeOK, Body, Answers, Replies
  <1>13. CASE Begin
    <2>1. passed' = passed /\ heard' = heard /\ own' = own /\ left' = left
      BY <1>13 DEF Begin
    <2>2. \A o \in Ops : record'[o] = "pending" => record[o] = "pending" \/ o = op
      BY <1>13 DEF Begin, TypeOK
    <2>3. pc' \in {"mark", "finish"}
      BY <1>13 DEF Begin, Goto, Fail
    <2> QED BY <1>13, <2>1, <2>2, <2>3, Prelude DEF Begin
  <1>14. CASE Mark
    BY <1>14, Prelude, MineFits DEF Mark, Goto, TypeOK, Body, Answers, Replies
  <1>15. CASE Send
    BY <1>15, Prelude, MineFits DEF Send, Goto, TypeOK, Body, Answers, Replies
  <1>16. CASE Cut
    BY <1>16, Prelude, MineFits DEF Cut, Goto, TypeOK, Body, Answers, Replies
  <1>17. CASE Answered
    BY <1>17, Prelude, MineFits DEF Answered, Goto, Fail, TypeOK, Body, Answers, Replies
  <1>18. CASE FollowInterrupted
    BY <1>18, Prelude, MineFits DEF FollowInterrupted, Fail, TypeOK, Body, Answers, Replies
  <1>19. CASE After
    BY <1>19, Prelude, MineFits DEF After, Goto, Fail, TypeOK, Body, Answers, Replies
  <1>20. CASE Report
    <2>1. pc' = "finish" /\ UNCHANGED <<cli, body, signalling, net, passed>>
      BY <1>20 DEF Report
    <2> QED BY <2>1, Prelude
  <1>21. CASE Take
    BY <1>21, Prelude, MineFits DEF Take, ListenOnly, TypeOK, Body, Answers, Replies
  <1>22. CASE See
    BY <1>22, Prelude, MineFits DEF See, ListenOnly, TypeOK, Body, Answers, Replies
  <1>23. CASE Publish
    BY <1>23, Prelude, MineFits DEF Publish, ListenOnly, CloseOwn, Cancel, TypeOK, Body, Answers, Replies
  <1>24. CASE Typed
    BY <1>24, Prelude, MineFits DEF Typed, Goto, Fail, TypeOK, Body, Answers, Replies
  <1>25. CASE Return
    BY <1>25, Prelude, MineFits DEF Return, Goto, TypeOK, Body, Answers, Replies
  <1>26. CASE Follow
    BY <1>26, Prelude, MineFits DEF Follow, Goto, Fail, FollowedClasses, TypeOK, Body, Answers, Replies
  <1>27. CASE Panic
    BY <1>27, Prelude, MineFits DEF Panic, TypeOK, Body, Answers, Replies
  <1>28. CASE Signal
    BY <1>28, Prelude, MineFits DEF Signal, TypeOK, Body, Answers, Replies
  <1>29. CASE Answer
    BY <1>29, Prelude, MineFits DEF Answer, TypeOK, Body, Answers, Replies
  <1>30. CASE Serve
    BY <1>30, Prelude, MineFits DEF Serve, TypeOK, Body, Answers, Replies
  <1>31. CASE UNCHANGED vars
    BY <1>31, Prelude, MineFits DEF vars
  <1> QED
    BY <1>1, <1>2, <1>3, <1>4, <1>5, <1>6, <1>7, <1>8, <1>9, <1>10, <1>11, <1>12, <1>13, <1>14, <1>15, <1>16, <1>17, <1>18, <1>19, <1>20, <1>21, <1>22, <1>23, <1>24, <1>25, <1>26, <1>27, <1>28, <1>29, <1>30, <1>31 DEF Next, Main, Listener, World, Ended

LEMMA SuccessStep ==
    ASSUME TypeOK, SuccessOnRecord, Unfinished, PublishedInOrder, [Next]_vars
    PROVE  SuccessOnRecord'
  <1> USE DEF cli, body, result, signalling, net, SuccessOnRecord, OnRecord
  <1>1. CASE BadUsage
    BY <1>1, Prelude, MineFits, OpsAre DEF BadUsage, WriteDocument, TypeOK, Body
  <1>2. CASE Start
    BY <1>2, Prelude, MineFits, OpsAre DEF Start, Goto, TypeOK, Body
  <1>3. CASE Finish
    BY <1>3, Prelude, MineFits, OpsAre DEF Finish, Goto, WriteDocument, ExitOf, ClassifyEnd, Pending, TypeOK, Body
  <1>4. CASE Stop
    BY <1>4, Prelude, MineFits, OpsAre DEF Stop, Goto, TypeOK, Body
  <1>5. CASE Exit
    BY <1>5, Prelude, MineFits, OpsAre DEF Exit, Goto, TypeOK, Body
  <1>6. CASE Prepare
    BY <1>6, Prelude, MineFits, OpsAre DEF Prepare, Goto, Fail, TypeOK, Body
  <1>7. CASE Gate
    BY <1>7, Prelude, MineFits, OpsAre DEF Gate, Goto, TypeOK, Body
  <1>8. CASE AwaitConfirmation
    BY <1>8, Prelude, MineFits, OpsAre DEF AwaitConfirmation, Goto, Fail, TypeOK, Body
  <1>9. CASE Look
    BY <1>9, Prelude, MineFits, OpsAre DEF Look, Goto, TypeOK, Body
  <1>10. CASE Prompt
    BY <1>10, Prelude, MineFits, OpsAre DEF Prompt, Goto, Fail, TypeOK, Body
  <1>11. CASE Decline
    BY <1>11, Prelude, MineFits, OpsAre DEF Decline, Fail, TypeOK, Body
  <1>12. CASE Check
    BY <1>12, Prelude, MineFits, OpsAre DEF Check, Goto, Fail, TypeOK, Body
  <1>13. CASE Begin
    BY <1>13, Prelude, MineFits, OpsAre DEF Begin, Goto, Fail, TypeOK, Body
  <1>14. CASE Mark
    BY <1>14, Prelude, MineFits, OpsAre DEF Mark, Goto, TypeOK, Body
  <1>15. CASE Send
    BY <1>15, Prelude, MineFits, OpsAre DEF Send, Goto, TypeOK, Body
  <1>16. CASE Cut
    BY <1>16, Prelude, MineFits, OpsAre DEF Cut, Goto, TypeOK, Body
  <1>17. CASE Answered
    <2>1. /\ op' = op /\ pc' \in {"finish", "after", "follow", "report"}
          /\ pc' = "finish" => err' # "none"
          /\ pc' = "report" => ~IsMoney
      BY <1>17 DEF Answered, Goto, Fail
    <2>2. op = "transfers_execute" => record'["transfers_simulate"] = record["transfers_simulate"]
      BY <1>17, OpsAre DEF Answered, TypeOK
    <2>3. (IsMoney /\ pc' = "after" /\ Properties[class'].exit = 0) => OnRecord(op)'
      <3>1. IsMoney => op \in {"transfers_simulate", "transfers_execute"}
        BY MineFits DEF Unfinished, TypeOK
      <3>2. IsMoney /\ pc' = "after" => class' = Classify(op, Input(ans))
        BY <1>17 DEF Answered, Fail
      <3>3. (IsMoney /\ pc' = "after") => (ans # "accepted" /\ record' = [record EXCEPT ![op] = ans])
        BY <1>17 DEF Answered, Fail, Goto
      <3> QED BY <2>1, <3>1, <3>2, <3>3, ClassifyFits, OpsAre DEF TypeOK
    <2> QED BY <2>1, <2>2, <2>3, Prelude
  <1>18. CASE FollowInterrupted
    BY <1>18, Prelude, MineFits, OpsAre DEF FollowInterrupted, Fail, TypeOK, Body
  <1>19. CASE After
    <2>1. IsMoney => op \in {"transfers_simulate", "transfers_execute"}
                    /\ (line.verb = "execute" => op = "transfers_execute")
      BY MineFits DEF Unfinished, TypeOK
    <2>2. CASE line.verb # "broadcast" \/ op = "transfers_execute"
      BY <1>19, <2>1, <2>2, Prelude, MineFits DEF After, Goto, TypeOK
    <2>3. CASE ~(line.verb # "broadcast" \/ op = "transfers_execute")
      <3>1. op = "transfers_simulate" /\ IsMoney
        BY <2>1, <2>3, MineFits DEF TypeOK
      <3>2. CASE Properties[class].exit = 0 /\ pc' # "report"
        <4>1. record' = record /\ (pc' = "gate" \/ (pc' = "finish" /\ err' = "cli_fault"))
          BY <1>19, <2>3, <3>2 DEF After, Goto, Fail
        <4> QED BY <1>19, <3>1, <3>2, <4>1, Prelude DEF After
      <3>3. CASE ~(Properties[class].exit = 0 /\ pc' # "report")
        <4>1. pc' = "report" /\ op' = op /\ class' = IF Properties[class].exit = 0 THEN "refused_resimulate" ELSE class
          BY <1>19, <2>3, <3>3 DEF After, Goto, Fail
        <4>2. Properties[class'].exit # 0
          BY <4>1, ClassesAre, ExitFits
        <4> QED BY <3>1, <4>1, <4>2, Prelude
      <3> QED BY <3>2, <3>3
    <2> QED BY <2>2, <2>3
  <1>20. CASE Report
    <2>1. pc' = "finish" /\ UNCHANGED <<cli, body>>
      BY <1>20 DEF Report
    <2>2. err' = "none" => Properties[class].exit = 0
      BY <1>20, ClassesAre DEF Report, Unfinished
    <2>3. (IsMoney /\ Properties[class].exit = 0) => \A o \in MineOps : OnRecord(o)
      BY <1>20, MineFits DEF Report, TypeOK
    <2> QED BY <2>1, <2>2, <2>3, Prelude
  <1>21. CASE Take
    BY <1>21, Prelude, MineFits, OpsAre DEF Take, ListenOnly, TypeOK, Body
  <1>22. CASE See
    BY <1>22, Prelude, MineFits, OpsAre DEF See, ListenOnly, TypeOK, Body
  <1>23. CASE Publish
    BY <1>23, Prelude, MineFits, OpsAre DEF Publish, ListenOnly, CloseOwn, Cancel, TypeOK, Body
  <1>24. CASE Typed
    BY <1>24, Prelude, MineFits, OpsAre DEF Typed, Goto, Fail, TypeOK, Body
  <1>25. CASE Return
    BY <1>25, Prelude, MineFits, OpsAre DEF Return, Goto, TypeOK, Body
  <1>26. CASE Follow
    <2>1. op' = op /\ (pc' = "after" \/ (pc' = "finish" /\ err' = "cli_fault"))
      BY <1>26 DEF Follow, Goto, Fail
    <2>2. \A o \in Ops : record'[o] \in {record[o], "followed"} /\ (o # op => record'[o] = record[o])
      BY <1>26 DEF Follow, TypeOK
    <2>3. pc' = "after" => class' = "pending" \/ record'[op] = "followed"
      BY <1>26 DEF Follow, TypeOK, Fail
    <2> QED BY <2>1, <2>2, <2>3, Prelude, OpsAre, ClassesAre, ExitFits DEF TypeOK
  <1>27. CASE Panic
    BY <1>27, Prelude, MineFits, OpsAre DEF Panic, TypeOK, Body
  <1>28. CASE Signal
    BY <1>28, Prelude, MineFits, OpsAre DEF Signal, TypeOK, Body
  <1>29. CASE Answer
    BY <1>29, Prelude, MineFits, OpsAre DEF Answer, TypeOK, Body
  <1>30. CASE Serve
    BY <1>30, Prelude, MineFits, OpsAre DEF Serve, TypeOK, Body
  <1>31. CASE UNCHANGED vars
    BY <1>31, Prelude, MineFits, OpsAre DEF vars
  <1> QED
    BY <1>1, <1>2, <1>3, <1>4, <1>5, <1>6, <1>7, <1>8, <1>9, <1>10, <1>11, <1>12, <1>13, <1>14, <1>15, <1>16, <1>17, <1>18, <1>19, <1>20, <1>21, <1>22, <1>23, <1>24, <1>25, <1>26, <1>27, <1>28, <1>29, <1>30, <1>31 DEF Next, Main, Listener, World, Ended

LEMMA DocumentStep ==
    ASSUME TypeOK, DocumentFits, Unfinished, [Next]_vars
    PROVE  DocumentFits'
  <1> USE DEF cli, body, result, signalling, net, DocumentFits, Unfinished, Blank
  <1>1. CASE BadUsage
    <2>1. Properties["usage"].exit = 2
      BY DEF Properties, Property
    <2>2. line.json => \/ stdout'.docs = <<2>> /\ stdout'.bytes
                       \/ stdout'.docs = <<>> /\ stdout'.failed
      <3>1. stdout.docs = <<>> /\ stdout \in Documents
        BY <1>1 DEF BadUsage, TypeOK
      <3>2. line.json => WriteDocument(2)
        BY <1>1, <2>1 DEF BadUsage
      <3> QED BY <3>1, <3>2, WriteFits
    <2>3. ~line.json => stdout' = stdout
      BY <1>1 DEF BadUsage
    <2> QED BY <1>1, <2>1, <2>2, <2>3, Prelude DEF BadUsage
  <1>2. CASE Start
    BY <1>2, Prelude DEF Start, Goto, TypeOK, Body
  <1>3. CASE Finish
    <2>1. pc = "finish" /\ pc' = "stop"
      BY <1>3 DEF Finish, Goto
    <2>2. CASE ~panicked /\ err = "none"
      <3>1. code' = 0 /\ stdout' = stdout
        BY <1>3, <2>2 DEF Finish
      <3> QED BY <2>1, <2>2, <3>1, Prelude
    <2>3. CASE ~panicked /\ err # "none" /\ stdout.bytes
      <3>1. code' = ExitOf(err) /\ stdout' = stdout
        BY <1>3, <2>3 DEF Finish
      <3> QED BY <2>1, <2>3, <3>1, Prelude
    <2>4. CASE panicked \/ (err # "none" /\ ~stdout.bytes)
      <3>1. stdout.docs = <<>>
        BY <2>1, <2>4
      <3>2. ClassifyEnd \in Classes
        BY <2>4, ClassesAre DEF ClassifyEnd, Pending, TypeOK
      <3>3. code' = Properties[ClassifyEnd].exit /\ code' \in 0 .. 8
        BY <1>3, <2>4, <3>2, ExitFits DEF Finish
      <3>4. line.json => \/ stdout'.docs = <<code'>> /\ stdout'.bytes
                         \/ stdout'.docs = <<>> /\ stdout'.failed
        BY <1>3, <2>1, <2>4, <3>1, <3>3, WriteFits DEF Finish, TypeOK
      <3>5. ~line.json => stdout' = stdout
        BY <1>3, <2>4 DEF Finish
      <3> QED BY <2>1, <3>1, <3>4, <3>5, Prelude
    <2> QED BY <1>3, <2>2, <2>3, <2>4 DEF Finish
  <1>4. CASE Stop
    BY <1>4, Prelude DEF Stop, Goto, TypeOK, Body
  <1>5. CASE Exit
    BY <1>5, Prelude DEF Exit, Goto, TypeOK, Body
  <1>6. CASE Prepare
    BY <1>6, Prelude DEF Prepare, Goto, Fail, TypeOK, Body
  <1>7. CASE Gate
    BY <1>7, Prelude DEF Gate, Goto, TypeOK, Body
  <1>8. CASE AwaitConfirmation
    BY <1>8, Prelude DEF AwaitConfirmation, Goto, Fail, TypeOK, Body
  <1>9. CASE Look
    BY <1>9, Prelude DEF Look, Goto, TypeOK, Body
  <1>10. CASE Prompt
    BY <1>10, Prelude DEF Prompt, Goto, Fail, TypeOK, Body
  <1>11. CASE Decline
    BY <1>11, Prelude DEF Decline, Fail, TypeOK, Body
  <1>12. CASE Check
    BY <1>12, Prelude DEF Check, Goto, Fail, TypeOK, Body
  <1>13. CASE Begin
    BY <1>13, Prelude DEF Begin, Goto, Fail, TypeOK, Body
  <1>14. CASE Mark
    BY <1>14, Prelude DEF Mark, Goto, TypeOK, Body
  <1>15. CASE Send
    BY <1>15, Prelude DEF Send, Goto, TypeOK, Body
  <1>16. CASE Cut
    BY <1>16, Prelude DEF Cut, Goto, TypeOK, Body
  <1>17. CASE Answered
    BY <1>17, Prelude DEF Answered, Goto, Fail, TypeOK, Body
  <1>18. CASE FollowInterrupted
    BY <1>18, Prelude DEF FollowInterrupted, Fail, TypeOK, Body
  <1>19. CASE After
    BY <1>19, Prelude DEF After, Goto, Fail, TypeOK, Body
  <1>20. CASE Report
    <2>1. pc = "report" /\ pc' = "finish" /\ panicked' = panicked /\ panicked = FALSE /\ stdout = Blank /\ class \in Classes
      BY <1>20 DEF Report, TypeOK, Body
    <2>2. Properties[class].exit \in 0 .. 8 /\ class \notin {"none", "interrupted", "cli_fault"}
      BY <2>1, ExitFits, ClassesAre
    <2>3. CASE line.json
      <3>1. \/ stdout'.docs = <<Properties[class].exit>> /\ stdout'.bytes /\ ~stdout'.failed
            \/ stdout'.docs = <<>> /\ stdout'.failed
        BY <1>20, <2>1, <2>2, <2>3, WriteFits DEF Report, TypeOK
      <3>2. err' = IF stdout'.failed THEN "cli_fault" ELSE IF Properties[class].exit = 0 THEN "none" ELSE class
        BY <1>20, <2>3 DEF Report
      <3> QED BY <2>1, <2>2, <3>1, <3>2, Prelude DEF ExitOf
    <2>4. CASE ~line.json
      <3>1. stdout'.docs = <<>> /\ err' \notin {"interrupted", "cli_fault"}
        BY <1>20, <2>1, <2>2, <2>4 DEF Report
      <3> QED BY <2>1, <2>4, <3>1, Prelude
    <2> QED BY <2>3, <2>4
  <1>21. CASE Take
    BY <1>21, Prelude DEF Take, ListenOnly, TypeOK, Body
  <1>22. CASE See
    BY <1>22, Prelude DEF See, ListenOnly, TypeOK, Body
  <1>23. CASE Publish
    BY <1>23, Prelude DEF Publish, ListenOnly, CloseOwn, Cancel, TypeOK, Body
  <1>24. CASE Typed
    BY <1>24, Prelude DEF Typed, Goto, Fail, TypeOK, Body
  <1>25. CASE Return
    BY <1>25, Prelude DEF Return, Goto, TypeOK, Body
  <1>26. CASE Follow
    BY <1>26, Prelude DEF Follow, Goto, Fail, FollowedClasses, TypeOK, Body
  <1>27. CASE Panic
    BY <1>27, Prelude DEF Panic, TypeOK, Body
  <1>28. CASE Signal
    BY <1>28, Prelude DEF Signal, TypeOK, Body
  <1>29. CASE Answer
    BY <1>29, Prelude DEF Answer, TypeOK, Body
  <1>30. CASE Serve
    BY <1>30, Prelude DEF Serve, TypeOK, Body
  <1>31. CASE UNCHANGED vars
    BY <1>31, Prelude DEF vars
  <1> QED
    BY <1>1, <1>2, <1>3, <1>4, <1>5, <1>6, <1>7, <1>8, <1>9, <1>10, <1>11, <1>12, <1>13, <1>14, <1>15, <1>16, <1>17, <1>18, <1>19, <1>20, <1>21, <1>22, <1>23, <1>24, <1>25, <1>26, <1>27, <1>28, <1>29, <1>30, <1>31 DEF Next, Main, Listener, World, Ended

\* Once there is an exit code, stdout, the network and the record are settled.
LEMMA SettledOnceEnded ==
    ASSUME TypeOK, Unfinished, [Next]_vars, ~BadUsage, ~Finish, ~Signal
    PROVE  code' = code /\ (code # Running => UNCHANGED <<stdout, left, record>>)
  <1> USE DEF cli, body, net
  <1>1. CASE Start \/ Stop \/ Exit
    BY <1>1 DEF Start, Stop, Exit
  <1>2. CASE \/ Prepare \/ Gate \/ AwaitConfirmation \/ Look \/ Prompt \/ Decline \/ Check \/ Begin \/ Mark
             \/ Send \/ Cut \/ Answered \/ FollowInterrupted \/ After \/ Report \/ Typed \/ Return \/ Follow \/ Panic
    <2>1. pc \in Body
      BY <1>2 DEF Prepare, Gate, AwaitConfirmation, Look, Prompt, Decline, Check, Begin, Mark, Send, Cut, Answered,
                  FollowInterrupted, After, Report, Typed, Return, Follow, Panic, Body
    <2>2. code' = code
      BY <1>2 DEF Prepare, Gate, AwaitConfirmation, Look, Prompt, Decline, Check, Begin, Mark, Send, Cut, Answered,
                  FollowInterrupted, After, Report, Typed, Return, Follow, Panic
    <2> QED BY <2>1, <2>2 DEF Unfinished
  <1>3. CASE Take \/ See \/ Publish \/ Answer \/ Serve \/ UNCHANGED vars
    BY <1>3 DEF Take, See, Publish, Answer, Serve, ListenOnly, vars
  <1> QED BY <1>1, <1>2, <1>3 DEF Next, Main, Listener, World, Ended

LEMMA ExitOneStep ==
    ASSUME InvocationInv, [Next]_vars
    PROVE  ExitOneMeansNothingSent'
  <1> USE DEF InvocationInv, Running, Killed
  <1>0. Properties["cli_fault"].exit = 1
    BY DEF Properties, Property
  <1>1. CASE BadUsage
    <2>1. code' = 2
      BY <1>1 DEF BadUsage, Properties, Property
    <2> QED BY <1>0, <2>1 DEF ExitOneMeansNothingSent
  <1>2. CASE Signal
    <2>1. code' = -2 \/ (code' = code /\ pc' = pc)
      BY <1>2 DEF Signal, cli
    <2>2. UNCHANGED <<stdout, left, line>>
      BY <1>2 DEF Signal, net
    <2> QED BY <1>0, <2>1, <2>2 DEF ExitOneMeansNothingSent, IsMoney
  <1>3. CASE Finish
    <2>1. left' = left /\ sent' = sent /\ pc = "finish"
      BY <1>3 DEF Finish, net
    <2>2. CASE ~panicked /\ err = "none"
      <3>1. code' = 0
        BY <1>3, <2>2 DEF Finish
      <3> QED BY <1>0, <3>1 DEF ExitOneMeansNothingSent
    <2>3. CASE ~panicked /\ err # "none" /\ stdout.bytes
      <3>1. code' = ExitOf(err) /\ stdout' = stdout
        BY <1>3, <2>3 DEF Finish
      <3>2. code' = 1 => err \in {"interrupted", "cli_fault"}
        BY <2>3, <3>1, ExitFits DEF ExitOf, TypeOK
      <3> QED BY <1>0, <2>1, <2>3, <3>1, <3>2 DEF ExitOneMeansNothingSent, DocumentFits
    <2>4. CASE panicked \/ (err # "none" /\ ~stdout.bytes)
      <3>1. code' = Properties[ClassifyEnd].exit
        BY <1>3, <2>4 DEF Finish
      <3>2. ClassifyEnd \in Classes
        BY <2>4, ClassesAre DEF ClassifyEnd, Pending, TypeOK
      <3>3. code' = 1 => ~sent
        BY <3>1, <3>2, ExitFits DEF ClassifyEnd, Pending, TypeOK
      <3> QED BY <1>0, <2>1, <3>3, Prelude DEF ExitOneMeansNothingSent, MarkedBeforeSent
    <2> QED BY <1>3, <2>2, <2>3, <2>4 DEF Finish
  <1>4. CASE ~BadUsage /\ ~Signal /\ ~Finish
    <2>1. code' = code /\ (code # Running => UNCHANGED <<stdout, left, record>>)
      BY <1>4, SettledOnceEnded
    <2>2. CASE code = Running
      BY <1>0, <2>1, <2>2 DEF ExitOneMeansNothingSent
    <2>3. CASE code # Running
      <3>1. UNCHANGED <<code, stdout, left>> /\ IsMoney' = IsMoney
        BY <2>1, <2>3, Prelude
      <3> QED BY <1>0, <3>1 DEF ExitOneMeansNothingSent
    <2> QED BY <2>2, <2>3
  <1> QED BY <1>1, <1>2, <1>3, <1>4

LEMMA SuccessIsRecordedStep ==
    ASSUME InvocationInv, [Next]_vars
    PROVE  SuccessIsRecorded'
  <1> USE DEF InvocationInv, Running, Killed
  <1>1. CASE BadUsage
    <2>1. code' = 2
      BY <1>1 DEF BadUsage, Properties, Property
    <2> QED BY <2>1 DEF SuccessIsRecorded
  <1>2. CASE Signal
    <2>1. code' = -2 \/ code' = code
      BY <1>2 DEF Signal, cli
    <2>2. UNCHANGED <<record, line>>
      BY <1>2 DEF Signal, body
    <2> QED BY <2>1, <2>2 DEF SuccessIsRecorded, IsMoney, MineOps
  <1>3. CASE Finish
    <2>1. UNCHANGED record /\ pc = "finish"
      BY <1>3 DEF Finish, body
    <2>2. CASE ~panicked /\ err = "none"
      BY <2>1, <2>2, Prelude DEF SuccessIsRecorded, SuccessOnRecord, OnRecord
    <2>3. CASE ~panicked /\ err # "none" /\ stdout.bytes
      <3>1. code' = ExitOf(err)
        BY <1>3, <2>3 DEF Finish
      <3>2. code' # 0
        BY <2>3, <3>1 DEF ExitOf, TypeOK, Unfinished
      <3> QED BY <3>2 DEF SuccessIsRecorded
    <2>4. CASE panicked \/ (err # "none" /\ ~stdout.bytes)
      <3>1. code' = Properties[ClassifyEnd].exit
        BY <1>3, <2>4 DEF Finish
      <3>2. ClassifyEnd \in {"pending", "cli_fault"} \/ (ClassifyEnd = err /\ err \in Classes)
        BY <2>4 DEF ClassifyEnd, Pending, TypeOK
      <3>3. code' # 0
        BY <3>1, <3>2, ExitFits, ClassesAre DEF Unfinished
      <3> QED BY <3>3 DEF SuccessIsRecorded
    <2> QED BY <1>3, <2>2, <2>3, <2>4 DEF Finish
  <1>4. CASE ~BadUsage /\ ~Signal /\ ~Finish
    <2>1. code' = code /\ (code # Running => UNCHANGED <<stdout, left, record>>)
      BY <1>4, SettledOnceEnded
    <2>2. CASE code = Running
      BY <2>1, <2>2 DEF SuccessIsRecorded
    <2>3. CASE code # Running
      <3>1. UNCHANGED <<code, record>> /\ IsMoney' = IsMoney /\ MineOps' = MineOps
        BY <2>1, <2>3, Prelude
      <3> QED BY <3>1 DEF SuccessIsRecorded
    <2> QED BY <2>2, <2>3
  <1> QED BY <1>1, <1>2, <1>3, <1>4

LEMMA CutStep ==
    ASSUME InvocationInv, [Next]_vars
    PROVE  CutRequestIsNotRecorded'
  <1> USE DEF InvocationInv, CutRequestIsNotRecorded, TypeOK, body
  <1>1. CASE Answered
    <2>1. \A o \in Ops : record'[o] \in {record[o], ans, "unreachable"}
      BY <1>1, OpsAre DEF Answered
    <2>2. ans = "cut" => record' = record
      BY <1>1 DEF Answered, PublishedInOrder
    <2> QED BY <2>1, <2>2
  <1>2. CASE AwaitConfirmation \/ Decline \/ Begin \/ Follow \/ After
    <2>1. \A o \in Ops : record'[o] \in {record[o], "awaiting", "declined", "pending", "followed", "unreachable"}
      BY <1>2, OpsAre DEF AwaitConfirmation, Decline, Begin, Follow, After
    <2> QED BY <2>1
  <1>3. CASE ~(Answered \/ AwaitConfirmation \/ Decline \/ Begin \/ Follow \/ After)
    <2>1. record' = record
      BY <1>3 DEF Next, Main, Listener, World, Ended, vars, ListenOnly, BadUsage, Start, Finish, Stop, Exit, Prepare,
           Gate, Look, Prompt, Check, Mark, Send, Cut, FollowInterrupted, Report, Take, See, Publish, Typed,
           Return, Panic, Signal, Answer, Serve
    <2> QED BY <2>1
  <1> QED BY <1>1, <1>2, <1>3

-----------------------------------------------------------------------------
(* The theorems.                                                           *)

LEMMA InitInv == Init => InvocationInv
  <1> SUFFICES ASSUME Init PROVE InvocationInv
    OBVIOUS
  <1> USE DEF Init
  <1>1. MineOps \subseteq Ops /\ op \in MineOps
    BY MineFits
  <1>2. TypeOK
    <2>1. Blank \in Documents
      BY DEF Blank, Documents
    <2>2. signals \in 0 .. MaxSignals
      BY InvocationAssumption
    <2>3. record \in [Ops -> Answers \cup {"followed", "awaiting", "pending", "declined", "unreachable"}]
      BY DEF Answers
    <2> QED BY <1>1, <2>1, <2>2, <2>3 DEF TypeOK, Answers, PCs
  <1>3. Unfinished
    BY <1>1, ClassesAre DEF Unfinished, Body
  <1>4. PublishedInOrder /\ MarkedBeforeSent /\ LookedBeforeBegun /\ CutRequestIsNotRecorded
    BY DEF PublishedInOrder, MarkedBeforeSent, LookedBeforeBegun, CutRequestIsNotRecorded
  <1>5. SuccessOnRecord
    BY MineFits DEF SuccessOnRecord
  <1>6. DocumentFits
    BY DEF DocumentFits, Blank
  <1>7. ExitOneMeansNothingSent /\ SuccessIsRecorded
    BY DEF ExitOneMeansNothingSent, SuccessIsRecorded, Running, Properties, Property
  <1> QED BY <1>2, <1>3, <1>4, <1>5, <1>6, <1>7 DEF InvocationInv

LEMMA StepInv == InvocationInv /\ [Next]_vars => InvocationInv'
  <1> SUFFICES ASSUME InvocationInv, [Next]_vars PROVE InvocationInv'
    OBVIOUS
  <1> QED BY TypeStep, UnfinishedStep, PublishedStep, MarkedStep, LookedStep, SuccessStep, DocumentStep,
             ExitOneStep, SuccessIsRecordedStep, CutStep DEF InvocationInv

\* The invariant, for every set of commands and every number of signals.
THEOREM InvocationCorrect == Spec => []InvocationInv
  BY InitInv, StepInv, PTL DEF Spec

\* Every variable has its type.
THEOREM InvocationTyped == Spec => []TypeOK
  <1>1. InvocationInv => TypeOK
    BY DEF InvocationInv
  <1> QED BY <1>1, InvocationCorrect, PTL

\* Exit 1 from a money command means that no request of it reached the
\* network, for every interleaving of main, the listener and the signals.
THEOREM ExitOneSendsNothing == Spec => []ExitOneMeansNothingSent
  <1>1. InvocationInv => ExitOneMeansNothingSent
    BY DEF InvocationInv
  <1> QED BY <1>1, InvocationCorrect, PTL

\* Exit 0 from a money command means that the answer of every request of it
\* is on record.
THEOREM SuccessRecorded == Spec => []SuccessIsRecorded
  <1>1. InvocationInv => SuccessIsRecorded
    BY DEF InvocationInv
  <1> QED BY <1>1, InvocationCorrect, PTL

\* An interrupt that is published before a money request has passed its last
\* look keeps that request off the network and off the ledger.
THEOREM HeardInTime == Spec => []HeardInTimeSendsNothing
  <1>1. InvocationInv => HeardInTimeSendsNothing
    BY DEF InvocationInv, HeardInTimeSendsNothing, LookedBeforeBegun, TypeOK
  <1> QED BY <1>1, InvocationCorrect, PTL

\* A request that this process cut off has no answer on record.
THEOREM CutNotRecorded == Spec => []CutRequestIsNotRecorded
  <1>1. InvocationInv => CutRequestIsNotRecorded
    BY DEF InvocationInv
  <1> QED BY <1>1, InvocationCorrect, PTL

\* A process that reaches os.Exit in JSON mode has written one document with
\* its own exit code, or stdout failed.
THEOREM OneDocumentPerProcess == Spec => []OneDocument
  <1>1. InvocationInv => OneDocument
    BY DEF InvocationInv, OneDocument, DocumentFits
  <1> QED BY <1>1, InvocationCorrect, PTL

=============================================================================
