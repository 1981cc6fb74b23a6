---------------------------- MODULE MCMoneyPath ----------------------------
(***************************************************************************)
(* MoneyPath with the command lines of a few kinds of caller.              *)
(***************************************************************************)
EXTENDS MoneyPath

CONSTANTS OtherBody, K1

Line(verb, broadcast, yes, tty) ==
    [verb |-> verb, broadcast |-> broadcast, yes |-> yes, tty |-> tty,
     allow |-> FALSE, key |-> NoKey, body |-> OrderBody]

\* A script: `transfers execute --plan`, and `runs resume --yes` for trouble.
Scripted == {Line("execute", FALSE, FALSE, FALSE), Line("resume", FALSE, TRUE, FALSE)}

\* The same script with a key of its own for some transfers, and other bytes
\* or --allow-pending now and then.
KeyedScript == Scripted \cup
    {[Line("execute", FALSE, TRUE, FALSE) EXCEPT !.key = K1],
     [Line("execute", FALSE, TRUE, FALSE) EXCEPT !.key = K1, !.body = OtherBody],
     [Line("create", FALSE, FALSE, FALSE) EXCEPT !.body = OtherBody, !.allow = TRUE]}

\* Somebody who keeps typing `runs resume --yes`, whoever made the run.
Persistent == {Line("create", TRUE, FALSE, FALSE), Line("create", TRUE, FALSE, TRUE),
               Line("execute", FALSE, FALSE, TRUE), Line("resume", FALSE, TRUE, FALSE)}

\* A human and a script who share a ledger, with and without --yes.
Mixed == {Line("create", TRUE, FALSE, TRUE), Line("create", TRUE, FALSE, FALSE),
          Line("resume", FALSE, FALSE, FALSE), Line("resume", FALSE, FALSE, TRUE),
          Line("resume", FALSE, TRUE, FALSE)}

\* A resume without consent of its own.
Unattended == {Line("create", TRUE, TRUE, FALSE), Line("resume", FALSE, FALSE, FALSE)}
=============================================================================
