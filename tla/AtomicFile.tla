----------------------------- MODULE AtomicFile -----------------------------
(***************************************************************************)
(* What the callers of fsx.WriteFileAtomic build on: a file holds a whole  *)
(* document or none, a write takes effect at one instant or not at all, a  *)
(* failed write may have taken effect, and after a write that succeeded a  *)
(* power cut brings back that document or a newer one.                     *)
(***************************************************************************)
CONSTANTS
    Writers,  \* processes, one write at a time each
    Paths,    \* the files of one directory
    Docs,     \* documents
    NoDoc,    \* the file does not exist
    NoTask    \* a process that is not writing

VARIABLES
    home,  \* the directory: "absent", "made", or "kept" once a power cut cannot take it
    now,   \* now[p]: what a reader of p is given
    may,   \* may[p]: what a power cut may leave at p
    task   \* task[w]: what w writes and where, and whether readers are given it

vars == <<home, now, may, task>>

Contents == Docs \cup {NoDoc}
Task(p, d, shown) == [path |-> p, doc |-> d, shown |-> shown]
Ends(w) == task' = [task EXCEPT ![w] = NoTask]

Init ==
    /\ home \in {"absent", "kept"}
    /\ now = [p \in Paths |-> NoDoc] /\ may = [p \in Paths |-> {NoDoc}]
    /\ task = [w \in Writers |-> NoTask]

EnsureDir ==
    /\ home = "absent" /\ home' = "made"
    /\ UNCHANGED <<now, may, task>>

\* The new directory reaches the disk, whenever it does.
Settle ==
    /\ home = "made" /\ home' = "kept"
    /\ UNCHANGED <<now, may, task>>

Ask(w, p, d) ==
    /\ task[w] = NoTask /\ home # "absent"
    /\ task' = [task EXCEPT ![w] = Task(p, d, FALSE)]
    /\ UNCHANGED <<home, now, may>>

Show(w) ==
    /\ task[w] # NoTask /\ ~task[w].shown
    /\ LET p == task[w].path  d == task[w].doc IN
       /\ task' = [task EXCEPT ![w] = Task(p, d, TRUE)]
       /\ now' = [now EXCEPT ![p] = d] /\ may' = [may EXCEPT ![p] = @ \cup {d}]
    /\ UNCHANGED home

\* From here on no power cut goes back behind what readers see.
Succeed(w) ==
    /\ task[w] # NoTask /\ task[w].shown /\ Ends(w)
    /\ may' = [p \in Paths |-> {now[p]}]
    /\ UNCHANGED <<home, now>>

\* An error, or the death of the process: before the document was shown, or
\* after.
Fail(w) ==
    /\ task[w] # NoTask /\ Ends(w)
    /\ UNCHANGED <<home, now, may>>

PowerCut ==
    /\ \/ /\ now' \in [Paths -> Contents] /\ \A p \in Paths : now'[p] \in may[p]
          /\ UNCHANGED home
       \/ home # "kept" /\ now' = [p \in Paths |-> NoDoc] /\ home' = "absent"
    /\ may' = [p \in Paths |-> {now'[p]}]
    /\ task' = [w \in Writers |-> NoTask]

Next ==
    \/ EnsureDir \/ Settle \/ PowerCut
    \/ \E w \in Writers : Show(w) \/ Succeed(w) \/ Fail(w)
    \/ \E w \in Writers, p \in Paths, d \in Docs : Ask(w, p, d)

Spec == Init /\ [][Next]_vars
=============================================================================
