---------------------------- MODULE DurableWrite ----------------------------
(***************************************************************************)
(* fsx.WriteFileAtomic, one system call at a time, by processes that may   *)
(* die and on a machine that may lose power, in a directory that           *)
(* xdg.EnsureDir may just have made.                                       *)
(*                                                                         *)
(* The disk is external: a file's contents are safe once the file is       *)
(* synced, a directory entry once the directory is; until then a power cut *)
(* leaves any of what it has been, entry by entry.                         *)
(***************************************************************************)
EXTENDS FiniteSets, TLC

CONSTANTS
    Writers, Paths, Docs, NoDoc,  \* as in AtomicFile
    Files,   \* files in the sense of inodes, used again once nothing names them
    NoFile,  \* no directory entry
    NoTask,  \* no call of WriteFileAtomic
    Torn     \* contents that are not a document: empty, or cut short

ASSUME DurableWriteAssumption ==
    /\ NoFile \notin Files /\ NoDoc \notin Docs /\ Torn \notin Docs /\ Torn # NoDoc
    /\ NoTask \notin [path : Paths, doc : Docs, shown : BOOLEAN]

VARIABLES
    home,     \* the directory: "absent", "made" or "kept"
    entry,    \* entry[p]: the file under the name p
    kept,     \* kept[p]: the files a power cut may leave under p
    temp,     \* files under a temporary name (a dot, which readers skip)
    data,     \* data[f]: contents
    synced,   \* files whose contents are on the disk
    pc,       \* pc[w]: the next system call of w
    call,     \* call[w]: the path and document w was given and its temporary file
    after,    \* history, after[w]: the files renamed to w's path from its own rename on
    promised  \* history, promised[p]: those renamed there from the newest success on

dir == <<home, entry, kept, temp>>
history == <<after, promised>>
vars == <<dir, data, synced, pc, call, history>>

Entries == Files \cup {NoFile}

\* A file's name may be given to a new file.
Named(f) == f \in temp \/ \E p \in Paths : f \in kept[p] \cup {entry[p]}
Calls == [path : Paths, doc : Docs, file : Files]
Writing(w) == pc[w] \in {"write", "sync", "close", "rename"}

TypeOK ==
    /\ home \in {"absent", "made", "kept"}
    /\ entry \in [Paths -> Entries] /\ kept \in [Paths -> SUBSET Entries]
    /\ temp \subseteq Files /\ data \in [Files -> Docs \cup {Torn}] /\ synced \subseteq Files
    /\ pc \in [Writers -> {"idle", "write", "sync", "close", "rename", "syncdir", "remove"}]
    /\ call \in [Writers -> Calls \cup {NoTask}]
    /\ \A w \in Writers : pc[w] # "idle" => call[w] \in Calls
    /\ after \in [Writers -> SUBSET Files] /\ promised \in [Paths -> SUBSET Entries]

Init ==
    /\ home \in {"absent", "kept"}
    /\ entry = [p \in Paths |-> NoFile] /\ kept = [p \in Paths |-> {NoFile}]
    /\ temp = {} /\ data = [f \in Files |-> Torn] /\ synced = {}
    /\ pc = [w \in Writers |-> "idle"]
    /\ call = [w \in Writers |-> NoTask]
    /\ after = [w \in Writers |-> {}] /\ promised = [p \in Paths |-> Entries]

Goto(w, l) == pc' = [pc EXCEPT ![w] = l] /\ UNCHANGED call
Return(w) == pc' = [pc EXCEPT ![w] = "idle"] /\ call' = [call EXCEPT ![w] = NoTask]

-----------------------------------------------------------------------------

\* xdg.EnsureDir: nothing syncs the parent.
EnsureDir ==
    /\ home = "absent" /\ home' = "made"
    /\ UNCHANGED <<entry, kept, temp, data, synced, pc, call, history>>

\* The kernel writes the new directory's own entry back.
Settle ==
    /\ home = "made" /\ home' = "kept"
    /\ UNCHANGED <<entry, kept, temp, data, synced, pc, call, history>>

\* FS.Create of a fresh temporary file (O_EXCL); its failure changes nothing.
Create(w, p, d) ==
    /\ pc[w] = "idle" /\ home # "absent"
    /\ \E f \in Files :
        /\ ~Named(f)
        /\ call' = [call EXCEPT ![w] = [path |-> p, doc |-> d, file |-> f]]
        /\ temp' = temp \cup {f}
        /\ data' = [data EXCEPT ![f] = Torn] /\ synced' = synced \ {f}
    /\ pc' = [pc EXCEPT ![w] = "write"]
    /\ UNCHANGED <<home, entry, kept, history>>

\* File.Write; a failed one may have written a part.
Write(w) ==
    /\ pc[w] = "write"
    /\ \/ Goto(w, "sync") /\ data' = [data EXCEPT ![call[w].file] = call[w].doc]
       \/ Goto(w, "remove") /\ UNCHANGED data
    /\ UNCHANGED <<dir, synced, history>>

\* Variant: the contents are left to the kernel.
SyncNothing(w) ==
    /\ pc[w] = "sync" /\ Goto(w, "close")
    /\ UNCHANGED <<dir, data, synced, history>>

\* File.Sync
Sync(w) ==
    /\ pc[w] = "sync"
    /\ \/ Goto(w, "close") /\ synced' = synced \cup {call[w].file}
       \/ Goto(w, "remove") /\ UNCHANGED synced
    /\ UNCHANGED <<dir, data, history>>

\* File.Close
Close(w) ==
    /\ pc[w] = "close" /\ (Goto(w, "rename") \/ Goto(w, "remove"))
    /\ UNCHANGED <<dir, data, synced, history>>

\* FS.Rename over whatever is there.
Rename(w) ==
    /\ pc[w] = "rename"
    /\ LET p == call[w].path  f == call[w].file IN
       \/ /\ Goto(w, "syncdir")
          /\ entry' = [entry EXCEPT ![p] = f] /\ kept' = [kept EXCEPT ![p] = @ \cup {f}]
          /\ temp' = temp \ {f}
          /\ after' = [v \in Writers |->
                          IF v = w THEN {f}
                          ELSE IF pc[v] = "syncdir" /\ call[v].path = p THEN after[v] \cup {f} ELSE after[v]]
          /\ promised' = [promised EXCEPT ![p] = @ \cup {f}]
          /\ UNCHANGED home
       \/ Goto(w, "remove") /\ UNCHANGED <<dir, history>>
    /\ UNCHANGED <<data, synced>>

\* Variant: a rename is taken to be durable.
SyncDirSkipped(w) ==
    /\ pc[w] = "syncdir" /\ Return(w)
    /\ promised' = [promised EXCEPT ![call[w].path] = @ \cap after[w]]
    /\ after' = [after EXCEPT ![w] = {}]
    /\ UNCHANGED <<dir, data, synced>>

\* Variant: a write that fails takes its document away again.
SyncDirUndone(w) ==
    /\ pc[w] = "syncdir" /\ Return(w)
    /\ LET p == call[w].path IN
       \/ /\ kept' = [q \in Paths |-> {entry[q]}]
          /\ promised' = [promised EXCEPT ![p] = @ \cap after[w]] /\ UNCHANGED entry
       \/ /\ entry' = [entry EXCEPT ![p] = NoFile]
          /\ kept' = [kept EXCEPT ![p] = @ \cup {NoFile}] /\ UNCHANGED promised
    /\ after' = [after EXCEPT ![w] = {}]
    /\ UNCHANGED <<home, temp, data, synced>>

\* FS.SyncDir, and the return of nil: from now on the document, or one
\* renamed over it, is promised.  A failure is reported although the rename
\* stands, and there is no temporary name left to remove.
SyncDir(w) ==
    /\ pc[w] = "syncdir" /\ Return(w)
    /\ \/ /\ kept' = [p \in Paths |-> {entry[p]}]
          /\ promised' = [promised EXCEPT ![call[w].path] = @ \cap after[w]]
       \/ UNCHANGED <<kept, promised>>
    /\ after' = [after EXCEPT ![w] = {}]
    /\ UNCHANGED <<home, entry, temp, data, synced>>

\* The deferred FS.Remove of the temporary name, best effort.
Remove(w) ==
    /\ pc[w] = "remove" /\ Return(w)
    /\ temp' \in {temp, temp \ {call[w].file}}
    /\ UNCHANGED <<home, entry, kept, data, synced, history>>

-----------------------------------------------------------------------------

\* A process dies; the kernel and its cache live on.
Crash(w) ==
    /\ pc[w] # "idle" /\ Return(w)
    /\ after' = [after EXCEPT ![w] = {}]
    /\ UNCHANGED <<dir, data, synced, promised>>

\* The machine loses power: every entry is one of those it may be, contents
\* that were not synced are anything, and a directory whose own entry was
\* not written is gone, with every promise made in it.
PowerCut ==
    /\ \/ /\ entry' \in [Paths -> Entries] /\ \A p \in Paths : entry'[p] \in kept[p]
          /\ UNCHANGED <<home, promised>>
       \/ /\ home # "kept" /\ home' = "absent"
          /\ entry' = [p \in Paths |-> NoFile]
          /\ promised' = [p \in Paths |-> Entries]
    /\ kept' = [p \in Paths |-> {entry'[p]}]
    /\ temp' \in SUBSET {f \in Files : Named(f) /\ \A p \in Paths : f # entry'[p]}
    /\ data' \in [Files -> Docs \cup {Torn}]
    /\ \A f \in Files : data'[f] \in IF f \in synced THEN {data[f]} ELSE {data[f], Torn}
    /\ synced' = Files
    /\ pc' = [w \in Writers |-> "idle"] /\ call' = [w \in Writers |-> NoTask]
    /\ after' = [w \in Writers |-> {}]

Next ==
    \/ EnsureDir \/ Settle \/ PowerCut
    \/ \E w \in Writers : Write(w) \/ Sync(w) \/ Close(w) \/ Rename(w) \/ SyncDir(w) \/ Remove(w) \/ Crash(w)
    \/ \E w \in Writers, p \in Paths, d \in Docs : Create(w, p, d)

Spec == Init /\ [][Next]_vars

-----------------------------------------------------------------------------
(* Properties.                                                             *)

Content(f) == IF f = NoFile THEN NoDoc ELSE data[f]

\* A file under its name, now or after a power cut, is a whole document that
\* reached the disk, and no writer is still at work on it; nor do two
\* writers ever share a temporary file.
OnlyWholeFilesAreNamed ==
    /\ \A p \in Paths, f \in Files : f \in kept[p] \cup {entry[p]} =>
          /\ data[f] \in Docs /\ f \in synced /\ f \notin temp
          /\ \A w \in Writers : Writing(w) => call[w].file # f
    /\ \A v, w \in Writers : Writing(v) /\ Writing(w) /\ v # w => call[v].file # call[w].file

\* A write that returned nil survives a power cut: what may be left under
\* its name is its document or one renamed over it, in a directory that is
\* itself safe.
AckedSurvives == \A p \in Paths : kept[p] \subseteq promised[p]

\* Readers and callers see no more of this than AtomicFile says: a failed
\* write that has not been shown never is, a shown document is whole, now
\* and after a power cut, and success comes after it cannot be lost.
Promise == INSTANCE AtomicFile WITH
    now <- [p \in Paths |-> Content(entry[p])],
    may <- [p \in Paths |-> {Content(f) : f \in kept[p]}],
    task <- [w \in Writers |->
                IF pc[w] \in {"idle", "remove"} THEN NoTask
                ELSE [path |-> call[w].path, doc |-> call[w].doc, shown |-> pc[w] = "syncdir"]]

ImplementsAtomicFile == Promise!Spec

\* Renaming files and documents consistently maps behaviours to behaviours.
DiskSymmetry == Permutations(Files) \cup Permutations(Writers)
=============================================================================
