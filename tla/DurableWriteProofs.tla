------------------------- MODULE DurableWriteProofs -------------------------
(***************************************************************************)
(* Theorems about DurableWrite, for any number of processes, files, inodes *)
(* and documents: what is under a name is whole, what was acknowledged     *)
(* survives a power cut, and the sequence of system calls implements       *)
(* AtomicFile.                                                             *)
(***************************************************************************)
EXTENDS DurableWrite, TLAPS

-----------------------------------------------------------------------------
(* The inductive invariant.                                                *)

\* A call that has a temporary name, or may still remove one.
Busy(w) == pc[w] \in {"write", "sync", "close", "rename", "remove"}

\* The temporary file of a call is named, and is nobody else's: an inode is
\* not used again while a call may still write or remove it.
TempsAreOwn ==
    /\ \A w \in Writers : Busy(w) => call[w].file \in temp
    /\ \A v, w \in Writers : Busy(v) /\ Busy(w) /\ v # w => call[v].file # call[w].file

\* What a call has done to its temporary file, by where it is.
TempsAreReady ==
    \A w \in Writers :
        /\ pc[w] \in {"sync", "close", "rename"} => data[call[w].file] = call[w].doc
        /\ pc[w] \in {"close", "rename"} => call[w].file \in synced

\* A file that a name has, or that a power cut may leave there, is whole, on
\* the disk, and no temporary file.
NamedAreWhole ==
    \A p \in Paths : \A f \in kept[p] : f # NoFile =>
        data[f] \in Docs /\ f \in synced /\ f \notin temp

\* A power cut may leave what readers see.
EntryIsKept == \A p \in Paths : entry[p] \in kept[p]

\* What stands at the path of a renamed document is that or a later one.
RenamedIsAfter == \A w \in Writers : pc[w] = "syncdir" => entry[call[w].path] \in after[w]

DiskInv ==
    /\ TypeOK
    /\ TempsAreOwn
    /\ TempsAreReady
    /\ NamedAreWhole
    /\ EntryIsKept
    /\ RenamedIsAfter
    /\ AckedSurvives

LEMMA InitEstablishes == Init => DiskInv
  BY DurableWriteAssumption
  DEF Init, DiskInv, TypeOK, TempsAreOwn, TempsAreReady, NamedAreWhole, EntryIsKept,
      RenamedIsAfter, AckedSurvives, Busy, Entries

-----------------------------------------------------------------------------
(* One lemma per action.                                                   *)

\* The directory's own state is nobody's business but its own.
LEMMA DirectoryKeeps == DiskInv /\ (EnsureDir \/ Settle) => DiskInv'
  BY DEF DiskInv, TypeOK, TempsAreOwn, TempsAreReady, NamedAreWhole, EntryIsKept,
         RenamedIsAfter, AckedSurvives, Busy, EnsureDir, Settle, history

\* A new temporary file is one that nothing named, so no call had it.
LEMMA CreateKeeps ==
  ASSUME DiskInv, NEW w \in Writers, NEW p \in Paths, NEW d \in Docs, Create(w, p, d)
  PROVE  DiskInv'
<1> USE DEF DiskInv
<1>1. PICK f \in Files :
         /\ ~Named(f)
         /\ call' = [call EXCEPT ![w] = [path |-> p, doc |-> d, file |-> f]]
         /\ temp' = temp \cup {f}
         /\ data' = [data EXCEPT ![f] = Torn] /\ synced' = synced \ {f}
  BY DEF Create
<1>2. /\ pc[w] = "idle" /\ pc' = [pc EXCEPT ![w] = "write"]
      /\ UNCHANGED <<home, entry, kept, after, promised>>
  BY DEF Create, history
<1>3. f \notin temp /\ \A q \in Paths : f \notin kept[q]
  BY <1>1 DEF Named
<1>4. TypeOK'
  BY <1>1, <1>2 DEF TypeOK, Calls
<1>5. /\ call'[w].file = f /\ \A v \in Writers : v # w => call'[v] = call[v] /\ pc'[v] = pc[v]
      /\ pc'[w] = "write"
  BY <1>1, <1>2 DEF TypeOK
<1>6. \A v \in Writers : v # w /\ Busy(v) => call[v].file # f /\ call[v].file \in Files
  BY <1>3 DEF TempsAreOwn, TypeOK, Calls, Busy
<1>7. TempsAreOwn'
  BY <1>1, <1>5, <1>6 DEF TempsAreOwn, Busy
<1>8. TempsAreReady'
  BY <1>1, <1>5, <1>6 DEF TempsAreReady, TypeOK, Busy
<1>9. NamedAreWhole'
  BY <1>1, <1>2, <1>3 DEF NamedAreWhole, TypeOK, Entries
<1>10. EntryIsKept' /\ RenamedIsAfter' /\ AckedSurvives'
  BY <1>2, <1>5 DEF EntryIsKept, RenamedIsAfter, AckedSurvives
<1> QED  BY <1>4, <1>7, <1>8, <1>9, <1>10

\* Only the call's own temporary file changes, and no name has it.
LEMMA WriteKeeps ==
  ASSUME DiskInv, NEW w \in Writers, Write(w)
  PROVE  DiskInv'
<1> USE DEF DiskInv
<1>1. /\ pc[w] = "write" /\ Busy(w) /\ UNCHANGED <<home, entry, kept, temp, synced, call, after, promised>>
      /\ \/ pc' = [pc EXCEPT ![w] = "sync"] /\ data' = [data EXCEPT ![call[w].file] = call[w].doc]
         \/ pc' = [pc EXCEPT ![w] = "remove"] /\ data' = data
  BY DEF Write, Goto, dir, history, Busy
<1>2. call[w] \in Calls
  BY <1>1 DEF TypeOK
<1>3. TypeOK'
  BY <1>1, <1>2 DEF TypeOK, Calls
<1>4. \A v \in Writers : /\ v # w => pc'[v] = pc[v]
                         /\ Busy(v)' => Busy(v)
                         /\ pc'[w] \in {"sync", "remove"}
  BY <1>1 DEF TypeOK, Busy
<1>5. TempsAreOwn'
  BY <1>1, <1>4 DEF TempsAreOwn
<1>6. \A v \in Writers : v # w /\ Busy(v) => data'[call[v].file] = data[call[v].file]
  BY <1>1, <1>2 DEF TempsAreOwn, TypeOK, Calls
<1>7. TempsAreReady'
  BY <1>1, <1>2, <1>4, <1>6 DEF TempsAreReady, TypeOK, Calls, Busy
<1>8. NamedAreWhole'
  BY <1>1, <1>2 DEF NamedAreWhole, TempsAreOwn, TypeOK, Entries, Calls
<1>9. EntryIsKept' /\ RenamedIsAfter' /\ AckedSurvives'
  BY <1>1, <1>4 DEF EntryIsKept, RenamedIsAfter, AckedSurvives
<1> QED  BY <1>3, <1>5, <1>7, <1>8, <1>9

LEMMA SyncKeeps ==
  ASSUME DiskInv, NEW w \in Writers, Sync(w)
  PROVE  DiskInv'
<1> USE DEF DiskInv
<1>1. /\ pc[w] = "sync" /\ UNCHANGED <<home, entry, kept, temp, data, call, after, promised>>
      /\ \/ pc' = [pc EXCEPT ![w] = "close"] /\ synced' = synced \cup {call[w].file}
         \/ pc' = [pc EXCEPT ![w] = "remove"] /\ synced' = synced
  BY DEF Sync, Goto, dir, history
<1>2. call[w] \in Calls
  BY <1>1 DEF TypeOK
<1>3. TypeOK'
  BY <1>1, <1>2 DEF TypeOK, Calls
<1>4. \A v \in Writers : v # w => pc'[v] = pc[v]
  BY <1>1 DEF TypeOK
<1>5. TempsAreOwn'
  BY <1>1 DEF TempsAreOwn, Busy, TypeOK
<1>6. TempsAreReady'
  BY <1>1 DEF TempsAreReady, TypeOK
<1>7. NamedAreWhole' /\ EntryIsKept' /\ RenamedIsAfter' /\ AckedSurvives'
  BY <1>1 DEF NamedAreWhole, EntryIsKept, RenamedIsAfter, AckedSurvives, TypeOK
<1> QED  BY <1>3, <1>5, <1>6, <1>7

LEMMA CloseKeeps ==
  ASSUME DiskInv, NEW w \in Writers, Close(w)
  PROVE  DiskInv'
<1> USE DEF DiskInv
<1>1. /\ pc[w] = "close" /\ UNCHANGED <<home, entry, kept, temp, data, synced, call, after, promised>>
      /\ \E at \in {"rename", "remove"} : pc' = [pc EXCEPT ![w] = at]
  BY DEF Close, Goto, dir, history
<1>2. TypeOK' /\ TempsAreOwn' /\ TempsAreReady'
  BY <1>1 DEF TypeOK, TempsAreOwn, TempsAreReady, Busy
<1>3. NamedAreWhole' /\ EntryIsKept' /\ RenamedIsAfter' /\ AckedSurvives'
  BY <1>1 DEF NamedAreWhole, EntryIsKept, RenamedIsAfter, AckedSurvives, TypeOK
<1> QED  BY <1>2, <1>3

\* The file that gets the name is whole and on the disk, and its call lets go
\* of it; a call that renamed to the path before has it in its `after`.
LEMMA RenameKeeps ==
  ASSUME DiskInv, NEW w \in Writers, Rename(w)
  PROVE  DiskInv'
<1> USE DEF DiskInv
<1> DEFINE p == call[w].path
           f == call[w].file
<1>1. pc[w] = "rename" /\ Busy(w) /\ UNCHANGED <<home, data, synced, call>>
  BY DEF Rename, Goto, dir, Busy
<1>2. call[w] \in Calls /\ p \in Paths /\ f \in Files /\ call[w].doc \in Docs
  BY <1>1 DEF TypeOK, Calls
<1>3. CASE pc' = [pc EXCEPT ![w] = "remove"] /\ UNCHANGED <<entry, kept, temp, after, promised>>
  <2>1. TypeOK' /\ TempsAreOwn' /\ TempsAreReady'
    BY <1>1, <1>3 DEF TypeOK, TempsAreOwn, TempsAreReady, Busy
  <2>2. NamedAreWhole' /\ EntryIsKept' /\ RenamedIsAfter' /\ AckedSurvives'
    BY <1>1, <1>3 DEF NamedAreWhole, EntryIsKept, RenamedIsAfter, AckedSurvives, TypeOK
  <2> QED  BY <2>1, <2>2
<1>4. CASE /\ pc' = [pc EXCEPT ![w] = "syncdir"]
           /\ entry' = [entry EXCEPT ![p] = f] /\ kept' = [kept EXCEPT ![p] = @ \cup {f}]
           /\ temp' = temp \ {f}
           /\ after' = [v \in Writers |->
                          IF v = w THEN {f}
                          ELSE IF pc[v] = "syncdir" /\ call[v].path = p THEN after[v] \cup {f} ELSE after[v]]
           /\ promised' = [promised EXCEPT ![p] = @ \cup {f}]
  <2>1. TypeOK'
    BY <1>1, <1>2, <1>4 DEF TypeOK, Entries
  <2>2. /\ pc'[w] = "syncdir" /\ \A v \in Writers : v # w => pc'[v] = pc[v]
        /\ ~Busy(w)'
    BY <1>4 DEF TypeOK, Busy
  <2>3. TempsAreOwn'
    BY <1>1, <1>4, <2>2 DEF TempsAreOwn, Busy
  <2>4. TempsAreReady'
    BY <1>1, <2>2 DEF TempsAreReady
  <2>5. data[f] \in Docs /\ f \in synced
    BY <1>1, <1>2 DEF TempsAreReady
  <2>6. NamedAreWhole'
    BY <1>1, <1>2, <1>4, <2>5 DEF NamedAreWhole, TypeOK
  <2>7. EntryIsKept' /\ AckedSurvives'
    BY <1>2, <1>4 DEF EntryIsKept, AckedSurvives, TypeOK
  <2>8. RenamedIsAfter'
    <3> SUFFICES ASSUME NEW v \in Writers, pc'[v] = "syncdir"
                 PROVE  entry'[call[v].path] \in after'[v]
      BY <1>1 DEF RenamedIsAfter
    <3>1. CASE v = w
      BY <1>2, <1>4, <3>1 DEF TypeOK
    <3>2. CASE v # w
      <4>1. pc[v] = "syncdir" /\ entry[call[v].path] \in after[v] /\ call[v].path \in Paths
        BY <2>2, <3>2 DEF RenamedIsAfter, TypeOK, Calls
      <4> QED  BY <1>2, <1>4, <3>2, <4>1 DEF TypeOK
    <3> QED  BY <3>1, <3>2
  <2> QED  BY <2>1, <2>3, <2>4, <2>6, <2>7, <2>8
<1> QED  BY <1>3, <1>4 DEF Rename, Goto, dir, history

\* The directory's fsync leaves one file per name, the one readers see, and
\* at this call's path that is its own or a later one.
LEMMA SyncDirKeeps ==
  ASSUME DiskInv, NEW w \in Writers, SyncDir(w)
  PROVE  DiskInv'
<1> USE DEF DiskInv
<1>1. /\ pc[w] = "syncdir" /\ UNCHANGED <<home, entry, temp, data, synced>>
      /\ pc' = [pc EXCEPT ![w] = "idle"] /\ call' = [call EXCEPT ![w] = NoTask]
      /\ after' = [after EXCEPT ![w] = {}]
  BY DEF SyncDir, Return
<1>2. \A v \in Writers : v # w => pc'[v] = pc[v] /\ call'[v] = call[v] /\ after'[v] = after[v]
  BY <1>1 DEF TypeOK
<1>3. pc'[w] = "idle" /\ call'[w] = NoTask
  BY <1>1 DEF TypeOK
<1>4. call[w].path \in Paths
  BY <1>1 DEF TypeOK, Calls
<1>5. TempsAreOwn' /\ TempsAreReady' /\ RenamedIsAfter'
  BY <1>1, <1>2, <1>3 DEF TempsAreOwn, TempsAreReady, RenamedIsAfter, Busy
<1>6. CASE UNCHANGED <<kept, promised>>
  <2>1. TypeOK'
    BY <1>1, <1>6 DEF TypeOK
  <2> QED  BY <1>1, <1>5, <1>6, <2>1 DEF NamedAreWhole, EntryIsKept, AckedSurvives
<1>7. CASE /\ kept' = [p \in Paths |-> {entry[p]}]
           /\ promised' = [promised EXCEPT ![call[w].path] = @ \cap after[w]]
  <2>1. TypeOK'
    BY <1>1, <1>4, <1>7 DEF TypeOK
  <2>2. NamedAreWhole' /\ EntryIsKept'
    BY <1>1, <1>7 DEF NamedAreWhole, EntryIsKept
  <2>3. AckedSurvives'
    BY <1>1, <1>4, <1>7 DEF AckedSurvives, EntryIsKept, RenamedIsAfter, TypeOK
  <2> QED  BY <1>5, <2>1, <2>2, <2>3
<1> QED  BY <1>6, <1>7 DEF SyncDir

\* Removing one's own temporary file takes nobody else's.
LEMMA RemoveKeeps ==
  ASSUME DiskInv, NEW w \in Writers, Remove(w)
  PROVE  DiskInv'
<1> USE DEF DiskInv
<1>1. /\ pc[w] = "remove" /\ UNCHANGED <<home, entry, kept, data, synced, after, promised>>
      /\ pc' = [pc EXCEPT ![w] = "idle"] /\ call' = [call EXCEPT ![w] = NoTask]
      /\ temp' \in {temp, temp \ {call[w].file}}
  BY DEF Remove, Return, history
<1>2. /\ pc'[w] = "idle" /\ Busy(w)
      /\ \A v \in Writers : v # w => pc'[v] = pc[v] /\ call'[v] = call[v]
  BY <1>1 DEF TypeOK, Busy
<1>3. TypeOK'
  BY <1>1 DEF TypeOK
<1>4. TempsAreOwn'
  BY <1>1, <1>2 DEF TempsAreOwn, Busy
<1>5. TempsAreReady' /\ RenamedIsAfter'
  BY <1>1, <1>2 DEF TempsAreReady, RenamedIsAfter
<1>6. NamedAreWhole' /\ EntryIsKept' /\ AckedSurvives'
  BY <1>1 DEF NamedAreWhole, EntryIsKept, AckedSurvives
<1> QED  BY <1>3, <1>4, <1>5, <1>6

LEMMA CrashKeeps ==
  ASSUME DiskInv, NEW w \in Writers, Crash(w)
  PROVE  DiskInv'
<1> USE DEF DiskInv
<1>1. /\ UNCHANGED <<home, entry, kept, temp, data, synced, promised>>
      /\ pc' = [pc EXCEPT ![w] = "idle"] /\ call' = [call EXCEPT ![w] = NoTask]
      /\ after' = [after EXCEPT ![w] = {}]
  BY DEF Crash, Return, dir
<1>2. /\ pc'[w] = "idle"
      /\ \A v \in Writers : v # w => pc'[v] = pc[v] /\ call'[v] = call[v] /\ after'[v] = after[v]
  BY <1>1 DEF TypeOK
<1>3. TypeOK'
  BY <1>1 DEF TypeOK
<1>4. TempsAreOwn' /\ TempsAreReady' /\ RenamedIsAfter'
  BY <1>1, <1>2 DEF TempsAreOwn, TempsAreReady, RenamedIsAfter, Busy
<1>5. NamedAreWhole' /\ EntryIsKept' /\ AckedSurvives'
  BY <1>1 DEF NamedAreWhole, EntryIsKept, AckedSurvives
<1> QED  BY <1>3, <1>4, <1>5

\* What a power cut may leave was whole, and what it may leave was promised.
LEMMA PowerCutKeeps ==
  ASSUME DiskInv, PowerCut
  PROVE  DiskInv'
<1> USE DEF DiskInv
<1>1. /\ kept' = [p \in Paths |-> {entry'[p]}]
      /\ temp' \in SUBSET {f \in Files : \A p \in Paths : f # entry'[p]}
      /\ data' \in [Files -> Docs \cup {Torn}]
      /\ \A f \in Files : data'[f] \in IF f \in synced THEN {data[f]} ELSE {data[f], Torn}
      /\ synced' = Files
      /\ pc' = [w \in Writers |-> "idle"] /\ call' = [w \in Writers |-> NoTask]
      /\ after' = [w \in Writers |-> {}]
  BY DEF PowerCut
<1>2. \/ /\ entry' \in [Paths -> Entries] /\ \A p \in Paths : entry'[p] \in kept[p]
         /\ UNCHANGED <<home, promised>>
      \/ /\ home' = "absent" /\ entry' = [p \in Paths |-> NoFile]
         /\ promised' = [p \in Paths |-> Entries]
  BY DEF PowerCut
<1>3. entry' \in [Paths -> Entries] /\ promised' \in [Paths -> SUBSET Entries]
      /\ home' \in {"absent", "made", "kept"}
  BY <1>2 DEF TypeOK, Entries
<1>4. TypeOK'
  BY <1>1, <1>3 DEF TypeOK
<1>5. TempsAreOwn' /\ TempsAreReady' /\ RenamedIsAfter'
  BY <1>1 DEF TempsAreOwn, TempsAreReady, RenamedIsAfter, Busy
<1>6. NamedAreWhole'
  <2> SUFFICES ASSUME NEW p \in Paths, entry'[p] # NoFile
               PROVE  /\ data'[entry'[p]] \in Docs /\ entry'[p] \in synced'
                      /\ entry'[p] \notin temp'
    BY <1>1 DEF NamedAreWhole
  <2>1. entry'[p] \in Files /\ entry'[p] \in kept[p]
    BY <1>2, <1>3 DEF Entries
  <2> QED  BY <1>1, <2>1 DEF NamedAreWhole
<1>7. EntryIsKept' /\ AckedSurvives'
  BY <1>1, <1>2, <1>3 DEF EntryIsKept, AckedSurvives, Entries
<1> QED  BY <1>4, <1>5, <1>6, <1>7

-----------------------------------------------------------------------------

LEMMA StepKeeps == DiskInv /\ [Next]_vars => DiskInv'
<1> SUFFICES ASSUME DiskInv, [Next]_vars PROVE DiskInv'
  OBVIOUS
<1>1. CASE EnsureDir \/ Settle
  BY <1>1, DirectoryKeeps
<1>2. CASE PowerCut
  BY <1>2, PowerCutKeeps
<1>3. ASSUME NEW w \in Writers,
             Write(w) \/ Sync(w) \/ Close(w) \/ Rename(w) \/ SyncDir(w) \/ Remove(w) \/ Crash(w)
      PROVE  DiskInv'
  BY <1>3, WriteKeeps, SyncKeeps, CloseKeeps, RenameKeeps, SyncDirKeeps, RemoveKeeps, CrashKeeps
<1>4. ASSUME NEW w \in Writers, NEW p \in Paths, NEW d \in Docs, Create(w, p, d)
      PROVE  DiskInv'
  BY <1>4, CreateKeeps
<1>5. CASE UNCHANGED vars
  BY <1>5 DEF vars, dir, history, DiskInv, TypeOK, TempsAreOwn, TempsAreReady, NamedAreWhole,
              EntryIsKept, RenamedIsAfter, AckedSurvives, Busy
<1> QED  BY <1>1, <1>2, <1>3, <1>4, <1>5 DEF Next

\* The invariant of fsx.WriteFileAtomic under crashes and power cuts.
THEOREM DiskInvariant == Spec => []DiskInv
  BY InitEstablishes, StepKeeps, PTL DEF Spec

\* Every variable keeps its type.
THEOREM TypeCorrect == Spec => []TypeOK
<1>1. DiskInv => TypeOK
  BY DEF DiskInv
<1> QED  BY <1>1, DiskInvariant, PTL

\* A file under its name, now or after a power cut, is a whole document on
\* the disk that no call is still at work on.
THEOREM NamedFilesAreWhole == Spec => []OnlyWholeFilesAreNamed
<1>1. DiskInv => OnlyWholeFilesAreNamed
  <2> SUFFICES ASSUME DiskInv PROVE OnlyWholeFilesAreNamed
    OBVIOUS
  <2>1. ASSUME NEW p \in Paths, NEW f \in Files, f \in kept[p] \cup {entry[p]}
        PROVE  data[f] \in Docs /\ f \in synced /\ f \notin temp
    BY <2>1, DurableWriteAssumption DEF DiskInv, NamedAreWhole, EntryIsKept
  <2>2. \A w \in Writers : Writing(w) => Busy(w)
    BY DEF Writing, Busy
  <2> QED  BY <2>1, <2>2 DEF DiskInv, TempsAreOwn, OnlyWholeFilesAreNamed
<1> QED  BY <1>1, DiskInvariant, PTL

\* What a call that returned nil wrote, or something newer, is what a power
\* cut leaves.
THEOREM AcknowledgedWritesSurvive == Spec => []AckedSurvives
<1>1. DiskInv => AckedSurvives
  BY DEF DiskInv
<1> QED  BY <1>1, DiskInvariant, PTL

-----------------------------------------------------------------------------
(* The refinement: what AtomicFile sees of the disk and of the calls.      *)

Now == [p \in Paths |-> Content(entry[p])]
May == [p \in Paths |-> {Content(f) : f \in kept[p]}]
Shown(w) == pc[w] = "syncdir"
TaskOf(w) == IF pc[w] \in {"idle", "remove"} THEN NoTask
             ELSE [path |-> call[w].path, doc |-> call[w].doc, shown |-> Shown(w)]
Tasks == [w \in Writers |-> TaskOf(w)]

\* A step that leaves names and named contents alone shows nothing.
LEMMA NothingShown ==
  ASSUME DiskInv, UNCHANGED <<entry, kept>>,
         \A p \in Paths : \A f \in kept[p] : f # NoFile => data'[f] = data[f]
  PROVE  Now' = Now /\ May' = May
<1>1. \A p \in Paths : entry[p] \in kept[p]
  BY DEF DiskInv, EntryIsKept
<1>2. \A p \in Paths : \A f \in kept[p] : Content(f)' = Content(f)
  BY DEF Content
<1> QED  BY <1>1, <1>2 DEF Now, May, Content

\* A call that moves between steps AtomicFile does not tell apart, or ends.
LEMMA TaskStays ==
  ASSUME NEW w \in Writers, \A v \in Writers : v # w => TaskOf(v)' = TaskOf(v), TaskOf(w)' = TaskOf(w)
  PROVE  Tasks' = Tasks
  BY DEF Tasks

LEMMA TaskEnds ==
  ASSUME NEW w \in Writers, \A v \in Writers : v # w => TaskOf(v)' = TaskOf(v), TaskOf(w)' = NoTask
  PROVE  Tasks' = [Tasks EXCEPT ![w] = NoTask]
  BY DEF Tasks

\* A call that is under way has a task, and its task is what it was given.
LEMMA TaskUnderWay ==
  ASSUME DiskInv, NEW w \in Writers, pc[w] \notin {"idle", "remove"}
  PROVE  /\ Tasks[w] = [path |-> call[w].path, doc |-> call[w].doc, shown |-> Shown(w)]
         /\ Tasks[w] # NoTask
         /\ Tasks[w].path = call[w].path /\ Tasks[w].doc = call[w].doc
         /\ pc[w] = "syncdir" => Tasks[w].shown
         /\ pc[w] # "syncdir" => ~Tasks[w].shown
<1>1. call[w].path \in Paths /\ call[w].doc \in Docs
  BY DEF DiskInv, TypeOK, Calls
<1>2. Tasks[w] = [path |-> call[w].path, doc |-> call[w].doc, shown |-> Shown(w)]
  BY DEF Tasks, TaskOf
<1>3. Shown(w) \in BOOLEAN
  BY Zenon DEF Shown
<1>4. [path |-> call[w].path, doc |-> call[w].doc, shown |-> Shown(w)]
        \in [path : Paths, doc : Docs, shown : BOOLEAN]
  BY <1>1, <1>3
<1>5. Tasks[w] # NoTask
  BY <1>2, <1>4, DurableWriteAssumption
<1>6. Tasks[w].path = call[w].path /\ Tasks[w].doc = call[w].doc
  BY <1>2
<1>7. ASSUME NEW b \in BOOLEAN, Shown(w) = b
      PROVE  Tasks[w].shown = b
  <2>1. Tasks[w] = [path |-> call[w].path, doc |-> call[w].doc, shown |-> b]
    BY <1>2, <1>7, Zenon
  <2> QED  BY <2>1
<1>8. pc[w] = "syncdir" => Tasks[w].shown
  <2>1. pc[w] = "syncdir" => Shown(w) = TRUE
    BY Zenon DEF Shown
  <2> QED  BY <2>1, <1>7
<1>9. pc[w] # "syncdir" => ~Tasks[w].shown
  <2>1. pc[w] # "syncdir" => Shown(w) = FALSE
    BY Zenon DEF Shown
  <2> QED  BY <2>1, <1>7
<1> QED  BY <1>2, <1>5, <1>6, <1>8, <1>9

LEMMA FailSimulated ==
  ASSUME DiskInv, NEW w \in Writers, pc[w] \notin {"idle", "remove"},
         Tasks' = [Tasks EXCEPT ![w] = NoTask], UNCHANGED home, Now' = Now, May' = May
  PROVE  Promise!Next
<1>1. Promise!Fail(w)
  BY TaskUnderWay DEF Promise!Fail, Promise!Ends, Now, May, Tasks, TaskOf, Shown
<1> QED  BY <1>1 DEF Promise!Next

LEMMA StutterSimulated ==
  ASSUME UNCHANGED home, Now' = Now, May' = May, Tasks' = Tasks
  PROVE  UNCHANGED Promise!vars
  BY DEF Promise!vars, Now, May, Tasks, TaskOf, Shown

LEMMA InitSimulated == Init => Promise!Init
  BY DEF Init, Promise!Init, Content

LEMMA DirectorySimulated ==
  ASSUME DiskInv, EnsureDir \/ Settle
  PROVE  Promise!Next
<1>1. UNCHANGED <<entry, kept, data, pc, call>>
  BY DEF EnsureDir, Settle
<1>2. Now' = Now /\ May' = May
  BY <1>1, NothingShown
<1>3. Tasks' = Tasks
  BY <1>1 DEF Tasks, TaskOf, Shown
<1>4. Promise!EnsureDir \/ Promise!Settle
  BY <1>2, <1>3 DEF EnsureDir, Settle, Promise!EnsureDir, Promise!Settle, Now, May, Tasks, TaskOf, Shown
<1> QED  BY <1>4 DEF Promise!Next

\* The temporary file: a task is taken up, and readers are given nothing yet.
LEMMA CreateSimulated ==
  ASSUME DiskInv, NEW w \in Writers, NEW p \in Paths, NEW d \in Docs, Create(w, p, d)
  PROVE  Promise!Next
<1> USE DEF DiskInv
<1>1. PICK f \in Files :
         /\ ~Named(f)
         /\ call' = [call EXCEPT ![w] = [path |-> p, doc |-> d, file |-> f]]
         /\ data' = [data EXCEPT ![f] = Torn]
  BY DEF Create
<1>2. /\ pc[w] = "idle" /\ pc' = [pc EXCEPT ![w] = "write"] /\ home # "absent"
      /\ UNCHANGED <<home, entry, kept>>
  BY DEF Create
<1>3. Now' = Now /\ May' = May
  <2>1. \A q \in Paths : \A g \in kept[q] : g # NoFile => data'[g] = data[g]
    BY <1>1 DEF Named, TypeOK, Entries
  <2> QED  BY <1>2, <2>1, NothingShown
<1>4. /\ pc'[w] = "write" /\ call'[w] = [path |-> p, doc |-> d, file |-> f]
      /\ \A v \in Writers : v # w => pc'[v] = pc[v] /\ call'[v] = call[v]
  BY <1>1, <1>2 DEF TypeOK
<1>5. Shown(w)' = FALSE
  BY <1>4, Zenon DEF Shown
<1>6. TaskOf(w)' = [path |-> p, doc |-> d, shown |-> FALSE]
  <2>1. call'[w].path = p /\ call'[w].doc = d
    BY <1>4
  <2>2. TaskOf(w)' = [path |-> call'[w].path, doc |-> call'[w].doc, shown |-> Shown(w)']
    BY <1>4 DEF TaskOf
  <2> QED  BY <1>5, <2>1, <2>2, Zenon
<1>7. \A v \in Writers : v # w => TaskOf(v)' = TaskOf(v)
  BY <1>4 DEF TaskOf, Shown
<1>8. Tasks' = [Tasks EXCEPT ![w] = [path |-> p, doc |-> d, shown |-> FALSE]]
  BY <1>6, <1>7 DEF Tasks
<1>9. Tasks[w] = NoTask
  BY <1>2 DEF Tasks, TaskOf
<1>10. Promise!Ask(w, p, d)
  BY <1>2, <1>3, <1>8, <1>9 DEF Promise!Ask, Promise!Task, Now, May, Tasks, TaskOf, Shown
<1> QED  BY <1>10 DEF Promise!Next

\* Before the rename a call works on a file without a name: it goes on unseen,
\* or fails before it showed anything.
LEMMA UnseenSimulated ==
  ASSUME DiskInv, NEW w \in Writers, Write(w) \/ Sync(w) \/ Close(w)
  PROVE  [Promise!Next]_(Promise!vars)
<1> USE DEF DiskInv
<1>1. /\ pc[w] \in {"write", "sync", "close"} /\ Busy(w) /\ UNCHANGED <<home, entry, kept, call>>
      /\ data' \in {data, [data EXCEPT ![call[w].file] = call[w].doc]}
      /\ \E at \in {"sync", "close", "rename", "remove"} : pc' = [pc EXCEPT ![w] = at]
  BY DEF Write, Sync, Close, Goto, dir, Busy
<1>2. Now' = Now /\ May' = May
  <2>1. \A p \in Paths : \A f \in kept[p] : f # NoFile => f # call[w].file
    BY <1>1 DEF NamedAreWhole, TempsAreOwn
  <2>2. \A p \in Paths : \A f \in kept[p] : f # NoFile => data'[f] = data[f]
    BY <1>1, <2>1 DEF TypeOK, Entries
  <2> QED  BY <1>1, <2>2, NothingShown
<1>3. \A v \in Writers : v # w => TaskOf(v)' = TaskOf(v)
  BY <1>1 DEF TaskOf, Shown, TypeOK
<1>4. CASE pc'[w] = "remove"
  <2>1. Tasks' = [Tasks EXCEPT ![w] = NoTask]
    BY <1>3, <1>4, TaskEnds DEF TaskOf
  <2> QED  BY <1>1, <1>2, <2>1, FailSimulated
<1>5. CASE pc'[w] # "remove"
  <2>1. pc'[w] \in {"sync", "close", "rename"}
    BY <1>1, <1>5 DEF TypeOK
  <2>2. Shown(w)' = FALSE /\ Shown(w) = FALSE
    BY <1>1, <2>1 DEF Shown
  <2>3. TaskOf(w)' = TaskOf(w)
    BY <1>1, <2>1, <2>2 DEF TaskOf
  <2> QED  BY <1>1, <1>2, <1>3, <2>3, TaskStays, StutterSimulated
<1> QED  BY <1>4, <1>5

\* The rename shows the document.
LEMMA RenameSimulated ==
  ASSUME DiskInv, NEW w \in Writers, Rename(w)
  PROVE  Promise!Next
<1> USE DEF DiskInv
<1> DEFINE p == call[w].path
           f == call[w].file
           d == call[w].doc
<1>1. pc[w] = "rename" /\ UNCHANGED <<home, data, call>>
  BY DEF Rename, Goto, dir
<1>2. p \in Paths /\ f \in Files /\ d \in Docs /\ data[f] = d
  BY <1>1 DEF TypeOK, Calls, TempsAreReady
<1>3. CASE pc' = [pc EXCEPT ![w] = "remove"] /\ UNCHANGED <<entry, kept>>
  <2>1. Now' = Now /\ May' = May
    BY <1>1, <1>3, NothingShown
  <2>2. \A v \in Writers : v # w => TaskOf(v)' = TaskOf(v)
    BY <1>1, <1>3 DEF TaskOf, Shown, TypeOK
  <2>3. TaskOf(w)' = NoTask
    BY <1>3 DEF TaskOf, TypeOK
  <2> QED  BY <1>1, <2>1, <2>2, <2>3, TaskEnds, FailSimulated
<1>4. CASE /\ pc' = [pc EXCEPT ![w] = "syncdir"]
           /\ entry' = [entry EXCEPT ![p] = f] /\ kept' = [kept EXCEPT ![p] = @ \cup {f}]
  <2>1. \A g : Content(g)' = Content(g)
    BY <1>1 DEF Content
  <2>2. Content(f) = d
    BY <1>2, DurableWriteAssumption DEF Content
  <2>3. Now' = [Now EXCEPT ![p] = d]
    BY <1>2, <1>4, <2>1, <2>2 DEF Now, TypeOK
  <2>4. May' = [May EXCEPT ![p] = @ \cup {d}]
    <3>1. {Content(g) : g \in kept[p] \cup {f}} = {Content(g) : g \in kept[p]} \cup {d}
      BY <2>2
    <3>2. \A q \in Paths : May'[q] = {Content(g) : g \in kept'[q]}
      BY <2>1 DEF May
    <3>3. May'[p] = May[p] \cup {d} /\ \A q \in Paths : q # p => May'[q] = May[q]
      BY <1>2, <1>4, <3>1, <3>2 DEF May, TypeOK
    <3> QED  BY <1>2, <3>3 DEF May
  <2>5. \A v \in Writers : v # w => TaskOf(v)' = TaskOf(v)
    BY <1>1, <1>4 DEF TaskOf, Shown, TypeOK
  <2>6. pc'[w] = "syncdir"
    BY <1>4 DEF TypeOK
  <2>7. Shown(w)' = TRUE
    BY <2>6, Zenon DEF Shown
  <2>8. TaskOf(w)' = [path |-> p, doc |-> d, shown |-> TRUE]
    BY <1>1, <2>6, <2>7 DEF TaskOf
  <2>9. Tasks' = [Tasks EXCEPT ![w] = [path |-> p, doc |-> d, shown |-> TRUE]]
    BY <2>5, <2>8 DEF Tasks
  <2>10. Tasks[w] # NoTask /\ ~Tasks[w].shown /\ Tasks[w].path = p /\ Tasks[w].doc = d
    BY <1>1, TaskUnderWay
  <2>11. Promise!Show(w)
    BY <1>1, <2>3, <2>4, <2>9, <2>10 DEF Promise!Show, Promise!Task, Now, May, Tasks, TaskOf, Shown
  <2> QED  BY <2>11 DEF Promise!Next
<1> QED  BY <1>3, <1>4 DEF Rename, Goto, dir

\* The directory's fsync: what readers see is all a power cut can leave.
LEMMA SyncDirSimulated ==
  ASSUME DiskInv, NEW w \in Writers, SyncDir(w)
  PROVE  Promise!Next
<1> USE DEF DiskInv
<1>1. /\ pc[w] = "syncdir" /\ UNCHANGED <<home, entry, data>>
      /\ pc' = [pc EXCEPT ![w] = "idle"] /\ call' = [call EXCEPT ![w] = NoTask]
  BY DEF SyncDir, Return
<1>2. \A v \in Writers : v # w => TaskOf(v)' = TaskOf(v)
  BY <1>1 DEF TaskOf, Shown, TypeOK
<1>3. TaskOf(w)' = NoTask
  BY <1>1 DEF TaskOf, TypeOK
<1>4. Tasks' = [Tasks EXCEPT ![w] = NoTask]
  BY <1>2, <1>3, TaskEnds
<1>5. CASE UNCHANGED kept
  <2>1. Now' = Now /\ May' = May
    BY <1>1, <1>5, NothingShown
  <2> QED  BY <1>1, <1>4, <2>1, FailSimulated
<1>6. CASE kept' = [p \in Paths |-> {entry[p]}]
  <2>1. Now' = Now
    BY <1>1 DEF Now, Content
  <2>2. May' = [p \in Paths |-> {Now[p]}]
    BY <1>1, <1>6 DEF May, Now, Content
  <2>3. Tasks[w] # NoTask /\ Tasks[w].shown
    BY <1>1, TaskUnderWay
  <2>4. Promise!Succeed(w)
    BY <1>1, <1>4, <2>1, <2>2, <2>3
    DEF Promise!Succeed, Promise!Ends, Now, May, Tasks, TaskOf, Shown
  <2> QED  BY <2>4 DEF Promise!Next
<1> QED  BY <1>5, <1>6 DEF SyncDir

\* A call that has failed already only tidies up; one that dies fails.
LEMMA EndSimulated ==
  ASSUME DiskInv, NEW w \in Writers, Remove(w) \/ Crash(w)
  PROVE  [Promise!Next]_(Promise!vars)
<1> USE DEF DiskInv
<1>1. /\ pc[w] # "idle" /\ UNCHANGED <<home, entry, kept, data>>
      /\ pc' = [pc EXCEPT ![w] = "idle"] /\ call' = [call EXCEPT ![w] = NoTask]
  BY DEF Remove, Crash, Return, dir
<1>2. Now' = Now /\ May' = May
  BY <1>1, NothingShown
<1>3. \A v \in Writers : v # w => TaskOf(v)' = TaskOf(v)
  BY <1>1 DEF TaskOf, Shown, TypeOK
<1>4. TaskOf(w)' = NoTask
  BY <1>1 DEF TaskOf, TypeOK
<1>5. CASE pc[w] = "remove"
  <2>1. TaskOf(w) = NoTask
    BY <1>5 DEF TaskOf
  <2> QED  BY <1>1, <1>2, <1>3, <1>4, <2>1, TaskStays, StutterSimulated
<1>6. CASE pc[w] # "remove"
  BY <1>1, <1>2, <1>3, <1>4, <1>6, TaskEnds, FailSimulated
<1> QED  BY <1>5, <1>6

\* After a power cut every name has what it might have had.
LEMMA PowerCutSimulated ==
  ASSUME DiskInv, PowerCut
  PROVE  Promise!Next
<1> USE DEF DiskInv
<1>1. /\ kept' = [p \in Paths |-> {entry'[p]}]
      /\ \A f \in Files : data'[f] \in IF f \in synced THEN {data[f]} ELSE {data[f], Torn}
      /\ pc' = [w \in Writers |-> "idle"]
  BY DEF PowerCut
<1>2. Tasks' = [w \in Writers |-> NoTask]
  BY <1>1 DEF Tasks, TaskOf
<1>3. May' = [p \in Paths |-> {Now'[p]}]
  BY <1>1 DEF May, Now, Content
<1>4. CASE entry' \in [Paths -> Entries] /\ (\A p \in Paths : entry'[p] \in kept[p]) /\ UNCHANGED home
  <2>1. \A p \in Paths : Content(entry[p])' = Content(entry'[p])
    <3> SUFFICES ASSUME NEW p \in Paths
                 PROVE  Content(entry[p])' = Content(entry'[p])
      OBVIOUS
    <3>1. CASE entry'[p] = NoFile
      BY <3>1 DEF Content
    <3>2. CASE entry'[p] # NoFile
      <4>1. entry'[p] \in Files /\ entry'[p] \in synced
        BY <1>4, <3>2 DEF NamedAreWhole, Entries
      <4> QED  BY <1>1, <4>1 DEF Content
    <3> QED  BY <3>1, <3>2
  <2>2. \A p \in Paths : Now'[p] \in May[p]
    BY <1>4, <2>1 DEF Now, May
  <2>3. \A p \in Paths : Now'[p] \in Docs \cup {NoDoc}
    <3> SUFFICES ASSUME NEW p \in Paths, entry'[p] # NoFile
                 PROVE  data[entry'[p]] \in Docs
      BY <2>1 DEF Now, Content
    <3> QED  BY <1>4 DEF NamedAreWhole
  <2>4. Now' \in [Paths -> Docs \cup {NoDoc}]
    BY <2>3 DEF Now
  <2>5. Promise!PowerCut
    BY <1>2, <1>3, <1>4, <2>2, <2>4
    DEF Promise!PowerCut, Promise!Contents, Now, May, Tasks, TaskOf, Shown
  <2> QED  BY <2>5 DEF Promise!Next
<1>5. CASE home # "kept" /\ home' = "absent" /\ entry' = [p \in Paths |-> NoFile]
  <2>1. Now' = [p \in Paths |-> NoDoc]
    BY <1>5 DEF Now, Content
  <2>2. Promise!PowerCut
    BY <1>2, <1>3, <1>5, <2>1 DEF Promise!PowerCut, Now, May, Tasks, TaskOf, Shown
  <2> QED  BY <2>2 DEF Promise!Next
<1> QED  BY <1>4, <1>5 DEF PowerCut

LEMMA StepSimulated == DiskInv /\ [Next]_vars => [Promise!Next]_(Promise!vars)
<1> SUFFICES ASSUME DiskInv, [Next]_vars PROVE [Promise!Next]_(Promise!vars)
  OBVIOUS
<1>1. CASE EnsureDir \/ Settle
  BY <1>1, DirectorySimulated
<1>2. CASE PowerCut
  BY <1>2, PowerCutSimulated
<1>3. ASSUME NEW w \in Writers,
             Write(w) \/ Sync(w) \/ Close(w) \/ Rename(w) \/ SyncDir(w) \/ Remove(w) \/ Crash(w)
      PROVE  [Promise!Next]_(Promise!vars)
  BY <1>3, UnseenSimulated, RenameSimulated, SyncDirSimulated, EndSimulated
<1>4. ASSUME NEW w \in Writers, NEW p \in Paths, NEW d \in Docs, Create(w, p, d)
      PROVE  [Promise!Next]_(Promise!vars)
  BY <1>4, CreateSimulated
<1>5. CASE UNCHANGED vars
  <2>1. Now' = Now /\ May' = May
    BY <1>5, NothingShown DEF vars, dir
  <2>2. Tasks' = Tasks
    BY <1>5 DEF vars, Tasks, TaskOf, Shown
  <2> QED  BY <1>5, <2>1, <2>2, StutterSimulated DEF vars, dir
<1> QED  BY <1>1, <1>2, <1>3, <1>4, <1>5 DEF Next

\* WriteFileAtomic, system call by system call, is the atomic file its callers
\* take it for: shown whole at one instant, safe once it has returned nil.
THEOREM WritesAreAtomic == Spec => ImplementsAtomicFile
  BY InitSimulated, StepSimulated, DiskInvariant, PTL DEF Spec, ImplementsAtomicFile, Promise!Spec
=============================================================================
