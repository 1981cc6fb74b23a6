\* Two processes without a lock, two files of one directory, three inodes.
SPECIFICATION Spec
SYMMETRY DiskSymmetry
CONSTANTS
    Writers = {w1, w2}
    Paths = {p1, p2}
    Docs = {d1, d2}
    NoDoc = NoDoc
    Files = {f1, f2, f3}
    NoFile = NoFile
    NoTask = NoTask
    Torn = Torn
INVARIANTS
    OnlyWholeFilesAreNamed
    AckedSurvives
PROPERTIES
    ImplementsAtomicFile
