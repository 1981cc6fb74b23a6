\* Two processes, two profiles, two deployments.
SPECIFICATION Spec
CONSTANTS
    Procs = {p1, p2}
    main = main
    other = other
    u1 = u1
    u2 = u2
    k1 = k1
    k2 = k2
    t1 = t1
    t2 = t2
    Profiles = {main, other}
    URLs = {u1, u2}
    APIKeys = {k1, k2}
    PATs = {t1, t2}
    Runs = {r}
    None = None
    Home <- MCHome
    Pastable <- MCPastable
    Commands <- MCCommands
SYMMETRY MCSymmetry
INVARIANTS
    TypeOK
    BoundWhereVerified
    FileTokensGoHome
    OneCredentialPerRun
PROPERTIES
    OnlyARaceLosesASlot
