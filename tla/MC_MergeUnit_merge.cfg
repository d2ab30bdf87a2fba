CONSTANTS
    a = a  b = b  c = c  d = d  u1 = u1  u2 = u2  r = r  m = m  h = h
    Absent = absent  NoUnit = none  NoCall = nobody
    Calls = {r, m}
    Mounts = {r}
    Home <- MC_Home
    Approves <- MC_Approves
    Units = {u1, u2}
    Skills = {a, b, c, d}
    Target <- MC_Target
    Sources <- MC_Sources
    Bundled = {u1}
    InitLive <- MC_Live
    Editable = {c}
    MaxFaults = 1  MaxCrashes = 1  MaxEdits = 1  MaxTroubles = 2  MaxMerges = 2
SPECIFICATION FairSpec
INVARIANTS TypeOK
PROPERTIES EvidenceIsHonest MergeKeepsEdits OnlyStaleRollbackUndoes LockIsFreed
CHECK_DEADLOCK FALSE
