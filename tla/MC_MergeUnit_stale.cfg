CONSTANTS
    a = a  b = b  c = c  d = d  u1 = u1  u2 = u2  r = r  m = m  h = h
    Absent = absent  NoUnit = none  NoCall = nobody
    Calls = {r, m}
    Mounts = {r}
    Home <- MC_Home
    Approves <- MC_Approves
    Units = {u2}
    Skills = {a, b, c, d}
    Target <- MC_Target
    Sources <- MC_Sources
    Bundled = {}
    InitLive <- MC_Existing
    Editable = {}
    MaxFaults = 0  MaxCrashes = 0  MaxEdits = 0  MaxTroubles = 1  MaxMerges = 2
SPECIFICATION Spec
PROPERTIES CommittedNeverRolledBack
CHECK_DEADLOCK FALSE
