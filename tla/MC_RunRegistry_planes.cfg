CONSTANTS
    p1 = p1  p2 = p2  a = a  b = b  s1 = s1  m1 = m1  m2 = m2
    NoProc = noproc  NoRun = norun
    Procs = {p1, p2}
    Regs = {a, b}
    Runs = {m1, m2}
    Proc <- MC_Planes
    Kind <- MC_Kinds
    CrossProcess = TRUE
    Calls = {"recover", "stage"}
    Results = {"failed"}
    MaxRecords = 1  MaxLoads = 1  MaxFaults = 0  MaxRestores = 0
SPECIFICATION Spec
INVARIANTS TypeOK NoFabricatedVerdict StartedIsVisible
PROPERTIES VerdictIsFinal
SYMMETRY MC_Symmetry
CHECK_DEADLOCK FALSE
