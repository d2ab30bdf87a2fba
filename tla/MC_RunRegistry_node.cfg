CONSTANTS
    p1 = p1  p2 = p2  a = a  b = b  s1 = s1  m1 = m1  m2 = m2
    NoProc = noproc  NoRun = norun
    Procs = {p1, p2}
    Regs = {a, b}
    Runs = {s1}
    Proc <- MC_Planes
    Kind <- MC_Kinds
    CrossProcess = FALSE
    Calls = {"dispose"}
    Results = {"succeeded"}
    MaxRecords = 2  MaxLoads = 2  MaxFaults = 1  MaxRestores = 1
SPECIFICATION FairSpec
INVARIANTS NoFabricatedVerdict
PROPERTIES VerdictIsNotReopened OrphansConverge
CHECK_DEADLOCK FALSE
