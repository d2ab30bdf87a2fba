CONSTANTS
    t1 = t1  t2 = t2  i1 = i1  a = a  b = b
    NoCall = nocall  Merge = merge
    Calls = {t1, t2}
    Instances = {i1}
    Home <- MC_Home
    Passes = {t1}
    Skills = {a, b}
    MaxFaults = 1  MaxManual = 1  MaxDays = 2
SPECIFICATION FairSpec
INVARIANTS TypeOK ApplyExcludes
PROPERTIES FoldIsTrue LandedIsRecorded ClockIsTheUsers PauseSurvives AstrayHeals
CHECK_DEADLOCK FALSE
