CONSTANTS
    p1 = p1  p2 = p2  b0 = b0  x1 = x1  x2 = x2  y1 = y1  h = h
    u1 = u1  u2 = u2  c1 = c1  c2 = c2
    Absent = absent  AnyBytes = any  NoCaller = nobody  NoUnit = none
    Paths = {p1, p2}
    Bytes = {absent, b0, x1, x2, y1, h}
    UserBytes = {h}
    Units = {u1, u2}
    Callers = {c1, c2}
    InitFiles <- MC_Init
    Ops <- MC_Distinct
    MaxEdits = 0  MaxFaults = 0  MaxCrashes = 0
SPECIFICATION Spec
PROPERTIES RecoveryKeepsCommitted
