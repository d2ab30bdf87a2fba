CONSTANTS
    h1 = h1  h2 = h2  n1 = n1  n2 = n2  n3 = n3  n4 = n4
    Human = human  None = none
    Slots = {h1, h2}
    Ids = {n1, n2, n3, n4}
    Interval = 2
    MaxQueue = 2  MaxFaults = 0
SPECIFICATION Spec

PROPERTIES NoSelfChain
CHECK_DEADLOCK FALSE
