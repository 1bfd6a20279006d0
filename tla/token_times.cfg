SPECIFICATION Spec
CONSTANTS
    Conn = {c1} Mailbox = {m1} Fam = {f1} Reader = {t1, t2}
    None = None
    Skew = 1 Lifetime = {1, 3} DefaultLife = 3
    MaxClock = 4 MaxGen = 0 MaxFaults = 0
SYMMETRY Symmetry
INVARIANT ServableIsValid
