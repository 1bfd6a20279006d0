SPECIFICATION Spec
CONSTANTS
    Conn = {c1, c2} Mailbox = {m1} Fam = {f1, f2} Reader = {t1, t2}
    None = None
    Skew = 1 Lifetime = {1} DefaultLife = 1
    MaxClock = 0 MaxGen = 1 MaxFaults = 1
SYMMETRY Symmetry
INVARIANTS TypeInv DisconnectedIsFinal WipedStaysWiped StaleMeansDead
    MeShowsHeld
