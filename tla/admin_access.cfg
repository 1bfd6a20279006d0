SPECIFICATION Spec
CONSTANTS
    Kid = {k1, k2} Request = {t1, t2} Login = {s1, s2} Ip = {a1, a2}
    None = None Name = {admin} Bootstrap = admin
    TTL = 2 NegativeTTL = 1
    Window = 1 Limit = 1 Threshold = 2 Lockout = 1
    MaxClock = 2 MaxEvents = 4
SYMMETRY Symmetry
INVARIANTS TypeInv KeysAreRecent CurrentKeyAccepted LockHeldByFetcher
    OneFetchPerExpiry AdmissionsBounded LockoutCounts SiamAdminDisablesLocal
CHECK_DEADLOCK FALSE
