SPECIFICATION Spec
CONSTANTS
    u1 = u1 u2 = u2 i1 = i1 i2 = i2 r1 = r1 r2 = r2 m1 = m1 m2 = m2
    f1 = f1 f2 = f2 s1 = s1 s2 = s2 a1 = a1 a2 = a2 None = None
    User = {u1} Role = {r1, r2} RolesOf <- OneRole
    Instance = {i1} Mailbox = {} Flow = {}
    UserSlot = {s1} AdminSlot = {s1} Serves <- AnyUser
    Seeded = {i1} SeedMapping <- MapAll
    MaxRows = 2 MaxFaults = 0
INVARIANTS LiveIsAuthorized
