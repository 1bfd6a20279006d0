SPECIFICATION Spec
CONSTANTS
    Side = {inference, embedding} Admin = {a1, a2}
    u1 = u1 k1 = k1 k2 = k2 Url = {u1} Key = {k1, k2} Offers <- SomeOffers
    Empty = Empty Existing = Existing None = None
    MaxUpdates = 3 MaxFaults = 1
SYMMETRY Symmetry
INVARIANTS TypeInv RequiredFieldsFilled NoKeyInTrail TrailTellsConfig
    OneConfiguration
PROPERTIES SidesChangeOnPurpose
CHECK_DEADLOCK FALSE
