\* Three keys; two scopes that may be registered under either kind; two codes; one
\* session may be open while another is asked for; deadlines of one tick.
CONSTANTS
    Device = {d1, d2, d3}
    Scope = {s1, s2}
    Code = {c1, c2}
    Sid = {x1, x2}
    NoDevice = NoDevice
    NoSession = NoSession
    PairingTTL = 1
    CodeTTL = 1
    MaxOpenPairings = 1
    MaxNow = 1
SPECIFICATION StoreSpec
SYMMETRY Symmetry
\* The clock is bounded, keys and codes are finite: a run may simply end.
CHECK_DEADLOCK FALSE
INVARIANTS SessionsAreLive
INVARIANTS MasterStaysWithTheOwners OwnerRemains
PROPERTIES ImplementsEnrollment
