\* One profile, two windows, two keys and recovery codes, a lost message; a step of time is 24 h.
CONSTANTS
    Device = {d1, d2}
    Scope = {t1, t2, t3}
    Code = {c1, c2}
    Sid = {}
    NoDevice = NoDevice
    NoSession = NoSession
    PairingTTL = 1
    CodeTTL = 1
    MaxOpenPairings = 0
    MaxNow = 1
    Profile = {p1}
    Slot = {r1, r2}
    Recovery = {w1, w2}
    None = None
    SetupTTL = 0
    MaxFaults = 1
SPECIFICATION SetupSpec
SYMMETRY Symmetry
\* A device that is set up has nothing left to do, and codes run out.
CHECK_DEADLOCK FALSE
INVARIANTS MasterMatchesVault InferredFirstIsFirst DoneIsBackedUp
PROPERTY LateStepsMoveNothing
