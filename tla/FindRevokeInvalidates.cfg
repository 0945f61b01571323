\* A lookup of Revoke fails.
SPECIFICATION Spec
CONSTANTS
    Tokens = {t1}
    Introspects = {i1}
    Revokes = {v1}
    Second = 2
    MaxTime = 3
    MaxFaults = 1
    NoToken = NoToken
INVARIANTS
    RevokeInvalidates
