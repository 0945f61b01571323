\* Safety and the refinement: two questions about one token and two revocations at any moment.
SPECIFICATION Spec
CONSTANTS
    Tokens = {t1}
    Introspects = {i1, i2}
    Revokes = {v1, v2}
    Second = 2
    MaxTime = 3
    MaxFaults = 1
    NoToken = NoToken
SYMMETRY Symmetry
INVARIANTS
    TypeOK
    RevokedNotActive
PROPERTIES
    ImplementsTokenValidity
