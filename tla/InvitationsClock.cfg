\* One invitation over time: two roles, two lives, a second of two units, an acceptance
\* and an administrator at any moment, one failure; no symmetry, for the liveness.
SPECIFICATION FairSpec
CONSTANTS
    Invites = {i1}
    Accepts = {a1}
    Admins = {m1}
    Emails = {e1}
    Roles = {r1, r2}
    Ttls = {0, 1}
    DefaultTtl = 2
    Second = 2
    MaxTime = 4
    MaxFaults = 1
    NoToken = NoToken
INVARIANTS
    TypeOK
    IssuedIsComplete
    NeverHonouredLate
PROPERTIES
    CallsReturn
