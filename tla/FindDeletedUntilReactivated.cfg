SPECIFICATION Spec
CONSTANTS
    Invites = {i1, i2}
    Accepts = {a1, a2}
    Admins = {m1}
    Emails = {e1}
    Roles = {}
    Ttls = {0}
    DefaultTtl = 1
    Second = 1
    MaxTime = 0
    MaxFaults = 1
    NoToken = NoToken
INVARIANTS
    DeletedUntilReactivated
