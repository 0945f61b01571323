\* Safety of concurrent calls: two invitations, of one address or of two, two acceptances
\* and an administrator, two failures.  Nothing here depends on the clock.
SPECIFICATION Spec
CONSTANTS
    Invites = {i1, i2}
    Accepts = {a1, a2}
    Admins = {m1}
    Emails = {e1, e2}
    Roles = {}
    Ttls = {0}
    DefaultTtl = 1
    Second = 1
    MaxTime = 0
    MaxFaults = 2
    NoToken = NoToken
SYMMETRY RaceSymmetry
INVARIANTS
    AcceptedUserActivated
    AcknowledgedOnlyOnce
PROPERTY ImplementsUniqueNames
