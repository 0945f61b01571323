\* A process with one call of each kind, started and stopped at any moment, with
\* one failure; no symmetry, for the liveness.  A duration holds -2..1: the two seconds
\* of the request overflow, and the clock runs past them.
SPECIFICATION FairServerSpec
CONSTANTS
    Invites = {i1}
    Accepts = {a1}
    Admins = {m1}
    Emails = {e1}
    Roles = {}
    Seconds = {2}
    Overflow = 2
    Ttls <- Lives
    DefaultTtl = 1
    Second = 1
    MaxTime = 3
    MaxFaults = 1
    NoToken = NoToken
INVARIANTS
    ServerTypeOK
    RefusalWroteNothing
    HonouredAsAsked
    StopCutsNoCall
PROPERTIES
    SignalEndsRun
