\* Two grants, a revocation and two lists at any moment, two users, one failure.
SPECIFICATION Spec
CONSTANTS
    Grants = {g1, g2}
    Revokes = {v1}
    Lists = {l1, l2}
    Users = {u1, u2}
    AllUsers = AllUsers
    MaxFaults = 1
SYMMETRY Symmetry
INVARIANTS
    TypeOK
    ListComplete
    RevocationShows
    GrantedIsLinked
