\* A client with up to two URIs and a scope, two rotations and two deletions at any moment.
SPECIFICATION Spec
CONSTANTS
    Creates = {c1}
    Rotates = {r1, r2}
    Deletes = {d1, d2}
    UriLists <- Uris
    ScopeLists <- ScopeIds
    MaxFaults = 1
SYMMETRY Symmetry
INVARIANTS
    TypeOK
    CreatedIsComplete
    AtMostOneLooseUri
    RotatedIsHeld
