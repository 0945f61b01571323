\* Two initialisations, a new role and an administrative call, one failure.
SPECIFICATION Spec
CONSTANTS
    Inits = {i1, i2}
    Creates = {r1}
    Admins = {m1}
    Builtins <- TwoBuiltins
    CustomNames = {"custom"}
    MaxFaults = 1
SYMMETRY Symmetry
INVARIANTS
    TypeOK
    SeedingComplete
PROPERTIES
    OrgsImplementUniqueNames
    RolesImplementUniqueNames
