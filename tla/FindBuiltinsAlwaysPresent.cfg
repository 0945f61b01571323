\* An initialisation that fails half way, and its retry.
SPECIFICATION Spec
CONSTANTS
    Inits = {i1, i2}
    Creates = {}
    Admins = {}
    Builtins <- TwoBuiltins
    CustomNames = {}
    MaxFaults = 1
INVARIANTS
    BuiltinsAlwaysPresent
