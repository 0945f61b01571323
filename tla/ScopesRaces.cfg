\* Three registrations and a deprecation at any moment, one failure.
SPECIFICATION Spec
CONSTANTS
    Registers = {c1, c2, c3}
    Deprecates = {d1}
    Prefixes = {"git", "org"}
    Services = {"codevaldgit", "codevaldorg"}
    Reserved = {"org"}
    Self = "codevaldorg"
    Malformed = "malformed"
    MaxFaults = 1
SYMMETRY Symmetry
INVARIANTS
    TypeOK
    RegisteredByCaller
PROPERTY ImplementsUniqueNames
