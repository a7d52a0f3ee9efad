\* A statement of the source that the allocator does not keep.
CONSTANTS
    a = a
    b = b
    c = c
    NoName = NoName
    Name = {a, b, c}
    Core <- MCCore
    Inputs <- MCInputs
SPECIFICATION Spec
INVARIANT
    AllCollisionsReported
