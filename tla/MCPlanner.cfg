\* The allocator on every shape of Spec up to three roles.
CONSTANTS
    a = a
    b = b
    c = c
    NoName = NoName
    Name = {a, b, c}
    Core <- MCCore
    Inputs <- MCInputs
SPECIFICATION Spec
INVARIANTS
    IInv
    ExclusiveIsolation
    ClashOnlyFromExplicit
    PinTargetsExist
    RefusedExactlyWhenShort
    SharingIsLastResort
    ShortOnlyWhenPoolExhausted
    LeftoversComplete
    CollisionsReported
PROPERTIES
    AllocationsAreFinal
    CollisionOnlyWhenForced
