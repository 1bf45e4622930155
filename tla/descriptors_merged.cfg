CONSTANTS
    Address = {a1, a2, a3}
    None = None
    Window = 2
    MaxId = 3
    MaxAnswer = 4
    Branches = 1
SPECIFICATION Spec
SYMMETRY Sites
INVARIANT DescriptorsDescribed
CHECK_DEADLOCK FALSE
