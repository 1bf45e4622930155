CONSTANTS
    Address = {a1, a2, a3}
    None = None
    Window = 1
    MaxId = 3
    MaxAnswer = 4
    Branches = 1
SPECIFICATION Spec
SYMMETRY Sites
INVARIANTS TypeOK DescriptorsDescribed SupportIsOpen AnswerDescribed
CHECK_DEADLOCK FALSE
