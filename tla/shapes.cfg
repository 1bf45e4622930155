SPECIFICATION Spec
CONSTANTS
  imm = imm
  std = std
  str = str
  Top = Top
  None = None
  Kind = {imm, std, str}
  Imm = imm
  Std = std
  Tag = {0, 1}
  Index = {0, 1}
  TypeShapes <- DeclaredTypes
  Value <- Values
  Levels = 5
  MaxDepth = 1
  MaxBreadth = 1
CHECK_DEADLOCK FALSE
INVARIANTS TypeOK Described MismatchIsReal SubsetSound
PROPERTIES Stabilises
