SPECIFICATION Spec
CONSTANTS
  imm = imm
  blk = blk
  ref = ref
  str = str
  x = x
  y = y
  p = p
  q = q
  s = s
  atP = atP
  atQ = atQ
  Absent = Absent
  NonValue = NonValue
  Imm = imm
  Kind <- PlainKinds
  StdBlock = {blk}
  FieldOf <- PlainFields
  ArgShapes <- PlainArgs
  AllocShapes <- PlainAllocs
  Str = blk
  Loc = {x, p, q, atP, atQ}
  Vals = {x}
  Ptrs = {p, q}
  Named = {q}
  CharPtrs = {}
  CellOf <- Cells
  Conditionals = 0
  ForbidUnlockedReads = TRUE
  ForbidEndRoots = TRUE
CHECK_DEADLOCK FALSE
INVARIANTS Described StaleWasExposed
PROPERTIES KeepsContract
