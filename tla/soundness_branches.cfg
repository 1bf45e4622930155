SPECIFICATION Spec
CONSTANTS
  imm = imm
  blk = blk
  ref = ref
  str = str
  x = x
  y = y
  p = p
  q = q
  s = s
  atP = atP
  atQ = atQ
  Absent = Absent
  NonValue = NonValue
  Imm = imm
  Kind <- PlainKinds
  StdBlock = {blk}
  FieldOf <- PlainFields
  ArgShapes <- PlainArgs
  AllocShapes <- PlainAllocs
  Str = blk
  Loc = {x}
  Vals = {x}
  Ptrs = {}
  Named = {}
  CharPtrs = {}
  CellOf <- NoPointers
  Conditionals = 1
  ForbidUnlockedReads = TRUE
  ForbidEndRoots = TRUE
CHECK_DEADLOCK FALSE
INVARIANT Described
PROPERTIES ReportedAtOnce KeepsContract
