SPECIFICATION Spec
CONSTANTS
  imm = imm
  blk = blk
  ref = ref
  str = str
  x = x
  y = y
  p = p
  q = q
  s = s
  atP = atP
  atQ = atQ
  Absent = Absent
  NonValue = NonValue
  Imm = imm
  Kind <- MixedKinds
  StdBlock = {ref, blk}
  FieldOf <- MixedFields
  ArgShapes <- MixedArgs
  AllocShapes <- MixedAllocs
  Str = str
  Loc = {x, y, s}
  Vals = {x, y}
  Ptrs = {}
  Named = {}
  CharPtrs = {s}
  CellOf <- NoPointers
  Conditionals = 0
  ForbidUnlockedReads = TRUE
  ForbidEndRoots = TRUE
SYMMETRY Twins
CHECK_DEADLOCK FALSE
INVARIANTS TypeOK Described StaleWasExposed
PROPERTIES ReportedAtOnce DoubleRootIsReal KeepsContract
