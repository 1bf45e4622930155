SPECIFICATION Spec
CONSTANTS
  imm = imm
  blk = blk
  x = x
  y = y
  Absent = Absent
  NonValue = NonValue
  Imm = imm
  Kind = {imm, blk}
  StdBlock = {blk}
  FieldOf <- BlockField
  Str = blk
  Loc = {x, y}
  Vals = {x, y}
  Ptrs = {}
  Named = {}
  CharPtrs = {}
  CellOf <- NoPointers
  MaxBody = 3
  Loops <- Fors
  Unrolling = 1
  Delay = 0
  ArgShape = {blk}
CHECK_DEADLOCK FALSE
INVARIANTS LoopDescribed
