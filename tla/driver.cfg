SPECIFICATION Spec
CONSTANTS
  Stubs <- AllStubs
  Globals <- AllGlobals
  MaxStubs = 2
  MaxInterrupts = 1
CHECK_DEADLOCK FALSE
INVARIANTS TypeOK VerdictsAreJustified PassMeansAnalysed ExitAgrees
PROPERTIES AllAnalysed
