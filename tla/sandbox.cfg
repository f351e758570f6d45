SPECIFICATION Spec
CONSTANTS
  Pages = {q1, q2, q3, q4}
  NumLines = 9
  MaxOperands = 4
  Targets = {1, 6, 20}
  DepthMax = 2
  U32 = 128
  NoPage = NoPage
  NoRuntime = NoRuntime
SYMMETRY Symmetric
INVARIANTS
  TypeOK
  PagesApart
  PagesCounted
  RoomForBridge
  LossIsAbandon
  ReturnsClean
 
