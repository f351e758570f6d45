CONSTANTS
  Functions = {"f", "g", "h"}
  Broken = {"h"}
  StartFunction = "g"
  FrameSlots <- MCFrameSlots
  CallSlots = 4
  Table <- MCTable
  Outer <- MCOuter
  NumStackSlots = 8
  MaxPages = 2
  PageSize = 1
  HeaderSize = 1
  U32 = 3
  GrowsInCallback = FALSE
  MaxFrames = 5
SPECIFICATION Spec
INVARIANTS MemoryFresh BoundsExact ContentsKept StackFits CallsGoToCode ResultsOfLastCall
PROPERTY ContinuesItsLoop
