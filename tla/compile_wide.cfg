CONSTANTS
  MaxSlots = 18
  MaxHeight = 12
  MaxConsts = 2
  MaxCallSlots = 6
  ConstValues = {101}
  Functions <- MCWideFunctions
SPECIFICATION Spec
INVARIANT AssertsHold
