SPECIFICATION Spec
CONSTANTS
  Texts = {a, b}
  Sections = {"Type", "Import", "Function", "Global", "Export", "Code", "Data"}
  MaxNames = 2
  MaxStrings = 4
  MaxFunctions = 2
  MaxGlobals = 1
SYMMETRY Symmetric
INVARIANTS NothingFreedTwice NothingElseLost BodiesMatch FindsExported
CHECK_DEADLOCK FALSE
