SPECIFICATION LiveSpec
CONSTANTS
  Reg = {0, 1}
  Kinds = {"LOAD", "FLOAD", "CSR", "BRANCH", "SYS", "FENCEI"}
  MaxInstr = 2
  Predict = FALSE
  Interrupts = FALSE
PROPERTIES
  EventuallyRetires
