SPECIFICATION Spec
CONSTANTS
  Reg = {0}
  Kinds = {"MUL", "BRANCH", "SYS"}
  MaxInstr = 4
  Predict = TRUE
  Interrupts = FALSE
INVARIANTS
  OwnResult
  InProgramOrder
PROPERTIES
  StrobeLostOnce
  OrderUnlessLost
