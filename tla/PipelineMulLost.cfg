SPECIFICATION Spec
CONSTANTS
  Reg = {0, 1}
  Kinds = {"MUL", "LOAD"}
  MaxInstr = 3
  Predict = FALSE
  Interrupts = FALSE
INVARIANTS
  MulFreezes
