SPECIFICATION Spec
CONSTANTS
  Reg = {0, 1}
  Kinds = {"ALU", "LOAD", "JUMP", "BRANCH", "SYS", "CSR", "FENCEI"}
  MaxInstr = 3
  Predict = FALSE
  Interrupts = FALSE
INVARIANTS
  TypeOK
  InProgramOrder
  NoWrongPathAtMem2
  FreshOperand
  FreshCsr
  RrStallUnreachable
