SPECIFICATION Spec
CONSTANTS
  XLEN = 4
  MaxOps = 2
  Later = {0, 1, 2, 8, 15}
INVARIANTS
  Restoring
  ResultCorrect
  AnswersInTime
