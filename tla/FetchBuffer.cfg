SPECIFICATION Spec
CONSTANTS
  DEPTH = 4
  Word = {w1, w2, w3}
  NoWord = NoWord
INVARIANT PointersAgree
PROPERTIES ImplementsQueue
