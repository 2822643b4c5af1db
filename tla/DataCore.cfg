SPECIFICATION Spec
CONSTANTS
  NumSets = 2
  NumWays = 2
  Beats = 2
  Tags = {"t1", "t2"}
  NcTags = {}
  Word = {Zero, Leaf, LeafAD}
  Zero = Zero
  Leaf = Leaf
  LeafAD = LeafAD
  Kinds = {"LOAD", "STORE", "FENCE"}
  Targets <- TwoSets
  Data = {Leaf, LeafAD}
  PteAddrs <- Nowhere
  MaxOps = 3
  MaxWalks = 0
  Stalls = TRUE
  BusErrors = FALSE
SYMMETRY StoredWords
INVARIANTS
  OneCopy
  Coherent
  ReadsLatest
  FlushDrains
