SPECIFICATION Spec
CONSTANTS
  NumSets = 1
  NumWays = 1
  Beats = 2
  Tags = {"t1", "t2"}
  NcTags = {}
  Word = {Zero, Leaf, LeafAD}
  Zero = Zero
  Leaf = Leaf
  LeafAD = LeafAD
  Kinds = {"LOAD", "AMO"}
  Targets <- OneSet
  Data = {Leaf, LeafAD}
  PteAddrs <- Nowhere
  MaxOps = 3
  MaxWalks = 0
  Stalls = TRUE
  BusErrors = FALSE
INVARIANT ReadsLatest
