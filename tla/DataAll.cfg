SPECIFICATION LiveSpec
CONSTANTS
  NumSets = 1
  NumWays = 1
  Beats = 2
  Tags = {"t1", "t2"}
  NcTags = {"t2"}
  Word = {Zero, Leaf, LeafAD}
  Zero = Zero
  Leaf = Leaf
  LeafAD = LeafAD
  Kinds = {"LOAD", "STORE", "LR", "SC", "AMO", "FENCE"}
  Targets <- OneSet
  Data = {Leaf}
  PteAddrs <- OneSet
  MaxOps = 2
  MaxWalks = 1
  Stalls = FALSE
  BusErrors = TRUE
INVARIANT UncachedNeverAllocates
PROPERTY EventuallyCompletes
