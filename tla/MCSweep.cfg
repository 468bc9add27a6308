SPECIFICATION FairSpec
CONSTANTS
  Files = {"a", "b", "c", "d", "e"}
  Dirs <- MCDirs
  Links = {"dot"}
  Contents <- MCContents
  Cache <- MCCache
  AppRoots <- MCAppRoots
  Thumbs <- MCThumbs
  MaxDepth = 1
  Every = 3
  Faulty = TRUE
  None = "none"
INVARIANTS PreemptsInTime SweptClean
PROPERTIES SweepEnds
