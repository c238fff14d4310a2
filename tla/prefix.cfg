SPECIFICATION FairSpec
CONSTANTS
  d1 = d1
  d2 = d2
  Keys <- AllKeys
  NameOf <- Names
  Directory <- DirectoryA
  Deleters <- TwoDeleters
  Asked <- BothAsked
  MaxKeys = 2
  Unreliable = TRUE
INVARIANT Emptied
PROPERTY NeighboursAreKept
PROPERTY Terminates
\* Both calls returned.
CHECK_DEADLOCK FALSE
