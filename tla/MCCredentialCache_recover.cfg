\* Two workers and the collector on a cluster that may come back under its name; one fault.
CONSTANTS
  w1 = w1
  w2 = w2
  Clusters <- OneCluster
  Workers = {w1, w2}
  Recreates = TRUE
  MaxRewrites = 2
  MaxFaults = 1
SPECIFICATION FairSpec
PROPERTIES OnlyStraysCollected CopyCatchesUp StraysCollected
\* Everything may be gone.
CHECK_DEADLOCK FALSE
