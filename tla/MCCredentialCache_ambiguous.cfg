\* Two clusters whose namespaces and names join to one name.
CONSTANTS
  w1 = w1
  Clusters <- DashedNames
  Workers = {w1}
  Recreates = FALSE
  MaxRewrites = 1
  MaxFaults = 0
SPECIFICATION Spec
INVARIANTS OwnCredentials
\* Everything may be gone.
CHECK_DEADLOCK FALSE
