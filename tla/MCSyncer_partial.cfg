\* Two MACs, and inventories that may miss NICs; one change by others, no fault.
CONSTANTS
  m1 = m1
  m2 = m2
  none = none
  MACs = {m1, m2}
  NoMAC = none
  Partial = TRUE
  MaxWrites = 1
  MaxFaults = 0
SPECIFICATION Spec
PROPERTIES NetbootKept
