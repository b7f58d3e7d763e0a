\* Two MACs, complete inventories; two changes by others, one fault.
CONSTANTS
  m1 = m1
  m2 = m2
  none = none
  MACs = {m1, m2}
  NoMAC = none
  Partial = FALSE
  MaxWrites = 2
  MaxFaults = 1
SPECIFICATION FairSpec
INVARIANTS TypeOK RefsResolve
PROPERTIES ForeignUntouched NetbootKept SyncCompletes
