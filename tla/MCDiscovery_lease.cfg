\* A BMC with two services and the site's password, and one that may get its
\* address; a channel of one event; two mishaps.
CONSTANTS
  b1 = b1
  b2 = b2
  a1 = a1
  a2 = a2
  none = none
  nobody = nobody
  BMCs = {b1, b2}
  Addresses = {a1, a2}
  Endpoints <- MCEndpoints
  NoAddr = none
  NoBMC = nobody
  Site = {b1}
  Defaults = {"factory"}
  Buffer = 1
  MaxMishaps = 2
SPECIFICATION FairSpec
PROPERTIES LastSeenStops
