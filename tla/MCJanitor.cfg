\* One ordinary Hardware and one bootstrap node; four writes of others, one fault.
CONSTANTS
  h1 = h1
  h2 = h2
  Hardware = {h1, h2}
  Bootstrap = {h2}
  ClearOSMetadata = TRUE
  BaselineAllowPXE = FALSE
  MaxWrites = 4
  MaxFaults = 1
SPECIFICATION FairSpec
INVARIANTS NeverClaimedUntouched
PROPERTIES ScrubMeetsRelease ReleasedIsScrubbed GaugeSettles
