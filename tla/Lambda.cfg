\* Two cores that broadcast: what one does blocks the other.
SPECIFICATION Spec
CONSTANTS
  Cores = {0, 1}
  Rank <- Ranks
  Owners = {0}
  Names = {}
  Filters = {}
  Signatures = {1}
  Programs <- Direct
  Limit = 2
  Wavelengths = 100
  MaxChannels = 1024
  Delays = {0}
  MaxSends = 4
INVARIANTS ContentionOnly
CHECK_DEADLOCK FALSE
