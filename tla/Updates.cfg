SPECIFICATION MCSpec
CONSTANTS
  Tags = {v1, v2}
  MaxBuild = 2
  Checkers = {timer}
  Timer = timer
  MaxDeaths = 1
  None = None
  Consoles = {r1}
  AutoUpdate = auto
  Keep = 2
  MaxVersion = 3
  MaxClicks = 2
  MaxTroubles = 2
INVARIANT BackedUpFirst
PROPERTIES NewestGetsOffered NewestIsInstalled
CHECK_DEADLOCK FALSE
