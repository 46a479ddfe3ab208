SPECIFICATION MirrorSpec
CONSTANTS
  Tags = {v1}
  MaxBuild = 1
  Checkers = {timer}
  Timer = timer
  MaxDeaths = 0
  None = None
INVARIANT UpToDateHasAllInstallers
