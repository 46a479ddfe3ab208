SPECIFICATION Spec
CONSTANTS
  Syncs = {s1}
  Requests = {r1}
  MaxCrashes = 0
  MaxErrors = 0
PROPERTY HealsOrphansOnly
