SPECIFICATION MCSpec
CONSTANTS
 Jobs = {j1, j2}
 Titles = {a, b}
 Refused = {b}
 Cap = 2
 SyncPages = 1
 Deeper = 1
 MaxAsked = 2
 MaxOthers = 1
 Works = {w1, w2}
 Foreign = {w2}
 Plain = {w2}
 Clients = {c1}
 Syncer = s
 MaxRows = 4
 MaxEvents = 1
 None = None
INVARIANTS FetchedIsKept RowsAreRight GhostOnlyIfMissed
PROPERTIES ListedArrives StoredIsFound BlockedGoes RefreshComesRound
CHECK_DEADLOCK FALSE
