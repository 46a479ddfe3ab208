SPECIFICATION MCSpec
CONSTANTS
 Devices = {tv, phone}
 Queries = {home}
 Requests = {r1, r2}
 MaxWrites = 1
 Syncs = {s1, s2}
 Pollers = {c1}
 MaxCrashes = 1
 MaxErrors = 1
 None = None
VIEW WithoutHistory
INVARIANT EntriesAreRight
PROPERTIES AnswersCatchUp RowSettles
