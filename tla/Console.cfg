SPECIFICATION MCSpec
CONSTANTS
 Devices = {d1, d2}
 Codes = {c1, c2}
 Keys = {k1}
 Apps = {a1}
 Browsers = {b1, b2}
 Tokens = {t1, t2}
 AuthLimit = 1
 CredentialLimit = 1
 MaxPasswords = 1
 MaxRestarts = 1
 Urls = {u1}
 Catalogs = {l1}
 Requests = {r1, r2}
 MaxAddons = 2
 MaxAsked = 2
 MaxErrors = 1
 None = None
INVARIANTS CachesFollowTables NewPasswordCounts AttemptsBounded ChangesTakeHold ListsMatchSettings
PROPERTIES RemovedStaysOut StrayListsGo
