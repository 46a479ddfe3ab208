SPECIFICATION MCSpec
CONSTANTS
 Searches = {s1}
 Indexers = {i1, i2}
 Exact = {i1}
 NoMagnet = {i2}
 Own = {i2}
 Torrents = {m1, m2}
 Swarms = {"dead", "alive"}
 HealthyEnough = 2
 HitsEnough = 2
 PickerEnough = 2
 MaxResults = 2
 TorznabBudget = 1
 IndexerBudget = 1
 AllBudget = 1
 SearchBudget = 3
 Addons = {a1}
 Links = {l1}
 SourcesEnough = 2
 Listed = {m1, l1}
 Switched = {a1}
 MaxOff = 1
 Titled = {TRUE}
 None = None
 Wants <- SomeWants
 Offered <- SomeReleases
 Viewers = {v1, v2}
 English = en
 Languages = {en, fr}
 MaxAsked = 2
 MaxTroubles = 1
CONSTRAINT Apart
INVARIANTS NothingCutForEmptyAnswer AliveReachesAnswer RightReleases SubtitlesAreKept
