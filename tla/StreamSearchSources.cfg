SPECIFICATION Spec
CONSTANTS
 Searches = {s1}
 Indexers = {i1}
 Exact = {i1}
 NoMagnet = {}
 Own = {}
 Torrents = {m1}
 Swarms = {"dead", "alive"}
 HealthyEnough = 2
 HitsEnough = 2
 PickerEnough = 2
 MaxResults = 2
 TorznabBudget = 1
 IndexerBudget = 1
 AllBudget = 1
 SearchBudget = 3
 Addons = {a1}
 Links = {l1}
 SourcesEnough = 2
 Listed = {m1, l1}
 Switched = {a1}
 MaxOff = 1
 Titled = {TRUE}
 None = None
INVARIANT ListMadeWithItsSources
