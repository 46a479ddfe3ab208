SPECIFICATION MCSpec
SYMMETRY Symmetry
CONSTANTS
 Syncs = {s1, s2}
 Requests = {r1, r2}
 MaxCrashes = 1
 MaxErrors = 2
 Tags = {1, 2, 3}
 MaxBuild = 3
 Checkers = {timer, console}
 Timer = timer
 MaxDeaths = 1
 None = None
INVARIANTS FlagGoesWithSyncs QuietRow OfferStays
PROPERTIES PreviousOfferKept ImplementsOffer
