SPECIFICATION MCSpec
CONSTRAINT Followed
CONSTANTS
 MaxPlayers = 2
 Direct = direct
 MaxTroubles = 1
 None = None
INVARIANTS PlaysWhatWasAsked PlayerKeepsTorrent NothingLeftBehind
