---------------------------- MODULE MCWatchProgress ----------------------------
(* What the server remembers for those who watch, for TLC, in parts that share  *)
(* nothing: how far they are ("progress", WatchProgress), the videos of the     *)
(* media folder ("library", LibraryScan) and the settings ("settings",          *)
(* LiveSettings).                                                               *)
EXTENDS WatchProgress, TLC

CONSTANTS Files, Home, MaxChanges, MaxErrors,
          Requests, Console, Values, MaxSaves, MaxTroubles

VARIABLES part,
          media_path, watched, library, titles, aired, entry, rx, watcher, scan, missed,
          changes, errors,
          environment, table, memory, save, unsure, saves, troubles

Folder == INSTANCE LibraryScan WITH episodes <- aired
Live == INSTANCE LiveSettings WITH Saves <- Requests

ASSUME FolderAssumption == Folder!ScanAssumption
ASSUME LiveAssumption == Live!SettingsAssumption

folderVars == <<media_path, watched, library, titles, aired, entry, rx, watcher, scan, missed,
                changes, errors>>
settingsVars == <<environment, table, memory, save, unsure, saves, troubles>>
mcVars == <<part, vars, folderVars, settingsVars>>

\* Each file is in a folder of its own.
OwnFolder == [f \in Files |-> <<f>>]

Alike == Permutations(Magnets)

\* How many plays, marks and faults one behaviour combines.
Few == count.plays + count.marks + count.faults <= IF movie THEN 4 ELSE 3

\* The other parts stand still where they are at first.
MCInit ==
  /\ part \in {"progress", "library", "settings"}
  /\ Init /\ Folder!Init /\ Live!Init
  /\ part # "progress" => length = CHOOSE n \in Lengths : TRUE
  /\ part # "library" => /\ library = {} /\ watched = None /\ titles = [f \in Files |-> {}]
                         /\ media_path = Home[CHOOSE f \in Files : TRUE]
  /\ part # "settings" => memory["tmdb"] = None /\ memory["languages"] = CHOOSE v \in Values : TRUE

In(p, A) == part = p /\ A /\ UNCHANGED part

\* Changes and saves are used up; what is watched may always be watched again.
Over == UNCHANGED <<folderVars, settingsVars>>

MCNext ==
  \/ In("progress", Next /\ UNCHANGED <<folderVars, settingsVars>>)
  \/ In("library", (Folder!Next \/ Over) /\ UNCHANGED <<vars, settingsVars>>)
  \/ In("settings", (Live!Next \/ Over) /\ UNCHANGED <<vars, folderVars>>)

MCSpec == MCInit /\ [][MCNext]_mcVars

\* Videos whose title is known are listed (LibraryScan, scan_library).
FilesAreListed == Folder!FilesAreListed

\* Memory is what a restart would bring back (LiveSettings, save_settings).
SavedIsUsed == Live!SavedIsUsed
=============================================================================
