------------------------------- MODULE LibraryScan -------------------------------
(* The scan of the media folder (media/scanner.rs). One starts after every boot *)
(* and one whenever the watcher has seen something change, once two seconds     *)
(* have gone by. A scan looks at each video file, finds the title that its name *)
(* says, and stores the file in file_references, and then the URL that plays it *)
(* with a second statement. Names that parse_filename refuses are left out.     *)
EXTENDS Integers, FiniteSets

CONSTANTS
  Files,       \* paths of videos
  Home,        \* Home[f]: the folder that a file is in
  MaxChanges,  \* bound: changes of the folder, the catalogue and the setting
  MaxErrors,   \* bound: errors and restarts
  None         \* no row, no folder

Folders == {Home[f] : f \in Files}

\* Titles that a name fits: one that is called just so, and one whose name contains it.
Matches == {"exact", "longer"}

\* Rows of file_references. Whether the codecs are known depends on ffprobe and the name.
Row == [title : Matches, episode : BOOLEAN, url : BOOLEAN, codec : BOOLEAN]

ScanAssumption ==
  None \notin Folders \cup Files \cup Row /\ MaxChanges \in Nat /\ MaxErrors \in Nat

VARIABLES
  media_path,  \* the setting
  watched,     \* the folder the watcher was started on, or None
  library,     \* the files that are there
  titles,      \* titles[f]: titles in the catalogue that the name of f fits
  episodes,    \* files whose season and episode are in the catalogue
  entry,       \* entry[f]: its row in file_references
  rx,          \* an event waits in the watcher's channel
  watcher,     \* where the task of start_watcher is
  scan,        \* scan[k]: where a scan is, its files to come, the one it is at
  missed,      \* history: files whose title, folder or setting came to be after the last scan
               \* that would have seen them began, or that a scan had an error with
  changes, errors

vars == <<media_path, watched, library, titles, episodes, entry, rx, watcher, scan, missed,
          changes, errors>>
world == <<media_path, watched, library, titles, episodes, changes>>

Scans == {"boot", "watcher"}
NoScan == [pc |-> "off", left |-> {}, file |-> None, title |-> "exact", episode |-> FALSE]

TypeOK ==
  /\ media_path \in Folders /\ watched \in Folders \cup {None}
  /\ library \subseteq Files /\ titles \in [Files -> SUBSET Matches] /\ episodes \subseteq Files
  /\ entry \in [Files -> Row \cup {None}] /\ rx \in BOOLEAN
  /\ watcher \in {"recv", "sleep", "drain", "scan"}
  /\ scan \in [Scans -> [pc : {"off", "due", "next", "insert", "url", "codecs"},
                         left : SUBSET Files, file : Files \cup {None}, title : Matches,
                         episode : BOOLEAN]]
  /\ missed \subseteq Files /\ changes \in 0..MaxChanges /\ errors \in 0..MaxErrors

\* start_watcher: without the folder there is nothing to watch until the next start.
Watch(folder, w) == w = folder \/ (w = None /\ \A f \in library : Home[f] # folder)

Booted == [k \in Scans |-> IF k = "boot" THEN [NoScan EXCEPT !.pc = "due"] ELSE NoScan]

Init ==
  /\ media_path \in Folders /\ library \in SUBSET Files
  /\ watched \in Folders \cup {None} /\ Watch(media_path, watched)
  /\ titles \in [Files -> {{}, {"longer"}}] /\ episodes = {}
  /\ entry = [f \in Files |-> None] /\ rx = FALSE /\ watcher = "recv" /\ scan = Booted
  /\ missed = {} /\ changes = 0 /\ errors = 0

--------------------------------------------------------------------------------
Change == changes < MaxChanges /\ changes' = changes + 1
Error == errors < MaxErrors /\ errors' = errors + 1

\* A file comes or goes. A scan that walks the folder may or may not see it; the watcher hears
\* of it if it is on that folder.
FileChanges(f) ==
  /\ Change /\ library' = IF f \in library THEN library \ {f} ELSE library \cup {f}
  /\ rx' = (rx \/ Home[f] = watched)
  /\ missed' = IF Home[f] = watched THEN missed ELSE missed \cup {f}
  /\ \E seen \in SUBSET {k \in Scans : scan[k].pc \in {"next", "insert", "url"}} :
       /\ f \in library => seen = {}
       /\ scan' = [k \in Scans |-> IF k \in seen THEN [scan[k] EXCEPT !.left = @ \cup {f}]
                                   ELSE scan[k]]
  /\ UNCHANGED <<media_path, watched, titles, episodes, entry, watcher, errors>>

\* The catalogue gets a title that a file's name fits, and nothing looks at the file for that.
TitleComes(f) ==
  /\ Change
  /\ \E m \in Matches \ titles[f] : titles' = [titles EXCEPT ![f] = @ \cup {m}]
  /\ missed' = missed \cup {f}
  /\ UNCHANGED <<media_path, watched, library, episodes, entry, rx, watcher, scan, errors>>

EpisodesCome(f) ==
  /\ f \notin episodes /\ Change /\ episodes' = episodes \cup {f} /\ missed' = missed \cup {f}
  /\ UNCHANGED <<media_path, watched, library, titles, entry, rx, watcher, scan, errors>>

\* A title is deleted, and its files' rows with it (file_references.title_id ON DELETE CASCADE).
TitleGoes(f) ==
  /\ Change
  /\ \E m \in titles[f] :
       /\ titles' = [titles EXCEPT ![f] = @ \ {m}]
       /\ entry' = IF entry[f] # None /\ entry[f].title = m THEN [entry EXCEPT ![f] = None]
                   ELSE entry
  /\ missed' = missed \cup {f} /\ episodes' = episodes \ {f}
  /\ UNCHANGED <<media_path, watched, library, rx, watcher, scan, errors>>

\* update_settings: the watcher stays where it is.
SetMediaPath ==
  /\ Change /\ media_path' \in Folders \ {media_path} /\ missed' = Files
  /\ UNCHANGED <<watched, library, titles, episodes, entry, rx, watcher, scan, errors>>

--------------------------------------------------------------------------------
(* The task of start_watcher.                                                   *)
Receive == /\ watcher = "recv" /\ rx /\ rx' = FALSE /\ watcher' = "sleep"
           /\ UNCHANGED <<world, entry, scan, missed, errors>>
SleepEnds == /\ watcher = "sleep" /\ watcher' = "drain"
             /\ UNCHANGED <<world, entry, rx, scan, missed, errors>>
Drain == /\ watcher = "drain" /\ rx' = FALSE /\ watcher' = "scan"
         /\ scan' = [scan EXCEPT !["watcher"].pc = "due"]
         /\ UNCHANGED <<world, entry, missed, errors>>

(* scan_library.                                                                *)
Goes(k, rec) == scan' = [scan EXCEPT ![k] = rec]

\* The setting is read once. What was missed before is seen by this scan, but a file that the
\* other scan is at may be written back by it.
BeginScan(k) ==
  /\ scan[k].pc = "due"
  /\ LET here == {f \in library : Home[f] = media_path} IN
     /\ Goes(k, [NoScan EXCEPT !.pc = "next", !.left = here])
     /\ missed' = missed \ (here \ {scan[j].file : j \in Scans})
  /\ UNCHANGED <<world, entry, rx, watcher, errors>>

\* match_title and lookup_episode: a title of just that name goes first.
Match(k) ==
  /\ scan[k].pc = "next"
  /\ \E f \in scan[k].left :
       LET rest == scan[k].left \ {f} IN
       IF titles[f] = {} THEN Goes(k, [scan[k] EXCEPT !.left = rest])
       ELSE Goes(k, [pc |-> "insert", left |-> rest, file |-> f,
                     title |-> IF "exact" \in titles[f] THEN "exact" ELSE "longer",
                     episode |-> f \in episodes])
  /\ UNCHANGED <<world, entry, rx, watcher, missed, errors>>

GoesOn(k) == Goes(k, [NoScan EXCEPT !.pc = "next", !.left = scan[k].left])

\* upsert_file_reference: a title or an episode deleted since violates a foreign key.
Insert(k) ==
  LET s == scan[k]
      fits == s.title \in titles[s.file] /\ (s.episode => s.file \in episodes)
      old == entry[s.file]
  IN
  /\ s.pc = "insert"
  /\ IF fits
     THEN /\ \E codec \in BOOLEAN :
               entry' = [entry EXCEPT ![s.file] =
                 [title |-> s.title, episode |-> s.episode,
                  url |-> old # None /\ old.url, codec |-> codec \/ (old # None /\ old.codec)]]
          /\ Goes(k, [s EXCEPT !.pc = "url"]) /\ UNCHANGED missed
     ELSE GoesOn(k) /\ missed' = missed \cup {s.file} /\ UNCHANGED entry
  /\ UNCHANGED <<world, rx, watcher, errors>>

SetUrl(k) ==
  /\ scan[k].pc = "url" /\ GoesOn(k)
  /\ entry' = IF entry[scan[k].file] = None THEN entry
              ELSE [entry EXCEPT ![scan[k].file].url = TRUE]
  /\ UNCHANGED <<world, rx, watcher, missed, errors>>

\* An error of the database costs this file.
FileFails(k) ==
  /\ scan[k].file # None /\ Error /\ GoesOn(k) /\ missed' = missed \cup {scan[k].file}
  /\ UNCHANGED <<world, entry, rx, watcher>>

EndWalk(k) ==
  /\ scan[k].pc = "next" /\ scan[k].left = {} /\ Goes(k, [NoScan EXCEPT !.pc = "codecs"])
  /\ UNCHANGED <<world, entry, rx, watcher, missed, errors>>

\* Mutant of Backfill: events are drained when the scan is over.
BackfillDrains(k) ==
  /\ scan[k].pc = "codecs" /\ Goes(k, NoScan) /\ rx' = (rx /\ k # "watcher")
  /\ watcher' = IF k = "watcher" THEN "recv" ELSE watcher
  /\ UNCHANGED <<world, entry, missed, errors>>

\* backfill_codecs: files that are there and whose codecs are not known.
Backfill(k) ==
  /\ scan[k].pc = "codecs" /\ Goes(k, NoScan)
  /\ \E probed \in SUBSET {f \in library : entry[f] # None} :
       entry' = [f \in Files |-> IF f \in probed THEN [entry[f] EXCEPT !.codec = TRUE]
                                 ELSE entry[f]]
  /\ watcher' = IF k = "watcher" THEN "recv" ELSE watcher
  /\ UNCHANGED <<world, rx, missed, errors>>

\* The process ends and starts: a watcher on the folder of the setting, and a scan.
Restart ==
  /\ Error /\ watched' \in Folders \cup {None} /\ Watch(media_path, watched') /\ rx' = FALSE
  /\ watcher' = "recv" /\ scan' = Booted
  /\ UNCHANGED <<media_path, library, titles, episodes, entry, missed, changes>>

ScanStep(k) == BeginScan(k) \/ Match(k) \/ Insert(k) \/ SetUrl(k) \/ EndWalk(k) \/ Backfill(k)

Next ==
  \/ \E f \in Files : FileChanges(f) \/ TitleComes(f) \/ EpisodesCome(f) \/ TitleGoes(f)
  \/ SetMediaPath \/ Receive \/ SleepEnds \/ Drain \/ Restart
  \/ \E k \in Scans : ScanStep(k) \/ FileFails(k)

Spec == Init /\ [][Next]_vars

--------------------------------------------------------------------------------
\* A scan will still look at the file: it is among those to come, or is being stored, or a scan
\* is due or on its way to be.
Awaited(f) ==
  \/ rx /\ Home[f] = watched
  \/ watcher \in {"sleep", "drain"}
  \/ \E k \in Scans : scan[k].pc = "due" \/ f \in scan[k].left \/ f = scan[k].file

\* A file whose title is in the catalogue is listed, under the title that fits its name best,
\* with its episode and the URL that plays it, or a scan will see to it, however the scans of
\* the boot and the watcher, the debounce and changes of the folder fall together; but for
\* titles, settings and errors that came after the last scan had begun (start_watcher,
\* scan_library).
FilesAreListed ==
  \A f \in library :
    Home[f] = media_path /\ titles[f] # {} /\ f \notin missed /\ ~Awaited(f) =>
      /\ entry[f] # None /\ entry[f].url
      /\ "exact" \in titles[f] => entry[f].title = "exact"
      /\ f \in episodes => entry[f].episode
=============================================================================
