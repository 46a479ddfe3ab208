-------------------------------- MODULE Subtitles --------------------------------
(* Subtitles (subtitles.rs and its mutations): one title and one video file of  *)
(* it on the server. ensureSubtitles and fetchSubtitles load, download and      *)
(* store them, searchSubtitles and downloadSubtitle go to Wyzie, and store      *)
(* nothing. Season and episode are one number, 0 for none. A text is known by   *)
(* its language, what it was asked for and where it comes from.                 *)
EXTENDS Integers, FiniteSets

CONSTANTS
  Viewers,      \* requests
  English,      \* "en"
  Languages,    \* what normalize_lang makes of what is asked for
  MaxAsked,     \* bound: requests that are made
  MaxTroubles,  \* bound: errors and requests cut off
  None          \* no text, no sidecar

SubtitleAssumption ==
  English \in Languages /\ None \notin Languages /\ MaxAsked \in Nat /\ MaxTroubles \in Nat

Episodes == 0..1
Texts == [in : Languages, for : Episodes, from : {"sidecar", "opensubtitles", "wyzie"}]
Rows == [Languages -> Texts \cup {None}]
NoRows == [l \in Languages |-> None]

VARIABLES
  movie,       \* the kind of the title
  parsed,      \* what the file's row or name says of its episode
  sidecar,     \* the language of a .srt file beside the video, or None
  there,       \* the title, with its file, is in the database
  keys,        \* subtitle providers that are configured
  subtitles,   \* subtitles[l]: the row of the file
  title_subtitles,  \* title_subtitles[e][l]: the row of the title
  viewer,      \* viewer[v]: where a request is
  fetched,     \* history: what a request that went through has downloaded
  asked, troubles

tables == <<subtitles, title_subtitles>>
world == <<movie, parsed, sidecar, there, keys>>
vars == <<world, tables, viewer, fetched, asked, troubles>>

NotAsking == [pc |-> "idle", file |-> FALSE, lang |-> English, episode |-> 0, empty |-> FALSE,
              text |-> None, answer |-> NoRows, known |-> FALSE, lost |-> FALSE]

TypeOK ==
  /\ movie \in BOOLEAN /\ parsed \in Episodes /\ sidecar \in Languages \cup {None}
  /\ there \in BOOLEAN /\ keys \subseteq {"opensubtitles", "wyzie"}
  /\ subtitles \in Rows /\ title_subtitles \in [Episodes -> Rows]
  /\ viewer \in [Viewers ->
       [pc : {"idle", "load", "meta", "beside", "fetch", "title", "file", "reload", "fallback",
              "answered", "search", "hits"},
        file : BOOLEAN, lang : Languages, episode : Episodes, empty : BOOLEAN,
        text : Texts \cup {None}, answer : Rows, known : BOOLEAN, lost : BOOLEAN]]
  /\ fetched \subseteq BOOLEAN \X Episodes \X Languages
  /\ asked \in 0..MaxAsked /\ troubles \in 0..MaxTroubles

Init ==
  /\ movie \in BOOLEAN /\ parsed \in Episodes /\ sidecar \in Languages \cup {None}
  /\ there = TRUE /\ keys \in SUBSET {"opensubtitles", "wyzie"}
  /\ subtitles = NoRows /\ title_subtitles = [e \in Episodes |-> NoRows]
  /\ viewer = [v \in Viewers |-> NotAsking] /\ fetched = {} /\ asked = 0 /\ troubles = 0

--------------------------------------------------------------------------------
Trouble == troubles < MaxTroubles /\ troubles' = troubles + 1
Set(v, rec) == viewer' = [viewer EXCEPT ![v] = rec]
Goes(v, pc) == Set(v, [viewer[v] EXCEPT !.pc = pc])
Answer(v, rows) == Set(v, [viewer[v] EXCEPT !.pc = "answered", !.answer = rows])
Errs(v) == Set(v, NotAsking)

\* Mutant of Kept: a row in another language is in the way.
KeptIfFirst(rows, l, text) == IF rows = NoRows THEN [rows EXCEPT ![l] = text] ELSE rows

\* An insert does nothing if there is a row.
Kept(rows, l, text) == IF rows[l] = None THEN [rows EXCEPT ![l] = text] ELSE rows

\* The episode that is looked up, and the one that is fetched and stored.
Lookup(v) == IF viewer[v].file THEN parsed ELSE viewer[v].episode
IsFor(v) == IF movie THEN 0 ELSE Lookup(v)

\* A request starts: for the file, or for the title and an episode.
Start(v, pc, file, e, l) ==
  /\ viewer[v].pc \in {"idle", "answered"} /\ asked < MaxAsked /\ asked' = asked + 1
  /\ Set(v, [NotAsking EXCEPT !.pc = pc, !.file = file, !.episode = e, !.lang = l,
                              !.known = <<file, e, l>> \in fetched])
  /\ UNCHANGED <<world, tables, fetched, troubles>>

EnsureSubtitles(v) == \E l \in Languages : Start(v, "load", TRUE, 0, l)
FetchSubtitles(v) ==
  /\ keys # {}
  /\ \E e \in Episodes, l \in Languages : Start(v, "load", FALSE, e, l)

\* What is stored is answered if the language is among it.
Load(v) ==
  /\ viewer[v].pc = "load"
  /\ LET rows == IF viewer[v].file THEN subtitles ELSE title_subtitles[viewer[v].episode] IN
     IF rows[viewer[v].lang] # None THEN Answer(v, rows)
     ELSE Set(v, [viewer[v] EXCEPT !.pc = "meta", !.empty = (rows = NoRows)])
  /\ UNCHANGED <<world, tables, fetched, asked, troubles>>

\* The file and its title are read; then the sidecar, or fetch_and_store() looks at the settings.
LoadMeta(v) ==
  /\ viewer[v].pc = "meta"
  /\ IF ~there THEN Errs(v)
     ELSE Goes(v, IF viewer[v].file /\ viewer[v].empty /\ sidecar # None THEN "beside"
                  ELSE IF "opensubtitles" \in keys THEN "fetch" ELSE "reload")
  /\ UNCHANGED <<world, tables, fetched, asked, troubles>>

\* A sidecar counts as being in the language that is asked for.
StoreSidecar(v) ==
  /\ viewer[v].pc = "beside"
  /\ IF there
     THEN /\ subtitles' = Kept(subtitles, viewer[v].lang,
                               [in |-> sidecar, for |-> parsed, from |-> "sidecar"])
          /\ Goes(v, "reload")
     ELSE Errs(v) /\ UNCHANGED subtitles
  /\ UNCHANGED <<world, title_subtitles, fetched, asked, troubles>>

\* fetch_opensubtitles(): the first of six files that downloads, if need be an English one.
Download(v) ==
  /\ viewer[v].pc = "fetch"
  /\ \/ \E l \in {viewer[v].lang, English} :
          Set(v, [viewer[v] EXCEPT !.pc = "title",
                    !.text = [in |-> l, for |-> IsFor(v), from |-> "opensubtitles"]])
     \/ Goes(v, "reload")
  /\ UNCHANGED <<world, tables, fetched, asked, troubles>>

DownloadFails(v) == /\ viewer[v].pc \in {"fetch", "search", "hits"} /\ Trouble /\ Errs(v)
                    /\ UNCHANGED <<world, tables, fetched, asked>>

\* Rows of a title that is gone violate their foreign key.
StoreForTitle(v) ==
  /\ viewer[v].pc = "title"
  /\ IF there
     THEN /\ title_subtitles' = [title_subtitles EXCEPT ![IsFor(v)] =
                                   Kept(@, viewer[v].lang, viewer[v].text)]
          /\ Goes(v, IF viewer[v].file THEN "file" ELSE "reload")
     ELSE Errs(v) /\ UNCHANGED title_subtitles
  /\ UNCHANGED <<world, subtitles, fetched, asked, troubles>>

StoreForFile(v) ==
  /\ viewer[v].pc = "file"
  /\ IF there
     THEN subtitles' = Kept(subtitles, viewer[v].lang, viewer[v].text) /\ Goes(v, "reload")
     ELSE Errs(v) /\ UNCHANGED subtitles
  /\ UNCHANGED <<world, title_subtitles, fetched, asked, troubles>>

Done(v, rows) ==
  /\ Answer(v, rows)
  /\ fetched' = IF viewer[v].text # None /\ there /\ ~(movie /\ viewer[v].episode # 0)
                THEN fetched \cup {<<viewer[v].file, viewer[v].episode, viewer[v].lang>>}
                ELSE fetched

\* What is stored by now is answered; for a file without any, what the title has.
Reload(v) ==
  /\ viewer[v].pc = "reload"
  /\ IF viewer[v].file
     THEN IF subtitles # NoRows \/ (viewer[v].empty /\ sidecar # None)
          THEN Done(v, subtitles) ELSE Goes(v, "fallback") /\ UNCHANGED fetched
     ELSE Done(v, title_subtitles[viewer[v].episode])
  /\ UNCHANGED <<world, tables, asked, troubles>>

Fallback(v) == /\ viewer[v].pc = "fallback" /\ Done(v, title_subtitles[parsed])
               /\ UNCHANGED <<world, tables, asked, troubles>>

--------------------------------------------------------------------------------
(* Wyzie. Nothing is stored, and a movie is searched as what it is asked for.   *)
SearchSubtitles(v) ==
  /\ "wyzie" \in keys
  /\ \E e \in Episodes, l \in Languages : Start(v, "search", FALSE, e, l)

\* Hits in the language asked for or in English; for English, all.
Hits(v) ==
  /\ viewer[v].pc = "search"
  /\ \E found \in SUBSET Languages :
       LET l == viewer[v].lang
           shown == IF there THEN {h \in found : h \in {l, English} \/ l = English} ELSE {}
       IN Set(v, [viewer[v] EXCEPT !.pc = "hits", !.answer =
            [h \in Languages |-> IF h \in shown
                                 THEN [in |-> h, for |-> viewer[v].episode, from |-> "wyzie"]
                                 ELSE None]])
  /\ UNCHANGED <<world, tables, fetched, asked, troubles>>

\* downloadSubtitle: the hit that is picked.
Pick(v) ==
  /\ viewer[v].pc = "hits"
  /\ \E h \in Languages : viewer[v].answer[h] # None
                          /\ Answer(v, [NoRows EXCEPT ![h] = viewer[v].answer[h]])
  /\ UNCHANGED <<world, tables, fetched, asked, troubles>>

CloseMenu(v) == /\ viewer[v].pc = "hits" /\ Set(v, NotAsking)
                /\ UNCHANGED <<world, tables, fetched, asked, troubles>>

--------------------------------------------------------------------------------
HangUp(v) == /\ viewer[v].pc \notin {"idle", "answered", "hits"} /\ Trouble /\ Set(v, NotAsking)
             /\ UNCHANGED <<world, tables, fetched, asked>>

\* A title is deleted, and its rows, its file's and their subtitles with it.
DeleteTitle ==
  /\ there /\ there' = FALSE /\ subtitles' = NoRows
  /\ title_subtitles' = [e \in Episodes |-> NoRows] /\ fetched' = {}
  /\ viewer' = [v \in Viewers |-> [viewer[v] EXCEPT !.known = FALSE, !.lost = TRUE]]
  /\ UNCHANGED <<movie, parsed, sidecar, keys, asked, troubles>>

ChangeKeys == /\ Trouble /\ keys' \in SUBSET {"opensubtitles", "wyzie"}
              /\ UNCHANGED <<movie, parsed, sidecar, there, tables, viewer, fetched, asked>>

Step(v) == \/ Load(v) \/ LoadMeta(v) \/ StoreSidecar(v) \/ Download(v) \/ StoreForTitle(v)
           \/ StoreForFile(v) \/ Reload(v) \/ Fallback(v) \/ Hits(v)

Next ==
  \/ DeleteTitle \/ ChangeKeys
  \/ \E v \in Viewers :
       \/ EnsureSubtitles(v) \/ FetchSubtitles(v) \/ SearchSubtitles(v)
       \/ Step(v) \/ Pick(v) \/ CloseMenu(v) \/ DownloadFails(v) \/ HangUp(v)

Spec == Init /\ [][Next]_vars

--------------------------------------------------------------------------------
\* What a request has downloaded and stored is not downloaded again by a request for the same
\* that starts after it was answered, whatever other requests do meanwhile ("Cached after the
\* first play", ensure_subtitles). A movie that is asked for as an episode is left out: its text
\* is stored as a movie's and looked up as an episode's.
NotFetchedAgain == \A v \in Viewers : viewer[v].known => viewer[v].pc # "fetch" /\ viewer[v].text = None

\* A text that was downloaded reaches the answer, or one that another request stored before it,
\* unless the title was deleted meanwhile (fetch_for_title, ensure_for_file).
FetchedIsAnswered ==
  \A v \in Viewers :
    viewer[v].pc = "answered" /\ viewer[v].text # None =>
      \/ viewer[v].answer[viewer[v].lang] # None \/ viewer[v].lost
      \/ movie /\ viewer[v].episode # 0

\* A text that was downloaded is kept and given out (ensure_for_file, fetch_for_title).
SubtitlesAreKept == NotFetchedAgain /\ FetchedIsAnswered
=============================================================================
