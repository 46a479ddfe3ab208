------------------------------ MODULE WatchProgress ------------------------------
(* Watch progress of one title on one device: the player of the TV app and its  *)
(* queue of saves, the title's page, and what the server keeps of it in         *)
(* user_progress, episode_progress and stream_progress (mutations.rs, db).      *)
(*                                                                             *)
(* A save is two mutations, and the first of them two statements; each can fail *)
(* and the rest of the save is then dropped. Marks of the page go to the server *)
(* beside the queue.                                                            *)
EXTENDS Integers, Sequences, FiniteSets

CONSTANTS
  Magnets,     \* torrents
  Lengths,     \* numbers of episodes; 0 is a movie
  Positions,   \* positions playback reaches, of those below
  MaxQueue,    \* bound: saves waiting
  MaxMarks,    \* bound: marks made
  MaxPlays,    \* bound: times the player is opened
  MaxFaults,   \* bound: saves and marks that fail, and ends of the app
  None

ASSUME ProgressAssumption ==
  /\ Lengths \subseteq Nat /\ {0, 4} \subseteq Positions /\ Positions \subseteq 0..4
  /\ MaxQueue \in Nat \ {0} /\ {MaxMarks, MaxPlays, MaxFaults} \subseteq Nat
  /\ None \notin Magnets \cup BOOLEAN

\* Positions, as far as anything tells them apart: 2 s, 60 s, 85 % and 90 % of the length.
Start == 0
Early == 1
Middle == 2
Late == 3
End == 4
Unsaved == -1

VARIABLES
  length,     \* episodes of the title
  title,      \* the row of user_progress
  episodes,   \* the episodes marked as watched in episode_progress
  bookmarks,  \* the rows of stream_progress, the newest first
  page,       \* what the title's page has loaded, with the marks made on it
  player,     \* the player
  queue,      \* saves: enqueueWrite
  step,       \* where the first of them is
  marks,      \* calls of set_watched on their way, in the order they were made
  count,      \* marks, plays and faults so far
  torn,       \* history: the latest save did not get through as a whole
  lost,       \* history: episodes a part of whose saves was lost
  finished,   \* history: episodes the player took for finished
  unseen,     \* history: episodes left near their end that the player did not take for finished
  due         \* history: the mark taken last, until the title is played for real

serverVars == <<title, episodes, bookmarks>>
historyVars == <<torn, lost, finished, unseen, due>>
vars == <<length, serverVars, page, player, queue, step, marks, count, historyVars>>

movie == length = 0
Episodes == 1..length
\* What can be played; a movie has no episode.
Parts == IF movie THEN {0} ELSE Episodes

Titles == [watched : BOOLEAN, pos : Positions, ep : 0..length]
Bookmarks == [magnet : Magnets, ep : 0..length, pos : Positions]
Pages == [title : Titles, watched : SUBSET Episodes]
Saves == [magnet : Magnets, ep : 0..length, pos : Positions, complete : BOOLEAN]

\* "next": the lookup for the next episode is under way. `last`: position saved last;
\* `done`: markedComplete.
Players == [pc : {"off", "opening", "playing", "next"}, ep : 0..length, magnet : Magnets \cup {None},
            pos : Positions, last : Positions \cup {Unsaved}, done : BOOLEAN]
NoPlayer == [pc |-> "off", ep |-> 0, magnet |-> None, pos |-> Start, last |-> Unsaved, done |-> FALSE]

Untouched == [watched |-> FALSE, pos |-> Start, ep |-> 0]

Init ==
  /\ length \in Lengths
  /\ title = Untouched
  /\ episodes = {}
  /\ bookmarks = <<>>
  /\ page = [title |-> title, watched |-> episodes]
  /\ player = NoPlayer /\ queue = <<>> /\ step = "title"
  /\ marks = <<>> /\ count = [marks |-> 0, plays |-> 0, faults |-> 0]
  /\ torn = FALSE /\ lost = {} /\ finished = {} /\ unseen = {} /\ due = None

TypeOK ==
  /\ length \in Lengths
  /\ title \in Titles /\ episodes \subseteq Episodes
  /\ bookmarks \in Seq(Bookmarks) /\ page \in Pages
  /\ \A i, j \in DOMAIN bookmarks : bookmarks[i].magnet = bookmarks[j].magnet => i = j
  /\ player \in Players /\ (player.pc # "off" => player.ep \in Parts /\ player.magnet \in Magnets)
  /\ queue \in Seq(Saves) /\ Len(queue) <= MaxQueue
  /\ step \in {"title", "episode", "bookmark"} /\ (queue = <<>> => step = "title")
  /\ marks \in Seq(BOOLEAN)
  /\ count \in [marks : 0..MaxMarks, plays : 0..MaxPlays, faults : 0..MaxFaults]
  /\ torn \in BOOLEAN /\ lost \cup finished \cup unseen \subseteq Parts
  /\ due \in BOOLEAN \cup {None}

----------------------------------------------------------------------------
(* The player *)

Playing == player.pc \in {"playing", "next"}

Opened(e, m, pos) ==
  /\ count.plays < MaxPlays /\ count' = [count EXCEPT !.plays = @ + 1]
  /\ player' = [NoPlayer EXCEPT !.pc = "opening", !.ep = e, !.magnet = m, !.pos = pos]
  /\ UNCHANGED <<length, serverVars, page, queue, step, marks, historyVars>>

Save(complete) ==
  [magnet |-> player.magnet, ep |-> player.ep, pos |-> IF complete THEN End ELSE player.pos,
   complete |-> complete]

\* A save of what was played past the first minute, or of a movie that came to its end.
Real(save) == (save.pos >= Middle /\ ~save.complete) \/ (movie /\ save.complete)

\* The saves go into the queue. A mark has to stand only until then if one of them is real.
EnqueueAll(saves) ==
  /\ Len(queue) + Len(saves) <= MaxQueue /\ queue' = queue \o saves
  /\ due' = IF \E i \in DOMAIN saves : Real(saves[i]) THEN None ELSE due

Enqueue(save) == EnqueueAll(<<save>>)

\* Mutant of Savable: a finished episode is saved as any other.
SavableAlways == player.pos > Start /\ player.pos # player.last

\* saveWatchProgress for a position: not after the episode was finished, not in the first
\* two seconds, and not twice.
Savable == ~player.done /\ player.pos > Start /\ player.pos # player.last

\* The first frame: an episode played from its start counts at once.
FirstFrame ==
  /\ player.pc = "opening"
  /\ LET counts == player.ep # 0 /\ player.pos = Start IN
       /\ player' = [player EXCEPT !.pc = "playing", !.last = IF counts THEN Start ELSE @]
       /\ IF counts THEN Enqueue(Save(FALSE)) ELSE UNCHANGED <<queue, due>>
  /\ UNCHANGED <<length, serverVars, page, step, marks, count, torn, lost, finished, unseen>>

\* Playback goes on, or the user seeks.
Move(p) ==
  /\ player.pc = "playing" /\ p # player.pos
  /\ player' = [player EXCEPT !.pos = p]
  /\ UNCHANGED <<length, serverVars, page, queue, step, marks, count, historyVars>>

\* A finished episode is saved as such; the position saved last is then the length.
Finish(pc, saves) ==
  /\ EnqueueAll(saves \o <<Save(TRUE)>>)
  /\ player' = [player EXCEPT !.pc = pc, !.last = Unsaved, !.done = TRUE]
  /\ finished' = finished \cup {player.ep} /\ unseen' = unseen \ {player.ep}
  /\ UNCHANGED <<length, serverVars, page, step, marks, count, torn, lost>>

\* tickProgress: the periodic save, which is left out within 15 s of the last one, and the
\* end of the episode once 85 % are reached (of a length of at least five minutes).
Tick ==
  /\ player.pc = "playing"
  /\ \/ /\ Savable /\ player.pos < Late
        /\ player' = [player EXCEPT !.last = player.pos]
        /\ Enqueue(Save(FALSE))
        /\ UNCHANGED <<length, serverVars, page, step, marks, count, torn, lost, finished, unseen>>
     \/ /\ player.pos >= Late /\ ~player.done
        /\ \E saves \in {<<>>} \cup (IF Savable THEN {<<Save(FALSE)>>} ELSE {}) : Finish("playing", saves)

\* "Play next", which is offered near the end.
AskNext == player.pc = "playing" /\ player.pos = End /\ player.ep < length /\ Finish("next", <<>>)

\* A source is found, and a player for the next episode takes over.
OpenNext(m) ==
  /\ player.pc = "next"
  /\ Opened(player.ep + 1, m, Start)

\* None is: this episode goes on, and its position is saved again.
NoNext ==
  /\ player.pc = "next"
  /\ \E resumed \in BOOLEAN : player' = [player EXCEPT !.pc = "playing", !.done = ~resumed]
  /\ UNCHANGED <<length, serverVars, page, queue, step, marks, count, historyVars>>

\* The player is closed, which saves its position.
Leave ==
  /\ player.pc # "off"
  /\ IF Playing /\ Savable THEN Enqueue(Save(FALSE)) ELSE UNCHANGED <<queue, due>>
  /\ player' = NoPlayer
  /\ unseen' = IF Playing /\ player.pos >= Late /\ ~player.done THEN unseen \cup {player.ep} ELSE unseen
  /\ UNCHANGED <<length, serverVars, page, step, marks, count, torn, lost, finished>>

----------------------------------------------------------------------------
(* The server *)

\* Mutant of TitleAfter: the mark is overwritten.
TitleOverwritten(row, save) ==
  LET watched == movie /\ (save.complete \/ save.pos = End) IN
  [watched |-> watched,
   pos |-> IF watched \/ save.complete THEN Start ELSE save.pos,
   ep |-> IF save.ep # 0 THEN save.ep ELSE row.ep]

\* update_progress: the row of the title. Only a movie becomes watched here.
TitleAfter(row, save) ==
  LET watched == movie /\ (save.complete \/ save.pos = End)
      pos == IF watched \/ (save.complete /\ ~movie) THEN Start ELSE save.pos IN
  [watched |-> watched \/ (row.watched /\ pos < Middle),
   pos |-> pos,
   ep |-> IF save.ep # 0 THEN save.ep ELSE row.ep]

\* Mutant of EpisodesAfter: watching an episode again starts it over.
EpisodesOverwritten(rows, save) ==
  IF save.complete \/ save.pos >= Late THEN rows \cup {save.ep} ELSE rows \ {save.ep}

\* upsert_episode_progress: an episode that was watched stays so.
\* (Its position is kept too, and only shown.)
EpisodesAfter(rows, save) == IF save.complete \/ save.pos >= Late THEN rows \cup {save.ep} ELSE rows

Without(s, i) == [j \in 1..(Len(s) - 1) |-> IF j < i THEN s[j] ELSE s[j + 1]]

\* save_stream_resume: one row per torrent.
BookmarksAfter(rows, save) ==
  LET same == {i \in DOMAIN rows : rows[i].magnet = save.magnet} IN
  <<[magnet |-> save.magnet, ep |-> save.ep, pos |-> IF save.complete THEN Start ELSE save.pos]>>
    \o IF same = {} THEN rows ELSE Without(rows, CHOOSE i \in same : TRUE)

SaveTitle ==
  /\ queue # <<>> /\ step = "title"
  /\ title' = TitleAfter(title, Head(queue))
  /\ step' = IF Head(queue).ep = 0 THEN "bookmark" ELSE "episode"
  /\ torn' = TRUE
  /\ UNCHANGED <<length, episodes, bookmarks, page, player, queue, marks, count, lost, finished, unseen,
                due>>

SaveEpisode ==
  /\ queue # <<>> /\ step = "episode"
  /\ episodes' = EpisodesAfter(episodes, Head(queue))
  /\ step' = "bookmark"
  /\ UNCHANGED <<length, title, bookmarks, page, player, queue, marks, count, historyVars>>

Fault == count.faults < MaxFaults /\ count' = [count EXCEPT !.faults = @ + 1]

\* Its error is ignored.
EpisodeFails ==
  /\ queue # <<>> /\ step = "episode" /\ Fault
  /\ step' = "bookmark" /\ lost' = lost \cup {Head(queue).ep}
  /\ UNCHANGED <<length, serverVars, page, player, queue, marks, torn, finished, unseen, due>>

SaveBookmark ==
  /\ queue # <<>> /\ step = "bookmark"
  /\ bookmarks' = BookmarksAfter(bookmarks, Head(queue))
  /\ queue' = Tail(queue) /\ step' = "title"
  /\ torn' = FALSE
  /\ UNCHANGED <<length, title, episodes, page, player, marks, count, lost, finished, unseen, due>>

\* A call fails: what is left of the save is dropped, and the next one is sent.
SaveFails ==
  /\ queue # <<>> /\ Fault
  /\ queue' = Tail(queue) /\ step' = "title"
  /\ torn' = TRUE /\ lost' = lost \cup {Head(queue).ep}
  /\ UNCHANGED <<length, serverVars, page, player, marks, finished, unseen, due>>

\* The app ends, with the saves it has not sent.
AppEnds ==
  /\ Fault
  /\ lost' = lost \cup {queue[i].ep : i \in DOMAIN queue}
  /\ torn' = (torn \/ queue # <<>>)
  /\ player' = NoPlayer /\ queue' = <<>> /\ step' = "title" /\ marks' = <<>>
  /\ page' = [title |-> title, watched |-> episodes]
  /\ UNCHANGED <<length, serverVars, finished, unseen, due>>

----------------------------------------------------------------------------
(* The page *)

CanResume(t) == ~t.watched /\ t.pos > Start

\* seriesPlayTarget: the episode played last, or the first after it that is not watched.
PlayTarget(p) ==
  LET current == IF p.title.ep = 0 THEN 1 ELSE p.title.ep
      later == {e \in Episodes : e > current /\ e \notin p.watched} IN
  IF movie THEN 0
  ELSE IF current \in p.watched /\ later # {}
       THEN CHOOSE e \in later : \A o \in later : e <= o
       ELSE current

BookmarksOf(e) == {i \in DOMAIN bookmarks : bookmarks[i].ep = e}

\* Mutant of Newest: the oldest is taken.
Oldest(e) == {i \in BookmarksOf(e) : \A j \in BookmarksOf(e) : j <= i}

\* load_stream_bookmark: the newest for this episode.
Newest(e) == {i \in BookmarksOf(e) : \A j \in BookmarksOf(e) : i <= j}

Open(e, m, pos) == player.pc = "off" /\ Opened(e, m, pos)

Furthest(a, b) == IF a < b THEN b ELSE a

\* openSources, to resume: from the bookmark, or from a torrent the user chooses when there
\* is none or it cannot be read.
Resumable(e) == CanResume(page.title) /\ (e = 0 \/ e = page.title.ep)

Resume(e) ==
  /\ Resumable(e)
  /\ \/ \E i \in Newest(e) :
          Open(e, bookmarks[i].magnet, Furthest(page.title.pos, bookmarks[i].pos))
     \/ \E m \in Magnets : Open(e, m, page.title.pos)

\* openSources, from the beginning.
PlayAnew(e) == \E m \in Magnets : Open(e, m, Start)

\* "Play" and "From the beginning" of the page.
Play == LET e == PlayTarget(page) IN Resume(e) \/ PlayAnew(e)

\* The card of an episode; it is resumed only if it is the one the title's row names.
PlayEpisode(e) == IF e \notin page.watched /\ Resumable(e) THEN Resume(e) ELSE PlayAnew(e)

\* Back from the player; the saves are waited for, but not for long.
Reload ==
  /\ player.pc = "off"
  /\ page' = [title |-> title, watched |-> episodes]
  /\ UNCHANGED <<length, serverVars, player, queue, step, marks, count, historyVars>>

\* toggleWatched: the page shows the mark at once.
ToggleWatched ==
  /\ player.pc = "off" /\ count.marks < MaxMarks /\ count' = [count EXCEPT !.marks = @ + 1]
  /\ LET watched == ~page.title.watched IN
       /\ page' = [page EXCEPT !.title.watched = watched, !.title.pos = IF watched THEN Start ELSE @]
       /\ marks' = Append(marks, watched)
  /\ UNCHANGED <<length, serverVars, player, queue, step, historyVars>>

\* set_watched.
TitleMarked(row, watched) ==
  [watched |-> watched,
   pos |-> IF watched THEN Start ELSE row.pos,
   ep |-> IF ~watched /\ row.pos = Start THEN 0 ELSE row.ep]

\* Saves whose update_progress is still to come.
ToCome == {i \in DOMAIN queue : i > 1 \/ step = "title"}

\* Calls on their way together arrive in any order, and beside the queue: a real save that
\* waits in it comes after the mark.
ServeMark(i) ==
  /\ title' = TitleMarked(title, marks[i])
  /\ due' = IF \E j \in ToCome : Real(queue[j]) THEN None ELSE marks[i]
  /\ marks' = Without(marks, i)
  /\ UNCHANGED <<length, episodes, bookmarks, page, player, queue, step, count, torn, lost, finished, unseen>>

\* One that fails is taken back from the page as well.
MarkFails(i) ==
  /\ Fault
  /\ page' = [page EXCEPT !.title.watched = ~marks[i]]
  /\ marks' = Without(marks, i)
  /\ UNCHANGED <<length, serverVars, player, queue, step, historyVars>>

----------------------------------------------------------------------------
ServerStep == SaveTitle \/ SaveEpisode \/ SaveBookmark

Next ==
  \/ FirstFrame \/ (\E p \in Positions : Move(p)) \/ Tick
  \/ AskNext \/ (\E m \in Magnets : OpenNext(m)) \/ NoNext \/ Leave
  \/ ServerStep \/ EpisodeFails \/ SaveFails \/ AppEnds
  \/ Play \/ (\E e \in Episodes : PlayEpisode(e)) \/ Reload
  \/ ToggleWatched \/ (\E i \in DOMAIN marks : ServeMark(i) \/ MarkFails(i))

Spec == Init /\ [][Next]_vars

----------------------------------------------------------------------------
(* Properties *)

Current == page = [title |-> title, watched |-> episodes]

\* Resuming starts where the saves say the title was left, unless the latest of them did not
\* get through as a whole, saves are still waiting or the page is an old one: the bookmark
\* and the title's row, of which the further position is taken, otherwise agree
\* (openSources, saveWatchProgress, load_stream_bookmark).
ResumesWhereLeft ==
  [][player.pc = "off" /\ player'.pc = "opening" /\ player'.pos > Start
       => player'.pos = title.pos \/ torn \/ queue # <<>> \/ ~Current]_vars

\* "Finished series episodes must not leave title resume parked at EOF" (update_progress): the
\* title's row does not point near the end of something, unless saves of it were lost, or
\* the player was closed there before it took it for finished (saveWatchProgress).
NotParkedAtEnd ==
  player.pc = "off" /\ queue = <<>> /\ title.pos >= Late => title.ep \in lost \cup unseen

\* What the page offers to play is not what was finished, as long as anything after it is
\* not, and unless saves of it were lost (seriesPlayTarget, upsert_episode_progress).
NextIsOffered ==
  Current /\ queue = <<>> /\ PlayTarget(page) \in (finished \ lost) \ {0} =>
    \A e \in Episodes : e > PlayTarget(page) => e \in page.watched

\* A mark the server has taken stands until the player has saved more than the first minute of the
\* title, or the end of a movie: saves of less, of finished episodes, failed and lost ones leave it,
\* whether they were queued before the mark or after it. Not so when a save of more was waiting as
\* the mark was taken: it undoes the mark (set_watched, update_progress, enqueueWrite).
MarkStands == due # None => title.watched = due
=============================================================================
