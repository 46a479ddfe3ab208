----------------------------- MODULE TorrentSession -----------------------------
(* A torrent played on the TV: players (PlayerActivity) of the app's process,   *)
(* TorrentClient in it, TorrentService in the process :torrent, the coroutine   *)
(* that starts a torrent there (LocalTorrentEngine.start), and the alerts with  *)
(* which libtorrent follows.                                                    *)
(*                                                                             *)
(* What is sent between the processes is handled on the receiver's main thread  *)
(* in the order it was sent. Starts run on other threads and are cancelled      *)
(* only where they wait: a cancelled one that is still at work goes on until    *)
(* then. Each player asks for one start, so its name stands for the start and   *)
(* for the torrent the start adds.                                              *)
EXTENDS Integers, Sequences, FiniteSets

CONSTANTS
  MaxPlayers,   \* bound: players, one for every time something is played
  Direct,       \* a link that is played as it is, without a torrent
  MaxTroubles,  \* bound: crashes of :torrent, and times the user leaves for another app
  None

\* Players in the order in which they are opened.
Players == 1..MaxPlayers

\* Torrents, named by the first player that plays them.
Magnets == Players

ASSUME SessionAssumption ==
  /\ MaxPlayers \in Nat /\ MaxTroubles \in Nat
  /\ None \notin Players /\ Direct \notin Players \cup {None}

VARIABLES
  player,     \* the players of the app, and what became of their call of start()
  conn,       \* their bindings to the service
  connRef, messenger,   \* TorrentClient
  inbox,      \* messages on their way to TorrentService
  outbox,     \* replies on their way to the app
  job,        \* the start TorrentService ran last
  run,        \* the starts
  torrent,    \* what libtorrent has of the torrent each of them added
  alerts,     \* alerts that LocalTorrentEngine has not seen
  engine,     \* its handleRef, infoHashRef, metadataLatch and httpServer
  listening,  \* the servers that run, by the start that made them
  disk,       \* torrents with pieces in pb-streams
  wipes,      \* the setting "Clear cache on exit"
  troubles,   \* crashes and times away so far
  late,       \* history: what came too late, see Late
  upset       \* history: players whose torrent was stopped for a known reason

uiVars == <<player, conn, connRef, messenger, outbox, upset>>
engineVars == <<run, torrent, alerts, engine, listening>>
vars == <<uiVars, inbox, job, engineVars, disk, wipes, troubles, late>>

Screens == {"none", "shown", "leaving", "gone"}
Calls == {"idle", "stop", "bind", "wait"}
Answers == {"none", "url", "error"}
RunPlaces == {"none", "new", "stop", "add", "meta", "settle", "fill", "serve", "done", "end"}
TorrentStates == {"none", "magnet", "info", "removed"}

(* What can come too late:                                                      *)
(* "call": TorrentClient is asked to stop for a player that is not the one on   *)
(* screen, or that was handed over;                                             *)
(* "bind": it binds to the service, or starts there, for such a player;         *)
(* "run": a start goes on after it was cancelled;                               *)
(* "handle": a stop does not know a torrent that was just added;                *)
(* "direct": "Play next" hands over to a player that has no torrent;            *)
(* "wipe": pieces are wiped while the service is still to stop in a way that    *)
(* keeps them, or crashes before it stops in the way that deletes them.         *)
Late == {"call", "bind", "run", "handle", "direct", "wipe"}

Message ==
  [what : {"START"}, of : Players, delete : {FALSE}] \cup [what : {"STOP"}, of : {None}, delete : BOOLEAN]
Reply == [what : {"READY", "ERROR"}, of : Players]
Alert == [what : {"ADD_TORRENT", "METADATA_RECEIVED", "TORRENT_REMOVED"}, of : Players]

TypeOK ==
  /\ player \in [Players ->
       [screen : Screens, magnet : Magnets \cup {Direct, None}, call : Calls,
        answer : Answers, next : BOOLEAN, handedOff : BOOLEAN]]
  /\ conn \in [Players -> {"none", "pending", "up"}]
  /\ connRef \in Players \cup {None} /\ messenger \in BOOLEAN
  /\ inbox \in Seq(Message) /\ outbox \in Seq(Reply) /\ alerts \in Seq(Alert)
  /\ job \in Players \cup {None}
  /\ run \in [Players -> [pc : RunPlaces, cancelled : BOOLEAN, file : Players \cup {None}]]
  /\ torrent \in [Players -> TorrentStates]
  /\ engine \in [handle : Players \cup {None}, hash : Magnets \cup {None},
                 latch : BOOLEAN, server : Players \cup {None}]
  /\ listening \subseteq Players /\ disk \subseteq Magnets /\ upset \subseteq Players
  /\ wipes \in BOOLEAN /\ troubles \in 0..MaxTroubles /\ late \subseteq Late

NoRun == [pc |-> "none", cancelled |-> FALSE, file |-> None]
NoEngine == [handle |-> None, hash |-> None, latch |-> FALSE, server |-> None]

\* The app runs, and its details screen has warmed the service up (prewarm).
Init ==
  /\ player = [p \in Players |-> [screen |-> "none", magnet |-> None, call |-> "idle",
                                  answer |-> "none", next |-> FALSE, handedOff |-> FALSE]]
  /\ conn = [p \in Players |-> "none"] /\ connRef = None /\ messenger = FALSE
  /\ inbox = <<>> /\ outbox = <<>> /\ alerts = <<>>
  /\ job = None /\ run = [p \in Players |-> NoRun]
  /\ torrent = [p \in Players |-> "none"]
  /\ engine = NoEngine /\ listening = {} /\ disk = {}
  /\ wipes \in BOOLEAN /\ troubles = 0
  /\ late = {} /\ upset = {}

Shown == {p \in Players : player[p].screen = "shown"}

-----------------------------------------------------------------------------
(* libtorrent, as LocalTorrentEngine sees it *)

Alive(p) == p # None /\ torrent[p] \in {"magnet", "info"}

Magnet(p) == player[p].magnet

\* SessionManager.find
Find(m) == {p \in Players : Alive(p) /\ Magnet(p) = m}

\* The torrent liveHandle finds, by its info hash if it can.
LiveHandle ==
  IF Find(engine.hash) # {} THEN CHOOSE p \in Find(engine.hash) : TRUE
  ELSE IF Alive(engine.handle) THEN engine.handle
  ELSE None

\* What liveHandle remembers of it.
Remembered == IF LiveHandle = None THEN engine
              ELSE [engine EXCEPT !.handle = LiveHandle, !.hash = Magnet(LiveHandle)]

\* LocalTorrentEngine.stop: the torrent of the handle goes, if there is one.
EngineStop(delete) ==
  LET h == engine.handle IN
  /\ engine' = NoEngine
  /\ listening' = listening \ {engine.server}
  /\ IF Alive(h)
     THEN /\ torrent' = [torrent EXCEPT ![h] = "removed"]
          /\ alerts' = Append(alerts, [what |-> "TORRENT_REMOVED", of |-> h])
          /\ disk' = IF delete THEN disk \ {Magnet(h)} ELSE disk
     ELSE UNCHANGED <<torrent, alerts, disk>>

Deletes(messages) == \E i \in DOMAIN messages : messages[i].delete

\* What is late about a stop of the engine, by a start that was cancelled or not, before messages.
LateStop(cancelled, messages) ==
  late \cup (IF cancelled THEN {"run"} ELSE {})
       \cup (IF \E p \in Players : Alive(p) /\ p # engine.handle THEN {"handle"} ELSE {})
       \cup (IF Deletes(messages) THEN {"wipe"} ELSE {})

\* Metadata of a torrent arrives.
GetsInfo(p) ==
  /\ torrent[p] = "magnet"
  /\ torrent' = [torrent EXCEPT ![p] = "info"]
  /\ alerts' = Append(alerts, [what |-> "METADATA_RECEIVED", of |-> p])
  /\ UNCHANGED <<uiVars, inbox, job, run, engine, listening, disk, wipes, troubles, late>>

\* Its pieces are written.
GetsPieces(p) ==
  /\ torrent[p] = "info" /\ Magnet(p) \notin disk
  /\ disk' = disk \cup {Magnet(p)}
  /\ UNCHANGED <<uiVars, inbox, job, engineVars, wipes, troubles, late>>

\* The listener of ensureInit.
SeeAlert ==
  /\ alerts # <<>>
  /\ alerts' = Tail(alerts)
  /\ LET a == Head(alerts) IN
     engine' =
       CASE a.what = "ADD_TORRENT" ->
              IF Alive(a.of) THEN [engine EXCEPT !.handle = a.of, !.hash = Magnet(a.of)]
              ELSE engine
         [] a.what = "METADATA_RECEIVED" ->
              [engine EXCEPT !.latch = TRUE, !.hash = IF Alive(a.of) THEN Magnet(a.of) ELSE @]
         [] a.what = "TORRENT_REMOVED" -> [engine EXCEPT !.handle = None]
  /\ UNCHANGED <<uiVars, inbox, job, run, torrent, listening, disk, wipes, troubles, late>>

-----------------------------------------------------------------------------
(* A start: LocalTorrentEngine.start in its coroutine, and its reply *)

To(p, pc) == run' = [run EXCEPT ![p].pc = pc]

\* A reply, which nobody takes after another one, a cancellation or the watchdog.
Answer(p, what) ==
  /\ outbox' = IF player[p].call = "wait" THEN Append(outbox, [what |-> what, of |-> p])
               ELSE outbox
  /\ UNCHANGED <<player, conn, connRef, messenger, upset>>

RunKeeps == UNCHANGED <<inbox, job, wipes, troubles>>

\* The coroutine is dispatched; one that was cancelled before never runs, nor replies.
Begin(p) ==
  /\ run[p].pc = "new"
  /\ To(p, IF run[p].cancelled THEN "end" ELSE "stop")
  /\ UNCHANGED <<uiVars, torrent, alerts, engine, listening, disk, late>> /\ RunKeeps

\* The torrent before it goes.
StopFirst(p) ==
  /\ run[p].pc = "stop"
  /\ EngineStop(FALSE)
  /\ To(p, "add")
  /\ late' = LateStop(run[p].cancelled, inbox)
  /\ UNCHANGED uiVars /\ RunKeeps

\* The disk is trimmed and the magnet added: a torrent that is there already is not added again.
Add(p) ==
  /\ run[p].pc = "add"
  /\ To(p, "meta")
  /\ engine' = [engine EXCEPT !.latch = FALSE]
  /\ IF Find(Magnet(p)) = {}
     THEN /\ torrent' = [torrent EXCEPT ![p] = "magnet"]
          /\ alerts' = Append(alerts, [what |-> "ADD_TORRENT", of |-> p])
     ELSE UNCHANGED <<torrent, alerts>>
  /\ late' = late \cup (IF run[p].cancelled THEN {"run"} ELSE {})
  /\ UNCHANGED <<uiVars, listening, disk>> /\ RunKeeps

\* The engine could not add it: download() throws.
AddFails(p) ==
  /\ run[p].pc = "add"
  /\ To(p, "end")
  /\ engine' = [engine EXCEPT !.latch = FALSE]
  /\ Answer(p, "ERROR")
  /\ UNCHANGED <<torrent, alerts, listening, disk, late>> /\ RunKeeps

\* Where it waits, a cancelled start ends.
Cancelled(p) ==
  /\ run[p].pc \in {"meta", "settle", "fill"} /\ run[p].cancelled
  /\ To(p, "end")
  /\ Answer(p, "ERROR")
  /\ UNCHANGED <<torrent, alerts, engine, listening, disk, late>> /\ RunKeeps

\* A start that fails stops the torrent.
GivesUp(p, delete) ==
  /\ EngineStop(delete)
  /\ To(p, "end")
  /\ Answer(p, "ERROR")
  /\ late' = LateStop(FALSE, inbox)
  /\ RunKeeps

SeesMetadata(p) ==
  /\ run[p].pc = "meta" /\ ~run[p].cancelled /\ engine.latch
  /\ To(p, "settle")
  /\ UNCHANGED <<uiVars, torrent, alerts, engine, listening, disk, late>> /\ RunKeeps

\* Nobody sent the metadata for 180 s.
NoMetadata(p) ==
  /\ run[p].pc = "meta" /\ ~run[p].cancelled /\ ~engine.latch
  /\ GivesUp(p, FALSE)

\* 1.2 s later the file to play is chosen, in the torrent the session now has.
ChooseFile(p) ==
  /\ run[p].pc = "settle" /\ ~run[p].cancelled
  /\ LiveHandle # None /\ torrent[LiveHandle] = "info"
  /\ run' = [run EXCEPT ![p].pc = "fill", ![p].file = LiveHandle]
  /\ engine' = Remembered
  /\ UNCHANGED <<uiVars, torrent, alerts, listening, disk, late>> /\ RunKeeps

\* There is no torrent, it has no metadata, or no file to play.
NoFile(p) ==
  /\ run[p].pc = "settle" /\ ~run[p].cancelled
  /\ GivesUp(p, FALSE)

\* Enough pieces are there to play.
Filled(p) ==
  /\ run[p].pc = "fill" /\ ~run[p].cancelled /\ LiveHandle # None /\ Magnet(LiveHandle) \in disk
  /\ To(p, "serve")
  /\ engine' = Remembered
  /\ UNCHANGED <<uiVars, torrent, alerts, listening, disk, late>> /\ RunKeeps

\* They are not after 90 s: it plays what there is,
NotFilled(p) ==
  /\ run[p].pc = "fill" /\ ~run[p].cancelled
  /\ To(p, "serve")
  /\ UNCHANGED <<uiVars, torrent, alerts, engine, listening, disk, late>> /\ RunKeeps

\* or deletes the torrent when there is nothing, and nobody to get it from.
NobodySends(p) ==
  /\ run[p].pc = "fill" /\ ~run[p].cancelled
  /\ LiveHandle # None => Magnet(LiveHandle) \notin disk
  /\ GivesUp(p, TRUE)

\* The server starts.
Serve(p) ==
  /\ run[p].pc = "serve"
  /\ To(p, "done")
  /\ engine' = [engine EXCEPT !.server = p]
  /\ listening' = listening \cup {p}
  /\ late' = late \cup (IF run[p].cancelled THEN {"run"} ELSE {})
  /\ UNCHANGED <<uiVars, torrent, alerts, disk>> /\ RunKeeps

\* withContext returns, or finds that the start was cancelled.
Replies(p) ==
  /\ run[p].pc = "done"
  /\ To(p, "end")
  /\ Answer(p, IF run[p].cancelled THEN "ERROR" ELSE "READY")
  /\ late' = late \cup (IF run[p].cancelled THEN {"run"} ELSE {})
  /\ UNCHANGED <<torrent, alerts, engine, listening, disk>> /\ RunKeeps

RunStep(p) ==
  \/ Begin(p) \/ StopFirst(p) \/ Add(p) \/ AddFails(p) \/ Cancelled(p) \/ SeesMetadata(p)
  \/ NoMetadata(p) \/ ChooseFile(p) \/ NoFile(p) \/ Filled(p) \/ NotFilled(p) \/ NobodySends(p)
  \/ Serve(p) \/ Replies(p)

-----------------------------------------------------------------------------
(* TorrentService *)

\* What cancels the start that runs, if one does.
CancelNothing == run
CancelJob == [p \in Players |-> IF p = job THEN [run[p] EXCEPT !.cancelled = TRUE] ELSE run[p]]

\* MSG_START: the start that runs is cancelled, and the next one does not wait for its end.
HandleStart ==
  /\ inbox # <<>> /\ Head(inbox).what = "START"
  /\ inbox' = Tail(inbox)
  /\ LET p == Head(inbox).of IN
     /\ run' = [CancelJob EXCEPT ![p] = [NoRun EXCEPT !.pc = "new"]]
     /\ job' = p
  /\ UNCHANGED <<uiVars, torrent, alerts, engine, listening, disk, wipes, troubles, late>>

\* MSG_STOP
HandleStop ==
  /\ inbox # <<>> /\ Head(inbox).what = "STOP"
  /\ inbox' = Tail(inbox)
  /\ run' = CancelJob
  /\ EngineStop(Head(inbox).delete)
  /\ late' = LateStop(FALSE, IF Head(inbox).delete THEN <<>> ELSE Tail(inbox))
  /\ UNCHANGED <<uiVars, job, wipes, troubles>>

\* A native crash: the process ends, and the app is told by its bindings, which stay.
Crash ==
  /\ troubles < MaxTroubles
  /\ troubles' = troubles + 1
  /\ inbox' = <<>> /\ outbox' = <<>> /\ alerts' = <<>>
  /\ job' = None /\ run' = [p \in Players |-> NoRun]
  /\ torrent' = [p \in Players |-> "none"]
  /\ engine' = NoEngine /\ listening' = {}
  /\ conn' = [p \in Players |-> IF conn[p] = "up" THEN "pending" ELSE conn[p]]
  /\ messenger' = FALSE
  /\ player' = [p \in Players |->
                  IF conn[p] = "up" /\ player[p].call = "wait"
                  THEN [player[p] EXCEPT !.call = "idle", !.answer = "error"]
                  ELSE player[p]]
  /\ upset' = upset \cup Shown
  /\ late' = late \cup (IF Deletes(inbox) THEN {"wipe"} ELSE {})
  /\ UNCHANGED <<connRef, disk, wipes>>

-----------------------------------------------------------------------------
(* TorrentClient *)

\* TorrentClient.stop: the message is sent only to a service that is connected.
ClientStop(delete) ==
  /\ inbox' = IF messenger
              THEN Append(inbox, [what |-> "STOP", of |-> None, delete |-> delete])
              ELSE inbox
  /\ messenger' = FALSE
  /\ conn' = [p \in Players |-> IF p = connRef THEN "none" ELSE conn[p]]
  /\ connRef' = None

ClientKeeps == UNCHANGED <<outbox, job, engineVars, wipes, troubles>>

\* The client acts for a player that is not the one on screen, or was handed over.
Overdue(p) ==
  \/ ~(Shown \subseteq {p} /\ player[p].screen \in {"shown", "leaving"})
  \/ player[p].handedOff

LateCall(p, what) ==
  /\ late' = late \cup (IF Overdue(p) THEN {what} ELSE {})
  /\ upset' = upset \cup (IF Overdue(p) THEN Shown ELSE {})

\* StreamDownloads.wipe deletes the pieces in the app's process, next to a stop that is sent.
Wipe == disk' = IF wipes THEN {} ELSE disk

LateWipe ==
  IF wipes /\ ~messenger /\ (inbox # <<>> \/ \E p \in Players : Alive(p)) THEN {"wipe"} ELSE {}

\* start() stops what runs,
StartStops(p) ==
  /\ player[p].call = "stop"
  /\ ClientStop(FALSE)
  /\ player' = [player EXCEPT ![p].call = "bind"]
  /\ LateCall(p, "call")
  /\ UNCHANGED disk /\ ClientKeeps

\* and binds to the service; it does not wait for its answer if it was cancelled.
StartBinds(p) ==
  /\ player[p].call = "bind"
  /\ connRef' = p /\ conn' = [conn EXCEPT ![p] = "pending"]
  /\ player' = [player EXCEPT ![p].call = IF player[p].screen = "gone" THEN "idle" ELSE "wait"]
  /\ LateCall(p, "bind")
  /\ UNCHANGED <<messenger, inbox, disk>> /\ ClientKeeps

\* onServiceConnected, after bindService and again after a crash.
Connected(p) ==
  /\ conn[p] = "pending"
  /\ conn' = [conn EXCEPT ![p] = "up"]
  /\ messenger' = TRUE
  /\ inbox' = Append(inbox, [what |-> "START", of |-> p, delete |-> FALSE])
  /\ LateCall(p, "bind")
  /\ UNCHANGED <<player, connRef, disk>> /\ ClientKeeps

\* Mutant: whoever waits takes it.
TakeAnyReply ==
  /\ outbox # <<>>
  /\ outbox' = Tail(outbox)
  /\ LET answer == IF Head(outbox).what = "READY" THEN "url" ELSE "error" IN
     player' = [p \in Players |-> IF player[p].call # "wait" THEN player[p]
                                  ELSE [player[p] EXCEPT !.call = "idle", !.answer = answer]]
  /\ UNCHANGED <<conn, connRef, messenger, upset, inbox, job, engineVars, disk, wipes, troubles,
                late>>

\* A reply is taken, unless it is too late.
TakeReply ==
  /\ outbox # <<>>
  /\ outbox' = Tail(outbox)
  /\ LET r == Head(outbox) IN
     player' = IF player[r.of].call # "wait" THEN player
               ELSE [player EXCEPT ![r.of].call = "idle",
                                   ![r.of].answer = IF r.what = "READY" THEN "url" ELSE "error"]
  /\ UNCHANGED <<conn, connRef, messenger, upset, inbox, job, engineVars, disk, wipes, troubles,
                late>>

\* Statistics that the start sends show progress.
Progresses(p) == run[p].pc = "fill" /\ LiveHandle # None /\ Magnet(LiveHandle) \in disk

\* No data for three minutes.
Watchdog(p) ==
  /\ player[p].call = "wait" /\ ~Progresses(p)
  /\ ClientStop(FALSE)
  /\ player' = [player EXCEPT ![p].call = "idle", ![p].answer = "error"]
  /\ LateCall(p, "call")
  /\ UNCHANGED disk /\ ClientKeeps

-----------------------------------------------------------------------------
(* PlayerActivity *)

\* A player for m comes on screen, and its start with it unless it needs none.
CanOpen(q, m) ==
  /\ player[q].screen = "none" /\ \A p \in 1..(q - 1) : player[p].screen # "none"
  /\ m \in 1..q \cup {Direct}

Opened(q, m) ==
  [player[q] EXCEPT !.screen = "shown", !.magnet = m,
                    !.call = IF m = Direct THEN "idle" ELSE "stop"]

ScreenKeeps == UNCHANGED <<outbox, job, engineVars, wipes>>

\* What needs no torrent is followed only where it comes after a torrent.
Open(q, m) ==
  /\ CanOpen(q, m) /\ m # Direct /\ Shown = {}
  /\ player' = [player EXCEPT ![q] = Opened(q, m)]
  /\ UNCHANGED <<conn, connRef, messenger, upset, inbox, disk, troubles, late>> /\ ScreenKeeps

\* Back: the player finishes, and is destroyed some time after.
Leave(p) ==
  /\ player[p].screen = "shown"
  /\ player' = [player EXCEPT ![p].screen = "leaving", ![p].next = FALSE]
  /\ UNCHANGED <<conn, connRef, messenger, upset, inbox, disk, troubles, late>> /\ ScreenKeeps

\* "Play next": what was watched is wiped if the setting says so, and a source looked up.
PlayNext(p) ==
  /\ player[p].screen = "shown" /\ player[p].answer = "url" /\ ~player[p].next
  /\ player' = [player EXCEPT ![p].next = TRUE]
  /\ IF wipes
     THEN /\ ClientStop(TRUE) /\ Wipe
          /\ upset' = upset \cup {p} /\ late' = late \cup LateWipe
     ELSE UNCHANGED <<inbox, messenger, conn, connRef, disk, upset, late>>
  /\ UNCHANGED troubles /\ ScreenKeeps

\* None is found.
NoSource(p) ==
  /\ player[p].screen = "shown" /\ player[p].next
  /\ player' = [player EXCEPT ![p].next = FALSE]
  /\ UNCHANGED <<conn, connRef, messenger, upset, inbox, disk, troubles, late>> /\ ScreenKeeps

\* The next player comes on screen before this one is destroyed.
HandOver(p, q, m) ==
  /\ player[p].screen = "shown" /\ player[p].next /\ CanOpen(q, m)
  /\ player' = [player EXCEPT ![p].screen = "leaving", ![p].handedOff = TRUE,
                              ![p].next = FALSE, ![q] = Opened(q, m)]
  /\ late' = late \cup (IF m = Direct THEN {"direct"} ELSE {})
  /\ UNCHANGED <<conn, connRef, messenger, upset, inbox, disk, troubles>> /\ ScreenKeeps

\* onDestroy: a player that was not handed over stops the torrent.
StopsWhenReady(p) == player[p].magnet # Direct /\ ~player[p].handedOff /\ player[p].answer = "url"
Stops(p) == player[p].magnet # Direct /\ ~player[p].handedOff

\* It was left, and another one came on screen before its end.
EndsLate(p) == Overdue(p) /\ ~player[p].handedOff

Destroy(p) ==
  /\ player[p].screen = "leaving"
  /\ player' = [player EXCEPT ![p].screen = "gone", ![p].handedOff = FALSE, ![p].answer = "none",
                              ![p].call = IF @ = "wait" THEN "idle" ELSE @]
  /\ IF Stops(p)
     THEN /\ ClientStop(wipes) /\ Wipe
          /\ late' = late \cup LateWipe \cup (IF EndsLate(p) THEN {"call"} ELSE {})
          /\ upset' = upset \cup (IF EndsLate(p) THEN Shown ELSE {})
     ELSE UNCHANGED <<inbox, messenger, conn, connRef, disk, late, upset>>
  /\ UNCHANGED troubles /\ ScreenKeeps

\* AppExitCleanup: the user goes to another app. The player stays for when they come back.
Away ==
  /\ troubles < MaxTroubles /\ Shown # {}
  /\ troubles' = troubles + 1
  /\ ClientStop(wipes) /\ Wipe
  /\ upset' = upset \cup Shown /\ late' = late \cup LateWipe
  /\ UNCHANGED player /\ ScreenKeeps

PlayerStep(p) ==
  \/ \E m \in Magnets \cup {Direct} : Open(p, m) \/ \E q \in Players : HandOver(p, q, m)
  \/ Leave(p) \/ PlayNext(p) \/ NoSource(p) \/ Destroy(p)

ClientStep(p) == StartStops(p) \/ StartBinds(p) \/ Connected(p) \/ Watchdog(p)

Next ==
  \/ \E p \in Players :
       RunStep(p) \/ ClientStep(p) \/ PlayerStep(p) \/ GetsInfo(p) \/ GetsPieces(p)
  \/ TakeReply \/ HandleStart \/ HandleStop \/ SeeAlert \/ Crash \/ Away

Spec == Init /\ [][Next]_vars

-----------------------------------------------------------------------------
(* Properties *)


\* No cancelled start went on, and no stop missed a torrent that was just added.
Orderly == late \cap {"run", "handle"} = {}

\* A player that was told a URL plays the torrent it asked for: the file served there is of that
\* torrent (LocalTorrentEngine.start, handleProvider). Not so after a start that went on though it
\* was cancelled, or a stop that did not know the torrent it should have ended.
PlaysWhatWasAsked ==
  \A p \in Players :
    (player[p].answer = "url" /\ p \in listening /\ Orderly) =>
       /\ Magnet(run[p].file) = Magnet(p)
       /\ LiveHandle # None => Magnet(LiveHandle) = Magnet(p)

\* A player on screen that has its URL keeps its torrent and its server, unless the service
\* crashed, the user left, it wiped what it played itself, the client was called for another
\* player (TorrentService, PlayerActivity.onDestroy), or a start or stop went wrong as above.
PlayerKeepsTorrent ==
  \A p \in Shown \ upset :
    (player[p].answer = "url" /\ Orderly) => p \in listening /\ Alive(run[p].file)

\* Nobody plays anything, and all that was sent and started has come to its end.
Quiet ==
  /\ \A p \in Players : player[p].screen \in {"none", "gone"} /\ player[p].call = "idle"
  /\ \A p \in Players : run[p].pc \in {"none", "end"}
  /\ inbox = <<>> /\ \A p \in Players : conn[p] # "pending"

\* Then no torrent and no server is left, unless a start or stop went wrong as above, a player that
\* is not on screen was bound to the service, or the last torrent was handed over to a player that
\* has none; and with "Clear cache on exit" no pieces either, unless they were wiped too early
\* (TorrentService, TorrentClient, PlayerActivity.onDestroy, StreamDownloads.wipe).
NothingLeftBehind ==
  Quiet =>
    /\ late \subseteq {"call", "wipe"} => (\A p \in Players : ~Alive(p)) /\ listening = {}
    /\ late \subseteq {"call"} /\ wipes => disk = {}
=============================================================================
