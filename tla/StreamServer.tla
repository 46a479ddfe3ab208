------------------------------ MODULE StreamServer ------------------------------
(* The server a player on the TV reads a torrent's file from while it downloads *)
(* (StreamHttpServer), and the window of pieces LocalTorrentEngine asks the     *)
(* swarm for: it follows the requests, seeks and pauses of the player.          *)
(*                                                                             *)
(* Every request is answered on a thread of its own; what the player sends to   *)
(* TorrentService (seeks, pauses) is handled on the main thread of the process. *)
(* Positions in the file are counted in pieces. Priorities of pieces are        *)
(* abstracted to whether a piece is wanted at all (IGNORE is not).              *)
EXTENDS Integers, FiniteSets

CONSTANTS
  Last,         \* the last piece of the file; its first is 0
  Window,       \* pieces asked for ahead of where the player reads (windowPieces)
  Far,          \* what counts as a jump, in pieces (JUMP_BYTES)
  Index,        \* pieces at the end that hold the container's index (TAIL_BYTES)
  MaxRequests,  \* bound: requests of the player
  None

Pieces == 0..Last
Requests == 1..MaxRequests

VARIABLES
  running,        \* StreamHttpServer.running
  opening,        \* the first 20 s, in which the player reads the index (INDEX_READ_MS)
  newest,         \* the request that raised `generation` last
  lastReadPiece,
  servedPos,      \* where the player's reading stands, -1 before
  request,        \* the requests, in the order the player sends them
  paused,         \* the player is paused, and pausedFill is posted
  seeks,          \* seeks that TorrentService has not heard of yet
  moving,         \* where the main thread of :torrent is about to move the window, or None
  readaheadFrom,  \* where the window starts
  wanted, have    \* the torrent's pieces that are on disk, and those that are wanted yet

serverVars == <<running, newest, lastReadPiece, servedPos>>
serviceVars == <<seeks, moving>>
torrentVars == <<readaheadFrom, wanted, have>>
vars == <<serverVars, opening, request, paused, serviceVars, torrentVars>>

Busy == {"sent", "jump", "land", "aim", "read", "ahead", "wait", "send"}
NoRequest == [at |-> "none", pos |-> 0, tail |-> FALSE, told |-> FALSE]

TypeOK ==
  /\ running \in BOOLEAN /\ opening \in BOOLEAN /\ paused \in BOOLEAN
  /\ newest \in Requests \cup {None} /\ lastReadPiece \in Pieces \cup {-1}
  /\ servedPos \in -1..(Last + 1)
  /\ request \in [Requests -> [at : Busy \cup {"none", "closed", "reset"}, pos : 0..(Last + 1),
                               tail : BOOLEAN, told : BOOLEAN]]
  /\ seeks \in 0..MaxRequests
  /\ moving \in Pieces \cup {None} /\ readaheadFrom \in Pieces
  /\ have \subseteq Pieces /\ wanted \subseteq Pieces \ have

At(r, place) == request[r].at = place
Goes(r, place) == request' = [request EXCEPT ![r].at = place]
Open == {r \in Requests : ~At(r, "none")}
\* The player has one connection; what it opened before it has closed.
Current(r) == r \in Open /\ Cardinality(Open) = r

\* The player buffers.
Stuck(r) == Current(r) /\ At(r, "wait") /\ request[r].pos \notin have

\* readaheadAt: the pieces of the window are wanted.
Ahead(p) ==
  /\ readaheadFrom' = p
  /\ wanted' = wanted \cup {q \in Pieces \ have : q \in p..(p + Window - 1)}
  /\ UNCHANGED have

\* start: the file's pieces are all wanted, the player's first ones are there.
Init ==
  /\ running = TRUE /\ opening = TRUE /\ newest = None /\ lastReadPiece = -1 /\ servedPos = -1
  /\ request = [r \in Requests |-> NoRequest] /\ paused = FALSE
  /\ seeks = 0 /\ moving = None
  /\ readaheadFrom \in Pieces /\ have = {0, readaheadFrom} /\ wanted = Pieces \ have

-----------------------------------------------------------------------------
(* The player *)

\* It opens the file at p: to open or go on with the film, or to read its index.
Asks(p) ==
  /\ running /\ Cardinality(Open) < MaxRequests
  /\ request' = [request EXCEPT ![Cardinality(Open) + 1] = [NoRequest EXCEPT !.at = "sent", !.pos = p]]
  /\ UNCHANGED <<serverVars, opening, paused, torrentVars>>

Opens(p) == Asks(p) /\ UNCHANGED serviceVars

\* commitPendingSeek: the service hears of the seek before the server is asked.
Seeks(p) == Asks(p) /\ seeks' = seeks + 1 /\ UNCHANGED moving

\* renderTransport; the service posts or removes pausedFill. (Told only of a player that
\* is being answered: until then it makes no difference.)
Pauses ==
  /\ running /\ paused' = ~paused
  /\ \E r \in Requests : Current(r) /\ request[r].at \in {"wait", "send"}
  /\ UNCHANGED <<serverVars, opening, request, serviceVars, torrentVars>>

-----------------------------------------------------------------------------
(* StreamHttpServer *)

Thread(r, A) == A /\ UNCHANGED <<opening, paused, serviceVars>>

\* handleClient: from here on the requests before it are superseded.
Numbered(r) ==
  LET tail == request[r].pos > Last - Index /\ opening IN
  /\ At(r, "sent") /\ newest' = r
  /\ request' = [request EXCEPT ![r].tail = tail, ![r].at = IF tail THEN "read" ELSE "jump"]
  /\ UNCHANGED <<running, lastReadPiece, servedPos, torrentVars>>

\* noteJump: far from where the player was reading is a seek, but for the head of the file.
IsJump(p) == p >= Far /\ (servedPos = -1 \/ p - servedPos > Far \/ servedPos - p > Far)

Jumps(r) ==
  /\ At(r, "jump")
  /\ IF IsJump(request[r].pos)
     THEN lastReadPiece' = request[r].pos /\ Goes(r, "land")
     ELSE Goes(r, "read") /\ UNCHANGED lastReadPiece
  /\ UNCHANGED <<running, newest, servedPos, torrentVars>>

\* jumpTo: what lies before the piece is not wanted any more.
Lands(r) ==
  /\ At(r, "land") /\ Goes(r, "aim")
  /\ wanted' = (request[r].pos..Last) \ have
  /\ UNCHANGED <<serverVars, readaheadFrom, have>>

Aims(r) == At(r, "aim") /\ Ahead(request[r].pos) /\ Goes(r, "read") /\ UNCHANGED serverVars

\* streamRange ends: at the end of what was asked for, or with the server.
Ends(r) ==
  /\ At(r, "read") /\ (request[r].pos > Last \/ ~running)
  /\ Goes(r, "closed")
  /\ UNCHANGED <<serverVars, torrentVars>>

Resets(r) == request' = [request EXCEPT ![r] = [NoRequest EXCEPT !.at = "reset"]]

Superseded(r) ==
  /\ At(r, "read") /\ request[r].pos <= Last /\ running /\ newest # r
  /\ Resets(r) /\ UNCHANGED <<serverVars, torrentVars>>

\* waitForBytes: in a new piece, the window moves along.
Reads(r) ==
  /\ At(r, "read") /\ request[r].pos <= Last /\ running /\ newest = r
  /\ IF request[r].pos # lastReadPiece
     THEN lastReadPiece' = request[r].pos /\ Goes(r, "ahead")
     ELSE /\ request' = [request EXCEPT ![r].at = "wait", ![r].told = FALSE]
          /\ UNCHANGED lastReadPiece
  /\ UNCHANGED <<running, newest, servedPos, torrentVars>>

MovesAlong(r) ==
  /\ At(r, "ahead")
  /\ request' = [request EXCEPT ![r].at = "wait", ![r].told = FALSE]
  /\ IF request[r].pos = readaheadFrom THEN UNCHANGED torrentVars ELSE Ahead(request[r].pos)
  /\ UNCHANGED serverVars

\* The wait is over: for a newer request, a seek, the end of the server, ...
Quits(r) ==
  /\ At(r, "wait") /\ (newest # r \/ request[r].told \/ ~running)
  /\ Resets(r) /\ UNCHANGED <<serverVars, torrentVars>>

\* ... or because the piece took more than 120 s.
GivesUp(r) ==
  /\ At(r, "wait") /\ request[r].pos \notin have
  /\ Resets(r) /\ UNCHANGED <<serverVars, torrentVars>>

Finds(r) ==
  /\ At(r, "wait") /\ newest = r /\ ~request[r].told /\ running /\ request[r].pos \in have
  /\ Goes(r, "send") /\ UNCHANGED <<serverVars, torrentVars>>

\* Mutant: it relies on the window.
OnlyPolls(r) == FALSE

\* The player is blocked on this piece: every 2 s it becomes the most urgent one.
Urges(r) ==
  /\ At(r, "wait") /\ newest = r /\ ~request[r].told /\ running /\ request[r].pos \notin have
  /\ wanted' = wanted \cup {request[r].pos}
  /\ UNCHANGED <<serverVars, request, readaheadFrom, have>>

\* Blocks while the player takes nothing.
Sends(r) ==
  /\ At(r, "send") /\ ~(paused /\ Current(r))
  /\ request' = [request EXCEPT ![r].at = "read", ![r].pos = @ + 1]
  /\ servedPos' = IF request[r].tail THEN servedPos ELSE request[r].pos + 1
  /\ UNCHANGED <<running, newest, lastReadPiece, torrentVars>>

SendFails(r) ==
  /\ At(r, "send") /\ ~Current(r)
  /\ Resets(r) /\ UNCHANGED <<serverVars, torrentVars>>

\* What the thread of a request does whenever it can.
Work(r) ==
  \/ Numbered(r) \/ Jumps(r) \/ Lands(r) \/ Aims(r) \/ Ends(r) \/ Superseded(r)
  \/ Reads(r) \/ MovesAlong(r) \/ Quits(r) \/ Finds(r) \/ Urges(r) \/ Sends(r)

\* stop: the torrent leaves the session, and nothing that is told about it has an effect.
Stops ==
  /\ running /\ running' = FALSE
  /\ have' = {} /\ wanted' = {} /\ seeks' = 0 /\ moving' = None
  /\ UNCHANGED <<newest, lastReadPiece, servedPos, opening, request, paused, readaheadFrom>>

\* 20 s have passed (told only when it makes a difference).
IndexRead ==
  /\ opening /\ opening' = FALSE
  /\ \E r \in Requests : At(r, "sent") /\ request[r].pos > Last - Index
  /\ UNCHANGED <<serverVars, request, paused, serviceVars, torrentVars>>

-----------------------------------------------------------------------------
(* TorrentService *)

\* abortWaiting: what waits gives up, unless the whole file is there.
HandleSeek ==
  /\ running /\ moving = None /\ seeks > 0 /\ seeks' = seeks - 1
  /\ request' = [r \in Requests |->
       IF have # Pieces /\ At(r, "wait") THEN [request[r] EXCEPT !.told = TRUE] ELSE request[r]]
  /\ UNCHANGED <<serverVars, opening, paused, moving, torrentVars>>

\* seekTo, not aggressive: the player buffers, and the window is asked for again.
HandleSoft ==
  /\ running /\ moving = None /\ ~paused /\ (\E r \in Requests : Stuck(r))
  /\ moving' = readaheadFrom
  /\ UNCHANGED <<serverVars, opening, request, paused, seeks, torrentVars>>

\* fillWhilePaused, every 3 s
Missing == {p \in Pieces : p >= readaheadFrom /\ p \notin have}

\* Mutant: what is there already is not skipped.
FillHere ==
  /\ running /\ paused /\ moving = None /\ Missing # {}
  /\ moving' = readaheadFrom
  /\ UNCHANGED <<serverVars, opening, request, paused, seeks, torrentVars>>

Fill ==
  /\ running /\ paused /\ moving = None /\ Missing # {}
  /\ moving' = CHOOSE p \in Missing : \A q \in Missing : p <= q
  /\ UNCHANGED <<serverVars, opening, request, paused, seeks, torrentVars>>

Moves ==
  /\ running /\ moving # None /\ moving' = None /\ Ahead(moving)
  /\ UNCHANGED <<serverVars, opening, request, paused, seeks>>

ServiceStep == HandleSeek \/ Fill \/ Moves

\* The swarm
Arrives(p) ==
  /\ running /\ p \in wanted /\ wanted' = wanted \ {p} /\ have' = have \cup {p}
  /\ UNCHANGED <<serverVars, opening, request, paused, serviceVars, readaheadFrom>>

Next ==
  \/ \E p \in Pieces : Opens(p) \/ Seeks(p) \/ Arrives(p)
  \/ Pauses \/ Stops \/ IndexRead \/ HandleSoft \/ ServiceStep
  \/ \E r \in Requests : Thread(r, Work(r) \/ GivesUp(r) \/ SendFails(r))

\* Threads go on, and the swarm has what is wanted for long enough.
Fairness ==
  /\ \A r \in Requests : WF_vars(Thread(r, Work(r)))
  /\ WF_vars(ServiceStep)
  /\ \A p \in Pieces : WF_vars(Arrives(p))

Spec == Init /\ [][Next]_vars /\ Fairness

-----------------------------------------------------------------------------
\* However requests, seeks and moves of the window fall together, a request is answered to
\* the end of the file or reset, unless the player pauses or the server is stopped: its
\* thread never waits for a piece that nobody fetches (waitForBytes), and it does not end
\* early like an end of file ("a false ended", handleClient).
EveryRequestEnds ==
  \A r \in Requests :
    At(r, "sent") ~> (\/ At(r, "closed") /\ request[r].pos > Last
                      \/ At(r, "reset") \/ paused \/ ~running)

\* While the player is paused, all that comes after its reading arrives, unless an older
\* request has moved the window past it or is about to (fillWhilePaused).
WindowBehind(r) ==
  /\ readaheadFrom <= request[r].pos /\ (moving = None \/ moving <= request[r].pos)
  /\ \A q \in 1..(r - 1) : request[q].at \notin {"sent", "jump", "land", "aim", "ahead"}

PausedFills ==
  \A r \in Requests :
    (paused /\ newest = r /\ Current(r) /\ At(r, "send") /\ WindowBehind(r))
      ~> (request[r].pos..Last \subseteq have \/ ~paused \/ ~running \/ ~Current(r))
=============================================================================
