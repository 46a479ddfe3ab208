-------------------------- MODULE TorrentSessionProofs --------------------------
(* Proofs about TorrentSession, for any number of players and of troubles. The  *)
(* invariant says what each start and each message may still do: a player asks  *)
(* for one start (Once), one start at most goes on without being cancelled      *)
(* (OneRun), what it serves is its own (Own, Fresh), a player that waits is     *)
(* waited for by nothing that would stop its torrent (Kept), and who started    *)
(* something is still there to stop it (Sends, Clean, Answered, Wiped). One     *)
(* player at most is on screen (OneOnScreen).                                   *)
EXTENDS TorrentSession, TLAPS

StartIn(s, p) == \E i \in DOMAIN s : s[i].what = "START" /\ s[i].of = p
OneStart(s) == \A i, j \in DOMAIN s :
  s[i].what = "START" /\ s[j].what = "START" /\ s[i].of = s[j].of => i = j
LastOf(s) == s[Len(s)]
ReplyIn(s, p) == \E i \in DOMAIN s : s[i].of = p
ReadyIn(s, p) == \E i \in DOMAIN s : s[i].of = p /\ s[i].what = "READY"

\* A start that was not cancelled goes on.
Active(p) == run[p].pc \notin {"none", "end"} /\ ~run[p].cancelled

\* A player that will stop what it started.
Responsible(p) == player[p].screen \in {"shown", "leaving"} /\ Stops(p)
NoOne == \A p \in Players : ~Responsible(p)

\* One call of start() sends one START, and nothing of it is there before. A crash makes the
\* binding send it again.
OnceBy(p) ==
  /\ player[p].screen = "none" =>
       /\ player[p].call = "idle" /\ player[p].answer = "none"
       /\ ~player[p].handedOff /\ conn[p] = "none"
  /\ player[p].call \in {"stop", "bind"} => conn[p] = "none" /\ player[p].answer = "none"
  /\ player[p].call \in {"stop", "bind"} \/ conn[p] = "pending" \/ player[p].screen = "none"
       => run[p].pc = "none" /\ ~StartIn(inbox, p)
  /\ StartIn(inbox, p) => run[p].pc = "none"
  /\ run[p].pc = "none" => torrent[p] = "none" /\ p \notin listening
  /\ conn[p] # "none" \/ player[p].call # "idle" \/ StartIn(inbox, p) \/ run[p].pc # "none"
       => Magnet(p) \in Magnets
  /\ ReplyIn(outbox, p) => run[p].pc = "end"

Once == OneStart(inbox) /\ \A p \in Players : OnceBy(p)

OneRun == \A p \in Players : Active(p) => p = job

\* Nothing is alive but the torrent of p.
OnlyOf(p) == \A h \in Players : Alive(h) => h = p

\* Who has something started is there to stop it: nobody else was bound to the service, and no
\* torrent was handed over to a player that has none.
Owned == late \subseteq {"call", "wipe"}

\* And pieces were not wiped too early.
WipedInTime == late \subseteq {"call"}

\* What is late stays so.
LEMMA LateGrows ==
  ASSUME late \subseteq late'
  PROVE  /\ Orderly' => Orderly /\ "run" \notin late'
         /\ Owned' => Owned /\ Orderly'
         /\ WipedInTime' => WipedInTime /\ Owned'
  BY DEF Orderly, Owned, WipedInTime

LEMMA InOrder == (Owned => Orderly) /\ (WipedInTime => Owned)
  BY DEF Orderly, Owned, WipedInTime

\* A server serves the torrent of its own start, and no other one is left.
Own == Orderly =>
  /\ listening \subseteq {engine.server}
  /\ \A p \in listening : run[p].file = p /\ run[p].pc \in {"done", "end"} /\ OnlyOf(p)

\* A start that goes on has removed what was there before it.
Fresh == Orderly => \A p \in Players : Active(p) =>
  /\ run[p].pc = "add" => \A h \in Players : ~Alive(h)
  /\ run[p].pc \in {"meta", "settle", "fill", "serve"} => OnlyOf(p)
  /\ run[p].pc \in {"add", "meta", "settle", "fill", "serve"} => listening = {}
  /\ run[p].pc \in {"fill", "serve"} => run[p].file = p

\* The START of p is still to come, and nothing is sent after it.
Waits(p) ==
  /\ player[p].answer # "url"
  /\ \/ conn[p] = "pending"
     \/ inbox # <<>> /\ LastOf(inbox).what = "START" /\ LastOf(inbox).of = p

\* The start of p goes on or is through, and nothing was sent after it.
Served(p) ==
  /\ inbox = <<>> /\ job = p /\ run[p].pc # "none" /\ ~run[p].cancelled
  /\ run[p].pc \in {"meta", "settle", "fill", "serve", "done"} => Alive(p)
  /\ run[p].pc = "done" => p \in listening
  /\ player[p].answer = "url" => run[p].pc = "end"
  /\ ReadyIn(outbox, p) \/ player[p].answer = "url" => Alive(p) /\ p \in listening

KeptBy(p) == player[p].call = "wait" \/ player[p].answer = "url" => Waits(p) \/ Served(p)

Kept == Orderly => \A p \in Shown \ upset : KeptBy(p)

\* The client has a messenger if and only if its last message was a START.
Sends == inbox # <<>> => (messenger <=> LastOf(inbox).what = "START")

\* After a STOP there is nothing.
Clean == Orderly /\ ~messenger /\ inbox = <<>> =>
  \A p \in Players : ~Alive(p) /\ p \notin listening /\ ~Active(p)

\* Who has a START sent is there to send a STOP.
Answered == Owned /\ messenger => ~NoOne

\* When nobody is left, pieces are only there until the STOP that deletes them.
Wiped == WipedInTime /\ wipes /\ NoOne =>
  /\ \A m \in disk : \E h \in Players : Alive(h) /\ Magnet(h) = m
  /\ inbox # <<>> => LastOf(inbox).delete

EngineInv == OneRun /\ Own /\ Fresh
StopInv == Sends /\ Clean /\ Answered /\ Wiped
SessionInv == TypeOK /\ Once /\ EngineInv /\ Kept /\ StopInv

-----------------------------------------------------------------------------
(* Messages and replies *)

LEMMA StopIsAppended ==
  ASSUME NEW s \in Seq(Message), NEW delete \in BOOLEAN
  PROVE  LET t == Append(s, [what |-> "STOP", of |-> None, delete |-> delete]) IN
         /\ t \in Seq(Message) /\ t # <<>>
         /\ LastOf(t) = [what |-> "STOP", of |-> None, delete |-> delete]
         /\ \A p \in Players : StartIn(t, p) <=> StartIn(s, p)
         /\ OneStart(s) => OneStart(t)
<1> DEFINE m == [what |-> "STOP", of |-> None, delete |-> delete]
           t == Append(s, m)
<1>1. m \in Message /\ m.what = "STOP"
  BY DEF Message
<1> HIDE DEF m
<1>2. /\ t \in Seq(Message) /\ Len(t) = Len(s) + 1 /\ Len(s) \in Nat
      /\ \A i \in 1..Len(s) : t[i] = s[i]
      /\ t[Len(s) + 1] = m /\ DOMAIN t = 1..(Len(s) + 1) /\ DOMAIN s = 1..Len(s)
  BY <1>1
<1> HIDE DEF t
<1>3. \A p \in Players : StartIn(t, p) <=> StartIn(s, p)
  <2> SUFFICES ASSUME NEW p \in Players
               PROVE  StartIn(t, p) <=> StartIn(s, p)
    OBVIOUS
  <2>1. ASSUME NEW i \in DOMAIN t, t[i].what = "START"
        PROVE  i \in DOMAIN s /\ s[i] = t[i]
    BY <1>1, <1>2, <2>1
  <2>2. \A i \in DOMAIN s : i \in DOMAIN t /\ s[i] = t[i]
    BY <1>2
  <2> QED BY <2>1, <2>2 DEF StartIn
<1>4. OneStart(s) => OneStart(t)
  <2>1. ASSUME NEW i \in DOMAIN t, t[i].what = "START"
        PROVE  i \in DOMAIN s /\ s[i] = t[i]
    BY <1>1, <1>2, <2>1
  <2> QED BY <2>1 DEF OneStart
<1>5. t # <<>> /\ LastOf(t) = m
  BY <1>2 DEF LastOf
<1> QED BY <1>2, <1>3, <1>4, <1>5 DEF m, t

LEMMA StartIsAppended ==
  ASSUME NEW s \in Seq(Message), NEW p \in Players
  PROVE  LET t == Append(s, [what |-> "START", of |-> p, delete |-> FALSE]) IN
         /\ t \in Seq(Message) /\ t # <<>>
         /\ LastOf(t) = [what |-> "START", of |-> p, delete |-> FALSE]
         /\ \A q \in Players : StartIn(t, q) <=> (StartIn(s, q) \/ q = p)
         /\ OneStart(s) /\ ~StartIn(s, p) => OneStart(t)
<1> DEFINE m == [what |-> "START", of |-> p, delete |-> FALSE]
           t == Append(s, m)
<1>1. m \in Message /\ m.what = "START" /\ m.of = p
  BY DEF Message
<1> HIDE DEF m
<1>2. /\ t \in Seq(Message) /\ Len(t) = Len(s) + 1 /\ Len(s) \in Nat
      /\ \A i \in 1..Len(s) : t[i] = s[i]
      /\ t[Len(s) + 1] = m /\ DOMAIN t = 1..(Len(s) + 1) /\ DOMAIN s = 1..Len(s)
  BY <1>1
<1> HIDE DEF t
<1>3. \A i \in DOMAIN t : (i \in DOMAIN s /\ s[i] = t[i]) \/ (i = Len(s) + 1 /\ t[i] = m)
  BY <1>2
<1>4. \A i \in DOMAIN s : i \in DOMAIN t /\ s[i] = t[i]
  BY <1>2
<1>5. \A q \in Players : StartIn(t, q) <=> (StartIn(s, q) \/ q = p)
  <2> SUFFICES ASSUME NEW q \in Players
               PROVE  StartIn(t, q) <=> (StartIn(s, q) \/ q = p)
    OBVIOUS
  <2>1. Len(s) + 1 \in DOMAIN t
    BY <1>2
  <2> QED BY <1>1, <1>2, <1>3, <1>4, <2>1 DEF StartIn
<1>6. OneStart(s) /\ ~StartIn(s, p) => OneStart(t)
  BY <1>1, <1>3 DEF OneStart, StartIn
<1>7. t # <<>> /\ LastOf(t) = m
  BY <1>2 DEF LastOf
<1> QED BY <1>2, <1>5, <1>6, <1>7 DEF m, t

LEMMA HeadIsTaken ==
  ASSUME NEW s \in Seq(Message), s # <<>>
  PROVE  /\ Head(s) \in Message /\ Tail(s) \in Seq(Message)
         /\ \A p \in Players : StartIn(Tail(s), p) => StartIn(s, p)
         /\ OneStart(s) => OneStart(Tail(s))
         /\ Head(s).what = "START" => StartIn(s, Head(s).of)
         /\ OneStart(s) /\ Head(s).what = "START" => ~StartIn(Tail(s), Head(s).of)
         /\ Tail(s) # <<>> => LastOf(Tail(s)) = LastOf(s)
         /\ Tail(s) = <<>> => LastOf(s) = Head(s)
<1> DEFINE t == Tail(s)
<1>1. /\ Len(s) \in Nat \ {0} /\ DOMAIN s = 1..Len(s) /\ Head(s) = s[1] /\ Head(s) \in Message
      /\ t \in Seq(Message) /\ Len(t) = Len(s) - 1 /\ DOMAIN t = 1..(Len(s) - 1)
      /\ \A i \in 1..(Len(s) - 1) : t[i] = s[i + 1]
  OBVIOUS
<1> HIDE DEF t
<1>2. \A i \in DOMAIN t : i + 1 \in DOMAIN s /\ t[i] = s[i + 1] /\ i + 1 # 1
  BY <1>1
<1>3. 1 \in DOMAIN s
  BY <1>1
<1>4. \A p \in Players : StartIn(t, p) => StartIn(s, p)
  BY <1>2 DEF StartIn
<1>5. OneStart(s) => OneStart(t)
  <2>1. \A i, j \in DOMAIN t : i + 1 = j + 1 => i = j
    BY <1>1
  <2> QED BY <1>2, <2>1 DEF OneStart
<1>6. Head(s).what = "START" => StartIn(s, Head(s).of)
  BY <1>1, <1>3 DEF StartIn
<1>7. OneStart(s) /\ Head(s).what = "START" => ~StartIn(t, Head(s).of)
  BY <1>1, <1>2, <1>3 DEF StartIn, OneStart
<1>8. t # <<>> => LastOf(t) = LastOf(s)
  <2>1. t # <<>> => Len(t) # 0
    BY <1>1
  <2> QED BY <1>1, <2>1 DEF LastOf
<1>9. t = <<>> => LastOf(s) = Head(s)
  <2> SUFFICES ASSUME t = <<>>
               PROVE  LastOf(s) = Head(s)
    OBVIOUS
  <2>1. 1..(Len(s) - 1) = {}
    <3>1. DOMAIN t = {}
      OBVIOUS
    <3> QED BY <1>1, <3>1
  <2>2. Len(s) = 1
    <3>1. \A n \in Nat \ {0} : n # 1 => 1 \in 1..(n - 1)
      OBVIOUS
    <3> QED BY <1>1, <2>1, <3>1
  <2> QED BY <1>1, <2>2 DEF LastOf
<1> QED BY <1>1, <1>4, <1>5, <1>6, <1>7, <1>8, <1>9 DEF t

\* A last message that deletes is one that deletes.
LEMMA LastDeletes ==
  ASSUME NEW s \in Seq(Message), s # <<>>, LastOf(s).delete
  PROVE  Deletes(s)
<1>1. Len(s) \in DOMAIN s
  OBVIOUS
<1> QED BY <1>1 DEF Deletes, LastOf

LEMMA ReplyIsAppended ==
  ASSUME NEW s \in Seq(Reply), NEW what \in {"READY", "ERROR"}, NEW p \in Players
  PROVE  LET t == Append(s, [what |-> what, of |-> p]) IN
         /\ t \in Seq(Reply)
         /\ \A q \in Players : ReplyIn(t, q) => ReplyIn(s, q) \/ q = p
         /\ \A q \in Players : ReadyIn(t, q) => ReadyIn(s, q) \/ (q = p /\ what = "READY")
<1> DEFINE m == [what |-> what, of |-> p]
           t == Append(s, m)
<1>1. m \in Reply /\ m.what = what /\ m.of = p
  BY DEF Reply
<1> HIDE DEF m
<1>2. /\ t \in Seq(Reply) /\ Len(s) \in Nat
      /\ \A i \in 1..Len(s) : t[i] = s[i]
      /\ t[Len(s) + 1] = m /\ DOMAIN t = 1..(Len(s) + 1) /\ DOMAIN s = 1..Len(s)
  BY <1>1
<1> HIDE DEF t
<1>3. \A i \in DOMAIN t : (i \in DOMAIN s /\ s[i] = t[i]) \/ t[i] = m
  BY <1>2
<1> QED BY <1>1, <1>2, <1>3 DEF ReplyIn, ReadyIn, m, t

LEMMA ReplyIsTaken ==
  ASSUME NEW s \in Seq(Reply), s # <<>>
  PROVE  /\ Head(s) \in Reply /\ Tail(s) \in Seq(Reply)
         /\ ReplyIn(s, Head(s).of) /\ (Head(s).what = "READY" => ReadyIn(s, Head(s).of))
         /\ \A q \in Players : ReplyIn(Tail(s), q) => ReplyIn(s, q)
         /\ \A q \in Players : ReadyIn(Tail(s), q) => ReadyIn(s, q)
<1>1. /\ Len(s) \in Nat \ {0} /\ DOMAIN s = 1..Len(s) /\ Head(s) = s[1] /\ Head(s) \in Reply
      /\ Tail(s) \in Seq(Reply) /\ DOMAIN Tail(s) = 1..(Len(s) - 1)
      /\ \A i \in 1..(Len(s) - 1) : Tail(s)[i] = s[i + 1]
  OBVIOUS
<1>2. \A i \in DOMAIN Tail(s) : i + 1 \in DOMAIN s /\ Tail(s)[i] = s[i + 1]
  BY <1>1
<1>3. 1 \in DOMAIN s
  BY <1>1
<1> QED BY <1>1, <1>2, <1>3 DEF ReplyIn, ReadyIn

LEMMA NothingIn ==
  /\ \A p \in Players : ~StartIn(<<>>, p) /\ ~ReplyIn(<<>>, p) /\ ~ReadyIn(<<>>, p)
  /\ OneStart(<<>>)
  BY DEF StartIn, ReplyIn, ReadyIn, OneStart

-----------------------------------------------------------------------------
(* What the parts of a step do *)

PlayerType == [screen : Screens, magnet : Magnets \cup {Direct, None}, call : Calls,
               answer : Answers, next : BOOLEAN, handedOff : BOOLEAN]
RunType == [pc : RunPlaces, cancelled : BOOLEAN, file : Players \cup {None}]
EngineType == [handle : Players \cup {None}, hash : Magnets \cup {None},
               latch : BOOLEAN, server : Players \cup {None}]

LEMMA NamesAre ==
  /\ None \notin Players /\ Direct \notin Players /\ Direct # None
  /\ Magnets = Players /\ None \notin Magnets /\ Direct \notin Magnets
  BY SessionAssumption DEF Magnets

LEMMA TypesAre ==
  ASSUME TypeOK
  PROVE  /\ player \in [Players -> PlayerType] /\ conn \in [Players -> {"none", "pending", "up"}]
         /\ connRef \in Players \cup {None} /\ messenger \in BOOLEAN
         /\ inbox \in Seq(Message) /\ outbox \in Seq(Reply) /\ alerts \in Seq(Alert)
         /\ job \in Players \cup {None} /\ run \in [Players -> RunType]
         /\ torrent \in [Players -> TorrentStates] /\ engine \in EngineType
         /\ listening \subseteq Players /\ disk \subseteq Magnets /\ upset \subseteq Players
         /\ wipes \in BOOLEAN /\ troubles \in 0..MaxTroubles /\ late \subseteq Late
  BY DEF TypeOK, PlayerType, RunType, EngineType

LEMMA TypesMake ==
  ASSUME player' \in [Players -> PlayerType], conn' \in [Players -> {"none", "pending", "up"}],
         connRef' \in Players \cup {None}, messenger' \in BOOLEAN,
         inbox' \in Seq(Message), outbox' \in Seq(Reply), alerts' \in Seq(Alert),
         job' \in Players \cup {None}, run' \in [Players -> RunType],
         torrent' \in [Players -> TorrentStates], engine' \in EngineType,
         listening' \subseteq Players, disk' \subseteq Magnets, upset' \subseteq Players,
         wipes' \in BOOLEAN, troubles' \in 0..MaxTroubles, late' \subseteq Late
  PROVE  TypeOK'
  BY DEF TypeOK, PlayerType, RunType, EngineType

LEMMA ClientStopDoes ==
  ASSUME TypeOK, NEW delete \in BOOLEAN, ClientStop(delete)
  PROVE  /\ inbox' \in Seq(Message) /\ conn' \in [Players -> {"none", "pending", "up"}]
         /\ connRef' = None /\ messenger' \in BOOLEAN /\ ~messenger'
         /\ \A p \in Players : conn'[p] \in {conn[p], "none"}
         /\ \A p \in Players : StartIn(inbox', p) <=> StartIn(inbox, p)
         /\ OneStart(inbox) => OneStart(inbox')
         /\ messenger => /\ inbox' # <<>>
                         /\ LastOf(inbox') = [what |-> "STOP", of |-> None, delete |-> delete]
         /\ ~messenger => inbox' = inbox
<1>1. conn' \in [Players -> {"none", "pending", "up"}] /\ \A p \in Players : conn'[p] \in {conn[p], "none"}
  BY TypesAre DEF ClientStop
<1>2. CASE messenger
  <2> DEFINE m == [what |-> "STOP", of |-> None, delete |-> delete]
             t == Append(inbox, m)
  <2>1. /\ t \in Seq(Message) /\ t # <<>> /\ LastOf(t) = m
        /\ \A p \in Players : StartIn(t, p) <=> StartIn(inbox, p)
        /\ OneStart(inbox) => OneStart(t)
    BY TypesAre, StopIsAppended
  <2>2. inbox' = t /\ connRef' = None /\ messenger' = FALSE
    BY <1>2 DEF ClientStop
  <2> HIDE DEF t
  <2> QED BY <1>1, <1>2, <2>1, <2>2
<1>3. CASE ~messenger
  BY <1>1, <1>3, TypesAre DEF ClientStop
<1> QED BY <1>2, <1>3

LEMMA NoEngineIs == NoEngine \in EngineType /\ NoEngine.server = None
  BY DEF NoEngine, EngineType

LEMMA EngineStopDoes ==
  ASSUME TypeOK, NEW delete, EngineStop(delete)
  PROVE  /\ engine' \in EngineType /\ torrent' \in [Players -> TorrentStates]
         /\ alerts' \in Seq(Alert) /\ listening' \subseteq Players /\ disk' \subseteq Magnets
         /\ listening' \subseteq listening
         /\ listening \subseteq {engine.server} => listening' = {}
         /\ \A p \in Players : Alive(p)' => Alive(p) /\ p # engine.handle
         /\ \A p \in Players : torrent'[p] = "none" <=> torrent[p] = "none"
         /\ disk' \subseteq disk
         /\ delete /\ Alive(engine.handle) => Magnet(engine.handle) \notin disk'
<1>1. /\ engine' \in EngineType /\ listening' \subseteq Players /\ listening' \subseteq listening
      /\ listening \subseteq {engine.server} => listening' = {}
  BY TypesAre, NoEngineIs DEF EngineStop
<1> DEFINE h == engine.handle
<1>2. CASE Alive(h)
  <2>1. h \in Players /\ torrent[h] \in {"magnet", "info"}
    BY <1>2, TypesAre DEF Alive, EngineType
  <2>2. torrent' = [torrent EXCEPT ![h] = "removed"]
    BY <1>2 DEF EngineStop
  <2>3. torrent' \in [Players -> TorrentStates]
        /\ \A p \in Players : torrent'[p] = IF p = h THEN "removed" ELSE torrent[p]
    BY <2>2, TypesAre DEF TorrentStates
  <2>4. alerts' \in Seq(Alert)
    <3>1. alerts' = Append(alerts, [what |-> "TORRENT_REMOVED", of |-> h])
      BY <1>2 DEF EngineStop
    <3>2. [what |-> "TORRENT_REMOVED", of |-> h] \in Alert
      BY <2>1 DEF Alert
    <3> QED BY <3>1, <3>2, TypesAre
  <2>5. disk' = IF delete THEN disk \ {Magnet(h)} ELSE disk
    BY <1>2 DEF EngineStop
  <2>6. disk' \subseteq Magnets /\ disk' \subseteq disk /\ (delete => Magnet(h) \notin disk')
    BY <2>5, TypesAre
  <2>7. \A p \in Players : Alive(p)' => Alive(p) /\ p # h
    BY <2>3 DEF Alive
  <2>8. \A p \in Players : torrent'[p] = "none" <=> torrent[p] = "none"
    BY <2>1, <2>3
  <2> QED BY <1>1, <2>3, <2>4, <2>6, <2>7, <2>8
<1>3. CASE ~Alive(h)
  <2>1. UNCHANGED <<torrent, alerts, disk>>
    BY <1>3 DEF EngineStop
  <2> QED BY <1>1, <1>3, <2>1, TypesAre DEF Alive
<1> QED BY <1>2, <1>3

LEMMA LiveHandleIs ==
  ASSUME TypeOK
  PROVE  /\ LiveHandle \in Players \cup {None}
         /\ LiveHandle # None => Alive(LiveHandle)
<1>1. Find(engine.hash) \subseteq Players /\ \A p \in Find(engine.hash) : Alive(p)
  BY DEF Find
<1>2. engine.handle \in Players \cup {None}
  BY TypesAre DEF EngineType
<1> QED BY <1>1, <1>2 DEF LiveHandle

LEMMA RememberedIs ==
  ASSUME TypeOK, Once
  PROVE  Remembered \in EngineType /\ Remembered.server = engine.server
<1>1. engine \in EngineType
  BY TypesAre
<1>2. CASE LiveHandle = None
  BY <1>1, <1>2 DEF Remembered
<1>3. CASE LiveHandle # None
  <2>1. LiveHandle \in Players /\ Alive(LiveHandle)
    BY <1>3, LiveHandleIs
  <2>2. Magnet(LiveHandle) \in Magnets
    <3>1. torrent[LiveHandle] # "none"
      BY <2>1 DEF Alive
    <3>2. OnceBy(LiveHandle)
      BY <2>1 DEF Once
    <3> QED BY <3>1, <3>2 DEF OnceBy
  <2>3. Remembered = [engine EXCEPT !.handle = LiveHandle, !.hash = Magnet(LiveHandle)]
    BY <1>3 DEF Remembered
  <2> HIDE DEF Magnet
  <2> QED BY <1>1, <2>1, <2>2, <2>3 DEF EngineType
<1> QED BY <1>2, <1>3

LEMMA AnswerDoes ==
  ASSUME TypeOK, NEW p \in Players, NEW what \in {"READY", "ERROR"}, Answer(p, what)
  PROVE  /\ outbox' \in Seq(Reply)
         /\ \A q \in Players : ReplyIn(outbox', q) => ReplyIn(outbox, q) \/ q = p
         /\ \A q \in Players : ReadyIn(outbox', q) => ReadyIn(outbox, q) \/ (q = p /\ what = "READY")
         /\ UNCHANGED <<player, conn, connRef, messenger, upset>>
<1>1. outbox \in Seq(Reply)
  BY TypesAre
<1>2. outbox' = Append(outbox, [what |-> what, of |-> p]) \/ outbox' = outbox
  BY DEF Answer
<1> QED BY <1>1, <1>2, ReplyIsAppended DEF Answer

LEMMA ToDoes ==
  ASSUME TypeOK, NEW p \in Players, NEW pc \in RunPlaces, To(p, pc)
  PROVE  /\ run' \in [Players -> RunType]
         /\ \A q \in Players : q # p => run'[q] = run[q]
         /\ run'[p].pc = pc /\ (run'[p].cancelled = run[p].cancelled) /\ run'[p].file = run[p].file
<1>1. run \in [Players -> RunType]
  BY TypesAre
<1> QED BY <1>1 DEF To, RunType

-----------------------------------------------------------------------------
(* A step of a start *)

\* What its steps have in common.
Ran(p) ==
  /\ run[p].pc \notin {"none", "end"}
  /\ UNCHANGED <<player, conn, connRef, messenger, upset, inbox, job, wipes, troubles>>
  /\ run' \in [Players -> RunType] /\ \A q \in Players : q # p => run'[q] = run[q]
  /\ run'[p].pc # "none" /\ (run'[p].cancelled = run[p].cancelled)
  /\ \A q \in Players : q # p /\ torrent[q] = "none" => torrent'[q] = "none"
  /\ listening' \subseteq listening \cup {p}
  /\ outbox' \in Seq(Reply)
  /\ \A q \in Players : ReplyIn(outbox', q) => ReplyIn(outbox, q) \/ (q = p /\ run'[p].pc = "end")
  /\ \A q \in Players : ReadyIn(outbox', q) =>
       ReadyIn(outbox, q) \/ (q = p /\ run[p].pc = "done" /\ ~run[p].cancelled)

\* Where it waits or ends, it leaves libtorrent and the servers alone.
Idled == UNCHANGED <<torrent, listening, disk, late>> /\ engine'.server = engine.server

LEMMA MovesOn ==
  ASSUME TypeOK, NEW p \in Players, NEW pc \in RunPlaces \ {"none"}, To(p, pc),
         run[p].pc \notin {"none", "end"},
         UNCHANGED uiVars, RunKeeps, listening' \subseteq listening \cup {p},
         \A q \in Players : q # p /\ torrent[q] = "none" => torrent'[q] = "none"
  PROVE  Ran(p)
  BY ToDoes, TypesAre DEF Ran, uiVars, RunKeeps

LEMMA Ends ==
  ASSUME TypeOK, NEW p \in Players, To(p, "end"), run[p].pc \notin {"none", "end"},
         NEW what \in {"READY", "ERROR"}, Answer(p, what), RunKeeps, listening' \subseteq listening,
         what = "READY" => run[p].pc = "done" /\ ~run[p].cancelled,
         \A q \in Players : torrent[q] = "none" => torrent'[q] = "none"
  PROVE  Ran(p)
<1>1. "end" \in RunPlaces
  BY DEF RunPlaces
<1> QED BY <1>1, ToDoes, AnswerDoes DEF Ran, RunKeeps

LEMMA LateStopIs ==
  ASSUME TypeOK, NEW cancelled, NEW messages
  PROVE  LateStop(cancelled, messages) \subseteq Late
  BY TypesAre DEF LateStop, Late

LEMMA RunStepRan ==
  ASSUME SessionInv, NEW p \in Players, RunStep(p)
  PROVE  Ran(p) /\ TypeOK'
<1>0. TypeOK /\ Once
  BY DEF SessionInv
<1>1. /\ run \in [Players -> RunType] /\ engine \in EngineType /\ torrent \in [Players -> TorrentStates]
      /\ alerts \in Seq(Alert) /\ late \subseteq Late
  BY <1>0, TypesAre
\* What is left to show of each step.
<1>2. ASSUME Ran(p), engine' \in EngineType, torrent' \in [Players -> TorrentStates],
             alerts' \in Seq(Alert), disk' \subseteq Magnets, late' \subseteq Late
      PROVE  Ran(p) /\ TypeOK'
  <2>1. listening' \subseteq Players
    BY <1>0, <1>2, TypesAre DEF Ran
  <2>2. /\ player' \in [Players -> PlayerType] /\ conn' \in [Players -> {"none", "pending", "up"}]
        /\ connRef' \in Players \cup {None} /\ messenger' \in BOOLEAN /\ inbox' \in Seq(Message)
        /\ job' \in Players \cup {None} /\ upset' \subseteq Players
        /\ wipes' \in BOOLEAN /\ troubles' \in 0..MaxTroubles
    BY <1>0, <1>2, TypesAre DEF Ran
  <2> QED BY <1>2, <2>1, <2>2, TypesMake DEF Ran
\* A step that only moves on.
<1>3. ASSUME NEW pc \in RunPlaces \ {"none"}, To(p, pc), run[p].pc \notin {"none", "end"}, RunKeeps,
             UNCHANGED <<uiVars, torrent, alerts, listening, disk, late>>, engine' \in EngineType
      PROVE  Ran(p) /\ TypeOK'
  <2>1. Ran(p)
    BY <1>0, <1>3, MovesOn
  <2> QED BY <1>0, <1>2, <1>3, <2>1, TypesAre
<1>4. ASSUME NEW delete, GivesUp(p, delete), run[p].pc \in {"meta", "settle", "fill"}
      PROVE  Ran(p) /\ TypeOK'
  <2>1. EngineStop(delete) /\ To(p, "end") /\ Answer(p, "ERROR") /\ RunKeeps /\ late' = LateStop(FALSE, inbox)
    BY <1>4 DEF GivesUp
  <2>2. Ran(p)
    BY <1>0, <1>4, <2>1, Ends, EngineStopDoes
  <2> QED BY <1>0, <1>2, <2>1, <2>2, EngineStopDoes, LateStopIs
<1>5. CASE Begin(p)
  <2>1. PICK pc \in {"end", "stop"} : To(p, pc)
    BY <1>5 DEF Begin
  <2> QED BY <1>1, <1>3, <1>5, <2>1 DEF Begin, RunPlaces
<1>6. CASE StopFirst(p)
  <2>1. EngineStop(FALSE) /\ To(p, "add") /\ RunKeeps /\ UNCHANGED uiVars /\ run[p].pc = "stop"
        /\ late' = LateStop(run[p].cancelled, inbox)
    BY <1>6 DEF StopFirst
  <2>2. Ran(p)
    BY <1>0, <2>1, MovesOn, EngineStopDoes DEF RunPlaces
  <2> QED BY <1>0, <1>2, <2>1, <2>2, EngineStopDoes, LateStopIs
<1>7. CASE Add(p)
  <2>1. /\ To(p, "meta") /\ RunKeeps /\ UNCHANGED <<uiVars, listening, disk>> /\ run[p].pc = "add"
        /\ engine' = [engine EXCEPT !.latch = FALSE]
        /\ \/ /\ torrent' = [torrent EXCEPT ![p] = "magnet"]
              /\ alerts' = Append(alerts, [what |-> "ADD_TORRENT", of |-> p])
           \/ UNCHANGED <<torrent, alerts>>
    BY <1>7 DEF Add
  <2>2. /\ torrent' \in [Players -> TorrentStates]
        /\ \A q \in Players : q # p /\ torrent[q] = "none" => torrent'[q] = "none"
    BY <1>1, <2>1 DEF TorrentStates
  <2>3. alerts' \in Seq(Alert)
    <3>1. [what |-> "ADD_TORRENT", of |-> p] \in Alert
      BY DEF Alert
    <3> QED BY <1>1, <2>1, <3>1
  <2>4. engine' \in EngineType
    BY <1>1, <2>1 DEF EngineType
  <2>5. Ran(p)
    BY <1>0, <2>1, <2>2, MovesOn DEF RunPlaces
  <2>6. disk' \subseteq Magnets /\ late' \subseteq Late
    BY <1>0, <1>1, <1>7, TypesAre DEF Add, Late
  <2> QED BY <1>2, <2>2, <2>3, <2>4, <2>5, <2>6
<1>8. CASE AddFails(p)
  <2>1. Ran(p)
    BY <1>0, <1>8, Ends DEF AddFails
  <2>2. engine' \in EngineType
    BY <1>1, <1>8 DEF AddFails, EngineType
  <2> QED BY <1>0, <1>2, <1>8, <2>1, <2>2, TypesAre DEF AddFails
<1>9. CASE Cancelled(p)
  <2>1. Ran(p)
    BY <1>0, <1>9, Ends DEF Cancelled
  <2> QED BY <1>0, <1>2, <1>9, <2>1, TypesAre DEF Cancelled
<1>10. CASE SeesMetadata(p)
  BY <1>1, <1>3, <1>10 DEF SeesMetadata, RunPlaces
<1>11. CASE NoMetadata(p)
  BY <1>4, <1>11 DEF NoMetadata
<1>12. CASE ChooseFile(p)
  <2>1. /\ run' = [run EXCEPT ![p].pc = "fill", ![p].file = LiveHandle] /\ run[p].pc = "settle"
        /\ engine' = Remembered /\ UNCHANGED <<uiVars, torrent, alerts, listening, disk, late>> /\ RunKeeps
    BY <1>12 DEF ChooseFile
  <2>2. /\ run' \in [Players -> RunType] /\ \A q \in Players : q # p => run'[q] = run[q]
        /\ run'[p].pc = "fill" /\ (run'[p].cancelled = run[p].cancelled)
    BY <1>0, <1>1, <2>1, LiveHandleIs DEF RunType, RunPlaces
  <2>3. Ran(p)
    BY <1>0, <2>1, <2>2, TypesAre DEF Ran, uiVars, RunKeeps
  <2> QED BY <1>0, <1>2, <2>1, <2>3, RememberedIs, TypesAre
<1>13. CASE NoFile(p)
  BY <1>4, <1>13 DEF NoFile
<1>14. CASE Filled(p)
  BY <1>0, <1>3, <1>14, RememberedIs DEF Filled, RunPlaces
<1>15. CASE NotFilled(p)
  BY <1>1, <1>3, <1>15 DEF NotFilled, RunPlaces
<1>16. CASE NobodySends(p)
  BY <1>4, <1>16 DEF NobodySends
<1>17. CASE Serve(p)
  <2>1. Ran(p)
    BY <1>0, <1>17, MovesOn DEF Serve, RunPlaces
  <2>2. engine' \in EngineType
    BY <1>1, <1>17 DEF Serve, EngineType
  <2>3. late' \subseteq Late
    BY <1>1, <1>17 DEF Serve, Late
  <2> QED BY <1>0, <1>2, <1>17, <2>1, <2>2, <2>3, TypesAre DEF Serve
<1>18. CASE Replies(p)
  <2>1. PICK what \in {"READY", "ERROR"} : /\ Answer(p, what)
                                           /\ what = "READY" => ~run[p].cancelled
    BY <1>18 DEF Replies
  <2>2. Ran(p)
    BY <1>0, <1>18, <2>1, Ends DEF Replies
  <2>3. late' \subseteq Late
    BY <1>1, <1>18 DEF Replies, Late
  <2> QED BY <1>0, <1>2, <1>18, <2>2, <2>3, TypesAre DEF Replies
<1> QED BY <1>5, <1>6, <1>7, <1>8, <1>9, <1>10, <1>11, <1>12, <1>13, <1>14, <1>15, <1>16, <1>17, <1>18
        DEF RunStep

LEMMA RunKeepsOnce ==
  ASSUME SessionInv, NEW p \in Players, Ran(p)
  PROVE  Once'
<1> SUFFICES ASSUME NEW q \in Players
             PROVE  OnceBy(q)'
  BY DEF Once, SessionInv, Ran
<1>1. OnceBy(q) /\ UNCHANGED <<player, conn, inbox>>
  BY DEF Once, SessionInv, Ran
<1>2. run'[q].pc = "none" <=> run[q].pc = "none"
  BY DEF Ran
<1>3. run[q].pc = "none" => q # p /\ torrent'[q] = "none" /\ q \notin listening'
  BY <1>1 DEF Ran, OnceBy
<1>4. ReplyIn(outbox', q) => run'[q].pc = "end"
  BY <1>1 DEF Ran, OnceBy
<1>5. StartIn(inbox', q) <=> StartIn(inbox, q)
  BY <1>1
<1> QED BY <1>1, <1>2, <1>3, <1>4, <1>5 DEF OnceBy, Magnet

\* A start that was cancelled ends, or goes on too late.
LEMMA CancelledEnds ==
  ASSUME TypeOK, NEW p \in Players, RunStep(p), run[p].cancelled, "run" \notin late'
  PROVE  run'[p].pc = "end" /\ Idled
<1>1. run \in [Players -> RunType] /\ "end" \in RunPlaces
  BY TypesAre DEF RunPlaces
<1>2. CASE Begin(p)
  BY <1>1, <1>2, ToDoes DEF Begin, Idled
<1>3. CASE AddFails(p)
  <2>1. engine'.server = engine.server
    BY <1>3, TypesAre DEF AddFails, EngineType
  <2> QED BY <1>1, <1>3, <2>1, ToDoes DEF AddFails, Idled
<1>4. CASE Cancelled(p)
  BY <1>1, <1>4, ToDoes DEF Cancelled, Idled
<1>5. CASE StopFirst(p)
  BY <1>5 DEF StopFirst, LateStop
<1>6. CASE Add(p) \/ Serve(p) \/ Replies(p)
  BY <1>6 DEF Add, Serve, Replies
<1> QED BY <1>2, <1>3, <1>4, <1>5, <1>6
        DEF RunStep, SeesMetadata, NoMetadata, ChooseFile, NoFile, Filled, NotFilled, NobodySends

\* Own is about the torrents, the servers, and the starts that have one.
LEMMA OwnStays ==
  ASSUME Own, late \subseteq late', UNCHANGED listening, engine'.server = engine.server,
         \A h \in Players : Alive(h)' => Alive(h),
         \A q \in listening : run[q].pc \in {"done", "end"} =>
           run'[q].file = run[q].file /\ run'[q].pc \in {"done", "end"}
  PROVE  Own'
  BY LateGrows DEF Own, OnlyOf

LEMMA RunKeepsEngine ==
  ASSUME SessionInv, late \subseteq late', NEW p \in Players, RunStep(p)
  PROVE  EngineInv'
<1>1. TypeOK /\ Once /\ OneRun /\ Own /\ Fresh /\ Ran(p) /\ TypeOK'
  BY RunStepRan DEF SessionInv, EngineInv
<1>2. run \in [Players -> RunType] /\ engine \in EngineType /\ torrent \in [Players -> TorrentStates]
  BY <1>1, TypesAre
<1>3. \A q \in Players : Active(q)' => Active(q)
  BY <1>1 DEF Ran, Active
<1>4. OneRun'
  BY <1>1, <1>3 DEF OneRun, Ran
<1> SUFFICES ASSUME Orderly', Orderly, "run" \notin late'
             PROVE  Own' /\ Fresh'
  BY <1>4, LateGrows DEF EngineInv, Own, Fresh
<1>5. /\ listening \subseteq {engine.server}
      /\ \A q \in listening : run[q].file = q /\ run[q].pc \in {"done", "end"} /\ OnlyOf(q)
  BY <1>1 DEF Own
<1>6. CASE run[p].cancelled
  <2>1. run'[p].pc = "end" /\ UNCHANGED <<torrent, listening>> /\ engine'.server = engine.server
    BY <1>1, <1>6, CancelledEnds DEF Idled
  <2>2. \A q \in Players : q # p => run'[q] = run[q]
    BY <1>1 DEF Ran
  <2>3. p \notin listening \/ run[p].pc = "done"
    BY <1>1, <1>5 DEF Ran
  <2>4. run[p].pc = "done" => FALSE
    BY <1>6, <1>2 DEF RunStep, Begin, StopFirst, Add, AddFails, Cancelled, SeesMetadata, NoMetadata,
       ChooseFile, NoFile, Filled, NotFilled, NobodySends, Serve, Replies
  <2>5. Own'
    BY <1>1, <2>1, <2>2, <2>3, <2>4, OwnStays, TypesAre DEF Alive
  <2>6. Fresh'
    <3>1. \A q \in Players : Active(q)' => q # p /\ run'[q] = run[q] /\ Active(q)
      BY <1>1, <1>3, <2>1 DEF Active, Ran
    <3> QED BY <1>1, <2>1, <3>1 DEF Fresh, OnlyOf, Alive
  <2> QED BY <2>5, <2>6
<1>7. CASE ~run[p].cancelled
  <2>1. Active(p) /\ p = job /\ \A q \in Players : Active(q)' => q = p
    BY <1>1, <1>3, <1>7 DEF OneRun, Active, Ran
  <2>2. /\ run[p].pc = "add" => \A h \in Players : ~Alive(h)
        /\ run[p].pc \in {"meta", "settle", "fill", "serve"} => OnlyOf(p)
        /\ run[p].pc \in {"add", "meta", "settle", "fill", "serve"} => listening = {}
        /\ run[p].pc \in {"fill", "serve"} => run[p].file = p
    BY <1>1, <2>1 DEF Fresh
  <2>3. \A q \in Players : q # p => run'[q] = run[q]
    BY <1>1 DEF Ran
  <2>4. p \in listening => run[p].pc = "done"
    BY <1>1, <1>5 DEF Ran
  \* It is at its end, or stops what is there: there is no server, or those there are stay.
  <2>5. ASSUME run'[p].pc = "end" PROVE Fresh'
    <3>1. ~Active(p)'
      BY <2>5 DEF Active
    <3> QED BY <2>1, <3>1 DEF Fresh
  <2>6. ASSUME listening' = {} PROVE Own'
    BY <2>6 DEF Own
  <2>7. ASSUME run'[p].pc \in RunPlaces \ {"none"},
               listening' = {},
               run'[p].pc = "add" => \A h \in Players : ~Alive(h)',
               run'[p].pc \in {"meta", "settle", "fill", "serve"} => OnlyOf(p)',
               run'[p].pc \in {"fill", "serve"} => run'[p].file = p
        PROVE  Fresh'
    BY <2>1, <2>7 DEF Fresh
  <2>8. ASSUME NEW delete, GivesUp(p, delete) PROVE Own' /\ Fresh'
    <3>1. listening' = {}
      BY <1>1, <1>5, <2>8, EngineStopDoes DEF GivesUp
    <3>2. run'[p].pc = "end"
      BY <1>1, <2>8, ToDoes DEF GivesUp, RunPlaces
    <3> QED BY <2>5, <2>6, <3>1, <3>2
  <2>9. CASE Begin(p)
    <3>1. /\ run'[p].pc = "stop" /\ UNCHANGED <<torrent, listening>> /\ engine' = engine
          /\ run[p].pc = "new"
      BY <1>1, <1>7, <2>9, ToDoes DEF Begin, RunPlaces
    <3>2. Own'
      BY <1>1, <2>3, <2>4, <3>1, OwnStays, TypesAre DEF Alive
    <3>3. Fresh'
      BY <2>1, <3>1 DEF Fresh
    <3> QED BY <3>2, <3>3
  <2>10. CASE StopFirst(p)
    <3>1. /\ listening' = {} /\ run'[p].pc = "add"
          /\ \A h \in Players : Alive(h)' => Alive(h) /\ h # engine.handle
      BY <1>1, <1>5, <2>10, EngineStopDoes, ToDoes DEF StopFirst, RunPlaces
    <3>2. \A h \in Players : ~Alive(h)'
      BY <2>10, <3>1 DEF StopFirst, LateStop, Orderly
    <3>3. Fresh'
      BY <2>1, <3>1, <3>2 DEF Fresh
    <3> QED BY <2>6, <3>1, <3>3
  <2>11. CASE Add(p)
    <3>1. run[p].pc = "add" /\ run'[p].pc = "meta" /\ listening' = {}
      BY <1>1, <2>2, <2>11, ToDoes DEF Add, RunPlaces
    <3>2. Find(Magnet(p)) = {}
      BY <2>2, <3>1 DEF Find
    <3>3. torrent' = [torrent EXCEPT ![p] = "magnet"]
      BY <2>11, <3>2 DEF Add
    <3>4. OnlyOf(p)'
      BY <1>2, <2>2, <3>1, <3>3 DEF OnlyOf, Alive
    <3> QED BY <2>1, <2>6, <3>1, <3>4 DEF Fresh
  <2>12. CASE AddFails(p) \/ Replies(p)
    <3>1. /\ run'[p].pc = "end" /\ run'[p].file = run[p].file /\ UNCHANGED <<torrent, listening>>
          /\ engine'.server = engine.server
      BY <1>1, <1>2, <2>12, ToDoes DEF AddFails, Replies, RunPlaces, EngineType
    <3>2. Own'
      BY <1>1, <2>3, <3>1, OwnStays, TypesAre DEF Alive
    <3> QED BY <2>5, <3>1, <3>2
  <2>13. CASE SeesMetadata(p) \/ Filled(p) \/ NotFilled(p)
    <3>1. /\ run[p].pc \in {"meta", "fill"} /\ UNCHANGED <<torrent, listening>>
          /\ run'[p].pc = (IF run[p].pc = "meta" THEN "settle" ELSE "serve")
          /\ run'[p].file = run[p].file
      BY <1>1, <2>13, ToDoes DEF SeesMetadata, Filled, NotFilled, RunPlaces
    <3>2. listening' = {} /\ OnlyOf(p)'
      BY <2>2, <3>1 DEF OnlyOf, Alive
    <3>3. Fresh'
      BY <2>1, <2>2, <3>1, <3>2 DEF Fresh
    <3> QED BY <2>6, <3>2, <3>3
  <2>14. CASE NoMetadata(p) \/ NoFile(p) \/ NobodySends(p)
    BY <2>8, <2>14 DEF NoMetadata, NoFile, NobodySends
  <2>15. CASE ChooseFile(p)
    <3>1. /\ run[p].pc = "settle" /\ UNCHANGED <<torrent, listening>> /\ LiveHandle # None
          /\ run' = [run EXCEPT ![p].pc = "fill", ![p].file = LiveHandle]
      BY <2>15 DEF ChooseFile
    <3>2. LiveHandle = p
      BY <1>1, <2>2, <3>1, LiveHandleIs DEF OnlyOf
    <3>3. run'[p].pc = "fill" /\ run'[p].file = p
      BY <1>2, <3>1, <3>2 DEF RunType
    <3>4. listening' = {} /\ OnlyOf(p)'
      BY <2>2, <3>1 DEF OnlyOf, Alive
    <3>5. Fresh'
      BY <2>1, <3>3, <3>4 DEF Fresh
    <3> QED BY <2>6, <3>4, <3>5
  <2>16. CASE Serve(p)
    <3>1. /\ run[p].pc = "serve" /\ listening' = listening \cup {p} /\ UNCHANGED torrent
          /\ engine' = [engine EXCEPT !.server = p] /\ run'[p].pc = "done" /\ run'[p].file = run[p].file
      BY <1>1, <2>16, ToDoes DEF Serve, RunPlaces
    <3>2. listening' = {p} /\ engine'.server = p /\ run'[p].file = p /\ OnlyOf(p)'
      BY <1>2, <2>2, <3>1 DEF EngineType, OnlyOf, Alive
    <3>3. Own'
      BY <3>1, <3>2 DEF Own
    <3>4. Fresh'
      BY <2>1, <3>1 DEF Fresh
    <3> QED BY <3>3, <3>4
  <2>17. CASE Cancelled(p)
    BY <1>7, <2>17 DEF Cancelled
  <2> QED BY <2>9, <2>10, <2>11, <2>12, <2>13, <2>14, <2>15, <2>16, <2>17 DEF RunStep
<1> QED BY <1>6, <1>7

LEMMA RunKeepsKept ==
  ASSUME SessionInv, late \subseteq late', NEW p \in Players, RunStep(p), Ran(p)
  PROVE  Kept'
<1> SUFFICES ASSUME Orderly, "run" \notin late', NEW q \in Shown \ upset
             PROVE  KeptBy(q)'
  BY LateGrows DEF Kept, Shown, Ran
<1>1. TypeOK /\ Once /\ OneRun /\ Own /\ Fresh /\ q \in Players
  BY DEF SessionInv, EngineInv, Shown
<1>2. run \in [Players -> RunType] /\ torrent \in [Players -> TorrentStates]
  BY <1>1, TypesAre
<1>3. KeptBy(q) /\ UNCHANGED <<player, conn, inbox, job>>
  BY DEF SessionInv, Kept, Ran
<1>4. CASE Waits(q)
  BY <1>3, <1>4 DEF Waits, KeptBy
<1>5. ASSUME Served(q) PROVE Served(q)'
  <2>1. inbox = <<>> /\ job = q /\ ~run[q].cancelled
    BY <1>5 DEF Served
  <2>2. CASE q # p
    <3>1. run[p].cancelled
      BY <1>1, <2>1, <2>2 DEF OneRun, Active, Ran
    <3>2. UNCHANGED <<torrent, listening>>
      BY <1>1, <3>1, CancelledEnds DEF Idled
    <3>3. run'[q] = run[q] /\ (ReadyIn(outbox', q) => ReadyIn(outbox, q))
      BY <1>1, <2>2 DEF Ran
    <3> QED BY <1>3, <1>5, <3>2, <3>3 DEF Served, Alive
  <2>3. CASE q = p
    <3>1. player[p].answer # "url" /\ ~run[p].cancelled /\ inbox = <<>> /\ job = p
          /\ run[p].pc \notin {"none", "end"}
      BY <1>5, <2>3 DEF Served, Ran
    <3>2. ~ReadyIn(outbox, p)
      <4>1. ~ReplyIn(outbox, p)
        BY <1>1, <3>1 DEF Once, OnceBy
      <4> QED BY <4>1 DEF ReplyIn, ReadyIn
    <3>3. ReadyIn(outbox', p) => run[p].pc = "done"
      BY <3>2 DEF Ran
    <3>4. run'[p].pc # "none" /\ (run'[p].cancelled = run[p].cancelled)
      BY DEF Ran
    <3>5. ASSUME run'[p].pc \in {"meta", "settle", "fill", "serve", "done"} => Alive(p)',
                 run'[p].pc = "done" => p \in listening',
                 run[p].pc = "done" => Alive(p)' /\ p \in listening'
          PROVE  Served(q)'
      BY <1>3, <2>3, <3>1, <3>3, <3>4, <3>5 DEF Served
    <3>6. CASE Begin(p) \/ StopFirst(p)
      <4>1. run'[p].pc \in {"stop", "add"} /\ run[p].pc \in {"new", "stop"}
        BY <1>1, <3>1, <3>6, ToDoes DEF Begin, StopFirst, RunPlaces
      <4> QED BY <3>5, <4>1
    <3>7. CASE Add(p)
      <4>1. run[p].pc = "add" /\ run'[p].pc = "meta"
        BY <1>1, <3>7, ToDoes DEF Add, RunPlaces
      <4>2. Find(Magnet(p)) = {}
        BY <1>1, <3>1, <4>1 DEF Fresh, Active, Find
      <4>3. torrent'[p] = "magnet"
        BY <1>2, <3>7, <4>2 DEF Add
      <4>4. Alive(p)'
        BY <4>3, NamesAre DEF Alive
      <4> QED BY <3>5, <4>1, <4>4
    <3>8. CASE SeesMetadata(p) \/ ChooseFile(p) \/ Filled(p) \/ NotFilled(p)
      <4>1. run[p].pc \in {"meta", "settle", "fill"} /\ UNCHANGED torrent
        BY <3>8 DEF SeesMetadata, ChooseFile, Filled, NotFilled
      <4>2. run'[p].pc \in {"settle", "fill", "serve"}
        BY <1>2, <3>8 DEF SeesMetadata, ChooseFile, Filled, NotFilled, To, RunType
      <4>3. Alive(p)'
        BY <1>5, <2>3, <4>1 DEF Served, Alive
      <4> QED BY <3>5, <4>1, <4>2, <4>3
    <3>9. CASE Serve(p)
      <4>1. run[p].pc = "serve" /\ UNCHANGED torrent /\ p \in listening'
        BY <3>9 DEF Serve
      <4>2. Alive(p)'
        BY <1>5, <2>3, <4>1 DEF Served, Alive
      <4> QED BY <3>5, <4>1, <4>2
    <3>10. CASE Replies(p)
      <4>1. run[p].pc = "done" /\ UNCHANGED <<torrent, listening>>
        BY <3>10 DEF Replies
      <4>2. Alive(p)' /\ p \in listening'
        BY <1>5, <2>3, <4>1 DEF Served, Alive
      <4> QED BY <3>5, <4>2
    <3>11. CASE AddFails(p) \/ NoMetadata(p) \/ NoFile(p) \/ NobodySends(p)
      <4>1. run[p].pc \in {"add", "meta", "settle", "fill"} /\ To(p, "end")
        BY <3>11 DEF AddFails, NoMetadata, NoFile, NobodySends, GivesUp
      <4>2. run'[p].pc = "end"
        BY <1>1, <4>1, ToDoes DEF RunPlaces
      <4> QED BY <3>5, <4>1, <4>2
    <3>12. CASE Cancelled(p)
      BY <3>1, <3>12 DEF Cancelled
    <3> QED BY <3>6, <3>7, <3>8, <3>9, <3>10, <3>11, <3>12 DEF RunStep
  <2> QED BY <2>2, <2>3
<1> QED BY <1>3, <1>4, <1>5 DEF KeptBy

LEMMA RunKeepsStop ==
  ASSUME SessionInv, late \subseteq late', NEW p \in Players, RunStep(p), Ran(p)
  PROVE  StopInv'
<1>1. TypeOK /\ Sends /\ Clean /\ Answered /\ Wiped
  BY DEF SessionInv, StopInv
<1>2. UNCHANGED <<player, inbox, messenger, wipes>>
  BY DEF Ran
<1>3. Sends' /\ Answered'
  BY <1>1, <1>2, LateGrows DEF Sends, Answered, NoOne, Responsible, Stops
<1>4. Orderly /\ ~messenger /\ inbox = <<>> => run[p].cancelled
  BY <1>1 DEF Clean, Active, Ran
<1>5. run[p].cancelled /\ "run" \notin late' => UNCHANGED <<torrent, listening, disk>>
  BY <1>1, CancelledEnds DEF Idled
<1>6. Clean'
  <2> SUFFICES ASSUME Orderly, "run" \notin late', ~messenger, inbox = <<>>, NEW q \in Players
               PROVE  ~Alive(q)' /\ q \notin listening' /\ ~Active(q)'
    BY <1>2, LateGrows DEF Clean
  <2>1. UNCHANGED <<torrent, listening>>
    BY <1>4, <1>5
  <2>2. Active(q)' => Active(q)
    BY DEF Ran, Active
  <2> QED BY <1>1, <2>1, <2>2 DEF Clean, Alive
<1>7. Wiped'
  <2> SUFFICES ASSUME WipedInTime, Owned, Orderly, "run" \notin late', "wipe" \notin late', wipes, NoOne
               PROVE  \A m \in disk' : \E h \in Players : Alive(h)' /\ Magnet(h) = m
    <3>1. WipedInTime' => WipedInTime /\ Owned /\ Orderly /\ "run" \notin late' /\ "wipe" \notin late'
      BY LateGrows DEF WipedInTime
    <3> QED BY <1>1, <1>2, <3>1 DEF Wiped, NoOne, Responsible, Stops, Magnet
  <2>1. /\ \A m \in disk : \E h \in Players : Alive(h) /\ Magnet(h) = m
        /\ inbox # <<>> => LastOf(inbox).delete
    BY <1>1 DEF Wiped
  <2>2. ASSUME disk' = disk, \A h \in Players : Alive(h) => Alive(h)'
        PROVE  \A m \in disk' : \E h \in Players : Alive(h)' /\ Magnet(h) = m
    BY <2>1, <2>2
  <2>3. CASE run[p].cancelled
    <3>1. UNCHANGED <<torrent, disk>>
      BY <1>5, <2>3
    <3> QED BY <2>2, <3>1 DEF Alive
  <2>4. CASE ~run[p].cancelled
    <3>1. Deletes(inbox)
      <4>1. ~messenger
        BY <1>1 DEF Answered
      <4>2. inbox # <<>>
        BY <1>4, <2>4, <4>1
      <4> QED BY <1>1, <2>1, <4>2, LastDeletes, TypesAre
    <3>2. "wipe" \in LateStop(run[p].cancelled, inbox) /\ "wipe" \in LateStop(FALSE, inbox)
      BY <3>1 DEF LateStop
    <3>3. CASE Begin(p) \/ AddFails(p) \/ Cancelled(p) \/ SeesMetadata(p) \/ ChooseFile(p) \/ Filled(p)
               \/ NotFilled(p) \/ Serve(p) \/ Replies(p)
      <4>1. UNCHANGED <<torrent, disk>>
        BY <3>3 DEF Begin, AddFails, Cancelled, SeesMetadata, ChooseFile, Filled, NotFilled, Serve, Replies
      <4> QED BY <2>2, <4>1 DEF Alive
    <3>4. CASE Add(p)
      <4>1. disk' = disk /\ (torrent' = torrent \/ torrent' = [torrent EXCEPT ![p] = "magnet"])
        BY <3>4 DEF Add
      <4>2. torrent \in [Players -> TorrentStates]
        BY <1>1, TypesAre
      <4>3. \A h \in Players : Alive(h) => Alive(h)'
        BY <4>1, <4>2 DEF Alive
      <4> QED BY <2>2, <4>1, <4>3
    <3>5. CASE StopFirst(p) \/ NoMetadata(p) \/ NoFile(p) \/ NobodySends(p)
      BY <3>2, <3>5 DEF StopFirst, NoMetadata, NoFile, NobodySends, GivesUp
    <3> QED BY <3>3, <3>4, <3>5 DEF RunStep
  <2> QED BY <2>3, <2>4
<1> QED BY <1>3, <1>6, <1>7 DEF StopInv

LEMMA RunKeepsInv ==
  ASSUME SessionInv, late \subseteq late', NEW p \in Players, RunStep(p)
  PROVE  SessionInv'
  BY RunStepRan, RunKeepsOnce, RunKeepsEngine, RunKeepsKept, RunKeepsStop DEF SessionInv

-----------------------------------------------------------------------------
(* A step of libtorrent, or of its listener *)

\* Torrents stay, or come to nothing: what is said of them all stays.
LEMMA TorrentsKeepInv ==
  ASSUME SessionInv, late \subseteq late', TypeOK', UNCHANGED <<uiVars, inbox, job, run, listening, wipes, late>>,
         engine'.server = engine.server,
         \A p \in Players : (Alive(p)' <=> Alive(p)) /\ (torrent'[p] = "none" <=> torrent[p] = "none"),
         \A m \in disk' \ disk : \E h \in Players : Alive(h) /\ Magnet(h) = m
  PROVE  SessionInv'
<1>1. UNCHANGED <<player, conn, connRef, messenger, outbox, upset, inbox, job, run, listening, wipes, late>>
  BY DEF uiVars
<1>2. Once'
  <2> SUFFICES ASSUME NEW p \in Players
               PROVE  OnceBy(p)'
    BY <1>1 DEF Once, SessionInv
  <2>1. OnceBy(p)
    BY DEF SessionInv, Once
  <2> QED BY <1>1, <2>1 DEF OnceBy, Magnet
<1>3. EngineInv'
  <2>1. OneRun' /\ Fresh'
    BY <1>1, LateGrows DEF SessionInv, EngineInv, OneRun, Active, Fresh, OnlyOf
  <2>2. Own'
    BY <1>1, LateGrows DEF SessionInv, EngineInv, Own, OnlyOf
  <2> QED BY <2>1, <2>2 DEF EngineInv
<1>4. Kept'
  <2> SUFFICES ASSUME Orderly, NEW p \in Shown \ upset
               PROVE  KeptBy(p)'
    BY <1>1, LateGrows DEF Kept, Shown
  <2>1. KeptBy(p) /\ p \in Players
    BY DEF SessionInv, Kept, Shown
  <2>2. Waits(p) => Waits(p)'
    BY <1>1 DEF Waits
  <2>3. Served(p) => Served(p)'
    BY <1>1, <2>1 DEF Served
  <2> QED BY <1>1, <2>1, <2>2, <2>3 DEF KeptBy
<1>5. StopInv'
  <2>1. Sends' /\ Clean' /\ Answered'
    BY <1>1, LateGrows DEF SessionInv, StopInv, Sends, Clean, Answered, NoOne, Responsible, Stops, Active
  <2>2. NoOne' <=> NoOne
    BY <1>1 DEF NoOne, Responsible, Stops
  <2>3. \A h \in Players : Magnet(h)' = Magnet(h)
    BY <1>1 DEF Magnet
  <2>4. Wiped
    BY DEF SessionInv, StopInv
  <2>5. Wiped'
    <3> SUFFICES ASSUME WipedInTime, wipes, NoOne
                 PROVE  /\ \A m \in disk' : \E h \in Players : Alive(h) /\ Magnet(h) = m
                        /\ inbox # <<>> => LastOf(inbox).delete
      BY <1>1, <2>2, <2>3, LateGrows DEF Wiped
    <3> QED BY <2>4 DEF Wiped
  <2> QED BY <2>1, <2>5 DEF StopInv
<1> QED BY <1>2, <1>3, <1>4, <1>5 DEF SessionInv

LEMMA TorrentStepKeepsInv ==
  ASSUME SessionInv, late \subseteq late', NEW p \in Players, GetsInfo(p) \/ GetsPieces(p)
  PROVE  SessionInv'
<1>1. TypeOK /\ Once
  BY DEF SessionInv
<1>2. torrent \in [Players -> TorrentStates] /\ alerts \in Seq(Alert)
  BY <1>1, TypesAre
<1>3. CASE GetsInfo(p)
  <2>1. /\ torrent[p] = "magnet" /\ torrent' = [torrent EXCEPT ![p] = "info"]
        /\ alerts' = Append(alerts, [what |-> "METADATA_RECEIVED", of |-> p])
        /\ UNCHANGED <<uiVars, inbox, job, run, engine, listening, disk, wipes, troubles, late>>
    BY <1>3 DEF GetsInfo
  <2>2. torrent' \in [Players -> TorrentStates]
    BY <1>2, <2>1 DEF TorrentStates
  <2>3. alerts' \in Seq(Alert)
    <3>1. [what |-> "METADATA_RECEIVED", of |-> p] \in Alert
      BY DEF Alert
    <3> QED BY <1>2, <2>1, <3>1
  <2>4. TypeOK'
    BY <1>1, <2>1, <2>2, <2>3, TypesAre, TypesMake DEF uiVars
  <2>5. \A q \in Players : (Alive(q)' <=> Alive(q)) /\ (torrent'[q] = "none" <=> torrent[q] = "none")
    BY <1>2, <2>1 DEF Alive
  <2> QED BY <2>1, <2>4, <2>5, TorrentsKeepInv
<1>4. CASE GetsPieces(p)
  <2>1. /\ torrent[p] = "info" /\ disk' = disk \cup {Magnet(p)}
        /\ UNCHANGED <<uiVars, inbox, job, engineVars, wipes, troubles, late>>
    BY <1>4 DEF GetsPieces
  <2>2. Magnet(p) \in Magnets
    BY <1>1, <2>1 DEF Once, OnceBy
  <2>3. TypeOK'
    <3> HIDE DEF Magnet
    <3> QED BY <1>1, <2>1, <2>2, TypesAre, TypesMake DEF uiVars, engineVars
  <2>4. \A q \in Players : (Alive(q)' <=> Alive(q)) /\ (torrent'[q] = "none" <=> torrent[q] = "none")
    BY <2>1 DEF Alive, engineVars
  <2>5. Alive(p)
    BY <2>1, NamesAre DEF Alive
  <2>6. engine'.server = engine.server
        /\ UNCHANGED <<uiVars, inbox, job, run, listening, wipes, late>>
    BY <2>1 DEF engineVars
  <2>7. \A m \in disk' \ disk : \E h \in Players : Alive(h) /\ Magnet(h) = m
    BY <2>1, <2>5
  <2> QED BY <2>3, <2>4, <2>6, <2>7, TorrentsKeepInv
<1> QED BY <1>3, <1>4

LEMMA AlertKeepsInv ==
  ASSUME SessionInv, late \subseteq late', SeeAlert
  PROVE  SessionInv'
<1>1. TypeOK /\ Once
  BY DEF SessionInv
<1>2. alerts \in Seq(Alert) /\ engine \in EngineType
  BY <1>1, TypesAre
<1>3. alerts # <<>> /\ alerts' = Tail(alerts)
      /\ UNCHANGED <<uiVars, inbox, job, run, torrent, listening, disk, wipes, troubles, late>>
  BY DEF SeeAlert
<1>4. Head(alerts) \in Alert /\ alerts' \in Seq(Alert)
  BY <1>2, <1>3
<1> DEFINE a == Head(alerts)
<1>5. a.of \in Players /\ a.what \in {"ADD_TORRENT", "METADATA_RECEIVED", "TORRENT_REMOVED"}
  BY <1>4 DEF Alert
<1>6. Alive(a.of) => Magnet(a.of) \in Magnets
  BY <1>1, <1>5 DEF Once, OnceBy, Alive
<1>7. engine' = CASE a.what = "ADD_TORRENT" ->
                       IF Alive(a.of) THEN [engine EXCEPT !.handle = a.of, !.hash = Magnet(a.of)]
                       ELSE engine
                  [] a.what = "METADATA_RECEIVED" ->
                       [engine EXCEPT !.latch = TRUE, !.hash = IF Alive(a.of) THEN Magnet(a.of) ELSE @]
                  [] a.what = "TORRENT_REMOVED" -> [engine EXCEPT !.handle = None]
  BY DEF SeeAlert
<1>8. engine' \in EngineType /\ engine'.server = engine.server
  <2> HIDE DEF a, Magnet, Alive
  <2> QED BY <1>2, <1>5, <1>6, <1>7 DEF EngineType
<1>9. TypeOK'
  BY <1>1, <1>3, <1>4, <1>8, TypesAre, TypesMake DEF uiVars
<1> QED BY <1>3, <1>8, <1>9, TorrentsKeepInv DEF Alive

-----------------------------------------------------------------------------
(* A step of TorrentService *)

LEMMA CancelJobDoes ==
  ASSUME TypeOK, OneRun
  PROVE  /\ CancelJob \in [Players -> RunType]
         /\ \A q \in Players : CancelJob[q].pc = run[q].pc /\ CancelJob[q].file = run[q].file
         /\ \A q \in Players : CancelJob[q].pc \in {"none", "end"} \/ CancelJob[q].cancelled
<1>1. run \in [Players -> RunType]
  BY TypesAre
<1>2. CancelJob \in [Players -> RunType]
  BY <1>1 DEF CancelJob, RunType
<1>3. \A q \in Players : CancelJob[q] = IF q = job THEN [run[q] EXCEPT !.cancelled = TRUE] ELSE run[q]
  BY DEF CancelJob
<1>4. \A q \in Players : CancelJob[q].pc = run[q].pc /\ CancelJob[q].file = run[q].file
  BY <1>1, <1>3 DEF RunType
<1>5. \A q \in Players : q = job => CancelJob[q].cancelled
  BY <1>1, <1>3 DEF RunType
<1>6. \A q \in Players : q # job => CancelJob[q].pc \in {"none", "end"} \/ CancelJob[q].cancelled
  BY <1>3 DEF OneRun, Active
<1> QED BY <1>2, <1>4, <1>5, <1>6

LEMMA HandleStartKeepsInv ==
  ASSUME SessionInv, late \subseteq late', HandleStart
  PROVE  SessionInv'
<1>1. TypeOK /\ Once /\ OneRun /\ Own /\ Kept /\ Sends /\ Clean /\ Answered /\ Wiped
  BY DEF SessionInv, EngineInv, StopInv
<1>2. inbox \in Seq(Message) /\ inbox # <<>> /\ inbox' = Tail(inbox) /\ Head(inbox).what = "START"
  BY <1>1, TypesAre DEF HandleStart
<1> DEFINE p == Head(inbox).of
<1>3. p \in Players
  <2>1. Head(inbox) \in Message
    BY <1>2, HeadIsTaken
  <2> QED BY <1>2, <2>1 DEF Message
<1>4. /\ inbox' \in Seq(Message) /\ StartIn(inbox, p) /\ ~StartIn(inbox', p) /\ OneStart(inbox')
      /\ \A q \in Players : StartIn(inbox', q) => StartIn(inbox, q)
      /\ inbox' # <<>> => LastOf(inbox') = LastOf(inbox)
      /\ inbox' = <<>> => LastOf(inbox).what = "START" /\ LastOf(inbox).of = p
  BY <1>1, <1>2, HeadIsTaken DEF Once
<1>5. /\ run' = [CancelJob EXCEPT ![p] = [NoRun EXCEPT !.pc = "new"]] /\ job' = p
      /\ UNCHANGED <<uiVars, torrent, alerts, engine, listening, disk, wipes, troubles, late>>
  BY DEF HandleStart
<1> HIDE DEF p
<1>6. UNCHANGED <<player, conn, connRef, messenger, outbox, upset>>
  BY <1>5 DEF uiVars
<1>7. /\ run' \in [Players -> RunType] /\ run'[p].pc = "new" /\ ~run'[p].cancelled
      /\ \A q \in Players : q # p => run'[q] = CancelJob[q]
  <2>1. NoRun \in RunType /\ ~NoRun.cancelled
    BY DEF NoRun, RunType, RunPlaces
  <2>2. [NoRun EXCEPT !.pc = "new"] \in RunType
    BY <2>1 DEF RunType, RunPlaces
  <2> QED BY <1>1, <1>3, <1>5, <2>1, <2>2, CancelJobDoes DEF RunType
<1>8. \A q \in Players : q # p =>
        /\ run'[q].pc = run[q].pc /\ run'[q].file = run[q].file
        /\ run'[q].pc \in {"none", "end"} \/ run'[q].cancelled
  BY <1>1, <1>7, CancelJobDoes
<1>9. /\ run[p].pc = "none" /\ torrent[p] = "none" /\ p \notin listening /\ ~ReplyIn(outbox, p)
      /\ player[p].call \notin {"stop", "bind"} /\ conn[p] # "pending" /\ player[p].screen # "none"
      /\ Magnet(p) \in Magnets
  BY <1>1, <1>3, <1>4 DEF Once, OnceBy
<1>10. TypeOK'
  BY <1>1, <1>3, <1>4, <1>5, <1>6, <1>7, TypesAre, TypesMake
<1>11. Once'
  <2> SUFFICES ASSUME NEW q \in Players
               PROVE  OnceBy(q)'
    BY <1>4 DEF Once
  <2>1. OnceBy(q) /\ Magnet(q)' = Magnet(q)
    BY <1>1, <1>6 DEF Once, Magnet
  <2>2. CASE q = p
    BY <1>4, <1>6, <1>7, <1>9, <2>1, <2>2 DEF OnceBy
  <2>3. CASE q # p
    BY <1>4, <1>5, <1>6, <1>8, <2>1, <2>3 DEF OnceBy
  <2> QED BY <2>2, <2>3
<1>12. \A q \in Players : Active(q)' => q = p
  BY <1>8 DEF Active
<1>13. EngineInv'
  <2>1. OneRun' /\ Fresh'
    BY <1>5, <1>7, <1>12 DEF OneRun, Fresh
  <2>2. \A q \in listening : q # p
    BY <1>9
  <2>3. Own'
    <3>1. \A q \in listening : run'[q].file = run[q].file /\ run'[q].pc = run[q].pc
      BY <1>1, <1>8, <2>2, TypesAre
    <3> QED BY <1>1, <1>5, <3>1, OwnStays DEF Alive
  <2> QED BY <2>1, <2>3 DEF EngineInv
<1>14. Kept'
  <2> SUFFICES ASSUME Orderly, NEW q \in Shown \ upset
               PROVE  KeptBy(q)'
    BY <1>6, LateGrows DEF Kept, Shown
  <2>1. KeptBy(q) /\ q \in Players
    BY <1>1 DEF Kept, Shown
  <2>2. ~Served(q)
    BY <1>2 DEF Served
  <2>3. CASE Waits(q) /\ ~Waits(q)'
    <3>1. inbox' = <<>> /\ LastOf(inbox).of = q /\ player[q].answer # "url"
      BY <1>4, <1>6, <2>3 DEF Waits
    <3>2. q = p
      BY <1>4, <3>1
    <3>3. ~ReadyIn(outbox, p)
      BY <1>9 DEF ReplyIn, ReadyIn
    <3>4. Served(q)'
      BY <1>5, <1>6, <1>7, <3>1, <3>2, <3>3 DEF Served
    <3> QED BY <3>4 DEF KeptBy
  <2> QED BY <1>6, <2>1, <2>2, <2>3 DEF KeptBy
<1>15. StopInv'
  <2>1. NoOne' <=> NoOne
    BY <1>6 DEF NoOne, Responsible, Stops
  <2>2. Sends' /\ Answered'
    BY <1>1, <1>2, <1>4, <1>5, <1>6, <2>1, LateGrows DEF Sends, Answered
  <2>3. Clean'
    BY <1>1, <1>2, <1>4, <1>6 DEF Sends, Clean
  <2>4. Wiped'
    <3>1. \A h \in Players : (Alive(h)' <=> Alive(h)) /\ Magnet(h)' = Magnet(h)
      BY <1>5, <1>6 DEF Alive, Magnet
    <3> QED BY <1>1, <1>2, <1>4, <1>5, <2>1, <3>1, LateGrows DEF Wiped
  <2> QED BY <2>2, <2>3, <2>4 DEF StopInv
<1> QED BY <1>10, <1>11, <1>13, <1>14, <1>15 DEF SessionInv

LEMMA HandleStopKeepsInv ==
  ASSUME SessionInv, late \subseteq late', HandleStop
  PROVE  SessionInv'
<1>1. TypeOK /\ Once /\ OneRun /\ Own /\ Kept /\ Sends /\ Clean /\ Answered /\ Wiped
  BY DEF SessionInv, EngineInv, StopInv
<1>2. inbox \in Seq(Message) /\ inbox # <<>> /\ inbox' = Tail(inbox) /\ Head(inbox).what = "STOP"
  BY <1>1, TypesAre DEF HandleStop
<1> DEFINE delete == Head(inbox).delete
<1>3. delete \in BOOLEAN
  <2>1. Head(inbox) \in Message
    BY <1>2, HeadIsTaken
  <2> QED BY <2>1 DEF Message
<1>4. /\ inbox' \in Seq(Message) /\ OneStart(inbox')
      /\ \A q \in Players : StartIn(inbox', q) => StartIn(inbox, q)
      /\ inbox' # <<>> => LastOf(inbox') = LastOf(inbox)
      /\ inbox' = <<>> => LastOf(inbox) = Head(inbox)
  BY <1>1, <1>2, HeadIsTaken DEF Once
<1>5. /\ run' = CancelJob /\ EngineStop(delete)
      /\ late' = LateStop(FALSE, IF delete THEN <<>> ELSE inbox')
      /\ UNCHANGED <<uiVars, job, wipes, troubles>>
  BY <1>2 DEF HandleStop
<1> HIDE DEF delete
<1>6. UNCHANGED <<player, conn, connRef, messenger, outbox, upset>>
  BY <1>5 DEF uiVars
<1>7. /\ run' \in [Players -> RunType] /\ \A q \in Players : run'[q].pc = run[q].pc
      /\ \A q \in Players : ~Active(q)'
  BY <1>1, <1>5, CancelJobDoes DEF Active
<1>8. /\ engine' \in EngineType /\ torrent' \in [Players -> TorrentStates]
      /\ alerts' \in Seq(Alert) /\ disk' \subseteq Magnets /\ disk' \subseteq disk
      /\ listening' \subseteq listening /\ (Orderly => listening' = {})
      /\ \A q \in Players : Alive(q)' => Alive(q) /\ q # engine.handle
      /\ \A q \in Players : torrent'[q] = "none" <=> torrent[q] = "none"
      /\ delete /\ Alive(engine.handle) => Magnet(engine.handle) \notin disk'
  BY <1>1, <1>5, EngineStopDoes DEF Own
<1>9. TypeOK'
  <2>1. late' \subseteq Late
    BY <1>1, <1>5, LateStopIs
  <2> QED BY <1>1, <1>4, <1>5, <1>6, <1>7, <1>8, <2>1, TypesAre, TypesMake
<1>10. Once'
  <2> SUFFICES ASSUME NEW q \in Players
               PROVE  OnceBy(q)'
    BY <1>4 DEF Once
  <2>1. OnceBy(q) /\ Magnet(q)' = Magnet(q)
    BY <1>1, <1>6 DEF Once, Magnet
  <2> QED BY <1>4, <1>6, <1>7, <1>8, <2>1 DEF OnceBy
<1>11. EngineInv'
  BY <1>7, <1>8, LateGrows DEF EngineInv, OneRun, Own, Fresh
<1>12. Kept'
  <2> SUFFICES ASSUME Orderly, NEW q \in Shown \ upset
               PROVE  KeptBy(q)'
    BY <1>6, LateGrows DEF Kept, Shown
  <2>1. KeptBy(q) /\ ~Served(q)
    BY <1>1, <1>2 DEF Kept, Served
  <2>2. Waits(q) => Waits(q)'
    BY <1>2, <1>4, <1>6 DEF Waits
  <2> QED BY <1>6, <2>1, <2>2 DEF KeptBy
<1>13. /\ Orderly' => \A q \in Players : Alive(q) => q = engine.handle
       /\ WipedInTime' => (~delete => ~Deletes(inbox'))
  BY <1>5 DEF LateStop, Orderly, WipedInTime
<1>14. StopInv'
  <2>1. NoOne' <=> NoOne
    BY <1>6 DEF NoOne, Responsible, Stops
  <2>2. Sends' /\ Answered'
    BY <1>1, <1>2, <1>4, <1>6, <2>1, LateGrows DEF Sends, Answered
  <2>3. Clean'
    BY <1>7, <1>8, <1>13, LateGrows DEF Clean
  <2>4. Wiped'
    <3> SUFFICES ASSUME WipedInTime', WipedInTime, Orderly', wipes, NoOne
                 PROVE  /\ disk' = {}
                        /\ inbox' # <<>> => LastOf(inbox').delete
      BY <1>5, <2>1, LateGrows DEF Wiped
    <3>1. LastOf(inbox).delete /\ \A m \in disk : \E h \in Players : Alive(h) /\ Magnet(h) = m
      BY <1>1, <1>2 DEF Wiped
    <3>2. delete
      BY <1>4, <1>13, <3>1, LastDeletes DEF delete
    <3>3. disk' = {}
      <4>1. \A m \in disk : Alive(engine.handle) /\ m = Magnet(engine.handle)
        BY <1>13, <3>1
      <4> QED BY <1>8, <3>2, <4>1
    <3> QED BY <1>4, <3>1, <3>3
  <2> QED BY <2>2, <2>3, <2>4 DEF StopInv
<1> QED BY <1>9, <1>10, <1>11, <1>12, <1>14 DEF SessionInv

LEMMA CrashKeepsInv ==
  ASSUME SessionInv, late \subseteq late', Crash
  PROVE  SessionInv'
<1>1. TypeOK /\ Once /\ Clean /\ Answered /\ Wiped
  BY DEF SessionInv, StopInv
<1>2. /\ inbox' = <<>> /\ outbox' = <<>> /\ alerts' = <<>> /\ job' = None
      /\ run' = [q \in Players |-> NoRun] /\ torrent' = [q \in Players |-> "none"]
      /\ engine' = NoEngine /\ listening' = {} /\ ~messenger' /\ upset' = upset \cup Shown
      /\ late' = late \cup (IF Deletes(inbox) THEN {"wipe"} ELSE {})
      /\ UNCHANGED <<connRef, disk, wipes>>
      /\ troubles' = troubles + 1 /\ troubles < MaxTroubles
      /\ messenger' = FALSE
  BY DEF Crash
<1>3. \A q \in Players : run'[q] = NoRun /\ torrent'[q] = "none" /\ ~Active(q)' /\ ~Alive(q)'
  BY <1>2 DEF NoRun, Active, Alive
<1>4. /\ conn' \in [Players -> {"none", "pending", "up"}]
      /\ \A q \in Players : conn'[q] = IF conn[q] = "up" THEN "pending" ELSE conn[q]
  BY <1>1, TypesAre DEF Crash
<1>5. /\ player' \in [Players -> PlayerType]
      /\ \A q \in Players :
           /\ player'[q].screen = player[q].screen /\ player'[q].magnet = player[q].magnet
           /\ player'[q].handedOff = player[q].handedOff
           /\ player'[q] = player[q] \/ (player[q].call = "wait" /\ player'[q].call = "idle")
  <2>1. player \in [Players -> PlayerType]
    BY <1>1, TypesAre
  <2>2. \A q \in Players : [player[q] EXCEPT !.call = "idle", !.answer = "error"] \in PlayerType
    BY <2>1 DEF PlayerType, Calls, Answers
  <2>3. player' = [q \in Players |->
                  IF conn[q] = "up" /\ player[q].call = "wait"
                  THEN [player[q] EXCEPT !.call = "idle", !.answer = "error"]
                  ELSE player[q]]
    BY DEF Crash
  <2>4. player' \in [Players -> PlayerType]
    BY <2>1, <2>2, <2>3
  <2> QED BY <2>1, <2>3, <2>4 DEF PlayerType
<1>6. TypeOK'
  <2>1. run' \in [Players -> RunType] /\ torrent' \in [Players -> TorrentStates]
    BY <1>2 DEF NoRun, RunType, RunPlaces, TorrentStates
  <2>2. troubles' \in 0..MaxTroubles
    BY <1>1, <1>2, TypesAre, SessionAssumption
  <2>3. upset' \subseteq Players /\ late' \subseteq Late
    BY <1>1, <1>2, TypesAre DEF Shown, Late
  <2>4. /\ connRef' \in Players \cup {None} /\ disk' \subseteq Magnets /\ wipes' \in BOOLEAN
        /\ engine' \in EngineType
    BY <1>1, <1>2, TypesAre, NoEngineIs
  <2>5. inbox' \in Seq(Message) /\ outbox' \in Seq(Reply) /\ alerts' \in Seq(Alert)
    BY <1>2
  <2>6. job' \in Players \cup {None} /\ listening' \subseteq Players /\ messenger' \in BOOLEAN
    BY <1>2
  <2> QED BY <1>4, <1>5, <2>1, <2>2, <2>3, <2>4, <2>5, <2>6, TypesMake
<1>7. Once'
  <2>1. OneStart(inbox') /\ \A q \in Players : ~StartIn(inbox', q) /\ ~ReplyIn(outbox', q)
    BY <1>2, NothingIn
  <2> SUFFICES ASSUME NEW q \in Players
               PROVE  OnceBy(q)'
    BY <2>1 DEF Once
  <2>2. OnceBy(q)
    BY <1>1 DEF Once
  <2>3. Magnet(q)' = Magnet(q)
    BY <1>5 DEF Magnet
  <2>4. run'[q].pc = "none" /\ torrent'[q] = "none" /\ q \notin listening'
    BY <1>2, <1>3 DEF NoRun
  <2>5. conn'[q] = "none" <=> conn[q] = "none"
    BY <1>4
  <2> QED BY <1>5, <2>1, <2>2, <2>3, <2>4, <2>5 DEF OnceBy
<1>8. EngineInv'
  BY <1>2, <1>3 DEF EngineInv, OneRun, Own, Fresh
<1>9. Kept'
  BY <1>2, <1>5 DEF Kept, Shown
<1>10. StopInv'
  <2>1. NoOne' <=> NoOne
    BY <1>5 DEF NoOne, Responsible, Stops
  <2>2. Sends' /\ Answered' /\ Clean'
    BY <1>2, <1>3 DEF Sends, Answered, Clean
  <2>3. Wiped'
    <3> SUFFICES ASSUME WipedInTime', WipedInTime, Owned, Orderly, wipes, NoOne
                 PROVE  disk = {}
      BY <1>2, <2>1, LateGrows DEF Wiped
    <3>1. ~messenger
      BY <1>1 DEF Answered
    <3>2. inbox = <<>>
      <4>1. ~Deletes(inbox)
        BY <1>2 DEF WipedInTime
      <4> QED BY <1>1, <4>1, LastDeletes, TypesAre DEF Wiped
    <3> QED BY <1>1, <3>1, <3>2 DEF Clean, Wiped
  <2> QED BY <2>2, <2>3 DEF StopInv
<1> QED BY <1>6, <1>7, <1>8, <1>9, <1>10 DEF SessionInv

-----------------------------------------------------------------------------
(* A step of TorrentClient *)

LEMMA EngineIsLeft ==
  ASSUME SessionInv, late \subseteq late', UNCHANGED <<job, run, torrent, listening>>,
         engine'.server = engine.server
  PROVE  EngineInv'
  BY LateGrows DEF SessionInv, EngineInv, OneRun, Active, Own, Fresh, OnlyOf, Alive

\* A player that shows, leaves or ends does not ask for another start.
LEMMA OnceStays ==
  ASSUME NEW q \in Players, OnceBy(q), UNCHANGED <<run, torrent, listening>>,
         StartIn(inbox', q) => StartIn(inbox, q), ReplyIn(outbox', q) => ReplyIn(outbox, q),
         conn'[q] \in {conn[q], "none"},
         \/ player'[q] = player[q]
         \/ /\ player[q].screen # "none" /\ player'[q].screen # "none"
            /\ player'[q].magnet = player[q].magnet
            /\ player'[q].call # "idle" => player[q].call # "idle"
            /\ player'[q].call \in {"stop", "bind"} =>
                 player[q].call \in {"stop", "bind"} /\ player'[q].answer \in {player[q].answer, "none"}
  PROVE  OnceBy(q)'
  BY DEF OnceBy, Magnet

LEMMA ShownOnceCalled ==
  ASSUME NEW q \in Players, OnceBy(q), player[q].call # "idle" \/ conn[q] # "none"
  PROVE  player[q].screen # "none" /\ Magnet(q) \in Magnets
  BY DEF OnceBy

\* Who calls in time is there to stop what it starts.
LEMMA InTimeIsResponsible ==
  ASSUME NEW p \in Players, OnceBy(p), player[p].call # "idle" \/ conn[p] # "none", ~Overdue(p)
  PROVE  Responsible(p) /\ ~NoOne
<1>1. Magnet(p) \in Magnets
  BY ShownOnceCalled
<1>2. player[p].magnet # Direct
  BY <1>1, NamesAre DEF Magnet
<1> QED BY <1>2 DEF Overdue, Responsible, Stops, NoOne

\* The START of a player that waits has not been handled.
LEMMA WaitsHasNoRun ==
  ASSUME TypeOK, NEW q \in Players, OnceBy(q), Waits(q)
  PROVE  run[q].pc = "none"
<1>1. inbox # <<>> => Len(inbox) \in DOMAIN inbox
  BY TypesAre
<1>2. conn[q] = "pending" \/ StartIn(inbox, q)
  BY <1>1 DEF Waits, StartIn, LastOf
<1> QED BY <1>2 DEF OnceBy

\* What a STOP leaves to say.
LEMMA StopIsSaid ==
  ASSUME SessionInv, late \subseteq late', NEW delete \in BOOLEAN, ClientStop(delete),
         UNCHANGED <<job, run, torrent, listening>>, Wiped'
  PROVE  StopInv'
<1>1. TypeOK /\ Sends /\ Clean
  BY DEF SessionInv, StopInv
<1>2. /\ ~messenger'
      /\ messenger => inbox' # <<>> /\ LastOf(inbox') = [what |-> "STOP", of |-> None, delete |-> delete]
      /\ ~messenger => inbox' = inbox
  BY <1>1, ClientStopDoes
<1>3. Sends'
  <2>1. messenger => LastOf(inbox').what = "STOP"
    BY <1>2
  <2>2. CASE messenger
    BY <1>2, <2>1, <2>2 DEF Sends
  <2>3. CASE ~messenger
    BY <1>1, <1>2, <2>3 DEF Sends
  <2> QED BY <2>2, <2>3
<1>4. Clean'
  BY <1>1, <1>2, LateGrows DEF Clean, Alive, Active
<1>5. Answered'
  BY <1>2 DEF Answered
<1> QED BY <1>3, <1>4, <1>5 DEF StopInv

\* A STOP after which the pieces are wiped.
LEMMA WipeIsTold ==
  ASSUME SessionInv, ClientStop(wipes), UNCHANGED wipes, Wipe, LateWipe \subseteq late'
  PROVE  Wiped'
<1> SUFFICES ASSUME "wipe" \notin late', wipes
             PROVE  disk' = {} /\ (inbox' # <<>> => LastOf(inbox').delete)
  BY DEF Wiped, WipedInTime
<1>1. TypeOK /\ wipes \in BOOLEAN
  BY TypesAre DEF SessionInv
<1>0. wipes = TRUE
  BY <1>1
<1>2. /\ messenger => LastOf(inbox') = [what |-> "STOP", of |-> None, delete |-> TRUE]
      /\ ~messenger => inbox' = inbox
  BY <1>0, <1>1, ClientStopDoes
<1>3. disk' = {}
  BY DEF Wipe
<1>4. CASE messenger
  <2>1. LastOf(inbox').delete
    BY <1>2, <1>4
  <2> QED BY <1>3, <2>1
<1>5. CASE ~messenger
  BY <1>2, <1>3, <1>5 DEF LateWipe
<1> QED BY <1>4, <1>5

LEMMA LateCallIs ==
  ASSUME TypeOK, NEW p \in Players, NEW what \in {"call", "bind"}, LateCall(p, what)
  PROVE  /\ late' \subseteq Late /\ upset' \subseteq Players
         /\ Overdue(p) => what \in late' /\ Shown \subseteq upset'
         /\ ~Overdue(p) => upset' = upset /\ late' = late /\ Shown \subseteq {p}
  BY TypesAre DEF LateCall, Late, Shown, Overdue

LEMMA StartStopsKeepsInv ==
  ASSUME SessionInv, late \subseteq late', NEW p \in Players, StartStops(p) \/ Watchdog(p)
  PROVE  SessionInv'
<1>1. TypeOK /\ Once /\ OnceBy(p) /\ player \in [Players -> PlayerType]
  BY TypesAre DEF SessionInv, Once
<1>2. PICK call \in {"bind", "idle"}, answer \in {player[p].answer, "error"} :
        /\ player' = [player EXCEPT ![p].call = call, ![p].answer = answer]
        /\ answer = "error" \/ player[p].answer = "none"
        /\ call = "bind" => player[p].call = "stop" /\ answer = player[p].answer
        /\ answer # "url"
  <2>1. CASE StartStops(p)
    <3>1. player[p].answer = "none"
      BY <1>1, <2>1 DEF StartStops, OnceBy
    <3>2. player' = [player EXCEPT ![p].call = "bind", ![p].answer = player[p].answer]
      BY <1>1, <2>1 DEF StartStops, PlayerType
    <3> QED BY <2>1, <3>1, <3>2 DEF StartStops
  <2>2. CASE Watchdog(p)
    BY <2>2 DEF Watchdog
  <2> QED BY <2>1, <2>2
<1>3. /\ player[p].call \in {"stop", "wait"} /\ ClientStop(FALSE) /\ LateCall(p, "call")
      /\ UNCHANGED <<disk, outbox, job, run, torrent, alerts, engine, listening, wipes, troubles>>
  BY DEF StartStops, Watchdog, ClientKeeps, engineVars
<1>4. /\ player' \in [Players -> PlayerType]
      /\ \A q \in Players : /\ player'[q].screen = player[q].screen
                            /\ player'[q].magnet = player[q].magnet
                            /\ player'[q].handedOff = player[q].handedOff
                            /\ q # p => player'[q] = player[q]
      /\ player'[p].call = call /\ player'[p].answer = answer
  BY <1>1, <1>2 DEF PlayerType, Calls, Answers
<1>5. /\ inbox' \in Seq(Message) /\ conn' \in [Players -> {"none", "pending", "up"}]
      /\ connRef' = None /\ messenger' \in BOOLEAN
      /\ \A q \in Players : conn'[q] \in {conn[q], "none"}
      /\ \A q \in Players : StartIn(inbox', q) <=> StartIn(inbox, q)
      /\ OneStart(inbox')
  BY <1>1, <1>3, ClientStopDoes DEF Once
<1>6. TypeOK'
  <2>1. late' \subseteq Late /\ upset' \subseteq Players
    BY <1>1, <1>3, LateCallIs
  <2> QED BY <1>1, <1>3, <1>4, <1>5, <2>1, TypesAre, TypesMake
<1>7. Once'
  <2> SUFFICES ASSUME NEW q \in Players
               PROVE  OnceBy(q)'
    BY <1>5 DEF Once
  <2>1. OnceBy(q) /\ player[p].screen # "none"
    BY <1>1, <1>3, ShownOnceCalled DEF Once
  <2>2. \/ player'[q] = player[q]
        \/ /\ player[q].screen # "none" /\ player'[q].screen # "none"
           /\ player'[q].magnet = player[q].magnet
           /\ player'[q].call # "idle" => player[q].call # "idle"
           /\ player'[q].call \in {"stop", "bind"} =>
                player[q].call \in {"stop", "bind"} /\ player'[q].answer \in {player[q].answer, "none"}
    BY <1>2, <1>3, <1>4, <2>1
  <2> QED BY <1>3, <1>5, <2>1, <2>2, OnceStays
<1>8. EngineInv'
  BY <1>3, EngineIsLeft
<1>9. Kept'
  <2> SUFFICES ASSUME Orderly, NEW q \in Shown, q \notin upset'
               PROVE  KeptBy(q)'
    BY <1>4, LateGrows DEF Kept, Shown
  <2>1. q = p
    BY <1>1, <1>3, LateCallIs DEF Shown
  <2> QED BY <1>2, <1>4, <2>1 DEF KeptBy
<1>10. StopInv'
  <2>1. NoOne' <=> NoOne
    BY <1>4 DEF NoOne, Responsible, Stops
  \* A STOP is sent only where somebody is still there.
  <2>2. Owned /\ NoOne => UNCHANGED inbox
    <3>1. Owned /\ NoOne => ~messenger
      BY DEF SessionInv, StopInv, Answered
    <3> QED BY <1>1, <1>3, <3>1, ClientStopDoes
  <2>3. Wiped'
    <3>1. \A h \in Players : (Alive(h)' <=> Alive(h)) /\ Magnet(h)' = Magnet(h)
      BY <1>3, <1>4 DEF Alive, Magnet
    <3> QED BY <1>3, <2>1, <2>2, <3>1, LateGrows DEF SessionInv, StopInv, Wiped
  <2> QED BY <1>3, <2>3, StopIsSaid
<1> QED BY <1>6, <1>7, <1>8, <1>9, <1>10 DEF SessionInv

LEMMA StartBindsKeepsInv ==
  ASSUME SessionInv, late \subseteq late', NEW p \in Players, StartBinds(p)
  PROVE  SessionInv'
<1>1. TypeOK /\ Once /\ OnceBy(p) /\ player \in [Players -> PlayerType]
      /\ conn \in [Players -> {"none", "pending", "up"}]
  BY TypesAre DEF SessionInv, Once
<1>2. /\ player[p].call = "bind" /\ LateCall(p, "bind") /\ connRef' = p
      /\ player' = [player EXCEPT ![p].call = IF player[p].screen = "gone" THEN "idle" ELSE "wait"]
      /\ conn' = [conn EXCEPT ![p] = "pending"]
      /\ UNCHANGED <<messenger, inbox, disk, outbox, job, run, torrent, alerts, engine, listening,
                    wipes, troubles>>
  BY DEF StartBinds, ClientKeeps, engineVars
<1>3. /\ player' \in [Players -> PlayerType]
      /\ \A q \in Players : /\ player'[q].screen = player[q].screen
                            /\ player'[q].magnet = player[q].magnet
                            /\ player'[q].handedOff = player[q].handedOff
                            /\ player'[q].answer = player[q].answer
                            /\ q # p => player'[q] = player[q]
      /\ player'[p].call \in {"idle", "wait"}
  BY <1>1, <1>2 DEF PlayerType, Calls
<1>4. /\ conn' \in [Players -> {"none", "pending", "up"}]
      /\ conn'[p] = "pending" /\ \A q \in Players : q # p => conn'[q] = conn[q]
  BY <1>1, <1>2
<1>5. TypeOK'
  <2>1. late' \subseteq Late /\ upset' \subseteq Players
    BY <1>1, <1>2, LateCallIs
  <2> QED BY <1>1, <1>2, <1>3, <1>4, <2>1, TypesAre, TypesMake
<1>6. Once'
  <2> SUFFICES ASSUME NEW q \in Players
               PROVE  OnceBy(q)'
    BY <1>1, <1>2 DEF Once
  <2>1. OnceBy(q) /\ Magnet(q)' = Magnet(q)
    BY <1>1, <1>3 DEF Once, Magnet
  <2>2. CASE q = p
    <3>1. player[p].screen # "none"
      BY <1>1, <1>2, ShownOnceCalled
    <3> QED BY <1>2, <1>3, <1>4, <2>1, <2>2, <3>1 DEF OnceBy
  <2>3. CASE q # p
    BY <1>2, <1>3, <1>4, <2>1, <2>3, OnceStays
  <2> QED BY <2>2, <2>3
<1>7. EngineInv'
  BY <1>2, EngineIsLeft
<1>8. Kept'
  <2> SUFFICES ASSUME Orderly, NEW q \in Shown, q \notin upset'
               PROVE  KeptBy(q)'
    BY <1>3, LateGrows DEF Kept, Shown
  <2>1. q = p
    BY <1>1, <1>2, LateCallIs DEF Shown
  <2>2. player'[p].answer # "url"
    BY <1>1, <1>2, <1>3 DEF OnceBy
  <2> QED BY <1>4, <2>1, <2>2 DEF KeptBy, Waits
<1>9. StopInv'
  <2>1. NoOne' <=> NoOne
    BY <1>3 DEF NoOne, Responsible, Stops
  <2>2. Sends /\ Clean /\ Answered /\ Wiped
    BY DEF SessionInv, StopInv
  <2>3. Sends' /\ Clean' /\ Answered'
    BY <1>2, <2>1, <2>2, LateGrows DEF Sends, Clean, Answered, Alive, Active
  <2>4. \A h \in Players : (Alive(h)' <=> Alive(h)) /\ Magnet(h)' = Magnet(h)
    BY <1>2, <1>3 DEF Alive, Magnet
  <2>5. Wiped'
    BY <1>2, <2>1, <2>2, <2>4, LateGrows DEF Wiped
  <2> QED BY <2>3, <2>5 DEF StopInv
<1> QED BY <1>5, <1>6, <1>7, <1>8, <1>9 DEF SessionInv

LEMMA ConnectedKeepsInv ==
  ASSUME SessionInv, late \subseteq late', NEW p \in Players, Connected(p)
  PROVE  SessionInv'
<1>1. TypeOK /\ Once /\ OnceBy(p) /\ Kept /\ conn \in [Players -> {"none", "pending", "up"}]
      /\ inbox \in Seq(Message)
  BY TypesAre DEF SessionInv, Once
<1> DEFINE t == Append(inbox, [what |-> "START", of |-> p, delete |-> FALSE])
<1>2. /\ conn[p] = "pending" /\ conn' = [conn EXCEPT ![p] = "up"] /\ messenger' = TRUE
      /\ inbox' = t /\ LateCall(p, "bind")
      /\ UNCHANGED <<player, connRef, disk, outbox, job, run, torrent, alerts, engine, listening,
                    wipes, troubles>>
  BY DEF Connected, ClientKeeps, engineVars
<1>3. /\ t \in Seq(Message) /\ t # <<>>
      /\ LastOf(t) = [what |-> "START", of |-> p, delete |-> FALSE]
      /\ \A q \in Players : StartIn(t, q) <=> (StartIn(inbox, q) \/ q = p)
      /\ OneStart(inbox) /\ ~StartIn(inbox, p) => OneStart(t)
  BY <1>1, StartIsAppended
<1> HIDE DEF t
<1>4. LastOf(t).what = "START" /\ LastOf(t).of = p
  BY <1>3
<1>5. run[p].pc = "none" /\ ~StartIn(inbox, p) /\ player[p].screen # "none"
      /\ player[p].call \notin {"stop", "bind"} /\ Magnet(p) \in Magnets
  BY <1>1, <1>2 DEF OnceBy
<1>6. conn' \in [Players -> {"none", "pending", "up"}] /\ conn'[p] = "up"
      /\ \A q \in Players : q # p => conn'[q] = conn[q]
  BY <1>1, <1>2
<1>7. TypeOK'
  <2>1. late' \subseteq Late /\ upset' \subseteq Players
    BY <1>1, <1>2, LateCallIs
  <2> QED BY <1>1, <1>2, <1>3, <1>6, <2>1, TypesAre, TypesMake
<1>8. Once'
  <2>1. OneStart(inbox')
    BY <1>1, <1>2, <1>3, <1>5 DEF Once
  <2> SUFFICES ASSUME NEW q \in Players
               PROVE  OnceBy(q)'
    BY <2>1 DEF Once
  <2>2. OnceBy(q) /\ Magnet(q)' = Magnet(q)
    BY <1>1, <1>2 DEF Once, Magnet
  <2>3. CASE q = p
    BY <1>2, <1>5, <1>6, <2>2, <2>3 DEF OnceBy
  <2>4. CASE q # p
    <3>1. StartIn(inbox', q) => StartIn(inbox, q)
      BY <1>2, <1>3, <2>4
    <3> QED BY <1>2, <1>6, <2>2, <2>4, <3>1, OnceStays
  <2> QED BY <2>3, <2>4
<1>9. EngineInv'
  BY <1>2, EngineIsLeft
<1>10. Kept'
  <2> SUFFICES ASSUME Orderly, NEW q \in Shown, q \notin upset',
                      player[q].call = "wait" \/ player[q].answer = "url"
               PROVE  Waits(q)'
    BY <1>2, LateGrows DEF Kept, Shown, KeptBy
  <2>1. q = p /\ upset' = upset
    BY <1>1, <1>2, LateCallIs DEF Shown
  <2>2. Waits(p) \/ Served(p)
    BY <1>1, <2>1 DEF Kept, KeptBy
  <2>3. player[p].answer # "url"
    BY <1>5, <2>2 DEF Waits, Served
  <2> QED BY <1>2, <1>3, <1>4, <2>1, <2>3 DEF Waits
<1>11. StopInv'
  <2>1. NoOne' <=> NoOne
    BY <1>2 DEF NoOne, Responsible, Stops
  <2>2. Owned' => ~NoOne
    <3>1. Overdue(p) => "bind" \in late'
      BY <1>1, <1>2, LateCallIs
    <3> QED BY <1>1, <1>2, <3>1, InTimeIsResponsible DEF Owned
  <2> QED BY <1>2, <1>4, <2>1, <2>2, LateGrows DEF StopInv, Sends, Clean, Answered, Wiped
<1> QED BY <1>7, <1>8, <1>9, <1>10, <1>11 DEF SessionInv

LEMMA TakeReplyKeepsInv ==
  ASSUME SessionInv, late \subseteq late', TakeReply
  PROVE  SessionInv'
<1>1. TypeOK /\ Once /\ Kept /\ player \in [Players -> PlayerType] /\ outbox \in Seq(Reply)
  BY TypesAre DEF SessionInv
<1> DEFINE r == Head(outbox)
<1>2. /\ outbox # <<>> /\ outbox' = Tail(outbox)
      /\ player' = IF player[r.of].call # "wait" THEN player
                   ELSE [player EXCEPT ![r.of].call = "idle",
                                       ![r.of].answer = IF r.what = "READY" THEN "url" ELSE "error"]
      /\ UNCHANGED <<conn, connRef, messenger, upset, inbox, job, run, torrent, alerts, engine,
                    listening, disk, wipes, troubles, late>>
  BY DEF TakeReply, engineVars
<1>3. /\ r \in Reply /\ outbox' \in Seq(Reply)
      /\ ReplyIn(outbox, r.of) /\ (r.what = "READY" => ReadyIn(outbox, r.of))
      /\ \A q \in Players : ReplyIn(outbox', q) => ReplyIn(outbox, q)
      /\ \A q \in Players : ReadyIn(outbox', q) => ReadyIn(outbox, q)
  BY <1>1, <1>2, ReplyIsTaken
<1>4. r.of \in Players
  BY <1>3 DEF Reply
<1> HIDE DEF r
<1>5. /\ player' \in [Players -> PlayerType]
      /\ \A q \in Players :
           /\ player'[q].screen = player[q].screen /\ player'[q].magnet = player[q].magnet
           /\ player'[q].handedOff = player[q].handedOff
           /\ \/ player'[q] = player[q]
              \/ /\ q = r.of /\ player[q].call = "wait" /\ player'[q].call = "idle"
                 /\ player'[q].answer = "url" => r.what = "READY"
  <2>1. CASE player[r.of].call # "wait"
    BY <1>1, <1>2, <2>1
  <2>2. CASE player[r.of].call = "wait"
    <3>1. PICK answer \in {"url", "error"} :
            /\ player' = [player EXCEPT ![r.of].call = "idle", ![r.of].answer = answer]
            /\ answer = "url" => r.what = "READY"
      BY <1>2, <2>2
    <3> QED BY <1>1, <1>4, <2>2, <3>1 DEF PlayerType, Calls, Answers
  <2> QED BY <2>1, <2>2
<1>6. TypeOK'
  BY <1>1, <1>2, <1>3, <1>5, TypesAre, TypesMake
<1>7. Once'
  <2> SUFFICES ASSUME NEW q \in Players
               PROVE  OnceBy(q)'
    BY <1>1, <1>2 DEF Once
  <2>1. OnceBy(q) /\ (player[q].call = "wait" => player[q].screen # "none")
    BY <1>1, ShownOnceCalled DEF Once
  <2> QED BY <1>2, <1>3, <1>5, <2>1, OnceStays
<1>8. EngineInv'
  BY <1>2, EngineIsLeft
<1>9. Kept'
  <2> SUFFICES ASSUME Orderly, NEW q \in Shown \ upset
               PROVE  KeptBy(q)'
    BY <1>2, <1>5, LateGrows DEF Kept, Shown
  <2>1. KeptBy(q) /\ OnceBy(q) /\ q \in Players
    BY <1>1, <1>2 DEF Kept, Shown, Once
  <2>2. CASE player'[q] = player[q]
    <3>1. Waits(q) => Waits(q)'
      BY <1>2, <2>2 DEF Waits
    <3>2. Served(q) => Served(q)'
      BY <1>2, <1>3, <2>1, <2>2 DEF Served, Alive
    <3> QED BY <2>1, <2>2, <3>1, <3>2 DEF KeptBy
  <2>3. CASE player'[q] # player[q]
    <3>1. q = r.of /\ player[q].call = "wait" /\ player'[q].call = "idle"
          /\ (player'[q].answer = "url" => r.what = "READY")
      BY <1>5, <2>1, <2>3
    <3> SUFFICES ASSUME r.what = "READY"
                 PROVE  Served(q)'
      BY <3>1 DEF KeptBy
    <3>2. run[q].pc = "end" /\ ReadyIn(outbox, q)
      BY <1>3, <2>1, <3>1 DEF OnceBy
    <3>3. Served(q)
      BY <1>1, <2>1, <3>1, <3>2, WaitsHasNoRun DEF KeptBy
    <3> QED BY <1>2, <3>2, <3>3 DEF Served, Alive
  <2> QED BY <2>2, <2>3
<1>10. StopInv'
  <2>1. NoOne' <=> NoOne
    BY <1>5 DEF NoOne, Responsible, Stops
  <2>2. Sends /\ Clean /\ Answered /\ Wiped
    BY DEF SessionInv, StopInv
  <2>3. Sends' /\ Clean' /\ Answered'
    BY <1>2, <2>1, <2>2, LateGrows DEF Sends, Clean, Answered, Alive, Active
  <2>4. \A h \in Players : (Alive(h)' <=> Alive(h)) /\ Magnet(h)' = Magnet(h)
    BY <1>2, <1>5 DEF Alive, Magnet
  <2>5. Wiped'
    BY <1>2, <2>1, <2>2, <2>4, LateGrows DEF Wiped
  <2> QED BY <2>3, <2>5 DEF StopInv
<1> QED BY <1>6, <1>7, <1>8, <1>9, <1>10 DEF SessionInv

-----------------------------------------------------------------------------
(* A step of a player *)

\* A player that stays what it is for its torrent.
Stays(q) ==
  /\ player[q].screen # "none" /\ player'[q].screen # "none"
  /\ player'[q].magnet = player[q].magnet
  /\ player'[q].call # "idle" => player[q].call # "idle"
  /\ player'[q].call \in {"stop", "bind"} =>
       player[q].call \in {"stop", "bind"} /\ player'[q].answer \in {player[q].answer, "none"}

\* One that comes on screen.
Opens(q) ==
  /\ player[q].screen = "none" /\ player'[q].screen = "shown"
  /\ player'[q].call \in {"idle", "stop"} /\ player'[q].answer = "none"
  /\ player'[q].call = "stop" => player'[q].magnet \in Magnets

LEMMA OpensOnce ==
  ASSUME NEW q \in Players, OnceBy(q), Opens(q),
         UNCHANGED <<run, torrent, listening, inbox, outbox, conn>>
  PROVE  OnceBy(q)'
<1>1. /\ player[q].call = "idle" /\ conn[q] = "none" /\ run[q].pc = "none" /\ ~StartIn(inbox, q)
      /\ torrent[q] = "none" /\ q \notin listening /\ ~ReplyIn(outbox, q)
  BY DEF OnceBy, Opens
<1>2. conn'[q] # "none" \/ player'[q].call # "idle" \/ StartIn(inbox', q) \/ run'[q].pc # "none"
       => Magnet(q)' \in Magnets
  BY <1>1 DEF Opens, Magnet
<1> QED BY <1>1, <1>2 DEF OnceBy, Opens

LEMMA ScreenKeepsInv ==
  ASSUME SessionInv, late \subseteq late', player' \in [Players -> PlayerType], late' \subseteq Late,
         UNCHANGED <<conn, connRef, messenger, upset, inbox, disk, outbox, job, engineVars, wipes,
                    troubles>>,
         \A q \in Players : player'[q] = player[q] \/ Stays(q) \/ Opens(q),
         \A q \in Players : player'[q].screen = "shown" =>
           \/ Opens(q)
           \/ /\ player[q].screen = "shown"
              /\ player'[q].call = player[q].call /\ player'[q].answer = player[q].answer,
         Owned' /\ NoOne' => NoOne /\ \A q \in Players : ~Opens(q)
  PROVE  SessionInv'
<1>1. TypeOK /\ Once /\ Kept /\ Sends /\ Clean /\ Answered /\ Wiped
  BY DEF SessionInv, StopInv
<1>2. UNCHANGED <<conn, connRef, messenger, upset, inbox, disk, outbox, job, run, torrent, alerts,
                 engine, listening, wipes, troubles>>
  BY DEF engineVars
<1>3. TypeOK'
  BY <1>1, <1>2, TypesAre, TypesMake
<1>4. Once'
  <2> SUFFICES ASSUME NEW q \in Players
               PROVE  OnceBy(q)'
    BY <1>1, <1>2 DEF Once
  <2>1. OnceBy(q)
    BY <1>1 DEF Once
  <2> QED BY <1>2, <2>1, OnceStays, OpensOnce DEF Stays
<1>5. EngineInv'
  BY <1>2, EngineIsLeft
<1>6. Kept'
  <2> SUFFICES ASSUME Orderly, NEW q \in Players, player'[q].screen = "shown", q \notin upset
               PROVE  KeptBy(q)'
    BY <1>2, LateGrows DEF Kept, Shown
  <2>1. CASE Opens(q)
    BY <2>1 DEF Opens, KeptBy
  <2>2. CASE player[q].screen = "shown" /\ player'[q].call = player[q].call
             /\ player'[q].answer = player[q].answer
    <3>1. KeptBy(q)
      BY <1>1, <2>2 DEF Kept, Shown
    <3>2. Waits(q) => Waits(q)'
      BY <1>2, <2>2 DEF Waits
    <3>3. Served(q) => Served(q)'
      BY <1>2, <2>2 DEF Served, Alive
    <3> QED BY <2>2, <3>1, <3>2, <3>3 DEF KeptBy
  <2> QED BY <2>1, <2>2
<1>7. StopInv'
  <2>1. Sends' /\ Clean' /\ Answered'
    BY <1>1, <1>2, LateGrows DEF Sends, Clean, Answered, Alive, Active
  <2>2. Wiped'
    <3> SUFFICES ASSUME WipedInTime', WipedInTime, Owned', NoOne', wipes
                 PROVE  /\ \A m \in disk : \E h \in Players : Alive(h)' /\ Magnet(h)' = m
                        /\ inbox # <<>> => LastOf(inbox).delete
      BY <1>2, LateGrows DEF Wiped
    <3>1. \A h \in Players : (Alive(h)' <=> Alive(h)) /\ Magnet(h)' = Magnet(h)
      BY <1>2 DEF Alive, Magnet, Stays
    <3> QED BY <1>1, <3>1 DEF Wiped
  <2> QED BY <2>1, <2>2 DEF StopInv
<1> QED BY <1>3, <1>4, <1>5, <1>6, <1>7 DEF SessionInv

LEMMA WipingKeepsInv ==
  ASSUME SessionInv, late \subseteq late', player' \in [Players -> PlayerType],
         late' \subseteq Late, upset' \subseteq Players, troubles' \in 0..MaxTroubles,
         ClientStop(wipes), Wipe, LateWipe \subseteq late',
         UNCHANGED <<outbox, job, engineVars, wipes>>,
         \A q \in Players : player'[q] = player[q] \/ Stays(q),
         \A q \in Players : player'[q].screen = "shown" => q \in upset'
  PROVE  SessionInv'
<1>1. TypeOK /\ Once /\ wipes \in BOOLEAN
  BY TypesAre DEF SessionInv
<1>2. UNCHANGED <<outbox, job, run, torrent, alerts, engine, listening, wipes>>
  BY DEF engineVars
<1>3. /\ inbox' \in Seq(Message) /\ conn' \in [Players -> {"none", "pending", "up"}]
      /\ connRef' = None /\ messenger' \in BOOLEAN
      /\ \A q \in Players : conn'[q] \in {conn[q], "none"}
      /\ \A q \in Players : StartIn(inbox', q) <=> StartIn(inbox, q)
      /\ OneStart(inbox')
  BY <1>1, ClientStopDoes DEF Once
<1>4. TypeOK'
  <2>1. disk' \subseteq Magnets
    BY <1>1, TypesAre DEF Wipe
  <2> QED BY <1>1, <1>2, <1>3, <2>1, TypesAre, TypesMake
<1>5. Once'
  <2> SUFFICES ASSUME NEW q \in Players
               PROVE  OnceBy(q)'
    BY <1>3 DEF Once
  <2>1. OnceBy(q)
    BY <1>1 DEF Once
  <2> QED BY <1>2, <1>3, <2>1, OnceStays DEF Stays
<1>6. EngineInv'
  BY <1>2, EngineIsLeft
<1>7. Kept'
  BY DEF Kept, Shown
<1>8. StopInv'
  BY <1>1, <1>2, WipeIsTold, StopIsSaid
<1> QED BY <1>4, <1>5, <1>6, <1>7, <1>8 DEF SessionInv

\* One player at most is on screen.
OneOnScreen == \A p, q \in Shown : p = q

LEMMA LateWipeIs == LateWipe \subseteq Late
  BY DEF LateWipe, Late

LEMMA PlayerStepKeepsInv ==
  ASSUME SessionInv, OneOnScreen, late \subseteq late', NEW p \in Players, PlayerStep(p)
  PROVE  SessionInv' /\ OneOnScreen'
<1>1. TypeOK /\ Once /\ player \in [Players -> PlayerType] /\ wipes \in BOOLEAN
      /\ upset \subseteq Players /\ troubles \in 0..MaxTroubles /\ late \subseteq Late
  BY TypesAre DEF SessionInv
<1>2. \A q \in Players : player[q].screen = "none" =>
        player[q].call = "idle" /\ player[q].answer = "none" /\ ~player[q].handedOff
  BY <1>1 DEF Once, OnceBy
\* The record of a player that comes on screen.
<1>3. ASSUME NEW q \in Players, player[q].screen = "none", NEW m \in Magnets \cup {Direct}
      PROVE  /\ Opened(q, m) \in PlayerType /\ Opened(q, m).screen = "shown"
             /\ Opened(q, m).magnet = m /\ Opened(q, m).answer = "none" /\ ~Opened(q, m).handedOff
             /\ Opened(q, m).call = IF m = Direct THEN "idle" ELSE "stop"
  <2>1. player[q] \in PlayerType
    BY <1>1
  <2> QED BY <1>2, <1>3, <2>1 DEF Opened, PlayerType, Screens, Calls
<1>4. ASSUME NEW m \in Magnets \cup {Direct}, Open(p, m)
      PROVE  SessionInv' /\ OneOnScreen'
  <2>1. /\ player[p].screen = "none" /\ m # Direct /\ Shown = {}
        /\ player' = [player EXCEPT ![p] = Opened(p, m)]
        /\ UNCHANGED <<conn, connRef, messenger, upset, inbox, disk, outbox, job, engineVars, wipes,
                      troubles, late>>
    BY <1>4 DEF Open, CanOpen, ScreenKeeps
  <2>2. player' \in [Players -> PlayerType] /\ player'[p] = Opened(p, m)
        /\ \A q \in Players : q # p => player'[q] = player[q]
    BY <1>1, <1>3, <2>1
  <2>3. Opens(p)
    BY <1>3, <2>1, <2>2 DEF Opens
  <2>4. ~NoOne'
    <3>1. Responsible(p)'
      BY <1>3, <2>1, <2>2 DEF Responsible, Stops
    <3> QED BY <3>1 DEF NoOne
  <2>5. \A q \in Players : player'[q].screen = "shown" => q = p
    BY <2>1, <2>2 DEF Shown
  <2>6. late' \subseteq Late /\ late \subseteq late'
    BY <1>1, <2>1
  <2>7. SessionInv'
    BY <2>1, <2>2, <2>3, <2>4, <2>5, <2>6, ScreenKeepsInv
  <2> QED BY <2>5, <2>7 DEF OneOnScreen, Shown
<1>5. ASSUME NEW m \in Magnets \cup {Direct}, NEW n \in Players, HandOver(p, n, m)
      PROVE  SessionInv' /\ OneOnScreen'
  <2>1. /\ player[p].screen = "shown" /\ player[n].screen = "none"
        /\ player' = [player EXCEPT ![p].screen = "leaving", ![p].handedOff = TRUE,
                                    ![p].next = FALSE, ![n] = Opened(n, m)]
        /\ late' = late \cup (IF m = Direct THEN {"direct"} ELSE {})
        /\ UNCHANGED <<conn, connRef, messenger, upset, inbox, disk, outbox, job, engineVars, wipes,
                      troubles>>
    BY <1>5 DEF HandOver, CanOpen, ScreenKeeps
  <2>2. /\ player' \in [Players -> PlayerType] /\ player'[n] = Opened(n, m)
        /\ player'[p].screen = "leaving" /\ player'[p].magnet = player[p].magnet
        /\ player'[p].call = player[p].call /\ player'[p].answer = player[p].answer
        /\ \A q \in Players : q # p /\ q # n => player'[q] = player[q]
    <3>1. Opened(n, m) \in PlayerType
      BY <1>3, <2>1
    <3> DEFINE left == [player EXCEPT ![p].screen = "leaving", ![p].handedOff = TRUE, ![p].next = FALSE]
    <3>2. /\ left \in [Players -> PlayerType] /\ left[p].screen = "leaving"
          /\ left[p].magnet = player[p].magnet /\ left[p].call = player[p].call
          /\ left[p].answer = player[p].answer /\ \A q \in Players : q # p => left[q] = player[q]
      BY <1>1 DEF PlayerType, Screens
    <3>3. player' = [left EXCEPT ![n] = Opened(n, m)]
      BY <2>1
    <3> HIDE DEF left, Opened
    <3> QED BY <2>1, <3>1, <3>2, <3>3
  <2>3. Opens(n) /\ Stays(p)
    BY <1>1, <1>3, <2>1, <2>2 DEF Opens, Stays
  <2>4. Owned' => ~NoOne'
    <3>1. m # Direct => Responsible(n)'
      BY <1>3, <2>1, <2>2 DEF Responsible, Stops
    <3> QED BY <2>1, <3>1 DEF NoOne, Owned
  <2>5. \A q \in Players : player'[q].screen = "shown" => q = n
    BY <2>1, <2>2 DEF Shown, OneOnScreen
  <2>6. late' \subseteq Late /\ late \subseteq late'
    BY <1>1, <2>1 DEF Late
  <2>7. SessionInv'
    BY <2>1, <2>2, <2>3, <2>4, <2>5, <2>6, ScreenKeepsInv
  <2> QED BY <2>5, <2>7 DEF OneOnScreen, Shown
\* A player that leaves or looks for the next one, and tells the client nothing.
<1>6. ASSUME NEW screen \in {"shown", "leaving"}, NEW next \in BOOLEAN, player[p].screen = "shown",
             player' = [player EXCEPT ![p].screen = screen, ![p].next = next],
             UNCHANGED <<conn, connRef, messenger, upset, inbox, disk, outbox, job, engineVars, wipes,
                        troubles, late>>
      PROVE  SessionInv' /\ OneOnScreen'
  <2>1. /\ player' \in [Players -> PlayerType] /\ player'[p].screen = screen
        /\ player'[p].magnet = player[p].magnet /\ player'[p].call = player[p].call
        /\ player'[p].answer = player[p].answer /\ player'[p].handedOff = player[p].handedOff
        /\ \A q \in Players : q # p => player'[q] = player[q]
    BY <1>1, <1>6 DEF PlayerType, Screens
  <2>2. Stays(p)
    BY <1>6, <2>1 DEF Stays
  <2>3. \A q \in Players : ~Opens(q)
    BY <1>6, <2>1 DEF Opens
  <2>4. NoOne' => NoOne
    BY <1>6, <2>1 DEF NoOne, Responsible, Stops
  <2>5. late' \subseteq Late /\ late \subseteq late'
    BY <1>1, <1>6
  <2>6. SessionInv'
    BY <1>6, <2>1, <2>2, <2>3, <2>4, <2>5, ScreenKeepsInv
  <2> QED BY <1>6, <2>1, <2>6 DEF OneOnScreen, Shown
<1>7. CASE Leave(p)
  BY <1>6, <1>7 DEF Leave, ScreenKeeps
<1>8. CASE NoSource(p)
  <2>1. player' = [player EXCEPT ![p].screen = "shown", ![p].next = FALSE] /\ player[p].screen = "shown"
    BY <1>1, <1>8 DEF NoSource, PlayerType
  <2> QED BY <1>6, <1>8, <2>1 DEF NoSource, ScreenKeeps
<1>9. CASE PlayNext(p) /\ ~wipes
  <2>1. player' = [player EXCEPT ![p].screen = "shown", ![p].next = TRUE] /\ player[p].screen = "shown"
    BY <1>1, <1>9 DEF PlayNext, PlayerType
  <2> QED BY <1>6, <1>9, <2>1 DEF PlayNext, ScreenKeeps
<1>10. CASE PlayNext(p) /\ wipes
  <2>1. wipes = TRUE
    BY <1>1, <1>10
  <2>2. /\ player[p].screen = "shown" /\ player' = [player EXCEPT ![p].next = TRUE]
        /\ ClientStop(wipes) /\ Wipe /\ upset' = upset \cup {p} /\ late' = late \cup LateWipe
        /\ UNCHANGED <<outbox, job, engineVars, wipes, troubles>>
    BY <1>10, <2>1 DEF PlayNext, ScreenKeeps
  <2>3. /\ player' \in [Players -> PlayerType] /\ player'[p].screen = "shown"
        /\ player'[p].magnet = player[p].magnet /\ player'[p].call = player[p].call
        /\ player'[p].answer = player[p].answer
        /\ \A q \in Players : q # p => player'[q] = player[q]
    BY <1>1, <2>2 DEF PlayerType
  <2>4. Stays(p)
    BY <2>2, <2>3 DEF Stays
  <2>5. \A q \in Players : player'[q].screen = "shown" => q = p
    BY <2>2, <2>3 DEF OneOnScreen, Shown
  <2>6. /\ late' \subseteq Late /\ LateWipe \subseteq late' /\ late \subseteq late'
        /\ upset' \subseteq Players /\ troubles' \in 0..MaxTroubles
    BY <1>1, <2>2, LateWipeIs
  <2>7. SessionInv'
    BY <2>2, <2>3, <2>4, <2>5, <2>6, WipingKeepsInv
  <2> QED BY <2>5, <2>7 DEF OneOnScreen, Shown
<1>11. CASE Destroy(p)
  <2>1. /\ player[p].screen = "leaving"
        /\ player' = [player EXCEPT ![p].screen = "gone", ![p].handedOff = FALSE, ![p].answer = "none",
                                    ![p].call = IF @ = "wait" THEN "idle" ELSE @]
        /\ UNCHANGED <<outbox, job, engineVars, wipes, troubles>>
    BY <1>11 DEF Destroy, ScreenKeeps
  <2>2. /\ player' \in [Players -> PlayerType] /\ player'[p].screen = "gone"
        /\ player'[p].magnet = player[p].magnet /\ player'[p].answer = "none"
        /\ player'[p].call = IF player[p].call = "wait" THEN "idle" ELSE player[p].call
        /\ \A q \in Players : q # p => player'[q] = player[q]
    <3> DEFINE call == IF player[p].call = "wait" THEN "idle" ELSE player[p].call
    <3>1. call \in Calls
      BY <1>1 DEF PlayerType, Calls
    <3>2. player' = [player EXCEPT ![p].screen = "gone", ![p].handedOff = FALSE,
                                   ![p].answer = "none", ![p].call = call]
      BY <1>1, <2>1 DEF PlayerType
    <3> HIDE DEF call
    <3> DEFINE r == [player[p] EXCEPT !.screen = "gone", !.handedOff = FALSE, !.answer = "none",
                                      !.call = call]
    <3>3. player[p] \in PlayerType
      BY <1>1
    <3>4. /\ r \in PlayerType /\ r.screen = "gone" /\ r.magnet = player[p].magnet
          /\ r.answer = "none" /\ r.call = call
      BY <3>1, <3>3 DEF PlayerType, Screens, Answers
    <3>5. player' = [player EXCEPT ![p] = r]
      BY <3>2
    <3> HIDE DEF r
    <3>6. /\ player' \in [Players -> PlayerType] /\ player'[p].screen = "gone"
          /\ player'[p].magnet = player[p].magnet /\ player'[p].answer = "none"
          /\ player'[p].call = call
      BY <1>1, <3>4, <3>5
    <3>7. \A q \in Players : q # p => player'[q] = player[q]
      BY <1>1, <3>2
    <3> QED BY <3>6, <3>7 DEF call
  <2>3. Stays(p)
    BY <2>1, <2>2 DEF Stays
  <2>4. \A q \in Players : player'[q].screen = "shown" => q # p /\ q \in Shown
    BY <2>2 DEF Shown
  <2>5. OneOnScreen'
    BY <2>4 DEF OneOnScreen, Shown
  <2>6. CASE Stops(p)
    <3>1. /\ ClientStop(wipes) /\ Wipe
          /\ late' = late \cup LateWipe \cup (IF EndsLate(p) THEN {"call"} ELSE {})
          /\ upset' = upset \cup (IF EndsLate(p) THEN Shown ELSE {})
      BY <1>11, <2>6 DEF Destroy
    <3>2. late' \subseteq Late /\ LateWipe \subseteq late' /\ late \subseteq late'
      BY <1>1, <3>1, LateWipeIs DEF Late
    <3>3. upset' \subseteq Players
      BY <1>1, <3>1 DEF Shown
    <3>4. \A q \in Players : player'[q].screen = "shown" => q \in upset'
      BY <2>4, <2>6, <3>1 DEF EndsLate, Overdue, Stops, Shown
    <3>5. troubles' \in 0..MaxTroubles
      BY <1>1, <2>1
    <3>6. SessionInv'
      BY <2>1, <2>2, <2>3, <3>1, <3>2, <3>3, <3>4, <3>5, WipingKeepsInv
    <3> QED BY <2>5, <3>6
  <2>7. CASE ~Stops(p)
    <3>1. UNCHANGED <<inbox, messenger, conn, connRef, disk, late, upset>>
      BY <1>11, <2>7 DEF Destroy
    <3>2. \A q \in Players : ~Opens(q)
      BY <2>2 DEF Opens
    <3>3. NoOne' => NoOne
      BY <2>2, <2>7 DEF NoOne, Responsible, Stops
    <3>4. late' \subseteq Late /\ late \subseteq late'
      BY <1>1, <3>1
    <3>5. SessionInv'
      BY <2>1, <2>2, <2>3, <2>4, <3>1, <3>2, <3>3, <3>4, ScreenKeepsInv DEF Shown
    <3> QED BY <2>5, <3>5
  <2> QED BY <2>6, <2>7
<1> QED BY <1>4, <1>5, <1>7, <1>8, <1>9, <1>10, <1>11 DEF PlayerStep

LEMMA AwayKeepsInv ==
  ASSUME SessionInv, late \subseteq late', Away
  PROVE  SessionInv'
<1>1. /\ TypeOK /\ player \in [Players -> PlayerType] /\ upset \subseteq Players
      /\ troubles \in 0..MaxTroubles /\ late \subseteq Late
  BY TypesAre DEF SessionInv
<1>2. /\ troubles < MaxTroubles /\ troubles' = troubles + 1 /\ ClientStop(wipes) /\ Wipe
      /\ upset' = upset \cup Shown /\ late' = late \cup LateWipe
      /\ UNCHANGED <<player, outbox, job, engineVars, wipes>>
  BY DEF Away, ScreenKeeps
<1>3. troubles' \in 0..MaxTroubles
  BY <1>1, <1>2, SessionAssumption
<1>4. late' \subseteq Late /\ LateWipe \subseteq late' /\ late \subseteq late' /\ upset' \subseteq Players
  BY <1>1, <1>2, LateWipeIs DEF Shown
<1>5. \A q \in Players : player'[q] = player[q] /\ (player'[q].screen = "shown" => q \in upset')
  BY <1>2 DEF Shown
<1> QED BY <1>1, <1>2, <1>3, <1>4, <1>5, WipingKeepsInv

-----------------------------------------------------------------------------
(* The invariant, and what it is for *)

\* Only players come on screen, and go.
LEMMA ScreensStay ==
  ASSUME TypeOK, OneOnScreen, \A q \in Players : player'[q].screen = player[q].screen
  PROVE  OneOnScreen'
  BY DEF OneOnScreen, Shown

LEMMA InitInv ==
  ASSUME Init
  PROVE  SessionInv /\ OneOnScreen
<1>1. /\ player = [p \in Players |-> [screen |-> "none", magnet |-> None, call |-> "idle",
                                      answer |-> "none", next |-> FALSE, handedOff |-> FALSE]]
      /\ conn = [p \in Players |-> "none"] /\ connRef = None /\ messenger = FALSE
      /\ inbox = <<>> /\ outbox = <<>> /\ alerts = <<>>
      /\ job = None /\ run = [p \in Players |-> NoRun] /\ torrent = [p \in Players |-> "none"]
      /\ engine = NoEngine /\ listening = {} /\ disk = {} /\ wipes \in BOOLEAN /\ troubles = 0
      /\ late = {} /\ upset = {}
  BY DEF Init
<1>2. \A p \in Players : player[p].screen = "none" /\ run[p] = NoRun /\ torrent[p] = "none"
                         /\ player[p].call = "idle" /\ player[p].answer = "none"
                         /\ ~player[p].handedOff /\ conn[p] = "none"
  BY <1>1
<1>3. \A p \in Players : run[p].pc = "none" /\ ~Active(p) /\ ~Alive(p)
  BY <1>2 DEF NoRun, Active, Alive
<1>4. TypeOK
  <2>1. player \in [Players -> PlayerType]
    BY <1>1 DEF PlayerType, Screens, Calls, Answers
  <2>2. run \in [Players -> RunType] /\ torrent \in [Players -> TorrentStates]
    BY <1>1 DEF NoRun, RunType, RunPlaces, TorrentStates
  <2>3. engine \in EngineType
    BY <1>1, NoEngineIs
  <2>4. troubles \in 0..MaxTroubles
    BY <1>1, SessionAssumption
  <2>5. conn \in [Players -> {"none", "pending", "up"}]
    BY <1>1
  <2>6. inbox \in Seq(Message) /\ outbox \in Seq(Reply) /\ alerts \in Seq(Alert)
    BY <1>1
  <2> QED BY <1>1, <2>1, <2>2, <2>3, <2>4, <2>5, <2>6 DEF TypeOK, PlayerType, RunType, EngineType
<1>5. Once
  <2>1. OneStart(inbox) /\ \A p \in Players : ~StartIn(inbox, p) /\ ~ReplyIn(outbox, p)
    BY <1>1, NothingIn
  <2> QED BY <1>1, <1>2, <1>3, <2>1 DEF Once, OnceBy
<1>6. EngineInv
  BY <1>1, <1>3 DEF EngineInv, OneRun, Own, Fresh
<1>7. Shown = {}
  BY <1>2 DEF Shown
<1>8. StopInv
  BY <1>1, <1>3 DEF StopInv, Sends, Clean, Answered, Wiped
<1> QED BY <1>4, <1>5, <1>6, <1>7, <1>8 DEF SessionInv, Kept, OneOnScreen

\* No step makes up for what came too late.
LEMMA NextIsLater ==
  ASSUME Next
  PROVE  late \subseteq late'
<1>1. ASSUME NEW p \in Players, RunStep(p)
      PROVE  late \subseteq late'
  BY <1>1 DEF RunStep, Begin, StopFirst, Add, AddFails, Cancelled, SeesMetadata, NoMetadata, ChooseFile,
     NoFile, Filled, NotFilled, NobodySends, Serve, Replies, GivesUp, LateStop
<1>2. ASSUME NEW p \in Players, ClientStep(p)
      PROVE  late \subseteq late'
  BY <1>2 DEF ClientStep, StartStops, StartBinds, Connected, Watchdog, LateCall
<1>3. ASSUME NEW p \in Players, PlayerStep(p)
      PROVE  late \subseteq late'
  BY <1>3 DEF PlayerStep, Open, HandOver, Leave, PlayNext, NoSource, Destroy
<1>4. ASSUME NEW p \in Players, GetsInfo(p) \/ GetsPieces(p)
      PROVE  late \subseteq late'
  BY <1>4 DEF GetsInfo, GetsPieces
<1>5. CASE TakeReply \/ HandleStart \/ HandleStop \/ SeeAlert \/ Crash \/ Away
  BY <1>5 DEF TakeReply, HandleStart, HandleStop, SeeAlert, Crash, Away, LateStop
<1> QED BY <1>1, <1>2, <1>3, <1>4, <1>5 DEF Next

LEMMA NextKeepsInv ==
  ASSUME SessionInv, OneOnScreen, Next
  PROVE  SessionInv' /\ OneOnScreen'
<1>1. late \subseteq late' /\ TypeOK /\ player \in [Players -> PlayerType]
  BY NextIsLater, TypesAre DEF SessionInv
<1>2. ASSUME NEW p \in Players, RunStep(p)
      PROVE  SessionInv' /\ OneOnScreen'
  BY <1>1, <1>2, RunKeepsInv, RunStepRan, ScreensStay DEF Ran
<1>3. ASSUME NEW p \in Players, ClientStep(p)
      PROVE  SessionInv' /\ OneOnScreen'
  <2>1. SessionInv'
    BY <1>1, <1>3, StartStopsKeepsInv, StartBindsKeepsInv, ConnectedKeepsInv DEF ClientStep
  <2>2. \A q \in Players : player'[q].screen = player[q].screen
    <3>1. ASSUME NEW call, player' = [player EXCEPT ![p].call = call]
          PROVE  \A q \in Players : player'[q].screen = player[q].screen
      BY <1>1, <3>1 DEF PlayerType
    <3>2. CASE StartStops(p)
      BY <3>1, <3>2 DEF StartStops
    <3>3. CASE StartBinds(p)
      BY <3>1, <3>3 DEF StartBinds
    <3>4. CASE Connected(p)
      BY <3>4 DEF Connected
    <3>5. CASE Watchdog(p)
      <4>1. player' = [player EXCEPT ![p].call = "idle", ![p].answer = "error"]
        BY <3>5 DEF Watchdog
      <4> QED BY <1>1, <4>1 DEF PlayerType
    <3> QED BY <1>3, <3>2, <3>3, <3>4, <3>5 DEF ClientStep
  <2> QED BY <1>1, <2>1, <2>2, ScreensStay
<1>4. ASSUME NEW p \in Players, GetsInfo(p) \/ GetsPieces(p)
      PROVE  SessionInv' /\ OneOnScreen'
  <2>1. SessionInv'
    BY <1>1, <1>4, TorrentStepKeepsInv
  <2>2. UNCHANGED player
    BY <1>4 DEF GetsInfo, GetsPieces, uiVars
  <2> QED BY <1>1, <2>1, <2>2, ScreensStay
<1>5. CASE TakeReply
  <2>1. SessionInv'
    BY <1>1, <1>5, TakeReplyKeepsInv
  <2>2. \A q \in Players : player'[q].screen = player[q].screen
    BY <1>1, <1>5 DEF TakeReply, PlayerType
  <2> QED BY <1>1, <2>1, <2>2, ScreensStay
<1>6. CASE HandleStart \/ HandleStop \/ SeeAlert \/ Away
  <2>1. SessionInv'
    BY <1>1, <1>6, HandleStartKeepsInv, HandleStopKeepsInv, AlertKeepsInv, AwayKeepsInv
  <2>2. UNCHANGED player
    BY <1>6 DEF HandleStart, HandleStop, SeeAlert, Away, uiVars
  <2> QED BY <1>1, <2>1, <2>2, ScreensStay
<1>7. CASE Crash
  <2>1. SessionInv'
    BY <1>1, <1>7, CrashKeepsInv
  <2>2. \A q \in Players : player'[q].screen = player[q].screen
    BY <1>1, <1>7 DEF Crash, PlayerType
  <2> QED BY <1>1, <2>1, <2>2, ScreensStay
<1>8. ASSUME NEW p \in Players, PlayerStep(p)
      PROVE  SessionInv' /\ OneOnScreen'
  BY <1>1, <1>8, PlayerStepKeepsInv
<1> QED BY <1>2, <1>3, <1>4, <1>5, <1>6, <1>7, <1>8 DEF Next

LEMMA StutterKeepsInv ==
  ASSUME SessionInv, OneOnScreen, UNCHANGED vars
  PROVE  SessionInv' /\ OneOnScreen'
<1>1. UNCHANGED <<player, conn, connRef, messenger, outbox, upset, run, torrent, alerts, engine,
                 listening, inbox, job, disk, wipes, troubles, late>>
  BY DEF vars, uiVars, engineVars
<1>2. Shown' = Shown /\ OneOnScreen'
  BY <1>1 DEF Shown, OneOnScreen
<1>3. TypeOK'
  BY <1>1, TypesAre, TypesMake DEF SessionInv
<1>4. SessionInv'
  <2>1. late \subseteq late'
    BY <1>1
  <2> QED BY <1>1, <1>3, <2>1, TorrentsKeepInv DEF Alive, uiVars
<1> QED BY <1>2, <1>4

\* Whatever happens, the invariant holds: each part of it as long as nothing came too late that
\* it does not bear.
THEOREM SessionInvariant == Spec => [](SessionInv /\ OneOnScreen)
<1>1. Init => SessionInv /\ OneOnScreen
  BY InitInv
<1>2. SessionInv /\ OneOnScreen /\ [Next]_vars => (SessionInv /\ OneOnScreen)'
  BY NextKeepsInv, StutterKeepsInv
<1> QED BY <1>1, <1>2, PTL DEF Spec

\* Every variable keeps its type, the messages between the processes among them.
THEOREM SessionTypeCorrect == Spec => []TypeOK
<1>1. SessionInv => TypeOK
  BY DEF SessionInv
<1> QED BY <1>1, SessionInvariant, PTL

\* A player that was told a URL plays the torrent it asked for, whatever was played, stopped, and
\* called for another player before it, as long as no cancelled start goes on and no stop misses
\* a torrent that was just added (LocalTorrentEngine.start).
THEOREM EachPlaysItsOwn == Spec => []PlaysWhatWasAsked
<1>1. SessionInv => PlaysWhatWasAsked
  <2> SUFFICES ASSUME SessionInv, NEW p \in Players, p \in listening, Orderly
               PROVE  /\ Magnet(run[p].file) = Magnet(p)
                      /\ LiveHandle # None => Magnet(LiveHandle) = Magnet(p)
    BY DEF PlaysWhatWasAsked
  <2>1. run[p].file = p /\ OnlyOf(p)
    BY DEF SessionInv, EngineInv, Own
  <2>2. LiveHandle # None => LiveHandle = p
    BY <2>1, LiveHandleIs DEF SessionInv, OnlyOf
  <2> QED BY <2>1, <2>2
<1> QED BY <1>1, SessionInvariant, PTL

\* A player on screen that has its URL keeps its torrent and its server, unless the service
\* crashed, the user left, it wiped what it played, or the client was called for another player:
\* no other stop, start or reply reaches it (TorrentService, PlayerActivity.onDestroy).
THEOREM TorrentsStay == Spec => []PlayerKeepsTorrent
<1>1. SessionInv => PlayerKeepsTorrent
  <2> SUFFICES ASSUME SessionInv, NEW p \in Shown \ upset, player[p].answer = "url", Orderly
               PROVE  p \in listening /\ Alive(run[p].file)
    BY DEF PlayerKeepsTorrent
  <2>1. Served(p)
    BY DEF SessionInv, Kept, KeptBy, Waits
  <2>2. Alive(p) /\ p \in listening
    BY <2>1 DEF Served
  <2> QED BY <2>2 DEF SessionInv, EngineInv, Own
<1> QED BY <1>1, SessionInvariant, PTL

\* When all players are closed and all is settled, no torrent and no server is left, and with
\* "Clear cache on exit" no piece: each but for what it names as coming too late. Stops for an
\* older player are not among that (PlayerActivity.onDestroy, TorrentClient).
THEOREM NothingStays == Spec => []NothingLeftBehind
<1>1. SessionInv => NothingLeftBehind
  <2> SUFFICES ASSUME SessionInv, Quiet
               PROVE  /\ Owned => (\A p \in Players : ~Alive(p)) /\ listening = {}
                      /\ WipedInTime /\ wipes => disk = {}
    BY DEF NothingLeftBehind, Owned, WipedInTime
  <2>1. NoOne /\ inbox = <<>>
    BY DEF Quiet, NoOne, Responsible
  <2>2. Owned => ~messenger
    BY <2>1 DEF SessionInv, StopInv, Answered
  <2>3. Owned => \A p \in Players : ~Alive(p) /\ p \notin listening
    BY <2>1, <2>2, InOrder DEF SessionInv, StopInv, Clean
  <2>4. listening \subseteq Players
    BY TypesAre DEF SessionInv
  <2>5. WipedInTime /\ wipes => disk = {}
    BY <2>1, <2>3, InOrder DEF SessionInv, StopInv, Wiped
  <2> QED BY <2>3, <2>4, <2>5
<1> QED BY <1>1, SessionInvariant, PTL
=============================================================================
