-------------------------- MODULE WatchProgressProofs --------------------------
(* Proofs about WatchProgress, for titles and queues of any length and any      *)
(* number of torrents, plays, marks and faults. What is saved reaches the       *)
(* server in pieces, so each promise about the server's rows holds once the     *)
(* saves still waiting are counted in: that is what the parts of ProgressInv    *)
(* say.                                                                         *)
EXTENDS MCWatchProgress, TLAPS, WellFoundedInduction

InParts == \A i \in DOMAIN queue : queue[i].ep \in Parts

\* The player looks for a next episode only where there is one.
LooksAhead == player.pc = "next" => player.ep < length

\* A finished episode's save is under way, and the parts in `parts` of it are to come.
Waiting(e, parts) ==
  \E i \in DOMAIN queue : queue[i].complete /\ queue[i].ep = e /\ (i > 1 \/ step \in parts)

\* A save near the end of an episode is followed by one that finishes it, unless it was left.
EndsAreFinished ==
  \A i \in DOMAIN queue : ~queue[i].complete /\ queue[i].pos >= Late =>
    \/ queue[i].ep \in lost \cup unseen
    \/ \E j \in DOMAIN queue : j > i /\ queue[j].complete /\ queue[j].ep = queue[i].ep

\* A title parked near the end is about to be moved.
MovesOn == title.pos >= Late => title.ep \in lost \cup unseen \/ Waiting(title.ep, {"title"})

\* What the player finished is marked as watched, or is about to be.
Watched ==
  \A e \in finished \ lost : e = 0 \/ e \in episodes \/ Waiting(e, {"title", "episode"})

\* Between the parts of a save the title's row already has its position.
HalfSaved ==
  step # "title" =>
    /\ queue # <<>> /\ torn
    /\ title.pos > Start =>
         /\ title.pos = Head(queue).pos /\ ~Head(queue).complete /\ title.ep = Head(queue).ep

\* Only what has a number is saved as an episode.
HasEpisode == step = "episode" => queue # <<>> /\ Head(queue).ep # 0

\* Between saves the newest bookmark agrees with the title's row.
Agree ==
  ~torn /\ title.pos > Start =>
    /\ bookmarks # <<>>
    /\ bookmarks[1].pos = title.pos /\ bookmarks[1].ep = title.ep

\* No save that would change a mark that has to stand is waiting.
Undisturbed == due # None => \A i \in ToCome : ~Real(queue[i])

TypeInv == TypeOK /\ InParts /\ LooksAhead

ProgressInv ==
  /\ TypeInv /\ EndsAreFinished /\ MovesOn /\ Watched /\ HalfSaved /\ HasEpisode /\ Agree
  /\ Undisturbed /\ MarkStands

----------------------------------------------------------------------------
(* Numbers and sequences *)

Less == {p \in Nat \X Nat : p[1] < p[2]}

LEMMA LessIsWellFounded == IsWellFoundedOn(Less, Nat)
<1>1. IsWellFoundedOn(OpToRel(<, Nat), Nat)
  BY NatLessThanWellFounded, Zenon
<1>2. OpToRel(<, Nat) = Less
  BY Zenon DEF OpToRel, Less
<1> QED BY <1>1, <1>2, Zenon

LEMMA LeastExists ==
  ASSUME NEW S, S \subseteq Nat, S # {}
  PROVE  \E e \in S : \A o \in S : e <= o
<1>1. PICK e \in S : \A o \in S : ~ (<<o, e>> \in Less)
  BY LessIsWellFounded, WFMin, Zenon
<1>2. \A o \in S : ~ (o < e)
  BY <1>1 DEF Less
<1> QED BY <1>2

LEMMA WithoutIsSeq ==
  ASSUME NEW S, NEW s \in Seq(S), NEW i \in DOMAIN s
  PROVE  /\ Without(s, i) \in Seq(S) /\ Len(Without(s, i)) = Len(s) - 1
         /\ \A j \in 1..(Len(s) - 1) : Without(s, i)[j] = IF j < i THEN s[j] ELSE s[j + 1]
<1> DEFINE n == Len(s) - 1
<1>1. n \in Nat /\ \A j \in 1..n : (IF j < i THEN s[j] ELSE s[j + 1]) \in S
  OBVIOUS
<1>2. Without(s, i) \in [1..n -> S]
  BY <1>1 DEF Without
<1>3. \A j \in 1..n : Without(s, i)[j] = IF j < i THEN s[j] ELSE s[j + 1]
  BY <1>1 DEF Without
<1> QED BY <1>1, <1>2, <1>3

LEMMA PartsAre ==
  ASSUME TypeOK
  PROVE  /\ length \in Nat /\ Parts \subseteq 0..length /\ Parts # {}
         /\ movie => Parts = {0}
         /\ ~movie => Parts = 1..length
         /\ Start \in Positions /\ End \in Positions /\ Positions \subseteq 0..4
<1>1. length \in Nat
  BY ProgressAssumption DEF TypeOK
<1>2. Start \in Positions /\ End \in Positions /\ Positions \subseteq 0..4
  BY ProgressAssumption DEF Start, End
<1>3. CASE length = 0
  BY <1>2, <1>3 DEF Parts, Episodes, movie
<1>4. CASE length # 0
  <2>1. Parts = 1..length /\ ~movie
    BY <1>4 DEF Parts, Episodes, movie
  <2>2. 1..length \subseteq 0..length /\ 1 \in 1..length
    BY <1>1, <1>4
  <2>3. Parts \subseteq 0..length /\ Parts # {}
    BY <2>1, <2>2
  <2> QED BY <1>1, <1>2, <2>1, <2>3
<1> QED BY <1>3, <1>4

LEMMA SavesAre ==
  ASSUME TypeOK, NEW complete \in BOOLEAN, player.pc # "off"
  PROVE  /\ Save(complete) \in Saves /\ Save(complete).ep = player.ep /\ Save(complete).ep \in Parts
         /\ Save(complete).complete = complete
         /\ ~complete => Save(complete).pos = player.pos
  BY PartsAre DEF TypeOK, Save, Saves, Players

LEMMA BookmarksAfterAre ==
  ASSUME TypeOK, NEW item \in Saves
  PROVE  LET rows == BookmarksAfter(bookmarks, item) IN
         /\ rows \in Seq(Bookmarks) /\ rows # <<>>
         /\ rows[1].ep = item.ep /\ (~item.complete => rows[1].pos = item.pos)
         /\ \A i, j \in DOMAIN rows : rows[i].magnet = rows[j].magnet => i = j
<1> DEFINE new == [magnet |-> item.magnet, ep |-> item.ep,
                   pos |-> IF item.complete THEN Start ELSE item.pos]
           same == {i \in DOMAIN bookmarks : bookmarks[i].magnet = item.magnet}
           old == IF same = {} THEN bookmarks ELSE Without(bookmarks, CHOOSE i \in same : TRUE)
<1>1. /\ new \in Bookmarks /\ new.magnet = item.magnet /\ new.ep = item.ep
      /\ ~item.complete => new.pos = item.pos
  BY PartsAre DEF Saves, Bookmarks
<1>2. /\ bookmarks \in Seq(Bookmarks)
      /\ \A i, j \in DOMAIN bookmarks : bookmarks[i].magnet = bookmarks[j].magnet => i = j
  BY DEF TypeOK
<1>3. /\ old \in Seq(Bookmarks)
      /\ \A i \in DOMAIN old : old[i].magnet # item.magnet
      /\ \A i, j \in DOMAIN old : old[i].magnet = old[j].magnet => i = j
  <2>1. CASE same = {}
    BY <1>2, <2>1
  <2>2. CASE same # {}
    <3> DEFINE k == CHOOSE i \in same : TRUE
    <3>1. k \in same
      BY <2>2
    <3> HIDE DEF k
    <3>2. k \in DOMAIN bookmarks /\ bookmarks[k].magnet = item.magnet /\ old = Without(bookmarks, k)
      BY <2>2, <3>1 DEF k
    <3> HIDE DEF old
    <3> DEFINE n == Len(bookmarks) - 1
               at(j) == IF j < k THEN j ELSE j + 1
    <3>3. /\ old \in Seq(Bookmarks) /\ Len(old) = n
          /\ \A j \in 1..n : old[j] = IF j < k THEN bookmarks[j] ELSE bookmarks[j + 1]
      BY <1>2, <3>2, WithoutIsSeq
    <3>4. DOMAIN old = 1..n /\ n \in Int /\ k \in 1..(n + 1) /\ DOMAIN bookmarks = 1..(n + 1)
      BY <1>2, <3>2, <3>3
    <3>5. \A j \in 1..n : old[j] = bookmarks[at(j)] /\ at(j) \in DOMAIN bookmarks /\ at(j) # k
      BY <3>3, <3>4
    <3>6. \A i, j \in 1..n : at(i) = at(j) => i = j
      BY <3>4
    <3> HIDE DEF at, n
    <3>7. \A i \in DOMAIN old : old[i].magnet # item.magnet
      BY <1>2, <3>2, <3>4, <3>5
    <3>8. \A i, j \in DOMAIN old : old[i].magnet = old[j].magnet => i = j
      BY <1>2, <3>4, <3>5, <3>6
    <3> QED BY <3>3, <3>7, <3>8
  <2> QED BY <2>1, <2>2
<1>4. BookmarksAfter(bookmarks, item) = <<new>> \o old
  BY DEF BookmarksAfter
<1> HIDE DEF new, old
<1> DEFINE rows == <<new>> \o old
<1>5. rows \in Seq(Bookmarks) /\ Len(rows) = Len(old) + 1 /\ rows[1] = new
      /\ \A i \in 2..Len(rows) : rows[i] = old[i - 1] /\ i - 1 \in DOMAIN old
  BY <1>1, <1>3
<1> HIDE DEF rows
<1>6. \A i, j \in DOMAIN rows : rows[i].magnet = rows[j].magnet => i = j
  <2> SUFFICES ASSUME NEW i \in DOMAIN rows, NEW j \in DOMAIN rows, rows[i].magnet = rows[j].magnet
               PROVE  i = j
    OBVIOUS
  <2>0. i \in 1..Len(rows) /\ j \in 1..Len(rows) /\ Len(rows) \in Nat
    BY <1>5
  <2>1. CASE i = 1 /\ j = 1
    BY <2>1
  <2>2. CASE i = 1 /\ j # 1
    BY <1>1, <1>3, <1>5, <2>0, <2>2
  <2>3. CASE i # 1 /\ j = 1
    BY <1>1, <1>3, <1>5, <2>0, <2>3
  <2>4. CASE i # 1 /\ j # 1
    <3>1. i \in 2..Len(rows) /\ j \in 2..Len(rows)
      BY <2>0, <2>4
    <3>2. i - 1 = j - 1
      BY <1>3, <1>5, <3>1
    <3> QED BY <2>0, <3>2
  <2> QED BY <2>1, <2>2, <2>3, <2>4
<1>7. rows # <<>>
  BY <1>5
<1> QED BY <1>1, <1>4, <1>5, <1>6, <1>7 DEF rows

LEMMA TitleAfterIs ==
  ASSUME TypeOK, NEW item \in Saves, item.ep \in Parts
  PROVE  LET row == TitleAfter(title, item) IN
         /\ row \in Titles
         /\ row.pos \in {Start, item.pos}
         /\ row.pos > Start => ~item.complete /\ row.pos = item.pos /\ row.ep = item.ep
<1>1. /\ item.ep \in 0..length /\ item.pos \in Positions /\ item.complete \in BOOLEAN
      /\ title.ep \in 0..length /\ title.watched \in BOOLEAN
  BY DEF Saves, TypeOK, Titles
<1>2. (IF item.ep # 0 THEN item.ep ELSE title.ep) = item.ep
  BY <1>1, PartsAre DEF movie
<1> DEFINE row == TitleAfter(title, item)
           seen == movie /\ (item.complete \/ item.pos = End)
           pos == IF seen \/ (item.complete /\ ~movie) THEN Start ELSE item.pos
<1>3. row = [watched |-> seen \/ (title.watched /\ pos < Middle), pos |-> pos,
             ep |-> IF item.ep # 0 THEN item.ep ELSE title.ep]
  BY DEF TitleAfter
<1>4. pos \in Positions /\ pos \in {Start, item.pos} /\ (pos > Start => ~item.complete /\ pos = item.pos)
  BY <1>1, PartsAre DEF Start
<1>5. (seen \/ (title.watched /\ pos < Middle)) \in BOOLEAN
  OBVIOUS
<1> HIDE DEF pos, seen
<1>6. row.pos = pos /\ row.ep = item.ep
  BY <1>2, <1>3
<1>7. row \in Titles
  BY <1>1, <1>2, <1>3, <1>4, <1>5 DEF Titles
<1> HIDE DEF row
<1> QED BY <1>4, <1>6, <1>7 DEF row

----------------------------------------------------------------------------
(* The parts of a step *)

LEMMA RangesStay ==
  ASSUME UNCHANGED length
  PROVE  /\ Parts' = Parts /\ Episodes' = Episodes /\ movie' = movie
         /\ Titles' = Titles /\ Bookmarks' = Bookmarks /\ Pages' = Pages
         /\ Saves' = Saves /\ Players' = Players
  BY DEF Parts, Episodes, movie, Titles, Bookmarks, Pages, Saves, Players

\* What a player has in hand.
PlayerIs(p) ==
  /\ p \in Players
  /\ p.pc # "off" => p.ep \in Parts /\ p.magnet \in Magnets
  /\ p.pc = "next" => p.ep < length

\* A mark has to stand on only if what is added to the queue is not real.
MarkYields ==
  \/ due' = None
  \/ due' = due /\ \A i \in DOMAIN queue' : i > Len(queue) => ~Real(queue'[i])

\* The player plays on, or puts a position into the queue.
SavesMore ==
  /\ UNCHANGED <<length, serverVars, step, torn, lost, finished>>
  /\ MarkYields
  /\ unseen \subseteq unseen' /\ unseen' \subseteq Parts
  /\ \/ UNCHANGED queue
     \/ \E item \in Saves :
          /\ Len(queue) < MaxQueue /\ queue' = Append(queue, item)
          /\ ~item.complete /\ item.ep \in Parts
          /\ item.pos >= Late => item.ep \in unseen'

\* It puts the end of an episode there.
Finishes ==
  /\ UNCHANGED <<length, serverVars, step, torn, lost>>
  /\ MarkYields
  /\ player.ep \in Parts
  /\ finished' = finished \cup {player.ep} /\ unseen' = unseen \ {player.ep}
  /\ queue' \in Seq(Saves) /\ Len(queue') <= MaxQueue
  /\ Len(queue) < Len(queue') /\ queue'[Len(queue')].complete
  /\ \A i \in DOMAIN queue : queue'[i] = queue[i]
  /\ \A i \in DOMAIN queue' : i > Len(queue) => queue'[i].ep = player.ep

\* Neither changes what the device knows by more than a legal step.
Device ==
  /\ PlayerIs(player') /\ page' \in Pages /\ marks' \in Seq(BOOLEAN)
  /\ count' \in [marks : 0..MaxMarks, plays : 0..MaxPlays, faults : 0..MaxFaults]

LEMMA RestsSavesMore ==
  ASSUME TypeInv, UNCHANGED <<length, serverVars, queue, step, historyVars>>
  PROVE  SavesMore
<1>1. queue \in Seq(Saves) /\ unseen \subseteq Parts
  BY DEF TypeInv, TypeOK
<1>2. MarkYields
  BY <1>1 DEF MarkYields, historyVars
<1> QED BY <1>1, <1>2 DEF SavesMore, historyVars

LEMMA NowDevice ==
  ASSUME TypeInv
  PROVE  /\ PlayerIs(player) /\ page \in Pages /\ marks \in Seq(BOOLEAN)
         /\ count \in [marks : 0..MaxMarks, plays : 0..MaxPlays, faults : 0..MaxFaults]
         /\ {MaxMarks, MaxPlays, MaxFaults} \subseteq Nat
  BY ProgressAssumption DEF TypeInv, TypeOK, LooksAhead, PlayerIs

LEMMA NoPlayerIs ==
  ASSUME TypeInv
  PROVE  PlayerIs(NoPlayer)
  BY PartsAre DEF TypeInv, PlayerIs, NoPlayer, Players

LEMMA OpenedDoes ==
  ASSUME TypeInv, NEW e \in Parts, NEW m \in Magnets, NEW pos \in Positions, Opened(e, m, pos)
  PROVE  Device /\ SavesMore
<1>1. /\ UNCHANGED <<length, serverVars, page, queue, step, marks, historyVars>>
      /\ player' = [NoPlayer EXCEPT !.pc = "opening", !.ep = e, !.magnet = m, !.pos = pos]
      /\ count.plays < MaxPlays /\ count' = [count EXCEPT !.plays = @ + 1]
  BY DEF Opened
<1>2. player' = [pc |-> "opening", ep |-> e, magnet |-> m, pos |-> pos, last |-> Unsaved, done |-> FALSE]
  BY <1>1 DEF NoPlayer
<1>3. e \in 0..length
  BY PartsAre DEF TypeInv
<1>4. PlayerIs(player')
  BY <1>2, <1>3 DEF PlayerIs, Players
<1>5. count' \in [marks : 0..MaxMarks, plays : 0..MaxPlays, faults : 0..MaxFaults]
  BY <1>1, NowDevice
<1> QED BY <1>1, <1>4, <1>5, NowDevice, RestsSavesMore DEF Device

LEMMA FaultDoes ==
  ASSUME TypeInv, Fault
  PROVE  count' \in [marks : 0..MaxMarks, plays : 0..MaxPlays, faults : 0..MaxFaults]
  BY NowDevice DEF Fault

LEMMA ProgressKeepsTypes ==
  ASSUME TypeInv, Device, SavesMore \/ Finishes
  PROVE  TypeInv'
<1>1. UNCHANGED <<length, serverVars, step, torn, lost>> /\ due' \in {due, None}
  BY DEF SavesMore, Finishes, MarkYields
<1>2. /\ UNCHANGED <<length, title, episodes, bookmarks, step, torn, lost>>
      /\ Parts' = Parts /\ Episodes' = Episodes /\ Titles' = Titles /\ Bookmarks' = Bookmarks
      /\ Pages' = Pages /\ Saves' = Saves /\ Players' = Players
  BY <1>1, RangesStay DEF serverVars
<1>3. TypeOK
  BY DEF TypeInv
<1>4. /\ queue \in Seq(Saves) /\ queue' \in Seq(Saves) /\ Len(queue') <= MaxQueue
      /\ queue' = <<>> => queue = <<>>
      /\ \A i \in DOMAIN queue' : queue'[i].ep \in Parts
  <2>0. queue \in Seq(Saves) /\ Len(queue) <= MaxQueue /\ \A i \in DOMAIN queue : queue[i].ep \in Parts
    BY DEF TypeInv, TypeOK, InParts
  <2>1. CASE SavesMore /\ UNCHANGED queue
    BY <2>0, <2>1
  <2>2. CASE SavesMore /\ ~UNCHANGED queue
    <3>1. PICK item \in Saves : Len(queue) < MaxQueue /\ queue' = Append(queue, item) /\ item.ep \in Parts
      BY <2>2 DEF SavesMore
    <3>2. MaxQueue \in Nat
      BY ProgressAssumption
    <3>3. queue' \in Seq(Saves) /\ Len(queue') = Len(queue) + 1
      BY <2>0, <3>1
    <3>4. \A i \in DOMAIN queue' : queue'[i] = IF i \in DOMAIN queue THEN queue[i] ELSE item
      BY <2>0, <3>1, <3>3
    <3> QED BY <2>0, <3>1, <3>2, <3>3, <3>4
  <2>3. CASE Finishes
    <3>1. \A i \in DOMAIN queue' : i \in DOMAIN queue \/ i > Len(queue)
      BY <2>0, <2>3 DEF Finishes
    <3>2. \A i \in DOMAIN queue' : queue'[i].ep \in Parts
      BY <2>0, <2>3, <3>1 DEF Finishes
    <3>3. queue' # <<>>
      BY <2>0, <2>3 DEF Finishes
    <3> QED BY <2>0, <2>3, <3>2, <3>3 DEF Finishes
  <2> QED BY <2>1, <2>2, <2>3
<1>5. lost \cup finished' \cup unseen' \subseteq Parts
  BY <1>3 DEF TypeOK, SavesMore, Finishes
<1>6. TypeOK'
  <2>1. /\ length \in Lengths /\ title \in Titles /\ episodes \subseteq Episodes
        /\ bookmarks \in Seq(Bookmarks)
        /\ \A i, j \in DOMAIN bookmarks : bookmarks[i].magnet = bookmarks[j].magnet => i = j
        /\ step \in {"title", "episode", "bookmark"} /\ (queue = <<>> => step = "title")
        /\ torn \in BOOLEAN /\ due' \in BOOLEAN \cup {None}
    BY <1>1, <1>3 DEF TypeOK
  <2>2. /\ player' \in Players /\ (player'.pc # "off" => player'.ep \in Parts /\ player'.magnet \in Magnets)
        /\ page' \in Pages /\ marks' \in Seq(BOOLEAN)
        /\ count' \in [marks : 0..MaxMarks, plays : 0..MaxPlays, faults : 0..MaxFaults]
    BY DEF Device, PlayerIs
  <2> QED BY <1>2, <1>4, <1>5, <2>1, <2>2 DEF TypeOK
<1>7. InParts' /\ LooksAhead'
  BY <1>2, <1>4 DEF InParts, LooksAhead, Device, PlayerIs
<1> QED BY <1>6, <1>7 DEF TypeInv

----------------------------------------------------------------------------
(* The player *)

LEMMA EnqueueDoes ==
  ASSUME TypeInv, player.pc # "off", Enqueue(Save(FALSE)),
         UNCHANGED <<length, serverVars, step, torn, lost, finished>>,
         unseen \subseteq unseen', unseen' \subseteq Parts,
         player.pos >= Late => player.ep \in unseen'
  PROVE  SavesMore
<1>1. /\ Save(FALSE) \in Saves /\ Save(FALSE).ep = player.ep /\ Save(FALSE).ep \in Parts
      /\ ~Save(FALSE).complete /\ Save(FALSE).pos = player.pos
  BY SavesAre DEF TypeInv
<1>2. queue \in Seq(Saves) /\ MaxQueue \in Nat
  BY ProgressAssumption DEF TypeInv, TypeOK
<1> DEFINE s == Save(FALSE)
<1> HIDE DEF s
<1>3. /\ Len(queue) + Len(<<s>>) <= MaxQueue /\ queue' = queue \o <<s>>
      /\ due' = IF \E i \in DOMAIN <<s>> : Real(<<s>>[i]) THEN None ELSE due
  BY DEF Enqueue, EnqueueAll, s
<1>4. Len(queue) < MaxQueue /\ queue' = Append(queue, s)
  BY <1>2, <1>3
<1>5. due' = IF Real(s) THEN None ELSE due
  BY <1>3
<1>6. \A i \in DOMAIN queue' : i > Len(queue) => queue'[i] = s
  BY <1>2, <1>4
<1>7. MarkYields
  BY <1>5, <1>6 DEF MarkYields
<1> QED BY <1>1, <1>4, <1>7 DEF SavesMore, s

\* r is q with n more, of s and c, and ends with c.
Extended(r, q, n, s, c, S) ==
  /\ r \in Seq(S) /\ Len(r) = Len(q) + n + 1 /\ n \in 0..1
  /\ r[Len(r)] = c
  /\ \A i \in DOMAIN q : r[i] = q[i]
  /\ \A i \in DOMAIN r : i > Len(q) => r[i] \in {s, c}

LEMMA JoinedIs ==
  ASSUME NEW S, NEW a \in Seq(S), NEW b \in Seq(S)
  PROVE  a \o b \in Seq(S) /\ Len(a \o b) = Len(a) + Len(b) /\ Len(a) \in Nat
OBVIOUS

LEMMA TailAdded ==
  ASSUME NEW S, NEW q \in Seq(S), NEW s \in S, NEW c \in S, NEW extra, NEW r,
         extra = <<>> \/ extra = <<s>>, r = q \o (extra \o <<c>>)
  PROVE  Extended(r, q, Len(extra), s, c, S)
<1> DEFINE e == extra \o <<c>>
<1>1. e \in Seq(S) /\ Len(e) = Len(extra) + 1 /\ Len(extra) \in 0..1
  <2>1. CASE extra = <<>>
    BY <2>1
  <2>2. CASE extra = <<s>>
    BY <2>2
  <2> QED BY <2>1, <2>2
<1>2. e[Len(e)] = c /\ \A i \in DOMAIN e : e[i] \in {s, c}
  <2>1. CASE extra = <<>>
    BY <2>1
  <2>2. CASE extra = <<s>>
    BY <2>2
  <2> QED BY <2>1, <2>2
<1> HIDE DEF e
<1>3. r = q \o e
  BY DEF e
<1>4. r \in Seq(S) /\ Len(r) = Len(q) + Len(e) /\ Len(q) \in Nat
  BY <1>1, <1>3, JoinedIs
<1>5. \A i \in DOMAIN q : r[i] = q[i]
  BY <1>1, <1>3
<1>6. \A i \in DOMAIN r : i > Len(q) => i - Len(q) \in DOMAIN e /\ r[i] = e[i - Len(q)]
  BY <1>1, <1>3, <1>4
<1>7. r[Len(r)] = c
  BY <1>1, <1>2, <1>4, <1>6
<1> QED BY <1>1, <1>2, <1>4, <1>5, <1>6, <1>7 DEF Extended

LEMMA MoreSaves ==
  ASSUME NEW S, NEW s \in S, NEW c \in S, NEW extra, extra = <<>> \/ extra = <<s>>
  PROVE  extra \o <<c>> \in Seq(S) /\ Len(extra \o <<c>>) = Len(extra) + 1
<1>1. CASE extra = <<>>
  BY <1>1
<1>2. CASE extra = <<s>>
  BY <1>2
<1> QED BY <1>1, <1>2

LEMMA FinishDoes ==
  ASSUME TypeInv, player.pc = "playing", NEW pc \in {"playing", "next"},
         pc = "next" => player.ep < length,
         NEW extra \in {<<>>, <<Save(FALSE)>>}, Finish(pc, extra)
  PROVE  Device /\ Finishes
<1>1. /\ Save(TRUE) \in Saves /\ Save(TRUE).ep = player.ep /\ Save(TRUE).complete
      /\ Save(FALSE) \in Saves /\ Save(FALSE).ep = player.ep /\ player.ep \in Parts
  BY SavesAre DEF TypeInv
<1>2. /\ EnqueueAll(extra \o <<Save(TRUE)>>)
      /\ player' = [player EXCEPT !.pc = pc, !.last = Unsaved, !.done = TRUE]
      /\ finished' = finished \cup {player.ep} /\ unseen' = unseen \ {player.ep}
      /\ UNCHANGED <<length, serverVars, page, step, marks, count, torn, lost>>
  BY DEF Finish
<1>3. queue \in Seq(Saves) /\ MaxQueue \in Nat
  BY ProgressAssumption DEF TypeInv, TypeOK
<1>4. /\ queue' \in Seq(Saves) /\ Len(queue') = Len(queue) + Len(extra) + 1 /\ Len(extra) \in 0..1
      /\ queue'[Len(queue')] = Save(TRUE)
      /\ \A i \in DOMAIN queue : queue'[i] = queue[i]
      /\ \A i \in DOMAIN queue' : i > Len(queue) => queue'[i] \in {Save(FALSE), Save(TRUE)}
  <2> DEFINE s == Save(FALSE)
             c == Save(TRUE)
  <2>1. s \in Saves /\ c \in Saves /\ (extra = <<>> \/ extra = <<s>>)
    BY <1>1
  <2>2. queue' = queue \o (extra \o <<c>>)
    BY <1>2 DEF EnqueueAll
  <2> HIDE DEF s, c
  <2>3. Extended(queue', queue, Len(extra), s, c, Saves)
    BY <1>3, <2>1, <2>2, TailAdded, Zenon
  <2> QED BY <2>3 DEF Extended, s, c
<1> DEFINE more == extra \o <<Save(TRUE)>>
<1>8. /\ Len(queue) + Len(more) <= MaxQueue /\ queue' = queue \o more
      /\ due' = IF \E i \in DOMAIN more : Real(more[i]) THEN None ELSE due
  BY <1>2 DEF EnqueueAll
<1>9. more \in Seq(Saves) /\ Len(more) = Len(extra) + 1
  <2> DEFINE s == Save(FALSE)
             c == Save(TRUE)
  <2>1. s \in Saves /\ c \in Saves /\ (extra = <<>> \/ extra = <<s>>)
    BY <1>1
  <2> HIDE DEF s, c
  <2>2. extra \o <<c>> \in Seq(Saves) /\ Len(extra \o <<c>>) = Len(extra) + 1
    BY <2>1, MoreSaves
  <2> QED BY <2>2 DEF c
<1> HIDE DEF more
<1>5. Len(queue') <= MaxQueue /\ Len(queue) < Len(queue')
  BY <1>3, <1>4, <1>8, <1>9
<1>7. MarkYields
  <2>1. \A i \in DOMAIN queue' : i > Len(queue) =>
          i - Len(queue) \in DOMAIN more /\ queue'[i] = more[i - Len(queue)]
    BY <1>3, <1>8, <1>9
  <2> QED BY <1>8, <2>1 DEF MarkYields
<1>6. \A i \in DOMAIN queue' : i > Len(queue) => queue'[i].ep = player.ep
  BY <1>1, <1>4
<1>11. Finishes
  BY <1>1, <1>2, <1>4, <1>5, <1>6, <1>7 DEF Finishes
<1>12. player \in Players /\ player.pc # "off" /\ player.magnet \in Magnets
  BY DEF TypeInv, TypeOK
<1>13. player' \in Players /\ player'.ep = player.ep /\ player'.magnet = player.magnet /\ player'.pc = pc
  BY <1>2, <1>12 DEF Players, Unsaved
<1>14. PlayerIs(player')
  BY <1>1, <1>12, <1>13 DEF PlayerIs
<1> QED BY <1>2, <1>11, <1>14, NowDevice DEF Device

LEMMA PlayerDoes ==
  ASSUME TypeInv,
         FirstFrame \/ (\E p \in Positions : Move(p)) \/ Tick \/ AskNext
           \/ (\E m \in Magnets : OpenNext(m)) \/ NoNext \/ Leave
  PROVE  Device /\ (SavesMore \/ Finishes)
<1>0. player \in Players /\ PlayerIs(player) /\ lost \cup finished \cup unseen \subseteq Parts
  BY NowDevice DEF TypeInv, TypeOK
<1>1. CASE FirstFrame
  <2> DEFINE last == IF player.ep # 0 /\ player.pos = Start THEN Start ELSE player.last
  <2>1. /\ player.pc = "opening"
        /\ player' = [player EXCEPT !.pc = "playing", !.last = last]
        /\ UNCHANGED <<length, serverVars, page, step, marks, count, torn, lost, finished, unseen>>
        /\ UNCHANGED <<queue, due>> \/ (Enqueue(Save(FALSE)) /\ player.pos = Start)
    BY <1>1 DEF FirstFrame
  <2>2. last \in Positions \cup {Unsaved}
    BY <1>0, PartsAre DEF Players, TypeInv
  <2> HIDE DEF last
  <2>3. PlayerIs(player')
    BY <1>0, <2>1, <2>2 DEF PlayerIs, Players
  <2>4. Device
    BY <2>1, <2>3, NowDevice DEF Device
  <2>5. SavesMore
    <3>1. CASE UNCHANGED <<queue, due>>
      BY <2>1, <3>1, RestsSavesMore DEF historyVars
    <3>2. CASE Enqueue(Save(FALSE)) /\ player.pos = Start
      <4>1. ~(player.pos >= Late) /\ player.pc # "off"
        BY <2>1, <3>2 DEF Start, Late
      <4> QED BY <1>0, <2>1, <3>2, <4>1, EnqueueDoes
    <3> QED BY <2>1, <3>1, <3>2
  <2> QED BY <2>4, <2>5
<1>2. ASSUME NEW p \in Positions, Move(p)
      PROVE  Device /\ SavesMore
  <2>1. /\ player' = [player EXCEPT !.pos = p] /\ player.pc = "playing"
        /\ UNCHANGED <<length, serverVars, page, queue, step, marks, count, historyVars>>
    BY <1>2 DEF Move
  <2>2. PlayerIs(player')
    BY <1>0, <2>1 DEF PlayerIs, Players
  <2> QED BY <2>1, <2>2, NowDevice, RestsSavesMore DEF Device
<1>3. CASE Tick
  <2>1. CASE /\ Savable /\ player.pos < Late
             /\ player' = [player EXCEPT !.last = player.pos]
             /\ Enqueue(Save(FALSE))
             /\ UNCHANGED <<length, serverVars, page, step, marks, count, torn, lost, finished, unseen>>
    <3>1. player.pc = "playing" /\ player.pos \in Positions /\ player.pos \in 0..4
      BY <1>0, <1>3, PartsAre DEF Tick, Players, TypeInv
    <3>2. PlayerIs(player')
      BY <1>0, <2>1, <3>1 DEF PlayerIs, Players
    <3>3. ~(player.pos >= Late)
      BY <2>1, <3>1 DEF Late
    <3>4. SavesMore
      BY <1>0, <2>1, <3>1, <3>3, EnqueueDoes
    <3> QED BY <2>1, <3>2, <3>4, NowDevice DEF Device
  <2>2. CASE \E extra \in {<<>>} \cup (IF Savable THEN {<<Save(FALSE)>>} ELSE {}) : Finish("playing", extra)
    <3>1. PICK extra \in {<<>>, <<Save(FALSE)>>} : Finish("playing", extra)
      BY <2>2
    <3>2. player.pc = "playing"
      BY <1>3 DEF Tick
    <3> QED BY <3>1, <3>2, FinishDoes
  <2> QED BY <1>3, <2>1, <2>2 DEF Tick
<1>4. CASE AskNext
  <2>1. player.pc = "playing" /\ player.ep < length /\ Finish("next", <<>>)
    BY <1>4 DEF AskNext
  <2> QED BY <2>1, FinishDoes
<1>5. ASSUME NEW m \in Magnets, OpenNext(m)
      PROVE  Device /\ SavesMore
  <2>1. player.pc = "next" /\ Opened(player.ep + 1, m, Start)
    BY <1>5 DEF OpenNext
  <2>2. player.ep < length /\ player.ep \in Parts
    BY <1>0, <2>1 DEF PlayerIs
  <2>3. TypeOK
    BY DEF TypeInv
  <2>4. length \in Nat /\ player.ep \in 0..length /\ Start \in Positions
    BY <2>2, <2>3, PartsAre
  <2>5. player.ep + 1 \in Parts
    BY <2>2, <2>4 DEF Parts, Episodes, movie
  <2> QED BY <2>1, <2>4, <2>5, OpenedDoes
<1>6. CASE NoNext
  <2>1. /\ player.pc = "next"
        /\ \E resumed \in BOOLEAN : player' = [player EXCEPT !.pc = "playing", !.done = ~resumed]
        /\ UNCHANGED <<length, serverVars, page, queue, step, marks, count, historyVars>>
    BY <1>6 DEF NoNext
  <2>2. PICK resumed \in BOOLEAN : player' = [player EXCEPT !.pc = "playing", !.done = ~resumed]
    BY <2>1
  <2>3. (~resumed) \in BOOLEAN
    OBVIOUS
  <2>4. PlayerIs(player')
    BY <1>0, <2>1, <2>2, <2>3 DEF PlayerIs, Players
  <2> QED BY <2>1, <2>4, NowDevice, RestsSavesMore DEF Device
<1>7. CASE Leave
  <2>1. /\ player.pc # "off" /\ player' = NoPlayer
        /\ UNCHANGED <<length, serverVars, page, step, marks, count, torn, lost, finished>>
        /\ unseen' = IF Playing /\ player.pos >= Late /\ ~player.done THEN unseen \cup {player.ep} ELSE unseen
        /\ IF Playing /\ Savable THEN Enqueue(Save(FALSE)) ELSE UNCHANGED <<queue, due>>
    BY <1>7 DEF Leave
  <2>2. player.ep \in Parts
    BY <1>0, <2>1 DEF PlayerIs
  <2>3. unseen \subseteq unseen' /\ unseen' \subseteq Parts
    BY <1>0, <2>1, <2>2
  <2>4. SavesMore
    <3>1. CASE Playing /\ Savable
      <4>1. player.pos >= Late => player.ep \in unseen'
        BY <2>1, <3>1 DEF Savable
      <4> QED BY <2>1, <2>3, <3>1, <4>1, EnqueueDoes
    <3>2. CASE ~(Playing /\ Savable)
      <4>1. queue \in Seq(Saves)
        BY DEF TypeInv, TypeOK
      <4>2. queue' = queue /\ due' = due
        BY <2>1, <3>2
      <4>3. MarkYields
        BY <4>1, <4>2 DEF MarkYields
      <4> QED BY <2>1, <2>3, <4>2, <4>3 DEF SavesMore
    <3> QED BY <3>1, <3>2
  <2> QED BY <2>1, <2>4, NowDevice, NoPlayerIs DEF Device
<1> QED BY <1>1, <1>2, <1>3, <1>4, <1>5, <1>6, <1>7

----------------------------------------------------------------------------
(* The page *)

LEMMA PlayTargetIs ==
  ASSUME TypeInv
  PROVE  LET e == PlayTarget(page) IN
         /\ e \in Parts
         /\ e \in page.watched => \A o \in Episodes : o > e => o \in page.watched
<1>1. /\ length \in Nat /\ page.title.ep \in 0..length /\ page.watched \subseteq Episodes
      /\ Parts = IF movie THEN {0} ELSE Episodes
  BY PartsAre DEF TypeInv, TypeOK, Pages, Titles, Parts
<1>2. CASE movie
  BY <1>1, <1>2 DEF PlayTarget, Episodes, movie
<1>3. CASE ~movie
  <2> DEFINE current == IF page.title.ep = 0 THEN 1 ELSE page.title.ep
             later == {e \in Episodes : e > current /\ e \notin page.watched}
  <2>1. current \in Episodes
    BY <1>1, <1>3 DEF Episodes, movie
  <2>2. CASE current \in page.watched /\ later # {}
    <3> DEFINE least == CHOOSE e \in later : \A o \in later : e <= o
    <3>1. later \subseteq Nat
      BY DEF Episodes
    <3>2. \E e \in later : \A o \in later : e <= o
      <4> HIDE DEF later
      <4> QED BY <2>2, <3>1, LeastExists
    <3>3. least \in later
      BY <3>2
    <3> HIDE DEF least
    <3>4. PlayTarget(page) = least
      BY <1>3, <2>2 DEF PlayTarget, least
    <3>5. least \in Episodes /\ least \notin page.watched
      BY <3>3
    <3> QED BY <1>1, <1>3, <3>4, <3>5
  <2>3. CASE ~(current \in page.watched /\ later # {})
    <3>1. PlayTarget(page) = current
      BY <1>3, <2>3 DEF PlayTarget
    <3>2. current \in page.watched => \A o \in Episodes : o > current => o \in page.watched
      BY <2>3
    <3> HIDE DEF current
    <3> QED BY <1>1, <1>3, <2>1, <3>1, <3>2
  <2> QED BY <2>2, <2>3
<1> QED BY <1>2, <1>3

LEMMA ResumeDoes ==
  ASSUME TypeInv, NEW e \in Parts, Resume(e)
  PROVE  Device /\ SavesMore
<1>1. page.title.pos \in Positions /\ Positions \subseteq 0..4
  BY PartsAre DEF TypeInv, TypeOK, Pages, Titles
<1>2. ASSUME NEW i \in Newest(e),
             Open(e, bookmarks[i].magnet, Furthest(page.title.pos, bookmarks[i].pos))
      PROVE  Device /\ SavesMore
  <2>1. i \in DOMAIN bookmarks /\ bookmarks \in Seq(Bookmarks)
    BY DEF Newest, BookmarksOf, TypeInv, TypeOK
  <2>4. bookmarks[i] \in Bookmarks
    BY <2>1
  <2>2. bookmarks[i].magnet \in Magnets /\ bookmarks[i].pos \in Positions
    BY <2>4 DEF Bookmarks
  <2>3. Furthest(page.title.pos, bookmarks[i].pos) \in Positions
    BY <1>1, <2>2 DEF Furthest
  <2> QED BY <1>2, <2>2, <2>3, OpenedDoes DEF Open
<1>3. ASSUME NEW m \in Magnets, Open(e, m, page.title.pos)
      PROVE  Device /\ SavesMore
  BY <1>1, <1>3, OpenedDoes DEF Open
<1> QED BY <1>2, <1>3 DEF Resume

LEMMA PlayAnewDoes ==
  ASSUME TypeInv, NEW e \in Parts, PlayAnew(e)
  PROVE  Device /\ SavesMore
<1>1. Start \in Positions
  BY PartsAre DEF TypeInv
<1> QED BY <1>1, OpenedDoes DEF PlayAnew, Open

LEMMA PageDoes ==
  ASSUME TypeInv, Play \/ (\E e \in Episodes : PlayEpisode(e)) \/ Reload \/ ToggleWatched
  PROVE  Device /\ SavesMore
<1>1. CASE Play
  <2>1. PlayTarget(page) \in Parts
    BY PlayTargetIs
  <2> QED BY <1>1, <2>1, ResumeDoes, PlayAnewDoes DEF Play
<1>2. ASSUME NEW e \in Episodes, PlayEpisode(e)
      PROVE  Device /\ SavesMore
  <2>1. e \in Parts
    BY PartsAre DEF TypeInv, Parts, Episodes, movie
  <2> QED BY <1>2, <2>1, ResumeDoes, PlayAnewDoes DEF PlayEpisode
<1>3. CASE Reload
  <2>1. page' = [title |-> title, watched |-> episodes]
        /\ UNCHANGED <<length, serverVars, player, queue, step, marks, count, historyVars>>
    BY <1>3 DEF Reload
  <2>2. page' \in Pages
    BY <2>1 DEF TypeInv, TypeOK, Pages
  <2> QED BY <2>1, <2>2, NowDevice, RestsSavesMore DEF Device
<1>4. CASE ToggleWatched
  <2> DEFINE now == ~page.title.watched
             pos == IF now THEN Start ELSE page.title.pos
  <2>1. /\ count.marks < MaxMarks /\ count' = [count EXCEPT !.marks = @ + 1]
        /\ page' = [page EXCEPT !.title.watched = now, !.title.pos = pos]
        /\ marks' = Append(marks, now)
        /\ UNCHANGED <<length, serverVars, player, queue, step, historyVars>>
    BY <1>4 DEF ToggleWatched
  <2>2. now \in BOOLEAN /\ pos \in Positions
    BY PartsAre DEF TypeInv, TypeOK, Pages, Titles
  <2> HIDE DEF now, pos
  <2>3. page' \in Pages
    BY <2>1, <2>2, NowDevice DEF Pages, Titles
  <2>4. count' \in [marks : 0..MaxMarks, plays : 0..MaxPlays, faults : 0..MaxFaults]
    BY <2>1, NowDevice
  <2>5. marks' \in Seq(BOOLEAN)
    BY <2>1, <2>2, NowDevice
  <2> QED BY <2>1, <2>3, <2>4, <2>5, NowDevice, RestsSavesMore DEF Device
<1> QED BY <1>1, <1>2, <1>3, <1>4

----------------------------------------------------------------------------
(* The queue *)

\* The queue grows at its end.
Grows ==
  /\ queue \in Seq(Saves) /\ queue' \in Seq(Saves) /\ step' = step
  /\ Len(queue) <= Len(queue')
  /\ \A i \in DOMAIN queue : i \in DOMAIN queue' /\ queue'[i] = queue[i]

LEMMA DeviceGrows ==
  ASSUME TypeInv, SavesMore \/ Finishes
  PROVE  Grows
<1>1. queue \in Seq(Saves)
  BY DEF TypeInv, TypeOK
<1>2. CASE SavesMore /\ UNCHANGED queue
  BY <1>1, <1>2 DEF SavesMore, Grows
<1>3. CASE SavesMore /\ ~UNCHANGED queue
  <2>1. PICK item \in Saves : queue' = Append(queue, item)
    BY <1>3 DEF SavesMore
  <2> QED BY <1>1, <1>3, <2>1 DEF SavesMore, Grows
<1>4. CASE Finishes
  <2>1. queue' \in Seq(Saves) /\ Len(queue) < Len(queue') /\ step' = step
        /\ \A i \in DOMAIN queue : queue'[i] = queue[i]
    BY <1>4 DEF Finishes
  <2>2. \A i \in DOMAIN queue : i \in DOMAIN queue'
    BY <1>1, <2>1
  <2> QED BY <1>1, <2>1, <2>2 DEF Grows
<1> QED BY <1>2, <1>3, <1>4

LEMMA WaitingStays ==
  ASSUME Grows, NEW e, NEW parts, Waiting(e, parts)
  PROVE  Waiting(e, parts)'
  BY DEF Grows, Waiting

LEMMA HeadIs ==
  ASSUME TypeInv, queue # <<>>
  PROVE  /\ queue \in Seq(Saves) /\ Head(queue) = queue[1] /\ 1 \in DOMAIN queue
         /\ Head(queue) \in Saves /\ Head(queue).ep \in Parts
  BY DEF TypeInv, TypeOK, InParts

LEMMA TailIs ==
  ASSUME TypeInv, queue # <<>>, queue' = Tail(queue)
  PROVE  /\ queue' \in Seq(Saves) /\ Len(queue') = Len(queue) - 1
         /\ \A i \in DOMAIN queue' : i + 1 \in DOMAIN queue /\ queue'[i] = queue[i + 1]
         /\ \A i \in DOMAIN queue : i > 1 => i - 1 \in DOMAIN queue' /\ queue'[i - 1] = queue[i]
<1>1. queue \in Seq(Saves)
  BY DEF TypeInv, TypeOK
<1> QED BY <1>1

\* The first save leaves the queue: whoever waits for a later one goes on waiting.
LEMMA WaitingMovesUp ==
  ASSUME TypeInv, queue # <<>>, queue' = Tail(queue), step' = "title",
         NEW e, NEW parts, Waiting(e, parts), "title" \in parts,
         step \in parts => ~(Head(queue).complete /\ Head(queue).ep = e)
  PROVE  Waiting(e, parts)'
<1>1. PICK i \in DOMAIN queue : queue[i].complete /\ queue[i].ep = e /\ (i > 1 \/ step \in parts)
  BY DEF Waiting
<1>2. i \in Nat \ {0}
  BY DEF TypeInv, TypeOK
<1>3. i # 1
  BY <1>1, HeadIs
<1>4. i - 1 \in DOMAIN queue' /\ queue'[i - 1] = queue[i]
  BY <1>2, <1>3, TailIs
<1> QED BY <1>1, <1>4 DEF Waiting

LEMMA PopKeepsEnds ==
  ASSUME TypeInv, EndsAreFinished, queue # <<>>, queue' = Tail(queue),
         lost \subseteq lost', unseen' = unseen
  PROVE  EndsAreFinished'
<1> SUFFICES ASSUME NEW i \in DOMAIN queue', ~queue'[i].complete, queue'[i].pos >= Late
             PROVE  \/ queue'[i].ep \in lost' \cup unseen'
                    \/ \E j \in DOMAIN queue' : j > i /\ queue'[j].complete /\ queue'[j].ep = queue'[i].ep
  BY DEF EndsAreFinished
<1>1. i \in Nat \ {0} /\ i + 1 \in DOMAIN queue /\ queue'[i] = queue[i + 1]
  BY TailIs
<1>2. CASE queue[i + 1].ep \in lost \cup unseen
  BY <1>1, <1>2
<1>3. CASE \E j \in DOMAIN queue : j > i + 1 /\ queue[j].complete /\ queue[j].ep = queue[i + 1].ep
  <2>1. PICK j \in DOMAIN queue : j > i + 1 /\ queue[j].complete /\ queue[j].ep = queue[i + 1].ep
    BY <1>3
  <2>2. j \in Nat
    BY DEF TypeInv, TypeOK
  <2>3. j - 1 \in DOMAIN queue' /\ queue'[j - 1] = queue[j] /\ j - 1 > i
    BY <1>1, <2>1, <2>2, TailIs
  <2> QED BY <1>1, <2>1, <2>3
<1> QED BY <1>1, <1>2, <1>3 DEF EndsAreFinished

LEMMA PopKeepsUndisturbed ==
  ASSUME TypeInv, Undisturbed, queue # <<>>, queue' = Tail(queue), UNCHANGED <<length, due>>
  PROVE  Undisturbed'
<1> SUFFICES ASSUME due # None, NEW i \in DOMAIN queue'
             PROVE  ~Real(queue'[i])
  BY DEF Undisturbed, ToCome, Real, movie
<1>1. i \in Nat \ {0} /\ i + 1 \in DOMAIN queue /\ queue'[i] = queue[i + 1]
  BY TailIs
<1>2. i + 1 \in ToCome
  BY <1>1 DEF ToCome
<1> QED BY <1>1, <1>2 DEF Undisturbed

LEMMA PopKeepsTypes ==
  ASSUME TypeInv, queue # <<>>, queue' = Tail(queue), step' = "title",
         UNCHANGED <<length, title, episodes, page, player, marks, finished, unseen, due>>,
         bookmarks' \in Seq(Bookmarks),
         \A i, j \in DOMAIN bookmarks' : bookmarks'[i].magnet = bookmarks'[j].magnet => i = j,
         count' \in [marks : 0..MaxMarks, plays : 0..MaxPlays, faults : 0..MaxFaults],
         torn' \in BOOLEAN, lost' \subseteq Parts
  PROVE  TypeInv'
<1>1. /\ Parts' = Parts /\ Episodes' = Episodes /\ Titles' = Titles /\ Bookmarks' = Bookmarks
      /\ Pages' = Pages /\ Saves' = Saves /\ Players' = Players
  BY RangesStay
<1>2. /\ length \in Lengths /\ title \in Titles /\ episodes \subseteq Episodes
      /\ page \in Pages /\ player \in Players
      /\ player.pc # "off" => player.ep \in Parts /\ player.magnet \in Magnets
      /\ queue \in Seq(Saves) /\ Len(queue) <= MaxQueue
      /\ marks \in Seq(BOOLEAN) /\ finished \cup unseen \subseteq Parts
      /\ due \in BOOLEAN \cup {None}
      /\ player.pc = "next" => player.ep < length
  BY DEF TypeInv, TypeOK, LooksAhead
<1>3. queue' \in Seq(Saves) /\ Len(queue') <= MaxQueue
  BY <1>2, TailIs, ProgressAssumption
<1>4. \A i \in DOMAIN queue' : queue'[i].ep \in Parts
  BY TailIs DEF TypeInv, InParts
<1>5. TypeOK'
  <2>1. lost' \cup finished' \cup unseen' \subseteq Parts
    BY <1>2
  <2> QED BY <1>1, <1>2, <1>3, <2>1 DEF TypeOK
<1> QED BY <1>1, <1>2, <1>4, <1>5 DEF TypeInv, InParts, LooksAhead

----------------------------------------------------------------------------
(* One lemma per kind of step *)

LEMMA DeviceKeepsProgress ==
  ASSUME ProgressInv, Device, SavesMore \/ Finishes
  PROVE  ProgressInv'
<1>0. TypeInv /\ TypeInv'
  BY ProgressKeepsTypes DEF ProgressInv
<1>1. Grows
  BY <1>0, DeviceGrows
<1>2. /\ UNCHANGED <<length, title, episodes, bookmarks, step, torn, lost>> /\ MarkYields
      /\ unseen \subseteq unseen' \/ Finishes
  BY DEF SavesMore, Finishes, serverVars
<1>3. ASSUME Finishes, NEW e, e = player.ep
      PROVE  Waiting(e, {"title"})' /\ Waiting(e, {"title", "episode"})'
  <2> DEFINE n == Len(queue')
  <2>1. n \in DOMAIN queue' /\ n > Len(queue) /\ n \in Nat /\ Len(queue) \in Nat
    BY <1>1, <1>3 DEF Finishes, Grows
  <2>2. queue'[n].complete /\ queue'[n].ep = e
    BY <1>3, <2>1 DEF Finishes
  <2>3. queue # <<>> \/ step = "title"
    BY <1>0 DEF TypeInv, TypeOK
  <2>4. n > 1 \/ step' = "title"
    BY <1>1, <1>2, <2>1, <2>3 DEF Grows
  <2> HIDE DEF n
  <2> QED BY <2>1, <2>2, <2>4 DEF Waiting
<1>4. EndsAreFinished'
  <2> SUFFICES ASSUME NEW i \in DOMAIN queue', ~queue'[i].complete, queue'[i].pos >= Late
               PROVE  \/ queue'[i].ep \in lost' \cup unseen'
                      \/ \E j \in DOMAIN queue' : j > i /\ queue'[j].complete /\ queue'[j].ep = queue'[i].ep
    BY DEF EndsAreFinished
  <2>0. i \in Nat /\ Len(queue) \in Nat /\ i <= Len(queue')
    BY <1>1 DEF Grows
  <2>1. CASE Finishes
    <3>1. Len(queue') \in DOMAIN queue' /\ queue'[Len(queue')].complete /\ Len(queue') > Len(queue)
          /\ queue'[Len(queue')].ep = player.ep
      BY <1>1, <2>1 DEF Finishes, Grows
    <3>2. i < Len(queue')
      BY <2>0, <3>1, <1>1 DEF Grows
    <3>3. CASE queue'[i].ep = player.ep
      BY <3>1, <3>2, <3>3
    <3>4. CASE queue'[i].ep # player.ep
      <4>1. i \in DOMAIN queue /\ queue'[i] = queue[i]
        BY <1>1, <2>0, <2>1, <3>4 DEF Finishes, Grows
      <4>2. \/ queue[i].ep \in lost \cup unseen
            \/ \E j \in DOMAIN queue : j > i /\ queue[j].complete /\ queue[j].ep = queue[i].ep
        BY <4>1 DEF ProgressInv, EndsAreFinished
      <4>3. queue[i].ep \in unseen => queue[i].ep \in unseen'
        BY <2>1, <3>4, <4>1 DEF Finishes
      <4> QED BY <1>1, <1>2, <4>1, <4>2, <4>3 DEF Grows
    <3> QED BY <3>3, <3>4
  <2>2. CASE SavesMore
    <3>1. CASE i \in DOMAIN queue
      <4>1. queue'[i] = queue[i]
        BY <1>1, <3>1 DEF Grows
      <4>2. \/ queue[i].ep \in lost \cup unseen
            \/ \E j \in DOMAIN queue : j > i /\ queue[j].complete /\ queue[j].ep = queue[i].ep
        BY <3>1, <4>1 DEF ProgressInv, EndsAreFinished
      <4>3. unseen \subseteq unseen'
        BY <2>2 DEF SavesMore
      <4> QED BY <1>1, <1>2, <4>1, <4>2, <4>3 DEF Grows
    <3>2. CASE i \notin DOMAIN queue
      <4>1. PICK item \in Saves : queue' = Append(queue, item) /\ (item.pos >= Late => item.ep \in unseen')
        BY <2>2, <3>2 DEF SavesMore
      <4>2. queue'[i] = item
        BY <1>1, <2>0, <3>2, <4>1 DEF Grows
      <4> QED BY <4>1, <4>2
    <3> QED BY <3>1, <3>2
  <2> QED BY <2>1, <2>2
<1>5. MovesOn'
  <2> SUFFICES ASSUME title.pos >= Late
               PROVE  title.ep \in lost \cup unseen' \/ Waiting(title.ep, {"title"})'
    BY <1>2 DEF MovesOn, Waiting
  <2>1. title.ep \in lost \cup unseen \/ Waiting(title.ep, {"title"})
    BY DEF ProgressInv, MovesOn
  <2>2. Waiting(title.ep, {"title"}) => Waiting(title.ep, {"title"})'
    BY <1>1, <1>2, WaitingStays DEF Waiting
  <2>3. title.ep \in unseen => title.ep \in unseen' \/ Waiting(title.ep, {"title"})'
    <3>1. CASE Finishes /\ title.ep = player.ep
      <4>1. PICK e : e = title.ep
        OBVIOUS
      <4>2. Waiting(e, {"title"})'
        BY <1>3, <3>1, <4>1
      <4> QED BY <1>2, <4>1, <4>2
    <3>2. CASE ~(Finishes /\ title.ep = player.ep)
      BY <1>2, <3>2 DEF Finishes
    <3> QED BY <3>1, <3>2
  <2> QED BY <2>1, <2>2, <2>3
<1>6. Watched'
  <2> SUFFICES ASSUME NEW e \in finished' \ lost
               PROVE  e = 0 \/ e \in episodes \/ Waiting(e, {"title", "episode"})'
    BY <1>2 DEF Watched
  <2>1. CASE e \in finished
    <3>1. e = 0 \/ e \in episodes \/ Waiting(e, {"title", "episode"})
      BY <2>1 DEF ProgressInv, Watched
    <3> QED BY <1>1, <3>1, WaitingStays
  <2>2. CASE e \notin finished
    <3>1. Finishes /\ e = player.ep
      BY <2>2 DEF SavesMore, Finishes
    <3> QED BY <1>3, <3>1 DEF Waiting
  <2> QED BY <2>1, <2>2
<1>7. HalfSaved' /\ HasEpisode'
  <2>1. queue # <<>> => queue' # <<>> /\ Head(queue') = Head(queue)
    BY <1>1 DEF Grows
  <2> QED BY <1>2, <2>1 DEF ProgressInv, HalfSaved, HasEpisode
<1>8. Agree' /\ MarkStands'
  BY <1>2 DEF ProgressInv, Agree, MarkStands, MarkYields
<1>9. Undisturbed'
  <2> SUFFICES ASSUME due' # None, NEW i \in DOMAIN queue', i > 1 \/ step = "title"
               PROVE  ~Real(queue'[i])
    BY <1>2 DEF Undisturbed, ToCome, Real, movie
  <2>1. due' = due /\ \A j \in DOMAIN queue' : j > Len(queue) => ~Real(queue'[j])
    BY <1>2 DEF MarkYields
  <2>2. CASE i \in DOMAIN queue
    BY <1>1, <2>1, <2>2 DEF ProgressInv, Undisturbed, ToCome, Grows
  <2>3. CASE i \notin DOMAIN queue
    BY <1>1, <2>1, <2>3 DEF Grows
  <2> QED BY <2>2, <2>3
<1> QED BY <1>0, <1>4, <1>5, <1>6, <1>7, <1>8, <1>9 DEF ProgressInv

LEMMA SaveTitleKeepsProgress ==
  ASSUME ProgressInv, SaveTitle
  PROVE  ProgressInv'
<1> DEFINE item == Head(queue)
<1>0. TypeInv /\ TypeOK
  BY DEF ProgressInv, TypeInv
<1>1. /\ queue # <<>> /\ step = "title" /\ title' = TitleAfter(title, item) /\ torn' = TRUE
      /\ step' = IF item.ep = 0 THEN "bookmark" ELSE "episode"
      /\ UNCHANGED <<length, episodes, bookmarks, page, player, queue, marks, count, lost, finished, unseen,
                      due>>
  BY DEF SaveTitle
<1>2. /\ queue \in Seq(Saves) /\ item = queue[1] /\ 1 \in DOMAIN queue
      /\ item \in Saves /\ item.ep \in Parts
  BY <1>0, <1>1, HeadIs
<1>3. /\ title' \in Titles
      /\ title'.pos > Start => ~item.complete /\ title'.pos = item.pos /\ title'.ep = item.ep
  BY <1>0, <1>1, <1>2, TitleAfterIs
<1>4. due # None => title'.watched = title.watched
  <2> SUFFICES ASSUME due # None
               PROVE  title'.watched = title.watched
    OBVIOUS
  <2>1. ~Real(item)
    BY <1>1, <1>2 DEF ProgressInv, Undisturbed, ToCome
  <2>2. item.pos \in 0..4 /\ item.complete \in BOOLEAN /\ title.watched \in BOOLEAN
    BY <1>0, <1>2, PartsAre DEF Saves, TypeOK, Titles
  <2>3. ~(movie /\ (item.complete \/ item.pos = End)) /\ ((item.complete /\ ~movie) \/ item.pos < Middle)
    BY <2>1, <2>2 DEF Real, Middle, End
  <2> HIDE DEF item
  <2>4. title'.watched = (title.watched
                           /\ (IF item.complete /\ ~movie THEN Start ELSE item.pos) < Middle)
    BY <1>1, <2>3 DEF TitleAfter
  <2>5. (IF item.complete /\ ~movie THEN Start ELSE item.pos) < Middle
    BY <2>3 DEF Start, Middle
  <2> QED BY <2>2, <2>4, <2>5
<1>6. step' \in {"episode", "bookmark"} /\ (step' = "bookmark" => item.ep = 0)
  BY <1>1
<1> HIDE DEF item
<1>7. TypeInv'
  <2>1. /\ Parts' = Parts /\ Episodes' = Episodes /\ Titles' = Titles /\ Bookmarks' = Bookmarks
        /\ Pages' = Pages /\ Saves' = Saves /\ Players' = Players
    BY <1>1, RangesStay
  <2>2. /\ length \in Lengths /\ episodes \subseteq Episodes /\ bookmarks \in Seq(Bookmarks)
        /\ \A i, j \in DOMAIN bookmarks : bookmarks[i].magnet = bookmarks[j].magnet => i = j
        /\ page \in Pages /\ player \in Players
        /\ player.pc # "off" => player.ep \in Parts /\ player.magnet \in Magnets
        /\ queue \in Seq(Saves) /\ Len(queue) <= MaxQueue
        /\ marks \in Seq(BOOLEAN)
        /\ count \in [marks : 0..MaxMarks, plays : 0..MaxPlays, faults : 0..MaxFaults]
        /\ lost \cup finished \cup unseen \subseteq Parts /\ due \in BOOLEAN \cup {None}
    BY <1>0 DEF TypeOK
  <2>3. TypeOK'
    <3>1. due' \in BOOLEAN \cup {None} /\ torn' \in BOOLEAN
      BY <1>1, <2>2
    <3> QED BY <1>1, <1>3, <1>6, <2>1, <2>2, <3>1 DEF TypeOK
  <2> QED BY <1>0, <1>1, <2>1, <2>3 DEF TypeInv, InParts, LooksAhead
<1>8. EndsAreFinished'
  BY <1>1 DEF ProgressInv, EndsAreFinished
<1>9. MovesOn'
  <2> SUFFICES ASSUME title'.pos >= Late
               PROVE  title'.ep \in lost \cup unseen \/ Waiting(title.ep, {"title"})'
    BY <1>1 DEF MovesOn
  <2>1. title'.pos \in 0..4
    BY <1>0, <1>3, PartsAre, RangesStay, <1>1 DEF Titles
  <2>2. ~item.complete /\ item.pos >= Late /\ title'.ep = item.ep
    BY <1>3, <2>1 DEF Start, Late
  <2>3. \/ item.ep \in lost \cup unseen
        \/ \E j \in DOMAIN queue : j > 1 /\ queue[j].complete /\ queue[j].ep = item.ep
    BY <1>2, <2>2 DEF ProgressInv, EndsAreFinished
  <2> QED BY <1>1, <2>2, <2>3 DEF Waiting
<1>10. Watched'
  <2> SUFFICES ASSUME NEW e \in finished \ lost
               PROVE  e = 0 \/ e \in episodes \/ Waiting(e, {"title", "episode"})'
    BY <1>1 DEF Watched
  <2>1. e = 0 \/ e \in episodes \/ Waiting(e, {"title", "episode"})
    BY DEF ProgressInv, Watched
  <2>2. ASSUME Waiting(e, {"title", "episode"}), e # 0
        PROVE  Waiting(e, {"title", "episode"})'
    <3>1. PICK i \in DOMAIN queue : queue[i].complete /\ queue[i].ep = e
      BY <2>2 DEF Waiting
    <3>2. i \in Nat \ {0}
      BY <1>2
    <3>3. i > 1 \/ step' = "episode"
      BY <1>2, <1>6, <2>2, <3>1, <3>2
    <3> QED BY <1>1, <3>1, <3>3 DEF Waiting
  <2> QED BY <2>1, <2>2
<1>11. HalfSaved' /\ HasEpisode' /\ Agree'
  BY <1>1, <1>3 DEF HalfSaved, HasEpisode, Agree, item
<1>12. MarkStands'
  BY <1>1, <1>4 DEF ProgressInv, MarkStands
<1>13. Undisturbed'
  BY <1>1 DEF ProgressInv, Undisturbed, ToCome, Real, movie
<1> QED BY <1>7, <1>8, <1>9, <1>10, <1>11, <1>12, <1>13 DEF ProgressInv

\* The second part of a save: its episode is marked as watched if it is to be, or that fails.
LEMMA EpisodePartKeepsProgress ==
  ASSUME ProgressInv, SaveEpisode \/ EpisodeFails
  PROVE  ProgressInv'
<1> DEFINE item == Head(queue)
<1>0. TypeInv /\ TypeOK
  BY DEF ProgressInv, TypeInv
<1>1. /\ queue # <<>> /\ step = "episode" /\ step' = "bookmark"
      /\ UNCHANGED <<length, title, bookmarks, page, player, queue, marks, torn, finished, unseen, due>>
      /\ episodes \subseteq episodes' /\ lost \subseteq lost'
      /\ item.complete => item.ep \in episodes' \cup lost'
  <2>1. CASE SaveEpisode
    BY <2>1 DEF SaveEpisode, EpisodesAfter, historyVars
  <2>2. CASE EpisodeFails
    BY <2>2 DEF EpisodeFails, serverVars
  <2> QED BY <2>1, <2>2
<1>2. /\ queue \in Seq(Saves) /\ item = queue[1] /\ 1 \in DOMAIN queue
      /\ item \in Saves /\ item.ep \in Parts
  BY <1>0, <1>1, HeadIs
<1>3. /\ length \in Lengths /\ title \in Titles /\ bookmarks \in Seq(Bookmarks)
      /\ \A i, j \in DOMAIN bookmarks : bookmarks[i].magnet = bookmarks[j].magnet => i = j
      /\ page \in Pages /\ player \in Players
      /\ player.pc # "off" => player.ep \in Parts /\ player.magnet \in Magnets
      /\ queue \in Seq(Saves) /\ Len(queue) <= MaxQueue
      /\ marks \in Seq(BOOLEAN) /\ torn \in BOOLEAN
      /\ lost \cup finished \cup unseen \subseteq Parts /\ due \in BOOLEAN \cup {None}
      /\ episodes \subseteq Episodes
      /\ count \in [marks : 0..MaxMarks, plays : 0..MaxPlays, faults : 0..MaxFaults]
  BY <1>0 DEF TypeOK
<1>4. /\ episodes' \subseteq Episodes /\ lost' \subseteq Parts
      /\ count' \in [marks : 0..MaxMarks, plays : 0..MaxPlays, faults : 0..MaxFaults]
  <2>1. CASE SaveEpisode
    <3>1. item.ep # 0
      BY <1>1 DEF ProgressInv, HasEpisode
    <3>2. /\ episodes' \subseteq episodes \cup {item.ep} /\ lost' = lost /\ count' = count
      BY <2>1 DEF SaveEpisode, EpisodesAfter, historyVars
    <3> QED BY <1>2, <1>3, <3>1, <3>2 DEF Parts
  <2>2. CASE EpisodeFails
    BY <1>0, <1>2, <1>3, <2>2, FaultDoes DEF EpisodeFails, serverVars
  <2> QED BY <2>1, <2>2
<1> HIDE DEF item
<1>5. TypeInv'
  <2>1. /\ Parts' = Parts /\ Episodes' = Episodes /\ Titles' = Titles /\ Bookmarks' = Bookmarks
        /\ Pages' = Pages /\ Saves' = Saves /\ Players' = Players
    BY <1>1, RangesStay
  <2>2. lost' \cup finished \cup unseen \subseteq Parts
    BY <1>3, <1>4
  <2>3. TypeOK'
    BY <1>1, <1>3, <1>4, <2>1, <2>2 DEF TypeOK
  <2> QED BY <1>0, <1>1, <2>1, <2>3 DEF TypeInv, InParts, LooksAhead
<1>6. EndsAreFinished'
  BY <1>1 DEF ProgressInv, EndsAreFinished
<1>7. MovesOn'
  <2>1. title.pos >= Late => title.ep \in lost \cup unseen \/ Waiting(title.ep, {"title"})
    BY DEF ProgressInv, MovesOn
  <2>2. Waiting(title.ep, {"title"}) => Waiting(title.ep, {"title"})'
    BY <1>1 DEF Waiting
  <2> QED BY <1>1, <2>1, <2>2 DEF MovesOn
<1>8. Watched'
  <2> SUFFICES ASSUME NEW e \in finished \ lost'
               PROVE  e = 0 \/ e \in episodes' \/ Waiting(e, {"title", "episode"})'
    BY <1>1 DEF Watched
  <2>1. e = 0 \/ e \in episodes \/ Waiting(e, {"title", "episode"})
    BY <1>1 DEF ProgressInv, Watched
  <2>2. ASSUME Waiting(e, {"title", "episode"}), e \notin episodes'
        PROVE  Waiting(e, {"title", "episode"})'
    <3>1. PICK i \in DOMAIN queue : queue[i].complete /\ queue[i].ep = e
      BY <2>2 DEF Waiting
    <3>2. i \in Nat \ {0}
      BY <1>2
    <3>3. i > 1
      BY <1>1, <1>2, <2>2, <3>1, <3>2
    <3> QED BY <1>1, <3>1, <3>3 DEF Waiting
  <2> QED BY <1>1, <2>1, <2>2
<1>9. HalfSaved' /\ HasEpisode' /\ Agree' /\ MarkStands'
  BY <1>1 DEF ProgressInv, HalfSaved, HasEpisode, Agree, MarkStands
<1>10. Undisturbed'
  BY <1>1 DEF ProgressInv, Undisturbed, ToCome, Real, movie
<1> QED BY <1>10, <1>5, <1>6, <1>7, <1>8, <1>9 DEF ProgressInv

LEMMA SaveBookmarkKeepsProgress ==
  ASSUME ProgressInv, SaveBookmark
  PROVE  ProgressInv'
<1> DEFINE item == Head(queue)
<1>0. TypeInv
  BY DEF ProgressInv
<1>1. /\ queue # <<>> /\ step = "bookmark" /\ step' = "title" /\ queue' = Tail(queue) /\ torn' = FALSE
      /\ bookmarks' = BookmarksAfter(bookmarks, item)
      /\ UNCHANGED <<length, title, episodes, page, player, marks, count, lost, finished, unseen, due>>
  BY DEF SaveBookmark
<1>2. item \in Saves /\ item.ep \in Parts
  BY <1>0, <1>1, HeadIs
<1>3. /\ bookmarks' \in Seq(Bookmarks) /\ bookmarks' # <<>>
      /\ bookmarks'[1].ep = item.ep /\ (~item.complete => bookmarks'[1].pos = item.pos)
      /\ \A i, j \in DOMAIN bookmarks' : bookmarks'[i].magnet = bookmarks'[j].magnet => i = j
  BY <1>0, <1>1, <1>2, BookmarksAfterAre DEF TypeInv
<1>4. TypeInv'
  <2>1. lost' \subseteq Parts /\ torn' \in BOOLEAN
        /\ count' \in [marks : 0..MaxMarks, plays : 0..MaxPlays, faults : 0..MaxFaults]
    BY <1>0, <1>1 DEF TypeInv, TypeOK
  <2> QED BY <1>0, <1>1, <1>3, <2>1, PopKeepsTypes
<1>5. EndsAreFinished'
  BY <1>0, <1>1, PopKeepsEnds DEF ProgressInv
<1>6. MovesOn'
  <2>1. title.pos >= Late => title.ep \in lost \cup unseen \/ Waiting(title.ep, {"title"})
    BY DEF ProgressInv, MovesOn
  <2>2. PICK e : e = title.ep
    OBVIOUS
  <2>3. Waiting(e, {"title"}) => Waiting(e, {"title"})'
    BY <1>0, <1>1, WaitingMovesUp
  <2> QED BY <1>1, <2>1, <2>2, <2>3 DEF MovesOn
<1>7. Watched'
  <2> SUFFICES ASSUME NEW e \in finished \ lost
               PROVE  e = 0 \/ e \in episodes \/ Waiting(e, {"title", "episode"})'
    BY <1>1 DEF Watched
  <2>1. e = 0 \/ e \in episodes \/ Waiting(e, {"title", "episode"})
    BY DEF ProgressInv, Watched
  <2> QED BY <1>0, <1>1, <2>1, WaitingMovesUp
<1>8. HalfSaved' /\ HasEpisode' /\ MarkStands' /\ Undisturbed'
  BY <1>0, <1>1, PopKeepsUndisturbed DEF ProgressInv, HalfSaved, HasEpisode, MarkStands
<1>9. Agree'
  BY <1>1, <1>3 DEF ProgressInv, HalfSaved, Agree
<1> QED BY <1>4, <1>5, <1>6, <1>7, <1>8, <1>9 DEF ProgressInv

LEMMA SaveFailsKeepsProgress ==
  ASSUME ProgressInv, SaveFails
  PROVE  ProgressInv'
<1> DEFINE item == Head(queue)
<1>0. TypeInv
  BY DEF ProgressInv
<1>1. /\ queue # <<>> /\ Fault /\ step' = "title" /\ queue' = Tail(queue) /\ torn' = TRUE
      /\ lost' = lost \cup {item.ep}
      /\ UNCHANGED <<length, title, episodes, bookmarks, page, player, marks, finished, unseen, due>>
  BY DEF SaveFails, serverVars
<1>2. item \in Saves /\ item.ep \in Parts
  BY <1>0, <1>1, HeadIs
<1>4. TypeInv'
  <2>1. lost' \subseteq Parts /\ torn' \in BOOLEAN /\ bookmarks' \in Seq(Bookmarks)
        /\ \A i, j \in DOMAIN bookmarks' : bookmarks'[i].magnet = bookmarks'[j].magnet => i = j
    BY <1>0, <1>1, <1>2 DEF TypeInv, TypeOK
  <2> QED BY <1>0, <1>1, <2>1, FaultDoes, PopKeepsTypes
<1>5. EndsAreFinished'
  BY <1>0, <1>1, PopKeepsEnds DEF ProgressInv
<1>6. MovesOn'
  <2>1. title.pos >= Late => title.ep \in lost \cup unseen \/ Waiting(title.ep, {"title"})
    BY DEF ProgressInv, MovesOn
  <2>2. PICK e : e = title.ep
    OBVIOUS
  <2>3. Waiting(e, {"title"}) => e \in lost' \/ Waiting(e, {"title"})'
    BY <1>0, <1>1, WaitingMovesUp
  <2> QED BY <1>1, <2>1, <2>2, <2>3 DEF MovesOn
<1>7. Watched'
  <2> SUFFICES ASSUME NEW e \in finished \ lost'
               PROVE  e = 0 \/ e \in episodes \/ Waiting(e, {"title", "episode"})'
    BY <1>1 DEF Watched
  <2>1. e = 0 \/ e \in episodes \/ Waiting(e, {"title", "episode"})
    BY <1>1 DEF ProgressInv, Watched
  <2> QED BY <1>0, <1>1, <2>1, WaitingMovesUp
<1>8. HalfSaved' /\ HasEpisode' /\ MarkStands' /\ Agree' /\ Undisturbed'
  BY <1>0, <1>1, PopKeepsUndisturbed DEF ProgressInv, HalfSaved, HasEpisode, MarkStands, Agree
<1> QED BY <1>4, <1>5, <1>6, <1>7, <1>8 DEF ProgressInv

LEMMA AppEndsKeepsProgress ==
  ASSUME ProgressInv, AppEnds
  PROVE  ProgressInv'
<1>0. TypeInv /\ TypeOK
  BY DEF ProgressInv, TypeInv
<1>1. /\ Fault /\ lost' = lost \cup {queue[i].ep : i \in DOMAIN queue}
      /\ torn' = (torn \/ queue # <<>>)
      /\ player' = NoPlayer /\ queue' = <<>> /\ step' = "title" /\ marks' = <<>>
      /\ page' = [title |-> title, watched |-> episodes]
      /\ UNCHANGED <<length, title, episodes, bookmarks, finished, unseen, due>>
  BY DEF AppEnds, serverVars
<1>2. /\ length \in Lengths /\ title \in Titles /\ bookmarks \in Seq(Bookmarks)
      /\ \A i, j \in DOMAIN bookmarks : bookmarks[i].magnet = bookmarks[j].magnet => i = j
      /\ torn \in BOOLEAN /\ episodes \subseteq Episodes
      /\ lost \cup finished \cup unseen \subseteq Parts /\ due \in BOOLEAN \cup {None}
  BY <1>0 DEF TypeOK
<1>3. /\ Parts' = Parts /\ Episodes' = Episodes /\ Titles' = Titles /\ Bookmarks' = Bookmarks
      /\ Pages' = Pages /\ Saves' = Saves /\ Players' = Players
  BY <1>1, RangesStay
<1>4. lost' \subseteq Parts
  BY <1>0, <1>1, <1>2 DEF TypeInv, InParts
<1>5. /\ queue' \in Seq(Saves) /\ Len(queue') = 0 /\ DOMAIN queue' = {} /\ MaxQueue >= 0
      /\ marks' \in Seq(BOOLEAN)
  BY <1>1, ProgressAssumption
<1>6. PlayerIs(player') /\ player'.pc = "off"
  BY <1>0, <1>1, NoPlayerIs DEF NoPlayer
<1>7. page' \in Pages /\ due' \in BOOLEAN \cup {None} /\ torn' \in BOOLEAN
  BY <1>1, <1>2 DEF Pages
<1>8. count' \in [marks : 0..MaxMarks, plays : 0..MaxPlays, faults : 0..MaxFaults]
  BY <1>0, <1>1, FaultDoes
<1>9. TypeOK'
  <2>1. lost' \cup finished' \cup unseen' \subseteq Parts
    BY <1>1, <1>2, <1>4
  <2>2. player' \in Players
    BY <1>6 DEF PlayerIs
  <2>3. Len(queue') <= MaxQueue /\ (queue' = <<>> => step' = "title")
    BY <1>1, <1>5
  <2> QED BY <1>1, <1>2, <1>3, <1>5, <1>6, <1>7, <1>8, <2>1, <2>2, <2>3 DEF TypeOK
<1>10. TypeInv'
  BY <1>5, <1>6, <1>9 DEF TypeInv, InParts, LooksAhead
<1>11. EndsAreFinished' /\ HalfSaved' /\ HasEpisode'
  BY <1>1, <1>5 DEF EndsAreFinished, HalfSaved, HasEpisode
<1>12. ASSUME NEW e, NEW parts, Waiting(e, parts)
       PROVE  e \in lost'
  BY <1>1, <1>12 DEF Waiting
<1>13. MovesOn'
  <2>1. title.pos >= Late => title.ep \in lost \cup unseen \/ Waiting(title.ep, {"title"})
    BY DEF ProgressInv, MovesOn
  <2> QED BY <1>1, <1>12, <2>1 DEF MovesOn
<1>14. Watched'
  BY <1>1, <1>12 DEF ProgressInv, Watched
<1>15. Agree' /\ MarkStands' /\ Undisturbed'
  BY <1>1, <1>5 DEF ProgressInv, Agree, MarkStands, Undisturbed, ToCome
<1> QED BY <1>10, <1>11, <1>13, <1>14, <1>15 DEF ProgressInv

\* The server takes a mark, or the mark fails.
LEMMA MarkKeepsProgress ==
  ASSUME ProgressInv, NEW i \in DOMAIN marks, ServeMark(i) \/ MarkFails(i)
  PROVE  ProgressInv'
<1>0. TypeInv /\ TypeOK
  BY DEF ProgressInv, TypeInv
<1>1. /\ UNCHANGED <<length, episodes, bookmarks, player, queue, step, torn, lost, finished, unseen>>
      /\ marks' = Without(marks, i)
  BY DEF ServeMark, MarkFails, serverVars, historyVars
<1>2. marks \in Seq(BOOLEAN) /\ marks[i] \in BOOLEAN /\ marks' \in Seq(BOOLEAN)
  <2>1. marks \in Seq(BOOLEAN)
    BY <1>0 DEF TypeOK
  <2> QED BY <1>1, <2>1, WithoutIsSeq
<1>3. /\ title' \in Titles /\ (title'.pos = title.pos \/ title'.pos = Start)
      /\ title'.pos > Start => title'.pos = title.pos /\ title'.ep = title.ep
  <2>1. CASE ServeMark(i)
    <3>1. title' = [watched |-> marks[i], pos |-> IF marks[i] THEN Start ELSE title.pos,
                    ep |-> IF ~marks[i] /\ title.pos = Start THEN 0 ELSE title.ep]
      BY <2>1 DEF ServeMark, TitleMarked
    <3>2. title.pos \in 0..4 /\ title.pos \in Positions /\ title.ep \in 0..length /\ length \in Nat
          /\ Start \in Positions /\ Start = 0
      BY <1>0, PartsAre DEF TypeOK, Titles, Start
    <3>3. title' \in Titles
      BY <1>2, <3>1, <3>2 DEF Titles
    <3>4. title'.pos = IF marks[i] THEN Start ELSE title.pos
      BY <3>1
    <3>5. title'.ep = IF ~marks[i] /\ title.pos = Start THEN 0 ELSE title.ep
      BY <3>1
    <3> QED BY <3>2, <3>3, <3>4, <3>5
  <2>2. CASE MarkFails(i)
    BY <1>0, <2>2 DEF MarkFails, serverVars, TypeOK
  <2> QED BY <2>1, <2>2
<1>4. /\ page' \in Pages
      /\ count' \in [marks : 0..MaxMarks, plays : 0..MaxPlays, faults : 0..MaxFaults]
  <2>1. CASE ServeMark(i)
    BY <1>0, <2>1, NowDevice DEF ServeMark
  <2>2. CASE MarkFails(i)
    <3>1. (~marks[i]) \in BOOLEAN
      OBVIOUS
    <3>2. page' = [page EXCEPT !.title.watched = ~marks[i]] /\ Fault
      BY <2>2 DEF MarkFails
    <3> QED BY <1>0, <3>1, <3>2, NowDevice, FaultDoes DEF Pages, Titles
  <2> QED BY <2>1, <2>2
<1>5. due' # None => title'.watched = due'
  BY DEF ServeMark, MarkFails, TitleMarked, ProgressInv, MarkStands, serverVars, historyVars
<1>6. due' \in BOOLEAN \cup {None}
  BY <1>0, <1>2 DEF ServeMark, MarkFails, TypeOK, historyVars
<1>7. TypeInv'
  <2>1. /\ Parts' = Parts /\ Episodes' = Episodes /\ Titles' = Titles /\ Bookmarks' = Bookmarks
        /\ Pages' = Pages /\ Saves' = Saves /\ Players' = Players
    BY <1>1, RangesStay
  <2>2. /\ length \in Lengths /\ episodes \subseteq Episodes /\ bookmarks \in Seq(Bookmarks)
        /\ \A k, j \in DOMAIN bookmarks : bookmarks[k].magnet = bookmarks[j].magnet => k = j
        /\ player \in Players
        /\ player.pc # "off" => player.ep \in Parts /\ player.magnet \in Magnets
        /\ queue \in Seq(Saves) /\ Len(queue) <= MaxQueue
        /\ step \in {"title", "episode", "bookmark"} /\ (queue = <<>> => step = "title")
        /\ torn \in BOOLEAN /\ lost \cup finished \cup unseen \subseteq Parts
    BY <1>0 DEF TypeOK
  <2>3. TypeOK'
    BY <1>1, <1>2, <1>3, <1>4, <1>6, <2>1, <2>2 DEF TypeOK
  <2> QED BY <1>0, <1>1, <2>1, <2>3 DEF TypeInv, InParts, LooksAhead
<1>8. EndsAreFinished' /\ HasEpisode'
  BY <1>1 DEF ProgressInv, EndsAreFinished, HasEpisode
<1>9. MovesOn'
  <2>1. title.pos >= Late => title.ep \in lost \cup unseen \/ Waiting(title.ep, {"title"})
    BY DEF ProgressInv, MovesOn
  <2>2. title'.pos >= Late => title'.pos = title.pos /\ title'.ep = title.ep
    <3>1. title.pos \in 0..4
      BY <1>0, PartsAre DEF TypeOK, Titles
    <3> QED BY <1>3, <3>1 DEF Start, Late
  <2> QED BY <1>1, <2>1, <2>2 DEF MovesOn, Waiting
<1>10. Watched'
  BY <1>1 DEF ProgressInv, Watched, Waiting
<1>11. HalfSaved' /\ Agree'
  BY <1>1, <1>3 DEF ProgressInv, HalfSaved, Agree
<1>12. MarkStands'
  BY <1>5 DEF MarkStands
<1>13. Undisturbed'
  <2>1. due' # None => \A j \in ToCome : ~Real(queue[j])
    BY DEF ServeMark, MarkFails, ProgressInv, Undisturbed, historyVars
  <2> QED BY <1>1, <2>1 DEF Undisturbed, ToCome, Real, movie
<1> QED BY <1>7, <1>8, <1>9, <1>10, <1>11, <1>12, <1>13 DEF ProgressInv

LEMMA StartKeepsProgress == Init => ProgressInv
<1> SUFFICES ASSUME Init
             PROVE  ProgressInv
  OBVIOUS
<1>1. /\ length \in Lengths /\ title = Untouched /\ episodes = {} /\ bookmarks = <<>>
      /\ page = [title |-> title, watched |-> episodes]
      /\ player = NoPlayer /\ queue = <<>> /\ step = "title" /\ marks = <<>>
      /\ count = [marks |-> 0, plays |-> 0, faults |-> 0]
      /\ torn = FALSE /\ lost = {} /\ finished = {} /\ unseen = {} /\ due = None
  BY DEF Init
<1>2. length \in Nat /\ Start \in Positions
  BY <1>1, ProgressAssumption DEF Start
<1>3. title \in Titles /\ title.pos = Start
  BY <1>1, <1>2 DEF Titles, Untouched
<1>4. page \in Pages
  BY <1>1, <1>3 DEF Pages
<1>5. player \in Players /\ player.pc = "off"
  BY <1>1, <1>2 DEF NoPlayer, Players
<1>6. /\ queue \in Seq(Saves) /\ DOMAIN queue = {} /\ Len(queue) <= MaxQueue
      /\ bookmarks \in Seq(Bookmarks) /\ DOMAIN bookmarks = {} /\ marks \in Seq(BOOLEAN)
  BY <1>1, ProgressAssumption
<1>7. count \in [marks : 0..MaxMarks, plays : 0..MaxPlays, faults : 0..MaxFaults]
  BY <1>1, ProgressAssumption
<1>8. TypeOK
  BY <1>1, <1>3, <1>4, <1>5, <1>6, <1>7 DEF TypeOK
<1>9. TypeInv
  BY <1>5, <1>6, <1>8 DEF TypeInv, InParts, LooksAhead
<1>10. EndsAreFinished /\ MovesOn /\ Watched
  BY <1>1, <1>3, <1>6 DEF EndsAreFinished, MovesOn, Watched, Start, Late
<1>11. HalfSaved /\ HasEpisode /\ Agree /\ MarkStands /\ Undisturbed
  BY <1>1, <1>3 DEF HalfSaved, HasEpisode, Agree, MarkStands, Undisturbed, Start
<1> QED BY <1>9, <1>10, <1>11 DEF ProgressInv

LEMMA StepKeepsProgress ==
  ASSUME ProgressInv, Next
  PROVE  ProgressInv'
<1>0. TypeInv
  BY DEF ProgressInv
<1>1. CASE FirstFrame \/ (\E p \in Positions : Move(p)) \/ Tick \/ AskNext
             \/ (\E m \in Magnets : OpenNext(m)) \/ NoNext \/ Leave
  BY <1>0, <1>1, PlayerDoes, DeviceKeepsProgress
<1>2. CASE Play \/ (\E e \in Episodes : PlayEpisode(e)) \/ Reload \/ ToggleWatched
  BY <1>0, <1>2, PageDoes, DeviceKeepsProgress
<1>3. CASE SaveTitle
  BY <1>3, SaveTitleKeepsProgress
<1>4. CASE SaveEpisode \/ EpisodeFails
  BY <1>4, EpisodePartKeepsProgress
<1>5. CASE SaveBookmark
  BY <1>5, SaveBookmarkKeepsProgress
<1>6. CASE SaveFails
  BY <1>6, SaveFailsKeepsProgress
<1>7. CASE AppEnds
  BY <1>7, AppEndsKeepsProgress
<1>8. CASE \E i \in DOMAIN marks : ServeMark(i) \/ MarkFails(i)
  BY <1>8, MarkKeepsProgress
<1> QED BY <1>1, <1>2, <1>3, <1>4, <1>5, <1>6, <1>7, <1>8 DEF Next, ServerStep

LEMMA StutterKeepsProgress ==
  ASSUME ProgressInv, UNCHANGED vars
  PROVE  ProgressInv'
<1>0. TypeInv
  BY DEF ProgressInv
<1>1. UNCHANGED <<length, serverVars, page, player, queue, step, marks, count, historyVars>>
  BY DEF vars
<1>2. Device /\ SavesMore
  BY <1>0, <1>1, NowDevice, RestsSavesMore DEF Device, PlayerIs
<1> QED BY <1>2, DeviceKeepsProgress

LEMMA ProgressInvariant == Spec => []ProgressInv
<1>1. Init => ProgressInv
  BY StartKeepsProgress
<1>2. ProgressInv /\ [Next]_vars => ProgressInv'
  BY StepKeepsProgress, StutterKeepsProgress
<1> QED BY <1>1, <1>2, PTL DEF Spec

\* Whatever is played, saved, marked, lost and cut off, the player, its queue, the page and the
\* server's rows keep values of their types: no episode the title does not have is ever asked
\* for, and no torrent has two bookmarks (save_stream_resume, playNextEpisode, seriesPlayTarget).
THEOREM ProgressTypeCorrect == Spec => []TypeOK
<1>1. ProgressInv => TypeOK
  BY DEF ProgressInv, TypeInv
<1> QED BY <1>1, ProgressInvariant, PTL

\* The comment of update_progress, for seasons and queues of any length: a title's row rests near
\* the end of an episode only if saves of it were lost, or if the player was closed there
\* before it took the episode for finished.
THEOREM NoTitleStaysParked == Spec => []NotParkedAtEnd
<1>1. ProgressInv => NotParkedAtEnd
  <2> SUFFICES ASSUME ProgressInv, queue = <<>>, title.pos >= Late
               PROVE  title.ep \in lost \cup unseen
    BY DEF NotParkedAtEnd
  <2>1. DOMAIN queue = {}
    OBVIOUS
  <2> QED BY <2>1 DEF ProgressInv, MovesOn, Waiting
<1> QED BY <1>1, ProgressInvariant, PTL

\* Once the saves are through, the page offers something that was finished only when all that
\* follows it is watched (seriesPlayTarget, upsert_episode_progress).
THEOREM TheNextIsOffered == Spec => []NextIsOffered
<1>1. ProgressInv => NextIsOffered
  <2> SUFFICES ASSUME ProgressInv, Current, queue = <<>>,
                      PlayTarget(page) \in (finished \ lost) \ {0}
               PROVE  \A e \in Episodes : e > PlayTarget(page) => e \in page.watched
    BY DEF NextIsOffered
  <2>1. DOMAIN queue = {}
    OBVIOUS
  <2>2. PlayTarget(page) \in episodes
    <3>1. PICK e : e = PlayTarget(page)
      OBVIOUS
    <3> QED BY <2>1, <3>1 DEF ProgressInv, Watched, Waiting
  <2>3. PlayTarget(page) \in page.watched
    BY <2>2 DEF Current
  <2> QED BY <2>3, PlayTargetIs DEF ProgressInv
<1> QED BY <1>1, ProgressInvariant, PTL

\* A mark the server took stands, through saves that fail, are lost or arrive late and through any
\* number of other marks, until the player has saved more than the first minute of the title or the
\* end of a movie, and unless such a save was waiting already: no save that could undo the mark is
\* then left in the queue, whatever its length (Undisturbed; set_watched, update_progress).
THEOREM MarksStand == Spec => []MarkStands
<1>1. ProgressInv => MarkStands
  BY DEF ProgressInv
<1> QED BY <1>1, ProgressInvariant, PTL

LEMMA ResumeIsWhereLeft ==
  ASSUME ProgressInv, NEW e \in Parts, Resume(e), ~torn, Current
  PROVE  player'.pos = title.pos
<1>1. /\ page.title = title /\ title.pos > Start /\ (e = 0 \/ e = title.ep)
  BY DEF Resume, Resumable, CanResume, Current
<1>2. title.pos \in 0..4 /\ TypeOK /\ title \in Titles
  BY PartsAre DEF ProgressInv, TypeInv, TypeOK, Titles
<1>3. e = title.ep
  <2>1. CASE movie
    BY <1>1, <1>2, <2>1, PartsAre DEF Titles, movie
  <2>2. CASE ~movie
    BY <1>1, <1>2, <2>2, PartsAre
  <2> QED BY <2>1, <2>2
<1>4. /\ bookmarks \in Seq(Bookmarks) /\ bookmarks # <<>>
      /\ bookmarks[1].pos = title.pos /\ bookmarks[1].ep = title.ep
  BY <1>1, <1>2 DEF ProgressInv, Agree, TypeOK
<1>5. 1 \in BookmarksOf(e)
  BY <1>3, <1>4 DEF BookmarksOf
<1>6. \A i \in Newest(e) : i = 1
  BY <1>4, <1>5 DEF Newest, BookmarksOf
<1>7. ASSUME NEW m, NEW pos, Open(e, m, pos)
      PROVE  player'.pos = pos
  BY <1>7 DEF Open, Opened, NoPlayer
<1>8. Furthest(title.pos, title.pos) = title.pos
  BY DEF Furthest
<1> QED BY <1>1, <1>4, <1>6, <1>7, <1>8 DEF Resume

\* Resuming starts where the title was left, whenever its latest save got through as a whole, no
\* other is waiting and the page shows what the server has (openSources, saveWatchProgress,
\* load_stream_bookmark).
THEOREM ResumesAtThePlace == Spec => ResumesWhereLeft
<1>1. ProgressInv /\ [Next]_vars =>
        [player.pc = "off" /\ player'.pc = "opening" /\ player'.pos > Start
           => player'.pos = title.pos \/ torn \/ queue # <<>> \/ ~Current]_vars
  <2> SUFFICES ASSUME ProgressInv, Next, player.pc = "off", player'.pc = "opening", player'.pos > Start,
                      ~torn, Current
               PROVE  player'.pos = title.pos
    OBVIOUS
  <2>0. TypeInv /\ NoPlayer.pc = "off"
    BY DEF ProgressInv, NoPlayer
  <2>1. ASSUME NEW e, PlayAnew(e)
        PROVE  FALSE
    BY <2>1 DEF PlayAnew, Open, Opened, NoPlayer, Start
  <2>2. CASE Play
    <3>1. PlayTarget(page) \in Parts
      BY <2>0, PlayTargetIs
    <3> QED BY <2>1, <2>2, <3>1, ResumeIsWhereLeft DEF Play
  <2>3. CASE \E e \in Episodes : PlayEpisode(e)
    <3>1. PICK e \in Episodes : PlayEpisode(e)
      BY <2>3
    <3>2. e \in Parts
      BY PartsAre, <2>0 DEF TypeInv, Parts, Episodes, movie
    <3> QED BY <2>1, <3>1, <3>2, ResumeIsWhereLeft DEF PlayEpisode
  <2>4. ~FirstFrame /\ ~Tick /\ ~AskNext /\ ~NoNext /\ ~Leave /\ ~(\E p \in Positions : Move(p))
        /\ ~(\E m \in Magnets : OpenNext(m))
    BY DEF FirstFrame, Tick, AskNext, NoNext, Leave, Move, OpenNext
  <2>5. /\ ~SaveTitle /\ ~SaveEpisode /\ ~SaveBookmark /\ ~EpisodeFails /\ ~SaveFails
        /\ ~Reload /\ ~ToggleWatched /\ ~(\E i \in DOMAIN marks : ServeMark(i) \/ MarkFails(i))
    BY DEF SaveTitle, SaveEpisode, SaveBookmark, EpisodeFails, SaveFails, Reload, ToggleWatched,
           ServeMark, MarkFails
  <2>6. ~AppEnds
    BY <2>0 DEF AppEnds
  <2> QED BY <2>2, <2>3, <2>4, <2>5, <2>6 DEF Next, ServerStep
<1> QED BY <1>1, ProgressInvariant, PTL DEF Spec, ResumesWhereLeft

--------------------------------------------------------------------------------
(* The settings that are in force (LiveSettings).                                *)
AnyValue == Values \cup BOOLEAN \cup {None}

\* A save that is alone with a field is the only one that is about to change it, and once it has
\* written it, the table says what memory is to say.
AloneHolds ==
  \A s \in Requests, x \in Live!Fields :
    x \in save[s].alone =>
      /\ Live!Saving(x) = {s}
      /\ save[s].pc = "apply" /\ x \in DOMAIN save[s].write => table[x] = save[s].apply[x]

\* A field that a save is not alone with is unsure.
OthersAreUnsure ==
  \A s \in Requests, x \in Live!Fields :
    s \in Live!Saving(x) /\ x \notin save[s].alone => x \in unsure

\* What is written is what is applied, and what is applied alone is blank.
Agrees(write, apply) ==
  /\ DOMAIN write \subseteq DOMAIN apply
  /\ \A x \in DOMAIN write : write[x] = apply[x]
  /\ \A x \in DOMAIN apply \ DOMAIN write : apply[x] = None

WritesAgree == \A s \in Requests : Agrees(save[s].write, save[s].apply)

\* Until the table is written, memory is what a start would make of it.
MemoryHolds ==
  \A x \in Live!Fields :
    x \notin unsure /\ (\A s \in Live!Saving(x) : save[s].pc = "write")
      => memory[x] = Live!Overlay(table)[x]

LiveInv == Live!TypeOK /\ AloneHolds /\ OthersAreUnsure /\ WritesAgree /\ MemoryHolds

\* Functions on some of the fields are what a save may give.
LEMMA GivenIs ==
  /\ \A S \in SUBSET Live!Fields : \A g \in [S -> AnyValue] : g \in Live!Given
  /\ \A g \in Live!Given : DOMAIN g \subseteq Live!Fields /\ g \in [DOMAIN g -> AnyValue]
<1>1. ASSUME NEW S \in SUBSET Live!Fields, NEW g \in [S -> AnyValue] PROVE g \in Live!Given
  BY <1>1 DEF Live!Given, AnyValue
<1>2. ASSUME NEW g \in Live!Given
      PROVE DOMAIN g \subseteq Live!Fields /\ g \in [DOMAIN g -> AnyValue]
  <2>1. PICK S \in SUBSET Live!Fields : g \in [S -> Values \cup BOOLEAN \cup {None}]
    BY <1>2 DEF Live!Given
  <2> QED BY <2>1 DEF AnyValue
<1> QED BY <1>1, <1>2

\* A change of a full row is a full row.
LEMMA WithIs ==
  ASSUME NEW r \in Live!Given, DOMAIN r = Live!Fields, Live!Fits(r),
         NEW g \in Live!Given, Live!Fits(g)
  PROVE  LET n == Live!With(r, g) IN
         /\ n \in Live!Given /\ DOMAIN n = Live!Fields /\ Live!Fits(n)
         /\ \A x \in Live!Fields : n[x] = IF x \in DOMAIN g THEN g[x] ELSE r[x]
<1> DEFINE n == Live!With(r, g)
<1>1. /\ DOMAIN n = Live!Fields
      /\ \A x \in Live!Fields : n[x] = IF x \in DOMAIN g THEN g[x] ELSE r[x]
  BY DEF Live!With
<1>2. n \in [Live!Fields -> AnyValue] BY GivenIs DEF Live!With
<1>3. n \in Live!Given BY <1>2, GivenIs
<1> HIDE DEF n
<1>4. Live!Fits(n) BY <1>1 DEF Live!Fits
<1> QED BY <1>1, <1>3, <1>4 DEF n

\* So is what a start makes of the table.
LEMMA OverlayIs ==
  ASSUME Live!TypeOK
  PROVE  LET n == Live!Overlay(table) IN
         /\ n \in Live!Given /\ DOMAIN n = Live!Fields /\ Live!Fits(n)
         /\ \A x \in Live!Fields : table[x] # None => n[x] = table[x]
<1> DEFINE n == Live!Overlay(table)
<1>1. table \in [Live!Fields -> AnyValue] /\ environment \in [Live!Fields -> AnyValue]
  BY GivenIs DEF Live!TypeOK
<1>2. n = [x \in Live!Fields |-> IF x = "tmdb" /\ table[x] = None THEN environment[x] ELSE table[x]]
  BY <1>1 DEF Live!Overlay, Live!Fields, Live!Keys
<1>3. n \in [Live!Fields -> AnyValue] BY <1>1, <1>2
<1>4. n \in Live!Given /\ DOMAIN n = Live!Fields BY <1>3, GivenIs
<1> HIDE DEF n
<1>5. Live!Fits(n) BY <1>1, <1>2 DEF Live!Fits, Live!TypeOK
<1> QED BY <1>2, <1>4, <1>5 DEF n

LEMMA LiveInit == ASSUME Live!Init, Live!SettingsAssumption PROVE LiveInv
<1>1. Live!TypeOK
  <2>1. PICK key \in Values \cup {None} :
          environment = [Live!Unset EXCEPT !["jackett"] = key, !["tmdb"] = key]
    BY DEF Live!Init
  <2>2. PICK l \in Values : table = [Live!Unset EXCEPT !["languages"] = l] BY DEF Live!Init
  <2>3. /\ environment = [x \in Live!Fields |->
                            IF x \in {"jackett", "tmdb"} THEN key ELSE Live!Unset[x]]
        /\ table = [x \in Live!Fields |-> IF x = "languages" THEN l ELSE Live!Unset[x]]
    BY <2>1, <2>2 DEF Live!Unset
  <2>4. environment \in [Live!Fields -> AnyValue] /\ table \in [Live!Fields -> AnyValue]
    BY <2>3 DEF Live!Unset, AnyValue
  <2>5. Live!Fits(environment) /\ Live!Fits(table)
    BY <2>3, <2>4 DEF Live!Unset, Live!Fits, Live!Fields, Live!Keys, Live!Switches
  <2>6. environment \in Live!Given /\ table \in Live!Given BY <2>4, GivenIs
  <2>7. table \in [Live!Fields -> AnyValue] /\ environment \in [Live!Fields -> AnyValue] BY <2>4
  <2>8. memory = [x \in Live!Fields |-> IF x = "tmdb" /\ table[x] = None THEN environment[x] ELSE table[x]]
    BY <2>4 DEF Live!Init, Live!Overlay, Live!Fields, Live!Keys
  <2>9. memory \in [Live!Fields -> AnyValue] BY <2>4, <2>8
  <2>10. memory \in Live!Given BY <2>9, GivenIs
  <2>11. Live!Fits(memory) BY <2>4, <2>5, <2>8 DEF Live!Fits
  <2>12. << >> \in Live!Given /\ Live!Fits(<< >>)
    <3>1. << >> \in [{} -> AnyValue] OBVIOUS
    <3> QED BY <3>1, GivenIs DEF Live!Fits
  <2>13. \A s \in Requests : save[s] = Live!NotSaving BY DEF Live!Init
  <2>14. save \in [Requests -> [pc : {"idle", "write", "apply"}, write : Live!Given,
                                apply : Live!Given, alone : SUBSET Live!Fields]]
    BY <2>12 DEF Live!Init, Live!NotSaving
  <2>15. unsure \subseteq Live!Fields /\ saves \in 0..MaxSaves /\ troubles \in 0..MaxTroubles
    BY DEF Live!Init, Live!SettingsAssumption
  <2>16. \A s \in Requests : DOMAIN save[s].write \subseteq DOMAIN save[s].apply
                             /\ Live!Fits(save[s].write) /\ Live!Fits(save[s].apply)
    BY <2>12, <2>13 DEF Live!NotSaving
  <2> QED BY <2>4, <2>5, <2>6, <2>9, <2>10, <2>11, <2>14, <2>15, <2>16 DEF Live!TypeOK
<1>2. AloneHolds /\ OthersAreUnsure /\ WritesAgree /\ MemoryHolds
  BY DEF Live!Init, AloneHolds, OthersAreUnsure, WritesAgree, Agrees, MemoryHolds, Live!NotSaving,
         Live!Saving
<1> QED BY <1>1, <1>2 DEF LiveInv

\* What the invariant says of a request is what it says of its part of `save`.
LEMMA SaveIs ==
  ASSUME Live!TypeOK, NEW s \in Requests
  PROVE  /\ save[s] \in [pc : {"idle", "write", "apply"}, write : Live!Given, apply : Live!Given,
                         alone : SUBSET Live!Fields]
         /\ DOMAIN save[s].apply \subseteq Live!Fields
         /\ DOMAIN save[s].write \subseteq DOMAIN save[s].apply
BY GivenIs DEF Live!TypeOK

LEMMA NotSavingIs ==
  /\ Live!NotSaving \in [pc : {"idle", "write", "apply"}, write : Live!Given, apply : Live!Given,
                         alone : SUBSET Live!Fields]
  /\ Live!Fits(Live!NotSaving.write) /\ Live!Fits(Live!NotSaving.apply)
  /\ Agrees(Live!NotSaving.write, Live!NotSaving.apply)
<1>1. << >> \in [{} -> AnyValue] OBVIOUS
<1>2. << >> \in Live!Given /\ Live!Fits(<< >>) BY <1>1, GivenIs DEF Live!Fits
<1> QED BY <1>2 DEF Live!NotSaving, Agrees

\* A request that begins.
LEMMA BeginKeeps ==
  ASSUME LiveInv, NEW s \in Requests, NEW write \in Live!Given, NEW apply \in Live!Given,
         Live!Fits(write), Live!Fits(apply), Agrees(write, apply), Live!Begin(s, write, apply),
         Live!SettingsAssumption
  PROVE  LiveInv'
<1>1. DOMAIN apply \subseteq Live!Fields /\ DOMAIN write \subseteq DOMAIN apply
  BY GivenIs DEF Agrees
<1> DEFINE new == {x \in DOMAIN apply : Live!Saving(x) = {}}
<1>2. /\ save'[s] = [pc |-> "write", write |-> write, apply |-> apply, alone |-> new]
      /\ \A t \in Requests \ {s} :
           /\ save'[t].pc = save[t].pc /\ save'[t].write = save[t].write
           /\ save'[t].apply = save[t].apply /\ save'[t].alone = save[t].alone \ DOMAIN apply
           /\ save'[t] \in [pc : {"idle", "write", "apply"}, write : Live!Given,
                            apply : Live!Given, alone : SUBSET Live!Fields]
  BY SaveIs DEF Live!Begin, LiveInv
<1>3. Live!TypeOK'
  <2>1. save' \in [Requests -> [pc : {"idle", "write", "apply"}, write : Live!Given,
                                apply : Live!Given, alone : SUBSET Live!Fields]]
    <3>1. save' = [t \in Requests |-> save'[t]] BY DEF Live!Begin
    <3>2. save'[s] \in [pc : {"idle", "write", "apply"}, write : Live!Given, apply : Live!Given,
                        alone : SUBSET Live!Fields]
      BY <1>1, <1>2
    <3> QED BY <1>2, <3>1, <3>2
  <2>2. \A t \in Requests : /\ DOMAIN save'[t].write \subseteq DOMAIN save'[t].apply
                            /\ Live!Fits(save'[t].write) /\ Live!Fits(save'[t].apply)
    BY <1>1, <1>2 DEF LiveInv, Live!TypeOK
  <2>3. /\ unsure' \subseteq Live!Fields /\ saves' \in 0..MaxSaves
        /\ UNCHANGED <<environment, table, memory, troubles>>
    BY <1>1 DEF Live!Begin, LiveInv, Live!TypeOK, Live!SettingsAssumption
  <2> QED BY <2>1, <2>2, <2>3 DEF LiveInv, Live!TypeOK
<1>4. \A x \in Live!Fields :
        Live!Saving(x)' = IF x \in DOMAIN apply THEN Live!Saving(x) \cup {s} ELSE Live!Saving(x)
  BY <1>2 DEF Live!Saving, Live!Begin
<1>5. \A x : s \notin Live!Saving(x) BY DEF Live!Saving, Live!Begin
<1>6. AloneHolds'
  <2> SUFFICES ASSUME NEW t \in Requests, NEW x \in Live!Fields, x \in save'[t].alone
               PROVE  /\ Live!Saving(x)' = {t}
                      /\ save'[t].pc = "apply" /\ x \in DOMAIN save'[t].write
                           => table'[x] = save'[t].apply[x]
    BY DEF AloneHolds
  <2>1. CASE t = s BY <1>2, <1>4, <2>1
  <2>2. CASE t # s
    <3>1. x \in save[t].alone /\ x \notin DOMAIN apply BY <1>2, <2>2
    <3>2. /\ Live!Saving(x) = {t}
          /\ save[t].pc = "apply" /\ x \in DOMAIN save[t].write => table[x] = save[t].apply[x]
      BY <3>1 DEF LiveInv, AloneHolds
    <3>3. Live!Saving(x)' = {t} BY <1>4, <3>1, <3>2
    <3>4. table' = table BY DEF Live!Begin
    <3> QED BY <1>2, <2>2, <3>2, <3>3, <3>4
  <2> QED BY <2>1, <2>2
<1>7. OthersAreUnsure'
  <2> SUFFICES ASSUME NEW t \in Requests, NEW x \in Live!Fields, t \in Live!Saving(x)',
                      x \notin save'[t].alone
               PROVE  x \in unsure'
    BY DEF OthersAreUnsure
  <2>1. CASE t = s
    <3>1. x \in DOMAIN apply /\ Live!Saving(x) # {} BY <1>2, <2>1 DEF Live!Saving
    <3> QED BY <3>1 DEF Live!Begin
  <2>2. CASE t # s
    <3>1. t \in Live!Saving(x) BY <1>4, <2>2
    <3>2. CASE x \in DOMAIN apply BY <3>1, <3>2 DEF Live!Begin
    <3>3. CASE x \notin DOMAIN apply
      BY <1>2, <2>2, <3>1, <3>3 DEF Live!Begin, LiveInv, OthersAreUnsure
    <3> QED BY <3>2, <3>3
  <2> QED BY <2>1, <2>2
<1>8. WritesAgree'
  <2>1. Agrees(save'[s].write, save'[s].apply) BY <1>2
  <2>2. \A t \in Requests \ {s} : Agrees(save'[t].write, save'[t].apply)
    BY <1>2 DEF LiveInv, WritesAgree
  <2> QED BY <2>1, <2>2 DEF WritesAgree
<1>9. MemoryHolds'
  <2> SUFFICES ASSUME NEW x \in Live!Fields, x \notin unsure',
                      \A t \in Live!Saving(x)' : save'[t].pc = "write"
               PROVE  memory'[x] = Live!Overlay(table)'[x]
    BY DEF MemoryHolds
  <2>1. x \notin unsure BY DEF Live!Begin
  <2>2. \A t \in Live!Saving(x) : save[t].pc = "write"
    BY <1>2, <1>4 DEF Live!Begin, Live!Saving
  <2>3. memory[x] = Live!Overlay(table)[x] BY <2>1, <2>2 DEF LiveInv, MemoryHolds
  <2> QED BY <2>3 DEF Live!Begin, Live!Overlay
<1> QED BY <1>3, <1>6, <1>7, <1>8, <1>9 DEF LiveInv

\* Both the table and memory get the same, made of the values there are.
LEMMA BothFits ==
  ASSUME LiveInv, NEW s \in Requests, NEW S \in SUBSET Live!Fields, NEW g \in [S -> AnyValue],
         Live!Fits(g), Live!Both(s, g), Live!SettingsAssumption
  PROVE  LiveInv'
<1>1. g \in Live!Given BY GivenIs
<1>2. Agrees(g, g) BY DEF Agrees
<1> QED BY <1>1, <1>2, BeginKeeps DEF Live!Both

\* What the console and devices send.
LEMMA SavesBegin ==
  ASSUME LiveInv, NEW s \in Requests, Live!SettingsAssumption,
         Live!ConsoleSaves(s) \/ Live!UpdateSettings(s) \/ Live!UpdateLanguages(s)
  PROVE  LiveInv'
<1>1. CASE Live!SaveJackett(s)
  <2>1. PICK typed \in BOOLEAN, v \in Values, l \in Values :
          Live!Both(s, [x \in {"jackett_enabled", "languages"} \cup (IF typed THEN {"jackett"} ELSE {}) |->
             IF x = "jackett_enabled" THEN Live!Enabled(typed) ELSE IF x = "jackett" THEN v ELSE l])
    BY <1>1 DEF Live!SaveJackett
  <2> DEFINE S == {"jackett_enabled", "languages"} \cup (IF typed THEN {"jackett"} ELSE {})
             g == [x \in S |-> IF x = "jackett_enabled" THEN Live!Enabled(typed)
                               ELSE IF x = "jackett" THEN v ELSE l]
  <2>2. S \in SUBSET Live!Fields BY DEF Live!Fields, Live!Switches, Live!Keys
  <2>3. memory["jackett_enabled"] \in BOOLEAN
    BY DEF LiveInv, Live!TypeOK, Live!Fits, Live!Fields, Live!Switches
  <2>4. Live!Enabled(typed) \in BOOLEAN
    BY <2>3 DEF Live!Enabled, Live!JackettConfigured, Live!HasJackett
  <2>5. g \in [S -> AnyValue] BY <2>4 DEF AnyValue
  <2>6. Live!Fits(g) BY <2>4 DEF Live!Fits, Live!Switches
  <2> HIDE DEF g, S
  <2> QED BY <2>1, <2>2, <2>5, <2>6, BothFits DEF g, S
<1>2. CASE Live!ToggleJackett(s)
  <2> DEFINE g == [x \in {"jackett_enabled"} |-> ~memory["jackett_enabled"]]
  <2>1. g \in [{"jackett_enabled"} -> AnyValue] /\ Live!Fits(g)
    BY DEF AnyValue, Live!Fits, Live!Switches
  <2>2. {"jackett_enabled"} \in SUBSET Live!Fields BY DEF Live!Fields, Live!Switches
  <2>3. Live!Both(s, g) BY <1>2 DEF Live!ToggleJackett
  <2> HIDE DEF g
  <2> QED BY <2>1, <2>2, <2>3, BothFits
<1>3. CASE Live!SaveMetadataKeys(s)
  <2>1. PICK v \in Values : Live!Both(s, [x \in {"tmdb"} |-> v]) BY <1>3 DEF Live!SaveMetadataKeys
  <2> DEFINE g == [x \in {"tmdb"} |-> v]
  <2>2. g \in [{"tmdb"} -> AnyValue] /\ Live!Fits(g) BY DEF AnyValue, Live!Fits, Live!Switches
  <2>3. {"tmdb"} \in SUBSET Live!Fields BY DEF Live!Fields, Live!Keys
  <2> HIDE DEF g
  <2> QED BY <2>1, <2>2, <2>3, BothFits DEF g
<1>4. CASE Live!SaveSubtitleKeys(s)
  <2>1. PICK typed \in {{"wyzie"}, {"opensubtitles"}, {"opensubtitles", "wyzie"}}, v \in Values :
          Live!Both(s,
            [x \in typed \cup (IF "opensubtitles" \in typed THEN {"opensubtitles_enabled"} ELSE {}) |->
               IF x = "opensubtitles_enabled" THEN TRUE ELSE v])
    BY <1>4 DEF Live!SaveSubtitleKeys
  <2> DEFINE S == typed \cup (IF "opensubtitles" \in typed THEN {"opensubtitles_enabled"} ELSE {})
             g == [x \in S |-> IF x = "opensubtitles_enabled" THEN TRUE ELSE v]
  <2>2. S \in SUBSET Live!Fields BY DEF Live!Fields, Live!Switches, Live!Keys
  <2>3. "jackett_enabled" \notin S OBVIOUS
  <2>4. g \in [S -> AnyValue] BY DEF AnyValue
  <2>5. Live!Fits(g) BY <2>3 DEF Live!Fits, Live!Switches
  <2> HIDE DEF g, S
  <2> QED BY <2>1, <2>2, <2>4, <2>5, BothFits DEF g, S
<1>5. CASE Live!UpdateLanguages(s)
  <2>1. PICK l \in Values : Live!Both(s, [x \in {"languages"} |-> l])
    BY <1>5 DEF Live!UpdateLanguages
  <2> DEFINE g == [x \in {"languages"} |-> l]
  <2>2. g \in [{"languages"} -> AnyValue] /\ Live!Fits(g) BY DEF AnyValue, Live!Fits, Live!Switches
  <2>3. {"languages"} \in SUBSET Live!Fields BY DEF Live!Fields
  <2> HIDE DEF g
  <2> QED BY <2>1, <2>2, <2>3, BothFits DEF g
<1>6. CASE Live!UpdateSettings(s)
  <2> DEFINE Sent(S, on, v) == [x \in S |-> IF x \in Live!Switches THEN on ELSE v]
             Unwritten(v) == IF v = None THEN {"wyzie", "opensubtitles"} ELSE {}
  <2>1. PICK S \in SUBSET {"wyzie", "opensubtitles", "opensubtitles_enabled", "tmdb"},
             on \in BOOLEAN, v \in Values \cup {None} :
          Live!Begin(s, [x \in S \ Unwritten(v) |-> Sent(S, on, v)[x]], Sent(S, on, v))
    BY <1>6 DEF Live!UpdateSettings
  <2> DEFINE apply == Sent(S, on, v)
             write == [x \in S \ Unwritten(v) |-> apply[x]]
  <2>2. S \in SUBSET Live!Fields BY DEF Live!Fields, Live!Switches, Live!Keys
  <2>3. apply \in [S -> AnyValue] BY DEF AnyValue
  <2>4. write \in [S \ Unwritten(v) -> AnyValue] BY <2>3
  <2>5. apply \in Live!Given /\ write \in Live!Given BY <2>2, <2>3, <2>4, GivenIs
  <2>6. Live!Fits(apply) /\ Live!Fits(write) BY DEF Live!Fits
  <2>7. Agrees(write, apply) BY DEF Agrees, Live!Switches
  <2> HIDE DEF apply, write
  <2> QED BY <2>1, <2>5, <2>6, <2>7, BeginKeeps DEF apply, write
<1> QED BY <1>1, <1>2, <1>3, <1>4, <1>5, <1>6 DEF Live!ConsoleSaves

\* A request that ends, or goes on to memory, leaves the others as they are.
LEMMA SaveMoves ==
  ASSUME Live!TypeOK, NEW s \in Requests,
         \/ save' = [save EXCEPT ![s].pc = "apply"] /\ save[s].pc = "write"
         \/ save' = [save EXCEPT ![s] = Live!NotSaving]
  PROVE  /\ save' \in [Requests -> [pc : {"idle", "write", "apply"}, write : Live!Given,
                                    apply : Live!Given, alone : SUBSET Live!Fields]]
         /\ \A t \in Requests : /\ DOMAIN save'[t].write \subseteq DOMAIN save'[t].apply
                                /\ Live!Fits(save'[t].write) /\ Live!Fits(save'[t].apply)
         /\ \A t \in Requests \ {s} : save'[t] = save[t]
<1> DEFINE Shape == [pc : {"idle", "write", "apply"}, write : Live!Given,
                     apply : Live!Given, alone : SUBSET Live!Fields]
<1>1. \A t \in Requests : save[t] \in Shape BY SaveIs
<1>2. save'[s] \in Shape
  <2>1. CASE save' = [save EXCEPT ![s] = Live!NotSaving] BY <2>1, NotSavingIs DEF Live!TypeOK
  <2>2. CASE save' = [save EXCEPT ![s].pc = "apply"] BY <1>1, <2>2 DEF Live!TypeOK
  <2> QED BY <2>1, <2>2
<1>3. \A t \in Requests \ {s} : save'[t] = save[t] BY DEF Live!TypeOK
<1>4. save' = [t \in Requests |-> save'[t]] BY DEF Live!TypeOK
<1>5. \A t \in Requests : save'[t] \in Shape BY <1>1, <1>2, <1>3
<1>6. save' \in [Requests -> Shape] BY <1>4, <1>5
<1>7. /\ DOMAIN save'[s].write \subseteq DOMAIN save'[s].apply
      /\ Live!Fits(save'[s].write) /\ Live!Fits(save'[s].apply)
  <2>1. CASE save' = [save EXCEPT ![s] = Live!NotSaving]
    BY <2>1, NotSavingIs DEF Live!TypeOK, Agrees
  <2>2. CASE save' = [save EXCEPT ![s].pc = "apply"]
    <3>1. save'[s].write = save[s].write /\ save'[s].apply = save[s].apply
      BY <1>1, <2>2 DEF Live!TypeOK
    <3> QED BY <3>1 DEF Live!TypeOK
  <2> QED BY <2>1, <2>2
<1> QED BY <1>3, <1>6, <1>7 DEF Live!TypeOK

\* Who is alone with a field is its only saver.
LEMMA WriteKeeps ==
  ASSUME LiveInv, NEW s \in Requests, Live!Write(s)
  PROVE  LiveInv'
<1>0. Live!TypeOK /\ save[s].pc = "write" /\ save' = [save EXCEPT ![s].pc = "apply"]
  BY DEF LiveInv, Live!Write
<1>1. /\ save'[s].pc = "apply" /\ save'[s].write = save[s].write
      /\ save'[s].apply = save[s].apply /\ save'[s].alone = save[s].alone
      /\ \A t \in Requests \ {s} : save'[t] = save[t]
  BY <1>0, SaveIs, SaveMoves DEF Live!TypeOK
<1>2. /\ table' \in Live!Given /\ DOMAIN table' = Live!Fields /\ Live!Fits(table')
      /\ \A x \in Live!Fields :
           table'[x] = IF x \in DOMAIN save[s].write THEN save[s].write[x] ELSE table[x]
  BY <1>0, SaveIs, WithIs DEF Live!Write, Live!TypeOK
<1>3. Live!TypeOK'
  <2>1. UNCHANGED <<environment, memory, unsure, saves, troubles>> BY DEF Live!Write
  <2> QED BY <1>0, <1>2, <2>1, SaveMoves DEF Live!TypeOK
<1>4. \A x : Live!Saving(x)' = Live!Saving(x) BY <1>0, <1>1 DEF Live!Saving
<1>5. AloneHolds'
  <2> SUFFICES ASSUME NEW t \in Requests, NEW x \in Live!Fields, x \in save'[t].alone
               PROVE  /\ Live!Saving(x)' = {t}
                      /\ save'[t].pc = "apply" /\ x \in DOMAIN save'[t].write
                           => table'[x] = save'[t].apply[x]
    BY DEF AloneHolds
  <2>1. x \in save[t].alone BY <1>1
  <2>2. /\ Live!Saving(x) = {t}
        /\ save[t].pc = "apply" /\ x \in DOMAIN save[t].write => table[x] = save[t].apply[x]
    BY <2>1 DEF LiveInv, AloneHolds
  <2>3. CASE t = s BY <1>1, <1>2, <1>4, <2>2, <2>3 DEF LiveInv, WritesAgree, Agrees
  <2>4. CASE t # s
    <3>1. x \notin DOMAIN save[s].apply BY <1>0, <2>2, <2>4 DEF Live!Saving
    <3>2. table'[x] = table[x] BY <1>0, <1>2, <3>1, SaveIs
    <3> QED BY <1>1, <1>4, <2>2, <2>4, <3>2
  <2> QED BY <2>3, <2>4
<1>6. OthersAreUnsure' BY <1>1, <1>4 DEF LiveInv, OthersAreUnsure, Live!Write
<1>7. WritesAgree'
  <2>1. \A t \in Requests : save'[t].write = save[t].write /\ save'[t].apply = save[t].apply
    BY <1>1
  <2> QED BY <2>1 DEF LiveInv, WritesAgree
<1>8. MemoryHolds'
  <2> SUFFICES ASSUME NEW x \in Live!Fields, x \notin unsure',
                      \A t \in Live!Saving(x)' : save'[t].pc = "write"
               PROVE  memory'[x] = Live!Overlay(table)'[x]
    BY DEF MemoryHolds
  <2>1. x \notin DOMAIN save[s].apply
    <3>1. s \notin Live!Saving(x) BY <1>1, <1>4
    <3> QED BY <1>0, <3>1 DEF Live!Saving
  <2>2. table'[x] = table[x] BY <1>0, <1>2, <2>1, SaveIs
  <2>3. \A t \in Live!Saving(x) : save[t].pc = "write"
    BY <1>0, <1>1, <1>4 DEF Live!Saving
  <2>4. memory[x] = Live!Overlay(table)[x] BY <2>3 DEF LiveInv, MemoryHolds, Live!Write
  <2>5. Live!Overlay(table)'[x] = Live!Overlay(table)[x]
    BY <1>0, <1>2, <2>2, GivenIs DEF Live!Overlay, Live!TypeOK, Live!Write
  <2> QED BY <2>4, <2>5 DEF Live!Write
<1> QED BY <1>3, <1>5, <1>6, <1>7, <1>8 DEF LiveInv

\* What memory gets is in the table, or the field is unsure.
LEMMA ApplyKeeps ==
  ASSUME LiveInv, NEW s \in Requests, Live!Apply(s)
  PROVE  LiveInv'
<1>0. Live!TypeOK /\ save[s].pc = "apply" /\ save' = [save EXCEPT ![s] = Live!NotSaving]
  BY DEF LiveInv, Live!Apply
<1>1. /\ save'[s] = Live!NotSaving
      /\ \A t \in Requests \ {s} : save'[t] = save[t]
  BY <1>0, SaveMoves DEF Live!TypeOK
<1>2. /\ memory' \in Live!Given /\ DOMAIN memory' = Live!Fields /\ Live!Fits(memory')
      /\ \A x \in Live!Fields :
           memory'[x] = IF x \in DOMAIN save[s].apply THEN save[s].apply[x] ELSE memory[x]
  BY <1>0, SaveIs, WithIs DEF Live!Apply, Live!TypeOK
<1>3. Live!TypeOK'
  <2>1. UNCHANGED <<environment, table, saves, troubles>> BY DEF Live!Apply
  <2>2. unsure' \subseteq Live!Fields BY <1>0, SaveIs DEF Live!Apply, Live!TypeOK, Live!Blank
  <2> QED BY <1>0, <1>2, <2>1, <2>2, SaveMoves DEF Live!TypeOK
<1>4. \A x : Live!Saving(x)' = Live!Saving(x) \ {s}
  BY <1>0, <1>1 DEF Live!Saving, Live!NotSaving
<1>5. AloneHolds'
  <2> SUFFICES ASSUME NEW t \in Requests, NEW x \in Live!Fields, x \in save'[t].alone
               PROVE  /\ Live!Saving(x)' = {t}
                      /\ save'[t].pc = "apply" /\ x \in DOMAIN save'[t].write
                           => table'[x] = save'[t].apply[x]
    BY DEF AloneHolds
  <2>1. t # s BY <1>1 DEF Live!NotSaving
  <2>2. save'[t] = save[t] BY <1>1, <2>1
  <2>3. /\ Live!Saving(x) = {t}
        /\ save[t].pc = "apply" /\ x \in DOMAIN save[t].write => table[x] = save[t].apply[x]
    BY <2>2 DEF LiveInv, AloneHolds
  <2> QED BY <1>4, <2>1, <2>2, <2>3 DEF Live!Apply
<1>6. OthersAreUnsure'
  <2> SUFFICES ASSUME NEW t \in Requests, NEW x \in Live!Fields, t \in Live!Saving(x)',
                      x \notin save'[t].alone
               PROVE  x \in unsure'
    BY DEF OthersAreUnsure
  <2>1. t # s /\ t \in Live!Saving(x) BY <1>4
  <2>2. x \in unsure BY <1>1, <2>1 DEF LiveInv, OthersAreUnsure
  <2>3. x \notin save[s].alone BY <2>1 DEF LiveInv, AloneHolds
  <2> QED BY <2>2, <2>3 DEF Live!Apply
<1>7. WritesAgree'
  <2>1. Agrees(save'[s].write, save'[s].apply) BY <1>1, NotSavingIs
  <2>2. \A t \in Requests \ {s} : Agrees(save'[t].write, save'[t].apply)
    BY <1>1 DEF LiveInv, WritesAgree
  <2> QED BY <2>1, <2>2 DEF WritesAgree
<1>8. MemoryHolds'
  <2> SUFFICES ASSUME NEW x \in Live!Fields, x \notin unsure',
                      \A t \in Live!Saving(x)' : save'[t].pc = "write"
               PROVE  memory'[x] = Live!Overlay(table)'[x]
    BY DEF MemoryHolds
  <2>1. Live!Overlay(table)' = Live!Overlay(table) BY DEF Live!Apply, Live!Overlay
  <2>2. CASE x \in DOMAIN save[s].apply
    <3>1. s \in Live!Saving(x) BY <1>0, <2>2 DEF Live!Saving
    <3>2. save[s].apply[x] # None BY <2>2 DEF Live!Apply, Live!Blank
    <3>3. x \in DOMAIN save[s].write BY <2>2, <3>2 DEF LiveInv, WritesAgree, Agrees
    <3>4. x \in save[s].alone BY <3>1, <3>3 DEF Live!Apply, LiveInv, OthersAreUnsure
    <3>5. table[x] = save[s].apply[x] BY <1>0, <3>3, <3>4 DEF LiveInv, AloneHolds
    <3> QED BY <1>0, <1>2, <2>1, <2>2, <3>2, <3>5, OverlayIs
  <2>3. CASE x \notin DOMAIN save[s].apply
    <3>1. x \notin unsure
      BY <1>0, <2>3, SaveIs DEF Live!Apply
    <3>2. \A t \in Live!Saving(x) : save[t].pc = "write" BY <1>1, <1>4, <2>3 DEF Live!Saving
    <3>3. memory[x] = Live!Overlay(table)[x] BY <3>1, <3>2 DEF LiveInv, MemoryHolds
    <3> QED BY <1>2, <2>1, <2>3, <3>3
  <2> QED BY <2>2, <2>3
<1> QED BY <1>3, <1>5, <1>6, <1>7, <1>8 DEF LiveInv

\* A request that is cut off before its statement has changed nothing.
LEMMA CutOffKeeps ==
  ASSUME LiveInv, NEW s \in Requests, Live!CutOff(s), Live!SettingsAssumption
  PROVE  LiveInv'
<1>0. Live!TypeOK /\ save[s].pc # "idle" /\ save' = [save EXCEPT ![s] = Live!NotSaving]
  BY DEF LiveInv, Live!CutOff
<1>1. /\ save'[s] = Live!NotSaving
      /\ \A t \in Requests \ {s} : save'[t] = save[t]
  BY <1>0, SaveMoves DEF Live!TypeOK
<1>2. UNCHANGED <<environment, table, memory, saves>> /\ unsure \subseteq unsure'
  BY DEF Live!CutOff
<1>3. Live!TypeOK'
  <2>1. unsure' \subseteq Live!Fields BY <1>0, SaveIs DEF Live!CutOff, Live!TypeOK
  <2>2. troubles' \in 0..MaxTroubles
    BY <1>0 DEF Live!CutOff, Live!TypeOK, Live!Trouble, Live!SettingsAssumption
  <2> QED BY <1>0, <1>2, <2>1, <2>2, SaveMoves DEF Live!TypeOK
<1>4. \A x : Live!Saving(x)' = Live!Saving(x) \ {s}
  BY <1>0, <1>1 DEF Live!Saving, Live!NotSaving
<1>5. AloneHolds'
  <2> SUFFICES ASSUME NEW t \in Requests, NEW x \in Live!Fields, x \in save'[t].alone
               PROVE  /\ Live!Saving(x)' = {t}
                      /\ save'[t].pc = "apply" /\ x \in DOMAIN save'[t].write
                           => table'[x] = save'[t].apply[x]
    BY DEF AloneHolds
  <2>1. t # s BY <1>1 DEF Live!NotSaving
  <2>2. save'[t] = save[t] BY <1>1, <2>1
  <2>3. /\ Live!Saving(x) = {t}
        /\ save[t].pc = "apply" /\ x \in DOMAIN save[t].write => table[x] = save[t].apply[x]
    BY <2>2 DEF LiveInv, AloneHolds
  <2> QED BY <1>2, <1>4, <2>1, <2>2, <2>3
<1>6. OthersAreUnsure' BY <1>1, <1>2, <1>4 DEF LiveInv, OthersAreUnsure
<1>7. WritesAgree'
  <2>1. Agrees(save'[s].write, save'[s].apply) BY <1>1, NotSavingIs
  <2>2. \A t \in Requests \ {s} : Agrees(save'[t].write, save'[t].apply)
    BY <1>1 DEF LiveInv, WritesAgree
  <2> QED BY <2>1, <2>2 DEF WritesAgree
<1>8. MemoryHolds'
  <2> SUFFICES ASSUME NEW x \in Live!Fields, x \notin unsure',
                      \A t \in Live!Saving(x)' : save'[t].pc = "write"
               PROVE  memory[x] = Live!Overlay(table)[x]
    BY <1>2 DEF MemoryHolds, Live!Overlay
  <2>1. \A t \in Live!Saving(x) : save[t].pc = "write"
    <3>1. save[s].pc = "write" \/ s \notin Live!Saving(x)
      BY <1>0, SaveIs DEF Live!CutOff, Live!Saving
    <3> QED BY <1>1, <1>4, <3>1 DEF Live!Saving
  <2> QED BY <1>2, <2>1 DEF LiveInv, MemoryHolds
<1> QED BY <1>3, <1>5, <1>6, <1>7, <1>8 DEF LiveInv

\* After a start, memory is what a start makes of the table.
LEMMA LiveRestarts ==
  ASSUME LiveInv, Live!Restart, Live!SettingsAssumption
  PROVE  LiveInv'
<1>1. Live!TypeOK'
  <2>1. save' \in [Requests -> [pc : {"idle", "write", "apply"}, write : Live!Given,
                                apply : Live!Given, alone : SUBSET Live!Fields]]
    BY NotSavingIs DEF Live!Restart
  <2>2. \A s \in Requests : save'[s] = Live!NotSaving BY DEF Live!Restart
  <2>3. \A s \in Requests : /\ DOMAIN save'[s].write \subseteq DOMAIN save'[s].apply
                            /\ Live!Fits(save'[s].write) /\ Live!Fits(save'[s].apply)
    BY <2>2, NotSavingIs DEF Agrees
  <2>4. memory' \in Live!Given /\ DOMAIN memory' = Live!Fields /\ Live!Fits(memory')
    BY OverlayIs DEF LiveInv, Live!Restart
  <2>5. UNCHANGED <<environment, table, saves>> /\ unsure' = {} /\ troubles' \in 0..MaxTroubles
    BY DEF LiveInv, Live!TypeOK, Live!Restart, Live!Trouble, Live!SettingsAssumption
  <2> QED BY <2>1, <2>3, <2>4, <2>5 DEF LiveInv, Live!TypeOK
<1>2. \A s \in Requests : save'[s] = Live!NotSaving BY DEF Live!Restart
<1>3. \A x : Live!Saving(x)' = {} BY <1>2 DEF Live!Saving, Live!NotSaving
<1>4. AloneHolds' /\ OthersAreUnsure' BY <1>2, <1>3 DEF AloneHolds, OthersAreUnsure, Live!NotSaving
<1>5. WritesAgree' BY <1>2, NotSavingIs DEF WritesAgree
<1>6. MemoryHolds' BY DEF MemoryHolds, Live!Restart, Live!Overlay
<1> QED BY <1>1, <1>4, <1>5, <1>6 DEF LiveInv

\* Every step keeps it.
LEMMA LiveHolds == Live!Spec => []LiveInv
<1> USE LiveAssumption
<1>1. Live!Init => LiveInv BY LiveInit
<1>2. LiveInv /\ [Live!Next]_(Live!vars) => LiveInv'
  <2>1. ASSUME LiveInv, UNCHANGED Live!vars PROVE LiveInv'
    BY <2>1 DEF LiveInv, Live!vars, Live!TypeOK, AloneHolds, OthersAreUnsure, WritesAgree,
                MemoryHolds, Live!Saving, Live!Overlay
  <2>2. ASSUME LiveInv, Live!Next PROVE LiveInv'
    <3>1. \A s \in Requests : Live!ConsoleSaves(s) \/ Live!UpdateSettings(s)
                              \/ Live!UpdateLanguages(s) => LiveInv'
      BY <2>2, SavesBegin
    <3>2. \A s \in Requests : Live!Write(s) \/ Live!Apply(s) \/ Live!CutOff(s) => LiveInv'
      BY <2>2, WriteKeeps, ApplyKeeps, CutOffKeeps
    <3> QED BY <2>2, <3>1, <3>2, LiveRestarts DEF Live!Next, Live!SettingsAssumption
  <2> QED BY <2>1, <2>2
<1> QED BY <1>1, <1>2, PTL DEF Live!Spec

\* LiveSettings: types of the rows and of what the requests write and apply.
THEOREM SettingsTypeCorrect == Live!Spec => []Live!TypeOK
<1>1. LiveInv => Live!TypeOK BY DEF LiveInv
<1> QED BY <1>1, LiveHolds, PTL

\* save_settings, LiveSettings: for any requests, values and saves, what is in use is what a
\* restart would bring back, but for fields whose last saves overlapped, were cut off or blank.
THEOREM SavedIsInUse == Live!Spec => []SavedIsUsed
<1>1. LiveInv => SavedIsUsed
  BY DEF LiveInv, MemoryHolds, SavedIsUsed, Live!SavedIsUsed
<1> QED BY <1>1, LiveHolds, PTL

--------------------------------------------------------------------------------
(* The folder that is scanned (LibraryScan).                                     *)
Walk == [pc : {"off", "due", "next", "insert", "url", "codecs"}, left : SUBSET Files,
         file : Files \cup {None}, title : Folder!Matches, episode : BOOLEAN]

\* A scan is at a file only while it stores it, has none left when it is over, and the watcher's
\* runs only while the watcher waits for it.
ScansFit ==
  \A k \in Folder!Scans :
    /\ scan[k].pc \in {"insert", "url"} <=> scan[k].file # None
    /\ scan[k].pc \in {"off", "codecs"} => scan[k].left = {}
    /\ k = "watcher" /\ watcher # "scan" => scan[k].pc = "off"

\* What a row or a scan says of a file is what the catalogue says now.
UpToDate(r, f) ==
  /\ r.title = IF "exact" \in titles[f] THEN "exact" ELSE "longer"
  /\ f \in aired => r.episode

\* A scan that is at a file that has not been missed says what the catalogue says now, and so does
\* the row once it has stored it.
FindsFit ==
  \A k \in Folder!Scans, f \in Files : scan[k].file = f /\ f \notin missed =>
    /\ UpToDate(scan[k], f)
    /\ scan[k].pc = "url" => entry[f] # None /\ UpToDate(entry[f], f)

FolderInv == Folder!TypeOK /\ ScansFit /\ FindsFit /\ FilesAreListed

LEMMA WalkTypes ==
  ASSUME Folder!TypeOK
  PROVE  /\ scan \in [Folder!Scans -> Walk]
         /\ \A k \in Folder!Scans : scan[k] \in Walk
         /\ \A k \in Folder!Scans, r \in Walk :
              /\ [scan EXCEPT ![k] = r] \in [Folder!Scans -> Walk]
              /\ [scan EXCEPT ![k] = r][k] = r
              /\ \A j \in Folder!Scans \ {k} : [scan EXCEPT ![k] = r][j] = scan[j]
         /\ Folder!NoScan \in Walk
BY DEF Folder!TypeOK, Walk, Folder!NoScan, Folder!Matches

LEMMA FolderInit == ASSUME Folder!Init, Folder!ScanAssumption PROVE FolderInv
<1>1. scan = [k \in Folder!Scans |-> IF k = "boot" THEN [Folder!NoScan EXCEPT !.pc = "due"]
                                    ELSE Folder!NoScan]
  BY DEF Folder!Init, Folder!Booted
<1>2. /\ Folder!NoScan \in Walk /\ [Folder!NoScan EXCEPT !.pc = "due"] \in Walk
      /\ Folder!NoScan.file = None /\ [Folder!NoScan EXCEPT !.pc = "due"].file = None
      /\ [Folder!NoScan EXCEPT !.pc = "due"].pc = "due"
      /\ Folder!NoScan.pc = "off" /\ Folder!NoScan.left = {}
  BY DEF Folder!NoScan, Walk, Folder!Matches
<1>3. scan \in [Folder!Scans -> Walk] BY <1>1, <1>2
<1>4. Folder!TypeOK
  <2>1. titles \in [Files -> SUBSET Folder!Matches]
    <3>1. {{}, {"longer"}} \subseteq SUBSET Folder!Matches BY DEF Folder!Matches
    <3> QED BY <3>1 DEF Folder!Init
  <2>2. entry \in [Files -> Folder!Row \cup {None}] BY DEF Folder!Init
  <2>3. changes \in 0..MaxChanges /\ errors \in 0..MaxErrors
    BY DEF Folder!Init, Folder!ScanAssumption
  <2> QED BY <1>3, <2>1, <2>2, <2>3 DEF Folder!Init, Folder!TypeOK, Walk
<1>5. ScansFit BY <1>1, <1>2 DEF ScansFit, Folder!Init
<1>6. FindsFit BY <1>1, <1>2 DEF FindsFit, Folder!ScanAssumption
<1>7. FilesAreListed
  BY <1>1, <1>2 DEF FilesAreListed, Folder!FilesAreListed, Folder!Awaited, Folder!Scans
<1> QED BY <1>4, <1>5, <1>6, <1>7 DEF FolderInv

\* Changes of the folder, the catalogue and the setting.
LEMMA WorldKeeps ==
  ASSUME FolderInv, NEW f \in Files, Folder!ScanAssumption,
         \/ Folder!FileChanges(f) \/ Folder!TitleComes(f) \/ Folder!EpisodesCome(f)
         \/ Folder!TitleGoes(f) \/ Folder!SetMediaPath
  PROVE  FolderInv'
<1>0. Folder!TypeOK BY DEF FolderInv
<1>1. CASE Folder!FileChanges(f)
  <2>1. PICK seen \in SUBSET {k \in Folder!Scans : scan[k].pc \in {"next", "insert", "url"}} :
          scan' = [k \in Folder!Scans |-> IF k \in seen THEN [scan[k] EXCEPT !.left = @ \cup {f}]
                                          ELSE scan[k]]
    BY <1>1 DEF Folder!FileChanges
  <2>2. \A k \in Folder!Scans :
          /\ scan'[k].pc = scan[k].pc /\ scan'[k].file = scan[k].file
          /\ scan'[k].title = scan[k].title /\ scan'[k].episode = scan[k].episode
          /\ scan[k].left \subseteq scan'[k].left
          /\ scan[k].pc \in {"off", "codecs"} => scan'[k].left = scan[k].left
          /\ scan'[k] \in Walk
    BY <1>0, <2>1, WalkTypes DEF Walk
  <2>3. /\ UNCHANGED <<media_path, watched, titles, aired, entry, watcher, errors>>
        /\ missed \subseteq missed' /\ missed' \subseteq missed \cup {f}
        /\ changes' \in 0..MaxChanges
        /\ library' \subseteq library \cup {f} /\ rx' = (rx \/ Home[f] = watched)
        /\ (rx' /\ Home[f] = watched) \/ f \in missed'
    <3>1. changes' \in 0..MaxChanges
      BY <1>0, <1>1 DEF Folder!FileChanges, Folder!Change, Folder!TypeOK, Folder!ScanAssumption
    <3>2. (rx' /\ Home[f] = watched) \/ f \in missed' BY <1>1, Zenon DEF Folder!FileChanges
    <3>3. missed \subseteq missed' /\ missed' \subseteq missed \cup {f}
      BY <1>1 DEF Folder!FileChanges
    <3>4. library' \subseteq library \cup {f} BY <1>1 DEF Folder!FileChanges
    <3> QED BY <1>1, <3>1, <3>2, <3>3, <3>4, Zenon DEF Folder!FileChanges
  <2>4. Folder!TypeOK'
    <3>1. scan' \in [Folder!Scans -> Walk] BY <2>1, <2>2
    <3> QED BY <1>0, <2>3, <3>1 DEF Folder!TypeOK, Walk
  <2>5. ScansFit' BY <2>2, <2>3 DEF FolderInv, ScansFit
  <2>6. FindsFit' BY <2>2, <2>3 DEF FolderInv, FindsFit, UpToDate
  <2>7. \A g \in Files : Folder!Awaited(g) => Folder!Awaited(g)'
    BY <2>2, <2>3 DEF Folder!Awaited
  <2>8. FilesAreListed'
    <3>1. ASSUME NEW g \in library', Home[g] = media_path', titles'[g] # {}, g \notin missed',
                 ~Folder!Awaited(g)'
          PROVE  /\ entry'[g] # None /\ entry'[g].url
                 /\ "exact" \in titles'[g] => entry'[g].title = "exact"
                 /\ g \in aired' => entry'[g].episode
      <4>1. g # f BY <2>3, <3>1 DEF Folder!Awaited
      <4>2. g \in library /\ g \notin missed /\ g \in Files
        BY <1>0, <2>3, <3>1, <4>1 DEF Folder!TypeOK
      <4> QED BY <2>3, <2>7, <3>1, <4>2 DEF FolderInv, FilesAreListed, Folder!FilesAreListed
    <3> QED BY <3>1 DEF FilesAreListed, Folder!FilesAreListed
  <2> QED BY <2>4, <2>5, <2>6, <2>8 DEF FolderInv
<1>2. CASE Folder!TitleComes(f) \/ Folder!EpisodesCome(f) \/ Folder!TitleGoes(f)
  <2>1. /\ UNCHANGED <<media_path, watched, library, rx, watcher, scan, errors>>
        /\ missed' = missed \cup {f} /\ changes' \in 0..MaxChanges
        /\ titles' \in [Files -> SUBSET Folder!Matches] /\ aired' \subseteq Files
        /\ entry' \in [Files -> Folder!Row \cup {None}]
        /\ \A g \in Files \ {f} : /\ titles'[g] = titles[g] /\ (g \in aired' <=> g \in aired)
                                  /\ entry'[g] = entry[g]
    <3>1. CASE Folder!TitleComes(f)
      BY <1>0, <3>1 DEF Folder!TitleComes, Folder!Change, Folder!TypeOK, Folder!ScanAssumption
    <3>2. CASE Folder!EpisodesCome(f)
      BY <1>0, <3>2 DEF Folder!EpisodesCome, Folder!Change, Folder!TypeOK, Folder!ScanAssumption
    <3>3. CASE Folder!TitleGoes(f)
      BY <1>0, <3>3 DEF Folder!TitleGoes, Folder!Change, Folder!TypeOK, Folder!ScanAssumption
    <3> QED BY <1>2, <3>1, <3>2, <3>3
  <2>2. Folder!TypeOK' BY <1>0, <2>1 DEF Folder!TypeOK
  <2>3. ScansFit' BY <2>1 DEF FolderInv, ScansFit
  <2>4. FindsFit' BY <2>1 DEF FolderInv, FindsFit, UpToDate
  <2>5. FilesAreListed'
    BY <1>0, <2>1 DEF FolderInv, FilesAreListed, Folder!FilesAreListed, Folder!Awaited, Folder!TypeOK
  <2> QED BY <2>2, <2>3, <2>4, <2>5 DEF FolderInv
<1>3. CASE Folder!SetMediaPath
  <2>1. /\ UNCHANGED <<watched, library, titles, aired, entry, rx, watcher, scan, errors>>
        /\ missed' = Files /\ media_path' \in Folder!Folders /\ changes' \in 0..MaxChanges
    BY <1>0, <1>3 DEF Folder!SetMediaPath, Folder!Change, Folder!TypeOK, Folder!ScanAssumption
  <2>2. Folder!TypeOK' BY <1>0, <2>1 DEF Folder!TypeOK
  <2>3. ScansFit' BY <2>1 DEF FolderInv, ScansFit
  <2>4. FindsFit' BY <2>1 DEF FindsFit
  <2>5. FilesAreListed' BY <1>0, <2>1 DEF FilesAreListed, Folder!FilesAreListed, Folder!TypeOK
  <2> QED BY <2>2, <2>3, <2>4, <2>5 DEF FolderInv
<1> QED BY <1>1, <1>2, <1>3

\* The watcher and a restart: a scan is on its way, then due.
LEMMA WatcherKeeps ==
  ASSUME FolderInv, Folder!ScanAssumption,
         Folder!Receive \/ Folder!SleepEnds \/ Folder!Drain \/ Folder!Restart
  PROVE  FolderInv'
<1>0. Folder!TypeOK BY DEF FolderInv
<1>1. CASE Folder!Receive \/ Folder!SleepEnds
  <2>1. /\ UNCHANGED <<media_path, watched, library, titles, aired, entry, changes, scan, missed,
                       errors>>
        /\ watcher \in {"recv", "sleep"} /\ watcher' \in {"sleep", "drain"} /\ rx' \in BOOLEAN
    BY <1>0, <1>1 DEF Folder!Receive, Folder!SleepEnds, Folder!world, Folder!TypeOK
  <2>2. Folder!TypeOK' BY <1>0, <2>1 DEF Folder!TypeOK
  <2>3. ScansFit' BY <2>1 DEF FolderInv, ScansFit
  <2>4. FindsFit' BY <2>1 DEF FolderInv, FindsFit, UpToDate
  <2>5. FilesAreListed' BY <2>1 DEF FilesAreListed, Folder!FilesAreListed, Folder!Awaited
  <2> QED BY <2>2, <2>3, <2>4, <2>5 DEF FolderInv
<1>2. CASE Folder!Drain
  <2>1. "watcher" \in Folder!Scans BY DEF Folder!Scans
  <2> DEFINE r == [scan["watcher"] EXCEPT !.pc = "due"]
  <2>2. scan' = [scan EXCEPT !["watcher"] = r] BY <1>2 DEF Folder!Drain
  <2>3. scan["watcher"].pc = "off" /\ scan["watcher"].file = None
    BY <1>2, <2>1 DEF FolderInv, ScansFit, Folder!Drain
  <2>4. r \in Walk /\ r.pc = "due" /\ r.file = None BY <1>0, <2>1, <2>3, WalkTypes DEF Walk
  <2> HIDE DEF r
  <2>5. /\ scan' \in [Folder!Scans -> Walk] /\ scan'["watcher"] = r
        /\ \A j \in Folder!Scans \ {"watcher"} : scan'[j] = scan[j]
    BY <1>0, <2>1, <2>2, <2>4, WalkTypes
  <2>6. /\ UNCHANGED <<media_path, watched, library, titles, aired, changes, entry, missed, errors>>
        /\ watcher' = "scan" /\ rx' = FALSE
    BY <1>2 DEF Folder!Drain, Folder!world
  <2>7. Folder!TypeOK' BY <1>0, <2>5, <2>6 DEF Folder!TypeOK, Walk
  <2>8. ScansFit' BY <2>4, <2>5, <2>6 DEF FolderInv, ScansFit
  <2>9. FindsFit' BY <2>4, <2>5, <2>6 DEF FolderInv, FindsFit, UpToDate, Folder!ScanAssumption
  <2>10. FilesAreListed'
    BY <2>1, <2>4, <2>5 DEF FilesAreListed, Folder!FilesAreListed, Folder!Awaited
  <2> QED BY <2>7, <2>8, <2>9, <2>10 DEF FolderInv
<1>3. CASE Folder!Restart
  <2>1. /\ UNCHANGED <<media_path, library, titles, aired, entry, missed, changes>>
        /\ watched' \in Folder!Folders \cup {None} /\ rx' = FALSE /\ watcher' = "recv"
        /\ errors' \in 0..MaxErrors
    BY <1>0, <1>3 DEF Folder!Restart, Folder!Error, Folder!TypeOK, Folder!ScanAssumption
  <2>2. scan' = [k \in Folder!Scans |-> IF k = "boot" THEN [Folder!NoScan EXCEPT !.pc = "due"]
                                        ELSE Folder!NoScan]
    BY <1>3 DEF Folder!Restart, Folder!Booted
  <2>3. /\ Folder!NoScan \in Walk /\ [Folder!NoScan EXCEPT !.pc = "due"] \in Walk
        /\ Folder!NoScan.file = None /\ [Folder!NoScan EXCEPT !.pc = "due"].file = None
        /\ [Folder!NoScan EXCEPT !.pc = "due"].pc = "due"
        /\ Folder!NoScan.pc = "off" /\ Folder!NoScan.left = {}
    BY DEF Folder!NoScan, Walk, Folder!Matches
  <2>4. scan' \in [Folder!Scans -> Walk] BY <2>2, <2>3
  <2>5. Folder!TypeOK' BY <1>0, <2>1, <2>4 DEF Folder!TypeOK, Walk
  <2>6. ScansFit' BY <2>1, <2>2, <2>3 DEF ScansFit
  <2>7. FindsFit' BY <2>2, <2>3 DEF FindsFit, Folder!ScanAssumption
  <2>8. FilesAreListed'
    BY <2>2, <2>3 DEF FilesAreListed, Folder!FilesAreListed, Folder!Awaited, Folder!Scans
  <2> QED BY <2>5, <2>6, <2>7, <2>8 DEF FolderInv
<1> QED BY <1>1, <1>2, <1>3

\* A scan's step changes its own record.
LEMMA ScanGoes ==
  ASSUME FolderInv, NEW k \in Folder!Scans, NEW r \in Walk, Folder!Goes(k, r)
  PROVE  /\ scan' \in [Folder!Scans -> Walk] /\ scan'[k] = r
         /\ \A j \in Folder!Scans \ {k} : scan'[j] = scan[j]
BY WalkTypes DEF FolderInv, Folder!Goes

\* scan_library: steps that store nothing.
LEMMA WalkKeeps ==
  ASSUME FolderInv, NEW k \in Folder!Scans, Folder!ScanAssumption,
         Folder!BeginScan(k) \/ Folder!Match(k) \/ Folder!EndWalk(k)
  PROVE  FolderInv'
<1>0. Folder!TypeOK /\ scan[k] \in Walk BY WalkTypes DEF FolderInv
<1>1. CASE Folder!BeginScan(k)
  <2> DEFINE here == {f \in library : Home[f] = media_path}
             r == [Folder!NoScan EXCEPT !.pc = "next", !.left = here]
  <2>1. /\ r \in Walk /\ r.pc = "next" /\ r.left = here /\ r.file = None
        /\ here \subseteq Files
    BY <1>0 DEF Walk, Folder!NoScan, Folder!Matches, Folder!TypeOK
  <2>2. /\ scan[k].pc = "due" /\ Folder!Goes(k, r)
        /\ missed' = missed \ (here \ {scan[j].file : j \in Folder!Scans})
        /\ UNCHANGED <<media_path, watched, library, titles, aired, changes, entry, rx, watcher,
                       errors>>
    BY <1>1 DEF Folder!BeginScan, Folder!world
  <2>3. here = {f \in library : Home[f] = media_path} OBVIOUS
  <2> HIDE DEF r, here
  <2>4. /\ scan' \in [Folder!Scans -> Walk] /\ scan'[k] = r
        /\ \A j \in Folder!Scans \ {k} : scan'[j] = scan[j]
    BY <2>1, <2>2, ScanGoes
  <2>5. Folder!TypeOK' BY <1>0, <2>2, <2>4 DEF Folder!TypeOK, Walk
  <2>6. ScansFit' BY <2>1, <2>2, <2>4 DEF FolderInv, ScansFit
  <2>7. FindsFit'
    <3> SUFFICES ASSUME NEW j \in Folder!Scans, NEW f \in Files, scan'[j].file = f, f \notin missed'
                 PROVE  /\ UpToDate(scan[j], f)
                        /\ scan[j].pc = "url" => entry[f] # None /\ UpToDate(entry[f], f)
                        /\ scan'[j] = scan[j]
      BY <2>2 DEF FindsFit, UpToDate
    <3>1. j # k BY <2>1, <2>4 DEF Folder!ScanAssumption
    <3>2. scan'[j] = scan[j] /\ f \notin missed BY <2>2, <2>4, <3>1
    <3> QED BY <3>2 DEF FolderInv, FindsFit
  <2>8. FilesAreListed'
    <3> SUFFICES ASSUME NEW f \in library, Home[f] = media_path
                 PROVE  Folder!Awaited(f)'
      BY <2>2 DEF FilesAreListed, Folder!FilesAreListed
    <3> QED BY <2>1, <2>3, <2>4 DEF Folder!Awaited
  <2> QED BY <2>5, <2>6, <2>7, <2>8 DEF FolderInv
<1>2. CASE Folder!Match(k)
  <2>1. PICK f \in scan[k].left :
          IF titles[f] = {}
          THEN Folder!Goes(k, [scan[k] EXCEPT !.left = scan[k].left \ {f}])
          ELSE Folder!Goes(k, [pc |-> "insert", left |-> scan[k].left \ {f}, file |-> f,
                               title |-> IF "exact" \in titles[f] THEN "exact" ELSE "longer",
                               episode |-> f \in aired])
    BY <1>2 DEF Folder!Match
  <2> DEFINE r == IF titles[f] = {} THEN [scan[k] EXCEPT !.left = scan[k].left \ {f}]
                  ELSE [pc |-> "insert", left |-> scan[k].left \ {f}, file |-> f,
                        title |-> IF "exact" \in titles[f] THEN "exact" ELSE "longer",
                        episode |-> f \in aired]
  <2>2. Folder!Goes(k, r) /\ f \in Files /\ scan[k].pc = "next" /\ scan[k].file = None
    BY <1>0, <1>2, <2>1 DEF FolderInv, ScansFit, Walk, Folder!Match
  <2>3. /\ r \in Walk /\ r.left = scan[k].left \ {f}
        /\ titles[f] = {} => r.pc = "next" /\ r.file = None
        /\ titles[f] # {} => r.pc = "insert" /\ r.file = f /\ UpToDate(r, f)
    <3>1. CASE titles[f] = {} BY <1>0, <2>2, <3>1 DEF Walk
    <3>2. CASE titles[f] # {}
      <4>1. (f \in aired) \in BOOLEAN OBVIOUS
      <4>2. /\ r.pc = "insert" /\ r.left = scan[k].left \ {f} /\ r.file = f
            /\ r.title = IF "exact" \in titles[f] THEN "exact" ELSE "longer"
            /\ r.episode = (f \in aired)
        BY <3>2
      <4>3. r = [pc |-> "insert", left |-> scan[k].left \ {f}, file |-> f,
                 title |-> IF "exact" \in titles[f] THEN "exact" ELSE "longer",
                 episode |-> f \in aired]
        BY <3>2
      <4>4. UpToDate(r, f) BY <4>2, Zenon DEF UpToDate
      <4> HIDE DEF r
      <4>5. r \in Walk BY <1>0, <2>2, <4>1, <4>3 DEF Walk, Folder!Matches
      <4> QED BY <3>2, <4>2, <4>4, <4>5
    <3> QED BY <3>1, <3>2
  <2> HIDE DEF r
  <2>4. /\ scan' \in [Folder!Scans -> Walk] /\ scan'[k] = r
        /\ \A j \in Folder!Scans \ {k} : scan'[j] = scan[j]
    BY <2>2, <2>3, ScanGoes
  <2>5. UNCHANGED <<media_path, watched, library, titles, aired, changes, entry, rx, watcher,
                    missed, errors>>
    BY <1>2 DEF Folder!Match, Folder!world
  <2>6. Folder!TypeOK' BY <1>0, <2>4, <2>5 DEF Folder!TypeOK, Walk
  <2>7. ScansFit' BY <2>2, <2>3, <2>4, <2>5 DEF FolderInv, ScansFit, Folder!ScanAssumption
  <2>8. FindsFit'
    <3> SUFFICES ASSUME NEW j \in Folder!Scans, NEW g \in Files, scan'[j].file = g, g \notin missed
                 PROVE  /\ UpToDate(scan'[j], g)
                        /\ scan'[j].pc = "url" => entry[g] # None /\ UpToDate(entry[g], g)
      BY <2>5 DEF FindsFit, UpToDate
    <3>1. CASE j = k BY <2>3, <2>4, <3>1 DEF Folder!ScanAssumption
    <3>2. CASE j # k BY <2>4, <3>2 DEF FolderInv, FindsFit
    <3> QED BY <3>1, <3>2
  <2>9. FilesAreListed'
    <3>1. \A g \in Files : titles[g] # {} /\ Folder!Awaited(g) => Folder!Awaited(g)'
      BY <2>2, <2>3, <2>4, <2>5 DEF Folder!Awaited, Folder!ScanAssumption
    <3> QED BY <1>0, <2>5, <3>1 DEF FolderInv, FilesAreListed, Folder!FilesAreListed, Folder!TypeOK
  <2> QED BY <2>6, <2>7, <2>8, <2>9 DEF FolderInv
<1>3. CASE Folder!EndWalk(k)
  <2> DEFINE r == [Folder!NoScan EXCEPT !.pc = "codecs"]
  <2>1. r \in Walk /\ r.pc = "codecs" /\ r.left = {} /\ r.file = None
    BY DEF Walk, Folder!NoScan, Folder!Matches
  <2>2. /\ scan[k].pc = "next" /\ scan[k].left = {} /\ Folder!Goes(k, r)
        /\ UNCHANGED <<media_path, watched, library, titles, aired, changes, entry, rx, watcher,
                       missed, errors>>
    BY <1>3 DEF Folder!EndWalk, Folder!world
  <2> HIDE DEF r
  <2>3. /\ scan' \in [Folder!Scans -> Walk] /\ scan'[k] = r
        /\ \A j \in Folder!Scans \ {k} : scan'[j] = scan[j]
    BY <2>1, <2>2, ScanGoes
  <2>4. Folder!TypeOK' BY <1>0, <2>2, <2>3 DEF Folder!TypeOK, Walk
  <2>5. ScansFit' BY <2>1, <2>2, <2>3 DEF FolderInv, ScansFit
  <2>6. FindsFit' BY <2>1, <2>2, <2>3 DEF FolderInv, FindsFit, UpToDate, Folder!ScanAssumption
  <2>7. FilesAreListed'
    <3>1. scan[k].file = None BY <2>2 DEF FolderInv, ScansFit
    <3>2. \A g \in Files : Folder!Awaited(g) => Folder!Awaited(g)'
      BY <2>1, <2>2, <2>3, <3>1 DEF Folder!Awaited, Folder!ScanAssumption
    <3> QED BY <1>0, <2>2, <3>2 DEF FolderInv, FilesAreListed, Folder!FilesAreListed, Folder!TypeOK
  <2> QED BY <2>4, <2>5, <2>6, <2>7 DEF FolderInv
<1> QED BY <1>1, <1>2, <1>3

\* A scan goes on to its next file.
LEMMA GoesOnIs ==
  ASSUME FolderInv, NEW k \in Folder!Scans, scan[k].pc \in {"insert", "url"}, Folder!GoesOn(k)
  PROVE  /\ scan' \in [Folder!Scans -> Walk]
         /\ scan'[k].pc = "next" /\ scan'[k].left = scan[k].left /\ scan'[k].file = None
         /\ \A j \in Folder!Scans \ {k} : scan'[j] = scan[j]
<1> DEFINE r == [Folder!NoScan EXCEPT !.pc = "next", !.left = scan[k].left]
<1>1. scan[k].left \in SUBSET Files BY WalkTypes DEF FolderInv, Walk
<1>2. r \in Walk /\ r.pc = "next" /\ r.left = scan[k].left /\ r.file = None
  BY <1>1 DEF Walk, Folder!NoScan, Folder!Matches
<1>3. Folder!Goes(k, r) BY DEF Folder!GoesOn
<1> HIDE DEF r
<1> QED BY <1>2, <1>3, ScanGoes

\* upsert_file_reference, its URL, and errors with a file.
LEMMA StoreKeeps ==
  ASSUME FolderInv, NEW k \in Folder!Scans, Folder!ScanAssumption,
         Folder!Insert(k) \/ Folder!SetUrl(k) \/ Folder!FileFails(k)
  PROVE  FolderInv'
<1>0. Folder!TypeOK /\ scan[k] \in Walk BY WalkTypes DEF FolderInv
<1>1. /\ scan[k].pc \in {"insert", "url"} /\ scan[k].file \in Files
      /\ UNCHANGED <<media_path, watched, library, titles, aired, changes, rx, watcher>>
  BY <1>0 DEF Folder!Insert, Folder!SetUrl, Folder!FileFails, Folder!world, FolderInv, ScansFit, Walk
<1> DEFINE f == scan[k].file
\* A step after which the file is missed, or listed, or still being stored.
<1>2. ASSUME scan' \in [Folder!Scans -> Walk],
             \A j \in Folder!Scans \ {k} : scan'[j] = scan[j],
             scan'[k].pc \in {"next", "url"}, scan'[k].left = scan[k].left,
             scan'[k].pc = "url" => scan'[k] = [scan[k] EXCEPT !.pc = "url"],
             scan'[k].pc = "next" => scan'[k].file = None,
             missed' \in {missed, missed \cup {f}}, errors' \in 0..MaxErrors,
             entry' \in [Files -> Folder!Row \cup {None}],
             \A g \in Files \ {f} : entry'[g] = entry[g],
             f \notin missed' =>
               /\ scan'[k].pc = "next" => entry'[f] # None /\ UpToDate(entry'[f], f) /\ entry'[f].url
               /\ entry'[f] = entry[f] \/ (entry'[f] # None /\ UpToDate(entry'[f], f))
               /\ scan'[k].pc = "url" => entry'[f] # None /\ UpToDate(entry'[f], f)
      PROVE  FolderInv'
  <2>1. Folder!TypeOK' BY <1>0, <1>1, <1>2 DEF Folder!TypeOK, Walk
  <2>2. scan'[k].pc = "url" => scan'[k].file = f /\ scan'[k].title = scan[k].title
                               /\ scan'[k].episode = scan[k].episode
    BY <1>0, <1>2 DEF Walk
  <2>3. ScansFit' BY <1>1, <1>2, <2>2 DEF FolderInv, ScansFit, Folder!ScanAssumption
  <2>4. FindsFit'
    <3> SUFFICES ASSUME NEW j \in Folder!Scans, NEW g \in Files, scan'[j].file = g, g \notin missed'
                 PROVE  /\ UpToDate(scan'[j], g)
                        /\ scan'[j].pc = "url" => entry'[g] # None /\ UpToDate(entry'[g], g)
      BY <1>1 DEF FindsFit, UpToDate
    <3>1. g \notin missed BY <1>2
    <3>2. CASE j = k
      <4>1. scan'[k].pc = "url" /\ g = f BY <1>2, <2>2, <3>2 DEF Folder!ScanAssumption
      <4>2. UpToDate(scan[k], f) BY <3>1, <4>1 DEF FolderInv, FindsFit
      <4>3. UpToDate(scan'[k], f) BY <2>2, <4>1, <4>2 DEF UpToDate
      <4> QED BY <1>2, <3>2, <4>1, <4>3
    <3>3. CASE j # k
      <4>1. scan'[j] = scan[j] BY <1>2, <3>3
      <4>2. /\ UpToDate(scan[j], g)
            /\ scan[j].pc = "url" => entry[g] # None /\ UpToDate(entry[g], g)
        BY <3>1, <4>1 DEF FolderInv, FindsFit
      <4>3. CASE g = f BY <1>2, <4>1, <4>2, <4>3
      <4>4. CASE g # f BY <1>2, <4>1, <4>2, <4>4
      <4> QED BY <4>3, <4>4
    <3> QED BY <3>2, <3>3
  <2>5. FilesAreListed'
    <3> SUFFICES ASSUME NEW g \in library, Home[g] = media_path, titles[g] # {}, g \notin missed',
                        ~Folder!Awaited(g)'
                 PROVE  /\ entry'[g] # None /\ entry'[g].url
                        /\ "exact" \in titles[g] => entry'[g].title = "exact"
                        /\ g \in aired => entry'[g].episode
      BY <1>1 DEF FilesAreListed, Folder!FilesAreListed
    <3>1. g \in Files /\ g \notin missed BY <1>0, <1>2 DEF Folder!TypeOK
    <3>2. CASE g = f
      <4>1. scan'[k].pc # "url" BY <2>2, <3>2 DEF Folder!Awaited
      <4> QED BY <1>2, <3>2, <4>1 DEF UpToDate
    <3>3. CASE g # f
      <4>1. ~Folder!Awaited(g) BY <1>1, <1>2, <3>1, <3>3 DEF Folder!Awaited
      <4>2. entry'[g] = entry[g] BY <1>2, <3>1, <3>3
      <4> QED BY <3>1, <4>1, <4>2 DEF FolderInv, FilesAreListed, Folder!FilesAreListed
    <3> QED BY <3>2, <3>3
  <2> QED BY <2>1, <2>3, <2>4, <2>5 DEF FolderInv
<1>3. errors \in 0..MaxErrors /\ entry \in [Files -> Folder!Row \cup {None}]
  BY <1>0 DEF Folder!TypeOK
<1>4. CASE Folder!Insert(k)
  <2> DEFINE fits == scan[k].title \in titles[f] /\ (scan[k].episode => f \in aired)
             old == entry[f]
  <2>1. CASE fits
    <3>1. PICK codec \in BOOLEAN :
            entry' = [entry EXCEPT ![f] =
              [title |-> scan[k].title, episode |-> scan[k].episode,
               url |-> old # None /\ old.url, codec |-> codec \/ (old # None /\ old.codec)]]
      BY <1>4, <2>1 DEF Folder!Insert
    <3> DEFINE row == [title |-> scan[k].title, episode |-> scan[k].episode,
                       url |-> old # None /\ old.url, codec |-> codec \/ (old # None /\ old.codec)]
    <3>2. Folder!Goes(k, [scan[k] EXCEPT !.pc = "url"]) /\ UNCHANGED <<missed, errors>>
      BY <1>4, <2>1 DEF Folder!Insert
    <3>3. [scan[k] EXCEPT !.pc = "url"] \in Walk BY <1>0 DEF Walk
    <3>4. /\ scan' \in [Folder!Scans -> Walk] /\ scan'[k] = [scan[k] EXCEPT !.pc = "url"]
          /\ \A j \in Folder!Scans \ {k} : scan'[j] = scan[j]
      BY <3>2, <3>3, ScanGoes
    <3>5. scan'[k].pc = "url" /\ scan'[k].left = scan[k].left BY <1>0, <3>4 DEF Walk
    <3>6. (old # None /\ old.url) \in BOOLEAN /\ (codec \/ (old # None /\ old.codec)) \in BOOLEAN
      OBVIOUS
    <3>7. row \in Folder!Row BY <1>0, <3>6 DEF Folder!Row, Walk
    <3>8. row.title = scan[k].title /\ row.episode = scan[k].episode OBVIOUS
    <3>9. entry' = [entry EXCEPT ![f] = row] BY <3>1
    <3> HIDE DEF row
    <3>10. entry' \in [Files -> Folder!Row \cup {None}] /\ entry'[f] = row
           /\ \A g \in Files \ {f} : entry'[g] = entry[g]
      BY <1>1, <1>3, <3>7, <3>9
    <3>11. row # None BY <3>7 DEF Folder!ScanAssumption
    <3>12. f \notin missed => UpToDate(row, f)
      BY <1>1, <3>8 DEF FolderInv, FindsFit, UpToDate
    <3> QED BY <1>2, <1>3, <3>2, <3>4, <3>5, <3>10, <3>11, <3>12
  <2>2. CASE ~fits
    <3>1. /\ Folder!GoesOn(k) /\ missed' = missed \cup {f} /\ UNCHANGED <<entry, errors>>
      BY <1>4, <2>2 DEF Folder!Insert
    <3> QED BY <1>1, <1>2, <1>3, <3>1, GoesOnIs
  <2> QED BY <2>1, <2>2
<1>5. CASE Folder!SetUrl(k)
  <2>1. /\ Folder!GoesOn(k) /\ UNCHANGED <<missed, errors>> /\ scan[k].pc = "url"
        /\ entry' = IF entry[f] = None THEN entry ELSE [entry EXCEPT ![f].url = TRUE]
    BY <1>5 DEF Folder!SetUrl
  <2>2. entry[f] = None \/ entry[f] \in Folder!Row BY <1>1, <1>3
  <2>3. /\ entry' \in [Files -> Folder!Row \cup {None}]
        /\ \A g \in Files \ {f} : entry'[g] = entry[g]
        /\ entry[f] # None => /\ entry'[f] \in Folder!Row
                              /\ entry'[f].url /\ entry'[f].title = entry[f].title
                              /\ entry'[f].episode = entry[f].episode
    BY <1>1, <1>3, <2>1, <2>2 DEF Folder!Row
  <2>4. entry[f] # None => entry'[f] # None
    BY <2>3 DEF Folder!ScanAssumption
  <2>5. f \notin missed => entry[f] # None /\ UpToDate(entry[f], f)
    BY <1>1, <2>1 DEF FolderInv, FindsFit
  <2>6. f \notin missed => entry'[f] # None /\ UpToDate(entry'[f], f) /\ entry'[f].url
    BY <2>3, <2>4, <2>5 DEF UpToDate
  <2> QED BY <1>1, <1>2, <1>3, <2>1, <2>3, <2>6, GoesOnIs
<1>6. CASE Folder!FileFails(k)
  <2>1. /\ Folder!GoesOn(k) /\ missed' = missed \cup {f} /\ UNCHANGED entry
        /\ errors' \in 0..MaxErrors
    BY <1>3, <1>6 DEF Folder!FileFails, Folder!Error, Folder!ScanAssumption
  <2> QED BY <1>1, <1>2, <1>3, <2>1, GoesOnIs
<1> QED BY <1>4, <1>5, <1>6

\* backfill_codecs ends a scan and leaves everything else of the rows alone.
LEMMA BackfillKeeps ==
  ASSUME FolderInv, NEW k \in Folder!Scans, Folder!ScanAssumption, Folder!Backfill(k)
  PROVE  FolderInv'
<1>0. Folder!TypeOK BY DEF FolderInv
<1>1. /\ scan[k].pc = "codecs" /\ Folder!Goes(k, Folder!NoScan)
      /\ UNCHANGED <<media_path, watched, library, titles, aired, changes, rx, missed, errors>>
      /\ watcher' = IF k = "watcher" THEN "recv" ELSE watcher
  BY DEF Folder!Backfill, Folder!world
<1>2. PICK probed \in SUBSET {f \in library : entry[f] # None} :
        entry' = [f \in Files |-> IF f \in probed THEN [entry[f] EXCEPT !.codec = TRUE] ELSE entry[f]]
  BY DEF Folder!Backfill
<1>3. \A f \in Files : /\ entry'[f] \in Folder!Row \cup {None}
                       /\ entry[f] # None => /\ entry'[f] # None
                                             /\ entry'[f].title = entry[f].title
                                             /\ entry'[f].episode = entry[f].episode
                                             /\ entry'[f].url = entry[f].url
  <2> TAKE f \in Files
  <2>1. entry[f] \in Folder!Row \cup {None} BY <1>0 DEF Folder!TypeOK
  <2>2. CASE f \in probed
    <3>1. entry'[f] = [entry[f] EXCEPT !.codec = TRUE] /\ entry[f] \in Folder!Row
      BY <1>2, <2>1, <2>2
    <3>2. entry'[f] \in Folder!Row /\ entry'[f].title = entry[f].title
          /\ entry'[f].episode = entry[f].episode /\ entry'[f].url = entry[f].url
      BY <3>1 DEF Folder!Row
    <3> QED BY <3>2 DEF Folder!ScanAssumption
  <2>3. CASE f \notin probed BY <1>2, <2>1, <2>3
  <2> QED BY <2>2, <2>3
<1>4. /\ Folder!NoScan \in Walk /\ Folder!NoScan.pc = "off" /\ Folder!NoScan.left = {}
      /\ Folder!NoScan.file = None
  BY DEF Walk, Folder!NoScan, Folder!Matches
<1>5. /\ scan' \in [Folder!Scans -> Walk] /\ scan'[k] = Folder!NoScan
      /\ \A j \in Folder!Scans \ {k} : scan'[j] = scan[j]
  BY <1>1, <1>4, ScanGoes
<1>6. Folder!TypeOK'
  <2>1. entry' \in [Files -> Folder!Row \cup {None}] BY <1>2, <1>3
  <2> QED BY <1>0, <1>1, <1>5, <2>1 DEF Folder!TypeOK, Walk
<1>7. ScansFit' BY <1>1, <1>4, <1>5 DEF FolderInv, ScansFit
<1>8. FindsFit'
  <2> SUFFICES ASSUME NEW j \in Folder!Scans, NEW f \in Files, scan'[j].file = f, f \notin missed
               PROVE  /\ UpToDate(scan'[j], f)
                      /\ scan'[j].pc = "url" => entry'[f] # None /\ UpToDate(entry'[f], f)
    BY <1>1 DEF FindsFit, UpToDate
  <2>1. j # k BY <1>4, <1>5 DEF Folder!ScanAssumption
  <2>2. scan'[j] = scan[j] BY <1>5, <2>1
  <2>3. /\ UpToDate(scan[j], f)
        /\ scan[j].pc = "url" => entry[f] # None /\ UpToDate(entry[f], f)
    BY <2>2 DEF FolderInv, FindsFit
  <2> QED BY <1>3, <2>2, <2>3 DEF UpToDate
<1>9. FilesAreListed'
  <2> SUFFICES ASSUME NEW f \in library, Home[f] = media_path, titles[f] # {}, f \notin missed,
                      ~Folder!Awaited(f)'
               PROVE  /\ entry'[f] # None /\ entry'[f].url
                      /\ "exact" \in titles[f] => entry'[f].title = "exact"
                      /\ f \in aired => entry'[f].episode
    BY <1>1 DEF FilesAreListed, Folder!FilesAreListed
  <2>1. scan[k].left = {} /\ scan[k].file = None BY <1>1 DEF FolderInv, ScansFit
  <2>2. f \in Files BY <1>0 DEF Folder!TypeOK
  <2>3. watcher \in {"sleep", "drain"} => watcher' = watcher
    BY <1>1 DEF FolderInv, ScansFit
  <2>4. ~Folder!Awaited(f)
    BY <1>1, <1>5, <2>1, <2>2, <2>3 DEF Folder!Awaited, Folder!ScanAssumption
  <2> QED BY <1>3, <2>2, <2>4 DEF FolderInv, FilesAreListed, Folder!FilesAreListed
<1> QED BY <1>6, <1>7, <1>8, <1>9 DEF FolderInv

\* Every step keeps it.
LEMMA FolderHolds == Folder!Spec => []FolderInv
<1> USE FolderAssumption
<1>1. Folder!Init => FolderInv BY FolderInit
<1>2. FolderInv /\ [Folder!Next]_(Folder!vars) => FolderInv'
  <2>1. ASSUME FolderInv, UNCHANGED Folder!vars PROVE FolderInv'
    BY <2>1 DEF FolderInv, Folder!vars, Folder!TypeOK, ScansFit, FindsFit, UpToDate, FilesAreListed,
                Folder!FilesAreListed, Folder!Awaited
  <2>2. ASSUME FolderInv, Folder!Next PROVE FolderInv'
    <3>1. ASSUME NEW k \in Folder!Scans, Folder!ScanStep(k) \/ Folder!FileFails(k) PROVE FolderInv'
      BY <2>2, <3>1, WalkKeeps, StoreKeeps, BackfillKeeps DEF Folder!ScanStep
    <3>2. ASSUME NEW f \in Files, \/ Folder!FileChanges(f) \/ Folder!TitleComes(f)
                                  \/ Folder!EpisodesCome(f) \/ Folder!TitleGoes(f)
          PROVE  FolderInv'
      BY <2>2, <3>2, WorldKeeps
    <3>3. CASE Folder!SetMediaPath
      <4>1. CASE Files = {}
        BY <3>3, <4>1 DEF Folder!SetMediaPath, Folder!Folders
      <4>2. CASE Files # {} BY <2>2, <3>3, <4>2, WorldKeeps
      <4> QED BY <4>1, <4>2
    <3> QED BY <2>2, <3>1, <3>2, <3>3, WatcherKeeps DEF Folder!Next
  <2> QED BY <2>1, <2>2
<1> QED BY <1>1, <1>2, PTL DEF Folder!Spec

\* LibraryScan: types of the rows, the watcher and the scans.
THEOREM FolderTypeCorrect == Folder!Spec => []Folder!TypeOK
<1>1. FolderInv => Folder!TypeOK BY DEF FolderInv
<1> QED BY <1>1, FolderHolds, PTL

\* start_watcher, scan_library: for any files, folders and changes, a file whose title is known is
\* listed under the title that fits best, or a scan will see to it.
THEOREM FilesGetListed == Folder!Spec => []FilesAreListed
<1>1. FolderInv => FilesAreListed BY DEF FolderInv
<1> QED BY <1>1, FolderHolds, PTL
=============================================================================
