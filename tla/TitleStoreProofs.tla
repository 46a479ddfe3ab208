--------------------------- MODULE TitleStoreProofs ---------------------------
(* Proofs about TitleStore, for any titles, tasks, row ids and number of        *)
(* events. One invariant is kept by every step: TypeOK with what a task has in  *)
(* hand at each of its stages (InHand), where the documents are that a deletion *)
(* has to catch (Traced), which titles rows and tasks speak of (OneTitle), and  *)
(* who is replacing the credits of a row (Counted). Then proofs about           *)
(* CatalogPaging, which MCCatalog explores beside it: one invariant again, that *)
(* what a page had when it was marked is in, turned away, lost or on its way    *)
(* whether or not the mark still counts (PagesKept).                            *)
EXTENDS MCCatalog, WellFoundedInduction, TLAPS

\* What a task holds at its stages.
Good(t) ==
  /\ t \in TaskRecords
  /\ t.pc \in {"details", "write", "fill", "ids", "check"} => t.work \in Works
  /\ t.pc \in {"fill", "reread", "index", "ids", "check"} => t.on \in Rows

InHand == \A k \in Tasks : Good(task[k])

TypeInv == TypeOK /\ InHand

\* A task's step, from its record to another one.
Moves(k, t) == task' = [task EXCEPT ![k] = t]

\* What a task has when it starts: a title, a row with its title, or all rows.
Start(t) ==
  \/ t.pc = "details" /\ t.work \in Works /\ t.on = None
  \/ t.pc \in {"ids", "check"} /\ t.on \in Here /\ t.work \in Works /\ t.work = row[t.on].tmdb
  \/ t.pc = "batch" /\ t.ids = Here

\* How a failure leaves the task.
Ended(k) == {Idle, [task[k] EXCEPT !.pc = "requeue"]}

----------------------------------------------------------------------------
(* The parts of a step *)

LEMMA RowFields ==
  ASSUME TypeOK, NEW r \in Here
  PROVE  row[r] \in TitleRecords /\ r \in Rows
  BY DEF TypeOK, Here

LEMMA IdleIsGood == Good(Idle) /\ Idle \in TaskRecords /\ Idle.pc = "off" /\ Idle.on = None
  BY DEF Good, Idle, TaskRecords

LEMMA MovesKeepsTasks ==
  ASSUME TypeInv, NEW k \in Tasks, NEW t, Good(t), Moves(k, t)
  PROVE  /\ task' \in [Tasks -> TaskRecords] /\ InHand'
         /\ task'[k] = t /\ \A j \in Tasks \ {k} : task'[j] = task[j]
  BY DEF TypeInv, TypeOK, InHand, Moves, Good

LEMMA OffMoves ==
  ASSUME NEW k \in Tasks, Off(k)
  PROVE  Moves(k, Idle)
  BY DEF Off, Moves

LEMMA GoMoves ==
  ASSUME TypeOK, NEW k \in Tasks, NEW pc, Go(k, pc)
  PROVE  Moves(k, [task[k] EXCEPT !.pc = pc])
  BY DEF Go, Moves, TypeOK

LEMMA FailedMoves ==
  ASSUME TypeInv, NEW k \in Tasks, Failed(k)
  PROVE  \E t \in Ended(k) : Moves(k, t) /\ Good(t) /\ t.pc \in {"off", "requeue"}
<1>1. CASE task[k].how = "stale"
  <2>1. Moves(k, [task[k] EXCEPT !.pc = "requeue"])
    BY <1>1, GoMoves DEF Failed, TypeInv
  <2>2. Good([task[k] EXCEPT !.pc = "requeue"]) /\ [task[k] EXCEPT !.pc = "requeue"].pc = "requeue"
    BY DEF TypeInv, TypeOK, Good, TaskRecords
  <2> QED BY <2>1, <2>2 DEF Ended
<1>2. CASE task[k].how # "stale"
  BY <1>2, OffMoves, IdleIsGood DEF Failed, Ended
<1> QED BY <1>1, <1>2

LEMMA DownloadMoves ==
  ASSUME NEW k \in Tasks, NEW how \in {"list", "search", "open", "refresh", "stale", "omdb"},
         NEW w \in Works, NEW r \in Rows \cup {None}, Download(k, how, w, r)
  PROVE  \E t : Moves(k, t) /\ Good(t) /\ Start(t)
<1> DEFINE t == [Idle EXCEPT !.pc = "details", !.how = how, !.work = w, !.stale = r]
<1>1. t \in TaskRecords /\ t.pc = "details" /\ t.work = w /\ t.on = None
  BY IdleIsGood DEF TaskRecords
<1>2. Moves(k, t)
  BY DEF Download, Moves
<1>3. Good(t) /\ Start(t)
  BY <1>1 DEF Good, Start
<1> QED BY <1>2, <1>3

LEMMA RowTaskIsGood ==
  ASSUME TypeOK, NEW r \in Here, row[r].tmdb # None,
         NEW pc \in {"ids", "check"}, NEW how \in {"backfill", "purge"}
  PROVE  LET t == [Idle EXCEPT !.pc = pc, !.how = how, !.work = row[r].tmdb, !.on = r]
         IN Good(t) /\ Start(t)
<1> DEFINE t == [Idle EXCEPT !.pc = pc, !.how = how, !.work = row[r].tmdb, !.on = r]
<1>2. row[r].tmdb \in Works /\ r \in Rows
  BY RowFields DEF TitleRecords
<1>1. t \in TaskRecords /\ t.pc = pc /\ t.work = row[r].tmdb /\ t.on = r
  BY <1>2, IdleIsGood DEF TaskRecords
<1>3. Good(t)
  BY <1>1, <1>2 DEF Good
<1>4. Start(t)
  BY <1>1, <1>2 DEF Start
<1> QED BY <1>3, <1>4

LEMMA PhasesAre ==
  /\ DOMAIN Phases = 1..6 /\ Len(Phases) = 6
  /\ Phases[1] = "lists" /\ Phases[2] = "stale" /\ Phases[3] = "backfill"
  /\ Phases[4] = "link" /\ Phases[5] = "omdb" /\ Phases[6] = "index"
  BY DEF Phases

\* A turn of the sync starts a task or passes.
LEMMA TurnStarts ==
  ASSUME TypeInv, Turn
  PROVE  /\ phase' \in DOMAIN Phases /\ Quiet /\ Ready(Syncer)
         /\ \/ UNCHANGED task
            \/ \E t : Moves(Syncer, t) /\ Good(t) /\ Start(t)
<1>0. Syncer \in Tasks /\ phase \in 1..6 /\ None \in Rows \cup {None} /\ TypeOK
  BY PhasesAre DEF Tasks, TypeInv, TypeOK
<1>1. phase' \in DOMAIN Phases /\ Quiet /\ Ready(Syncer)
  <2>1. phase' = (phase % Len(Phases)) + 1 /\ Quiet /\ Ready(Syncer)
    BY DEF Turn
  <2>2. phase' = (phase % 6) + 1
    BY <2>1, PhasesAre
  <2>3. phase % 6 \in 0..5
    BY <1>0
  <2>4. phase' \in 1..6
    BY <2>2, <2>3
  <2> QED BY <2>1, <2>4, PhasesAre
<1>2. CASE phase = 1
  <2>1. PICK w \in Works : Download(Syncer, "list", w, None)
    BY <1>2, PhasesAre DEF Turn
  <2> QED BY <2>1, <1>0, <1>1, DownloadMoves
<1>3. CASE phase = 2
  <2>1. UNCHANGED task \/ \E r \in Oldest : Download(Syncer, "stale", row[r].tmdb, r)
    BY <1>3, PhasesAre DEF Turn
  <2>2. CASE \E r \in Oldest : Download(Syncer, "stale", row[r].tmdb, r)
    <3>1. PICK r \in Oldest : Download(Syncer, "stale", row[r].tmdb, r)
      BY <2>2
    <3>2. r \in Here /\ row[r].tmdb # None
      BY DEF Oldest, OldestOf, ToRefresh
    <3>3. row[r].tmdb \in Works /\ r \in Rows \cup {None}
      BY <3>2, <1>0, RowFields DEF TitleRecords
    <3> QED BY <3>1, <3>3, <1>0, <1>1, DownloadMoves
  <2> QED BY <2>1, <2>2, <1>1
<1>4. CASE phase = 3
  <2>1. \/ UNCHANGED task
        \/ \E r \in ToBackfill : Moves(Syncer, [Idle EXCEPT !.pc = "ids", !.how = "backfill",
                                                            !.work = row[r].tmdb, !.on = r])
    BY <1>4, PhasesAre DEF Turn, Moves
  <2>2. ASSUME NEW r \in ToBackfill
        PROVE  r \in Here /\ row[r].tmdb # None
    BY DEF ToBackfill
  <2> QED BY <2>1, <2>2, <1>0, <1>1, RowTaskIsGood
<1>5. CASE phase = 4
  <2>1. UNCHANGED task \/ \E r \in ToLink : Download(Syncer, "list", row[r].imdb, None)
    BY <1>5, PhasesAre DEF Turn
  <2>2. ASSUME NEW r \in ToLink
        PROVE  row[r].imdb \in Works
    <3>1. r \in Here /\ row[r].imdb # None
      BY DEF ToLink
    <3> QED BY <3>1, <1>0, RowFields DEF TitleRecords
  <2> QED BY <2>1, <2>2, <1>0, <1>1, DownloadMoves
<1>6. CASE phase = 5
  <2>1. UNCHANGED task \/ \E w \in ToSeed : Download(Syncer, "omdb", w, None)
    BY <1>6, PhasesAre DEF Turn
  <2> QED BY <2>1, <1>0, <1>1, DownloadMoves DEF ToSeed
<1>7. CASE phase = 6
  <2> DEFINE t == [Idle EXCEPT !.pc = "batch", !.how = "rebuild", !.ids = Here]
  <2>1. Moves(Syncer, t)
    BY <1>7, PhasesAre DEF Turn, Moves
  <2>2. t \in TaskRecords /\ t.pc = "batch" /\ t.ids = Here
    BY IdleIsGood DEF TaskRecords, Here
  <2>3. Good(t) /\ Start(t)
    BY <2>2 DEF Good, Start
  <2> QED BY <2>1, <2>3, <1>1
<1> QED BY <1>0, <1>2, <1>3, <1>4, <1>5, <1>6, <1>7

\* A request starts a task.
LEMMA RequestStarts ==
  ASSUME TypeInv, NEW k \in Clients,
         Search(k) \/ SearchById(k) \/ Open(k) \/ Refresh(k) \/ CheckStored(k)
  PROVE  Quiet /\ Ready(k) /\ UNCHANGED phase /\ \E t : Moves(k, t) /\ Good(t) /\ Start(t)
<1>0. k \in Tasks /\ TypeOK /\ None \in Rows \cup {None}
  BY DEF Tasks, TypeInv
<1>1. CASE Search(k)
  BY <1>0, <1>1, DownloadMoves DEF Search
<1>2. CASE SearchById(k)
  BY <1>0, <1>2, DownloadMoves DEF SearchById
<1>3. CASE Open(k)
  BY <1>0, <1>3, DownloadMoves DEF Open, Fetch
<1>4. CASE Refresh(k)
  BY <1>0, <1>4, DownloadMoves DEF Refresh, Fetch
<1>5. CASE CheckStored(k)
  <2>1. PICK r \in Here : /\ row[r].tmdb # None
                          /\ Moves(k, [Idle EXCEPT !.pc = "check", !.how = "purge",
                                                   !.work = row[r].tmdb, !.on = r])
    BY <1>5 DEF CheckStored, Moves
  <2> QED BY <2>1, <1>0, <1>5, RowTaskIsGood DEF CheckStored
<1> QED BY <1>1, <1>2, <1>3, <1>4, <1>5

----------------------------------------------------------------------------
(* What the steps do to rows *)

\* The rows that stay are as they were.
RowsStay == \A r \in Here' \cap Here : row'[r] = row[r]

LEMMA Deleted ==
  ASSUME TypeOK, NEW ids, DeleteRows(ids)
  PROVE  /\ row' \in [Rows -> TitleRecords \cup {None}] /\ cast' \in [Rows -> Nat]
         /\ Here' = Here \ ids /\ RowsStay
         /\ \A r \in Rows : cast'[r] = IF r \in ids THEN 0 ELSE cast[r]
  BY DEF TypeOK, DeleteRows, Here, RowsStay

LEMMA SameRows ==
  ASSUME TypeOK, row' = row
  PROVE  Here' = Here /\ RowsStay
  BY DEF Here, RowsStay

LEMMA Changed ==
  ASSUME TypeOK, NEW r \in Here, NEW rec \in TitleRecords, row' = [row EXCEPT ![r] = rec]
  PROVE  /\ row' \in [Rows -> TitleRecords \cup {None}] /\ Here' = Here
         /\ row'[r] = rec /\ \A q \in Here \ {r} : row'[q] = row[q]
  BY NoneAssumption DEF TypeOK, Here

LEMMA Added ==
  ASSUME TypeOK, NEW r \in NewId, NEW tmdb \in Works \cup {None}, NEW imdb \in Works \cup {None},
         NEW w \in Works, AddRow(r, tmdb, imdb, w)
  PROVE  /\ row' \in [Rows -> TitleRecords \cup {None}] /\ r \in Rows
         /\ r \notin Here /\ Here' = Here \cup {r} /\ RowsStay
         /\ row'[r] = [tmdb |-> tmdb, imdb |-> imdb, name |-> w, kind |-> "series"]
         /\ r \notin docs /\ \A k \in Tasks : task[k].on # r /\ r \notin task[k].ids
         /\ torn' = torn \ {r} /\ missed' = missed \ {r}
<1> DEFINE rec == [tmdb |-> tmdb, imdb |-> imdb, name |-> w, kind |-> "series"]
<1>1. rec \in TitleRecords /\ rec # None
  BY NoneAssumption DEF TitleRecords
<1>2. r \in Rows /\ r \notin Here /\ r \notin docs /\ \A k \in Tasks : task[k].on # r /\ r \notin task[k].ids
  BY DEF NewId, Referred
<1>3. row' = [row EXCEPT ![r] = rec] /\ torn' = torn \ {r} /\ missed' = missed \ {r}
  BY DEF AddRow
<1>4. /\ row' \in [Rows -> TitleRecords \cup {None}] /\ row'[r] = rec
      /\ \A q \in Rows \ {r} : row'[q] = row[q]
  BY <1>1, <1>2, <1>3 DEF TypeOK
<1>5. Here' = Here \cup {r} /\ RowsStay
  BY <1>1, <1>2, <1>4 DEF Here, RowsStay
<1> QED BY <1>2, <1>3, <1>4, <1>5

----------------------------------------------------------------------------
(* What each step does *)

\* Everything but the task is typed after a step.
Typed ==
  /\ offer' \in [Works -> [linked : BOOLEAN, blocked : BOOLEAN]] /\ twins' = twins
  /\ row' \in [Rows -> TitleRecords \cup {None}] /\ cast' \in [Rows -> Nat]
  /\ {docs', torn', missed'} \subseteq SUBSET Rows
  /\ phase' \in DOMAIN Phases /\ left' \in 0..MaxEvents

\* A task stops, or goes to the back of the queue first.
Stops(k) == \E t : Moves(k, t) /\ Good(t) /\ t.pc \in {"off", "requeue"}

LEMMA FailedStops ==
  ASSUME TypeInv, NEW k \in Tasks, Failed(k)
  PROVE  Stops(k)
  BY FailedMoves DEF Stops

LEMMA OffStops ==
  ASSUME NEW k \in Tasks, Off(k)
  PROVE  Stops(k)
  BY OffMoves, IdleIsGood DEF Stops

LEMMA SpendIsTyped ==
  ASSUME TypeOK, Spend
  PROVE  left' \in 0..MaxEvents
  BY StoreAssumption DEF TypeOK, Spend

LEMMA FoundIsHere ==
  ASSUME TypeOK, NEW k \in Tasks, NEW linked \in BOOLEAN, NEW r \in Found(k, linked)
  PROVE  \/ r = None
         \/ r \in WithTmdb(task[k].work) \/ r \in WithImdb(task[k].work) \/ r \in Titled(task[k].work)
  BY DEF Found, LatestOf

\* The answer of TMDB: the download stops, purges the rows of its title, or has found the row.
LEMMA DetailsDoes ==
  ASSUME TypeInv, NEW k \in Tasks, Details(k), UNCHANGED phase
  PROVE  /\ Typed /\ UNCHANGED <<docs, torn, missed>> /\ task[k].pc = "details"
         /\ \/ Stops(k) /\ UNCHANGED <<row, cast>>
            \/ \E t : /\ Moves(k, t) /\ Good(t) /\ t.pc = "forget" /\ t.ids \subseteq Here
                      /\ DeleteRows(t.ids)
            \/ /\ UNCHANGED <<row, cast>>
               /\ \E t : /\ Moves(k, t) /\ Good(t) /\ t.pc = "write" /\ t.work = task[k].work
                         /\ \/ t.on = None
                            \/ t.on \in WithTmdb(t.work) \/ t.on \in WithImdb(t.work)
                            \/ t.on \in Titled(t.work)
<1> DEFINE w == task[k].work
           gone == WithTmdb(w)
<1>1. TypeOK /\ Good(task[k]) /\ task[k] \in TaskRecords /\ w \in Works /\ task[k].pc = "details"
  BY DEF TypeInv, InHand, Good, Details
<1>2. /\ offer' = offer /\ twins' = twins /\ UNCHANGED <<docs, torn, missed, left, phase>>
      /\ gone \in SUBSET Rows /\ gone \subseteq Here
  BY DEF Details, World, History, WithTmdb, Here
<1>3. CASE offer[w].blocked /\ task[k].how # "omdb" /\ gone = {}
  <2>1. DeleteRows({}) /\ Failed(k)
    BY <1>3 DEF Details
  <2>2. row' = row /\ cast' = cast
    BY <2>1, <1>1 DEF DeleteRows, TypeOK
  <2> QED BY <1>1, <1>2, <2>1, <2>2, FailedStops DEF Typed, TypeOK
<1>4. CASE offer[w].blocked /\ task[k].how # "omdb" /\ gone # {}
  <2> DEFINE t == [task[k] EXCEPT !.pc = "forget", !.ids = gone]
  <2>1. DeleteRows(gone) /\ task' = [task EXCEPT ![k].pc = "forget", ![k].ids = gone]
    BY <1>4 DEF Details
  <2>2. Moves(k, t)
    BY <1>1, <2>1 DEF Moves, TypeOK
  <2>3. t \in TaskRecords /\ t.pc = "forget" /\ t.ids = gone
    BY <1>1, <1>2 DEF TaskRecords
  <2>4. Good(t)
    BY <2>3 DEF Good
  <2>5. Typed
    BY <1>1, <1>2, <2>1, Deleted DEF Typed, TypeOK
  <2> HIDE DEF t
  <2>6. \E u : /\ Moves(k, u) /\ Good(u) /\ u.pc = "forget" /\ u.ids \subseteq Here
               /\ DeleteRows(u.ids)
    BY <2>1, <2>2, <2>3, <2>4, <1>2
  <2> QED BY <1>1, <1>2, <2>5, <2>6
<1>5. CASE ~(offer[w].blocked /\ task[k].how # "omdb")
  <2>1. Accept(k) /\ UNCHANGED <<row, cast>>
    BY <1>5 DEF Details, Data
  <2>2. Typed
    BY <1>1, <1>2, <2>1 DEF Typed, TypeOK
  <2>3. CASE Unwanted(k)
    BY <1>1, <1>2, <2>1, <2>2, <2>3, FailedStops DEF Accept
  <2>4. CASE ~Unwanted(k)
    <3> DEFINE l == task[k].how = "omdb" \/ offer[w].linked
    <3>1. l \in BOOLEAN
      BY <1>1 DEF TypeOK
    <3>2. PICK r \in Found(k, l) : task' = [task EXCEPT ![k].pc = "write", ![k].linked = l, ![k].on = r]
      BY <2>1, <2>4 DEF Accept
    <3>3. r = None \/ r \in WithTmdb(w) \/ r \in WithImdb(w) \/ r \in Titled(w)
      BY <1>1, <3>1, FoundIsHere
    <3>4. r \in Rows \cup {None}
      BY <3>3 DEF WithTmdb, WithImdb, Titled, Here
    <3> HIDE DEF l
    <3> DEFINE t == [task[k] EXCEPT !.pc = "write", !.linked = l, !.on = r]
    <3>5. Moves(k, t)
      BY <1>1, <3>2 DEF Moves, TypeOK
    <3>6. t \in TaskRecords /\ t.pc = "write" /\ t.on = r /\ t.work = w
      BY <1>1, <3>1, <3>4 DEF TaskRecords
    <3>7. Good(t)
      BY <1>1, <3>6 DEF Good
    <3> HIDE DEF t
    <3> QED BY <1>1, <1>2, <2>1, <2>2, <3>3, <3>5, <3>6, <3>7
  <2> QED BY <2>3, <2>4
<1> QED BY <1>3, <1>4, <1>5

\* upsert_title on a row that was found: the unique indexes refuse it, or the row is as the
\* download wants it and its credits are cleared.
LEMMA UpdateDoes ==
  ASSUME TypeInv, NEW k \in Tasks, Update(k), UNCHANGED phase
  PROVE  LET r == task[k].on IN
         /\ Typed /\ UNCHANGED <<docs, missed>> /\ task[k].pc = "write" /\ r \in Rows
         /\ \/ Stops(k) /\ UNCHANGED <<row, cast, torn>>
            \/ /\ Moves(k, [task[k] EXCEPT !.pc = "fill"]) /\ Good([task[k] EXCEPT !.pc = "fill"])
               /\ Cleared(k) /\ Here' = Here /\ \A q \in Here \ {r} : row'[q] = row[q]
               /\ r \in Here => row'[r] = [tmdb |-> Keep(Tmdb(k), row[r].tmdb), name |-> task[k].work,
                                           imdb |-> Keep(Imdb(k), row[r].imdb), kind |-> "series"]
<1> DEFINE r == task[k].on
           w == task[k].work
           rec == [tmdb |-> Keep(Tmdb(k), row[r].tmdb), name |-> w,
                   imdb |-> Keep(Imdb(k), row[r].imdb), kind |-> "series"]
<1>1. /\ TypeOK /\ Good(task[k]) /\ task[k] \in TaskRecords /\ w \in Works
      /\ task[k].pc = "write" /\ r \in Rows
  BY DEF TypeInv, InHand, Good, TaskRecords, Update
<1>2. /\ offer' = offer /\ twins' = twins /\ UNCHANGED <<docs, missed, left, phase>>
  BY DEF Update, World
<1>3. CASE r \in Here /\ Clash(Tmdb(k), Imdb(k), r)
  <2>1. Failed(k) /\ row' = row /\ cast' = cast /\ torn' = torn
    BY <1>3 DEF Update
  <2>2. Typed
    BY <1>1, <1>2, <2>1 DEF Typed, TypeOK
  <2> QED BY <1>1, <1>2, <2>1, <2>2, FailedStops
<1>4. CASE ~(r \in Here /\ Clash(Tmdb(k), Imdb(k), r))
  <2>1. Go(k, "fill") /\ Cleared(k)
    BY <1>4 DEF Update
  <2>2. Moves(k, [task[k] EXCEPT !.pc = "fill"])
    BY <1>1, <2>1, GoMoves
  <2>3. Good([task[k] EXCEPT !.pc = "fill"])
    BY <1>1 DEF Good, TaskRecords
  <2>4. cast' \in [Rows -> Nat] /\ torn' \in SUBSET Rows
    BY <1>1, <2>1 DEF Cleared, TypeOK
  <2>5. /\ row' \in [Rows -> TitleRecords \cup {None}] /\ Here' = Here
        /\ \A q \in Here \ {r} : row'[q] = row[q]
        /\ r \in Here => row'[r] = rec
    <3>1. CASE r \notin Here
      <4>1. row' = row
        BY <1>4, <3>1 DEF Update
      <4> QED BY <4>1, <3>1, <1>1, SameRows DEF TypeOK
    <3>2. CASE r \in Here
      <4>1. row' = [row EXCEPT ![r] = rec]
        BY <1>4, <3>2 DEF Update
      <4>2. rec \in TitleRecords
        BY <1>1, <3>2, RowFields DEF TitleRecords, Keep, Tmdb, Imdb
      <4> HIDE DEF rec
      <4> QED BY <4>1, <4>2, <3>2, <1>1, Changed
    <3> QED BY <3>1, <3>2
  <2>6. Typed
    BY <1>1, <1>2, <2>4, <2>5 DEF Typed, TypeOK
  <2> QED BY <1>1, <1>2, <2>1, <2>2, <2>3, <2>5, <2>6
<1> QED BY <1>3, <1>4

\* upsert_title of a new title.
LEMMA InsertDoes ==
  ASSUME TypeInv, NEW k \in Tasks, Insert(k), UNCHANGED phase
  PROVE  /\ Typed /\ UNCHANGED <<docs, cast>> /\ task[k].pc = "write"
         /\ \/ Stops(k) /\ UNCHANGED <<row, torn, missed>>
            \/ \E r \in NewId : \E t :
                 /\ AddRow(r, Tmdb(k), Imdb(k), task[k].work)
                 /\ Tmdb(k) \in {None, task[k].work} /\ Imdb(k) \in {None, task[k].work}
                 /\ task[k].work \in Works
                 /\ Moves(k, t) /\ Good(t) /\ t.pc = "fill" /\ t.on = r /\ t.how = task[k].how
<1> DEFINE w == task[k].work
<1>1. TypeOK /\ Good(task[k]) /\ task[k] \in TaskRecords /\ w \in Works /\ task[k].pc = "write"
  BY DEF TypeInv, InHand, Good, Insert
<1>2. offer' = offer /\ twins' = twins /\ UNCHANGED <<docs, cast, left, phase>>
  BY DEF Insert, World
<1>3. CASE Clash(Tmdb(k), Imdb(k), None)
  <2>1. Failed(k) /\ row' = row /\ torn' = torn /\ missed' = missed
    BY <1>3 DEF Insert, History
  <2>2. Typed
    BY <1>1, <1>2, <2>1 DEF Typed, TypeOK
  <2> QED BY <1>1, <1>2, <2>1, <2>2, FailedStops
<1>4. CASE ~Clash(Tmdb(k), Imdb(k), None)
  <2>1. PICK r \in NewId : /\ AddRow(r, Tmdb(k), Imdb(k), w)
                           /\ task' = [task EXCEPT ![k].pc = "fill", ![k].on = r]
    BY <1>4 DEF Insert
  <2>2. /\ Tmdb(k) \in {None, w} /\ Imdb(k) \in {None, w}
    BY DEF Tmdb, Imdb
  <2>3. /\ row' \in [Rows -> TitleRecords \cup {None}] /\ r \in Rows
        /\ torn' = torn \ {r} /\ missed' = missed \ {r}
    BY <1>1, <2>1, <2>2, Added
  <2>4. Typed
    BY <1>1, <1>2, <2>3 DEF Typed, TypeOK
  <2> DEFINE t == [task[k] EXCEPT !.pc = "fill", !.on = r]
  <2>5. Moves(k, t)
    BY <1>1, <2>1 DEF Moves, TypeOK
  <2>6. t \in TaskRecords /\ t.pc = "fill" /\ t.on = r /\ t.work = w /\ t.how = task[k].how
    BY <1>1, <2>3 DEF TaskRecords
  <2>7. Good(t)
    BY <1>1, <2>3, <2>6 DEF Good
  <2> HIDE DEF t
  <2> QED BY <1>1, <1>2, <2>1, <2>2, <2>4, <2>5, <2>6, <2>7
<1> QED BY <1>3, <1>4

\* A row goes with what hangs off it, and its document is to be deleted.
Drops(k, ids) ==
  /\ DeleteRows(ids) /\ ids \subseteq Rows
  /\ \E t : Moves(k, t) /\ Good(t) /\ t.pc = "forget" /\ t.ids = ids

\* What hangs off the row: it is gone, or it goes, or it has the credits of this download.
LEMMA FillDoes ==
  ASSUME TypeInv, NEW k \in Tasks, Fill(k), UNCHANGED phase
  PROVE  LET r == task[k].on IN
         /\ Typed /\ UNCHANGED <<docs, torn, missed>> /\ r \in Rows /\ task[k].pc = "fill"
         /\ \/ Stops(k) /\ r \notin Here /\ UNCHANGED <<row, cast>>
            \/ Drops(k, {r})
            \/ /\ UNCHANGED row /\ r \in Here
               /\ cast' = IF task[k].how = "omdb" THEN cast ELSE [cast EXCEPT ![r] = @ + 1]
               /\ Moves(k, [task[k] EXCEPT !.pc = "reread"])
               /\ Good([task[k] EXCEPT !.pc = "reread"])
<1> DEFINE r == task[k].on
<1>1. TypeOK /\ Good(task[k]) /\ task[k] \in TaskRecords /\ r \in Rows /\ task[k].pc = "fill"
  BY DEF TypeInv, InHand, Good, Fill
<1>2. offer' = offer /\ twins' = twins /\ UNCHANGED <<docs, torn, missed, left, phase>>
  BY DEF Fill, World, History
<1>3. CASE r \notin Here
  <2>1. Failed(k) /\ row' = row /\ cast' = cast
    BY <1>3 DEF Fill, Data
  <2>2. Typed
    BY <1>1, <1>2, <2>1 DEF Typed, TypeOK
  <2> QED BY <1>1, <1>2, <1>3, <2>1, <2>2, FailedStops
<1>4. CASE r \in Here /\ task[k].how = "omdb" /\ offer[task[k].work].blocked
  <2>1. DeleteRows({r}) /\ task' = [task EXCEPT ![k].pc = "forget", ![k].ids = {r}]
    BY <1>4 DEF Fill
  <2> DEFINE t == [task[k] EXCEPT !.pc = "forget", !.ids = {r}]
  <2>2. Moves(k, t)
    BY <1>1, <2>1 DEF Moves, TypeOK
  <2>3. t \in TaskRecords /\ t.pc = "forget" /\ t.ids = {r}
    BY <1>1 DEF TaskRecords
  <2>4. Good(t)
    BY <2>3 DEF Good
  <2>5. Typed
    BY <1>1, <1>2, <2>1, Deleted DEF Typed, TypeOK
  <2> HIDE DEF t
  <2>6. Drops(k, {r})
    BY <1>1, <2>1, <2>2, <2>3, <2>4 DEF Drops
  <2> QED BY <1>1, <1>2, <2>5, <2>6
<1>5. CASE r \in Here /\ ~(task[k].how = "omdb" /\ offer[task[k].work].blocked)
  <2>1. /\ cast' = (IF task[k].how = "omdb" THEN cast ELSE [cast EXCEPT ![r] = @ + 1])
        /\ row' = row /\ Go(k, "reread")
    BY <1>5 DEF Fill
  <2>2. Moves(k, [task[k] EXCEPT !.pc = "reread"])
    BY <1>1, <2>1, GoMoves
  <2>3. Good([task[k] EXCEPT !.pc = "reread"])
    BY <1>1 DEF Good, TaskRecords
  <2>4. Typed
    BY <1>1, <1>2, <2>1 DEF Typed, TypeOK
  <2> QED BY <1>1, <1>2, <1>5, <2>1, <2>2, <2>3, <2>4
<1> QED BY <1>3, <1>4, <1>5

\* The document on its way to the index.
LEMMA RereadDoes ==
  ASSUME TypeInv, NEW k \in Tasks, Reread(k), UNCHANGED phase
  PROVE  /\ Typed /\ UNCHANGED <<docs, torn, missed, row, cast>> /\ task[k].pc = "reread"
         /\ \/ Stops(k)
            \/ /\ task[k].on \in Here
               /\ Moves(k, [task[k] EXCEPT !.pc = "index"]) /\ Good([task[k] EXCEPT !.pc = "index"])
<1>1. TypeOK /\ Good(task[k]) /\ task[k] \in TaskRecords /\ task[k].pc = "reread"
  BY DEF TypeInv, InHand, Good, Reread
<1>2. Typed /\ UNCHANGED <<docs, torn, missed, row, cast>>
  BY <1>1 DEF Reread, World, Data, History, Typed, TypeOK
<1>3. CASE task[k].on \in Here
  <2>1. Moves(k, [task[k] EXCEPT !.pc = "index"])
    BY <1>1, <1>3, GoMoves DEF Reread
  <2>2. Good([task[k] EXCEPT !.pc = "index"])
    BY <1>1 DEF Good, TaskRecords
  <2> QED BY <1>1, <1>2, <1>3, <2>1, <2>2
<1>4. CASE task[k].on \notin Here
  BY <1>1, <1>2, <1>4, OffStops DEF Reread
<1> QED BY <1>3, <1>4

\* What a task at this stage is sending to the index.
Sends(t) == IF t.pc = "index" THEN {t.on} ELSE IF t.pc = "batch" THEN t.ids ELSE {}

LEMMA SendersDo ==
  ASSUME TypeInv, NEW k \in Tasks, Index(k) \/ Batch(k), UNCHANGED phase
  PROVE  /\ Typed /\ UNCHANGED <<torn, missed, row, cast>> /\ task[k].pc \in {"index", "batch"}
         /\ docs' = docs \cup Sends(task[k]) /\ Stops(k)
<1>1. TypeOK /\ Good(task[k]) /\ task[k] \in TaskRecords
  BY DEF TypeInv, InHand, Good
<1>2. /\ docs' = docs \cup Sends(task[k])
      /\ UNCHANGED <<offer, twins, torn, missed, row, cast, left, phase>> /\ Off(k)
      /\ task[k].pc \in {"index", "batch"}
  BY DEF Index, Batch, Sends, World, Data, History
<1>3. Sends(task[k]) \subseteq Rows
  BY <1>1 DEF Sends, Good, TaskRecords
<1>4. Typed
  BY <1>1, <1>2, <1>3 DEF Typed, TypeOK
<1> QED BY <1>2, <1>4, OffStops

LEMMA RequeueDoes ==
  ASSUME TypeInv, NEW k \in Tasks, Requeue(k), UNCHANGED phase
  PROVE  Typed /\ UNCHANGED <<docs, torn, missed, row, cast>> /\ task[k].pc = "requeue" /\ Stops(k)
<1>1. /\ UNCHANGED <<offer, twins, docs, torn, missed, row, cast, left, phase>>
      /\ task[k].pc = "requeue" /\ Off(k)
  BY DEF Requeue, World, History
<1>2. Typed
  BY <1>1 DEF Typed, TypeInv, TypeOK
<1> QED BY <1>1, <1>2, OffStops

LEMMA ForgetDoes ==
  ASSUME TypeInv, NEW k \in Tasks, Forget(k), UNCHANGED phase
  PROVE  /\ Typed /\ UNCHANGED <<torn, row, cast>> /\ Stops(k) /\ task[k].pc = "forget"
         /\ \/ docs' = {} /\ missed' = Sending(Rows)
            \/ docs' = docs \ task[k].ids /\ missed' = missed \cup Sending(task[k].ids)
<1>1. /\ UNCHANGED <<offer, twins, torn, row, cast, left, phase>>
      /\ task[k].pc = "forget" /\ Failed(k)
  BY DEF Forget, World, Data
<1>2. \/ docs' = {} /\ missed' = Sending(Rows)
      \/ docs' = docs \ task[k].ids /\ missed' = missed \cup Sending(task[k].ids)
  BY DEF Forget
<1>3. TypeOK /\ task[k] \in TaskRecords
  BY DEF TypeInv, TypeOK
<1>4. Sending(Rows) \subseteq Rows /\ Sending(task[k].ids) \subseteq Rows
  BY <1>3 DEF Sending, TaskRecords
<1>5. Typed
  BY <1>1, <1>2, <1>3, <1>4 DEF Typed, TypeOK
<1> QED BY <1>1, <1>2, <1>5, FailedStops

\* The IMDb id that was asked for: of the title the row had when it was read.
LEMMA GotIdsDoes ==
  ASSUME TypeInv, NEW k \in Tasks, GotIds(k), UNCHANGED phase
  PROVE  LET r == task[k].on IN
         /\ Typed /\ UNCHANGED <<docs, torn, missed, cast>> /\ task[k].pc = "ids" /\ Stops(k)
         /\ \/ UNCHANGED row
            \/ /\ r \in Here /\ Here' = Here /\ \A q \in Here \ {r} : row'[q] = row[q]
               /\ row'[r] = [row[r] EXCEPT !.imdb = task[k].work]
<1> DEFINE r == task[k].on
           w == task[k].work
<1>1. TypeOK /\ Good(task[k]) /\ task[k].pc = "ids" /\ w \in Works /\ r \in Rows
  BY DEF TypeInv, InHand, Good, GotIds
<1>2. UNCHANGED <<offer, twins, docs, torn, missed, cast, left, phase>> /\ Off(k)
  BY DEF GotIds, World, History
<1>3. CASE row' = row
  <2>1. Typed
    BY <1>1, <1>2, <1>3 DEF Typed, TypeOK
  <2> QED BY <1>1, <1>2, <1>3, <2>1, OffStops
<1>4. CASE r \in Here /\ row' = [row EXCEPT ![r].imdb = w]
  <2>1. row' = [row EXCEPT ![r] = [row[r] EXCEPT !.imdb = w]]
    BY <1>1, <1>4 DEF TypeOK
  <2>2. [row[r] EXCEPT !.imdb = w] \in TitleRecords
    BY <1>1, <1>4, RowFields DEF TitleRecords
  <2>3. /\ row' \in [Rows -> TitleRecords \cup {None}] /\ Here' = Here
        /\ row'[r] = [row[r] EXCEPT !.imdb = w] /\ \A q \in Here \ {r} : row'[q] = row[q]
    BY <1>1, <1>4, <2>1, <2>2, Changed
  <2>4. Typed
    BY <1>1, <1>2, <2>3 DEF Typed, TypeOK
  <2> QED BY <1>1, <1>2, <1>4, <2>3, <2>4, OffStops
<1>5. row' = row \/ (r \in Here /\ row' = [row EXCEPT ![r].imdb = w])
  BY DEF GotIds
<1> QED BY <1>3, <1>4, <1>5

LEMMA KeywordsDoes ==
  ASSUME TypeInv, NEW k \in Tasks, Keywords(k), UNCHANGED phase
  PROVE  /\ Typed /\ UNCHANGED <<docs, torn, missed>> /\ task[k].pc = "check"
         /\ (Stops(k) /\ UNCHANGED <<row, cast>>) \/ Drops(k, {task[k].on})
<1> DEFINE r == task[k].on
<1>1. TypeOK /\ Good(task[k]) /\ task[k] \in TaskRecords /\ r \in Rows /\ task[k].pc = "check"
  BY DEF TypeInv, InHand, Good, Keywords
<1>2. offer' = offer /\ twins' = twins /\ UNCHANGED <<docs, torn, missed, left, phase>>
  BY DEF Keywords, World, History
<1>3. CASE ~offer[task[k].work].blocked
  <2>1. Off(k) /\ row' = row /\ cast' = cast
    BY <1>3 DEF Keywords
  <2>2. Typed
    BY <1>1, <1>2, <2>1 DEF Typed, TypeOK
  <2> QED BY <1>1, <1>2, <2>1, <2>2, OffStops
<1>4. CASE offer[task[k].work].blocked
  <2>1. DeleteRows({r}) /\ task' = [task EXCEPT ![k].pc = "forget", ![k].ids = {r}]
    BY <1>4 DEF Keywords
  <2> DEFINE t == [task[k] EXCEPT !.pc = "forget", !.ids = {r}]
  <2>2. Moves(k, t)
    BY <1>1, <2>1 DEF Moves, TypeOK
  <2>3. t \in TaskRecords /\ t.pc = "forget" /\ t.ids = {r}
    BY <1>1 DEF TaskRecords
  <2>4. Good(t)
    BY <2>3 DEF Good
  <2>5. Typed
    BY <1>1, <1>2, <2>1, Deleted DEF Typed, TypeOK
  <2> HIDE DEF t
  <2>6. Drops(k, {r})
    BY <1>1, <2>1, <2>2, <2>3, <2>4 DEF Drops
  <2> QED BY <1>1, <1>2, <2>5, <2>6
<1> QED BY <1>3, <1>4

LEMMA CreateDoes ==
  ASSUME TypeInv, Create
  PROVE  /\ Typed /\ UNCHANGED <<docs, cast, task>>
         /\ \E r \in NewId, w \in Works : AddRow(r, None, None, w)
<1>1. PICK r \in NewId, w \in Works : AddRow(r, None, None, w)
  BY DEF Create
<1>2. UNCHANGED <<offer, twins, docs, cast, task, phase>> /\ Spend /\ TypeOK
  BY DEF Create, World, TypeInv
<1>3. /\ row' \in [Rows -> TitleRecords \cup {None}] /\ torn' = torn \ {r} /\ missed' = missed \ {r}
  BY <1>1, <1>2, Added
<1>4. Typed
  BY <1>2, <1>3, SpendIsTyped DEF Typed, TypeOK
<1> QED BY <1>1, <1>2, <1>4

LEMMA RetypeDoes ==
  ASSUME TypeInv, NEW r \in Here, Retype(r)
  PROVE  /\ Typed /\ UNCHANGED <<docs, cast, task, torn, missed>>
         /\ Here' = Here /\ \A q \in Here \ {r} : row'[q] = row[q]
         /\ row'[r] = [row[r] EXCEPT !.kind = "anime"]
<1>1. /\ UNCHANGED <<offer, twins, docs, cast, task, phase, torn, missed>> /\ Spend /\ TypeOK
      /\ row' = [row EXCEPT ![r].kind = "anime"]
  BY DEF Retype, World, History, TypeInv
<1>2. [row[r] EXCEPT !.kind = "anime"] \in TitleRecords
  BY <1>1, RowFields DEF TitleRecords
<1>3. row' = [row EXCEPT ![r] = [row[r] EXCEPT !.kind = "anime"]]
  BY <1>1 DEF TypeOK, Here
<1>4. /\ row' \in [Rows -> TitleRecords \cup {None}] /\ Here' = Here
      /\ row'[r] = [row[r] EXCEPT !.kind = "anime"] /\ \A q \in Here \ {r} : row'[q] = row[q]
  BY <1>1, <1>2, <1>3, Changed
<1>5. Typed
  BY <1>1, <1>4, SpendIsTyped DEF Typed, TypeOK
<1> QED BY <1>1, <1>4, <1>5

LEMMA DeleteDoes ==
  ASSUME TypeInv, NEW k \in Tasks, Delete(k)
  PROVE  /\ Typed /\ UNCHANGED <<docs, torn, missed>> /\ task[k].pc = "off"
         /\ \E ids \in SUBSET Rows : Drops(k, ids)
<1>1. /\ UNCHANGED <<offer, twins, docs, phase, torn, missed>> /\ Spend /\ TypeOK
      /\ task[k].pc = "off"
  BY DEF Delete, World, History, TypeInv, Ready
<1>2. PICK ids \in SUBSET Rows, how \in {"delete", "flush"} :
        /\ DeleteRows(ids)
        /\ task' = [task EXCEPT ![k] = [Idle EXCEPT !.pc = "forget", !.how = how, !.ids = ids]]
  <2>1. ASSUME NEW r \in Here
        PROVE  {r} \in SUBSET Rows
    BY DEF Here
  <2>2. Here \in SUBSET Rows
    BY DEF Here
  <2> QED BY <2>1, <2>2 DEF Delete
<1> DEFINE t == [Idle EXCEPT !.pc = "forget", !.how = how, !.ids = ids]
<1>3. Moves(k, t)
  BY <1>2 DEF Moves
<1>4. t \in TaskRecords /\ t.pc = "forget" /\ t.ids = ids
  BY IdleIsGood DEF TaskRecords
<1>5. Good(t)
  BY <1>4 DEF Good
<1>6. Typed
  BY <1>1, <1>2, Deleted, SpendIsTyped DEF Typed, TypeOK
<1> HIDE DEF t
<1>7. Drops(k, ids)
  BY <1>2, <1>3, <1>4, <1>5 DEF Drops
<1> QED BY <1>1, <1>6, <1>7

LEMMA TmdbChangesDoes ==
  ASSUME TypeInv, TmdbChanges
  PROVE  Typed /\ UNCHANGED <<row, cast, docs, task, torn, missed>>
<1>1. UNCHANGED <<twins, row, cast, docs, task, phase, torn, missed>> /\ Spend /\ TypeOK
  BY DEF TmdbChanges, Data, History, TypeInv
<1>2. PICK w \in Works, f \in {"linked", "blocked"} : offer' = [offer EXCEPT ![w][f] = TRUE]
  BY DEF TmdbChanges
<1>3. offer' = [offer EXCEPT ![w] = [offer[w] EXCEPT ![f] = TRUE]]
  BY <1>1, <1>2 DEF TypeOK
<1>4. [offer[w] EXCEPT ![f] = TRUE] \in [linked : BOOLEAN, blocked : BOOLEAN]
  <2>1. offer[w] \in [linked : BOOLEAN, blocked : BOOLEAN]
    BY <1>1 DEF TypeOK
  <2>2. CASE f = "linked"
    BY <2>1, <2>2
  <2>3. CASE f = "blocked"
    BY <2>1, <2>3
  <2> QED BY <2>2, <2>3
<1>5. offer' \in [Works -> [linked : BOOLEAN, blocked : BOOLEAN]]
  BY <1>1, <1>3, <1>4 DEF TypeOK
<1>6. Typed
  BY <1>1, <1>5, SpendIsTyped DEF Typed, TypeOK
<1> QED BY <1>1, <1>6

LEMMA UndoneIsTyped ==
  ASSUME TypeInv, NEW ks \in SUBSET Tasks, Undone(ks)
  PROVE  torn' \in SUBSET Rows /\ missed' \in SUBSET Rows
<1>1. /\ torn' = torn \cup {task[k].on : k \in {j \in ks : task[j].pc = "fill" /\ task[j].how # "omdb"}}
      /\ missed' = missed \cup UNION {task[k].ids : k \in {j \in ks : task[j].pc = "forget"}}
  BY DEF Undone
<1>2. torn \subseteq Rows /\ missed \subseteq Rows
  BY DEF TypeInv, TypeOK
<1>3. \A j \in ks : Good(task[j])
  BY DEF TypeInv, InHand
<1>4. \A j \in ks : task[j].ids \subseteq Rows /\ (task[j].pc = "fill" => task[j].on \in Rows)
  BY <1>3 DEF Good, TaskRecords
<1> QED BY <1>1, <1>2, <1>4

\* A failure, a hang-up.
LEMMA CutsDo ==
  ASSUME TypeInv, NEW k \in Tasks, Fails(k) \/ HangUp(k)
  PROVE  Typed /\ UNCHANGED <<row, cast, docs>> /\ Undone({k}) /\ Stops(k)
<1>1. /\ UNCHANGED <<offer, twins, row, cast, docs, phase>> /\ Spend /\ Undone({k})
      /\ Failed(k) \/ Off(k)
  BY DEF Fails, HangUp, World, Data
<1>2. torn' \in SUBSET Rows /\ missed' \in SUBSET Rows
  BY <1>1, UndoneIsTyped
<1>3. Typed
  BY <1>1, <1>2, SpendIsTyped DEF Typed, TypeInv, TypeOK
<1> QED BY <1>1, <1>3, FailedStops, OffStops

LEMMA RestartDoes ==
  ASSUME TypeInv, Restart
  PROVE  /\ Typed /\ UNCHANGED <<row, cast, docs>> /\ Undone(Tasks)
         /\ task' = [k \in Tasks |-> Idle]
<1>1. /\ UNCHANGED <<offer, twins, row, cast, docs>> /\ Spend /\ Undone(Tasks)
      /\ task' = [k \in Tasks |-> Idle] /\ phase' = 1
  BY DEF Restart, World, Data
<1>2. torn' \in SUBSET Rows /\ missed' \in SUBSET Rows
  BY <1>1, UndoneIsTyped
<1>3. Typed
  BY <1>1, <1>2, PhasesAre, SpendIsTyped DEF Typed, TypeInv, TypeOK
<1> QED BY <1>1, <1>3

\* Days pass, a row is marked: nothing but the order of the refresh changes.
Dated == UNCHANGED <<offer, twins, row, cast, docs, task, phase, torn, missed, left>>

\* Only rows that are there grow old.
LEMMA OldAreRows ==
  ASSUME TypeOK, Next
  PROVE  old' \in SUBSET Rows
<1>1. old \subseteq Rows /\ Here \subseteq Rows
  BY DEF TypeOK, Here
<1> SUFFICES old' \subseteq old \cup Here
  BY <1>1
<1>2. CASE Turn
  BY <1>2 DEF Turn, Quiet, Data, Dates
<1>3. CASE \E k \in Clients : Search(k) \/ SearchById(k) \/ Open(k) \/ Refresh(k) \/ CheckStored(k)
  BY <1>3 DEF Search, SearchById, Open, Refresh, Fetch, CheckStored, Quiet, Data, Dates
<1>4. ASSUME NEW k \in Tasks, Step(k)
      PROVE  old' \subseteq old \cup Here
  <2>1. CASE Details(k) \/ Keywords(k)
    BY <2>1 DEF Details, Keywords, DeleteRows, Touch, Data, Dates
  <2>2. CASE Update(k) \/ Insert(k)
    BY <2>2 DEF Update, Insert, AddRow, Touch, Dates
  <2>3. CASE Fill(k)
    BY <2>3 DEF Fill, DeleteRows, Touch, Data, Dates
  <2>4. CASE Reread(k) \/ Index(k) \/ Batch(k) \/ Forget(k)
    BY <2>4 DEF Reread, Index, Batch, Forget, Data, Dates
  <2>5. CASE Requeue(k) \/ GotIds(k)
    BY <2>5 DEF Requeue, GotIds, Touch, Dates
  <2> QED BY <1>4, <2>1, <2>2, <2>3, <2>4, <2>5 DEF Step
<1>5. CASE \E k \in Clients : Delete(k)
  BY <1>5 DEF Delete, DeleteRows
<1>6. CASE (\E k \in Tasks : Fails(k)) \/ (\E k \in Clients : HangUp(k)) \/ Restart
  BY <1>6 DEF Fails, HangUp, Restart, Data, Dates
<1>7. CASE Create \/ (\E r \in Here : Retype(r)) \/ TmdbChanges
  BY <1>7 DEF Create, AddRow, Retype, Touch, TmdbChanges, Data, Dates
<1>8. CASE Age \/ \E r \in Here : Mark(r)
  BY <1>8 DEF Age, Mark, Touch
<1> QED BY <1>2, <1>3, <1>4, <1>5, <1>6, <1>7, <1>8 DEF Next

\* A step as the proofs below see it.
LEMMA NextIs ==
  ASSUME TypeInv, Next
  PROVE  \/ \E k \in Tasks : \/ /\ Quiet /\ Ready(k) /\ phase' \in DOMAIN Phases
                                /\ UNCHANGED task \/ \E t : Moves(k, t) /\ Good(t) /\ Start(t)
                             \/ /\ \/ Details(k) \/ Update(k) \/ Insert(k) \/ Fill(k) \/ Reread(k)
                                   \/ Index(k) \/ Batch(k) \/ Requeue(k) \/ Forget(k) \/ GotIds(k)
                                   \/ Keywords(k)
                                /\ UNCHANGED phase
                             \/ Delete(k) \/ Fails(k) \/ HangUp(k)
         \/ Create \/ (\E r \in Here : Retype(r)) \/ TmdbChanges \/ Restart \/ Dated
<1>0. Syncer \in Tasks /\ Clients \subseteq Tasks /\ phase \in DOMAIN Phases
  BY DEF Tasks, TypeInv, TypeOK
<1>1. CASE Turn
  BY <1>0, <1>1, TurnStarts
<1>2. CASE \E k \in Clients : Search(k) \/ SearchById(k) \/ Open(k) \/ Refresh(k) \/ CheckStored(k)
  BY <1>0, <1>2, RequestStarts
<1>3. CASE \E k \in Tasks : Step(k)
  BY <1>3 DEF Step
<1>4. CASE Age \/ \E r \in Here : Mark(r)
  BY <1>4 DEF Age, Mark, World, History, Dated
<1> QED BY <1>0, <1>1, <1>2, <1>3, <1>4 DEF Next

----------------------------------------------------------------------------
(* Types *)

LEMMA TypedTasks ==
  ASSUME TypeInv, Typed, old' \in SUBSET Rows,
         UNCHANGED task \/ \E k \in Tasks, t \in TaskRecords : Moves(k, t) /\ Good(t)
  PROVE  TypeInv'
<1>1. task' \in [Tasks -> TaskRecords] /\ InHand'
  <2>1. CASE UNCHANGED task
    BY <2>1 DEF TypeInv, TypeOK, InHand
  <2>2. CASE \E k \in Tasks, t \in TaskRecords : Moves(k, t) /\ Good(t)
    BY <2>2, MovesKeepsTasks
  <2> QED BY <2>1, <2>2
<1> QED BY <1>1 DEF TypeInv, TypeOK, Typed

LEMMA StepKeepsTypes ==
  ASSUME TypeInv, Next
  PROVE  TypeInv'
<1>0. TypeOK /\ (\A t : Good(t) => t \in TaskRecords) /\ old' \in SUBSET Rows
  BY OldAreRows DEF TypeInv, Good
<1>1. ASSUME NEW k \in Tasks, Quiet, phase' \in DOMAIN Phases,
             UNCHANGED task \/ \E t : Moves(k, t) /\ Good(t) /\ Start(t)
      PROVE  TypeInv'
  <2>1. Typed
    BY <1>0, <1>1 DEF Quiet, World, Data, History, Typed, TypeOK
  <2> QED BY <1>0, <1>1, <2>1, TypedTasks
<1>2. ASSUME NEW k \in Tasks, UNCHANGED phase, Details(k)
      PROVE  TypeInv'
  BY <1>0, <1>2, DetailsDoes, TypedTasks DEF Stops
<1>3. ASSUME NEW k \in Tasks, UNCHANGED phase, Update(k)
      PROVE  TypeInv'
  BY <1>0, <1>3, UpdateDoes, TypedTasks DEF Stops
<1>4. ASSUME NEW k \in Tasks, UNCHANGED phase, Insert(k)
      PROVE  TypeInv'
  BY <1>0, <1>4, InsertDoes, TypedTasks DEF Stops
<1>5. ASSUME NEW k \in Tasks, UNCHANGED phase, Fill(k)
      PROVE  TypeInv'
  BY <1>0, <1>5, FillDoes, TypedTasks DEF Stops, Drops
<1>6. ASSUME NEW k \in Tasks, UNCHANGED phase, Reread(k)
      PROVE  TypeInv'
  BY <1>0, <1>6, RereadDoes, TypedTasks DEF Stops
<1>7. ASSUME NEW k \in Tasks, UNCHANGED phase, Index(k) \/ Batch(k)
      PROVE  TypeInv'
  BY <1>0, <1>7, SendersDo, TypedTasks DEF Stops
<1>8. ASSUME NEW k \in Tasks, UNCHANGED phase, Requeue(k)
      PROVE  TypeInv'
  BY <1>0, <1>8, RequeueDoes, TypedTasks DEF Stops
<1>9. ASSUME NEW k \in Tasks, UNCHANGED phase, Forget(k)
      PROVE  TypeInv'
  BY <1>0, <1>9, ForgetDoes, TypedTasks DEF Stops
<1>10. ASSUME NEW k \in Tasks, UNCHANGED phase, GotIds(k)
       PROVE  TypeInv'
  BY <1>0, <1>10, GotIdsDoes, TypedTasks DEF Stops
<1>11. ASSUME NEW k \in Tasks, UNCHANGED phase, Keywords(k)
       PROVE  TypeInv'
  BY <1>0, <1>11, KeywordsDoes, TypedTasks DEF Stops, Drops
<1>12. ASSUME NEW k \in Tasks, Delete(k)
       PROVE  TypeInv'
  BY <1>0, <1>12, DeleteDoes, TypedTasks DEF Drops
<1>13. ASSUME NEW k \in Tasks, Fails(k) \/ HangUp(k)
       PROVE  TypeInv'
  BY <1>0, <1>13, CutsDo, TypedTasks DEF Stops
<1>14. CASE Create
  BY <1>0, <1>14, CreateDoes, TypedTasks
<1>15. ASSUME NEW r \in Here, Retype(r)
       PROVE  TypeInv'
  BY <1>0, <1>15, RetypeDoes, TypedTasks
<1>16. CASE TmdbChanges
  BY <1>0, <1>16, TmdbChangesDoes, TypedTasks
<1>17. CASE Restart
  <2>1. Typed /\ task' = [k \in Tasks |-> Idle]
    BY <1>17, RestartDoes
  <2>2. task' \in [Tasks -> TaskRecords] /\ InHand'
    BY <2>1, IdleIsGood DEF InHand
  <2> QED BY <1>0, <2>1, <2>2 DEF TypeInv, TypeOK, Typed
<1>18. CASE Dated
  BY <1>0, <1>18 DEF Dated, TypeInv, TypeOK, InHand
<1> QED BY NextIs, <1>1, <1>2, <1>3, <1>4, <1>5, <1>6, <1>7, <1>8, <1>9, <1>10, <1>11,
           <1>12, <1>13, <1>14, <1>15, <1>16, <1>17, <1>18

----------------------------------------------------------------------------
(* Documents without a row *)

\* Between its deletion and that of its document a row is in the hands of a task.
Forgetting(r) == \E j \in Tasks : task[j].pc = "forget" /\ r \in task[j].ids

\* A document that is there, or on its way, has a row or is one to be deleted or missed. What is
\* on its way has to be in it: it arrives when the deletion is over.
Traced ==
  \A r : r \in docs \/ (\E j \in Tasks : r \in Sends(task[j])) =>
           r \in Here \/ r \in missed \/ Forgetting(r)

\* A task's step keeps the documents traced when the rows and the deletions it drops are.
LEMMA TracedKept ==
  ASSUME TypeInv, Traced, NEW k \in Tasks, NEW t, Moves(k, t), Good(t),
         docs' \subseteq docs \cup Sends(task[k]), missed \subseteq missed' \cup Here',
         Sends(t) \subseteq Here',
         \A r \in Here \ Here' : r \in missed' \/ (t.pc = "forget" /\ r \in t.ids),
         task[k].pc = "forget" => task[k].ids \subseteq missed'
  PROVE  Traced'
<1>1. task'[k] = t /\ \A j \in Tasks \ {k} : task'[j] = task[j]
  BY MovesKeepsTasks
<1> SUFFICES ASSUME NEW r, r \in docs' \/ \E j \in Tasks : r \in Sends(task'[j])
             PROVE  r \in Here' \/ r \in missed' \/ \E j \in Tasks : task'[j].pc = "forget" /\ r \in task'[j].ids
  BY DEF Traced, Forgetting, Sends
<1>2. r \in Sends(t) \/ r \in docs \/ \E j \in Tasks : r \in Sends(task[j])
  BY <1>1
<1>3. CASE r \in Sends(t)
  BY <1>3
<1>4. CASE r \in docs \/ \E j \in Tasks : r \in Sends(task[j])
  <2>1. r \in Here \/ r \in missed \/ Forgetting(r)
    BY <1>4 DEF Traced
  <2>2. CASE Forgetting(r)
    <3>1. PICK j \in Tasks : task[j].pc = "forget" /\ r \in task[j].ids
      BY <2>2 DEF Forgetting
    <3>2. CASE j = k
      BY <3>1, <3>2
    <3>3. CASE j # k
      BY <1>1, <3>1, <3>3
    <3> QED BY <3>2, <3>3
  <2>3. CASE r \in Here
    BY <2>3, <1>1
  <2> QED BY <2>1, <2>2, <2>3
<1> QED BY <1>2, <1>3, <1>4

\* The same when no task moves and no row goes.
LEMMA TracedSame ==
  ASSUME Traced, UNCHANGED <<docs, task>>, Here \subseteq Here', missed \subseteq missed' \cup Here'
  PROVE  Traced'
  BY DEF Traced, Forgetting, Sends

LEMMA StoppedSendsNothing ==
  ASSUME NEW k \in Tasks, Stops(k)
  PROVE  \E t : Moves(k, t) /\ Good(t) /\ Sends(t) = {} /\ t.pc # "forget" /\ t.pc # "fill"
                /\ t.pc \notin {"write", "ids"}
  BY DEF Stops, Sends

LEMMA StepKeepsTraced ==
  ASSUME TypeInv, TypeInv', Traced, Next
  PROVE  Traced'
<1>1. ASSUME NEW k \in Tasks, Quiet, Ready(k),
             UNCHANGED task \/ \E t : Moves(k, t) /\ Good(t) /\ Start(t)
      PROVE  Traced'
  <2>1. UNCHANGED <<row, docs, missed>> /\ Here' = Here /\ task[k].pc = "off"
    BY <1>1 DEF Quiet, Data, History, Ready, Here
  <2>2. CASE UNCHANGED task
    BY <2>1, <2>2, TracedSame
  <2>3. CASE \E t : Moves(k, t) /\ Good(t) /\ Start(t)
    <3>1. PICK t : Moves(k, t) /\ Good(t) /\ Start(t)
      BY <2>3
    <3>2. Sends(t) \subseteq Here
      BY <3>1 DEF Sends, Start
    <3> QED BY <2>1, <3>1, <3>2, TracedKept
  <2> QED BY <1>1, <2>2, <2>3
<1>2. ASSUME NEW k \in Tasks, UNCHANGED phase, Details(k)
      PROVE  Traced'
  <2>1. UNCHANGED <<docs, missed>> /\ task[k].pc = "details" /\ TypeOK
    BY <1>2, DetailsDoes DEF TypeInv
  <2>2. CASE Stops(k) /\ UNCHANGED <<row, cast>>
    BY <2>1, <2>2, StoppedSendsNothing, SameRows, TracedKept
  <2>3. CASE \E t : Moves(k, t) /\ Good(t) /\ t.pc = "forget" /\ t.ids \subseteq Here /\ DeleteRows(t.ids)
    <3>1. PICK t : Moves(k, t) /\ Good(t) /\ t.pc = "forget" /\ DeleteRows(t.ids)
      BY <2>3
    <3>2. Here' = Here \ t.ids /\ Sends(t) = {}
      BY <2>1, <3>1, Deleted DEF Sends
    <3> QED BY <2>1, <3>1, <3>2, TracedKept
  <2>4. CASE UNCHANGED <<row, cast>> /\ \E t : Moves(k, t) /\ Good(t) /\ t.pc = "write"
    <3>1. PICK t : Moves(k, t) /\ Good(t) /\ t.pc = "write"
      BY <2>4
    <3>2. Here' = Here /\ Sends(t) = {}
      BY <2>1, <2>4, <3>1, SameRows DEF Sends
    <3> QED BY <2>1, <3>1, <3>2, TracedKept
  <2> QED BY <1>2, <2>2, <2>3, <2>4, DetailsDoes
<1>3. ASSUME NEW k \in Tasks, UNCHANGED phase, Update(k)
      PROVE  Traced'
  <2>1. UNCHANGED <<docs, missed>> /\ task[k].pc = "write" /\ TypeOK /\ task[k] \in TaskRecords
    BY <1>3, UpdateDoes DEF TypeInv, TypeOK
  <2>2. CASE Stops(k) /\ UNCHANGED <<row, cast>>
    BY <2>1, <2>2, StoppedSendsNothing, SameRows, TracedKept
  <2>3. CASE Moves(k, [task[k] EXCEPT !.pc = "fill"]) /\ Good([task[k] EXCEPT !.pc = "fill"]) /\ Here' = Here
    <3>1. [task[k] EXCEPT !.pc = "fill"].pc = "fill"
      BY <2>1 DEF TaskRecords
    <3>2. Sends([task[k] EXCEPT !.pc = "fill"]) = {}
      BY <3>1 DEF Sends
    <3> QED BY <2>1, <2>3, <3>1, <3>2, TracedKept
  <2> QED BY <1>3, <2>2, <2>3, UpdateDoes
<1>4. ASSUME NEW k \in Tasks, UNCHANGED phase, Insert(k)
      PROVE  Traced'
  <2>1. UNCHANGED docs /\ task[k].pc = "write" /\ TypeOK
    BY <1>4, InsertDoes DEF TypeInv
  <2>2. CASE Stops(k) /\ UNCHANGED <<row, torn, missed>>
    BY <2>1, <2>2, StoppedSendsNothing, SameRows, TracedKept
  <2>3. CASE ~(Stops(k) /\ UNCHANGED <<row, torn, missed>>)
    <3>1. PICK r \in NewId : \E t :
                 /\ AddRow(r, Tmdb(k), Imdb(k), task[k].work)
                 /\ Tmdb(k) \in {None, task[k].work} /\ Imdb(k) \in {None, task[k].work}
                 /\ task[k].work \in Works
                 /\ Moves(k, t) /\ Good(t) /\ t.pc = "fill"
      BY <1>4, <2>3, InsertDoes
    <3>2. PICK t : Moves(k, t) /\ Good(t) /\ t.pc = "fill"
      BY <3>1
    <3>3. Here' = Here \cup {r} /\ missed' = missed \ {r}
      BY <2>1, <3>1, Added
    <3> QED BY <2>1, <3>2, <3>3, TracedKept DEF Sends
  <2> QED BY <2>2, <2>3
<1>5. ASSUME NEW k \in Tasks, UNCHANGED phase, Fill(k)
      PROVE  Traced'
  <2>1. UNCHANGED <<docs, missed>> /\ task[k].pc = "fill" /\ TypeOK /\ task[k] \in TaskRecords
    BY <1>5, FillDoes DEF TypeInv, TypeOK
  <2>2. CASE Stops(k) /\ UNCHANGED <<row, cast>>
    BY <2>1, <2>2, StoppedSendsNothing, SameRows, TracedKept
  <2>3. CASE Drops(k, {task[k].on})
    <3>1. PICK t : Moves(k, t) /\ Good(t) /\ t.pc = "forget" /\ DeleteRows(t.ids)
      BY <2>3 DEF Drops
    <3>2. Here' = Here \ t.ids /\ Sends(t) = {}
      BY <2>1, <3>1, Deleted DEF Sends
    <3> QED BY <2>1, <3>1, <3>2, TracedKept
  <2>4. CASE /\ UNCHANGED row /\ Moves(k, [task[k] EXCEPT !.pc = "reread"])
             /\ Good([task[k] EXCEPT !.pc = "reread"])
    <3>1. [task[k] EXCEPT !.pc = "reread"].pc = "reread"
      BY <2>1 DEF TaskRecords
    <3>2. Sends([task[k] EXCEPT !.pc = "reread"]) = {} /\ Here' = Here
      BY <2>1, <2>4, <3>1, SameRows DEF Sends
    <3> QED BY <2>1, <2>4, <3>1, <3>2, TracedKept
  <2> QED BY <1>5, <2>2, <2>3, <2>4, FillDoes
<1>6. ASSUME NEW k \in Tasks, UNCHANGED phase, Reread(k)
      PROVE  Traced'
  <2>1. /\ UNCHANGED <<docs, missed, row>> /\ task[k].pc = "reread" /\ TypeOK /\ Here' = Here
        /\ task[k] \in TaskRecords
    BY <1>6, RereadDoes, SameRows DEF TypeInv, TypeOK
  <2>2. CASE Stops(k)
    BY <2>1, <2>2, StoppedSendsNothing, TracedKept
  <2>3. CASE /\ task[k].on \in Here /\ Moves(k, [task[k] EXCEPT !.pc = "index"])
             /\ Good([task[k] EXCEPT !.pc = "index"])
    <3>1. /\ [task[k] EXCEPT !.pc = "index"].pc = "index"
          /\ [task[k] EXCEPT !.pc = "index"].on = task[k].on
      BY <2>1 DEF TaskRecords
    <3>2. Sends([task[k] EXCEPT !.pc = "index"]) = {task[k].on}
      BY <3>1 DEF Sends
    <3> QED BY <2>1, <2>3, <3>1, <3>2, TracedKept
  <2> QED BY <1>6, <2>2, <2>3, RereadDoes
<1>7. ASSUME NEW k \in Tasks, UNCHANGED phase, Index(k) \/ Batch(k)
      PROVE  Traced'
  <2>1. /\ UNCHANGED <<missed, row>> /\ docs' = docs \cup Sends(task[k]) /\ Stops(k)
        /\ task[k].pc # "forget" /\ Here' = Here
    BY <1>7, SendersDo, SameRows DEF TypeInv
  <2> QED BY <2>1, StoppedSendsNothing, TracedKept
<1>8. ASSUME NEW k \in Tasks, UNCHANGED phase, Requeue(k)
      PROVE  Traced'
  <2>1. /\ UNCHANGED <<missed, row, docs>> /\ Stops(k) /\ task[k].pc # "forget" /\ Here' = Here
    BY <1>8, RequeueDoes, SameRows DEF TypeInv
  <2> QED BY <2>1, StoppedSendsNothing, TracedKept
<1>9. ASSUME NEW k \in Tasks, UNCHANGED phase, Forget(k)
      PROVE  Traced'
  <2>1. /\ Stops(k) /\ task[k].pc = "forget" /\ Here' = Here /\ row' = row
        /\ \/ docs' = {} /\ missed' = Sending(Rows)
           \/ docs' = docs \ task[k].ids /\ missed' = missed \cup Sending(task[k].ids)
    BY <1>9, ForgetDoes, SameRows DEF TypeInv
  <2>2. PICK t : Moves(k, t) /\ Good(t) /\ Sends(t) = {} /\ t.pc # "forget"
    BY <2>1, StoppedSendsNothing
  <2>3. task'[k] = t /\ \A j \in Tasks \ {k} : task'[j] = task[j]
    BY <2>2, MovesKeepsTasks
  <2> SUFFICES ASSUME NEW r, r \in docs' \/ \E j \in Tasks : r \in Sends(task'[j])
               PROVE  \/ r \in Here' \/ r \in missed'
                      \/ \E j \in Tasks : task'[j].pc = "forget" /\ r \in task'[j].ids
    BY DEF Traced, Forgetting, Sends
  <2>4. \A ids \in SUBSET Rows : r \in ids /\ (\E j \in Tasks : r \in Sends(task[j])) => r \in Sending(ids)
    BY DEF Sending, Sends
  <2>5. \A j \in Tasks : Good(task[j]) /\ Sends(task[j]) \subseteq Rows /\ task[j].ids \subseteq Rows
    BY DEF TypeInv, InHand, Good, Sends, TaskRecords
  <2>6. CASE docs' = {} /\ missed' = Sending(Rows)
    BY <2>2, <2>3, <2>4, <2>5, <2>6
  <2>7. CASE docs' = docs \ task[k].ids /\ missed' = missed \cup Sending(task[k].ids)
    <3>1. r \in docs \/ \E j \in Tasks : r \in Sends(task[j])
      BY <2>2, <2>3, <2>7
    <3>2. r \in Here \/ r \in missed \/ \E j \in Tasks : task[j].pc = "forget" /\ r \in task[j].ids
      BY <3>1 DEF Traced, Forgetting
    <3>3. CASE r \in task[k].ids
      <4>1. \E j \in Tasks : r \in Sends(task[j])
        BY <2>2, <2>3, <2>7, <3>3
      <4> QED BY <4>1, <2>4, <2>5, <2>7, <3>3
    <3>4. CASE r \notin task[k].ids
      BY <2>1, <2>3, <2>7, <3>2, <3>4
    <3> QED BY <3>3, <3>4
  <2> QED BY <2>1, <2>6, <2>7
<1>10. ASSUME NEW k \in Tasks, UNCHANGED phase, GotIds(k)
       PROVE  Traced'
  <2>1. UNCHANGED <<missed, docs>> /\ Stops(k) /\ task[k].pc # "forget" /\ Here' = Here
    BY <1>10, GotIdsDoes, SameRows DEF TypeInv
  <2> QED BY <2>1, StoppedSendsNothing, TracedKept
<1>11. ASSUME NEW k \in Tasks, UNCHANGED phase, Keywords(k)
       PROVE  Traced'
  <2>1. UNCHANGED <<missed, docs>> /\ task[k].pc # "forget" /\ TypeOK
    BY <1>11, KeywordsDoes DEF TypeInv
  <2>2. CASE Stops(k) /\ UNCHANGED <<row, cast>>
    BY <2>1, <2>2, StoppedSendsNothing, SameRows, TracedKept
  <2>3. CASE Drops(k, {task[k].on})
    <3>1. PICK t : Moves(k, t) /\ Good(t) /\ t.pc = "forget" /\ DeleteRows(t.ids)
      BY <2>3 DEF Drops
    <3>2. Here' = Here \ t.ids /\ Sends(t) = {}
      BY <2>1, <3>1, Deleted DEF Sends
    <3> QED BY <2>1, <3>1, <3>2, TracedKept
  <2> QED BY <1>11, <2>2, <2>3, KeywordsDoes
<1>12. ASSUME NEW k \in Tasks, Delete(k)
       PROVE  Traced'
  <2>1. UNCHANGED <<missed, docs>> /\ task[k].pc # "forget" /\ TypeOK
    BY <1>12, DeleteDoes DEF TypeInv
  <2>2. PICK t : Moves(k, t) /\ Good(t) /\ t.pc = "forget" /\ DeleteRows(t.ids)
    BY <1>12, DeleteDoes DEF Drops
  <2>3. Here' = Here \ t.ids /\ Sends(t) = {}
    BY <2>1, <2>2, Deleted DEF Sends
  <2> QED BY <2>1, <2>2, <2>3, TracedKept
<1>13. ASSUME NEW k \in Tasks, Fails(k) \/ HangUp(k)
       PROVE  Traced'
  <2>1. UNCHANGED <<docs, row>> /\ Undone({k}) /\ Stops(k) /\ Here' = Here
    BY <1>13, CutsDo, SameRows DEF TypeInv
  <2>2. missed \subseteq missed' /\ (task[k].pc = "forget" => task[k].ids \subseteq missed')
    BY <2>1 DEF Undone
  <2> QED BY <2>1, <2>2, StoppedSendsNothing, TracedKept
<1>14. CASE Create
  <2>1. PICK r \in NewId, w \in Works : AddRow(r, None, None, w)
    BY <1>14, CreateDoes
  <2>2. Here' = Here \cup {r} /\ missed' = missed \ {r} /\ UNCHANGED <<docs, task>>
    BY <1>14, <2>1, CreateDoes, Added DEF TypeInv
  <2> QED BY <2>2, TracedSame
<1>15. ASSUME NEW r \in Here, Retype(r)
       PROVE  Traced'
  BY <1>15, RetypeDoes, TracedSame
<1>16. CASE TmdbChanges
  BY <1>16, TmdbChangesDoes, SameRows, TracedSame DEF TypeInv
<1>17. CASE Restart
  <2>1. UNCHANGED <<docs, row>> /\ Undone(Tasks) /\ task' = [k \in Tasks |-> Idle] /\ Here' = Here
    BY <1>17, RestartDoes, SameRows DEF TypeInv
  <2>2. \A j \in Tasks : task'[j].pc = "off" /\ Sends(task'[j]) = {}
    BY <2>1, IdleIsGood DEF Sends
  <2>3. missed \subseteq missed' /\ \A j \in Tasks : task[j].pc = "forget" => task[j].ids \subseteq missed'
    BY <2>1 DEF Undone
  <2> SUFFICES ASSUME NEW r, r \in docs' \/ \E j \in Tasks : r \in Sends(task'[j])
               PROVE  r \in Here' \/ r \in missed'
    BY DEF Traced, Sends
  <2>4. r \in Here \/ r \in missed \/ \E j \in Tasks : task[j].pc = "forget" /\ r \in task[j].ids
    BY <2>1, <2>2 DEF Traced, Forgetting
  <2> QED BY <2>1, <2>3, <2>4
<1>18. CASE Dated
  BY <1>18, SameRows, TracedSame DEF Dated, TypeInv
<1> QED BY NextIs, <1>1, <1>2, <1>3, <1>4, <1>5, <1>6, <1>7, <1>8, <1>9, <1>10, <1>11,
           <1>12, <1>13, <1>14, <1>15, <1>16, <1>17, <1>18

----------------------------------------------------------------------------
(* One title per row *)

\* The ids of a row are those of the title it is named after.
OfOne(rec) == rec.tmdb \in {None, rec.name} /\ rec.imdb \in {None, rec.name}

\* A task that is about to write a row it has found writes that row's title.
Names(k) ==
  task[k].pc \in {"write", "ids"} /\ task[k].on \in Here => row[task[k].on].name = task[k].work

OneTitle == twins \/ ((\A r \in Here : OfOne(row[r])) /\ \A k \in Tasks : Names(k))

\* Rows keep their names, so a task's step keeps the titles apart when what the task holds, and
\* the rows that changed, are of one title.
OneTitleKept ==
  /\ \A r \in Here' : OfOne(row'[r])
  /\ \A r \in Here \cap Here' : row'[r].name = row[r].name

LEMMA TitlesKept ==
  ASSUME TypeInv, OneTitle, twins' = twins, NEW k \in Tasks, NEW t, Moves(k, t), Good(t),
         ~twins => OneTitleKept,
         ~twins /\ t.pc \in {"write", "ids"} /\ t.on \in Here' => row'[t.on].name = t.work,
         \A j \in Tasks : task[j].on \in Here' => task[j].on \in Here
  PROVE  OneTitle'
<1>1. task'[k] = t /\ \A j \in Tasks \ {k} : task'[j] = task[j]
  BY MovesKeepsTasks
<1>2. CASE twins
  BY <1>2 DEF OneTitle
<1>3. CASE ~twins
  <2>1. \A r \in Here' : OfOne(row'[r])
    BY <1>3 DEF OneTitleKept
  <2>2. ASSUME NEW j \in Tasks, task'[j].pc \in {"write", "ids"}, task'[j].on \in Here'
        PROVE  row'[task'[j].on].name = task'[j].work
    <3>1. CASE j = k
      BY <1>1, <1>3, <2>2, <3>1
    <3>2. CASE j # k
      <4>1. task'[j] = task[j] /\ task[j].on \in Here /\ task[j].on \in Here'
        BY <1>1, <2>2, <3>2
      <4>2. row[task[j].on].name = task[j].work
        BY <1>3, <2>2, <4>1 DEF OneTitle, Names
      <4> QED BY <1>3, <4>1, <4>2 DEF OneTitleKept
    <3> QED BY <3>1, <3>2
  <2> QED BY <2>1, <2>2 DEF OneTitle, Names
<1> QED BY <1>2, <1>3

\* When no row comes and none is changed.
LEMMA TitlesStay ==
  ASSUME TypeInv, OneTitle, twins' = twins, NEW k \in Tasks, NEW t, Moves(k, t), Good(t),
         RowsStay, Here' \subseteq Here,
         ~twins /\ t.pc \in {"write", "ids"} /\ t.on \in Here => row[t.on].name = t.work
  PROVE  OneTitle'
<1>1. ~twins => OneTitleKept
  BY DEF OneTitle, OneTitleKept, OfOne, RowsStay
<1>2. ~twins /\ t.pc \in {"write", "ids"} /\ t.on \in Here' => row'[t.on].name = t.work
  BY DEF RowsStay
<1> QED BY <1>1, <1>2, TitlesKept

\* When no task moves.
LEMMA TitlesSame ==
  ASSUME OneTitle, twins' = twins, task' = task, ~twins => OneTitleKept,
         \A j \in Tasks : task[j].on \in Here' => task[j].on \in Here
  PROVE  OneTitle'
  BY DEF OneTitle, OneTitleKept, Names

LEMMA StepKeepsTitles ==
  ASSUME TypeInv, OneTitle, Next
  PROVE  OneTitle'
<1>0. TypeOK
  BY DEF TypeInv
<1>1. ASSUME NEW k \in Tasks, Quiet,
             UNCHANGED task \/ \E t : Moves(k, t) /\ Good(t) /\ Start(t)
      PROVE  OneTitle'
  <2>1. UNCHANGED <<row, twins>> /\ Here' = Here /\ RowsStay
    BY <1>0, <1>1, SameRows DEF Quiet, Data, World
  <2>2. CASE UNCHANGED task
    BY <2>1, <2>2 DEF OneTitle, OfOne, Names
  <2>3. CASE \E t : Moves(k, t) /\ Good(t) /\ Start(t)
    <3>1. PICK t : Moves(k, t) /\ Good(t) /\ Start(t)
      BY <2>3
    <3>2. ~twins /\ t.pc \in {"write", "ids"} /\ t.on \in Here => row[t.on].name = t.work
      BY <3>1, StoreAssumption DEF Start, OneTitle, OfOne
    <3> QED BY <2>1, <3>1, <3>2, TitlesStay
  <2> QED BY <1>1, <2>2, <2>3
<1>2. ASSUME NEW k \in Tasks, UNCHANGED phase, Details(k)
      PROVE  OneTitle'
  <2>1. twins' = twins /\ task[k].pc = "details"
    BY <1>2, DetailsDoes DEF Typed
  <2>2. CASE Stops(k) /\ UNCHANGED <<row, cast>>
    BY <1>0, <2>1, <2>2, StoppedSendsNothing, SameRows, TitlesStay
  <2>3. CASE \E t : Moves(k, t) /\ Good(t) /\ t.pc = "forget" /\ t.ids \subseteq Here /\ DeleteRows(t.ids)
    <3>1. PICK t : Moves(k, t) /\ Good(t) /\ t.pc = "forget" /\ DeleteRows(t.ids)
      BY <2>3
    <3>2. Here' = Here \ t.ids /\ RowsStay
      BY <1>0, <3>1, Deleted
    <3> QED BY <2>1, <3>1, <3>2, TitlesStay
  <2>4. CASE /\ UNCHANGED <<row, cast>>
             /\ \E t : /\ Moves(k, t) /\ Good(t) /\ t.pc = "write" /\ t.work = task[k].work
                       /\ \/ t.on = None
                          \/ t.on \in WithTmdb(t.work) \/ t.on \in WithImdb(t.work)
                          \/ t.on \in Titled(t.work)
    <3>1. PICK t : /\ Moves(k, t) /\ Good(t) /\ t.pc = "write" /\ t.work = task[k].work
                   /\ \/ t.on = None
                      \/ t.on \in WithTmdb(t.work) \/ t.on \in WithImdb(t.work)
                      \/ t.on \in Titled(t.work)
      BY <2>4
    <3>2. t.work \in Works
      BY <3>1 DEF Good
    <3>3. ~twins /\ t.on \in Here => row[t.on].name = t.work
      <4>1. t.on \notin Here \/ t.on # None
        BY NoneAssumption DEF Here
      <4> QED BY <3>1, <3>2, <4>1, StoreAssumption
             DEF OneTitle, OfOne, WithTmdb, WithImdb, Titled, SameName
    <3> QED BY <1>0, <2>1, <2>4, <3>1, <3>3, SameRows, TitlesStay
  <2> QED BY <1>2, <2>2, <2>3, <2>4, DetailsDoes
<1>3. ASSUME NEW k \in Tasks, UNCHANGED phase, Update(k)
      PROVE  OneTitle'
  <2> DEFINE r == task[k].on
  <2>1. twins' = twins /\ task[k].pc = "write" /\ task[k] \in TaskRecords
    BY <1>0, <1>3, UpdateDoes DEF Typed, TypeOK
  <2>2. CASE Stops(k) /\ UNCHANGED <<row, cast>>
    BY <1>0, <2>1, <2>2, StoppedSendsNothing, SameRows, TitlesStay
  <2>3. CASE /\ Moves(k, [task[k] EXCEPT !.pc = "fill"]) /\ Good([task[k] EXCEPT !.pc = "fill"])
             /\ Here' = Here /\ \A q \in Here \ {r} : row'[q] = row[q]
             /\ r \in Here => row'[r] = [tmdb |-> Keep(Tmdb(k), row[r].tmdb), name |-> task[k].work,
                                         imdb |-> Keep(Imdb(k), row[r].imdb), kind |-> "series"]
    <3>1. [task[k] EXCEPT !.pc = "fill"].pc = "fill"
      BY <2>1 DEF TaskRecords
    <3>2. ~twins /\ r \in Here => OfOne(row[r]) /\ row[r].name = task[k].work
      BY <2>1 DEF OneTitle, Names
    <3>3. ~twins /\ r \in Here => OfOne(row'[r]) /\ row'[r].name = row[r].name
      BY <2>3, <3>2 DEF OfOne, Keep, Tmdb, Imdb
    <3>4. \A q \in Here \ {r} : row'[q].name = row[q].name /\ (OfOne(row[q]) => OfOne(row'[q]))
      BY <2>3 DEF OfOne
    <3>5. ~twins => OneTitleKept
      BY <2>3, <3>3, <3>4 DEF OneTitle, OneTitleKept
    <3> QED BY <2>1, <2>3, <3>1, <3>5, TitlesKept
  <2> QED BY <1>3, <2>2, <2>3, UpdateDoes
<1>4. ASSUME NEW k \in Tasks, UNCHANGED phase, Insert(k)
      PROVE  OneTitle'
  <2>1. twins' = twins /\ task[k].pc = "write"
    BY <1>4, InsertDoes DEF Typed
  <2>2. CASE Stops(k) /\ UNCHANGED <<row, torn, missed>>
    BY <1>0, <2>1, <2>2, StoppedSendsNothing, SameRows, TitlesStay
  <2>3. CASE ~(Stops(k) /\ UNCHANGED <<row, torn, missed>>)
    <3>1. PICK r \in NewId : \E t :
                 /\ AddRow(r, Tmdb(k), Imdb(k), task[k].work)
                 /\ Tmdb(k) \in {None, task[k].work} /\ Imdb(k) \in {None, task[k].work}
                 /\ task[k].work \in Works
                 /\ Moves(k, t) /\ Good(t) /\ t.pc = "fill"
      BY <1>4, <2>3, InsertDoes
    <3>2. PICK t : Moves(k, t) /\ Good(t) /\ t.pc = "fill"
      BY <3>1
    <3>3. /\ Here' = Here \cup {r} /\ RowsStay /\ \A j \in Tasks : task[j].on # r
          /\ row'[r] = [tmdb |-> Tmdb(k), imdb |-> Imdb(k), name |-> task[k].work, kind |-> "series"]
      BY <1>0, <3>1, Added
    <3>4. OfOne(row'[r])
      BY <3>1, <3>3 DEF OfOne
    <3>5. \A q \in Here : row'[q] = row[q] /\ (OfOne(row[q]) => OfOne(row'[q]))
      BY <3>3 DEF RowsStay, OfOne
    <3>6. ~twins => OneTitleKept
      BY <3>3, <3>4, <3>5 DEF OneTitle, OneTitleKept
    <3> QED BY <2>1, <3>2, <3>3, <3>6, TitlesKept
  <2> QED BY <2>2, <2>3
<1>5. ASSUME NEW k \in Tasks, UNCHANGED phase, Fill(k)
      PROVE  OneTitle'
  <2>1. twins' = twins /\ task[k] \in TaskRecords
    BY <1>0, <1>5, FillDoes DEF Typed, TypeOK
  <2>2. CASE Stops(k) /\ UNCHANGED <<row, cast>>
    BY <1>0, <2>1, <2>2, StoppedSendsNothing, SameRows, TitlesStay
  <2>3. CASE Drops(k, {task[k].on})
    <3>1. PICK t : Moves(k, t) /\ Good(t) /\ t.pc = "forget" /\ DeleteRows(t.ids)
      BY <2>3 DEF Drops
    <3>2. Here' = Here \ t.ids /\ RowsStay
      BY <1>0, <3>1, Deleted
    <3> QED BY <2>1, <3>1, <3>2, TitlesStay
  <2>4. CASE /\ UNCHANGED row /\ Moves(k, [task[k] EXCEPT !.pc = "reread"])
             /\ Good([task[k] EXCEPT !.pc = "reread"])
    <3>1. [task[k] EXCEPT !.pc = "reread"].pc = "reread"
      BY <2>1 DEF TaskRecords
    <3> QED BY <1>0, <2>1, <2>4, <3>1, SameRows, TitlesStay
  <2> QED BY <1>5, <2>2, <2>3, <2>4, FillDoes
<1>6. ASSUME NEW k \in Tasks, UNCHANGED phase, Reread(k)
      PROVE  OneTitle'
  <2>1. twins' = twins /\ UNCHANGED row /\ Here' = Here /\ RowsStay /\ task[k] \in TaskRecords
    BY <1>0, <1>6, RereadDoes, SameRows DEF Typed, TypeOK
  <2>2. CASE Stops(k)
    BY <2>1, <2>2, StoppedSendsNothing, TitlesStay
  <2>3. CASE Moves(k, [task[k] EXCEPT !.pc = "index"]) /\ Good([task[k] EXCEPT !.pc = "index"])
    <3>1. [task[k] EXCEPT !.pc = "index"].pc = "index"
      BY <2>1 DEF TaskRecords
    <3> QED BY <2>1, <2>3, <3>1, TitlesStay
  <2> QED BY <1>6, <2>2, <2>3, RereadDoes
<1>7. ASSUME NEW k \in Tasks, UNCHANGED phase, Index(k) \/ Batch(k) \/ Requeue(k) \/ Forget(k)
      PROVE  OneTitle'
  <2>1. twins' = twins /\ row' = row /\ Stops(k)
    BY <1>7, SendersDo, RequeueDoes, ForgetDoes DEF Typed
  <2> QED BY <1>0, <2>1, StoppedSendsNothing, SameRows, TitlesStay
<1>8. ASSUME NEW k \in Tasks, UNCHANGED phase, GotIds(k)
      PROVE  OneTitle'
  <2> DEFINE r == task[k].on
  <2>1. twins' = twins /\ task[k].pc = "ids" /\ Stops(k)
    BY <1>8, GotIdsDoes DEF Typed
  <2>2. CASE UNCHANGED row
    BY <1>0, <2>1, <2>2, StoppedSendsNothing, SameRows, TitlesStay
  <2>3. CASE /\ r \in Here /\ Here' = Here /\ \A q \in Here \ {r} : row'[q] = row[q]
             /\ row'[r] = [row[r] EXCEPT !.imdb = task[k].work]
    <3>1. PICK t : Moves(k, t) /\ Good(t) /\ t.pc \notin {"write", "ids"}
      BY <2>1, StoppedSendsNothing
    <3>2. /\ row'[r].name = row[r].name /\ row'[r].tmdb = row[r].tmdb
          /\ row'[r].imdb = task[k].work
      BY <1>0, <2>3, RowFields DEF TitleRecords
    <3>3. ~twins => OfOne(row'[r])
      BY <2>1, <2>3, <3>2 DEF OneTitle, Names, OfOne
    <3>4. \A q \in Here \ {r} : row'[q].name = row[q].name /\ (OfOne(row[q]) => OfOne(row'[q]))
      BY <2>3 DEF OfOne
    <3>5. ~twins => OneTitleKept
      BY <2>3, <3>2, <3>3, <3>4 DEF OneTitle, OneTitleKept
    <3> QED BY <2>1, <2>3, <3>1, <3>5, TitlesKept
  <2> QED BY <1>8, <2>2, <2>3, GotIdsDoes
<1>9. ASSUME NEW k \in Tasks, UNCHANGED phase, Keywords(k)
      PROVE  OneTitle'
  <2>1. twins' = twins
    BY <1>9, KeywordsDoes DEF Typed
  <2>2. CASE Stops(k) /\ UNCHANGED <<row, cast>>
    BY <1>0, <2>1, <2>2, StoppedSendsNothing, SameRows, TitlesStay
  <2>3. CASE Drops(k, {task[k].on})
    <3>1. PICK t : Moves(k, t) /\ Good(t) /\ t.pc = "forget" /\ DeleteRows(t.ids)
      BY <2>3 DEF Drops
    <3>2. Here' = Here \ t.ids /\ RowsStay
      BY <1>0, <3>1, Deleted
    <3> QED BY <2>1, <3>1, <3>2, TitlesStay
  <2> QED BY <1>9, <2>2, <2>3, KeywordsDoes
<1>10. ASSUME NEW k \in Tasks, Delete(k)
       PROVE  OneTitle'
  <2>1. twins' = twins
    BY <1>10, DeleteDoes DEF Typed
  <2>2. PICK t : Moves(k, t) /\ Good(t) /\ t.pc = "forget" /\ DeleteRows(t.ids)
    BY <1>10, DeleteDoes DEF Drops
  <2>3. Here' = Here \ t.ids /\ RowsStay
    BY <1>0, <2>2, Deleted
  <2> QED BY <2>1, <2>2, <2>3, TitlesStay
<1>11. ASSUME NEW k \in Tasks, Fails(k) \/ HangUp(k)
       PROVE  OneTitle'
  <2>1. twins' = twins /\ row' = row /\ Stops(k)
    BY <1>11, CutsDo DEF Typed
  <2> QED BY <1>0, <2>1, StoppedSendsNothing, SameRows, TitlesStay
<1>12. CASE Create
  <2>1. PICK r \in NewId, w \in Works : AddRow(r, None, None, w)
    BY <1>12, CreateDoes
  <2>2. twins' = twins /\ task' = task
    BY <1>12, CreateDoes DEF Typed
  <2>3. /\ Here' = Here \cup {r} /\ RowsStay /\ \A j \in Tasks : task[j].on # r
        /\ row'[r] = [tmdb |-> None, imdb |-> None, name |-> w, kind |-> "series"]
    BY <1>0, <2>1, Added
  <2>4. OfOne(row'[r]) /\ \A q \in Here : row'[q] = row[q] /\ (OfOne(row[q]) => OfOne(row'[q]))
    BY <2>3 DEF OfOne, RowsStay
  <2>5. ~twins => OneTitleKept
    BY <2>3, <2>4 DEF OneTitle, OneTitleKept
  <2> QED BY <2>2, <2>3, <2>5, TitlesSame
<1>13. ASSUME NEW r \in Here, Retype(r)
       PROVE  OneTitle'
  <2>1. /\ twins' = twins /\ task' = task /\ Here' = Here /\ \A q \in Here \ {r} : row'[q] = row[q]
        /\ row'[r] = [row[r] EXCEPT !.kind = "anime"]
    BY <1>13, RetypeDoes DEF Typed
  <2>2. row'[r].name = row[r].name /\ row'[r].tmdb = row[r].tmdb /\ row'[r].imdb = row[r].imdb
    BY <1>0, <2>1, RowFields DEF TitleRecords
  <2>3. \A q \in Here : row'[q].name = row[q].name /\ (OfOne(row[q]) => OfOne(row'[q]))
    BY <2>1, <2>2 DEF OfOne
  <2>4. ~twins => OneTitleKept
    BY <2>1, <2>3 DEF OneTitle, OneTitleKept
  <2> QED BY <2>1, <2>4, TitlesSame
<1>14. CASE TmdbChanges
  <2>1. twins' = twins /\ task' = task /\ row' = row
    BY <1>14, TmdbChangesDoes DEF Typed
  <2> QED BY <1>0, <2>1, SameRows DEF OneTitle, OfOne, Names
<1>15. CASE Restart
  <2>1. twins' = twins /\ row' = row /\ task' = [k \in Tasks |-> Idle]
    BY <1>15, RestartDoes DEF Typed
  <2>2. \A k \in Tasks : task'[k].pc = "off"
    BY <2>1, IdleIsGood
  <2> QED BY <1>0, <2>1, <2>2, SameRows DEF OneTitle, OfOne, Names
<1>16. CASE Dated
  BY <1>0, <1>16, SameRows DEF Dated, OneTitle, OfOne, Names
<1> QED BY NextIs, <1>1, <1>2, <1>3, <1>4, <1>5, <1>6, <1>7, <1>8, <1>9, <1>10, <1>11,
           <1>12, <1>13, <1>14, <1>15, <1>16

----------------------------------------------------------------------------
(* The credits of a row *)

\* A task with this record has cleared the credits of the row and has yet to insert them.
Filler(t, r) == t.pc = "fill" /\ t.on = r /\ t.how # "omdb"

\* A row that is not torn has one such task and no credits, or none and, once it has a TMDB id,
\* the credits of one download. Row ids that are free have none.
CountedAt(r) ==
  /\ r \notin Here => cast[r] = 0
  /\ r \in Here \ torn =>
       /\ \A i, j \in Tasks : Filler(task[i], r) /\ Filler(task[j], r) => i = j
       /\ (\E j \in Tasks : Filler(task[j], r)) => cast[r] = 0
       /\ (\A j \in Tasks : ~Filler(task[j], r)) /\ row[r].tmdb # None => cast[r] = 1

Counted == \A r \in Rows : CountedAt(r)

\* A task's step that leaves a row alone keeps its credits counted.
LEMMA CountedKeptAt ==
  ASSUME TypeInv, Counted, NEW k \in Tasks, NEW t, Moves(k, t), Good(t), NEW r \in Rows,
         r \notin Here' => cast'[r] = 0,
         r \in Here' => r \in Here /\ row'[r].tmdb = row[r].tmdb /\ cast'[r] = cast[r],
         r \in torn => r \in torn' \/ r \notin Here',
         ~Filler(t, r), Filler(task[k], r) => r \in torn' \/ r \notin Here'
  PROVE  CountedAt(r)'
<1>1. task'[k] = t /\ \A j \in Tasks \ {k} : task'[j] = task[j]
  BY MovesKeepsTasks
<1>2. CASE r \notin Here'
  BY <1>2 DEF CountedAt
<1>3. CASE r \in Here' /\ r \in torn'
  BY <1>3 DEF CountedAt
<1>4. CASE r \in Here' /\ r \notin torn'
  <2>1. \A j \in Tasks : Filler(task'[j], r) <=> Filler(task[j], r)
    BY <1>1, <1>4
  <2>2. /\ \A i, j \in Tasks : Filler(task[i], r) /\ Filler(task[j], r) => i = j
        /\ (\E j \in Tasks : Filler(task[j], r)) => cast[r] = 0
        /\ (\A j \in Tasks : ~Filler(task[j], r)) /\ row[r].tmdb # None => cast[r] = 1
    BY <1>4 DEF Counted, CountedAt
  <2>3. /\ \A i, j \in Tasks : Filler(task'[i], r) /\ Filler(task'[j], r) => i = j
        /\ (\E j \in Tasks : Filler(task'[j], r)) => cast'[r] = 0
        /\ (\A j \in Tasks : ~Filler(task'[j], r)) /\ row'[r].tmdb # None => cast'[r] = 1
    BY <1>4, <2>1, <2>2
  <2> QED BY <1>4, <2>3 DEF CountedAt, Filler
<1> QED BY <1>2, <1>3, <1>4

LEMMA CountedKept ==
  ASSUME TypeInv, Counted, NEW k \in Tasks, NEW t, Moves(k, t), Good(t), t.pc # "fill",
         Here' \subseteq Here, \A r \in Here' : row'[r].tmdb = row[r].tmdb /\ cast'[r] = cast[r],
         \A r \in Rows \ Here' : cast'[r] = 0, torn \subseteq torn',
         \A r \in Here' : Filler(task[k], r) => r \in torn'
  PROVE  Counted'
<1>1. ASSUME NEW r \in Rows
      PROVE  CountedAt(r)'
  BY CountedKeptAt DEF Filler
<1>2. Rows' = Rows
  BY DEF Rows
<1> QED BY <1>1, <1>2 DEF Counted

\* When the rows and their credits stay, it is enough that the task was not filling in.
LEMMA CountedStays ==
  ASSUME TypeInv, Counted, NEW k \in Tasks, NEW t, Moves(k, t), Good(t), t.pc # "fill",
         UNCHANGED <<row, cast>>, torn \subseteq torn',
         \A r \in Here : Filler(task[k], r) => r \in torn'
  PROVE  Counted'
<1>1. Here' = Here
  BY DEF Here
<1>2. \A r \in Rows \ Here' : cast'[r] = 0
  BY <1>1 DEF Counted, CountedAt
<1> QED BY <1>1, <1>2, CountedKept

LEMMA CountedDropped ==
  ASSUME TypeInv, Counted, NEW k \in Tasks, NEW t, Moves(k, t), Good(t), t.pc # "fill",
         DeleteRows(t.ids), torn' = torn,
         \A r \in Here : Filler(task[k], r) => r \in t.ids
  PROVE  Counted'
<1>1. /\ Here' = Here \ t.ids /\ RowsStay
      /\ \A r \in Rows : cast'[r] = IF r \in t.ids THEN 0 ELSE cast[r]
  BY Deleted DEF TypeInv
<1>2. \A r \in Rows \ Here' : cast'[r] = 0
  BY <1>1 DEF Counted, CountedAt
<1>3. \A r \in Here' : row'[r].tmdb = row[r].tmdb /\ cast'[r] = cast[r]
  BY <1>1 DEF RowsStay, Here
<1> QED BY <1>1, <1>2, <1>3, CountedKept

LEMMA StepKeepsCounted ==
  ASSUME TypeInv, Counted, Next
  PROVE  Counted'
<1>0. TypeOK /\ Rows' = Rows
  BY DEF TypeInv, Rows
<1>1. ASSUME NEW k \in Tasks, Quiet, Ready(k),
             UNCHANGED task \/ \E t : Moves(k, t) /\ Good(t) /\ Start(t)
      PROVE  Counted'
  <2>1. UNCHANGED <<row, cast, torn>> /\ task[k].pc = "off" /\ Here' = Here
    BY <1>0, <1>1, SameRows DEF Quiet, Data, History, Ready
  <2>2. CASE UNCHANGED task
    BY <1>0, <2>1, <2>2 DEF Counted, CountedAt, Filler
  <2>3. CASE \E t : Moves(k, t) /\ Good(t) /\ Start(t)
    BY <2>1, <2>3, CountedStays DEF Start, Filler
  <2> QED BY <1>1, <2>2, <2>3
<1>2. ASSUME NEW k \in Tasks, UNCHANGED phase, Details(k)
      PROVE  Counted'
  <2>1. torn' = torn /\ task[k].pc = "details"
    BY <1>2, DetailsDoes
  <2>2. CASE Stops(k) /\ UNCHANGED <<row, cast>>
    BY <2>1, <2>2, StoppedSendsNothing, CountedStays DEF Filler
  <2>3. CASE \E t : Moves(k, t) /\ Good(t) /\ t.pc = "forget" /\ t.ids \subseteq Here /\ DeleteRows(t.ids)
    BY <2>1, <2>3, CountedDropped DEF Filler
  <2>4. CASE UNCHANGED <<row, cast>> /\ \E t : Moves(k, t) /\ Good(t) /\ t.pc = "write"
    BY <2>1, <2>4, CountedStays DEF Filler
  <2> QED BY <1>2, <2>2, <2>3, <2>4, DetailsDoes
<1>3. ASSUME NEW k \in Tasks, UNCHANGED phase, Update(k)
      PROVE  Counted'
  <2>1. PICK r \in Rows : r = task[k].on
    BY <1>3, UpdateDoes
  <2>2. task[k].pc = "write" /\ task[k] \in TaskRecords
    BY <1>0, <1>3, UpdateDoes DEF TypeOK
  <2>3. CASE Stops(k) /\ UNCHANGED <<row, cast, torn>>
    BY <2>2, <2>3, StoppedSendsNothing, CountedStays DEF Filler
  <2>4. CASE ~(Stops(k) /\ UNCHANGED <<row, cast, torn>>)
    <3> DEFINE t == [task[k] EXCEPT !.pc = "fill"]
    <3>1. /\ Moves(k, t) /\ Good(t) /\ Cleared(k)
          /\ Here' = Here /\ \A q \in Here \ {r} : row'[q] = row[q]
          /\ r \in Here => row'[r] = [tmdb |-> Keep(Tmdb(k), row[r].tmdb), name |-> task[k].work,
                                      imdb |-> Keep(Imdb(k), row[r].imdb), kind |-> "series"]
      BY <1>3, <2>1, <2>4, UpdateDoes
    <3>2. t.pc = "fill" /\ t.on = r /\ t.how = task[k].how
      BY <2>1, <2>2 DEF TaskRecords
    <3> HIDE DEF t
    <3>3. task'[k] = t /\ \A j \in Tasks \ {k} : task'[j] = task[j]
      BY <3>1, MovesKeepsTasks
    <3>4. \A q \in Rows : ~Filler(task[k], q)
      BY <2>2 DEF Filler
    <3>5. \A q \in Rows \ Here' : cast'[q] = 0
      <4>1. \A q \in Rows \ Here : cast[q] = 0
        BY DEF Counted, CountedAt
      <4> QED BY <1>0, <2>1, <3>1, <4>1 DEF Cleared, TypeOK
    <3>6. ASSUME NEW q \in Rows, q # r
          PROVE  CountedAt(q)'
      <4>1. cast'[q] = cast[q] /\ (q \in torn <=> q \in torn')
        BY <1>0, <2>1, <3>1, <3>6 DEF Cleared, TypeOK
      <4>2. ~Filler(t, q)
        BY <3>2, <3>6 DEF Filler
      <4> QED BY <3>1, <3>4, <3>5, <3>6, <4>1, <4>2, CountedKeptAt
    <3>7. CASE task[k].how = "omdb"
      <4>1. cast' = cast /\ torn' = torn
        BY <3>1, <3>7 DEF Cleared
      <4>2. r \in Here => row'[r].tmdb = row[r].tmdb
        BY <3>1, <3>7 DEF Keep, Tmdb
      <4>3. ~Filler(t, r)
        BY <3>2, <3>7 DEF Filler
      <4>4. CountedAt(r)'
        BY <3>1, <3>4, <3>5, <4>1, <4>2, <4>3, CountedKeptAt
      <4> QED BY <1>0, <3>6, <4>4 DEF Counted
    <3>8. CASE task[k].how # "omdb"
      <4>1. cast'[r] = 0 /\ (r \notin torn' => Others(k) = {})
        BY <1>0, <2>1, <3>1, <3>8 DEF Cleared, TypeOK
      <4>2. Filler(t, r)
        BY <3>2, <3>8 DEF Filler
      <4>3. r \notin torn' => \A j \in Tasks \ {k} : ~Filler(task'[j], r)
        BY <2>1, <3>3, <4>1 DEF Others, Filler
      <4>4. CountedAt(r)'
        BY <3>3, <4>1, <4>2, <4>3 DEF CountedAt, Filler
      <4> QED BY <1>0, <3>6, <4>4 DEF Counted
    <3> QED BY <3>7, <3>8
  <2> QED BY <2>3, <2>4
<1>4. ASSUME NEW k \in Tasks, UNCHANGED phase, Insert(k)
      PROVE  Counted'
  <2>1. task[k].pc = "write" /\ cast' = cast
    BY <1>4, InsertDoes
  <2>2. CASE Stops(k) /\ UNCHANGED <<row, torn, missed>>
    BY <2>1, <2>2, StoppedSendsNothing, CountedStays DEF Filler
  <2>3. CASE ~(Stops(k) /\ UNCHANGED <<row, torn, missed>>)
    <3>1. PICK r \in NewId : \E t :
                 /\ AddRow(r, Tmdb(k), Imdb(k), task[k].work)
                 /\ Tmdb(k) \in {None, task[k].work} /\ Imdb(k) \in {None, task[k].work}
                 /\ task[k].work \in Works
                 /\ Moves(k, t) /\ Good(t) /\ t.pc = "fill" /\ t.on = r /\ t.how = task[k].how
      BY <1>4, <2>3, InsertDoes
    <3>2. PICK t : Moves(k, t) /\ Good(t) /\ t.pc = "fill" /\ t.on = r /\ t.how = task[k].how
      BY <3>1
    <3>3. /\ Here' = Here \cup {r} /\ RowsStay /\ \A j \in Tasks : task[j].on # r
          /\ row'[r] = [tmdb |-> Tmdb(k), imdb |-> Imdb(k), name |-> task[k].work, kind |-> "series"]
          /\ torn' = torn \ {r} /\ r \notin Here /\ r \in Rows
      BY <1>0, <3>1, Added
    <3>4. task'[k] = t /\ \A j \in Tasks \ {k} : task'[j] = task[j]
      BY <3>2, MovesKeepsTasks
    <3>5. ASSUME NEW q \in Rows, q # r
          PROVE  CountedAt(q)'
      <4>1. ~Filler(t, q) /\ ~Filler(task[k], q)
        BY <2>1, <3>2, <3>5 DEF Filler
      <4>2. q \notin Here' => cast'[q] = 0
        BY <2>1, <3>3 DEF Counted, CountedAt
      <4>3. q \in Here' => q \in Here /\ row'[q].tmdb = row[q].tmdb /\ cast'[q] = cast[q]
        BY <2>1, <3>3, <3>5 DEF RowsStay
      <4> QED BY <3>2, <3>3, <3>5, <4>1, <4>2, <4>3, CountedKeptAt
    <3>6. CountedAt(r)'
      <4>1. cast'[r] = 0
        BY <2>1, <3>3 DEF Counted, CountedAt
      <4>2. \A j \in Tasks \ {k} : ~Filler(task'[j], r)
        BY <3>3, <3>4 DEF Filler
      <4>3. Filler(task'[k], r) \/ row'[r].tmdb = None
        BY <3>2, <3>3, <3>4 DEF Filler, Tmdb
      <4> QED BY <3>3, <4>1, <4>2, <4>3 DEF CountedAt, Filler
    <3> QED BY <1>0, <3>5, <3>6 DEF Counted
  <2> QED BY <2>2, <2>3
<1>5. ASSUME NEW k \in Tasks, UNCHANGED phase, Fill(k)
      PROVE  Counted'
  <2>1. PICK r \in Rows : r = task[k].on
    BY <1>5, FillDoes
  <2>2. task[k].pc = "fill" /\ task[k] \in TaskRecords /\ torn' = torn
    BY <1>0, <1>5, FillDoes DEF TypeOK
  <2>3. CASE Stops(k) /\ r \notin Here /\ UNCHANGED <<row, cast>>
    BY <2>1, <2>2, <2>3, StoppedSendsNothing, CountedStays DEF Filler
  <2>4. CASE Drops(k, {r})
    <3>1. PICK t : Moves(k, t) /\ Good(t) /\ t.pc = "forget" /\ DeleteRows(t.ids) /\ t.ids = {r}
      BY <2>4 DEF Drops
    <3> QED BY <2>1, <2>2, <3>1, CountedDropped DEF Filler
  <2>5. CASE ~(Stops(k) /\ r \notin Here /\ UNCHANGED <<row, cast>>) /\ ~Drops(k, {r})
    <3> DEFINE t == [task[k] EXCEPT !.pc = "reread"]
    <3>1. /\ row' = row /\ r \in Here /\ Moves(k, t) /\ Good(t)
          /\ cast' = IF task[k].how = "omdb" THEN cast ELSE [cast EXCEPT ![r] = @ + 1]
      BY <1>5, <2>1, <2>5, FillDoes
    <3>2. t.pc = "reread"
      BY <2>2 DEF TaskRecords
    <3> HIDE DEF t
    <3>3. Here' = Here
      BY <1>0, <3>1, SameRows
    <3>4. CASE task[k].how = "omdb"
      BY <2>2, <3>1, <3>2, <3>4, CountedStays DEF Filler
    <3>5. CASE task[k].how # "omdb"
      <4>1. task'[k] = t /\ \A j \in Tasks \ {k} : task'[j] = task[j]
        BY <3>1, MovesKeepsTasks
      <4>2. ASSUME NEW q \in Rows, q # r
            PROVE  CountedAt(q)'
        <5>1. cast'[q] = cast[q] /\ ~Filler(t, q) /\ ~Filler(task[k], q)
          BY <1>0, <2>1, <3>1, <3>2, <3>5, <4>2 DEF Filler, TypeOK
        <5>2. q \notin Here' => cast'[q] = 0
          BY <3>3, <5>1 DEF Counted, CountedAt
        <5> QED BY <2>2, <3>1, <3>3, <5>1, <5>2, CountedKeptAt
      <4>3. CountedAt(r)'
        <5>1. CASE r \in torn
          BY <2>2, <3>1, <3>3, <5>1 DEF CountedAt
        <5>2. CASE r \notin torn
          <6>1. Filler(task[k], r) /\ ~Filler(t, r)
            BY <2>1, <2>2, <3>2, <3>5 DEF Filler
          <6>2. cast[r] = 0 /\ \A j \in Tasks \ {k} : ~Filler(task[j], r)
            BY <3>1, <5>2, <6>1 DEF Counted, CountedAt
          <6>3. cast'[r] = 1
            BY <1>0, <3>1, <3>5, <6>2 DEF TypeOK
          <6>4. \A j \in Tasks : ~Filler(task'[j], r)
            BY <4>1, <6>1, <6>2
          <6> QED BY <3>1, <3>3, <6>3, <6>4 DEF CountedAt, Filler
        <5> QED BY <5>1, <5>2
      <4> QED BY <1>0, <4>2, <4>3 DEF Counted
    <3> QED BY <3>4, <3>5
  <2> QED BY <2>3, <2>4, <2>5
<1>6. ASSUME NEW k \in Tasks, UNCHANGED phase, Reread(k)
      PROVE  Counted'
  <2>1. UNCHANGED <<row, cast, torn>> /\ task[k].pc = "reread" /\ task[k] \in TaskRecords
    BY <1>0, <1>6, RereadDoes DEF TypeOK
  <2>2. CASE Stops(k)
    BY <2>1, <2>2, StoppedSendsNothing, CountedStays DEF Filler
  <2>3. CASE Moves(k, [task[k] EXCEPT !.pc = "index"]) /\ Good([task[k] EXCEPT !.pc = "index"])
    <3>1. [task[k] EXCEPT !.pc = "index"].pc = "index"
      BY <2>1 DEF TaskRecords
    <3> QED BY <2>1, <2>3, <3>1, CountedStays DEF Filler
  <2> QED BY <1>6, <2>2, <2>3, RereadDoes
<1>7. ASSUME NEW k \in Tasks, UNCHANGED phase, Index(k) \/ Batch(k) \/ Requeue(k) \/ Forget(k)
      PROVE  Counted'
  <2>1. UNCHANGED <<row, cast, torn>> /\ Stops(k) /\ task[k].pc # "fill"
    BY <1>7, SendersDo, RequeueDoes, ForgetDoes
  <2> QED BY <2>1, StoppedSendsNothing, CountedStays DEF Filler
<1>8. ASSUME NEW k \in Tasks, UNCHANGED phase, GotIds(k)
      PROVE  Counted'
  <2>1. PICK r : r = task[k].on
    OBVIOUS
  <2>2. task[k].pc = "ids" /\ Stops(k) /\ UNCHANGED <<cast, torn>>
    BY <1>8, GotIdsDoes
  <2>3. PICK t : Moves(k, t) /\ Good(t) /\ t.pc # "fill"
    BY <2>2, StoppedSendsNothing
  <2>4. CASE UNCHANGED row
    BY <2>2, <2>3, <2>4, CountedStays DEF Filler
  <2>5. CASE /\ r \in Here /\ Here' = Here /\ \A q \in Here \ {r} : row'[q] = row[q]
             /\ row'[r] = [row[r] EXCEPT !.imdb = task[k].work]
    <3>1. row'[r].tmdb = row[r].tmdb
      BY <1>0, <2>5, RowFields DEF TitleRecords
    <3>2. \A q \in Rows \ Here' : cast'[q] = 0
      BY <2>2, <2>5 DEF Counted, CountedAt
    <3> QED BY <2>2, <2>3, <2>5, <3>1, <3>2, CountedKept DEF Filler
  <2> QED BY <1>8, <2>1, <2>4, <2>5, GotIdsDoes
<1>9. ASSUME NEW k \in Tasks, UNCHANGED phase, Keywords(k)
      PROVE  Counted'
  <2>1. torn' = torn /\ task[k].pc = "check"
    BY <1>9, KeywordsDoes
  <2>2. CASE Stops(k) /\ UNCHANGED <<row, cast>>
    BY <2>1, <2>2, StoppedSendsNothing, CountedStays DEF Filler
  <2>3. CASE Drops(k, {task[k].on})
    BY <2>1, <2>3, CountedDropped DEF Drops, Filler
  <2> QED BY <1>9, <2>2, <2>3, KeywordsDoes
<1>10. ASSUME NEW k \in Tasks, Delete(k)
       PROVE  Counted'
  <2>1. torn' = torn /\ task[k].pc = "off"
    BY <1>10, DeleteDoes
  <2>2. PICK t : Moves(k, t) /\ Good(t) /\ t.pc = "forget" /\ DeleteRows(t.ids)
    BY <1>10, DeleteDoes DEF Drops
  <2> QED BY <2>1, <2>2, CountedDropped DEF Filler
<1>11. ASSUME NEW k \in Tasks, Fails(k) \/ HangUp(k)
       PROVE  Counted'
  <2>1. UNCHANGED <<row, cast>> /\ Stops(k) /\ Undone({k})
    BY <1>11, CutsDo
  <2>2. torn \subseteq torn' /\ \A r : Filler(task[k], r) => r \in torn'
    BY <2>1 DEF Undone, Filler
  <2> QED BY <2>1, <2>2, StoppedSendsNothing, CountedStays
<1>12. CASE Create
  <2>1. PICK r \in NewId, w \in Works : AddRow(r, None, None, w)
    BY <1>12, CreateDoes
  <2>2. cast' = cast /\ task' = task
    BY <1>12, CreateDoes
  <2>3. /\ Here' = Here \cup {r} /\ RowsStay /\ \A j \in Tasks : task[j].on # r
        /\ row'[r] = [tmdb |-> None, imdb |-> None, name |-> w, kind |-> "series"]
        /\ torn' = torn \ {r} /\ r \notin Here /\ r \in Rows
    BY <1>0, <2>1, Added
  <2>4. CountedAt(r)'
    BY <2>2, <2>3 DEF Counted, CountedAt, Filler
  <2>5. ASSUME NEW q \in Rows, q # r
        PROVE  CountedAt(q)'
    <3>1. (q \in Here' <=> q \in Here) /\ (q \in torn' <=> q \in torn) /\ (q \in Here => row'[q] = row[q])
      BY <2>3, <2>5 DEF RowsStay
    <3> QED BY <2>2, <3>1 DEF Counted, CountedAt, Filler
  <2> QED BY <1>0, <2>4, <2>5 DEF Counted
<1>13. ASSUME NEW r \in Here, Retype(r)
       PROVE  Counted'
  <2>1. /\ UNCHANGED <<cast, task, torn>> /\ Here' = Here /\ \A q \in Here \ {r} : row'[q] = row[q]
        /\ row'[r] = [row[r] EXCEPT !.kind = "anime"]
    BY <1>13, RetypeDoes
  <2>2. row'[r].tmdb = row[r].tmdb
    BY <1>0, <2>1, RowFields DEF TitleRecords
  <2> QED BY <1>0, <2>1, <2>2 DEF Counted, CountedAt, Filler
<1>14. CASE TmdbChanges
  BY <1>0, <1>14, TmdbChangesDoes, SameRows DEF Counted, CountedAt, Filler
<1>15. CASE Restart
  <2>1. UNCHANGED <<row, cast>> /\ Undone(Tasks) /\ task' = [k \in Tasks |-> Idle] /\ Here' = Here
    BY <1>0, <1>15, RestartDoes, SameRows
  <2>2. \A j \in Tasks, r \in Rows : ~Filler(task'[j], r)
    BY <2>1, IdleIsGood DEF Filler
  <2>3. torn \subseteq torn' /\ \A j \in Tasks, r \in Rows : Filler(task[j], r) => r \in torn'
    BY <2>1 DEF Undone, Filler
  <2> SUFFICES ASSUME NEW r \in Rows
               PROVE  CountedAt(r)'
    BY <1>0 DEF Counted
  <2>4. CASE r \in torn' \/ r \notin Here
    BY <2>1, <2>4 DEF Counted, CountedAt
  <2>5. CASE r \notin torn' /\ r \in Here
    <3>1. row[r].tmdb # None => cast[r] = 1
      BY <2>3, <2>5 DEF Counted, CountedAt
    <3> QED BY <2>1, <2>2, <2>5, <3>1 DEF CountedAt, Filler
  <2> QED BY <2>4, <2>5
<1>16. CASE Dated
  BY <1>0, <1>16, SameRows DEF Dated, Counted, CountedAt, Filler
<1> QED BY NextIs, <1>1, <1>2, <1>3, <1>4, <1>5, <1>6, <1>7, <1>8, <1>9, <1>10, <1>11,
           <1>12, <1>13, <1>14, <1>15, <1>16

----------------------------------------------------------------------------
(* The theorems *)

StoreInv == TypeInv /\ Traced /\ OneTitle /\ Counted

LEMMA StartKeepsStore ==
  ASSUME Init
  PROVE  StoreInv
<1>1. /\ row = [r \in Rows |-> None] /\ cast = [r \in Rows |-> 0] /\ docs = {} /\ phase = 1 /\ old = {}
      /\ task = [k \in Tasks |-> Idle] /\ torn = {} /\ missed = {} /\ left = MaxEvents
      /\ offer \in [Works -> [linked : BOOLEAN, blocked : {FALSE}]] /\ twins \in BOOLEAN
  BY DEF Init
<1>2. Here = {}
  BY <1>1 DEF Here
<1>3. \A k \in Tasks : task[k] = Idle
  BY <1>1
<1>4. InHand /\ task \in [Tasks -> TaskRecords]
  BY <1>1, <1>3, IdleIsGood DEF InHand
<1>5. phase \in DOMAIN Phases /\ left \in 0..MaxEvents
  BY <1>1, PhasesAre, StoreAssumption
<1>6. offer \in [Works -> [linked : BOOLEAN, blocked : BOOLEAN]]
  BY <1>1
<1>7. TypeInv
  BY <1>1, <1>4, <1>5, <1>6 DEF TypeInv, TypeOK
<1>8. Traced
  BY <1>1, <1>3, IdleIsGood DEF Traced, Sends
<1>9. OneTitle
  BY <1>2, <1>3, IdleIsGood DEF OneTitle, Names
<1>10. Counted
  BY <1>1, <1>2 DEF Counted, CountedAt
<1> QED BY <1>7, <1>8, <1>9, <1>10 DEF StoreInv

LEMMA StutterKeepsStore ==
  ASSUME StoreInv, UNCHANGED vars
  PROVE  StoreInv'
<1>1. UNCHANGED <<offer, twins, row, old, cast, docs, task, phase, torn, missed, left>>
  BY DEF vars
<1>2. Here' = Here /\ Rows' = Rows
  BY <1>1 DEF Here, Rows
<1>3. TypeInv'
  BY <1>1 DEF StoreInv, TypeInv, TypeOK, InHand
<1>4. Traced'
  BY <1>1, <1>2 DEF StoreInv, Traced, Forgetting
<1>5. OneTitle'
  BY <1>1, <1>2 DEF StoreInv, OneTitle, Names
<1>6. Counted'
  BY <1>1, <1>2 DEF StoreInv, Counted, CountedAt
<1> QED BY <1>3, <1>4, <1>5, <1>6 DEF StoreInv

LEMMA StoreInvariant == Spec => []StoreInv
<1>1. Init => StoreInv
  BY StartKeepsStore
<1>2. StoreInv /\ [Next]_vars => StoreInv'
  BY StepKeepsTypes, StepKeepsTraced, StepKeepsTitles, StepKeepsCounted, StutterKeepsStore DEF StoreInv
<1> QED BY <1>1, <1>2, PTL DEF Spec

\* Whatever the tasks do at the same time, the catalogue, the search index and the tasks keep
\* values of their types (ingest/tmdb.rs, ingest/omdb.rs, search/meilisearch.rs).
THEOREM StoreTypeCorrect == Spec => []TypeOK
<1>1. StoreInv => TypeOK
  BY DEF StoreInv, TypeInv
<1> QED BY <1>1, StoreInvariant, PTL

\* With any number of downloads, deletions, flushes and purges at once, the search finds a title
\* that is gone only while it is being deleted, or when its document overtook the deletion, or
\* the deletion in the index did not happen (forget_titles, reindex, reindex_all_titles).
THEOREM GhostsAreMissed == Spec => []GhostOnlyIfMissed
<1>1. StoreInv => GhostOnlyIfMissed
  BY DEF StoreInv, Traced, Forgetting, GhostOnlyIfMissed
<1> QED BY <1>1, StoreInvariant, PTL

\* Where titles do not share name and year, no row ever gets the TMDB id of one title and the
\* IMDb id of another, whatever tasks link it and in whatever order (upsert_title, omdb.rs,
\* backfill_missing_imdb).
THEOREM RowsAreOfOneTitle == Spec => []IdsAgree
<1>1. StoreInv => IdsAgree
  BY DEF StoreInv, OneTitle, OfOne, IdsAgree
<1> QED BY <1>1, StoreInvariant, PTL

\* However many downloads meet on a row, it has its credits once, unless two replaced them at the
\* same time or one was cut off between deleting and inserting (replace_credit_people).
THEOREM CreditsStayOnce == Spec => []CreditsOnce
<1>1. StoreInv => CreditsOnce
  <2> SUFFICES ASSUME StoreInv, NEW r \in Here, row[r].tmdb # None, r \notin torn,
                      \A k \in Tasks : ~(task[k].on = r /\ task[k].pc = "fill")
               PROVE  cast[r] = 1
    BY DEF CreditsOnce
  <2>1. CountedAt(r)
    BY DEF StoreInv, Counted, Here
  <2> QED BY <2>1 DEF CountedAt, Filler
<1> QED BY <1>1, StoreInvariant, PTL

\* Rows are of one title and have its credits once, at the same time (upsert_title,
\* replace_credit_people).
THEOREM RowsStayRight == Spec => []RowsAreRight
<1> QED BY RowsAreOfOneTitle, CreditsStayOnce, PTL DEF RowsAreRight

--------------------------------------------------------------------------------
(* CatalogPaging.                                                               *)

JobShape == [pc : {"off", "flag", "lock", "page", "fetch", "ingest", "again", "done"},
             asked : Nat, depth : Nat, at : Nat \ {0}, cap : Nat,
             got : SUBSET Titles, new : SUBSET Titles, more : BOOLEAN]
SyncShape == [pc : {"off", "list", "ingest"}, at : Nat \ {0}, ids : SUBSET Titles]

PagingShape ==
  /\ remote \in Seq(Titles)
  /\ job \in [Jobs -> JobShape] /\ sync \in SyncShape
  /\ shelf \in [Paging!List -> [total : Nat, fresh : BOOLEAN]]
  /\ seen \in [Paging!List -> SUBSET Titles]
  /\ filtered \in BOOLEAN /\ progress \in [done : Nat, total : Nat] \cup {None}
  /\ client \in [next : Nat, on : Jobs \cup {None}] /\ lock \in Jobs \cup {None}

\* Titles that are in, were turned away or are lost.
Settled == titles \cup Refused \cup lost

\* Only the titles of a page that is being stored are under way, and all of them are.
Carried(j) == /\ job[j].pc # "ingest" => job[j].new = {}
              /\ job[j].pc = "ingest" => job[j].got \subseteq Settled \cup job[j].new

PagesKept ==
  /\ \A j \in Jobs : Carried(j)
  /\ sync.pc = "off" => sync.ids = {}
  /\ \A p \in Paging!List : seen[p] \subseteq Settled \cup Paging!UnderWay

PagingInv == PagingShape /\ PagesKept

LEMMA PagingStarts == ASSUME Paging!PagingAssumption, Paging!Init PROVE PagingInv
<1>1. Paging!Off \in JobShape BY DEF Paging!Off, JobShape, Paging!PagingAssumption
<1>2. PagingShape
  BY <1>1 DEF Paging!Init, PagingShape, Paging!NoSync, SyncShape, Paging!NoRow
<1>3. PagesKept BY DEF Paging!Init, PagesKept, Carried, Paging!Off, Paging!NoSync
<1> QED BY <1>2, <1>3 DEF PagingInv

\* A job's new record, the other jobs as they were.
LEMMA SetJobShape ==
  ASSUME PagingShape, NEW j \in Jobs, NEW r \in JobShape, Paging!SetJob(j, r)
  PROVE  /\ job' \in [Jobs -> JobShape] /\ job'[j] = r
         /\ \A i \in Jobs \ {j} : job'[i] = job[i]
BY DEF PagingShape, Paging!SetJob

\* What is under way, title by title.
LEMMA NewOfSome ==
  ASSUME NEW f, NEW t
  PROVE  t \in UNION {f[j].new : j \in Jobs} <=> \E j \in Jobs : t \in f[j].new
<1> DEFINE news == {f[j].new : j \in Jobs}
<1>1. ASSUME t \in UNION news PROVE \E j \in Jobs : t \in f[j].new
  <2>1. PICK s \in news : t \in s BY <1>1
  <2>2. PICK j \in Jobs : s = f[j].new OBVIOUS
  <2> QED BY <2>1, <2>2
<1>2. ASSUME NEW j \in Jobs, t \in f[j].new PROVE t \in UNION news
  <2>1. f[j].new \in news OBVIOUS
  <2> QED BY <1>2, <2>1
<1> QED BY <1>1, <1>2

LEMMA UnderWayIs ==
  /\ \A t : t \in Paging!UnderWay <=> t \in sync.ids \/ \E j \in Jobs : t \in job[j].new
  /\ \A t : t \in Paging!UnderWay' <=> t \in sync'.ids \/ \E j \in Jobs : t \in job'[j].new
BY NewOfSome DEF Paging!UnderWay

\* What is under way stays so, but for what the job has done.
LEMMA OthersGoOn ==
  ASSUME PagingShape, NEW j \in Jobs, NEW r \in JobShape, Paging!SetJob(j, r), sync' = sync
  PROVE  /\ Paging!UnderWay \subseteq Paging!UnderWay' \cup job[j].new
         /\ r.new \subseteq Paging!UnderWay'
<1>1. job'[j] = r /\ \A i \in Jobs \ {j} : job'[i] = job[i] BY SetJobShape
<1> QED BY <1>1, UnderWayIs

\* A step of a job that stores nothing, marks nothing and has nothing to store.
LEMMA IdleStep ==
  ASSUME PagingInv, NEW j \in Jobs, NEW r \in JobShape, Paging!SetJob(j, r),
         UNCHANGED <<titles, lost, sync, seen>>,
         job[j].pc # "ingest", r.pc # "ingest", r.new = {}
  PROVE  PagesKept'
<1>1. job'[j] = r /\ \A i \in Jobs \ {j} : job'[i] = job[i] BY SetJobShape DEF PagingInv
<1>2. Paging!UnderWay \subseteq Paging!UnderWay' BY OthersGoOn DEF PagingInv, PagesKept, Carried
<1>3. Settled' = Settled BY DEF Settled
<1>4. ASSUME NEW i \in Jobs PROVE Carried(i)'
  <2>1. CASE i = j BY <1>1, <2>1 DEF Carried
  <2>2. CASE i # j BY <1>1, <1>3, <2>2 DEF Carried, PagingInv, PagesKept
  <2> QED BY <2>1, <2>2
<1> QED BY <1>2, <1>3, <1>4 DEF PagingInv, PagesKept

\* A title is stored, turned away or lost: the others stay where they are.
LEMMA SettledGrows ==
  ASSUME NEW t \in Titles,
         \/ titles' = titles \cup ({t} \ Refused) /\ lost' = lost \ {t}
         \/ titles' = titles /\ lost' = lost \cup {t}
  PROVE  Settled \cup {t} \subseteq Settled'
BY DEF Settled

LEMMA TitleKeeps ==
  ASSUME PagingInv, NEW j \in Jobs, NEW t \in Titles,
         job[j].pc = "ingest", Paging!SetJob(j, [job[j] EXCEPT !.new = @ \ {t}]),
         \/ titles' = titles \cup ({t} \ Refused) /\ lost' = lost \ {t}
         \/ titles' = titles /\ lost' = lost \cup {t},
         UNCHANGED <<sync, seen>>
  PROVE  PagesKept' /\ job' \in [Jobs -> JobShape]
<1> DEFINE r == [job[j] EXCEPT !.new = @ \ {t}]
<1>1. /\ r \in JobShape /\ r.new = job[j].new \ {t} /\ r.pc = job[j].pc /\ r.got = job[j].got
  BY DEF PagingInv, PagingShape, JobShape
<1>2. Paging!SetJob(j, r) OBVIOUS
<1> HIDE DEF r
<1>3. /\ job'[j] = r /\ \A i \in Jobs \ {j} : job'[i] = job[i]
      /\ job' \in [Jobs -> JobShape]
  BY <1>1, <1>2, SetJobShape DEF PagingInv
<1>4. Settled \cup {t} \subseteq Settled' BY SettledGrows
<1>5. Paging!UnderWay \subseteq Paging!UnderWay' \cup {t}
  <2>1. /\ Paging!UnderWay \subseteq Paging!UnderWay' \cup job[j].new
        /\ r.new \subseteq Paging!UnderWay'
    BY <1>1, <1>2, OthersGoOn DEF PagingInv
  <2> QED BY <1>1, <2>1
<1>6. ASSUME NEW i \in Jobs PROVE Carried(i)'
  <2>1. CASE i = j BY <1>1, <1>3, <1>4, <2>1 DEF Carried, PagingInv, PagesKept
  <2>2. CASE i # j BY <1>3, <1>4, <2>2 DEF Carried, PagingInv, PagesKept
  <2> QED BY <2>1, <2>2
<1> QED BY <1>3, <1>4, <1>5, <1>6 DEF PagingInv, PagesKept

\* TMDB's answer: what a page has is in already or on its way.
LEMMA FetchedKeeps ==
  ASSUME Paging!PagingAssumption, PagingInv, NEW j \in Jobs, Paging!Fetched(j)
  PROVE  PagingInv'
<1> DEFINE got == Paging!OnPage(job[j].at)
           r == [job[j] EXCEPT
                  !.pc = IF got = {} THEN "page" ELSE "ingest", !.cap = Paging!TotalPages,
                  !.at = IF got = {} THEN job[j].at + 1 ELSE job[j].at, !.got = got,
                  !.new = got \ titles]
<1>1. got \subseteq Titles
  <2>1. job[j].at \in Nat \ {0} BY DEF PagingInv, PagingShape, JobShape
  <2> QED BY <2>1 DEF Paging!OnPage, PagingInv, PagingShape
<1>2. Paging!TotalPages \in Nat BY DEF Paging!TotalPages, Paging!Smaller, Paging!Larger,
                                       PagingInv, PagingShape, Paging!PagingAssumption
<1>3. Paging!SetJob(j, r) BY DEF Paging!Fetched
<1>4. job[j] \in JobShape /\ job[j].pc = "fetch" BY DEF Paging!Fetched, PagingInv, PagingShape
<1>5. job[j].at \in Nat \ {0} /\ job[j].at + 1 \in Nat \ {0} BY <1>4 DEF JobShape
<1>6. /\ seen' \in {seen, [seen EXCEPT ![job[j].at] = got]}
      /\ UNCHANGED <<titles, lost, sync, remote, filtered, client, lock>>
  BY DEF Paging!Fetched, Paging!JobFrame
<1>7. PagingShape' /\ shelf' \in [Paging!List -> [total : Nat, fresh : BOOLEAN]]
  <2>1. shelf' \in [Paging!List -> [total : Nat, fresh : BOOLEAN]]
    <3> DEFINE n == [total |-> Paging!TotalPages, fresh |-> TRUE]
    <3>1. n \in [total : Nat, fresh : BOOLEAN] BY <1>2
    <3>2. shelf' \in {shelf, [shelf EXCEPT ![job[j].at] = n]} BY DEF Paging!Fetched
    <3> HIDE DEF n
    <3> QED BY <3>1, <3>2 DEF PagingInv, PagingShape
  <2>2. progress' \in [done : Nat, total : Nat] \cup {None}
    BY <1>2, <1>5 DEF Paging!Fetched, PagingInv, PagingShape
  <2>3. r \in JobShape BY <1>1, <1>2, <1>4, <1>5 DEF JobShape
  <2> HIDE DEF r
  <2>4. job' \in [Jobs -> JobShape] BY <1>3, <2>3, SetJobShape DEF PagingInv
  <2>5. seen' \in [Paging!List -> SUBSET Titles] BY <1>1, <1>6 DEF PagingInv, PagingShape
  <2> QED BY <1>6, <2>1, <2>2, <2>4, <2>5 DEF PagingInv, PagingShape
<1>8. /\ r \in JobShape /\ r.got = got /\ r.new = got \ titles
      /\ r.pc = IF got = {} THEN "page" ELSE "ingest"
  BY <1>1, <1>2, <1>4, <1>5 DEF JobShape
<1> HIDE DEF r
<1>9. job'[j] = r /\ \A i \in Jobs \ {j} : job'[i] = job[i]
  BY <1>3, <1>8, SetJobShape DEF PagingInv
<1>10. Settled' = Settled BY <1>6 DEF Settled
<1>11. Paging!UnderWay \subseteq Paging!UnderWay' /\ r.new \subseteq Paging!UnderWay'
  BY <1>3, <1>4, <1>6, <1>8, OthersGoOn DEF PagingInv, PagesKept, Carried
<1>12. ASSUME NEW i \in Jobs PROVE Carried(i)'
  <2>1. CASE i = j BY <1>8, <1>9, <1>10, <2>1 DEF Carried, Settled
  <2>2. CASE i # j BY <1>9, <1>10, <2>2 DEF Carried, PagingInv, PagesKept
  <2> QED BY <2>1, <2>2
<1>13. got \subseteq Settled' \cup Paging!UnderWay' BY <1>8, <1>10, <1>11 DEF Settled
<1> HIDE DEF got
<1>14. ASSUME NEW p \in Paging!List PROVE seen'[p] \subseteq Settled' \cup Paging!UnderWay'
  <2>1. seen'[p] \in {seen[p], got} BY <1>6 DEF PagingInv, PagingShape
  <2>2. seen[p] \subseteq Settled' \cup Paging!UnderWay' BY <1>10, <1>11 DEF PagingInv, PagesKept
  <2> QED BY <1>13, <2>1, <2>2
<1> QED BY <1>6, <1>7, <1>12, <1>14 DEF PagingInv, PagesKept

\* The end of a page: all its titles are in, turned away or lost.
LEMMA PageDoneKeeps ==
  ASSUME Paging!PagingAssumption, PagingInv, NEW j \in Jobs, Paging!PageDone(j)
  PROVE  PagingInv'
<1> DEFINE r == [job[j] EXCEPT !.pc = "page", !.at = job[j].at + 1, !.got = {}]
<1>1. job[j] \in JobShape /\ job[j].pc = "ingest" /\ job[j].new = {}
  BY DEF Paging!PageDone, PagingInv, PagingShape
<1>2. r \in JobShape /\ r.pc = "page" /\ r.new = {}
  <2>1. job[j].at + 1 \in Nat \ {0} BY <1>1 DEF JobShape
  <2> QED BY <1>1, <2>1 DEF JobShape
<1>3. Paging!SetJob(j, r) BY DEF Paging!PageDone
<1> HIDE DEF r
<1>4. /\ job' \in [Jobs -> JobShape] /\ job'[j] = r /\ \A i \in Jobs \ {j} : job'[i] = job[i]
  BY <1>2, <1>3, SetJobShape DEF PagingInv
<1>5. /\ UNCHANGED <<titles, lost, sync, remote, filtered, client, lock, shelf>>
      /\ seen' \in {seen, [seen EXCEPT ![job[j].at] = job[j].got]}
      /\ progress' \in {progress, [done |-> job[j].at, total |-> job[j].cap]}
  BY DEF Paging!PageDone, Paging!JobFrame
<1>6. progress' \in [done : Nat, total : Nat] \cup {None}
  BY <1>1, <1>5 DEF PagingInv, PagingShape, JobShape
<1>7. Paging!UnderWay \subseteq Paging!UnderWay'
  BY <1>1, <1>2, <1>3, <1>5, OthersGoOn DEF PagingInv
<1>8. Settled' = Settled BY <1>5 DEF Settled
<1>9. ASSUME NEW i \in Jobs PROVE Carried(i)'
  <2>1. CASE i = j BY <1>2, <1>4, <2>1 DEF Carried
  <2>2. CASE i # j BY <1>4, <1>8, <2>2 DEF Carried, PagingInv, PagesKept
  <2> QED BY <2>1, <2>2
<1>10. job[j].got \subseteq Settled BY <1>1 DEF PagingInv, PagesKept, Carried
<1>11. ASSUME NEW p \in Paging!List PROVE seen'[p] \subseteq Settled' \cup Paging!UnderWay'
  <2>1. seen'[p] \in {seen[p], job[j].got} BY <1>5 DEF PagingInv, PagingShape
  <2>2. seen[p] \subseteq Settled' \cup Paging!UnderWay' BY <1>7, <1>8 DEF PagingInv, PagesKept
  <2> QED BY <1>8, <1>10, <2>1, <2>2
<1>12. seen' \in [Paging!List -> SUBSET Titles] BY <1>1, <1>5 DEF PagingInv, PagingShape, JobShape
<1> QED BY <1>4, <1>5, <1>6, <1>9, <1>11, <1>12 DEF PagingInv, PagingShape, PagesKept

\* A set of numbers that is not empty has a least one.
Below == {x \in Nat \X Nat : x[1] < x[2]}

LEMMA LeastNumber ==
  ASSUME NEW S \in SUBSET Nat, S # {}
  PROVE  \E n \in S : \A m \in S : n <= m
<1>1. OpToRel(<, Nat) = Below BY Zenon DEF OpToRel, Below
<1>2. IsWellFoundedOn(Below, Nat) BY <1>1, NatLessThanWellFounded
<1>3. PICK n \in S : \A m \in S : ~(<<m, n>> \in Below) BY <1>2, WFMin, Zenon
<1>4. \A m \in S : ~(m < n) BY <1>3 DEF Below
<1> QED BY <1>4

\* The totals of a shelf are numbers.
LEMMA KnownTotalType == ASSUME Paging!PagingAssumption,
    PagingShape PROVE Paging!KnownTotal \in Nat
<1>1. CASE Paging!Recorded = {} BY <1>1 DEF Paging!KnownTotal, Paging!MaxPage
<1>2. CASE Paging!Recorded # {}
  <2> DEFINE below == {n \in Nat : \E p \in Paging!Recorded : n = Cap - p}
  <2>1. Paging!Recorded \subseteq Paging!List /\ Cap \in Nat
    BY DEF Paging!Recorded, Paging!PagingAssumption
  <2>2. below \in SUBSET Nat OBVIOUS
  <2>3. below # {}
    <3>1. PICK p \in Paging!Recorded : TRUE BY <1>2
    <3>2. Cap - p \in Nat BY <2>1 DEF Paging!List
    <3> QED BY <3>2
  <2>4. PICK n \in below : \A m \in below : n <= m
    <3> HIDE DEF below
    <3> QED BY <2>2, <2>3, LeastNumber
  <2>5. PICK p \in Paging!Recorded : n = Cap - p BY <2>4
  <2>6. ASSUME NEW q \in Paging!Recorded PROVE q <= p
    <3>1. Cap - q \in below BY <2>1 DEF Paging!List
    <3>2. n <= Cap - q BY <2>4, <3>1
    <3> QED BY <2>1, <2>5, <3>2 DEF Paging!List
  <2>7. Paging!MaxPage \in Paging!Recorded BY <1>2, <2>6 DEF Paging!MaxPage
  <2>8. shelf[Paging!MaxPage].total \in Nat BY <2>1, <2>7 DEF PagingShape
  <2> QED BY <2>8 DEF Paging!KnownTotal
<1> QED BY <1>1, <1>2

\* Steps of a job, and of its client, at which no title is stored or marked.
LEMMA QuietStepKeeps ==
  ASSUME Paging!PagingAssumption, PagingInv, NEW j \in Jobs,
         \/ Paging!CheckFlag(j) \/ Paging!Enter(j) \/ Paging!NextPage(j) \/ Paging!Fails(j)
         \/ Paging!Again(j) \/ Paging!Ask(j) \/ Paging!Reply(j) \/ Paging!Discard(j)
  PROVE  PagingInv'
<1> DEFINE Shift(r) == r \in JobShape /\ Paging!SetJob(j, r) /\ r.pc # "ingest" /\ r.new = {}
           Rest == /\ job[j].pc # "ingest"
                   /\ UNCHANGED <<remote, filtered, shelf, progress, titles, sync, seen, lost>>
                   /\ lock' \in Jobs \cup {None} /\ client' \in [next : Nat,
                       on : Jobs \cup {None}]
<1>1. job[j] \in JobShape /\ PagingShape BY DEF PagingInv, PagingShape
<1>2. job[j].pc # "ingest" => job[j].new = {} BY DEF PagingInv, PagesKept, Carried
<1>3. Paging!Off \in JobShape /\ Paging!Off.pc # "ingest" /\ Paging!Off.new = {}
  BY DEF Paging!Off, JobShape, Paging!PagingAssumption
<1>4. lock \in Jobs \cup {None} /\ client \in [next : Nat, on : Jobs \cup {None}]
  BY DEF PagingInv, PagingShape
<1>5. Paging!ShelfHasMore \in BOOLEAN BY DEF Paging!ShelfHasMore
<1>6. job[j].at \in Nat \ {0} /\ job[j].cap \in Nat /\ job[j].depth \in Nat BY <1>1 DEF JobShape
<1>7. ASSUME Rest, NEW r, Shift(r) PROVE PagingInv'
  <2>1. PagesKept' BY <1>7, IdleStep
  <2>2. job' \in [Jobs -> JobShape] BY <1>7, SetJobShape DEF PagingInv
  <2> QED BY <1>7, <2>1, <2>2 DEF PagingInv, PagingShape
<1>8. CASE Paging!CheckFlag(j)
  <2> DEFINE yes == [job[j] EXCEPT !.pc = "again", !.more = filtered \/ Paging!ShelfHasMore]
             no == [job[j] EXCEPT !.pc = "lock"]
  <2>1. Rest BY <1>4, <1>8 DEF Paging!CheckFlag, Paging!JobFrame
  <2>2. yes \in JobShape /\ yes.pc = "again" /\ yes.new = {}
    <3>1. (filtered \/ Paging!ShelfHasMore) \in BOOLEAN OBVIOUS
    <3> QED BY <1>1, <1>2, <2>1, <3>1 DEF JobShape
  <2>3. no \in JobShape /\ no.pc = "lock" /\ no.new = {} BY <1>1, <1>2, <2>1 DEF JobShape
  <2>4. Paging!SetJob(j, IF syncing THEN yes ELSE no) BY <1>8 DEF Paging!CheckFlag
  <2> HIDE DEF yes, no
  <2>5. Shift(IF syncing THEN yes ELSE no) BY <2>2, <2>3, <2>4
  <2> QED BY <1>7, <2>1, <2>5
<1>9. CASE Paging!Enter(j)
  <2> DEFINE at == IF filtered /\ progress # None THEN progress.done + 1 ELSE 1
             cap == IF filtered THEN IF progress = None THEN Cap ELSE progress.total
                    ELSE IF Paging!KnownTotal > 0 THEN Paging!KnownTotal ELSE Cap
             r == [job[j] EXCEPT !.pc = "page", !.at = at, !.cap = cap]
  <2>1. Rest BY <1>4, <1>9 DEF Paging!Enter, Paging!JobFrame
  <2>2. progress # None => progress.done \in Nat /\ progress.total \in Nat BY <1>1 DEF PagingShape
  <2>3. at \in Nat \ {0} BY <2>2
  <2>4. cap \in Nat BY <1>1, <2>2, KnownTotalType DEF Paging!PagingAssumption
  <2>5. Paging!SetJob(j, r) BY <1>9 DEF Paging!Enter
  <2> HIDE DEF at, cap
  <2>6. r \in JobShape /\ r.pc = "page" /\ r.new = {} BY <1>1, <1>2, <2>1, <2>3, <2>4 DEF JobShape
  <2> HIDE DEF r
  <2> QED BY <1>7, <2>1, <2>5, <2>6
<1>10. ASSUME NEW r \in JobShape, Paging!Leave(j, r), r.new = {}
       PROVE  lock' \in Jobs \cup {None} /\ \E q : Shift(q)
  <2> DEFINE more == IF filtered THEN r.at <= r.cap ELSE Paging!ShelfHasMore
             q == [r EXCEPT !.pc = "again", !.more = more]
  <2>1. more \in BOOLEAN
    <3>1. (r.at <= r.cap) \in BOOLEAN OBVIOUS
    <3>2. CASE filtered BY <3>1, <3>2, Zenon
    <3>3. CASE ~filtered BY <1>5, <3>3, Zenon
    <3> QED BY <3>2, <3>3
  <2> HIDE DEF more
  <2>2. q \in JobShape /\ q.pc = "again" /\ q.new = {} BY <1>10, <2>1 DEF JobShape
  <2>3. Paging!SetJob(j, q) BY <1>10 DEF Paging!Leave, more
  <2> HIDE DEF q
  <2> QED BY <1>10, <2>2, <2>3 DEF Paging!Leave
<1>11. CASE Paging!NextPage(j)
  <2> DEFINE skip == [job[j] EXCEPT !.at = job[j].at + 1]
             get == [job[j] EXCEPT !.pc = "fetch"]
  <2>1. /\ job[j].pc = "page"
        /\ UNCHANGED <<remote, filtered, shelf, progress, titles, sync, seen, lost, client>>
    BY <1>11 DEF Paging!NextPage, Paging!JobFrame
  <2>2. CASE Paging!Leave(j, job[j])
    <3>1. Rest /\ \E q : Shift(q) BY <1>1, <1>2, <1>4, <1>10, <2>1, <2>2
    <3> QED BY <1>7, <3>1
  <2>3. CASE Paging!SetJob(j, skip) /\ UNCHANGED lock
    <3>1. skip \in JobShape /\ skip.pc = "page" /\ skip.new = {}
      BY <1>1, <1>2, <1>6, <2>1 DEF JobShape
    <3> HIDE DEF skip
    <3> QED BY <1>4, <1>7, <2>1, <2>3, <3>1
  <2>4. CASE Paging!SetJob(j, get) /\ UNCHANGED lock
    <3>1. get \in JobShape /\ get.pc = "fetch" /\ get.new = {}
      BY <1>1, <1>2, <2>1 DEF JobShape
    <3> HIDE DEF get
    <3> QED BY <1>4, <1>7, <2>1, <2>4, <3>1
  <2> QED BY <1>11, <2>2, <2>3, <2>4 DEF Paging!NextPage
<1>12. CASE Paging!Fails(j)
  <2> DEFINE r == [job[j] EXCEPT !.pc = "done", !.more = FALSE]
  <2>1. Rest /\ Paging!SetJob(j, r) BY <1>4, <1>12 DEF Paging!Fails, Paging!JobFrame
  <2>2. r \in JobShape /\ r.pc = "done" /\ r.new = {} BY <1>1, <1>2, <2>1 DEF JobShape
  <2> HIDE DEF r
  <2> QED BY <1>7, <2>1, <2>2
<1>13. CASE Paging!Again(j)
  <2> DEFINE r1 == [job[j] EXCEPT !.pc = "done"]
             r2 == [job[j] EXCEPT !.pc = "flag", !.depth = job[j].depth + 1]
  <2>1. Rest /\ (Paging!SetJob(j, r1) \/ Paging!SetJob(j, r2))
    BY <1>4, <1>13 DEF Paging!Again, Paging!JobFrame
  <2>2. r1 \in JobShape /\ r1.pc = "done" /\ r1.new = {} BY <1>1, <1>2, <2>1 DEF JobShape
  <2>3. r2 \in JobShape /\ r2.pc = "flag" /\ r2.new = {}
    <3>1. job[j].depth + 1 \in Nat BY <1>6
    <3> QED BY <1>1, <1>2, <2>1, <3>1 DEF JobShape
  <2> HIDE DEF r1, r2
  <2> QED BY <1>7, <2>1, <2>2, <2>3
<1>14. \A asked \in Nat, more \in BOOLEAN : Paging!Told(asked, more) \in [next : Nat,
    on : Jobs \cup {None}]
  BY DEF Paging!Told, Paging!PagingAssumption
<1>15. CASE Paging!Ask(j)
  <2> DEFINE r == [Paging!Off EXCEPT !.pc = "flag", !.asked = client.next, !.depth = client.next]
  <2>1. Rest /\ Paging!SetJob(j, r)
    <3>1. job[j].pc = "off"
      <4>1. j \in Paging!Free BY <1>15 DEF Paging!Ask
      <4> QED BY <4>1 DEF Paging!Free
    <3>2. client' \in [next : Nat, on : Jobs \cup {None}] BY <1>4, <1>15 DEF Paging!Ask
    <3> QED BY <1>4, <1>15, <3>1, <3>2 DEF Paging!Ask
  <2>2. r \in JobShape /\ r.pc = "flag" /\ r.new = {} BY <1>3, <1>4 DEF JobShape
  <2> HIDE DEF r
  <2> QED BY <1>7, <2>1, <2>2
<1>16. CASE Paging!Reply(j)
  <2>1. client' \in [next : Nat, on : Jobs \cup {None}]
    <3>1. job[j].asked \in Nat BY <1>1 DEF JobShape
    <3>2. (job[j].more \/ job[j].asked < Paging!Rows) \in BOOLEAN OBVIOUS
    <3> QED BY <1>14, <1>16, <3>1, <3>2 DEF Paging!Reply
  <2>2. Rest /\ Paging!SetJob(j, Paging!Off) BY <1>4, <1>16, <2>1 DEF Paging!Reply
  <2> QED BY <1>3, <1>7, <2>2
<1>17. CASE Paging!Discard(j)
  <2>1. Rest /\ Paging!SetJob(j, Paging!Off) BY <1>4, <1>17 DEF Paging!Discard
  <2> QED BY <1>3, <1>7, <2>1
<1> QED BY <1>8, <1>9, <1>11, <1>12, <1>13, <1>15, <1>16, <1>17

\* The full sync: the page it has read is on its way as well.
LEMMA SyncKeeps ==
  ASSUME Paging!PagingAssumption, PagingInv,
      Paging!SyncStart \/ Paging!SyncStep \/ Paging!SyncFault
  PROVE  PagingInv'
<1>1. PagingShape /\ sync \in SyncShape BY DEF PagingInv, PagingShape
<1>2. UNCHANGED <<remote, filtered, progress, job, lock, client>>
  BY DEF Paging!SyncStart, Paging!SyncStep, Paging!SyncFault, Paging!SyncLists, Paging!SyncEnds,
         Paging!SyncIngests, Paging!SyncListStops,
         Paging!SyncIngestFails, Paging!SyncFrame
<1>3. ASSUME sync' \in SyncShape, sync'.pc = "off" => sync'.ids = {}, UNCHANGED <<shelf, seen>>,
             Settled \subseteq Settled', sync.ids \subseteq Settled' \cup sync'.ids
      PROVE  PagingInv'
  <2>1. Paging!UnderWay \subseteq Settled' \cup Paging!UnderWay' BY <1>2, <1>3, UnderWayIs
  <2>2. ASSUME NEW j \in Jobs PROVE Carried(j)'
    BY <1>2, <1>3 DEF Carried, PagingInv, PagesKept
  <2>3. ASSUME NEW p \in Paging!List PROVE seen'[p] \subseteq Settled' \cup Paging!UnderWay'
    BY <1>3, <2>1 DEF PagingInv, PagesKept
  <2> QED BY <1>2, <1>3, <2>2, <2>3 DEF PagingInv, PagingShape, PagesKept
<1>4. CASE Paging!SyncStart
  BY <1>1, <1>3, <1>4 DEF Paging!SyncStart, Paging!NoSync, SyncShape, Settled, PagingInv,
                          PagesKept
<1>5. CASE Paging!SyncEnds BY <1>1, <1>3, <1>5 DEF Paging!SyncEnds, Paging!NoSync, SyncShape,
                                                   Settled
<1>6. CASE Paging!SyncListStops BY <1>1, <1>3, <1>6 DEF Paging!SyncListStops, SyncShape, Settled
<1>7. ASSUME NEW t \in Titles, Paging!SyncIngests(t) \/ Paging!SyncIngestFails(t) PROVE PagingInv'
  <2>1. Settled \cup {t} \subseteq Settled'
    BY <1>7, SettledGrows DEF Paging!SyncIngests, Paging!SyncIngestFails
  <2>2. sync' = [sync EXCEPT !.ids = @ \ {t}] /\ sync.pc = "ingest" /\ UNCHANGED <<shelf, seen>>
    BY <1>7 DEF Paging!SyncIngests, Paging!SyncIngestFails
  <2>3. sync' \in SyncShape /\ sync'.pc = "ingest" /\ sync'.ids = sync.ids \ {t}
    BY <1>1, <2>2 DEF SyncShape
  <2> QED BY <1>3, <2>1, <2>2, <2>3
<1>8. CASE Paging!SyncLists
  <2> DEFINE got == Paging!OnPage(sync.at)
  <2>1. got \subseteq Titles
    <3>1. sync.at \in Nat \ {0} BY <1>1 DEF SyncShape
    <3> QED BY <1>1, <3>1 DEF Paging!OnPage, PagingShape
  <2>2. CASE got = {} BY <1>1, <1>3, <1>8, <2>2 DEF Paging!SyncLists, SyncShape, Settled
  <2>3. CASE got # {}
    <3>1. /\ shelf' = [shelf EXCEPT ![sync.at] = [total |-> Paging!TotalPages, fresh |-> TRUE]]
          /\ seen' = [seen EXCEPT ![sync.at] = got]
          /\ sync' \in {[sync EXCEPT !.pc = "ingest", !.ids = sync.ids \cup got],
                        [sync EXCEPT !.at = sync.at + 1, !.ids = sync.ids \cup got]}
          /\ UNCHANGED <<titles, lost>> /\ sync.pc = "list"
      BY <1>8, <2>3 DEF Paging!SyncLists
    <3> HIDE DEF got
    <3>2. sync' \in SyncShape /\ sync'.pc # "off" /\ sync'.ids = sync.ids \cup got
      <4>1. sync.at \in Nat \ {0} /\ sync.at + 1 \in Nat \ {0} BY <1>1 DEF SyncShape
      <4> QED BY <1>1, <2>1, <3>1, <4>1 DEF SyncShape
    <3>3. shelf' \in [Paging!List -> [total : Nat,
        fresh : BOOLEAN]] /\ seen' \in [Paging!List -> SUBSET Titles]
      <4>1. Paging!TotalPages \in Nat
        BY <1>1 DEF Paging!TotalPages, Paging!Smaller, Paging!Larger, PagingShape,
                    Paging!PagingAssumption
      <4> DEFINE n == [total |-> Paging!TotalPages, fresh |-> TRUE]
      <4>2. n \in [total : Nat, fresh : BOOLEAN] BY <4>1
      <4> HIDE DEF n
      <4>3. shelf' = [shelf EXCEPT ![sync.at] = n] BY <3>1 DEF n
      <4>4. shelf' \in [Paging!List -> [total : Nat, fresh : BOOLEAN]]
        BY <1>1, <4>2, <4>3 DEF PagingShape
      <4>5. seen' \in [Paging!List -> SUBSET Titles] BY <1>1, <2>1, <3>1 DEF PagingShape
      <4> QED BY <4>4, <4>5
    <3>4. Paging!UnderWay \cup got \subseteq Paging!UnderWay' BY <1>2, <3>2, UnderWayIs
    <3>5. Settled' = Settled BY <3>1 DEF Settled
    <3>6. ASSUME NEW j \in Jobs PROVE Carried(j)'
      BY <1>2, <3>5 DEF Carried, PagingInv, PagesKept
    <3>7. ASSUME NEW p \in Paging!List PROVE seen'[p] \subseteq Settled' \cup Paging!UnderWay'
      <4>1. seen'[p] \in {seen[p], got} BY <1>1, <3>1 DEF PagingShape
      <4>2. seen[p] \subseteq Settled' \cup Paging!UnderWay'
        BY <3>4, <3>5 DEF PagingInv, PagesKept
      <4> QED BY <3>4, <4>1, <4>2
    <3> QED BY <1>2, <3>2, <3>3, <3>6, <3>7 DEF PagingInv, PagingShape, PagesKept
  <2> QED BY <2>2, <2>3
<1> QED BY <1>4, <1>5, <1>6, <1>7, <1>8 DEF Paging!SyncStep, Paging!SyncFault

\* What neither stores nor marks a title, or only takes some away and says so.
LEMMA WorldKeeps ==
  ASSUME Paging!PagingAssumption, PagingInv,
         \/ \E j \in Jobs : Paging!GiveUp(j)
         \/ \E p \in Paging!List : Paging!Stale(p)
         \/ Paging!Expire \/ Paging!Wipe \/ Paging!ListMoves
  PROVE  PagingInv'
<1>1. PagingShape BY DEF PagingInv
<1>2. UNCHANGED <<job, sync, seen, filtered, lock>>
  BY DEF Paging!GiveUp, Paging!Stale, Paging!Expire, Paging!Wipe, Paging!ListMoves
<1>3. Settled \subseteq Settled' BY DEF Paging!GiveUp, Paging!Stale, Paging!Expire, Paging!Wipe,
                                        Paging!ListMoves, Settled
<1>4. PagesKept'
  <2>1. Paging!UnderWay' = Paging!UnderWay BY <1>2 DEF Paging!UnderWay
  <2>2. ASSUME NEW j \in Jobs PROVE Carried(j)' BY <1>2, <1>3 DEF Carried, PagingInv, PagesKept
  <2> QED BY <1>2, <1>3, <2>1, <2>2 DEF PagingInv, PagesKept
<1>5. shelf' \in [Paging!List -> [total : Nat, fresh : BOOLEAN]]
  BY <1>1 DEF PagingShape, Paging!GiveUp, Paging!Stale, Paging!Expire, Paging!Wipe,
              Paging!ListMoves
<1>6. progress' \in [done : Nat, total : Nat] \cup {None}
  BY <1>1 DEF PagingShape, Paging!GiveUp, Paging!Stale, Paging!Expire, Paging!Wipe,
              Paging!ListMoves
<1>7. client' \in [next : Nat, on : Jobs \cup {None}]
  <2>1. ASSUME NEW j \in Jobs, Paging!GiveUp(j) PROVE client' \in [next : Nat,
      on : Jobs \cup {None}]
    <3>1. job[j].asked \in Nat BY <1>1 DEF PagingShape, JobShape
    <3> QED BY <2>1, <3>1 DEF Paging!GiveUp, Paging!Told, Paging!PagingAssumption
  <2> QED BY <1>1, <2>1 DEF PagingShape, Paging!Stale, Paging!Expire, Paging!Wipe,
                            Paging!ListMoves
<1>8. remote' \in Seq(Titles)
  <2>1. CASE Paging!ListMoves
    <3>1. ASSUME NEW t \in Titles, remote' = <<t>> \o remote PROVE remote' \in Seq(Titles)
      BY <1>1, <3>1 DEF PagingShape
    <3>2. ASSUME NEW i \in DOMAIN remote,
                 remote' = SubSeq(remote, 1, i - 1) \o SubSeq(remote, i + 1, Len(remote))
          PROVE  remote' \in Seq(Titles)
      <4>1. i \in 1..Len(remote) BY <1>1 DEF PagingShape
      <4>2. SubSeq(remote, 1, i - 1) \in Seq(Titles) BY <1>1, <4>1 DEF PagingShape
      <4>3. SubSeq(remote, i + 1, Len(remote)) \in Seq(Titles) BY <1>1, <4>1 DEF PagingShape
      <4> QED BY <3>2, <4>2, <4>3
    <3> QED BY <2>1, <3>1, <3>2 DEF Paging!ListMoves
  <2> QED BY <1>1, <2>1 DEF PagingShape, Paging!GiveUp, Paging!Stale, Paging!Expire, Paging!Wipe
<1> QED BY <1>1, <1>2, <1>4, <1>5, <1>6, <1>7, <1>8 DEF PagingInv, PagingShape

\* The server starts again: what was under way is lost.
LEMMA RestartKeeps ==
  ASSUME Paging!PagingAssumption, PagingInv, Paging!Restart
  PROVE  PagingInv'
<1>1. PagingShape BY DEF PagingInv
<1>2. Paging!Off \in JobShape /\ Paging!Off.pc = "off" /\ Paging!Off.new = {}
  BY DEF Paging!Off, JobShape, Paging!PagingAssumption
<1>3. Paging!NoSync \in SyncShape /\ Paging!NoSync.ids = {} BY DEF Paging!NoSync, SyncShape
<1>4. Settled \cup Paging!UnderWay \subseteq Settled' BY DEF Paging!Restart, Settled,
                                                             Paging!UnderWay
<1>5. ASSUME NEW j \in Jobs PROVE Carried(j)' BY <1>2 DEF Paging!Restart, Carried
<1>6. client' \in [next : Nat, on : Jobs \cup {None}] BY <1>1 DEF Paging!Restart, PagingShape
<1>7. PagingShape' BY <1>1, <1>2, <1>3, <1>6 DEF Paging!Restart, PagingShape
<1>8. ASSUME NEW p \in Paging!List PROVE seen'[p] \subseteq Settled'
  BY <1>4 DEF Paging!Restart, PagingInv, PagesKept
<1> QED BY <1>3, <1>5, <1>7, <1>8 DEF Paging!Restart, PagingInv, PagesKept

LEMMA PagingInvariant == Paging!Spec => []PagingInv
<1>1. Paging!Init => PagingInv BY PagesAssumption, PagingStarts
<1>2. PagingInv /\ [Paging!Next]_(Paging!vars) => PagingInv'
  <2> USE PagesAssumption
  <2> SUFFICES ASSUME PagingInv, [Paging!Next]_(Paging!vars) PROVE PagingInv' OBVIOUS
  <2>1. ASSUME NEW j \in Jobs,
               \/ Paging!Ask(j) \/ Paging!Reply(j) \/ Paging!GiveUp(j) \/ Paging!Discard(j)
               \/ Paging!JobStep(j) \/ Paging!JobFault(j)
        PROVE  PagingInv'
    <3>1. ASSUME NEW t \in Titles, Paging!Ingest(j, t) \/ Paging!IngestFails(j,
        t) PROVE PagingInv'
      <4>1. PagesKept' /\ job' \in [Jobs -> JobShape]
        BY <3>1, TitleKeeps DEF Paging!Ingest, Paging!IngestFails, Paging!JobFrame
      <4> QED
        BY <3>1, <4>1 DEF Paging!Ingest, Paging!IngestFails, Paging!JobFrame, PagingInv,
                          PagingShape
    <3> QED
      BY <2>1, <3>1, FetchedKeeps, PageDoneKeeps, QuietStepKeeps, WorldKeeps
         DEF Paging!JobStep, Paging!JobFault
  <2>2. CASE UNCHANGED Paging!vars
    BY <2>2 DEF Paging!vars, PagingInv, PagingShape, PagesKept, Carried, Settled, Paging!UnderWay
  <2> QED BY <2>1, <2>2, SyncKeeps, WorldKeeps, RestartKeeps DEF Paging!Next
<1> QED BY <1>1, <1>2, PTL DEF Paging!Spec

\* A page of a list that counts as fetched lacks none of its titles, but for those that were
\* turned away, are being downloaded or were lost: whatever full syncs, jobs that outlive their
\* client, changes of TMDB's list, wipes and restarts do meanwhile (ingest/tmdb.rs,
\* ensure_shelf_pages_for_catalog and ensure_discover_pages_for_catalog).
THEOREM PagesAreKept == Paging!Spec => []FetchedIsKept
<1>1. PagingInv => FetchedIsKept BY DEF PagingInv, PagesKept, Settled, FetchedIsKept,
                                        Paging!FetchedIsKept
<1> QED BY <1>1, PagingInvariant, PTL

=============================================================================
