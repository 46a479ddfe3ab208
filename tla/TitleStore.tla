------------------------------ MODULE TitleStore ------------------------------
(* What the catalogue stores and what the search finds (ingest/tmdb.rs,         *)
(* ingest/omdb.rs, search/meilisearch.rs). Many tasks download titles at once:  *)
(* the sync, a search, opening a title, a refresh. Each looks for the title's   *)
(* row, writes it and what hangs off it, and sends a document to the search     *)
(* index, in statements of their own. A title (of TMDB's /tv) stands for its    *)
(* TMDB id, its IMDb id and its name with the year alike.                       *)
EXTENDS Naturals, Sequences, FiniteSets, SequencesExt

CONSTANTS
  Works,       \* titles that TMDB has
  Foreign,     \* those outside the preferred languages
  Plain,       \* those TMDB has no logo, no thumbnail or no rating of
  Clients,     \* tasks of requests: searches, opened titles, the console
  Syncer,      \* the task of the full sync
  MaxRows,     \* bound: row ids; one that nothing refers to any more stands for a new one
  MaxEvents,   \* bound: failures, hang-ups, restarts, edits and changes of TMDB
  None

ASSUME StoreAssumption ==
  /\ Foreign \cup Plain \subseteq Works /\ None \notin Works /\ Syncer \notin Clients
  /\ {MaxRows, MaxEvents} \subseteq Nat

VARIABLES
  offer,    \* what TMDB says of a title: has it an IMDb id, is it explicit
  twins,    \* the titles all have one name and year
  row,      \* titles: per row id the record, or None
  order,    \* the rows there are, by their updated_at
  old,      \* those that no statement has updated for seven days
  cast,     \* title_people: copies of the credits a row has
  docs,     \* rows with a document in the search index
  task,     \* what the tasks are doing
  phase,    \* where the full sync is
  torn,     \* history: rows whose credits two tasks replaced at once, or one did not finish
  missed,   \* history: rows whose document came after their deletion, or was not deleted
  left      \* events that are left

vars == <<offer, twins, row, order, old, cast, docs, task, phase, torn, missed,
          left>>

Rows == 1..MaxRows
Tasks == Clients \cup {Syncer}
Phases == <<"lists", "stale", "backfill", "link", "omdb", "index">>
Idle == [pc |-> "off", how |-> "list", work |-> None, on |-> None, linked |-> FALSE,
         ids |-> {}, stale |-> None]

TitleRecords ==
  [tmdb : Works \cup {None}, imdb : Works \cup {None}, name : Works, kind : {"series", "anime"}]

TaskRecords ==
  [pc : {"off", "details", "write", "fill", "reread", "index", "requeue", "forget", "batch",
         "ids", "check"},
   how : {"list", "search", "open", "refresh", "stale", "omdb", "delete", "flush", "rebuild",
          "backfill", "purge"},
   work : Works \cup {None}, on : Rows \cup {None}, linked : BOOLEAN,
   ids : SUBSET Rows, stale : Rows \cup {None}]

\* None is nothing else.
ASSUME NoneAssumption == None \notin Rows \cup TitleRecords

TypeOK ==
  /\ offer \in [Works -> [linked : BOOLEAN, blocked : BOOLEAN]] /\ twins \in BOOLEAN
  /\ row \in [Rows -> TitleRecords \cup {None}]
  /\ cast \in [Rows -> Nat]
  /\ {old, docs, torn, missed} \subseteq SUBSET Rows
  /\ task \in [Tasks -> TaskRecords]
  /\ phase \in DOMAIN Phases /\ left \in 0..MaxEvents

Init ==
  /\ offer \in [Works -> [linked : BOOLEAN, blocked : {FALSE}]] /\ twins \in BOOLEAN
  /\ row = [r \in Rows |-> None] /\ order = <<>> /\ old = {}
  /\ cast = [r \in Rows |-> 0] /\ docs = {}
  /\ task = [k \in Tasks |-> Idle]
  /\ phase = 1 /\ torn = {} /\ missed = {} /\ left = MaxEvents

Here == {r \in Rows : row[r] # None}
\* Mutant of SameName: names are compared without the year.
SameNameAlways(w, v) == TRUE

SameName(w, v) == w = v \/ twins
Titled(w) == {r \in Here : row[r].kind = "series" /\ SameName(row[r].name, w)}
WithTmdb(w) == {r \in Here : row[r].kind = "series" /\ row[r].tmdb = w}
WithImdb(w) == {r \in Here : row[r].kind = "series" /\ row[r].imdb = w}

\* Those that were updated longest ago, and last: one row, when there are any.
Place(r) == CHOOSE i \in DOMAIN order : order[i] = r
OldestOf(S) == {r \in S : \A q \in S : Place(r) <= Place(q)}
LatestOf(S) == {r \in S : \A q \in S : Place(q) <= Place(r)}

\* titles_set_updated_at: every update of a row, of whichever column, makes it the last one.
Touch(r) ==
  /\ order' = IF r \in Here THEN Append(Remove(order, r), r) ELSE order
  /\ old' = old \ {r}

\* ON DELETE CASCADE takes what hangs off the rows.
DeleteRows(ids) ==
  /\ row' = [r \in Rows |-> IF r \in ids THEN None ELSE row[r]]
  /\ order' = SelectSeq(order, LAMBDA r : r \notin ids) /\ old' = old \ ids
  /\ cast' = [r \in Rows |-> IF r \in ids THEN 0 ELSE cast[r]]

\* A new row.
Referred == Here \cup docs \cup UNION {task[k].ids \cup {task[k].on, task[k].stale} : k \in Tasks}
NewId == {r \in Rows \ Referred : \A q \in Rows \ Referred : r <= q}

AddRow(r, tmdb, imdb, w) ==
  /\ row' = [row EXCEPT ![r] = [tmdb |-> tmdb, imdb |-> imdb, name |-> w, kind |-> "series"]]
  /\ order' = Append(order, r) /\ UNCHANGED old
  /\ torn' = torn \ {r} /\ missed' = missed \ {r}

Spend == left > 0 /\ left' = left - 1
Go(k, pc) == task' = [task EXCEPT ![k].pc = pc]
Off(k) == task' = [task EXCEPT ![k] = Idle]

\* A failure ends the download; the stale refresh then sends the row to the back.
Failed(k) == IF task[k].how = "stale" THEN Go(k, "requeue") ELSE Off(k)

Dates == <<order, old>>
Data == <<row, Dates, cast>>
World == <<offer, twins>>
History == <<torn, missed>>

----------------------------------------------------------------------------
(* What starts a download *)

Download(k, how, w, r) ==
  task' = [task EXCEPT ![k] = [Idle EXCEPT !.pc = "details", !.how = how, !.work = w, !.stale = r]]

Ready(k) == task[k].pc = "off"
Quiet == UNCHANGED <<World, Data, docs, History, left>>

\* A search names a title of TMDB (search_and_ingest).
Search(k) ==
  /\ Ready(k) /\ \E w \in Works : Download(k, "search", w, None)
  /\ Quiet /\ UNCHANGED phase

\* Or gives its TMDB or IMDb id: a row that has the id is taken as it is (ingest_by_ref).
SearchById(k) ==
  /\ Ready(k)
  /\ \E w \in Works :
       /\ \/ \A r \in Here : row[r].tmdb # w
          \/ offer[w].linked /\ \A r \in Here : row[r].imdb # w
       /\ Download(k, "search", w, None)
  /\ Quiet /\ UNCHANGED phase

\* Opening a title; without a TMDB id the first of the same name is taken.
Fetch(k, how) ==
  /\ Ready(k)
  /\ \E r \in Here, w \in Works :
       /\ IF row[r].tmdb # None THEN w = row[r].tmdb ELSE SameName(row[r].name, w)
       /\ Download(k, how, w, None)
  /\ Quiet /\ UNCHANGED phase

Open(k) == Fetch(k, "open")

\* Refreshing it, which the request waits for.
Refresh(k) == Fetch(k, "refresh")

\* The sync's phases take their turns; a batch is one title here.
\* backfill_missing_imdb asks for the IMDb ids of rows that have none.
ToBackfill == {r \in Here : row[r].tmdb # None /\ row[r].imdb = None /\ row[r].kind = "series"}

\* enrich_missing_from_imdb: rows with an IMDb id that lack the TMDB id or the credits.
ToLink == {r \in Here : row[r].imdb # None /\ (row[r].tmdb = None \/ cast[r] = 0)}

\* omdb::sync_catalog: seeds that no row has the IMDb id of.
ToSeed == {w \in Works : offer[w].linked /\ \A r \in Here : row[r].imdb # w}

\* refresh_stale_titles takes the rows that have a TMDB id and that nothing has updated for
\* seven days or that lack a picture, a rating or their credits, least recently updated first.
ToRefresh ==
  {r \in Here : row[r].tmdb # None /\ (r \in old \/ cast[r] = 0 \/ row[r].tmdb \in Plain)}
Oldest == OldestOf(ToRefresh)

Turn ==
  /\ Ready(Syncer)
  /\ phase' = (phase % Len(Phases)) + 1
  /\ LET k == Syncer
         pass == UNCHANGED task
     IN CASE Phases[phase] = "lists" -> \E w \in Works : Download(k, "list", w, None)
          [] Phases[phase] = "stale" ->
               IF Oldest = {} THEN pass ELSE \E r \in Oldest : Download(k, "stale", row[r].tmdb, r)
          [] Phases[phase] = "backfill" ->
               IF ToBackfill = {} THEN pass
               ELSE \E r \in ToBackfill :
                      task' = [task EXCEPT ![k] = [Idle EXCEPT
                                 !.pc = "ids", !.how = "backfill", !.work = row[r].tmdb, !.on = r]]
          [] Phases[phase] = "link" ->
               IF ToLink = {} THEN pass ELSE \E r \in ToLink : Download(k, "list", row[r].imdb, None)
          [] Phases[phase] = "omdb" ->
               IF ToSeed = {} THEN pass ELSE \E w \in ToSeed : Download(k, "omdb", w, None)
          [] Phases[phase] = "index" ->
               task' = [task EXCEPT ![k] = [Idle EXCEPT !.pc = "batch", !.how = "rebuild", !.ids = Here]]
  /\ Quiet

----------------------------------------------------------------------------
(* `fetch_details`, `upsert_tv_opts`, `upsert_title` *)

\* By TMDB id, then by IMDb id, then by name: rows without a TMDB id first, then the latest.
Found(k, linked) ==
  LET w == task[k].work
      named == Titled(w)
      legacy == {r \in named : row[r].tmdb = None}
  IN IF task[k].how # "omdb" /\ WithTmdb(w) # {} THEN WithTmdb(w)
     ELSE IF linked /\ WithImdb(w) # {} THEN WithImdb(w)
     ELSE IF named # {} THEN LatestOf(IF legacy = {} THEN named ELSE legacy)
     ELSE {None}

\* A title in another language is left out unless it was asked for by name or is in the
\* refresh; OMDb leaves alone what is an anime.
Unwanted(k) ==
  LET w == task[k].work IN
  \/ task[k].how \in {"list", "open", "refresh"} /\ w \in Foreign
  \/ task[k].how = "omdb" /\ \E r \in Here : row[r].imdb = w /\ row[r].kind = "anime"

Accept(k) ==
  LET linked == task[k].how = "omdb" \/ offer[task[k].work].linked IN
  IF Unwanted(k) THEN Failed(k)
  ELSE \E r \in Found(k, linked) :
         task' = [task EXCEPT ![k].pc = "write", ![k].linked = linked, ![k].on = r]

\* Mutant of Details: an explicit title is refused, and an old row of it stays.
DetailsOnlyRefuses(k) ==
  /\ task[k].pc = "details"
  /\ IF offer[task[k].work].blocked /\ task[k].how # "omdb" THEN Failed(k) ELSE Accept(k)
  /\ UNCHANGED <<World, Data, docs, History, left>>

\* The answer is here. An explicit title is purged; for another one its row is looked up.
Details(k) ==
  LET w == task[k].work IN
  /\ task[k].pc = "details"
  /\ IF offer[w].blocked /\ task[k].how # "omdb"
     THEN /\ DeleteRows(WithTmdb(w))
          /\ IF WithTmdb(w) = {} THEN Failed(k)
             ELSE task' = [task EXCEPT ![k].pc = "forget", ![k].ids = WithTmdb(w)]
     ELSE Accept(k) /\ UNCHANGED Data
  /\ UNCHANGED <<World, docs, History, left>>

\* The unique indexes (tmdb_id, kind) and (imdb_id).
Clash(tmdb, imdb, r) ==
  \E q \in Here \ {r} : \/ tmdb # None /\ row[q].kind = "series" /\ row[q].tmdb = tmdb
                        \/ imdb # None /\ row[q].imdb = imdb

Tmdb(k) == IF task[k].how = "omdb" THEN None ELSE task[k].work
Imdb(k) == IF task[k].linked THEN task[k].work ELSE None
Keep(new, was) == IF new # None THEN new ELSE was
Others(k) == {j \in Tasks \ {k} : task[j].pc = "fill" /\ task[j].on = task[k].on}

\* replace_credit_people deletes the old credits (OMDb brings none).
Cleared(k) ==
  LET r == task[k].on IN
  IF task[k].how = "omdb" THEN UNCHANGED <<cast, torn>>
  ELSE /\ cast' = [cast EXCEPT ![r] = 0]
       /\ torn' = IF Others(k) # {} THEN torn \cup {r} ELSE torn \ {r}

\* Mutant of Update: the old credits are not deleted.
UpdateKeepsCredits(k) ==
  LET r == task[k].on IN
  /\ task[k].pc = "write" /\ r # None
  /\ IF r \in Here /\ Clash(Tmdb(k), Imdb(k), r) THEN Failed(k) /\ UNCHANGED <<row, Dates>>
     ELSE /\ Go(k, "fill")
          /\ IF r \notin Here THEN UNCHANGED <<row, Dates>>
             ELSE /\ row' = [row EXCEPT ![r] = [tmdb |-> Keep(Tmdb(k), @.tmdb), name |-> task[k].work,
                                               imdb |-> Keep(Imdb(k), @.imdb), kind |-> "series"]]
                  /\ Touch(r)
  /\ UNCHANGED <<World, cast, torn, docs, missed, left>>

\* A row that is gone is updated without effect and without an error.
Update(k) ==
  LET r == task[k].on IN
  /\ task[k].pc = "write" /\ r # None
  /\ IF r \in Here /\ Clash(Tmdb(k), Imdb(k), r) THEN Failed(k) /\ UNCHANGED <<row, Dates, cast, torn>>
     ELSE /\ Go(k, "fill") /\ Cleared(k)
          /\ IF r \notin Here THEN UNCHANGED <<row, Dates>>
             ELSE /\ row' = [row EXCEPT ![r] = [tmdb |-> Keep(Tmdb(k), @.tmdb), name |-> task[k].work,
                                               imdb |-> Keep(Imdb(k), @.imdb), kind |-> "series"]]
                  /\ Touch(r)
  /\ UNCHANGED <<World, docs, missed, left>>

Insert(k) ==
  /\ task[k].pc = "write" /\ task[k].on = None
  /\ IF Clash(Tmdb(k), Imdb(k), None)
     THEN Failed(k) /\ UNCHANGED <<row, Dates, History>>
     ELSE \E r \in NewId :
            /\ AddRow(r, Tmdb(k), Imdb(k), task[k].work)
            /\ task' = [task EXCEPT ![k].pc = "fill", ![k].on = r]
  /\ UNCHANGED <<World, cast, docs, left>>

----------------------------------------------------------------------------
(* What hangs off a row, and its document *)

\* What hangs off the row is inserted, which fails when it is gone; updates touch the row.
\* OMDb's rating may be one that is not stored: then the row goes.
Fill(k) ==
  LET r == task[k].on IN
  /\ task[k].pc = "fill"
  /\ IF r \notin Here THEN Failed(k) /\ UNCHANGED Data
     ELSE IF task[k].how = "omdb" /\ offer[task[k].work].blocked
     THEN DeleteRows({r}) /\ task' = [task EXCEPT ![k].pc = "forget", ![k].ids = {r}]
     ELSE /\ cast' = IF task[k].how = "omdb" THEN cast ELSE [cast EXCEPT ![r] = @ + 1]
          /\ Touch(r) /\ UNCHANGED row
          /\ Go(k, "reread")
  /\ UNCHANGED <<World, docs, History, left>>

\* reindex reads the row ...
Reread(k) ==
  /\ task[k].pc = "reread"
  /\ IF task[k].on \in Here THEN Go(k, "index") ELSE Off(k)
  /\ UNCHANGED <<World, Data, docs, History, left>>

\* ... and sends the document.
Index(k) ==
  /\ task[k].pc = "index"
  /\ docs' = docs \cup {task[k].on}
  /\ Off(k)
  /\ UNCHANGED <<World, Data, History, left>>

\* Mutant of Requeue: a title that failed keeps its place.
RequeueKeepsPlace(k) ==
  /\ task[k].pc = "requeue"
  /\ Off(k)
  /\ UNCHANGED <<World, Data, docs, History, left>>

\* A title whose refresh failed goes to the back of the queue.
Requeue(k) ==
  /\ task[k].pc = "requeue"
  /\ Touch(task[k].stale)
  /\ Off(k)
  /\ UNCHANGED <<World, row, cast, docs, History, left>>

\* Documents of rows that were read before now are still on their way.
Sending(ids) == ids \cap UNION {IF task[j].pc = "index" THEN {task[j].on}
                               ELSE IF task[j].pc = "batch" THEN task[j].ids ELSE {} : j \in Tasks}

\* Mutant of Forget: the deleted row's document stays.
ForgetNothing(k) ==
  /\ task[k].pc = "forget"
  /\ Failed(k)
  /\ UNCHANGED <<World, Data, docs, History, left>>

\* forget_titles: the documents of deleted rows; a flush takes all documents.
Forget(k) ==
  /\ task[k].pc = "forget"
  /\ IF task[k].how = "flush" THEN docs' = {} /\ missed' = Sending(Rows)
     ELSE docs' = docs \ task[k].ids /\ missed' = missed \cup Sending(task[k].ids)
  /\ Failed(k)
  /\ UNCHANGED <<World, Data, torn, left>>

\* Mutant of Batch: titles that were never synced are left out.
BatchSynced(k) ==
  /\ task[k].pc = "batch"
  /\ docs' = docs \cup {r \in task[k].ids : row[r] # None /\ cast[r] > 0}
  /\ Off(k)
  /\ UNCHANGED <<World, Data, History, left>>

\* reindex_all_titles sends the rows it has read.
Batch(k) ==
  /\ task[k].pc = "batch"
  /\ docs' = docs \cup task[k].ids
  /\ Off(k)
  /\ UNCHANGED <<World, Data, History, left>>

\* The IMDb id has come: it is never taken from another row.
GotIds(k) ==
  LET w == task[k].work
      r == task[k].on
  IN /\ task[k].pc = "ids"
     /\ IF offer[w].linked /\ r \in Here /\ \A q \in Here : row[q].imdb # w
        THEN row' = [row EXCEPT ![r].imdb = w] /\ Touch(r)
        ELSE UNCHANGED <<row, Dates>>
     /\ Off(k)
     /\ UNCHANGED <<World, cast, docs, History, left>>

\* purge_explicit_titles (when the server starts) asks for the keywords of the titles it has
\* read, and deletes the rows it read them in; the others it marks (content_checked_at).
CheckStored(k) ==
  /\ Ready(k)
  /\ \E r \in Here :
       /\ row[r].tmdb # None /\ row[r].kind = "series"
       /\ task' = [task EXCEPT ![k] = [Idle EXCEPT
                    !.pc = "check", !.how = "purge", !.work = row[r].tmdb, !.on = r]]
  /\ Quiet /\ UNCHANGED phase

Keywords(k) ==
  LET r == task[k].on IN
  /\ task[k].pc = "check"
  /\ IF offer[task[k].work].blocked
     THEN DeleteRows({r}) /\ task' = [task EXCEPT ![k].pc = "forget", ![k].ids = {r}]
     ELSE Touch(r) /\ Off(k) /\ UNCHANGED <<row, cast>>
  /\ UNCHANGED <<World, docs, History, left>>

Step(k) ==
  /\ \/ Keywords(k) \/ Details(k) \/ Update(k) \/ Insert(k) \/ Fill(k) \/ Reread(k)
     \/ Index(k) \/ Requeue(k) \/ Forget(k) \/ Batch(k) \/ GotIds(k)
  /\ UNCHANGED phase

----------------------------------------------------------------------------
(* Time, marks, the console, TMDB, and what goes wrong *)

\* Seven days without an update have passed for the next row.
Age ==
  /\ \E r \in Here \ old : /\ \A q \in Here \ old : Place(r) <= Place(q)
                          /\ old' = old \cup {r}
  /\ UNCHANGED <<World, row, order, cast, docs, task, phase, History, left>>

\* A row is marked and is nothing else than before: jackett_mark_checked (every night, all that
\* were not for 24 hours), mark_shelf_tags (a known title on a list: every sync, every page
\* somebody scrolls to).
Mark(r) ==
  /\ r \in Here /\ Touch(r)
  /\ UNCHANGED <<World, row, cast, docs, task, phase, History, left>>

\* create_title and update_title: the row only. A new kind is the edit that matters here.
Create ==
  /\ Spend /\ \E r \in NewId, w \in Works : AddRow(r, None, None, w)
  /\ UNCHANGED <<World, cast, docs, task, phase>>

Retype(r) ==
  /\ Spend /\ row[r].kind = "series"
  /\ row' = [row EXCEPT ![r].kind = "anime"] /\ Touch(r)
  /\ UNCHANGED <<World, cast, docs, task, phase, History>>

\* delete_title(s), sync_flush: the rows now, the documents afterwards.
Delete(k) ==
  /\ Ready(k) /\ Spend
  /\ \/ \E r \in Here :
          /\ DeleteRows({r})
          /\ task' = [task EXCEPT ![k] = [Idle EXCEPT !.pc = "forget", !.how = "delete", !.ids = {r}]]
     \/ /\ DeleteRows(Here)
        /\ task' = [task EXCEPT ![k] = [Idle EXCEPT !.pc = "forget", !.how = "flush", !.ids = Here]]
  /\ UNCHANGED <<World, docs, phase, History>>

TmdbChanges ==
  /\ Spend
  /\ \E w \in Works, f \in {"linked", "blocked"} : ~offer[w][f] /\ offer' = [offer EXCEPT ![w][f] = TRUE]
  /\ UNCHANGED <<twins, Data, docs, task, phase, History>>

\* What is left undone when tasks stop: credits that were not replaced, documents not deleted.
Undone(ks) ==
  /\ torn' = torn \cup {task[k].on : k \in {j \in ks : task[j].pc = "fill" /\ task[j].how # "omdb"}}
  /\ missed' = missed \cup UNION {task[k].ids : k \in {j \in ks : task[j].pc = "forget"}}

\* TMDB, the database or the index fails a task.
Fails(k) ==
  /\ Spend /\ task[k].pc \in {"details", "ids", "check", "fill", "index", "batch", "forget"}
  /\ Undone({k})
  /\ IF task[k].pc \in {"details", "fill", "forget", "index"} THEN Failed(k) ELSE Off(k)
  /\ UNCHANGED <<World, Data, docs, phase>>

\* A request is dropped with its connection. Opening a title has spawned its download.
HangUp(k) ==
  /\ Spend /\ task[k].how \in {"search", "refresh", "delete", "flush"}
  /\ Undone({k}) /\ Off(k)
  /\ UNCHANGED <<World, Data, docs, phase>>

Restart ==
  /\ Spend /\ Undone(Tasks)
  /\ task' = [k \in Tasks |-> Idle] /\ phase' = 1
  /\ UNCHANGED <<World, Data, docs>>

Next ==
  \/ Turn \/ (\E k \in Tasks : Step(k) \/ Fails(k))
  \/ (\E k \in Clients : Search(k) \/ SearchById(k) \/ Open(k) \/ Refresh(k) \/ Delete(k) \/ HangUp(k) \/ CheckStored(k))
  \/ Age \/ (\E r \in Here : Mark(r) \/ Retype(r))
  \/ Create \/ TmdbChanges \/ Restart

Spec == Init /\ [][Next]_vars

\* Syncs come round (scheduler), and every task goes on: a request, TMDB or the database
\* answers or fails.  Days pass.  Nothing says that rows are marked, or not.
FairSpec == Spec /\ WF_vars(Turn) /\ WF_vars(Age) /\ \A k \in Tasks : WF_vars(Step(k))

----------------------------------------------------------------------------
(* Properties *)

\* Where no two titles share a name and a year, the TMDB id and the IMDb id of a row are those
\* of one title, whoever links it: ingest, OMDb, backfill_missing_imdb. With namesakes they need
\* not be: upsert_title takes over a row that another title of that name already has.
IdsAgree ==
  twins \/ \A r \in Here : row[r].tmdb # None /\ row[r].imdb # None => row[r].tmdb = row[r].imdb

\* A synced title has its credits once, unless two downloads replaced them at the same time or
\* one did not get to the end: replace_credit_people deletes and inserts without a transaction.
CreditsOnce ==
  \A r \in Here :
    \/ row[r].tmdb = None \/ cast[r] = 1 \/ r \in torn
    \/ \E k \in Tasks : task[k].on = r /\ task[k].pc = "fill"

\* What is stored of a title is about it, and there once (upsert_title, credits).
RowsAreRight == IdsAgree /\ CreditsOnce

\* The search index has a document without a row only while the row is being deleted, or when
\* the document was on its way past the deletion or the deletion in the index did not happen
\* (forget_titles, reindex, reindex_all_titles).
GhostOnlyIfMissed ==
  docs \subseteq Here \cup missed \cup UNION {task[k].ids : k \in {j \in Tasks : task[j].pc = "forget"}}

\* Every title that stays is found by the search sooner or later, those made in the console too
\* (reindex_all_titles at the end of a sync).
StoredIsFound == \A r \in Rows : []<>(r \notin Here \/ r \in docs)

UnderWay(r) ==
  \E k \in Tasks : task[k].pc # "off" /\ (r \in {task[k].on, task[k].stale} \/ task[k].work = row[r].tmdb)

Shadowed ==
  \E q \in Here : row[q].kind = "anime" /\ row[q].tmdb # None /\ WithTmdb(row[q].tmdb) # {}

\* A row is updated by something that does not download its title: the marks, and those of
\* purge_explicit_titles. Each puts the row off by another seven days.
Marked(r) ==
  Mark(r) \/ \E k \in Tasks : Keywords(k) /\ task[k].on = r /\ ~offer[task[k].work].blocked

\* A title that TMDB comes to call explicit leaves the catalogue (upsert_tv_opts purges it when
\* it is next downloaded), unless an administrator has made it an anime, or its row is marked
\* again and again, before it is seven days old.
BlockedGoes ==
  \A w \in Works :
    \/ offer[w].blocked ~> WithTmdb(w) = {}
    \/ []<><<\E r \in WithTmdb(w) : Marked(r)>>_vars

\* Every title with a TMDB id is downloaded again and again, also when others keep failing, are
\* incomplete for good, or are marked: refresh_stale_titles sends what fails to the back, and
\* days pass. Two it does not come to: one whose own row is marked again and again, as the
\* nightly scan of Jackett does with all of them; and a row that was made an anime while its
\* title has a row as a series too. The download succeeds and updates the other row, so this
\* one stays the oldest and keeps its place in every batch.
RefreshComesRound ==
  \A r \in Rows :
    \/ []<>(r \notin Here \/ row[r].tmdb = None \/ Shadowed \/ UnderWay(r))
    \/ []<><<Marked(r)>>_vars
=============================================================================
