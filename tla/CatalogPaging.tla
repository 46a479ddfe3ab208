------------------------------ MODULE CatalogPaging ------------------------------
(* How the catalogue grows while somebody scrolls (queries.rs `catalog`,        *)
(* ingest/tmdb.rs): a request spawns a job that fetches the pages of TMDB's     *)
(* list it needs and stores their titles; the request waits six seconds for it  *)
(* at most. Without a filter the list is a shelf, whose fetched pages are rows  *)
(* that count for 12 hours; with one it is a Discover query, whose progress is  *)
(* in memory. A full sync reads the first pages of the shelves as well. A page  *)
(* of TMDB and a page of the client hold one title each here.                   *)
EXTENDS Naturals, Sequences, FiniteSets

CONSTANTS
  Jobs,         \* tasks that fill a page
  Titles,       \* titles TMDB may list
  Refused,      \* those that are never stored: language, not released, explicit
  Cap,          \* pages of a list that are looked at (TMDB_LIST_MAX_PAGES)
  SyncPages,    \* pages a full sync reads (TMDB_LIST_INITIAL_PAGES)
  Deeper,       \* how far a job goes beyond the page asked for (30)
  MaxAsked,     \* bound: pages the client scrolls
  MaxOthers,    \* bound: titles in the catalogue that are on other lists
  MaxEvents,    \* bound: changes of TMDB's list, errors, crashes, full syncs and wipes
  None

\* What is required of them.
PagingAssumption ==
  /\ Refused \subseteq Titles /\ None \notin Jobs
  /\ {Cap, SyncPages, MaxAsked} \subseteq Nat \ {0}
  /\ {Deeper, MaxOthers, MaxEvents} \subseteq Nat

VARIABLES
  remote,     \* TMDB's list
  filtered,   \* the client scrolls with a filter
  row,        \* tmdb_shelf_pages: per page the total TMDB gave, and whether it still counts
  progress,   \* discover_progress: pages fetched and their total, or None
  titles,     \* titles of the list that are stored
  others,     \* how many other titles the catalogue shows
  job,        \* the tasks
  lock,       \* the job that fetches
  syncing,    \* the flag of the full sync
  sync,       \* the full sync
  client,     \* the page the client asks for next, and the job it waits for
  seen,       \* history: the titles a page had when it was last marked as fetched
  lost,       \* history: titles dropped by a crash, an error or a wipe
  shrunk,     \* history: TMDB's list has become shorter
  left        \* events that are left

vars == <<remote, filtered, row, progress, titles, others, job, lock, syncing, sync,
          client, seen, lost, shrunk, left>>

List == 1..Cap
NoRow == [total |-> 0, fresh |-> FALSE]
Off == [pc |-> "off", asked |-> 1, depth |-> 1, at |-> 1, cap |-> Cap, got |-> {},
        new |-> {}, more |-> FALSE]
NoSync == [pc |-> "off", at |-> 1, ids |-> {}]

Smaller(a, b) == IF a < b THEN a ELSE b
Larger(a, b) == IF a > b THEN a ELSE b

TypeOK ==
  /\ remote \in Seq(Titles) /\ Len(remote) <= Cardinality(Titles)
  /\ filtered \in BOOLEAN
  /\ row \in [List -> [total : 0..Cap, fresh : BOOLEAN]]
  /\ progress \in [done : List, total : List] \cup {None}
  /\ titles \subseteq Titles \ Refused /\ others \in 0..MaxOthers
  /\ job \in [Jobs -> [pc : {"off", "flag", "lock", "page", "fetch", "ingest", "again",
                             "done"},
                       asked : 1..MaxAsked, depth : Nat, at : 1..(Cap + 1), cap : List,
                       got : SUBSET Titles, new : SUBSET Titles, more : BOOLEAN]]
  /\ lock \in Jobs \cup {None}
  /\ syncing \in BOOLEAN
  /\ sync \in [pc : {"off", "list", "ingest"}, at : List, ids : SUBSET Titles]
  /\ client \in [next : 1..MaxAsked, on : Jobs \cup {None}]
  /\ seen \in [List -> SUBSET Titles] /\ lost \subseteq Titles /\ shrunk \in BOOLEAN
  /\ left \in 0..MaxEvents

Init ==
  /\ remote \in UNION {[1..n -> Titles] : n \in 1..Cardinality(Titles)}
  /\ \A i, k \in DOMAIN remote : remote[i] = remote[k] => i = k
  /\ filtered \in BOOLEAN
  /\ row = [p \in List |-> NoRow] /\ progress = None
  /\ titles = {} /\ others \in 0..MaxOthers
  /\ job = [j \in Jobs |-> Off] /\ lock = None
  /\ syncing = FALSE /\ sync = NoSync
  /\ client = [next |-> 1, on |-> None]
  /\ seen = [p \in List |-> {}] /\ lost = {} /\ shrunk = FALSE
  /\ left = MaxEvents

\* Rows the catalogue's query counts.
Rows == Cardinality(titles) + others

\* What TMDB answers for a page: its titles, and how many pages there are (clamped).
OnPage(p) == IF p <= Len(remote) THEN {remote[p]} ELSE {}
TotalPages == Smaller(Larger(Len(remote), 1), Cap)

\* tmdb_shelf_max_page and tmdb_shelf_total_pages: the highest page with a row, its total.
Recorded == {p \in List : row[p].total > 0}
MaxPage == IF Recorded = {} THEN 0 ELSE CHOOSE p \in Recorded : \A q \in Recorded : q <= p
KnownTotal == IF MaxPage = 0 THEN 0 ELSE row[MaxPage].total

\* shelf_has_more_remote; a shelf without rows has more.
ShelfHasMore == MaxPage = 0 \/ (KnownTotal > MaxPage /\ MaxPage < Cap)

SetJob(j, r) == job' = [job EXCEPT ![j] = r]
Spend == left > 0 /\ left' = left - 1

----------------------------------------------------------------------------
(* The client: `catalog` *)

\* It asks for a page and a job is spawned for it (any free one: they are alike).
Free == {j \in Jobs : job[j].pc = "off"}

Ask(j) ==
  /\ client.on = None /\ Free # {} /\ j = CHOOSE k \in Free : TRUE
  /\ SetJob(j, [Off EXCEPT !.pc = "flag", !.asked = client.next, !.depth = client.next])
  /\ client' = [client EXCEPT !.on = j]
  /\ UNCHANGED <<remote, filtered, row, progress, titles, others, lock, syncing, sync, seen, lost,
                 shrunk, left>>

\* It scrolls on while there is a next page, and starts over another day.
Told(asked, more) == [next |-> IF more /\ asked < MaxAsked THEN asked + 1 ELSE 1, on |-> None]

\* The job has ended in time: there is a next page if TMDB or the database has more.
Reply(j) ==
  /\ client.on = j /\ job[j].pc = "done"
  /\ client' = Told(job[j].asked, job[j].more \/ job[j].asked < Rows)
  /\ SetJob(j, Off)
  /\ UNCHANGED <<remote, filtered, row, progress, titles, others, lock, syncing, sync, seen, lost,
                 shrunk, left>>

\* Mutant of GiveUp: the job ends with the wait.
GiveUpCancels(j) ==
  /\ client.on = j /\ job[j].pc # "done"
  /\ client' = Told(job[j].asked, TRUE)
  /\ SetJob(j, Off) /\ lock' = IF lock = j THEN None ELSE lock
  /\ UNCHANGED <<remote, filtered, row, progress, titles, others, syncing, sync, seen, lost,
                 shrunk, left>>

\* CATALOG_FILL_WAIT is over (or the client hangs up): the job goes on by itself.
GiveUp(j) ==
  /\ client.on = j /\ job[j].pc # "done"
  /\ client' = Told(job[j].asked, TRUE)
  /\ UNCHANGED <<remote, filtered, row, progress, titles, others, job, lock, syncing, sync, seen,
                 lost, shrunk, left>>

Discard(j) ==
  /\ client.on # j /\ job[j].pc = "done"
  /\ SetJob(j, Off)
  /\ UNCHANGED <<remote, filtered, row, progress, titles, others, lock, syncing, sync, client,
                 seen, lost, shrunk, left>>

----------------------------------------------------------------------------
(* A job: `fill_catalog_page`, `ensure_shelf_pages_for_catalog` and                *)
(* `ensure_discover_pages_for_catalog`                                             *)

JobFrame == UNCHANGED <<remote, filtered, others, syncing, sync, client, shrunk>>

\* The flag is looked at once: while a full sync runs, nothing is fetched.
CheckFlag(j) ==
  /\ job[j].pc = "flag"
  /\ SetJob(j, IF syncing
               THEN [job[j] EXCEPT !.pc = "again", !.more = filtered \/ ShelfHasMore]
               ELSE [job[j] EXCEPT !.pc = "lock"])
  /\ UNCHANGED <<row, progress, titles, lock, seen, lost, left>> /\ JobFrame

\* The mutex, and where to go on: from the top of a shelf, or after the last page done.
Enter(j) ==
  /\ job[j].pc = "lock" /\ lock = None
  /\ lock' = j
  /\ SetJob(j, [job[j] EXCEPT
       !.pc = "page",
       !.at = IF filtered /\ progress # None THEN progress.done + 1 ELSE 1,
       !.cap = IF filtered THEN IF progress = None THEN Cap ELSE progress.total
               ELSE IF KnownTotal > 0 THEN KnownTotal ELSE Cap])
  /\ UNCHANGED <<row, progress, titles, seen, lost, left>> /\ JobFrame

\* Filters discard some results: one page of slack.
Needed(j) == Smaller(IF filtered THEN job[j].depth + 1 ELSE job[j].depth, Cap)

\* The mutex is released; does TMDB have more? (`row` as it is now.)
Leave(j, r) ==
  /\ lock' = None
  /\ SetJob(j, [r EXCEPT !.pc = "again",
                         !.more = IF filtered THEN r.at <= r.cap ELSE ShelfHasMore])

\* Mutant of NextPage: a row counts for ever.
NextPageKnown(j) ==
  /\ job[j].pc = "page"
  /\ LET p == job[j].at IN
     IF p > Needed(j) \/ p > job[j].cap THEN Leave(j, job[j])
     ELSE /\ SetJob(j, IF ~filtered /\ row[p].total > 0 THEN [job[j] EXCEPT !.at = p + 1]
                       ELSE [job[j] EXCEPT !.pc = "fetch"])
          /\ UNCHANGED lock
  /\ UNCHANGED <<row, progress, titles, seen, lost, left>> /\ JobFrame

\* Pages that are fresh are skipped; the job stops where it has what it needs or the list ends.
NextPage(j) ==
  /\ job[j].pc = "page"
  /\ LET p == job[j].at IN
     IF p > Needed(j) \/ p > job[j].cap THEN Leave(j, job[j])
     ELSE /\ SetJob(j, IF ~filtered /\ row[p].fresh THEN [job[j] EXCEPT !.at = p + 1]
                       ELSE [job[j] EXCEPT !.pc = "fetch"])
          /\ UNCHANGED lock
  /\ UNCHANGED <<row, progress, titles, seen, lost, left>> /\ JobFrame

\* TMDB's answer. A page of a shelf is recorded here, before its titles are stored; titles
\* that are stored already are not downloaded again, they get the shelf's tag and with it a new
\* updated_at (TitleStore, Mark). An empty page ends the list.
Fetched(j) ==
  /\ job[j].pc = "fetch"
  /\ LET p == job[j].at
         got == OnPage(p) IN
     /\ SetJob(j, [job[j] EXCEPT
          !.pc = IF got = {} THEN "page" ELSE "ingest", !.cap = TotalPages,
          !.at = IF got = {} THEN p + 1 ELSE p, !.got = got, !.new = got \ titles])
     /\ IF filtered
        THEN /\ progress' = IF got = {} THEN [done |-> p, total |-> TotalPages] ELSE progress
             /\ seen' = IF got = {} THEN [seen EXCEPT ![p] = {}] ELSE seen
             /\ UNCHANGED row
        ELSE /\ row' = [row EXCEPT ![p] = [total |-> TotalPages, fresh |-> TRUE]]
             /\ seen' = [seen EXCEPT ![p] = got]
             /\ UNCHANGED progress
  /\ UNCHANGED <<titles, lock, lost, left>> /\ JobFrame

\* A title's details arrive; some titles are turned away.
Ingest(j, t) ==
  /\ job[j].pc = "ingest" /\ t \in job[j].new
  /\ titles' = titles \cup ({t} \ Refused) /\ lost' = lost \ {t}
  /\ SetJob(j, [job[j] EXCEPT !.new = @ \ {t}])
  /\ UNCHANGED <<row, progress, lock, seen, left>> /\ JobFrame

\* They do not: the title is skipped.
IngestFails(j, t) ==
  /\ job[j].pc = "ingest" /\ t \in job[j].new
  /\ Spend /\ lost' = lost \cup {t}
  /\ SetJob(j, [job[j] EXCEPT !.new = @ \ {t}])
  /\ UNCHANGED <<row, progress, titles, lock, seen>> /\ JobFrame

\* All of a page's titles are in: a page of a filtered list is marked only now.
PageDone(j) ==
  /\ job[j].pc = "ingest" /\ job[j].new = {}
  /\ LET p == job[j].at IN
     /\ SetJob(j, [job[j] EXCEPT !.pc = "page", !.at = p + 1, !.got = {}])
     /\ IF filtered
        THEN /\ progress' = [done |-> p, total |-> job[j].cap]
             /\ seen' = [seen EXCEPT ![p] = job[j].got]
        ELSE UNCHANGED <<progress, seen>>
  /\ UNCHANGED <<row, titles, lock, lost, left>> /\ JobFrame

\* An error of TMDB or the database ends the job: no more.
Fails(j) ==
  /\ job[j].pc \in {"page", "fetch"}
  /\ Spend /\ lock' = None
  /\ SetJob(j, [job[j] EXCEPT !.pc = "done", !.more = FALSE])
  /\ UNCHANGED <<row, progress, titles, seen, lost>> /\ JobFrame

\* Deeper, until there are rows for this page and the next one.
Again(j) ==
  /\ job[j].pc = "again"
  /\ LET r == job[j] IN
     SetJob(j, IF ~r.more \/ syncing \/ Rows >= r.asked + 1 \/ r.depth > r.asked + Deeper
               THEN [r EXCEPT !.pc = "done"]
               ELSE [r EXCEPT !.pc = "flag", !.depth = @ + 1])
  /\ UNCHANGED <<row, progress, titles, lock, seen, lost, left>> /\ JobFrame

JobStep(j) ==
  \/ CheckFlag(j) \/ Enter(j) \/ NextPage(j) \/ Fetched(j) \/ PageDone(j) \/ Again(j)
  \/ \E t \in Titles : Ingest(j, t)

JobFault(j) == Fails(j) \/ \E t \in Titles : IngestFails(j, t)

----------------------------------------------------------------------------
(* The full sync: `fetch_movies` / `fetch_tv` over one shelf, `list_*_ids`         *)

SyncFrame == UNCHANGED <<remote, filtered, progress, others, job, lock, client, shrunk>>

SyncStart ==
  /\ ~syncing /\ sync.pc = "off" /\ Spend
  /\ syncing' = TRUE /\ sync' = [NoSync EXCEPT !.pc = "list"]
  /\ UNCHANGED <<row, titles, seen, lost>> /\ SyncFrame

\* A page of the list is recorded; an empty one ends it.
SyncLists ==
  /\ sync.pc = "list"
  /\ LET p == sync.at
         got == OnPage(p) IN
     IF got = {}
     THEN sync' = [sync EXCEPT !.pc = "ingest"] /\ UNCHANGED <<row, seen>>
     ELSE /\ row' = [row EXCEPT ![p] = [total |-> TotalPages, fresh |-> TRUE]]
          /\ seen' = [seen EXCEPT ![p] = got]
          /\ sync' = IF p >= Smaller(SyncPages, TotalPages)
                     THEN [sync EXCEPT !.pc = "ingest", !.ids = @ \cup got]
                     ELSE [sync EXCEPT !.at = p + 1, !.ids = @ \cup got]
  /\ UNCHANGED <<titles, syncing, lost, left>> /\ SyncFrame

\* A page that fails ends the list as well.
SyncListStops ==
  /\ sync.pc = "list"
  /\ sync' = [sync EXCEPT !.pc = "ingest"]
  /\ UNCHANGED <<row, titles, syncing, seen, lost, left>> /\ SyncFrame

SyncIngests(t) ==
  /\ sync.pc = "ingest" /\ t \in sync.ids
  /\ titles' = titles \cup ({t} \ Refused) /\ lost' = lost \ {t}
  /\ sync' = [sync EXCEPT !.ids = @ \ {t}]
  /\ UNCHANGED <<row, syncing, seen, left>> /\ SyncFrame

SyncIngestFails(t) ==
  /\ sync.pc = "ingest" /\ t \in sync.ids
  /\ Spend /\ lost' = lost \cup {t}
  /\ sync' = [sync EXCEPT !.ids = @ \ {t}]
  /\ UNCHANGED <<row, titles, syncing, seen>> /\ SyncFrame

SyncEnds ==
  /\ sync.pc = "ingest" /\ sync.ids = {}
  /\ syncing' = FALSE /\ sync' = NoSync
  /\ UNCHANGED <<row, titles, seen, lost, left>> /\ SyncFrame

SyncStep == SyncLists \/ SyncEnds \/ \E t \in Titles : SyncIngests(t)
SyncFault == SyncListStops \/ \E t \in Titles : SyncIngestFails(t)

----------------------------------------------------------------------------
(* The rest of the world *)

\* After 12 hours a page does not count any more; after 6 the progress is forgotten.
Stale(p) ==
  /\ row[p].fresh /\ row' = [row EXCEPT ![p].fresh = FALSE]
  /\ UNCHANGED <<remote, filtered, progress, titles, others, job, lock, syncing, sync, client,
                 seen, lost, shrunk, left>>

Expire ==
  /\ progress # None /\ progress' = None
  /\ UNCHANGED <<remote, filtered, row, titles, others, job, lock, syncing, sync, client, seen,
                 lost, shrunk, left>>

\* clear_catalog: titles go; what says which pages were fetched stays.
Wipe ==
  /\ Spend
  /\ titles' = {} /\ others' = 0 /\ syncing' = FALSE /\ lost' = lost \cup titles
  /\ UNCHANGED <<remote, filtered, row, progress, job, lock, sync, client, seen, shrunk>>

\* TMDB's list changes: a title enters at the top, or one leaves.
ListMoves ==
  /\ Spend
  /\ \/ /\ \E t \in Titles : (\A i \in DOMAIN remote : remote[i] # t) /\ remote' = <<t>> \o remote
        /\ UNCHANGED shrunk
     \/ /\ Len(remote) > 1
        /\ \E i \in DOMAIN remote :
             remote' = SubSeq(remote, 1, i - 1) \o SubSeq(remote, i + 1, Len(remote))
        /\ shrunk' = TRUE
  /\ UNCHANGED <<filtered, row, progress, titles, others, job, lock, syncing, sync, client, seen,
                 lost>>

\* The server goes down and starts again: tasks, the flag and the progress are gone.
Restart ==
  /\ Spend
  /\ lost' = lost \cup (((UNION {job[j].new : j \in Jobs}) \cup sync.ids) \ titles)
  /\ job' = [j \in Jobs |-> Off] /\ lock' = None /\ syncing' = FALSE /\ sync' = NoSync
  /\ progress' = None /\ client' = [client EXCEPT !.on = None]
  /\ UNCHANGED <<remote, filtered, row, titles, others, seen, shrunk>>

Next ==
  \/ \E j \in Jobs : Ask(j) \/ Reply(j) \/ GiveUp(j) \/ Discard(j) \/ JobStep(j) \/ JobFault(j)
  \/ SyncStart \/ SyncStep \/ SyncFault
  \/ (\E p \in List : Stale(p)) \/ Expire \/ Wipe \/ ListMoves \/ Restart

Spec == Init /\ [][Next]_vars

\* Tasks run and TMDB answers, time passes, and the client keeps scrolling.
FairSpec ==
  /\ Spec
  /\ WF_vars(\E j \in Jobs : Ask(j))
  /\ \A j \in Jobs : WF_vars(Reply(j) \/ Discard(j)) /\ WF_vars(JobStep(j))
  /\ WF_vars(SyncStep)
  /\ \A p \in List : WF_vars(Stale(p))
  /\ WF_vars(Expire)

----------------------------------------------------------------------------
(* Properties *)

Marked(p) == IF filtered THEN progress # None /\ p <= progress.done ELSE row[p].fresh
UnderWay == (UNION {job[j].new : j \in Jobs}) \cup sync.ids

\* A page that counts as fetched, and so is not fetched again for hours, lacks one of its titles
\* only if the title was turned away, is being downloaded, or was lost: its details failed, the
\* server went down in between (shelves only: a filtered list is marked afterwards, see
\* ensure_discover_pages_for_catalog), or the catalogue was wiped, which leaves the marks
\* (db clear_catalog). A client that does not wait loses nothing (`catalog`).
FetchedIsKept ==
  \A p \in List : Marked(p) => seen[p] \subseteq titles \cup Refused \cup lost \cup UnderWay

\* Whoever keeps scrolling brings in every title TMDB lists, lost ones too. On a shelf one can
\* stay away for good: when the catalogue has fewer rows than its position in the list, scrolling
\* ends before it (fill_catalog_page); and when the list was longer before, the total of the old
\* last page is believed (tmdb_shelf_total_pages).
ListedArrives ==
  <>[](\A p \in 1..Smaller(Len(remote), Cap) :
         \/ remote[p] \in titles \cup Refused
         \/ ~filtered /\ (p > Rows \/ shrunk))
=============================================================================
