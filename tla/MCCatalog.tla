------------------------------- MODULE MCCatalog -------------------------------
(* TitleStore and CatalogPaging for TLC, side by side, in parts whose product   *)
(* is out of reach. In "paging" CatalogPaging moves and TitleStore stays as it  *)
(* is; in the others it is the other way round, with searches of titles that    *)
(* share their name and restarts in "namesakes", requests by id, hang-ups and   *)
(* changes of a title's kind in "requests", and opened titles, marks, the other *)
(* changes in the console and those at TMDB in "console". MaxEvents bounds each *)
(* module's events.                                                             *)
EXTENDS TitleStore

CONSTANTS Jobs, Titles, Refused, Cap, SyncPages, Deeper, MaxAsked, MaxOthers

VARIABLES part,
          remote, filtered, shelf, progress, titles, others, job, lock, syncing, sync, client, seen,
          lost, shrunk, budget

pagingVars == <<remote, filtered, shelf, progress, titles, others, job, lock, syncing, sync, client,
                seen, lost, shrunk, budget>>
mcVars == <<part, pagingVars, vars>>

Paging == INSTANCE CatalogPaging WITH row <- shelf, left <- budget

ASSUME PagesAssumption == Paging!PagingAssumption

\* IMDb knows all titles, or none yet and no two have one name.
Linked(yes) == \A w \in Works : offer[w].linked = yes

MCInit ==
  /\ Init /\ Paging!Init
  /\ \/ /\ part = "paging" /\ Linked(TRUE) /\ twins
        /\ Len(remote) = Cardinality(Titles) /\ remote[1] \notin Refused
        /\ others = IF filtered THEN 0 ELSE MaxOthers
     \/ /\ \/ part = "requests" /\ ~twins /\ Linked(TRUE)
           \/ part = "namesakes" /\ twins /\ Linked(TRUE)
           \/ part = "console" /\ ~twins /\ Linked(FALSE)
        /\ ~filtered /\ others = 0 /\ remote = <<CHOOSE t \in Titles : TRUE>>

InPaging(A) == part = "paging" /\ A /\ UNCHANGED <<part, vars>>
InStore(A) == part # "paging" /\ A /\ UNCHANGED <<part, pagingVars>>

\* One job at a time when there is a filter.
OneByOne == filtered => \A j \in Jobs : job'[j].pc = "off" \/ \A i \in Jobs \ {j} : job'[i].pc = "off"

\* Only the refresh reads how old a row is, so days pass just before it, again and again.
Late == Age /\ Ready(Syncer) /\ Phases[phase] = "stale"

StoreNext ==
  \/ Turn \/ Late
  \/ \E k \in Tasks : Step(k) \/ Fails(k)
  \/ part = "namesakes" /\ (Restart \/ \E k \in Clients : Search(k))
  \/ /\ part = "requests"
     /\ \/ \E k \in Clients : SearchById(k) \/ Refresh(k) \/ HangUp(k)
        \/ \E r \in Here : Retype(r)
  \/ /\ part = "console"
     /\ \/ Restart \/ Create \/ TmdbChanges \/ \E r \in Here : Mark(r)
        \/ \E k \in Clients : Open(k) \/ Delete(k) \/ CheckStored(k)

MCNext == InPaging(Paging!Next /\ OneByOne) \/ InStore(StoreNext)

MCSpec ==
  /\ MCInit /\ [][MCNext]_mcVars
  /\ WF_mcVars(InPaging((\E j \in Jobs : Paging!Ask(j)) /\ OneByOne))
  /\ \A j \in Jobs : /\ WF_mcVars(InPaging(Paging!Reply(j) \/ Paging!Discard(j)))
                     /\ WF_mcVars(InPaging(Paging!JobStep(j)))
  /\ WF_mcVars(InPaging(Paging!SyncStep)) /\ WF_mcVars(InPaging(Paging!Expire))
  /\ \A p \in 1..Cap : WF_mcVars(InPaging(Paging!Stale(p)))
  /\ WF_mcVars(InStore(Turn)) /\ SF_mcVars(InStore(Late))
  /\ \A k \in Clients \cup {Syncer} : WF_mcVars(InStore(Step(k)))

\* A page that counts as fetched is complete (CatalogPaging, fill_catalog_page).
FetchedIsKept == Paging!FetchedIsKept

\* Scrolling brings in what TMDB lists (CatalogPaging, fill_catalog_page).
ListedArrives == part = "paging" => Paging!ListedArrives
=============================================================================
