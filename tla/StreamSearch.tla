------------------------------- MODULE StreamSearch -------------------------------
(* `streaming_search` (graphql/queries.rs) over `sources::gather`: a search is  *)
(* answered from a stored list while that is fresh, else Jackett and the       *)
(* enabled add-ons are asked at once, each with a time limit; what they found  *)
(* is merged, dead links are dropped, and the list is stored and returned.     *)
(* An old list is only the last resort. The console switches sources on and    *)
(* off meanwhile. What happens inside of Jackett's answer is JackettSearch.    *)
EXTENDS JackettSearch

CONSTANTS
  Addons,         \* installed stream add-ons
  Links,          \* direct links the add-ons may list
  SourcesEnough,  \* good results that start the grace period (4)
  Titled,         \* bound: whether searches name a title of the catalogue
  Listed,         \* bound: the releases and links an add-on may list
  Switched,       \* bound: the sources the console switches on and off
  MaxOff,         \* bound: how often it switches one off
  None

Jackett == "jackett"
Sources == Addons \cup {Jackett}

ASSUME StreamSearchAssumption ==
  /\ Jackett \notin Addons /\ Links \cap Torrents = {}
  /\ SourcesEnough \in Nat \ {0} /\ MaxOff \in Nat
  /\ Titled \subseteq BOOLEAN /\ Switched \subseteq Sources

VARIABLES
  on,       \* the sources switched on (settings in memory)
  offs,     \* how often one was switched off
  cache,    \* table stream_search_cache
  search    \* the searches

vars == <<jack, on, offs, cache, search>>

\* A row of the table; `sources` (history) are those switched on when its search started.
Row == [sources : SUBSET Sources, fresh : BOOLEAN]

\* The key of a title's list leaves out the query text that the sources are put into.
Key(titled, sig) == [titled |-> titled, sources |-> IF titled THEN {} ELSE sig]
Keys == {Key(titled, sig) : titled \in Titled, sig \in SUBSET Sources}

\* What sources list: add-ons torrents and links, Jackett the hits it has found.
Entries == [id : Torrents, swarm : Swarms] \cup [id : Links, swarm : {"link"}]
AddonLists == {L \in SUBSET {e \in Entries : e.id \in Listed} :
                 \A d, e \in L : d.id = e.id => d = e}

Lists == SUBSET (Entries \cup Hits)

Replies == {"none", "asked", "found", "failed", "slow", "cut"}
NoReply == [state |-> "none", list |-> {}]
NoReplies == [p \in Sources |-> NoReply]

Idle == [pc |-> "idle", titled |-> FALSE, live |-> FALSE, sig |-> {}, fallback |-> FALSE,
         got |-> NoReplies, grace |-> FALSE, found |-> {},
         refused |-> FALSE, answer |-> None, made |-> {}]

Answers == {"cached", "found", "fallback", "empty", "error"}

ASSUME NoneAssumption == None \notin Answers

SearchTypes ==
  [pc : {"idle", "lookup", "ask", "gather", "check", "probe", "store", "done"},
   titled : BOOLEAN, live : BOOLEAN, sig : SUBSET Sources, fallback : BOOLEAN,
   got : [Sources -> [state : Replies, list : Lists]], grace : BOOLEAN,
   found : SUBSET Entries, refused : BOOLEAN, answer : Answers \cup {None},
   made : SUBSET Sources]

TypeOK ==
  /\ jack \in [Searches -> JackTypes]
  /\ on \subseteq Sources /\ offs \in 0..MaxOff
  /\ cache \in [Keys -> Row \cup {None}]
  /\ search \in [Searches -> SearchTypes]

Init ==
  /\ jack = [s \in Searches |-> NoSearch]
  /\ on = Sources /\ offs = 0
  /\ cache = [k \in Keys |-> None]
  /\ search = [s \in Searches |-> Idle]

SetSearch(s, r) == search' = [search EXCEPT ![s] = r]

Asked(s) == {p \in Sources : search[s].got[p].state # "none"}
Waiting(s) == {p \in Sources : search[s].got[p].state = "asked"}

----------------------------------------------------------------------------
(* Merging and ranking *)

\* As if the first source to know a swarm were believed.
FirstSwarm(E) == IF \E e \in E : e.swarm = "dead" THEN "dead"
                 ELSE IF \E e \in E : e.swarm = "alive" THEN "alive" ELSE "unknown"

\* Known over unknown, more seeders over fewer.
BestSwarm(E) == IF \E e \in E : e.swarm = "alive" THEN "alive"
                ELSE IF \E e \in E : e.swarm = "dead" THEN "dead" ELSE "unknown"

Merge(E) ==
  {e \in E : e.swarm = "link"}
    \cup {[id |-> i, swarm |-> BestSwarm({e \in E : e.id = i})] :
            i \in {e.id : e \in E} \cap Torrents}

\* As if any answer were enough.
EnoughOnceAnswered(got) == \E p \in Sources : got[p].state \notin {"none", "asked"}

\* Copies count, and so do links nobody has tried yet.
Enough(got) ==
  Cardinality({pe \in Sources \X (Entries \cup Hits) :
                 pe[2] \in got[pe[1]].list /\ pe[2].swarm \in {"alive", "link"}})
    >= SourcesEnough

\* The same ranking; what is in the list by now can all be opened.
Rank(E) == Cut(Preferred(E, {e \in E : Living(e)}))

----------------------------------------------------------------------------
(* The search *)

Start(s) ==
  /\ search[s].pc = "idle" /\ on # {}
  /\ \E titled \in Titled, live \in BOOLEAN :
       SetSearch(s, [Idle EXCEPT !.pc = "lookup", !.titled = titled, !.live = live, !.sig = on])
  /\ UNCHANGED <<jack, on, offs, cache>>

Answer(s, answer, made) ==
  SetSearch(s, [Idle EXCEPT !.pc = "done", !.answer = answer, !.made = made,
                            !.sig = search[s].sig])

\* A fresh list is the answer; an old one, or any in a live refresh, is kept aside. An error
\* of the database is taken for no list.
Lookup(s) ==
  LET row == cache[Key(search[s].titled, search[s].sig)]
      usable == row # None /\ ~search[s].live /\ row.fresh
  IN
  /\ search[s].pc = "lookup"
  /\ \/ /\ usable
        /\ Answer(s, "cached", row.sources)
     \/ \E fallback \in {FALSE, row # None /\ ~usable} :
          SetSearch(s, [search[s] EXCEPT !.pc = "ask", !.live = FALSE, !.fallback = fallback])
  /\ UNCHANGED <<jack, on, offs, cache>>

\* Without the title's IMDb id no add-on is asked. The add-ons are those on by now; Jackett
\* is asked if it was on at the start.
Ask(s) ==
  /\ search[s].pc = "ask"
  /\ \E addons \in {{}, on \cap Addons} :
       LET asked == (search[s].sig \cap {Jackett}) \cup addons
       IN /\ search[s].titled \/ addons = {}
          /\ SetSearch(s, [search[s] EXCEPT !.pc = "gather",
               !.got = [p \in Sources |-> IF p \in asked THEN [NoReply EXCEPT !.state = "asked"]
                                          ELSE NoReply]])
  /\ UNCHANGED <<jack, on, offs, cache>>

\* One source is through with its part. The grace period of the others starts once there is
\* enough.
Reply(s, p, reply) ==
  LET got == [search[s].got EXCEPT ![p] = reply]
  IN SetSearch(s, [search[s] EXCEPT !.got = got,
       !.grace = @ \/ (Waiting(s) # {p} /\ Enough(got))])

AddonReplies(s, a) ==
  /\ search[s].pc = "gather" /\ a \in Waiting(s)
  /\ \E reply \in [state : {"found"}, list : AddonLists] \cup [state : {"failed", "slow"}, list : {{}}] :
       Reply(s, a, reply)
  /\ UNCHANGED <<jack, on, offs, cache>>

AskJackett(s) ==
  /\ search[s].pc = "gather" /\ Jackett \in Waiting(s)
  /\ StartJackett(s) \/ JackettStep(s)
  /\ UNCHANGED <<on, offs, cache, search>>

JackettReplies(s) ==
  /\ search[s].pc = "gather" /\ Jackett \in Waiting(s)
  /\ \/ /\ jack[s].pass = "done"
        /\ Reply(s, Jackett, [state |-> "found", list |-> jack[s].found])
     \/ /\ jack[s].pass = "late"
        /\ Reply(s, Jackett, [state |-> "slow", list |-> {}])
  /\ Set(s, NoSearch)
  /\ UNCHANGED <<on, offs, cache>>

\* The grace period ends: the search goes on without those that still have not answered.
CutShort(s) ==
  /\ search[s].pc = "gather" /\ search[s].grace /\ Waiting(s) # {}
  /\ SetSearch(s, [search[s] EXCEPT !.got =
       [p \in Sources |-> IF p \in Waiting(s) THEN [NoReply EXCEPT !.state = "cut"]
                          ELSE search[s].got[p]]])
  /\ Set(s, NoSearch)
  /\ UNCHANGED <<on, offs, cache>>

EndGather(s) ==
  /\ search[s].pc = "gather" /\ Waiting(s) = {}
  /\ SetSearch(s, [search[s] EXCEPT !.pc = "check", !.grace = FALSE,
       !.found = Merge(UNION {search[s].got[p].list : p \in Sources})])
  /\ UNCHANGED <<jack, on, offs, cache>>

\* Links their hosts refuse are dropped.
CheckLinks(s) ==
  /\ search[s].pc = "check"
  /\ \E refused \in SUBSET {e \in search[s].found : e.swarm = "link"} :
       SetSearch(s, [search[s] EXCEPT !.pc = "probe", !.found = @ \ refused,
                                      !.refused = refused # {}])
  /\ UNCHANGED <<jack, on, offs, cache>>

\* Peers of a few torrents are counted, within seconds or not at all; then the ranking.
Probe(s) ==
  /\ search[s].pc = "probe"
  /\ \E met \in SUBSET {e \in search[s].found : e.swarm \in {"dead", "unknown"}} :
       \E found \in Rank((search[s].found \ met) \cup {[e EXCEPT !.swarm = "alive"] : e \in met}) :
         SetSearch(s, [search[s] EXCEPT !.pc = "store", !.found = found])
  /\ UNCHANGED <<jack, on, offs, cache>>

\* The list is stored (an error of the database is ignored) and returned.
Store(s) ==
  LET key == Key(search[s].titled, search[s].sig) IN
  /\ search[s].pc = "store" /\ search[s].found # {}
  /\ \/ cache' = [cache EXCEPT ![key] = [sources |-> search[s].sig, fresh |-> TRUE]]
     \/ UNCHANGED cache
  /\ Answer(s, "found", search[s].sig)
  /\ UNCHANGED <<jack, on, offs>>

AllFailed(s) ==
  Asked(s) # {} /\ \A p \in Asked(s) : search[s].got[p].state \in {"failed", "slow"}

NothingFound(s) ==
  /\ search[s].pc = "store" /\ search[s].found = {}
  /\ SetSearch(s, [search[s] EXCEPT !.pc = "done",
       !.answer = IF search[s].fallback THEN "fallback"
                  ELSE IF AllFailed(s) THEN "error" ELSE "empty"])
  /\ UNCHANGED <<jack, on, offs, cache>>

\* The app has its answer and may search again, or it hangs up wherever the search is.
Forget(s) ==
  /\ search[s].pc # "idle"
  /\ SetSearch(s, Idle) /\ Set(s, NoSearch)
  /\ UNCHANGED <<on, offs, cache>>

----------------------------------------------------------------------------
(* Around it *)

Toggle(p) ==
  /\ \/ /\ p \in on /\ offs < MaxOff
        /\ on' = on \ {p} /\ offs' = offs + 1
     \/ /\ p \notin on
        /\ on' = on \cup {p} /\ UNCHANGED offs
  /\ UNCHANGED <<jack, cache, search>>

\* A list grows older than its time to live: a day, two hours, or 20 minutes with links.
Age(k) ==
  /\ cache[k] # None /\ cache[k].fresh
  /\ cache' = [cache EXCEPT ![k].fresh = FALSE]
  /\ UNCHANGED <<jack, on, offs, search>>

\* `refresh_title` drops the title's lists.
RefreshTitle ==
  /\ \E k \in Keys : k.titled /\ cache[k] # None
  /\ cache' = [k \in Keys |-> IF k.titled THEN None ELSE cache[k]]
  /\ UNCHANGED <<jack, on, offs, search>>

SearchStep(s) ==
  \/ Lookup(s) \/ Ask(s)
  \/ \E a \in Addons : AddonReplies(s, a)
  \/ AskJackett(s) \/ JackettReplies(s)
  \/ CutShort(s) \/ EndGather(s) \/ CheckLinks(s) \/ Probe(s) \/ Store(s) \/ NothingFound(s)

Next ==
  \/ \E s \in Searches : Start(s) \/ SearchStep(s) \/ Forget(s)
  \/ \E p \in Switched : Toggle(p)
  \/ \E k \in Keys : Age(k)
  \/ RefreshTitle

Spec == Init /\ [][Next]_vars

----------------------------------------------------------------------------
(* Properties *)

\* Ending the wait for slow sources early (`gather`) does not cost the viewer the answer: a
\* search that stopped waiting comes back with nothing only if hosts refused links that
\* `enough` had counted. Merging, probing and ranking never lose all of what was enough.
NothingCutForEmptyAnswer == \A s \in Searches :
  /\ search[s].answer \in {"empty", "fallback", "error"}
  /\ \E p \in Sources : search[s].got[p].state = "cut"
  => search[s].refused

\* A torrent that any source in time reported alive is in the answer as alive, whichever
\* source listed it first, as what, and whatever the others say of it (`merge`, `rank`); unless
\* the answer is full (MAX_RESULTS), and then of nothing that is dead.
AliveReachesAnswer == \A s \in Searches :
  search[s].pc = "store" =>
    \A p \in Sources : \A e \in search[s].got[p].list :
      e.swarm = "alive" =>
        \/ [id |-> e.id, swarm |-> "alive"] \in search[s].found
        \/ Cardinality(search[s].found) = MaxResults /\ \A d \in search[s].found : Living(d)

\* Comment of `streaming_search`: the enabled sources are part of the key, so switching one
\* on or off doesn't serve a list made without it.
ListMadeWithItsSources == \A s \in Searches :
  search[s].answer = "cached" => search[s].made = search[s].sig

=============================================================================
