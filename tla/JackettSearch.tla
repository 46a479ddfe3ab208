------------------------------ MODULE JackettSearch ------------------------------
(* One stream search on Jackett (`JackettClient::search`, jackett.rs): three    *)
(* passes over the indexers, each with a budget and each skipped once the      *)
(* picker has enough, then .torrent links turned into magnets; all of it under *)
(* the one time limit the search gives this source.                            *)
(*                                                                             *)
(* A hit is the release it names and what its indexer says of the swarm; one   *)
(* release may be a hit of several indexers. Time is counted in units that the *)
(* budgets are multiples of (5 s in the code).                                 *)
EXTENDS Integers, FiniteSets

CONSTANTS
  Searches,        \* stream searches
  Indexers,        \* configured in Jackett and fit for the kind of title
  Exact,           \* those that take an IMDb id
  NoMagnet,        \* those that give .torrent links instead of magnets
  Own,             \* those whose links are not the others': such links, magnets with more trackers
  Torrents,        \* the releases there are
  Swarms,          \* what may be known of a swarm
  HealthyEnough,   \* healthy hits that end a pass (2)
  HitsEnough,      \* hits that end a pass (8)
  PickerEnough,    \* results that end the search (4)
  MaxResults,      \* what a ranking leaves (24)
  TorznabBudget, IndexerBudget, AllBudget, SearchBudget

ASSUME JackettAssumption ==
  /\ IsFiniteSet(Indexers) /\ IsFiniteSet(Torrents)
  /\ Exact \subseteq Indexers /\ NoMagnet \subseteq Own /\ Own \subseteq Indexers
  /\ "alive" \in Swarms /\ Swarms \subseteq {"dead", "unknown", "alive"}
  /\ {HealthyEnough, HitsEnough, PickerEnough, MaxResults} \subseteq Nat \ {0}
  /\ {TorznabBudget, IndexerBudget, AllBudget} \subseteq Nat \ {0}
  /\ SearchBudget = TorznabBudget + IndexerBudget + AllBudget

VARIABLE jack   \* the search of each stream search on Jackett

Hits == [ix : Indexers, id : Torrents, swarm : Swarms]
\* What an indexer may answer: nothing that is the title's, or a release (a bound of the model).
Batches(i) == {{}} \cup {{h} : h \in {g \in Hits : g.ix = i}}

Passes == {"idle", "indexers", "torznab", "again", "plain", "all", "merge", "links", "done", "late"}

NoSearch ==
  [pass |-> "idle", asked |-> {}, exact |-> {}, hits |-> {}, found |-> {}, skip |-> {},
   spent |-> 0, inPass |-> 0, outside |-> FALSE]

JackTypes ==
  [pass : Passes, asked : SUBSET Indexers, exact : SUBSET Exact, hits : SUBSET Hits,
   found : SUBSET Hits, skip : SUBSET Indexers, spent : 0..SearchBudget,
   inPass : 0..SearchBudget, outside : BOOLEAN]

Set(s, r) == jack' = [jack EXCEPT ![s] = r]

----------------------------------------------------------------------------
(* Lists of hits *)

Healthy(H) == Cardinality({h \in H : h.swarm = "alive"})

EndsPass(H) == Healthy(H) >= HealthyEnough \/ Cardinality(H) >= HitsEnough

PickerReady(H) == Cardinality(H) >= PickerEnough \/ Healthy(H) >= HealthyEnough

\* What is left of T: those in it that are good, if any are.
Preferred(T, good) == IF good = {} THEN T ELSE good

\* The best MaxResults, as the score says, of which nothing is modelled.
Cut(T) ==
  IF Cardinality(T) <= MaxResults THEN {T} ELSE {K \in SUBSET T : Cardinality(K) = MaxResults}

Magnet(h) == h.ix \notin NoMagnet
Living(h) == h.swarm # "dead"

\* The ranking leaves out .torrent links beside a magnet, then dead torrents beside others, and
\* cuts the list. (CAM releases are none of the title's hits.)
Ranked(H) ==
  LET linked == Preferred(H, {h \in H : Magnet(h)})
  IN Cut(Preferred(linked, {h \in linked : Living(h)}))

\* The locators are the same text.
SameLink(g, h) == g.id = h.id /\ (g.ix = h.ix \/ {g.ix, h.ix} \cap Own = {})

Better(g, h) == \/ g.swarm = "alive"
                \/ g.swarm = "unknown" /\ h.swarm # "alive"
                \/ h.swarm = "dead"

\* One hit of each link, the one that is ranked first; and those with other links than H's.
Firsts(H) ==
  {CHOOSE h \in {g \in H : SameLink(g, k)} : \A g \in H : SameLink(g, k) => Better(h, g) : k \in H}
Others(B, H) == {h \in Firsts(B) : \A g \in H : ~SameLink(g, h)}

\* As if the copies of the later pass replaced those of the earlier.
MergeLaterFirst(A, B) ==
  IF B = {} THEN {A}
  ELSE IF A = {} THEN {B}
  ELSE Ranked(Firsts(B) \cup Others(A, B))

\* What was found before comes first, whatever its swarm.
MergeRanked(A, B) ==
  IF B = {} THEN {A}
  ELSE IF A = {} THEN {B}
  ELSE Ranked(Firsts(A) \cup Others(B, A))

----------------------------------------------------------------------------
(* The passes *)

\* As if the first pass had what is left of the search's time for the first two.
BudgetUneven(pass) == CASE pass = "torznab" -> TorznabBudget + IndexerBudget
                        [] pass = "plain" -> IndexerBudget
                        [] pass = "all" -> AllBudget
                        [] OTHER -> SearchBudget

Budget(pass) == CASE pass = "torznab" -> TorznabBudget
                  [] pass = "plain" -> IndexerBudget
                  [] pass = "all" -> AllBudget
                  [] OTHER -> SearchBudget

Unasked(s) == Indexers \ jack[s].skip

StartJackett(s) ==
  /\ jack[s].pass = "idle"
  /\ Set(s, [NoSearch EXCEPT !.pass = "indexers"])

\* Capabilities and the list of indexers; either request may fail. Indexers that take
\* an IMDb id are waited for if a movie has one and they are known.
StartTorznab(s) ==
  /\ jack[s].pass = "indexers"
  /\ \E listed \in {{}, Unasked(s)}, exact \in {{}, Exact} :
       Set(s, [jack[s] EXCEPT !.pass = "torznab", !.inPass = 0,
                              !.asked = listed, !.exact = listed \cap exact])

StartPlain(s) ==
  /\ jack[s].pass = "again"
  /\ \E listed \in {{}, Unasked(s)} :
       Set(s, [jack[s] EXCEPT !.pass = "plain", !.inPass = 0, !.asked = listed])

\* An indexer answers with a release that is the title's, or with none that is.
IndexerAnswers(s, i) ==
  /\ jack[s].pass \in {"torznab", "plain"} /\ i \in jack[s].asked
  /\ \E batch \in Batches(i) :
       LET hits == jack[s].hits \cup batch
           exact == jack[s].exact \ {i}
           enough == exact = {} /\ EndsPass(hits)
       IN Set(s, [jack[s] EXCEPT !.hits = hits, !.exact = exact,
                    !.asked = IF enough THEN {} ELSE jack[s].asked \ {i}])

\* Broken or rate-limited: the rest of the search goes on without it. Other errors and
\* the budget only lose its answer.
IndexerFails(s, i) ==
  /\ jack[s].pass \in {"torznab", "plain"} /\ i \in jack[s].asked
  /\ \E skip \in {{}, {i}} :
       Set(s, [jack[s] EXCEPT !.asked = @ \ {i}, !.exact = @ \ {i}, !.skip = @ \cup skip])

PassTimesOut(s) ==
  /\ jack[s].pass \in {"torznab", "plain"} /\ jack[s].asked # {}
  /\ jack[s].inPass = Budget(jack[s].pass)
  /\ Set(s, [jack[s] EXCEPT !.asked = {}, !.exact = {}])

EndPass(s, next) ==
  \E hits \in Ranked(jack[s].hits) : \E found \in MergeRanked(jack[s].found, hits) :
    Set(s, [jack[s] EXCEPT !.pass = IF PickerReady(found) THEN "links" ELSE next,
                           !.hits = {}, !.found = found, !.inPass = 0])

EndTorznab(s) ==
  /\ jack[s].pass = "torznab" /\ jack[s].asked = {}
  /\ EndPass(s, "again")

EndPlain(s) ==
  /\ jack[s].pass = "plain" /\ jack[s].asked = {}
  /\ EndPass(s, "all")

\* The aggregate search: Jackett answers for all its indexers, or fails, or takes too long.
SearchAll(s) ==
  /\ jack[s].pass = "all"
  /\ \E answer \in [Indexers -> UNION {Batches(i) : i \in Indexers}] :
       /\ \A i \in Indexers : answer[i] \in Batches(i)
       /\ Set(s, [jack[s] EXCEPT !.pass = "merge", !.hits = UNION {answer[i] : i \in Indexers}])

EndAll(s) ==
  /\ jack[s].pass = "merge"
  /\ EndPass(s, "links")

\* Links that do not lead to a magnet are dropped.
ResolveLinks(s) ==
  /\ jack[s].pass = "links"
  /\ \E lost \in SUBSET {h \in jack[s].found : h.ix \in NoMagnet} :
       Set(s, [NoSearch EXCEPT !.pass = "done", !.found = jack[s].found \ lost])

Running(s) == jack[s].pass \notin {"idle", "done", "late"}

\* As if nothing ended the search when its time is over.
TickUnlimited(s) ==
  /\ Running(s) /\ jack[s].pass \in {"indexers", "links"} /\ jack[s].spent <= SearchBudget
  /\ Set(s, [jack[s] EXCEPT !.spent = @ + 1, !.outside = TRUE])

\* Time passes: up to the budget in a pass, for as long as it takes outside of them.
Tick(s) ==
  LET j == jack[s]
      counted == j.pass \in {"torznab", "plain", "all"}
  IN /\ Running(s) /\ j.spent < SearchBudget
     /\ j.pass \in {"torznab", "plain"} => j.asked # {}
     /\ j.pass # "merge"
     /\ counted => j.inPass < Budget(j.pass)
     /\ Set(s, [j EXCEPT !.spent = @ + 1,
                         !.inPass = IF counted THEN @ + 1 ELSE @,
                         !.outside = @ \/ ~counted])

\* The search's limit for this source: all that was found so far is dropped with it.
JackettTimesOut(s) ==
  /\ Running(s) /\ jack[s].spent = SearchBudget
  /\ Set(s, [NoSearch EXCEPT !.pass = "late"])

JackettStep(s) ==
  \/ StartTorznab(s) \/ StartPlain(s)
  \/ \E i \in Indexers : IndexerAnswers(s, i) \/ IndexerFails(s, i)
  \/ PassTimesOut(s) \/ EndTorznab(s) \/ EndPlain(s)
  \/ SearchAll(s) \/ EndAll(s) \/ ResolveLinks(s) \/ Tick(s) \/ JackettTimesOut(s)

----------------------------------------------------------------------------
(* Properties *)

\* "The three passes below add up to STREAM_SEARCH_BUDGET": the limit on the whole search
\* takes nothing from a pass before the last one has had its turn, unless time went by
\* outside of the passes, while capabilities and indexers were asked for or links resolved.
EveryPassFits == \A s \in Searches :
  Running(s) /\ jack[s].spent = SearchBudget =>
    jack[s].outside \/ jack[s].pass \in {"all", "merge", "links"}

\* The end of a pass costs no release that it, or an earlier one, found alive, but for three
\* reasons: the list is full, of the pass or of the search (MAX_RESULTS); the hit is a .torrent
\* link and the list has a magnet, of another release perhaps (`rank`); or an earlier pass listed
\* the same link, as dead perhaps: `merge_ranked` keeps that copy.
AliveKept == [][\A s \in Searches :
  LET found == jack[s].found
      ended == IF jack'[s].hits = {} THEN jack[s].hits ELSE {}
      after == jack'[s].found
  IN jack'[s].pass \in {"again", "all", "links"} =>
       \A h \in found \cup ended : h.swarm = "alive" =>
         \/ \E g \in after : g.id = h.id /\ g.swarm = "alive"
         \/ Cardinality(ended) > MaxResults \/ Cardinality(after) = MaxResults
         \/ ~Magnet(h) /\ \E g \in after : Magnet(g)
         \/ h \in ended /\ \E g \in found : SameLink(g, h)]_jack
=============================================================================
