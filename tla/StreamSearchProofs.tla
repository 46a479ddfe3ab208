--------------------------- MODULE StreamSearchProofs ---------------------------
(* Proofs about StreamSearch and JackettSearch, for any numbers of searches,    *)
(* indexers, add-ons, torrents and links and any budgets and thresholds. Three  *)
(* things are kept: the time of Jackett's search is accounted for (Timely),     *)
(* once the picker had enough there is something to show for it (Worthwhile),   *)
(* and what was gathered as alive, or as a link, is carried on (CarriedOn).     *)
(* Then about ReleaseScreen, for any searches and any releases a name can make  *)
(* (Judged: a verdict is on the release that is there), and about Subtitles,    *)
(* for any number of requests and languages (SubsInv: a request carries what it *)
(* has downloaded to the answer, and what was fetched lasts).                   *)
EXTENDS MCStreamSearch, FiniteSetTheorems, TLAPS

\* Where the time of Jackett's search went.
Timely(j) ==
  /\ j.pass = "torznab" => j.inPass <= TorznabBudget
  /\ j.pass = "plain" => j.inPass <= IndexerBudget
  /\ ~j.outside =>
       /\ j.pass \in {"idle", "indexers", "done", "late"} => j.spent = 0
       /\ j.pass = "torznab" => j.spent <= j.inPass
       /\ j.pass = "again" => j.spent <= TorznabBudget
       /\ j.pass = "plain" => j.spent <= TorznabBudget + j.inPass

JackInv == jack \in [Searches -> JackTypes] /\ \A s \in Searches : Timely(jack[s])

\* Somebody found what counts as enough.
Useful(r) == \E p \in Sources : \E e \in r.got[p].list : e.swarm \in {"alive", "link"}

\* Sources that did not answer have no list; who stopped waiting for them had reason to.
Worthwhile(r) ==
  /\ \A p \in Sources : r.got[p].state \in {"none", "asked", "cut"} => r.got[p].list = {}
  /\ r.grace => r.pc = "gather"
  /\ r.grace \/ (\E p \in Sources : r.got[p].state = "cut") => Useful(r)

\* From the merge to the answer: what is alive is dropped only from a full list of what is not dead,
\* and something that is useful leaves something.
CarriedOn(r) ==
  /\ r.pc \in {"check", "probe"} => \A p \in Sources : \A e \in r.got[p].list :
       /\ e.swarm = "alive" => [id |-> e.id, swarm |-> "alive"] \in r.found
       /\ e.swarm = "link" /\ ~r.refused => e \in r.found
  /\ r.pc = "store" => \A p \in Sources : \A e \in r.got[p].list : e.swarm = "alive" =>
       \/ [id |-> e.id, swarm |-> "alive"] \in r.found
       \/ Cardinality(r.found) = MaxResults /\ \A d \in r.found : Living(d)
  /\ r.pc = "store" /\ r.found = {} /\ Useful(r) => r.refused
  /\ r.pc # "done" => r.answer = None
  /\ r.answer \in {"empty", "fallback", "error"} /\ (\E p \in Sources : r.got[p].state = "cut")
       => r.refused

Named(r) == r.pc \notin {"idle", "done"} => r.titled \in Titled

\* Links are only refused when they are tried.
Unrefused(r) == r.pc \in {"idle", "lookup", "ask", "gather", "check"} => ~r.refused

Sound(r) == r \in SearchTypes /\ Named(r) /\ Unrefused(r) /\ Worthwhile(r) /\ CarriedOn(r)

SearchInv == TypeOK /\ JackInv /\ \A s \in Searches : Sound(search[s])

----------------------------------------------------------------------------
(* Lists of hits *)

LEMMA HitsAreFinite == IsFiniteSet(Hits)
<1> DEFINE P == (Indexers \X Torrents) \X Swarms
           f == [p \in P |-> [ix |-> p[1][1], id |-> p[1][2], swarm |-> p[2]]]
<1>1. IsFiniteSet(Indexers) /\ IsFiniteSet(Torrents)
  BY JackettAssumption
<1>2. IsFiniteSet(Swarms)
  <2>1. IsFiniteSet({}) /\ \A S, x : IsFiniteSet(S) => IsFiniteSet(S \cup {x})
    BY FS_EmptySet, FS_AddElement
  <2>2. IsFiniteSet((({} \cup {"dead"}) \cup {"unknown"}) \cup {"alive"})
    <3>1. IsFiniteSet({} \cup {"dead"})
      BY <2>1, Zenon
    <3>2. IsFiniteSet(({} \cup {"dead"}) \cup {"unknown"})
      BY <2>1, <3>1, Zenon
    <3> QED BY <2>1, <3>2, Zenon
  <2>3. Swarms \subseteq (({} \cup {"dead"}) \cup {"unknown"}) \cup {"alive"}
    BY JackettAssumption
  <2> QED BY <2>2, <2>3, FS_Subset
<1>3. IsFiniteSet(Indexers \X Torrents)
  BY <1>1, FS_Product
<1>4. IsFiniteSet(P)
  BY <1>2, <1>3, FS_Product
<1>5. \A h \in Hits : \E p \in P : f[p] = h
  <2> SUFFICES ASSUME NEW h \in Hits
               PROVE  \E p \in P : f[p] = h
    OBVIOUS
  <2>1. <<<<h.ix, h.id>>, h.swarm>> \in P
    BY DEF Hits
  <2>2. f[<<<<h.ix, h.id>>, h.swarm>>] = h
    BY <2>1 DEF Hits
  <2> QED BY <2>1, <2>2
<1>6. f \in Surjection(P, Hits)
  <2>1. f \in [P -> Hits]
    BY DEF Hits
  <2> HIDE DEF f, P
  <2> QED BY <1>5, <2>1 DEF Surjection
<1> HIDE DEF f, P
<1> QED BY <1>4, <1>6, FS_Surjection

\* A list that was cut is full.
LEMMA CutIs ==
  ASSUME NEW T, NEW K \in Cut(T)
  PROVE  /\ K \subseteq T
         /\ K = T \/ (Cardinality(K) = MaxResults /\ ~(Cardinality(T) <= MaxResults))
         /\ T # {} => K # {}
<1>1. /\ K \subseteq T
      /\ K = T \/ (Cardinality(K) = MaxResults /\ ~(Cardinality(T) <= MaxResults))
  BY DEF Cut
<1>2. Cardinality({}) = 0 /\ MaxResults \in Nat \ {0}
  BY FS_EmptySet, JackettAssumption
<1> QED BY <1>1, <1>2

LEMMA RankedIsPart ==
  ASSUME NEW H, NEW K \in Ranked(H)
  PROVE  K \subseteq H
  BY CutIs DEF Ranked, Preferred

\* One hit of each link is first, alive if any of its copies is.
LEMMA FirstsAre ==
  ASSUME NEW H, H \subseteq Hits
  PROVE  /\ Firsts(H) \subseteq H
         /\ \A k \in H : \E f \in Firsts(H) :
              f \in H /\ SameLink(f, k) /\ (k.swarm = "alive" => f.swarm = "alive")
<1> DEFINE G(k) == {g \in H : SameLink(g, k)}
           first(k) == CHOOSE h \in G(k) : \A g \in H : SameLink(g, k) => Better(h, g)
<1>1. \A h \in H : h.swarm \in {"dead", "unknown", "alive"}
  BY JackettAssumption DEF Hits
<1>2. ASSUME NEW k \in H
      PROVE  first(k) \in G(k) /\ (\A g \in H : SameLink(g, k) => Better(first(k), g))
  <2>1. k \in G(k)
    BY DEF SameLink
  <2>2. \E h \in G(k) : \A g \in G(k) : Better(h, g)
    <3>1. CASE \E h \in G(k) : h.swarm = "alive"
      BY <3>1 DEF Better
    <3>2. CASE (\A h \in G(k) : h.swarm # "alive") /\ \E h \in G(k) : h.swarm = "unknown"
      BY <3>2 DEF Better
    <3>3. CASE \A h \in G(k) : h.swarm \notin {"alive", "unknown"}
      <4>1. \A g \in G(k) : g.swarm = "dead"
        BY <1>1, <3>3
      <4> QED BY <2>1, <4>1 DEF Better
    <3> QED BY <3>1, <3>2, <3>3
  <2>3. \E h \in G(k) : \A g \in H : SameLink(g, k) => Better(h, g)
    BY <2>2
  <2> QED BY <2>3
<1>3. Firsts(H) = {first(k) : k \in H}
  BY DEF Firsts
<1> HIDE DEF first
<1>4. Firsts(H) \subseteq H
  BY <1>2, <1>3
<1>5. ASSUME NEW k \in H
      PROVE  /\ first(k) \in Firsts(H) /\ first(k) \in H /\ SameLink(first(k), k)
             /\ k.swarm = "alive" => first(k).swarm = "alive"
  <2>1. SameLink(k, k)
    BY DEF SameLink
  <2>2. Better(first(k), k)
    BY <1>2, <2>1
  <2> QED BY <1>2, <1>3, <2>2 DEF Better
<1> QED BY <1>4, <1>5

LEMMA OthersArePart ==
  ASSUME NEW B, NEW H, B \subseteq Hits
  PROVE  Others(B, H) \subseteq B
  BY FirstsAre DEF Others

LEMMA MergeRankedIsPart ==
  ASSUME NEW A, NEW B, A \subseteq Hits, B \subseteq Hits, NEW M \in MergeRanked(A, B)
  PROVE  M \subseteq Hits
<1>1. Firsts(A) \cup Others(B, A) \subseteq Hits
  BY FirstsAre, OthersArePart
<1>2. CASE A # {} /\ B # {}
  BY <1>1, <1>2, RankedIsPart DEF MergeRanked
<1>3. CASE A = {} \/ B = {}
  BY <1>3 DEF MergeRanked
<1> QED BY <1>2, <1>3

LEMMA BatchesArePart ==
  ASSUME NEW i, NEW batch \in Batches(i)
  PROVE  batch \subseteq Hits
  BY DEF Batches

----------------------------------------------------------------------------
(* Jackett's search *)

LEMMA BudgetsAre ==
  /\ SearchBudget \in Nat /\ TorznabBudget \in Nat \ {0} /\ IndexerBudget \in Nat \ {0}
  /\ AllBudget \in Nat \ {0} /\ SearchBudget = TorznabBudget + IndexerBudget + AllBudget
  /\ TorznabBudget <= SearchBudget /\ IndexerBudget <= SearchBudget /\ AllBudget <= SearchBudget
  BY JackettAssumption

LEMMA ZeroIsTime == 0 \in 0..SearchBudget
  BY BudgetsAre

LEMMA SetKeepsJack ==
  ASSUME JackInv, NEW s \in Searches, NEW r, r \in JackTypes, Timely(r), Set(s, r)
  PROVE  JackInv'
<1>1. jack' = [jack EXCEPT ![s] = r] /\ jack \in [Searches -> JackTypes]
  BY DEF Set, JackInv
<1>2. jack' \in [Searches -> JackTypes]
  BY <1>1
<1>3. \A t \in Searches : jack'[t] = IF t = s THEN r ELSE jack[t]
  BY <1>1
<1> QED BY <1>2, <1>3 DEF JackInv

LEMMA NoSearchIs == NoSearch \in JackTypes /\ Timely(NoSearch)
  BY BudgetsAre DEF NoSearch, JackTypes, Passes, Timely

LEMMA EndPassKeepsJack ==
  ASSUME JackInv, NEW s \in Searches, NEW next \in {"again", "all", "links"}, EndPass(s, next),
         next = "again" => jack[s].pass = "torznab"
  PROVE  JackInv'
<1>a. PICK hits \in Ranked(jack[s].hits) : \E found \in MergeRanked(jack[s].found, hits) :
        Set(s, [jack[s] EXCEPT !.pass = IF PickerReady(found) THEN "links" ELSE next,
                               !.hits = {}, !.found = found, !.inPass = 0])
  BY DEF EndPass
<1>b. PICK found \in MergeRanked(jack[s].found, hits) :
        Set(s, [jack[s] EXCEPT !.pass = IF PickerReady(found) THEN "links" ELSE next,
                               !.hits = {}, !.found = found, !.inPass = 0])
  BY <1>a
<1> DEFINE pass == IF PickerReady(found) THEN "links" ELSE next
           r == [jack[s] EXCEPT !.pass = pass, !.hits = {}, !.found = found, !.inPass = 0]
<1>1. jack[s] \in JackTypes /\ Timely(jack[s]) /\ Set(s, r)
  BY <1>b DEF JackInv
<1>2. found \subseteq Hits
  <2>1. jack[s].found \subseteq Hits /\ jack[s].hits \subseteq Hits
    BY <1>1 DEF JackTypes
  <2> QED BY <2>1, RankedIsPart, MergeRankedIsPart
<1>3. pass \in Passes /\ pass \in {"again", "all", "links"} /\ (pass = "again" => next = "again")
  BY DEF Passes
<1> HIDE DEF pass
<1>4. r \in JackTypes
  BY <1>1, <1>2, <1>3, ZeroIsTime DEF JackTypes
<1>5. /\ r.pass = pass /\ r.spent = jack[s].spent /\ r.outside = jack[s].outside /\ r.inPass = 0
      /\ jack[s].spent \in Nat /\ jack[s].inPass \in Nat
  BY <1>1 DEF JackTypes
<1>6. Timely(r)
  BY <1>1, <1>3, <1>5, BudgetsAre DEF Timely
<1> HIDE DEF r
<1> QED BY <1>1, <1>4, <1>6, SetKeepsJack

LEMMA TickKeepsJack ==
  ASSUME JackInv, NEW s \in Searches, Tick(s)
  PROVE  JackInv'
<1> DEFINE j == jack[s]
           counted == j.pass \in {"torznab", "plain", "all"}
           inPass == IF counted THEN j.inPass + 1 ELSE j.inPass
           outside == j.outside \/ ~counted
           r == [j EXCEPT !.spent = @ + 1, !.inPass = inPass, !.outside = outside]
<1>1. /\ j \in JackTypes /\ Timely(j) /\ Running(s) /\ j.spent < SearchBudget
      /\ counted => j.inPass < Budget(j.pass)
      /\ Set(s, r)
  BY DEF Tick, JackInv
<1>2. counted => Budget(j.pass) <= SearchBudget /\ Budget(j.pass) \in Nat
  BY BudgetsAre DEF Budget
<1>3. j.spent \in Nat /\ j.inPass \in 0..SearchBudget
  BY <1>1, BudgetsAre DEF JackTypes
<1>4. inPass \in 0..SearchBudget /\ outside \in BOOLEAN
  BY <1>1, <1>2, <1>3, BudgetsAre
<1>5. r \in JackTypes
  <2> HIDE DEF inPass, outside, counted
  <2>1. j.spent + 1 \in 0..SearchBudget
    BY <1>1, <1>3, BudgetsAre
  <2> QED BY <1>1, <1>4, <2>1 DEF JackTypes
<1>6. r.pass = j.pass /\ r.spent = j.spent + 1 /\ r.inPass = inPass /\ (r.outside = outside)
  BY <1>1 DEF JackTypes
<1>7. j.pass = "torznab" => inPass <= TorznabBudget /\ inPass = j.inPass + 1
  BY <1>1, <1>3, BudgetsAre DEF Budget
<1>8. j.pass = "plain" => inPass <= IndexerBudget /\ inPass = j.inPass + 1
  BY <1>1, <1>3, BudgetsAre DEF Budget
<1>9. ~outside => ~j.outside /\ j.pass \in {"torznab", "plain", "all"}
  OBVIOUS
<1> HIDE DEF inPass, outside, counted, r
<1>10. Timely(r)
  BY <1>1, <1>3, <1>6, <1>7, <1>8, <1>9, BudgetsAre DEF Timely
<1> HIDE DEF j
<1> QED BY <1>1, <1>5, <1>10, SetKeepsJack

LEMMA JackettStepKeepsJack ==
  ASSUME JackInv, NEW s \in Searches, StartJackett(s) \/ JackettStep(s)
  PROVE  JackInv'
<1>0. /\ jack[s] \in JackTypes /\ Timely(jack[s])
      /\ jack[s].spent \in Nat /\ jack[s].inPass \in 0..SearchBudget
  BY BudgetsAre DEF JackInv, JackTypes
<1>1. CASE StartJackett(s)
  <2> DEFINE r == [NoSearch EXCEPT !.pass = "indexers"]
  <2>1. r \in JackTypes /\ r.spent = 0 /\ r.pass = "indexers"
    BY NoSearchIs DEF JackTypes, Passes, NoSearch
  <2>2. Timely(r)
    BY <2>1, BudgetsAre DEF Timely
  <2> QED BY <1>1, <2>1, <2>2, SetKeepsJack DEF StartJackett
<1>2. CASE StartTorznab(s)
  <2>1. PICK listed \in {{}, Unasked(s)}, exact \in {{}, Exact} :
          Set(s, [jack[s] EXCEPT !.pass = "torznab", !.inPass = 0,
                                 !.asked = listed, !.exact = listed \cap exact])
    BY <1>2 DEF StartTorznab
  <2> DEFINE r == [jack[s] EXCEPT !.pass = "torznab", !.inPass = 0,
                                  !.asked = listed, !.exact = listed \cap exact]
  <2>2. listed \in SUBSET Indexers /\ listed \cap exact \in SUBSET Exact /\ jack[s].pass = "indexers"
    BY <1>2 DEF Unasked, StartTorznab
  <2>3. r \in JackTypes
    BY <1>0, <2>2, ZeroIsTime DEF JackTypes, Passes
  <2>4. r.pass = "torznab" /\ r.spent = jack[s].spent /\ r.inPass = 0 /\ (r.outside = jack[s].outside)
    BY <1>0 DEF JackTypes
  <2> HIDE DEF r
  <2>5. Timely(r)
    BY <1>0, <2>2, <2>4, BudgetsAre DEF Timely
  <2> QED BY <2>1, <2>3, <2>5, SetKeepsJack DEF r
<1>3. CASE StartPlain(s)
  <2>1. PICK listed \in {{}, Unasked(s)} :
          Set(s, [jack[s] EXCEPT !.pass = "plain", !.inPass = 0, !.asked = listed])
    BY <1>3 DEF StartPlain
  <2> DEFINE r == [jack[s] EXCEPT !.pass = "plain", !.inPass = 0, !.asked = listed]
  <2>2. listed \in SUBSET Indexers /\ jack[s].pass = "again"
    BY <1>3 DEF Unasked, StartPlain
  <2>3. r \in JackTypes
    BY <1>0, <2>2, ZeroIsTime DEF JackTypes, Passes
  <2>4. r.pass = "plain" /\ r.spent = jack[s].spent /\ r.inPass = 0 /\ (r.outside = jack[s].outside)
    BY <1>0 DEF JackTypes
  <2> HIDE DEF r
  <2>5. Timely(r)
    BY <1>0, <2>2, <2>4, BudgetsAre DEF Timely
  <2> QED BY <2>1, <2>3, <2>5, SetKeepsJack DEF r
\* Answers, failures and the end of a budget leave the clock alone.
<1>4. ASSUME NEW r \in JackTypes, Set(s, r), r.pass = jack[s].pass, r.spent = jack[s].spent,
             r.inPass = jack[s].inPass, r.outside = jack[s].outside
      PROVE  JackInv'
  <2>1. Timely(r)
    BY <1>0, <1>4 DEF Timely
  <2> QED BY <1>4, <2>1, SetKeepsJack
<1>5. ASSUME NEW i \in Indexers, IndexerAnswers(s, i)
      PROVE  JackInv'
  <2>1. PICK batch \in Batches(i) :
          LET hits == jack[s].hits \cup batch
              exact == jack[s].exact \ {i}
              enough == exact = {} /\ EndsPass(hits)
          IN Set(s, [jack[s] EXCEPT !.hits = hits, !.exact = exact,
                       !.asked = IF enough THEN {} ELSE jack[s].asked \ {i}])
    BY <1>5 DEF IndexerAnswers
  <2> DEFINE hits == jack[s].hits \cup batch
             exact == jack[s].exact \ {i}
             to_ask == IF exact = {} /\ EndsPass(hits) THEN {} ELSE jack[s].asked \ {i}
             r == [jack[s] EXCEPT !.hits = hits, !.exact = exact, !.asked = to_ask]
  <2>2. hits \subseteq Hits /\ exact \subseteq Exact /\ to_ask \subseteq Indexers
    BY <1>0, BatchesArePart DEF JackTypes
  <2>3. Set(s, r)
    BY <2>1
  <2> HIDE DEF hits, exact, to_ask
  <2>4. r \in JackTypes /\ r.pass = jack[s].pass /\ r.spent = jack[s].spent
        /\ r.inPass = jack[s].inPass /\ (r.outside = jack[s].outside)
    BY <1>0, <2>2 DEF JackTypes
  <2> QED BY <1>4, <2>3, <2>4
<1>6. ASSUME NEW i \in Indexers, IndexerFails(s, i)
      PROVE  JackInv'
  <2>1. PICK skip \in {{}, {i}} :
          Set(s, [jack[s] EXCEPT !.asked = @ \ {i}, !.exact = @ \ {i}, !.skip = @ \cup skip])
    BY <1>6 DEF IndexerFails
  <2> DEFINE r == [jack[s] EXCEPT !.asked = @ \ {i}, !.exact = @ \ {i}, !.skip = @ \cup skip]
  <2>2. r \in JackTypes /\ r.pass = jack[s].pass /\ r.spent = jack[s].spent
        /\ r.inPass = jack[s].inPass /\ (r.outside = jack[s].outside)
    BY <1>0 DEF JackTypes
  <2> QED BY <1>4, <2>1, <2>2
<1>7. CASE PassTimesOut(s)
  <2> DEFINE r == [jack[s] EXCEPT !.asked = {}, !.exact = {}]
  <2>1. r \in JackTypes /\ r.pass = jack[s].pass /\ r.spent = jack[s].spent
        /\ r.inPass = jack[s].inPass /\ (r.outside = jack[s].outside)
    BY <1>0 DEF JackTypes
  <2> QED BY <1>4, <1>7, <2>1 DEF PassTimesOut
<1>8. CASE EndTorznab(s)
  BY <1>8, EndPassKeepsJack DEF EndTorznab
<1>9. CASE EndPlain(s)
  BY <1>9, EndPassKeepsJack DEF EndPlain
<1>10. CASE SearchAll(s)
  <2>1. PICK answer \in [Indexers -> UNION {Batches(i) : i \in Indexers}] :
          /\ \A i \in Indexers : answer[i] \in Batches(i)
          /\ Set(s, [jack[s] EXCEPT !.pass = "merge", !.hits = UNION {answer[i] : i \in Indexers}])
    BY <1>10 DEF SearchAll
  <2> DEFINE hits == UNION {answer[i] : i \in Indexers}
             r == [jack[s] EXCEPT !.pass = "merge", !.hits = hits]
  <2>2. hits \subseteq Hits
    BY <2>1, BatchesArePart
  <2>5. Set(s, r)
    BY <2>1
  <2> HIDE DEF hits
  <2>3. r \in JackTypes /\ r.pass = "merge"
    BY <1>0, <2>2 DEF JackTypes, Passes
  <2>4. Timely(r)
    BY <2>3 DEF Timely
  <2> QED BY <2>3, <2>4, <2>5, SetKeepsJack
<1>11. CASE EndAll(s)
  BY <1>11, EndPassKeepsJack DEF EndAll
<1>12. CASE ResolveLinks(s)
  <2>1. PICK lost \in SUBSET {h \in jack[s].found : h.ix \in NoMagnet} :
          Set(s, [NoSearch EXCEPT !.pass = "done", !.found = jack[s].found \ lost])
    BY <1>12 DEF ResolveLinks
  <2> DEFINE r == [NoSearch EXCEPT !.pass = "done", !.found = jack[s].found \ lost]
  <2>2. jack[s].found \ lost \subseteq Hits
    BY <1>0 DEF JackTypes
  <2>3. r \in JackTypes /\ r.spent = 0 /\ r.pass = "done"
    BY <2>2, NoSearchIs DEF JackTypes, Passes, NoSearch
  <2>4. Timely(r)
    BY <2>3 DEF Timely
  <2> QED BY <2>1, <2>3, <2>4, SetKeepsJack
<1>13. CASE Tick(s)
  BY <1>13, TickKeepsJack
<1>14. CASE JackettTimesOut(s)
  <2> DEFINE r == [NoSearch EXCEPT !.pass = "late"]
  <2>1. r \in JackTypes /\ r.spent = 0 /\ r.pass = "late"
    BY NoSearchIs DEF JackTypes, Passes, NoSearch
  <2>2. Timely(r)
    BY <2>1 DEF Timely
  <2> QED BY <1>14, <2>1, <2>2, SetKeepsJack DEF JackettTimesOut
<1> QED BY <1>1, <1>2, <1>3, <1>5, <1>6, <1>7, <1>8, <1>9, <1>10, <1>11, <1>12, <1>13, <1>14
        DEF JackettStep

----------------------------------------------------------------------------
(* Merging and ranking *)

LEMMA EntriesAre ==
  ASSUME NEW e \in Entries
  PROVE  /\ e.id \in Torrents => e.swarm \in Swarms /\ e = [id |-> e.id, swarm |-> e.swarm]
         /\ e.swarm \in {"dead", "unknown", "alive"} => e.id \in Torrents
         /\ e.swarm = "link" <=> e.id \notin Torrents
         /\ e.swarm \in {"dead", "unknown", "alive", "link"}
  BY JackettAssumption, StreamSearchAssumption DEF Entries

LEMMA ListedAre ==
  ASSUME NEW e \in Entries \cup Hits
  PROVE  /\ e.swarm \in {"dead", "unknown", "alive", "link"}
         /\ e.swarm = "link" => e \in Entries
         /\ e.id \in Torrents => e.swarm \in Swarms
         /\ e.swarm = "alive" => e.id \in Torrents
<1>1. CASE e \in Entries
  BY <1>1, EntriesAre
<1>2. CASE e \in Hits
  BY <1>2, JackettAssumption DEF Hits
<1> QED BY <1>1, <1>2

LEMMA MergeKeepsBest ==
  ASSUME NEW E, E \subseteq Entries \cup Hits
  PROVE  /\ Merge(E) \subseteq Entries
         /\ \A e \in E : e.swarm = "alive" => [id |-> e.id, swarm |-> "alive"] \in Merge(E)
         /\ \A e \in E : e.swarm = "link" => e \in Merge(E)
<1>1. ASSUME NEW i \in {e.id : e \in E} \cap Torrents
      PROVE  [id |-> i, swarm |-> BestSwarm({e \in E : e.id = i})] \in Entries
  <2> DEFINE F == {e \in E : e.id = i}
  <2>1. \A e \in F : e.swarm \in Swarms /\ e.swarm \in {"dead", "unknown", "alive"}
    BY <1>1, ListedAre, JackettAssumption
  <2>2. F # {}
    BY <1>1
  <2>3. BestSwarm(F) \in Swarms
    <3> HIDE DEF F
    <3> QED BY <2>1, <2>2 DEF BestSwarm
  <2> QED BY <1>1, <2>3 DEF Entries
<1>2. ASSUME NEW e \in E, e.swarm = "alive"
      PROVE  [id |-> e.id, swarm |-> "alive"] \in Merge(E)
  <2>1. e.id \in Torrents
    BY <1>2, ListedAre
  <2>2. BestSwarm({d \in E : d.id = e.id}) = "alive"
    BY <1>2 DEF BestSwarm
  <2> QED BY <2>1, <2>2 DEF Merge
<1>3. \A e \in E : e.swarm = "link" => e \in Merge(E)
  BY DEF Merge
<1>4. Merge(E) \subseteq Entries
  <2>1. \A e \in E : e.swarm = "link" => e \in Entries
    BY ListedAre
  <2> QED BY <1>1, <2>1 DEF Merge
<1> QED BY <1>2, <1>3, <1>4

LEMMA RankKeepsBest ==
  ASSUME NEW E, NEW K \in Rank(E)
  PROVE  /\ K \subseteq E /\ (E # {} => K # {})
         /\ \A e \in E : Living(e) =>
              e \in K \/ (Cardinality(K) = MaxResults /\ \A d \in K : Living(d))
<1> DEFINE T == Preferred(E, {e \in E : Living(e)})
<1>1. /\ T \subseteq E /\ (E # {} => T # {})
      /\ \A e \in E : Living(e) => e \in T /\ \A d \in T : Living(d)
  BY DEF Preferred
<1>2. K \in Cut(T)
  BY DEF Rank
<1> HIDE DEF T
<1> QED BY <1>1, <1>2, CutIs

LEMMA EnoughIsSomething ==
  ASSUME NEW got, Enough(got)
  PROVE  \E p \in Sources : \E e \in got[p].list : e.swarm \in {"alive", "link"}
<1> DEFINE S == {pe \in Sources \X (Entries \cup Hits) :
                   pe[2] \in got[pe[1]].list /\ pe[2].swarm \in {"alive", "link"}}
<1>1. Cardinality(S) >= SourcesEnough
  BY DEF Enough
<1>2. SourcesEnough \in Nat \ {0}
  BY StreamSearchAssumption
<1>3. S # {}
  <2> SUFFICES ASSUME S = {}
               PROVE  FALSE
    OBVIOUS
  <2>1. Cardinality(S) = 0
    BY FS_EmptySet
  <2> HIDE DEF S
  <2> QED BY <1>1, <1>2, <2>1
<1>4. PICK pe \in S : TRUE
  BY <1>3
<1> QED BY <1>4

----------------------------------------------------------------------------
(* The search *)

LEMMA SetKeepsSearches ==
  ASSUME SearchInv, NEW s \in Searches, NEW r, Sound(r), SetSearch(s, r)
  PROVE  search' \in [Searches -> SearchTypes] /\ \A t \in Searches : Sound(search'[t])
<1>1. search' = [search EXCEPT ![s] = r] /\ search \in [Searches -> SearchTypes] /\ r \in SearchTypes
  BY DEF SetSearch, SearchInv, TypeOK, Sound
<1>2. \A t \in Searches : search'[t] = IF t = s THEN r ELSE search[t]
  BY <1>1
<1> QED BY <1>1, <1>2 DEF SearchInv

\* A step of a search that leaves the rest alone.
LEMMA SearchStepKeeps ==
  ASSUME SearchInv, NEW s \in Searches, NEW r, Sound(r), SetSearch(s, r),
         JackInv', UNCHANGED <<on, offs, cache>>
  PROVE  SearchInv'
<1>1. search' \in [Searches -> SearchTypes] /\ \A t \in Searches : Sound(search'[t])
  BY SetKeepsSearches
<1>2. TypeOK'
  BY <1>1 DEF SearchInv, TypeOK, JackInv
<1> QED BY <1>1, <1>2 DEF SearchInv

LEMMA JackStays ==
  ASSUME SearchInv, UNCHANGED jack
  PROVE  JackInv'
  BY DEF SearchInv, JackInv

LEMMA NoRepliesAre ==
  /\ NoReply \in [state : Replies, list : Lists]
  /\ NoReplies \in [Sources -> [state : Replies, list : Lists]]
  /\ \A p \in Sources : NoReplies[p].list = {} /\ NoReplies[p].state = "none"
  BY DEF NoReply, NoReplies, Replies, Lists

\* Nothing was gathered yet, or all of it was given away with the answer.
LEMMA FreshIsSound ==
  ASSUME NEW r \in SearchTypes, r.got = NoReplies, ~r.grace, ~r.refused,
         r.pc \notin {"check", "probe", "store"}, r.pc # "done" => r.answer = None,
         r.answer \notin {"empty", "fallback", "error"}, Named(r)
  PROVE  Sound(r)
  BY NoRepliesAre DEF Sound, Unrefused, Worthwhile, CarriedOn

LEMMA IdleIs ==
  /\ Idle \in SearchTypes /\ Idle.got = NoReplies /\ ~Idle.grace /\ ~Idle.refused
  /\ Idle.pc = "idle" /\ Idle.answer = None /\ Sound(Idle)
<1>1. /\ Idle \in SearchTypes /\ Idle.got = NoReplies /\ ~Idle.grace /\ ~Idle.refused
      /\ Idle.pc = "idle" /\ Idle.answer = None
  BY NoRepliesAre DEF Idle, SearchTypes
<1>2. Sound(Idle)
  BY <1>1, FreshIsSound, NoneAssumption DEF Answers, Named
<1> QED BY <1>1, <1>2

LEMMA SearchIs ==
  ASSUME SearchInv, NEW s \in Searches
  PROVE  /\ search[s] \in SearchTypes /\ Sound(search[s]) /\ search[s].sig \subseteq Sources
         /\ on \subseteq Sources
  BY DEF SearchInv, TypeOK, Sound, SearchTypes

LEMMA StartKeeps ==
  ASSUME SearchInv, NEW s \in Searches, Start(s)
  PROVE  SearchInv'
<1>1. PICK titled \in Titled, live \in BOOLEAN :
        SetSearch(s, [Idle EXCEPT !.pc = "lookup", !.titled = titled, !.live = live, !.sig = on])
  BY DEF Start
<1> DEFINE r == [Idle EXCEPT !.pc = "lookup", !.titled = titled, !.live = live, !.sig = on]
<1>2. titled \in BOOLEAN /\ on \subseteq Sources
  BY StreamSearchAssumption, SearchIs
<1>3. r \in SearchTypes /\ r.got = NoReplies /\ ~r.grace /\ ~r.refused /\ r.pc = "lookup"
      /\ r.answer = None /\ r.titled \in Titled
  BY <1>2, NoRepliesAre DEF Idle, SearchTypes
<1> HIDE DEF r
<1>4. Sound(r)
  BY <1>3, FreshIsSound, NoneAssumption DEF Answers, Named
<1>5. SetSearch(s, r)
  BY <1>1 DEF r
<1> QED BY <1>4, <1>5, JackStays, SearchStepKeeps DEF Start

LEMMA AnswerIsSound ==
  ASSUME SearchInv, NEW s \in Searches, NEW answer \in {"cached", "found"}, NEW made \in SUBSET Sources,
         Answer(s, answer, made)
  PROVE  \E r : Sound(r) /\ SetSearch(s, r)
<1> DEFINE r == [Idle EXCEPT !.pc = "done", !.answer = answer, !.made = made, !.sig = search[s].sig]
<1>1. /\ r \in SearchTypes /\ r.got = NoReplies /\ ~r.grace /\ ~r.refused
      /\ r.pc = "done" /\ r.answer = answer
  BY SearchIs, NoRepliesAre DEF Idle, SearchTypes, Answers
<1>2. SetSearch(s, r)
  BY DEF Answer
<1> HIDE DEF r
<1>3. Sound(r)
  BY <1>1, FreshIsSound DEF Named
<1> QED BY <1>2, <1>3

LEMMA LookupKeeps ==
  ASSUME SearchInv, NEW s \in Searches, Lookup(s)
  PROVE  SearchInv'
<1> DEFINE row == cache[Key(search[s].titled, search[s].sig)]
           usable == row # None /\ ~search[s].live /\ row.fresh
<1>1. UNCHANGED <<jack, on, offs, cache>> /\ search[s].pc = "lookup"
  BY DEF Lookup
<1>2. CASE usable /\ Answer(s, "cached", row.sources)
  <2>1. Key(search[s].titled, search[s].sig) \in Keys
    <3>1. search[s].titled \in Titled
      BY <1>1, SearchIs DEF Sound, Named
    <3> QED BY <3>1, SearchIs DEF Keys
  <2>2. row \in Row
    BY <1>2, <2>1 DEF SearchInv, TypeOK
  <2>3. row.sources \in SUBSET Sources
    BY <2>2 DEF Row
  <2> HIDE DEF row
  <2> QED BY <1>1, <1>2, <2>3, AnswerIsSound, JackStays, SearchStepKeeps
<1>3. ASSUME NEW fallback \in {FALSE, row # None /\ ~usable},
             SetSearch(s, [search[s] EXCEPT !.pc = "ask", !.live = FALSE, !.fallback = fallback])
      PROVE  SearchInv'
  <2> DEFINE r == [search[s] EXCEPT !.pc = "ask", !.live = FALSE, !.fallback = fallback]
  <2>1. fallback \in BOOLEAN
    OBVIOUS
  <2>2. /\ r \in SearchTypes /\ r.got = search[s].got /\ (r.grace = search[s].grace) /\ r.pc = "ask"
        /\ r.answer = search[s].answer /\ (r.refused = search[s].refused)
        /\ (r.titled = search[s].titled)
    <3> HIDE DEF row, usable
    <3> QED BY <2>1, SearchIs DEF SearchTypes
  <2> HIDE DEF r
  <2>3. Sound(r)
    BY <1>1, <2>2, SearchIs DEF Sound, Named, Unrefused, Worthwhile, CarriedOn, Useful
  <2>4. SetSearch(s, r)
    BY <1>3 DEF r
  <2> QED BY <1>1, <2>3, <2>4, JackStays, SearchStepKeeps
<1> QED BY <1>2, <1>3 DEF Lookup

LEMMA AskKeeps ==
  ASSUME SearchInv, NEW s \in Searches, Ask(s)
  PROVE  SearchInv'
<1>1. PICK addons \in {{}, on \cap Addons} :
        LET to_ask == (search[s].sig \cap {Jackett}) \cup addons
        IN SetSearch(s, [search[s] EXCEPT !.pc = "gather",
             !.got = [p \in Sources |-> IF p \in to_ask THEN [NoReply EXCEPT !.state = "asked"]
                                        ELSE NoReply]])
  BY DEF Ask
<1>2. UNCHANGED <<jack, on, offs, cache>> /\ search[s].pc = "ask"
  BY DEF Ask
<1> DEFINE to_ask == (search[s].sig \cap {Jackett}) \cup addons
           got == [p \in Sources |-> IF p \in to_ask THEN [NoReply EXCEPT !.state = "asked"] ELSE NoReply]
           r == [search[s] EXCEPT !.pc = "gather", !.got = got]
<1>3. /\ got \in [Sources -> [state : Replies, list : Lists]]
      /\ \A p \in Sources : got[p].list = {} /\ got[p].state \in {"none", "asked"}
  <2> HIDE DEF to_ask
  <2> QED BY DEF NoReply, Replies, Lists
<1>4. SetSearch(s, r)
  BY <1>1
<1> HIDE DEF got
<1>5. /\ r \in SearchTypes /\ r.pc = "gather" /\ r.got = got /\ (r.grace = search[s].grace)
      /\ r.answer = search[s].answer /\ (r.titled = search[s].titled)
      /\ (r.refused = search[s].refused)
  BY <1>3, SearchIs DEF SearchTypes
<1> HIDE DEF r
<1>6. r.answer = None /\ r.titled \in Titled /\ Unrefused(r)
  BY <1>2, <1>5, SearchIs DEF Sound, Named, Unrefused, CarriedOn
<1>7. Sound(r)
  <2>1. ~search[s].grace
    BY <1>2, SearchIs DEF Sound, Worthwhile
  <2>2. Worthwhile(r)
    BY <1>3, <1>5, <2>1 DEF Worthwhile
  <2>3. CarriedOn(r)
    BY <1>5, <1>6, NoneAssumption DEF CarriedOn, Answers
  <2> QED BY <1>5, <1>6, <2>2, <2>3 DEF Sound, Named
<1> QED BY <1>2, <1>4, <1>7, JackStays, SearchStepKeeps

\* A source is through with its part: it found something that is listed, or has no list.
LEMMA ReplyIsSound ==
  ASSUME SearchInv, NEW s \in Searches, search[s].pc = "gather", NEW p \in Sources, p \in Waiting(s),
         NEW reply \in [state : {"found", "failed", "slow"}, list : Lists], Reply(s, p, reply)
  PROVE  \E r : Sound(r) /\ SetSearch(s, r)
<1> DEFINE got == [search[s].got EXCEPT ![p] = reply]
           grace == search[s].grace \/ (Waiting(s) # {p} /\ Enough(got))
           r == [search[s] EXCEPT !.got = got, !.grace = grace]
<1>1. SetSearch(s, r)
  BY DEF Reply
<1>2. /\ search[s].got \in [Sources -> [state : Replies, list : Lists]]
      /\ search[s] \in SearchTypes /\ Named(search[s]) /\ Unrefused(search[s])
      /\ Worthwhile(search[s]) /\ CarriedOn(search[s])
  BY SearchIs DEF Sound, SearchTypes
<1>3. /\ got \in [Sources -> [state : Replies, list : Lists]]
      /\ \A q \in Sources : got[q] = IF q = p THEN reply ELSE search[s].got[q]
      /\ reply.state \in {"found", "failed", "slow"}
  BY <1>2 DEF Replies
<1>4. search[s].got[p].list = {}
  BY <1>2 DEF Worthwhile, Waiting
<1>5. Enough(got) => \E q \in Sources : \E e \in got[q].list : e.swarm \in {"alive", "link"}
  <2> HIDE DEF got
  <2> QED BY EnoughIsSomething
<1>6. Useful(search[s]) => \E q \in Sources : \E e \in got[q].list : e.swarm \in {"alive", "link"}
  BY <1>3, <1>4 DEF Useful
<1>7. grace \in BOOLEAN
  BY <1>2 DEF SearchTypes
<1>8. grace => search[s].grace \/ Enough(got)
  OBVIOUS
<1> HIDE DEF got, grace
<1>9. /\ r \in SearchTypes /\ r.pc = "gather" /\ r.got = got /\ (r.grace = grace)
      /\ r.answer = search[s].answer /\ (r.titled = search[s].titled)
      /\ (r.refused = search[s].refused)
  BY <1>2, <1>3, <1>7 DEF SearchTypes
<1> HIDE DEF r
<1>10. Worthwhile(r)
  <2>1. grace \/ (\E q \in Sources : got[q].state = "cut") => Useful(r)
    BY <1>2, <1>3, <1>5, <1>6, <1>8, <1>9 DEF Worthwhile, Useful
  <2>2. \A q \in Sources : got[q].state \in {"none", "asked", "cut"} => got[q].list = {}
    BY <1>2, <1>3 DEF Worthwhile
  <2> QED BY <1>9, <2>1, <2>2 DEF Worthwhile
<1>11. Named(r) /\ Unrefused(r) /\ CarriedOn(r)
  BY <1>2, <1>9, NoneAssumption DEF Named, Unrefused, CarriedOn, Answers
<1> QED BY <1>1, <1>9, <1>10, <1>11 DEF Sound

LEMMA AddonRepliesKeeps ==
  ASSUME SearchInv, NEW s \in Searches, NEW a \in Addons, AddonReplies(s, a)
  PROVE  SearchInv'
<1>1. PICK reply \in [state : {"found"}, list : AddonLists]
                       \cup [state : {"failed", "slow"}, list : {{}}] : Reply(s, a, reply)
  BY DEF AddonReplies
<1>2. reply \in [state : {"found", "failed", "slow"}, list : Lists] /\ a \in Sources
  BY DEF AddonLists, Lists, Sources
<1>3. PICK r : Sound(r) /\ SetSearch(s, r)
  BY <1>1, <1>2, ReplyIsSound DEF AddonReplies
<1> QED BY <1>3, JackStays, SearchStepKeeps DEF AddonReplies

LEMMA JackettRepliesKeeps ==
  ASSUME SearchInv, NEW s \in Searches, JackettReplies(s)
  PROVE  SearchInv'
<1>1. /\ search[s].pc = "gather" /\ Jackett \in Waiting(s) /\ Jackett \in Sources
      /\ Set(s, NoSearch) /\ UNCHANGED <<on, offs, cache>>
  BY DEF JackettReplies, Sources
<1>2. JackInv'
  BY <1>1, NoSearchIs, SetKeepsJack DEF SearchInv
<1>3. jack[s].found \in Lists
  BY DEF SearchInv, JackInv, JackTypes, Lists
<1>4. PICK reply \in [state : {"found", "failed", "slow"}, list : Lists] : Reply(s, Jackett, reply)
  <2>1. CASE Reply(s, Jackett, [state |-> "found", list |-> jack[s].found])
    BY <1>3, <2>1
  <2>2. CASE Reply(s, Jackett, [state |-> "slow", list |-> {}])
    BY <2>2 DEF Lists
  <2> QED BY <2>1, <2>2 DEF JackettReplies
<1>5. PICK r : Sound(r) /\ SetSearch(s, r)
  BY <1>1, <1>4, ReplyIsSound
<1> QED BY <1>1, <1>2, <1>5, SearchStepKeeps

LEMMA CutShortKeeps ==
  ASSUME SearchInv, NEW s \in Searches, CutShort(s)
  PROVE  SearchInv'
<1> DEFINE got == [p \in Sources |-> IF p \in Waiting(s) THEN [NoReply EXCEPT !.state = "cut"]
                                     ELSE search[s].got[p]]
           r == [search[s] EXCEPT !.got = got]
<1>1. /\ search[s].pc = "gather" /\ search[s].grace /\ SetSearch(s, r)
      /\ Set(s, NoSearch) /\ UNCHANGED <<on, offs, cache>>
  BY DEF CutShort
<1>2. /\ search[s].got \in [Sources -> [state : Replies, list : Lists]]
      /\ search[s] \in SearchTypes /\ Named(search[s]) /\ Unrefused(search[s])
      /\ Worthwhile(search[s]) /\ CarriedOn(search[s])
  BY SearchIs DEF Sound, SearchTypes
<1>3. \A p \in Sources : got[p] = (IF p \in Waiting(s) THEN [NoReply EXCEPT !.state = "cut"]
                                     ELSE search[s].got[p])
  OBVIOUS
<1>4. [NoReply EXCEPT !.state = "cut"] = [state |-> "cut", list |-> {}]
  BY DEF NoReply
<1>5. got \in [Sources -> [state : Replies, list : Lists]]
  BY <1>2, <1>4 DEF Replies, Lists
<1>6. \A p \in Waiting(s) : search[s].got[p].list = {}
  BY <1>2 DEF Worthwhile, Waiting
<1> HIDE DEF got
<1>7. /\ r \in SearchTypes /\ r.pc = "gather" /\ r.got = got /\ (r.grace = search[s].grace)
      /\ r.answer = search[s].answer /\ (r.titled = search[s].titled)
      /\ (r.refused = search[s].refused)
  BY <1>1, <1>2, <1>5 DEF SearchTypes
<1>8. Useful(search[s])
  BY <1>1, <1>2 DEF Worthwhile
<1>9. Useful(r)
  <2>1. PICK p \in Sources : \E e \in search[s].got[p].list : e.swarm \in {"alive", "link"}
    BY <1>8 DEF Useful
  <2>2. got[p] = search[s].got[p]
    BY <1>3, <1>6, <2>1
  <2> QED BY <1>7, <2>1, <2>2 DEF Useful
<1>10. \A p \in Sources : got[p].state \in {"none", "asked", "cut"} => got[p].list = {}
  BY <1>2, <1>3, <1>4 DEF Worthwhile
<1>11. Sound(r)
  BY <1>2, <1>7, <1>9, <1>10, <1>1, NoneAssumption DEF Sound, Named, Unrefused, Worthwhile, CarriedOn, Answers
<1>12. JackInv'
  BY <1>1, NoSearchIs, SetKeepsJack DEF SearchInv
<1> QED BY <1>1, <1>11, <1>12, SearchStepKeeps

LEMMA EndGatherKeeps ==
  ASSUME SearchInv, NEW s \in Searches, EndGather(s)
  PROVE  SearchInv'
<1> DEFINE all == UNION {search[s].got[p].list : p \in Sources}
           r == [search[s] EXCEPT !.pc = "check", !.grace = FALSE, !.found = Merge(all)]
<1>1. SetSearch(s, r) /\ UNCHANGED <<jack, on, offs, cache>> /\ search[s].pc = "gather"
  BY DEF EndGather
<1>2. /\ search[s].got \in [Sources -> [state : Replies, list : Lists]]
      /\ search[s] \in SearchTypes /\ Named(search[s]) /\ Unrefused(search[s])
      /\ Worthwhile(search[s]) /\ CarriedOn(search[s])
  BY SearchIs DEF Sound, SearchTypes
<1>3. all \subseteq Entries \cup Hits
  BY <1>2 DEF Lists
<1>4. /\ Merge(all) \subseteq Entries
      /\ \A e \in all : e.swarm = "alive" => [id |-> e.id, swarm |-> "alive"] \in Merge(all)
      /\ \A e \in all : e.swarm = "link" => e \in Merge(all)
  <2> HIDE DEF all
  <2> QED BY <1>3, MergeKeepsBest
<1>5. /\ r \in SearchTypes /\ r.pc = "check" /\ r.got = search[s].got /\ ~r.grace
      /\ r.found = Merge(all) /\ r.answer = search[s].answer /\ (r.titled = search[s].titled)
      /\ (r.refused = search[s].refused)
  <2> HIDE DEF all
  <2> QED BY <1>2, <1>4 DEF SearchTypes
<1>6. \A p \in Sources : \A e \in search[s].got[p].list :
        /\ e.swarm = "alive" => [id |-> e.id, swarm |-> "alive"] \in Merge(all)
        /\ e.swarm = "link" => e \in Merge(all)
  <2>1. \A p \in Sources : search[s].got[p].list \subseteq all
    OBVIOUS
  <2> HIDE DEF all
  <2> QED BY <1>4, <2>1
<1> HIDE DEF r, all
<1>7. Worthwhile(r)
  BY <1>2, <1>5 DEF Worthwhile, Useful
<1>8. Named(r) /\ Unrefused(r) /\ CarriedOn(r)
  BY <1>1, <1>2, <1>5, <1>6, NoneAssumption DEF Named, Unrefused, CarriedOn, Answers
<1> QED BY <1>1, <1>5, <1>7, <1>8, JackStays, SearchStepKeeps DEF Sound

\* Checking links and ranking leave the replies alone.
LEMMA CarriesOn ==
  ASSUME SearchInv, NEW s \in Searches, search[s].pc \in {"check", "probe"},
         NEW r \in SearchTypes, SetSearch(s, r), r.pc \in {"probe", "store"},
         r.got = search[s].got, r.grace = search[s].grace, r.answer = search[s].answer,
         r.titled = search[s].titled, CarriedOn(r), UNCHANGED <<jack, on, offs, cache>>
  PROVE  SearchInv'
<1>1. Named(search[s]) /\ Worthwhile(search[s])
  BY SearchIs DEF Sound
<1>2. Worthwhile(r)
  BY <1>1 DEF Worthwhile, Useful
<1>3. Named(r) /\ Unrefused(r)
  BY <1>1 DEF Named, Unrefused
<1> QED BY <1>2, <1>3, JackStays, SearchStepKeeps DEF Sound

LEMMA CheckLinksKeeps ==
  ASSUME SearchInv, NEW s \in Searches, CheckLinks(s)
  PROVE  SearchInv'
<1>1. PICK refused \in SUBSET {e \in search[s].found : e.swarm = "link"} :
        SetSearch(s, [search[s] EXCEPT !.pc = "probe", !.found = @ \ refused, !.refused = refused # {}])
  BY DEF CheckLinks
<1> DEFINE any == refused # {}
           r == [search[s] EXCEPT !.pc = "probe", !.found = @ \ refused, !.refused = any]
<1>2. /\ search[s] \in SearchTypes /\ search[s].found \subseteq Entries /\ search[s].pc = "check"
      /\ UNCHANGED <<jack, on, offs, cache>>
  BY SearchIs DEF SearchTypes, CheckLinks
<1>3. SetSearch(s, r) /\ any \in BOOLEAN /\ (~any => refused = {})
  BY <1>1
<1> HIDE DEF any
<1>4. /\ r \in SearchTypes /\ r.pc = "probe" /\ r.got = search[s].got /\ (r.grace = search[s].grace)
      /\ r.found = search[s].found \ refused /\ r.answer = search[s].answer
      /\ (r.titled = search[s].titled) /\ (r.refused = any)
  BY <1>2, <1>3 DEF SearchTypes
<1>5. CarriedOn(search[s]) /\ ~search[s].refused
  BY <1>2, SearchIs DEF Sound, Unrefused
<1>6. ~any => r.found = search[s].found
  BY <1>3, <1>4
<1>7. \A i : [id |-> i, swarm |-> "alive"] \in search[s].found => [id |-> i, swarm |-> "alive"] \in r.found
  BY <1>1, <1>4
<1> HIDE DEF r
<1>8. CarriedOn(r)
  BY <1>2, <1>4, <1>5, <1>6, <1>7, NoneAssumption DEF CarriedOn, Answers
<1> QED BY <1>2, <1>3, <1>4, <1>8, CarriesOn

LEMMA ProbeKeeps ==
  ASSUME SearchInv, NEW s \in Searches, Probe(s)
  PROVE  SearchInv'
<1>1. PICK met \in SUBSET {e \in search[s].found : e.swarm \in {"dead", "unknown"}} :
        \E K \in Rank((search[s].found \ met) \cup {[e EXCEPT !.swarm = "alive"] : e \in met}) :
          SetSearch(s, [search[s] EXCEPT !.pc = "store", !.found = K])
  BY DEF Probe
<1> DEFINE known == (search[s].found \ met) \cup {[e EXCEPT !.swarm = "alive"] : e \in met}
<1>a. PICK K \in Rank(known) : SetSearch(s, [search[s] EXCEPT !.pc = "store", !.found = K])
  BY <1>1
<1> DEFINE r == [search[s] EXCEPT !.pc = "store", !.found = K]
<1>2. /\ search[s] \in SearchTypes /\ search[s].found \subseteq Entries /\ search[s].pc = "probe"
      /\ UNCHANGED <<jack, on, offs, cache>>
  BY SearchIs DEF SearchTypes, Probe
<1>3. \A e \in met : [e EXCEPT !.swarm = "alive"] \in Entries
  <2> SUFFICES ASSUME NEW e \in met
               PROVE  [e EXCEPT !.swarm = "alive"] \in Entries
    OBVIOUS
  <2>1. e \in Entries /\ e.swarm \in {"dead", "unknown"}
    BY <1>2
  <2>2. e.id \in Torrents /\ e = [id |-> e.id, swarm |-> e.swarm]
    BY <2>1, EntriesAre
  <2>3. [e EXCEPT !.swarm = "alive"] = [id |-> e.id, swarm |-> "alive"]
    BY <2>2
  <2> QED BY <2>2, <2>3, JackettAssumption DEF Entries
<1>4. known \subseteq Entries
  BY <1>2, <1>3
<1>5. /\ \A e \in search[s].found : e.swarm \in {"alive", "link"} => e \in known
      /\ search[s].found # {} => known # {}
  <2>1. \A e \in search[s].found : e \in known \/ e \in met
    OBVIOUS
  <2>2. \A e \in met : [e EXCEPT !.swarm = "alive"] \in known /\ e.swarm \in {"dead", "unknown"}
    OBVIOUS
  <2> HIDE DEF known
  <2> QED BY <2>1, <2>2
<1>6. SetSearch(s, r)
  BY <1>a
<1> HIDE DEF known
<1>7. /\ K \subseteq Entries /\ (known # {} => K # {})
      /\ \A e \in known : Living(e) =>
           e \in K \/ (Cardinality(K) = MaxResults /\ \A d \in K : Living(d))
  BY <1>4, <1>a, RankKeepsBest
<1>8. /\ r \in SearchTypes /\ r.pc = "store" /\ r.got = search[s].got /\ (r.grace = search[s].grace)
      /\ r.found = K /\ r.answer = search[s].answer
      /\ (r.titled = search[s].titled) /\ (r.refused = search[s].refused)
  BY <1>2, <1>7 DEF SearchTypes
<1> HIDE DEF r
<1>9. CarriedOn(search[s])
  BY SearchIs DEF Sound
<1>10. ASSUME NEW p \in Sources, NEW e \in r.got[p].list, e.swarm = "alive"
       PROVE  \/ [id |-> e.id, swarm |-> "alive"] \in r.found
              \/ Cardinality(r.found) = MaxResults /\ \A d \in r.found : Living(d)
  <2> DEFINE a == [id |-> e.id, swarm |-> "alive"]
  <2>1. a \in search[s].found /\ a.swarm = "alive"
    BY <1>2, <1>8, <1>9, <1>10 DEF CarriedOn
  <2> HIDE DEF a
  <2>2. a \in known /\ Living(a)
    BY <1>5, <2>1 DEF Living
  <2>3. a \in K \/ (Cardinality(K) = MaxResults /\ \A d \in K : Living(d))
    BY <1>7, <2>2
  <2> QED BY <1>8, <2>3 DEF a
<1>11. r.found = {} /\ Useful(r) => r.refused
  <2>1. r.found = {} => search[s].found = {}
    BY <1>5, <1>7, <1>8
  <2> QED BY <1>2, <1>8, <1>9, <2>1 DEF Useful, CarriedOn
<1>12. CarriedOn(r)
  BY <1>2, <1>8, <1>9, <1>10, <1>11, NoneAssumption DEF CarriedOn, Answers
<1> QED BY <1>2, <1>6, <1>8, <1>12, CarriesOn

LEMMA StoreKeeps ==
  ASSUME SearchInv, NEW s \in Searches, Store(s)
  PROVE  SearchInv'
<1>1. /\ Answer(s, "found", search[s].sig) /\ UNCHANGED <<jack, on, offs>>
      /\ \/ cache' = [cache EXCEPT ![Key(search[s].titled, search[s].sig)] =
                       [sources |-> search[s].sig, fresh |-> TRUE]]
         \/ UNCHANGED cache
  BY DEF Store
<1>2. cache' \in [Keys -> Row \cup {None}]
  <2>1. [sources |-> search[s].sig, fresh |-> TRUE] \in Row
    BY SearchIs DEF Row
  <2> QED BY <1>1, <2>1 DEF SearchInv, TypeOK
<1>3. PICK r : Sound(r) /\ SetSearch(s, r)
  BY <1>1, SearchIs, AnswerIsSound
<1>4. search' \in [Searches -> SearchTypes] /\ \A t \in Searches : Sound(search'[t])
  BY <1>3, SetKeepsSearches
<1>5. TypeOK' /\ JackInv'
  BY <1>1, <1>2, <1>4, JackStays DEF SearchInv, TypeOK
<1> QED BY <1>4, <1>5 DEF SearchInv

LEMMA NothingFoundKeeps ==
  ASSUME SearchInv, NEW s \in Searches, NothingFound(s)
  PROVE  SearchInv'
<1> DEFINE answer == IF search[s].fallback THEN "fallback" ELSE IF AllFailed(s) THEN "error" ELSE "empty"
           r == [search[s] EXCEPT !.pc = "done", !.answer = answer]
<1>1. /\ SetSearch(s, r) /\ search[s].pc = "store" /\ search[s].found = {}
      /\ UNCHANGED <<jack, on, offs, cache>>
  BY DEF NothingFound
<1>2. search[s] \in SearchTypes /\ Worthwhile(search[s]) /\ CarriedOn(search[s])
  BY SearchIs DEF Sound
<1>3. answer \in Answers
  BY DEF Answers
<1> HIDE DEF answer
<1>4. /\ r \in SearchTypes /\ r.pc = "done" /\ r.got = search[s].got /\ (r.grace = search[s].grace)
      /\ (r.refused = search[s].refused)
  BY <1>2, <1>3 DEF SearchTypes
<1> HIDE DEF r
<1>5. Worthwhile(r)
  BY <1>1, <1>2, <1>4 DEF Worthwhile, Useful
<1>6. (\E p \in Sources : search[s].got[p].state = "cut") => search[s].refused
  BY <1>1, <1>2 DEF Worthwhile, CarriedOn
<1>7. CarriedOn(r) /\ Named(r) /\ Unrefused(r)
  BY <1>4, <1>6 DEF CarriedOn, Named, Unrefused
<1> QED BY <1>1, <1>4, <1>5, <1>7, JackStays, SearchStepKeeps DEF Sound

LEMMA ForgetKeeps ==
  ASSUME SearchInv, NEW s \in Searches, Forget(s)
  PROVE  SearchInv'
<1>1. SetSearch(s, Idle) /\ Set(s, NoSearch) /\ UNCHANGED <<on, offs, cache>>
  BY DEF Forget
<1>2. JackInv'
  BY <1>1, NoSearchIs, SetKeepsJack DEF SearchInv
<1> QED BY <1>1, <1>2, IdleIs, SearchStepKeeps

LEMMA AskJackettKeeps ==
  ASSUME SearchInv, NEW s \in Searches, AskJackett(s)
  PROVE  SearchInv'
<1>1. JackInv'
  BY JackettStepKeepsJack DEF AskJackett, SearchInv
<1> QED BY <1>1 DEF AskJackett, SearchInv, TypeOK, JackInv

----------------------------------------------------------------------------
(* Around it *)

\* A step that leaves the searches alone.
LEMMA AroundKeeps ==
  ASSUME SearchInv, UNCHANGED <<jack, search>>, on' \subseteq Sources, offs' \in 0..MaxOff,
         cache' \in [Keys -> Row \cup {None}]
  PROVE  SearchInv'
  BY DEF SearchInv, TypeOK, JackInv

LEMMA ToggleKeeps ==
  ASSUME SearchInv, NEW p \in Switched, Toggle(p)
  PROVE  SearchInv'
<1>1. p \in Sources /\ on \subseteq Sources /\ MaxOff \in Nat /\ offs \in 0..MaxOff
  BY StreamSearchAssumption DEF SearchInv, TypeOK
<1>2. on' \subseteq Sources
  BY <1>1 DEF Toggle
<1>3. offs' \in 0..MaxOff
  BY <1>1 DEF Toggle
<1>4. UNCHANGED <<jack, search>> /\ cache' \in [Keys -> Row \cup {None}]
  BY DEF Toggle, SearchInv, TypeOK
<1> QED BY <1>2, <1>3, <1>4, AroundKeeps

LEMMA AgeKeeps ==
  ASSUME SearchInv, NEW k \in Keys, Age(k)
  PROVE  SearchInv'
<1>1. cache[k] \in Row
  BY DEF Age, SearchInv, TypeOK
<1>2. [cache[k] EXCEPT !.fresh = FALSE] \in Row
  BY <1>1 DEF Row
<1>3. cache' = [cache EXCEPT ![k] = [cache[k] EXCEPT !.fresh = FALSE]]
  BY DEF Age
<1>4. cache' \in [Keys -> Row \cup {None}]
  BY <1>2, <1>3 DEF SearchInv, TypeOK
<1>5. UNCHANGED <<jack, search>> /\ on' \subseteq Sources /\ offs' \in 0..MaxOff
  BY DEF Age, SearchInv, TypeOK
<1> QED BY <1>4, <1>5, AroundKeeps

LEMMA RefreshTitleKeeps ==
  ASSUME SearchInv, RefreshTitle
  PROVE  SearchInv'
<1>1. cache' \in [Keys -> Row \cup {None}]
  BY DEF RefreshTitle, SearchInv, TypeOK
<1>2. UNCHANGED <<jack, search>> /\ on' \subseteq Sources /\ offs' \in 0..MaxOff
  BY DEF RefreshTitle, SearchInv, TypeOK
<1> QED BY <1>1, <1>2, AroundKeeps

----------------------------------------------------------------------------
(* Theorems *)

LEMMA InitIsSound == Init => SearchInv
<1> SUFFICES ASSUME Init
             PROVE  SearchInv
  OBVIOUS
<1>1. \A s \in Searches : jack[s] = NoSearch /\ search[s] = Idle
  BY DEF Init
<1>2. jack \in [Searches -> JackTypes] /\ search \in [Searches -> SearchTypes]
  BY NoSearchIs, IdleIs DEF Init
<1>3. JackInv
  BY <1>1, <1>2, NoSearchIs DEF JackInv
<1>4. on \subseteq Sources /\ offs \in 0..MaxOff /\ cache \in [Keys -> Row \cup {None}]
  BY StreamSearchAssumption DEF Init
<1> QED BY <1>1, <1>2, <1>3, <1>4, IdleIs DEF SearchInv, TypeOK

LEMMA StepKeeps == SearchInv /\ [Next]_vars => SearchInv'
<1> SUFFICES ASSUME SearchInv, [Next]_vars
             PROVE  SearchInv'
  OBVIOUS
<1>1. ASSUME NEW s \in Searches, Start(s) \/ SearchStep(s) \/ Forget(s)
      PROVE  SearchInv'
  <2>1. CASE Start(s)
    BY <2>1, StartKeeps
  <2>2. CASE Lookup(s)
    BY <2>2, LookupKeeps
  <2>3. CASE Ask(s)
    BY <2>3, AskKeeps
  <2>4. ASSUME NEW a \in Addons, AddonReplies(s, a)
        PROVE  SearchInv'
    BY <2>4, AddonRepliesKeeps
  <2>5. CASE AskJackett(s)
    BY <2>5, AskJackettKeeps
  <2>6. CASE JackettReplies(s)
    BY <2>6, JackettRepliesKeeps
  <2>7. CASE CutShort(s)
    BY <2>7, CutShortKeeps
  <2>8. CASE EndGather(s)
    BY <2>8, EndGatherKeeps
  <2>9. CASE CheckLinks(s)
    BY <2>9, CheckLinksKeeps
  <2>10. CASE Probe(s)
    BY <2>10, ProbeKeeps
  <2>11. CASE Store(s)
    BY <2>11, StoreKeeps
  <2>12. CASE NothingFound(s)
    BY <2>12, NothingFoundKeeps
  <2>13. CASE Forget(s)
    BY <2>13, ForgetKeeps
  <2> QED BY <1>1, <2>1, <2>2, <2>3, <2>4, <2>5, <2>6, <2>7, <2>8, <2>9, <2>10, <2>11, <2>12, <2>13
          DEF SearchStep
<1>2. ASSUME NEW p \in Switched, Toggle(p)
      PROVE  SearchInv'
  BY <1>2, ToggleKeeps
<1>3. ASSUME NEW k \in Keys, Age(k)
      PROVE  SearchInv'
  BY <1>3, AgeKeeps
<1>4. CASE RefreshTitle
  BY <1>4, RefreshTitleKeeps
<1>5. CASE UNCHANGED vars
  <2>1. UNCHANGED <<jack, search, on, offs, cache>>
    BY <1>5 DEF vars
  <2> QED BY <2>1, AroundKeeps DEF SearchInv, TypeOK
<1> QED BY <1>1, <1>2, <1>3, <1>4, <1>5 DEF Next

\* The inductive invariant of the searches.
THEOREM SearchInvariant == Spec => []SearchInv
  BY InitIsSound, StepKeeps, PTL DEF Spec

\* Searches, Jackett's part in them and the stored lists keep their shape; above all, no
\* search's clock runs past the limit on it.
THEOREM SearchTypeCorrect == Spec => []TypeOK
<1>1. SearchInv => TypeOK
  BY DEF SearchInv
<1> QED BY <1>1, SearchInvariant, PTL

\* "The three passes below add up to STREAM_SEARCH_BUDGET" (jackett.rs), with any budgets:
\* when the limit on the whole search strikes, the last pass had its turn, or time went by
\* outside of the passes.
THEOREM EveryPassHasItsTurn == Spec => []EveryPassFits
<1>1. ASSUME JackInv, NEW s \in Searches, Running(s), jack[s].spent = SearchBudget, ~jack[s].outside
      PROVE  jack[s].pass \in {"all", "merge", "links"}
  <2>1. jack[s] \in JackTypes /\ Timely(jack[s])
    BY <1>1 DEF JackInv
  <2>2. /\ jack[s].inPass \in Nat /\ jack[s].spent \in Nat
        /\ jack[s].pass \in Passes
    BY <2>1, BudgetsAre DEF JackTypes
  <2>3. jack[s].pass # "indexers"
    BY <1>1, <2>1, BudgetsAre DEF Timely
  <2>4. jack[s].pass # "torznab"
    BY <1>1, <2>1, <2>2, BudgetsAre DEF Timely
  <2>5. jack[s].pass # "again"
    BY <1>1, <2>1, <2>2, BudgetsAre DEF Timely
  <2>6. jack[s].pass # "plain"
    BY <1>1, <2>1, <2>2, BudgetsAre DEF Timely
  <2> QED BY <1>1, <2>2, <2>3, <2>4, <2>5, <2>6 DEF Running, Passes
<1>2. SearchInv => EveryPassFits
  BY <1>1 DEF SearchInv, EveryPassFits
<1> QED BY <1>2, SearchInvariant, PTL

\* Ending the wait for slow sources early costs nobody the answer, whatever counts as enough:
\* a search that stopped waiting comes back with nothing only if hosts refused its links.
THEOREM NothingIsCutForNothing == Spec => []NothingCutForEmptyAnswer
<1>1. SearchInv => NothingCutForEmptyAnswer
  BY DEF SearchInv, Sound, CarriedOn, NothingCutForEmptyAnswer
<1> QED BY <1>1, SearchInvariant, PTL

\* Whatever any number of sources say of it, and in any order: a torrent that one of them
\* reported alive is in the answer as alive, or the answer is full (MAX_RESULTS) and nothing in it
\* is dead.
THEOREM AliveIsAnswered == Spec => []AliveReachesAnswer
<1>1. SearchInv => AliveReachesAnswer
  BY DEF SearchInv, Sound, CarriedOn, AliveReachesAnswer
<1> QED BY <1>1, SearchInvariant, PTL

----------------------------------------------------------------------------
(* What is alive stays alive from pass to pass *)

\* An alive hit is left out of a ranking because that is full, or as a link beside a magnet; a
\* magnet leaves a magnet.
LEMMA RankedKeepsAlive ==
  ASSUME NEW H, H \subseteq Hits, NEW K \in Ranked(H)
  PROVE  /\ \A h \in H : h.swarm = "alive" =>
              \/ h \in K
              \/ Cardinality(K) = MaxResults /\ Cardinality(H) > MaxResults
              \/ ~Magnet(h) /\ \E g \in K : Magnet(g)
         /\ (\E h \in H : Magnet(h)) => \E g \in K : Magnet(g)
<1> DEFINE T1 == Preferred(H, {h \in H : Magnet(h)})
           T == Preferred(T1, {h \in T1 : Living(h)})
<1>1. K \in Cut(T)
  BY DEF Ranked
<1>2. /\ T1 \subseteq H /\ (H # {} => T1 # {})
      /\ (\E h \in H : Magnet(h)) => \A g \in T1 : Magnet(g)
      /\ \A h \in H : h \in T1 \/ (~Magnet(h) /\ \E g \in H : Magnet(g))
  BY DEF Preferred
<1> HIDE DEF T1
<1>3. /\ T \subseteq T1 /\ (T1 # {} => T # {})
      /\ \A h \in T1 : h.swarm = "alive" => h \in T
  BY DEF Preferred, Living
<1> HIDE DEF T
<1>4. /\ K \subseteq T /\ (T # {} => K # {})
      /\ K = T \/ (Cardinality(K) = MaxResults /\ ~(Cardinality(T) <= MaxResults))
  BY <1>1, CutIs
<1>5. ~(Cardinality(T) <= MaxResults) => Cardinality(H) > MaxResults
  <2>1. IsFiniteSet(H)
    BY HitsAreFinite, FS_Subset
  <2>2. /\ IsFiniteSet(T) /\ Cardinality(T) <= Cardinality(H)
    BY <1>2, <1>3, <2>1, FS_Subset
  <2>3. Cardinality(T) \in Nat /\ Cardinality(H) \in Nat /\ MaxResults \in Nat
    BY <2>1, <2>2, FS_CardinalityType, JackettAssumption
  <2> QED BY <2>2, <2>3
<1>6. (\E h \in H : Magnet(h)) => \E g \in K : Magnet(g)
  BY <1>2, <1>3, <1>4
<1>7. ASSUME NEW h \in H, h.swarm = "alive", h \in T1
      PROVE  h \in K \/ (Cardinality(K) = MaxResults /\ Cardinality(H) > MaxResults)
  BY <1>3, <1>4, <1>5, <1>7
<1> QED BY <1>2, <1>6, <1>7

LEMMA SameLinkIs ==
  /\ \A g, h : SameLink(g, h) => g.id = h.id /\ (Magnet(g) <=> Magnet(h)) /\ SameLink(h, g)
  /\ \A f, g, h : SameLink(f, g) /\ SameLink(g, h) => SameLink(f, h)
  BY JackettAssumption DEF SameLink, Magnet

LEMMA MergeKeepsAlive ==
  ASSUME NEW A, NEW B, A \subseteq Hits, B \subseteq Hits, NEW M \in MergeRanked(A, B)
  PROVE  /\ \A h \in A \cup B : h.swarm = "alive" =>
              \/ \E g \in M : g.id = h.id /\ g.swarm = "alive"
              \/ Cardinality(M) = MaxResults
              \/ ~Magnet(h) /\ \E g \in M : Magnet(g)
              \/ h \in B /\ \E g \in A : SameLink(g, h)
         /\ (\E h \in A \cup B : Magnet(h)) => \E g \in M : Magnet(g)
<1>1. CASE B = {} \/ A = {}
  BY <1>1 DEF MergeRanked
<1>2. CASE B # {} /\ A # {}
  <2> DEFINE F == Firsts(A) \cup Others(B, A)
  <2>1. F \subseteq Hits
    BY FirstsAre, OthersArePart
  <2>2. M \in Ranked(F)
    BY <1>2 DEF MergeRanked
  <2>3. ASSUME NEW h \in A
        PROVE  \E f \in F : SameLink(f, h) /\ (h.swarm = "alive" => f.swarm = "alive")
    BY <2>3, FirstsAre
  <2>4. ASSUME NEW h \in B, \A g \in A : ~SameLink(g, h)
        PROVE  \E f \in F : SameLink(f, h) /\ (h.swarm = "alive" => f.swarm = "alive")
    <3>1. PICK f \in Firsts(B) : SameLink(f, h) /\ (h.swarm = "alive" => f.swarm = "alive")
      BY <2>4, FirstsAre
    <3>2. \A g \in A : ~SameLink(g, f)
      BY <2>4, <3>1, SameLinkIs
    <3> QED BY <3>1, <3>2 DEF Others
  <2> HIDE DEF F
  <2>5. (\E h \in A \cup B : Magnet(h)) => \E g \in M : Magnet(g)
    <3>1. ASSUME NEW h \in A \cup B, Magnet(h)
          PROVE  \E f \in F : Magnet(f)
      <4>1. CASE h \in A
        BY <2>3, <3>1, <4>1, SameLinkIs
      <4>2. CASE h \in B /\ \E g \in A : SameLink(g, h)
        <5>1. PICK g \in A : SameLink(g, h)
          BY <4>2
        <5>2. Magnet(g)
          BY <3>1, <5>1, SameLinkIs
        <5> QED BY <2>3, <5>2, SameLinkIs
      <4>3. CASE h \in B /\ \A g \in A : ~SameLink(g, h)
        BY <2>4, <3>1, <4>3, SameLinkIs
      <4> QED BY <4>1, <4>2, <4>3
    <3> QED BY <2>1, <2>2, <3>1, RankedKeepsAlive
  <2>6. ASSUME NEW h \in A \cup B, h.swarm = "alive", ~(h \in B /\ \E g \in A : SameLink(g, h))
        PROVE  \/ \E g \in M : g.id = h.id /\ g.swarm = "alive"
               \/ Cardinality(M) = MaxResults
               \/ ~Magnet(h) /\ \E g \in M : Magnet(g)
    <3>1. PICK f \in F : SameLink(f, h) /\ f.swarm = "alive"
      BY <2>3, <2>4, <2>6
    <3>2. f.id = h.id /\ (Magnet(f) <=> Magnet(h))
      BY <3>1, SameLinkIs
    <3>3. f \in M \/ Cardinality(M) = MaxResults \/ (~Magnet(f) /\ \E g \in M : Magnet(g))
      BY <2>1, <2>2, <3>1, RankedKeepsAlive
    <3> QED BY <3>1, <3>2, <3>3
  <2> QED BY <2>5, <2>6
<1> QED BY <1>1, <1>2

\* What a step does to a search's finds as far as AliveKept looks at them.
KeepsAlive(s) ==
  LET found == jack[s].found
      ended == IF jack'[s].hits = {} THEN jack[s].hits ELSE {}
      after == jack'[s].found
  IN jack'[s].pass \in {"again", "all", "links"} =>
       \A h \in found \cup ended : h.swarm = "alive" =>
         \/ \E g \in after : g.id = h.id /\ g.swarm = "alive"
         \/ Cardinality(ended) > MaxResults \/ Cardinality(after) = MaxResults
         \/ ~Magnet(h) /\ \E g \in after : Magnet(g)
         \/ h \in ended /\ \E g \in found : SameLink(g, h)

LEMMA UntouchedKeepsAlive ==
  ASSUME NEW s, jack'[s].hits = jack[s].hits, jack'[s].found = jack[s].found
  PROVE  KeepsAlive(s)
  BY DEF KeepsAlive

LEMMA SetKeepsAlive ==
  ASSUME JackInv, NEW s \in Searches, NEW r, Set(s, r),
         \/ r.pass \notin {"again", "all", "links"}
         \/ r.hits = jack[s].hits /\ r.found = jack[s].found
  PROVE  \A t \in Searches : KeepsAlive(t)
<1>1. \A t \in Searches : jack'[t] = IF t = s THEN r ELSE jack[t]
  BY DEF Set, JackInv
<1>2. KeepsAlive(s)
  <2>1. CASE r.pass \notin {"again", "all", "links"}
    BY <1>1, <2>1 DEF KeepsAlive
  <2>2. CASE r.hits = jack[s].hits /\ r.found = jack[s].found
    BY <1>1, <2>2, UntouchedKeepsAlive
  <2> QED BY <2>1, <2>2
<1>3. \A t \in Searches : t # s => KeepsAlive(t)
  BY <1>1, UntouchedKeepsAlive
<1> QED BY <1>2, <1>3

LEMMA EndPassKeepsAlive ==
  ASSUME JackInv, NEW s \in Searches, NEW next, EndPass(s, next)
  PROVE  \A t \in Searches : KeepsAlive(t)
<1>a. PICK hits \in Ranked(jack[s].hits) : \E found \in MergeRanked(jack[s].found, hits) :
        Set(s, [jack[s] EXCEPT !.pass = IF PickerReady(found) THEN "links" ELSE next,
                               !.hits = {}, !.found = found, !.inPass = 0])
  BY DEF EndPass
<1>b. PICK found \in MergeRanked(jack[s].found, hits) :
        Set(s, [jack[s] EXCEPT !.pass = IF PickerReady(found) THEN "links" ELSE next,
                               !.hits = {}, !.found = found, !.inPass = 0])
  BY <1>a
<1> DEFINE pass == IF PickerReady(found) THEN "links" ELSE next
           r == [jack[s] EXCEPT !.pass = pass, !.hits = {}, !.found = found, !.inPass = 0]
<1>1. Set(s, r) /\ jack[s] \in JackTypes
  BY <1>b DEF JackInv
<1>2. jack[s].found \subseteq Hits /\ jack[s].hits \subseteq Hits /\ hits \subseteq jack[s].hits
  BY <1>1, RankedIsPart DEF JackTypes
<1>3. ASSUME NEW h \in jack[s].found \cup jack[s].hits, h.swarm = "alive"
      PROVE  \/ \E g \in found : g.id = h.id /\ g.swarm = "alive"
             \/ Cardinality(jack[s].hits) > MaxResults \/ Cardinality(found) = MaxResults
             \/ ~Magnet(h) /\ \E g \in found : Magnet(g)
             \/ h \in jack[s].hits /\ \E g \in jack[s].found : SameLink(g, h)
  <2>1. CASE h \in jack[s].found \cup hits
    <3>1. h \in hits => h \in jack[s].hits
      BY <1>2
    <3> QED BY <1>2, <1>3, <2>1, <3>1, MergeKeepsAlive
  <2>2. CASE h \in jack[s].hits /\ h \notin hits
    <3>1. \/ Cardinality(jack[s].hits) > MaxResults
          \/ ~Magnet(h) /\ \E g \in hits : Magnet(g)
      BY <1>2, <1>3, <2>2, RankedKeepsAlive
    <3>2. (\E g \in hits : Magnet(g)) => \E g \in found : Magnet(g)
      BY <1>2, MergeKeepsAlive
    <3> QED BY <3>1, <3>2
  <2> QED BY <2>1, <2>2
<1> HIDE DEF pass
<1>4. r.hits = {} /\ r.found = found
  BY <1>1 DEF JackTypes
<1> HIDE DEF r
<1>5. \A t \in Searches : jack'[t] = IF t = s THEN r ELSE jack[t]
  BY <1>1 DEF Set, JackInv
<1>6. KeepsAlive(s)
  BY <1>3, <1>4, <1>5 DEF KeepsAlive
<1>7. \A t \in Searches : t # s => KeepsAlive(t)
  BY <1>5, UntouchedKeepsAlive
<1> QED BY <1>6, <1>7

LEMMA JackettStepKeepsAlive ==
  ASSUME JackInv, NEW s \in Searches, StartJackett(s) \/ JackettStep(s)
  PROVE  \A t \in Searches : KeepsAlive(t)
<1>0. jack[s] \in JackTypes
  BY DEF JackInv
<1>1. ASSUME NEW r, Set(s, r), r.pass \notin {"again", "all", "links"}
      PROVE  \A t \in Searches : KeepsAlive(t)
  BY <1>1, SetKeepsAlive
<1>2. CASE StartJackett(s) \/ JackettTimesOut(s)
  <2>1. PICK pass \in {"indexers", "late"} : Set(s, [NoSearch EXCEPT !.pass = pass])
    BY <1>2 DEF StartJackett, JackettTimesOut
  <2>2. [NoSearch EXCEPT !.pass = pass].pass = pass
    BY DEF NoSearch
  <2> QED BY <1>1, <2>1, <2>2
<1>3. CASE StartTorznab(s) \/ StartPlain(s) \/ SearchAll(s) \/ PassTimesOut(s)
           \/ \E i \in Indexers : IndexerAnswers(s, i) \/ IndexerFails(s, i)
  <2>1. CASE StartTorznab(s)
    <3>1. PICK listed \in {{}, Unasked(s)}, exact \in {{}, Exact} :
            Set(s, [jack[s] EXCEPT !.pass = "torznab", !.inPass = 0,
                                   !.asked = listed, !.exact = listed \cap exact])
      BY <2>1 DEF StartTorznab
    <3>2. [jack[s] EXCEPT !.pass = "torznab", !.inPass = 0,
                          !.asked = listed, !.exact = listed \cap exact].pass = "torznab"
      BY <1>0 DEF JackTypes
    <3> QED BY <1>1, <3>1, <3>2
  <2>2. CASE StartPlain(s)
    <3>1. PICK listed \in {{}, Unasked(s)} :
            Set(s, [jack[s] EXCEPT !.pass = "plain", !.inPass = 0, !.asked = listed])
      BY <2>2 DEF StartPlain
    <3>2. [jack[s] EXCEPT !.pass = "plain", !.inPass = 0, !.asked = listed].pass = "plain"
      BY <1>0 DEF JackTypes
    <3> QED BY <1>1, <3>1, <3>2
  <2>3. CASE SearchAll(s)
    <3>1. PICK hits : Set(s, [jack[s] EXCEPT !.pass = "merge", !.hits = hits])
      BY <2>3 DEF SearchAll
    <3>2. [jack[s] EXCEPT !.pass = "merge", !.hits = hits].pass = "merge"
      BY <1>0 DEF JackTypes
    <3> QED BY <1>1, <3>1, <3>2
  <2>4. CASE PassTimesOut(s)
    <3>1. [jack[s] EXCEPT !.asked = {}, !.exact = {}].pass = jack[s].pass
      BY <1>0 DEF JackTypes
    <3> QED BY <1>1, <2>4, <3>1 DEF PassTimesOut
  <2>5. ASSUME NEW i \in Indexers, IndexerAnswers(s, i)
        PROVE  \A t \in Searches : KeepsAlive(t)
    <3>1. PICK hits, exact, to_ask :
            Set(s, [jack[s] EXCEPT !.hits = hits, !.exact = exact, !.asked = to_ask])
      BY <2>5 DEF IndexerAnswers
    <3>2. [jack[s] EXCEPT !.hits = hits, !.exact = exact, !.asked = to_ask].pass = jack[s].pass
      BY <1>0 DEF JackTypes
    <3> QED BY <1>1, <2>5, <3>1, <3>2 DEF IndexerAnswers
  <2>6. ASSUME NEW i \in Indexers, IndexerFails(s, i)
        PROVE  \A t \in Searches : KeepsAlive(t)
    <3>1. PICK skip \in {{}, {i}} :
            Set(s, [jack[s] EXCEPT !.asked = @ \ {i}, !.exact = @ \ {i}, !.skip = @ \cup skip])
      BY <2>6 DEF IndexerFails
    <3>2. [jack[s] EXCEPT !.asked = @ \ {i}, !.exact = @ \ {i}, !.skip = @ \cup skip].pass = jack[s].pass
      BY <1>0 DEF JackTypes
    <3> QED BY <1>1, <2>6, <3>1, <3>2 DEF IndexerFails
  <2> QED BY <1>3, <2>1, <2>2, <2>3, <2>4, <2>5, <2>6
<1>4. CASE EndTorznab(s) \/ EndPlain(s) \/ EndAll(s)
  BY <1>4, EndPassKeepsAlive DEF EndTorznab, EndPlain, EndAll
<1>5. CASE ResolveLinks(s)
  <2>1. PICK found : Set(s, [NoSearch EXCEPT !.pass = "done", !.found = found])
    BY <1>5 DEF ResolveLinks
  <2>2. [NoSearch EXCEPT !.pass = "done", !.found = found].pass = "done"
    BY DEF NoSearch
  <2> QED BY <1>1, <2>1, <2>2
<1>6. CASE Tick(s)
  <2>1. PICK spent, inPass, outside :
          Set(s, [jack[s] EXCEPT !.spent = spent, !.inPass = inPass, !.outside = outside])
    BY <1>6 DEF Tick
  <2> DEFINE r == [jack[s] EXCEPT !.spent = spent, !.inPass = inPass, !.outside = outside]
  <2>2. r.hits = jack[s].hits /\ r.found = jack[s].found
    BY <1>0 DEF JackTypes
  <2> HIDE DEF r
  <2> QED BY <2>1, <2>2, SetKeepsAlive DEF r
<1> QED BY <1>2, <1>3, <1>4, <1>5, <1>6 DEF JackettStep

\* However many passes there are and whatever the indexers answer: the end of a pass costs no
\* release that it, or an earlier one, found alive, unless a list is full, the hit is a .torrent
\* link and there is a magnet, or an earlier pass listed the same link (rank, merge_ranked).
THEOREM AliveIsKept == Spec => AliveKept
<1>1. SearchInv /\ [Next]_vars => [\A s \in Searches : KeepsAlive(s)]_jack
  <2> SUFFICES ASSUME SearchInv, [Next]_vars, jack' # jack
               PROVE  \A s \in Searches : KeepsAlive(s)
    OBVIOUS
  <2>1. PICK s \in Searches : AskJackett(s) \/ Set(s, NoSearch)
    BY DEF Next, vars, Start, SearchStep, Lookup, Ask, AddonReplies, JackettReplies, CutShort,
           EndGather, CheckLinks, Probe, Store, NothingFound, Forget, Toggle, Age, RefreshTitle
  <2>2. CASE AskJackett(s)
    BY <2>2, JackettStepKeepsAlive DEF AskJackett, SearchInv
  <2>3. CASE Set(s, NoSearch)
    <3>1. NoSearch.pass = "idle"
      BY DEF NoSearch
    <3> QED BY <2>3, <3>1, SetKeepsAlive DEF SearchInv
  <2> QED BY <2>1, <2>2, <2>3
<1> QED BY <1>1, SearchInvariant, PTL DEF Spec, AliveKept, KeepsAlive

----------------------------------------------------------------------------
(* Releases *)

Forms == Screen!EpisodeForms \cup Screen!SeasonForms

LEMMA MarksAre ==
  ASSUME NEW h \in Screen!Releases
  PROVE  /\ DOMAIN h.marks \subseteq {1, 2} /\ (DOMAIN h.marks # {} => 1 \in DOMAIN h.marks)
         /\ \A i \in DOMAIN h.marks : h.marks[i].form \in Forms
         /\ \A i, j \in DOMAIN h.marks :
              h.marks[i].form \in Screen!EpisodeForms => h.marks[j].s = h.marks[i].s
<1>1. h.marks \in {<< >>} \cup [1..1 -> Screen!Marks] \cup [1..2 -> Screen!Marks] /\ Screen!Agree(h.marks)
  BY DEF Screen!Releases
<1>2. \A m \in Screen!Marks : m.form \in Forms
  BY DEF Screen!Marks, Forms
<1>3. \/ DOMAIN h.marks = {}
      \/ DOMAIN h.marks = {1} /\ h.marks \in [1..1 -> Screen!Marks]
      \/ DOMAIN h.marks = {1, 2} /\ h.marks \in [1..2 -> Screen!Marks]
  <2>1. CASE h.marks = << >>
    <3>1. \A x : x \notin DOMAIN h.marks
      BY <2>1
    <3> QED BY <3>1
  <2>2. CASE h.marks \in [1..1 -> Screen!Marks]
    <3>1. 1..1 = {1}
      OBVIOUS
    <3> QED BY <2>2, <3>1
  <2>3. CASE h.marks \in [1..2 -> Screen!Marks]
    <3>1. 1..2 = {1, 2}
      OBVIOUS
    <3> QED BY <2>3, <3>1
  <2> QED BY <1>1, <2>1, <2>2, <2>3
<1>4. \A i \in DOMAIN h.marks : h.marks[i].form \in Forms
  <2>1. \A i \in DOMAIN h.marks : h.marks[i] \in Screen!Marks
    BY <1>3
  <2> QED BY <1>2, <2>1
<1> QED BY <1>1, <1>3, <1>4 DEF Screen!Agree

\* What a name writes without an episode, or with one apart, is seen if it comes first.
LEMMA NamedAre ==
  ASSUME NEW h \in Screen!Releases
  PROVE  /\ \A s \in Screen!Named(h) : \E i \in DOMAIN h.marks :
              h.marks[i].s = s /\ h.marks[i].form \in {"bare", "apart", "season", "spoken"}
         /\ 1 \in DOMAIN h.marks /\ h.marks[1].form \in {"bare", "apart", "season", "spoken"}
              => h.marks[1].s \in Screen!Named(h)
<1> DEFINE hides == [f \in Screen!EpisodeForms \cup Screen!SeasonForms |->
                       IF f = "bare" THEN {"bare", "apart"}
                       ELSE IF f = "season" THEN {"season", "spoken"} ELSE {}]
           seen == [i \in DOMAIN h.marks |->
                      /\ h.marks[i].form \in {"bare", "apart", "season", "spoken"}
                      /\ i = 1 \/ h.marks[i].form \notin hides[h.marks[i - 1].form]]
<1>1. Screen!Named(h) = {h.marks[i].s : i \in {j \in DOMAIN h.marks : seen[j]}}
  BY DEF Screen!Named
<1>2. \A i \in DOMAIN h.marks : seen[i] => h.marks[i].form \in {"bare", "apart", "season", "spoken"}
  OBVIOUS
<1>3. 1 \in DOMAIN h.marks /\ h.marks[1].form \in {"bare", "apart", "season", "spoken"} => seen[1]
  OBVIOUS
<1> HIDE DEF seen
<1> QED BY <1>1, <1>2, <1>3

LEMMA UsableHolds ==
  ASSUME NEW h \in Screen!Releases, NEW s, NEW e, Screen!Usable(h, s, e)
  PROVE  Screen!Holds(h, s, e) \/ Screen!TakenForPack(h, s)
<1>1. \A i \in DOMAIN h.marks : h.marks[i].form \in Screen!EpisodeForms
        => <<h.marks[i].s, h.marks[i].e>> \in Screen!Episodes(h)
  BY DEF Screen!Episodes
<1>2. CASE \E i \in DOMAIN h.marks :
             h.marks[i].form \in Screen!EpisodeForms /\ h.marks[i].s = s /\ h.marks[i].e = e
  BY <1>1, <1>2 DEF Screen!Holds
<1>3. CASE \A i \in DOMAIN h.marks :
             ~(h.marks[i].form \in Screen!EpisodeForms /\ h.marks[i].s = s /\ h.marks[i].e = e)
  <2>1. ~Screen!HasOtherEpisode(h, s, e) /\ Screen!IsSeasonPack(h, s)
    BY <1>3 DEF Screen!Usable, Screen!MatchesEpisode
  <2>2. \A i \in DOMAIN h.marks : h.marks[i].form \notin {"joined", "cross"}
    BY <1>3, <2>1 DEF Screen!HasOtherEpisode, Screen!EpisodeForms
  <2>3. \A i \in DOMAIN h.marks : h.marks[i].form \in {"bare", "apart", "season", "spoken"}
    BY <2>2, MarksAre DEF Forms, Screen!EpisodeForms, Screen!SeasonForms
  <2>4. CASE s \in Screen!Named(h)
    <3>1. PICK i \in DOMAIN h.marks : h.marks[i].s = s
      BY <2>4, NamedAre
    <3>2. CASE \E j \in DOMAIN h.marks : h.marks[j].form \in {"apart", "spoken"}
      <4>1. PICK j \in DOMAIN h.marks : h.marks[j].form \in {"apart", "spoken"}
        BY <3>2
      <4>2. h.marks[j].s = s
        BY <3>1, <4>1, MarksAre DEF Screen!EpisodeForms
      <4> QED BY <4>1, <4>2 DEF Screen!TakenForPack
    <3>3. CASE \A j \in DOMAIN h.marks : h.marks[j].form \notin {"apart", "spoken"}
      <4>1. Screen!Episodes(h) = {}
        BY <2>3, <3>3 DEF Screen!Episodes, Screen!EpisodeForms
      <4> QED BY <3>1, <4>1 DEF Screen!Holds, Screen!Seasons
    <3> QED BY <3>2, <3>3
  <2>5. CASE Screen!Named(h) = {} /\ h.words \cap {"complete", "pack"} # {}
    <3>1. DOMAIN h.marks = {}
      BY <2>3, <2>5, MarksAre, NamedAre
    <3> QED BY <2>5, <3>1 DEF Screen!Holds, Screen!Episodes, Screen!Seasons
  <2> QED BY <2>1, <2>4, <2>5 DEF Screen!IsSeasonPack
<1> QED BY <1>2, <1>3

LEMMA PackIs ==
  ASSUME NEW h \in Screen!Releases, NEW s, Screen!IsPackOf(h, s)
  PROVE  /\ \A i \in DOMAIN h.marks : h.marks[i].form \in Screen!SeasonForms /\ h.marks[i].s = s
         /\ 1 \in DOMAIN h.marks
<1>1. \A i \in DOMAIN h.marks : h.marks[i].form \notin Screen!EpisodeForms
  BY DEF Screen!IsPackOf, Screen!Episodes
<1>2. \A i \in DOMAIN h.marks : h.marks[i].s = s
  BY DEF Screen!IsPackOf, Screen!Seasons
<1>3. DOMAIN h.marks # {}
  BY DEF Screen!IsPackOf, Screen!Seasons
<1> QED BY <1>1, <1>2, <1>3, MarksAre DEF Forms

LEMMA PackIsUsable ==
  ASSUME NEW h \in Screen!Releases, NEW s, NEW e, Screen!IsPackOf(h, s)
  PROVE  Screen!Usable(h, s, e)
<1>1. ~Screen!HasOtherEpisode(h, s, e)
  BY PackIs DEF Screen!HasOtherEpisode, Screen!SeasonForms
<1>2. s \in Screen!Named(h)
  BY PackIs, NamedAre DEF Screen!SeasonForms
<1> QED BY <1>1, <1>2 DEF Screen!Usable, Screen!IsSeasonPack

LEMMA PackIsLost ==
  ASSUME NEW h \in Screen!Releases, NEW w \in Wants, Screen!WantsAssumption,
         w.kind # "movie", w.season > 0, Screen!IsPackOf(h, w.season),
         h.words \subseteq {"complete", "pack"}, h.size \in {0} \cup 3..6,
         Screen!CategoryAllowed(h, w.kind), Screen!LanguageMatches(h, w.languages),
         ~(Screen!Transforms(h, w) /\ Screen!FitsEpisode(h, w))
  PROVE  Screen!Forms(h) = {"bare"} /\ h.words = {} /\ (h.year \/ h.size > 4)
<1>1. Screen!FitsEpisode(h, w)
  BY PackIsUsable DEF Screen!FitsEpisode
<1>2. w.kind \in {"series", "anime"}
  BY DEF Screen!WantsAssumption
<1>3. /\ ~Screen!LooksLikeSample(h) /\ ~Screen!LooksLikeCam(h) /\ ~Screen!LooksLikeSign(h)
      /\ "nsfw" \notin h.words
  BY DEF Screen!LooksLikeSample, Screen!LooksLikeCam, Screen!LooksLikeSign
<1>4. Screen!Junk(h, w.kind) \/ ~Screen!SizePlausible(h, w.kind)
  BY <1>1, <1>3 DEF Screen!Transforms
<1>5. \A F : ~Screen!MarkedAs(h, F) <=> \A i \in DOMAIN h.marks : h.marks[i].form \notin F
  BY DEF Screen!MarkedAs, Screen!Forms
<1>6. (\A i \in DOMAIN h.marks : h.marks[i].form # "season") => Screen!Forms(h) = {"bare"}
  BY PackIs DEF Screen!Forms, Screen!SeasonForms
<1>7. h.words \cap {"complete", "pack"} = {} => h.words = {}
  OBVIOUS
<1>8. CASE Screen!Junk(h, w.kind)
  <2>1. h.year /\ ~Screen!LooksLikeSeries(h) /\ h.words \cap {"complete", "pack"} = {}
    BY <1>2, <1>3, <1>8 DEF Screen!Junk
  <2>2. \A i \in DOMAIN h.marks : h.marks[i].form # "season"
    BY <1>5, <2>1 DEF Screen!LooksLikeSeries
  <2> QED BY <1>6, <1>7, <2>1, <2>2
<1>9. CASE ~Screen!SizePlausible(h, w.kind)
  <2>1. h.size \in 3..6 /\ h.size \notin (IF Screen!LooksLikePack(h) THEN 3..6 ELSE 2..4)
    BY <1>2, <1>9 DEF Screen!SizePlausible
  <2>2. ~Screen!LooksLikePack(h) /\ h.size > 4
    BY <2>1
  <2>3. \A i \in DOMAIN h.marks : h.marks[i].form # "season"
    BY <1>5, <2>2 DEF Screen!LooksLikePack
  <2>4. h.words = {}
    BY <1>7, <2>2 DEF Screen!LooksLikePack
  <2> QED BY <1>6, <2>2, <2>3, <2>4
<1> QED BY <1>4, <1>8, <1>9

\* A verdict is on the release that is there.
JackettKeeps == Screen!Transforms(hit, want) /\ Screen!FitsEpisode(hit, want)
Judged ==
  /\ want \in Wants /\ hit \in Screen!Releases
  /\ jackett \in {"none", "kept", "dropped"} /\ addon \in {"none", "kept", "dropped"}
  /\ jackett # "none" => (jackett = "kept" <=> JackettKeeps)
  /\ addon # "none" => (addon = "kept" <=> Screen!Screens(hit, want))

LEMMA NothingIs == Screen!Nothing \in Screen!Releases
<1> DEFINE M == {ms \in {<< >>} \cup [1..1 -> Screen!Marks] \cup [1..2 -> Screen!Marks] :
                   Screen!Agree(ms)}
           W == {X \in SUBSET Screen!Words : Screen!Cardinality(X) <= 1}
           L == {X \in SUBSET Screen!Codes : Screen!Cardinality(X) <= 1}
           G == {X \in SUBSET Screen!Groups : Screen!Cardinality(X) <= 1}
<1>1. << >> \in M
  BY DEF Screen!Agree
<1>2. {} \in W /\ {} \in L /\ {} \in G
  <2>1. Screen!Cardinality({}) = 0
    BY FS_EmptySet DEF Screen!Cardinality, Cardinality
  <2> QED BY <2>1
<1>3. 0 \in Screen!Sizes
  BY DEF Screen!Sizes
<1>4. Screen!Releases = [marks : M, year : BOOLEAN, words : W, langs : L, size : Screen!Sizes, cats : G]
  BY DEF Screen!Releases
<1> HIDE DEF M, W, L, G
<1> QED BY <1>1, <1>2, <1>3, <1>4 DEF Screen!Nothing

LEMMA JudgedStep ==
  ASSUME Screen!OfferedAssumption, Judged, [Screen!Next]_(Screen!vars)
  PROVE  Judged'
<1>1. CASE UNCHANGED Screen!vars
  BY <1>1 DEF Screen!vars, Judged, JackettKeeps
<1>2. CASE Screen!Find
  BY <1>2 DEF Screen!Find, Screen!OfferedAssumption, Judged
<1>3. CASE Screen!JackettHit
  BY <1>3 DEF Screen!JackettHit, Judged, JackettKeeps
<1>4. CASE Screen!AddonHit
  BY <1>4 DEF Screen!AddonHit, Judged, JackettKeeps
<1> QED BY <1>1, <1>2, <1>3, <1>4 DEF Screen!Next

LEMMA JudgedRightly == ASSUME Screen!WantsAssumption, Judged PROVE RightReleases
<1>1. Screen!KeptHoldsEpisode
  BY UsableHolds DEF Screen!KeptHoldsEpisode, Judged, JackettKeeps, Screen!FitsEpisode
<1>2. Screen!PacksAreKept
  BY PackIsLost DEF Screen!PacksAreKept, Judged, JackettKeeps
<1>3. Screen!Transforms(hit, want)
        <=> Screen!Screens(hit, want) /\ Screen!CategoryAllowed(hit, want.kind)
  BY DEF Screen!Transforms, Screen!Screens
<1>4. Screen!ScreenedAlike
  BY <1>3 DEF Screen!ScreenedAlike, Judged, JackettKeeps
<1> QED BY <1>1, <1>2, <1>4 DEF RightReleases, Screen!RightReleases

\* For every release a name can make: what is kept for an episode holds it, as far as names tell
\* them apart; packs of the season are not lost; and both sources judge alike (filter_episode,
\* transform_results, screen_release).
THEOREM ReleasesAreRight == Screen!Spec => []RightReleases
<1>1. Screen!Init => Judged
  BY NothingIs DEF Screen!Init, Judged
<1>2. Judged /\ [Screen!Next]_(Screen!vars) => Judged'
  BY JudgedStep, ScreenAssumption
<1>3. Judged => RightReleases
  BY JudgedRightly, ScreenAssumption
<1> QED BY <1>1, <1>2, <1>3, PTL DEF Screen!Spec

----------------------------------------------------------------------------
(* Subtitles *)

Asks == [pc : {"idle", "load", "meta", "beside", "fetch", "title", "file", "reload", "fallback",
               "answered", "search", "hits"},
         file : BOOLEAN, lang : Languages, episode : Subs!Episodes, empty : BOOLEAN,
         text : Subs!Texts \cup {None}, answer : Subs!Rows, known : BOOLEAN, lost : BOOLEAN]

\* What is looked up, and what is stored, for a request is there.
Has(r, own, ofTitle) ==
  IF r.file THEN own[r.lang] # None ELSE ofTitle[r.episode][r.lang] # None
Stored(r, own, ofTitle) ==
  IF r.file THEN own[r.lang] # None ELSE ofTitle[IF movie THEN 0 ELSE r.episode][r.lang] # None

\* What a request has downloaded is stored before it looks again, unless its title is gone.
Carries(r, own, ofTitle) ==
  r.text # None =>
    /\ r.pc \in {"title", "file", "reload", "fallback", "answered"}
    /\ r.pc = "reload" => Stored(r, own, ofTitle) \/ r.lost
    /\ r.pc = "fallback" => r.lost
    /\ r.pc = "answered" => r.answer[r.lang] # None \/ r.lost \/ (movie /\ r.episode # 0)

\* A request for what is there from before finds it.
Knows(r, own, ofTitle) ==
  r.known => Has(r, own, ofTitle) /\ r.text = None /\ r.pc \in {"load", "answered", "search", "hits"}

Asking(r, own, ofTitle, alive) ==
  /\ r \in Asks /\ Carries(r, own, ofTitle) /\ Knows(r, own, ofTitle)
  /\ r.lost => ~alive
  /\ r.file => r.episode = 0
  /\ r.pc = "file" => r.file
  /\ r.pc = "beside" => sidecar # None

\* Rows go with their title alone.
Lasting(got, own, ofTitle) ==
  \A x \in got : IF x[1] THEN own[x[3]] # None ELSE ofTitle[x[2]][x[3]] # None

SubsInv ==
  /\ Subs!TypeOK
  /\ Lasting(fetched, subtitles, title_subtitles)
  /\ \A v \in Viewers : Asking(viewer[v], subtitles, title_subtitles, there)

Grows(old, new) == \A l \in Languages : old[l] # None => new[l] # None

\* What a step does to the tables.
Grown ==
  /\ subtitles' \in Subs!Rows /\ title_subtitles' \in [Subs!Episodes -> Subs!Rows]
  /\ Grows(subtitles, subtitles')
  /\ \A e \in Subs!Episodes : Grows(title_subtitles[e], title_subtitles'[e])

LEMMA NotAskingIs ==
  ASSUME Subs!SubtitleAssumption
  PROVE  /\ Subs!NotAsking \in Asks /\ Subs!NotAsking.text = None /\ ~Subs!NotAsking.known
         /\ ~Subs!NotAsking.lost /\ Subs!NotAsking.pc = "idle" /\ ~Subs!NotAsking.file
  BY DEF Subs!NotAsking, Asks, Subs!SubtitleAssumption, Subs!Episodes, Subs!NoRows, Subs!Rows

LEMMA NotAskingAsks ==
  ASSUME Subs!SubtitleAssumption, NEW own, NEW ofTitle, NEW alive
  PROVE  Asking(Subs!NotAsking, own, ofTitle, alive)
  BY NotAskingIs DEF Asking, Carries, Knows

LEMMA KeptGrows ==
  ASSUME NEW rows \in Subs!Rows, NEW l \in Languages, NEW text \in Subs!Texts \cup {None}
  PROVE  /\ Subs!Kept(rows, l, text) \in Subs!Rows /\ Grows(rows, Subs!Kept(rows, l, text))
         /\ text # None => Subs!Kept(rows, l, text)[l] # None
  BY DEF Subs!Kept, Grows, Subs!Rows

LEMMA AsksStay ==
  ASSUME NEW r \in Asks, Asking(r, subtitles, title_subtitles, there), Grown, UNCHANGED <<movie, there>>
  PROVE  Asking(r, subtitles', title_subtitles', there')
<1>1. /\ r.lang \in Languages /\ r.episode \in Subs!Episodes /\ 0 \in Subs!Episodes
  BY DEF Asks, Subs!Episodes
<1>2. /\ Has(r, subtitles, title_subtitles) => Has(r, subtitles', title_subtitles')
      /\ Stored(r, subtitles, title_subtitles) => Stored(r, subtitles', title_subtitles')
  BY <1>1 DEF Has, Stored, Grown, Grows
<1> QED BY <1>2 DEF Asking, Carries, Knows

LEMMA FetchedLasts ==
  ASSUME SubsInv, Grown
  PROVE  Lasting(fetched, subtitles', title_subtitles')
<1>1. \A x \in fetched : x[1] \in BOOLEAN /\ x[2] \in Subs!Episodes /\ x[3] \in Languages
  BY DEF SubsInv, Subs!TypeOK
<1> QED BY <1>1 DEF SubsInv, Lasting, Grown, Grows

\* A step of one request.
LEMMA AskStep ==
  ASSUME SubsInv, Grown, UNCHANGED <<movie, parsed, sidecar, there, keys, fetched>>,
         asked' \in 0..MaxAsked, troubles' \in 0..MaxTroubles,
         NEW v \in Viewers, NEW r, viewer' = [viewer EXCEPT ![v] = r],
         Asking(r, subtitles', title_subtitles', there')
  PROVE  SubsInv'
<1>1. \A w \in Viewers : viewer'[w] = IF w = v THEN r ELSE viewer[w]
  BY DEF SubsInv, Subs!TypeOK
<1>2. \A w \in Viewers : viewer[w] \in Asks /\ Asking(viewer[w], subtitles, title_subtitles, there)
  BY DEF SubsInv, Asking
<1>3. \A w \in Viewers : Asking(viewer'[w], subtitles', title_subtitles', there')
  BY <1>1, <1>2, AsksStay
<1>4. r \in Asks /\ viewer \in [Viewers -> Asks]
  BY DEF Asking, SubsInv, Subs!TypeOK, Asks
<1>5. viewer' \in [Viewers -> Asks]
  BY <1>4
<1>6. Subs!TypeOK'
  BY <1>5 DEF SubsInv, Subs!TypeOK, Asks, Grown
<1>7. Lasting(fetched', subtitles', title_subtitles')
  BY FetchedLasts
<1>8. \A w \in Viewers : Asking(viewer[w], subtitles, title_subtitles, there)'
  BY <1>3 DEF Asking, Carries, Knows, Has, Stored, Asks, Subs!Rows, Subs!Texts, Subs!Episodes
<1> QED BY <1>6, <1>7, <1>8 DEF SubsInv, Lasting

LEMMA SubsAre ==
  ASSUME SubsInv, NEW v \in Viewers
  PROVE  /\ viewer[v] \in Asks /\ Asking(viewer[v], subtitles, title_subtitles, there)
         /\ subtitles \in Subs!Rows /\ title_subtitles \in [Subs!Episodes -> Subs!Rows]
         /\ movie \in BOOLEAN /\ parsed \in Subs!Episodes /\ sidecar \in Languages \cup {None}
         /\ asked \in 0..MaxAsked /\ troubles \in 0..MaxTroubles
  BY DEF SubsInv, Subs!TypeOK, Asking

LEMMA SameTables ==
  ASSUME SubsInv, UNCHANGED <<subtitles, title_subtitles>>
  PROVE  Grown
  BY DEF SubsInv, Subs!TypeOK, Grown, Grows

LEMMA AskStarts ==
  ASSUME SubsInv, Subs!SubtitleAssumption, NEW v \in Viewers, NEW pc \in {"load", "search"},
         NEW file \in BOOLEAN, NEW e \in Subs!Episodes, NEW l \in Languages, file => e = 0,
         Subs!Start(v, pc, file, e, l)
  PROVE  SubsInv'
<1> DEFINE r == [Subs!NotAsking EXCEPT !.pc = pc, !.file = file, !.episode = e, !.lang = l,
                                       !.known = <<file, e, l>> \in fetched]
<1>1. viewer' = [viewer EXCEPT ![v] = r]
  BY DEF Subs!Start, Subs!Set
<1>0. (<<file, e, l>> \in fetched) \in BOOLEAN
  OBVIOUS
<1> DEFINE known == <<file, e, l>> \in fetched
<1>2. /\ r \in Asks /\ r.pc = pc /\ r.file = file /\ r.episode = e /\ r.lang = l
      /\ r.text = None /\ ~r.lost /\ r.known = known
  <2> HIDE DEF known
  <2>1. Subs!NotAsking \in Asks /\ known \in BOOLEAN
    BY NotAskingIs, <1>0 DEF known
  <2>2. r = [Subs!NotAsking EXCEPT !.pc = pc, !.file = file, !.episode = e, !.lang = l,
                                   !.known = known]
    BY DEF known
  <2> HIDE DEF r
  <2> QED BY <2>1, <2>2, NotAskingIs DEF Asks
<1> HIDE DEF r
<1>3. Grown /\ UNCHANGED <<subtitles, title_subtitles, movie, parsed, sidecar, there, keys, fetched>>
  BY SameTables DEF Subs!Start, Subs!world, Subs!tables
<1>4. r.known => Has(r, subtitles, title_subtitles)
  BY <1>2 DEF SubsInv, Lasting, Has
<1>5. Asking(r, subtitles', title_subtitles', there')
  BY <1>2, <1>3, <1>4 DEF Asking, Carries, Knows
<1>6. asked' \in 0..MaxAsked /\ troubles' \in 0..MaxTroubles
  BY SubsAre DEF Subs!Start, Subs!SubtitleAssumption
<1> QED BY <1>1, <1>3, <1>5, <1>6, AskStep

LEMMA StartsKeep ==
  ASSUME SubsInv, Subs!SubtitleAssumption, NEW v \in Viewers,
         Subs!EnsureSubtitles(v) \/ Subs!FetchSubtitles(v) \/ Subs!SearchSubtitles(v)
  PROVE  SubsInv'
<1>1. CASE Subs!EnsureSubtitles(v)
  <2>1. PICK l \in Languages : Subs!Start(v, "load", TRUE, 0, l)
    BY <1>1 DEF Subs!EnsureSubtitles
  <2>2. 0 \in Subs!Episodes /\ TRUE \in BOOLEAN /\ (TRUE => 0 = 0) /\ "load" \in {"load", "search"}
    BY DEF Subs!Episodes
  <2> QED BY <2>1, <2>2, AskStarts
<1>2. CASE Subs!FetchSubtitles(v)
  <2>1. PICK e \in Subs!Episodes, l \in Languages : Subs!Start(v, "load", FALSE, e, l)
    BY <1>2 DEF Subs!FetchSubtitles
  <2> QED BY <2>1, AskStarts
<1>3. CASE Subs!SearchSubtitles(v)
  <2>1. PICK e \in Subs!Episodes, l \in Languages : Subs!Start(v, "search", FALSE, e, l)
    BY <1>3 DEF Subs!SearchSubtitles
  <2> QED BY <2>1, AskStarts
<1> QED BY <1>1, <1>2, <1>3

\* A request that gives up, or starts anew.
LEMMA GiveUpKeeps ==
  ASSUME SubsInv, Subs!SubtitleAssumption, NEW v \in Viewers, Subs!Errs(v), Grown,
         UNCHANGED <<movie, parsed, sidecar, there, keys, fetched>>,
         asked' \in 0..MaxAsked, troubles' \in 0..MaxTroubles
  PROVE  SubsInv'
BY NotAskingAsks, AskStep DEF Subs!Errs, Subs!Set

LEMMA EndsKeep ==
  ASSUME SubsInv, Subs!SubtitleAssumption, NEW v \in Viewers,
         Subs!DownloadFails(v) \/ Subs!HangUp(v) \/ Subs!CloseMenu(v)
  PROVE  SubsInv'
<1>1. /\ Subs!Errs(v) /\ UNCHANGED <<subtitles, title_subtitles>>
      /\ UNCHANGED <<movie, parsed, sidecar, there, keys, fetched>>
      /\ asked' \in 0..MaxAsked /\ troubles' \in 0..MaxTroubles
  BY SubsAre DEF Subs!DownloadFails, Subs!HangUp, Subs!CloseMenu, Subs!Errs, Subs!Trouble,
                 Subs!world, Subs!tables, Subs!SubtitleAssumption
<1> QED BY <1>1, SameTables, GiveUpKeeps

\* A step of a request that changes no table.
LEMMA LooksKeep ==
  ASSUME SubsInv, Subs!SubtitleAssumption, NEW v \in Viewers, NEW r,
         viewer' = [viewer EXCEPT ![v] = r], Asking(r, subtitles, title_subtitles, there),
         UNCHANGED <<Subs!world, Subs!tables, fetched, asked, troubles>>
  PROVE  SubsInv'
<1>1. Grown
  BY SameTables DEF Subs!tables
<1>2. Asking(r, subtitles', title_subtitles', there')
  BY DEF Subs!world, Subs!tables
<1> QED BY <1>1, <1>2, SubsAre, AskStep DEF Subs!world

LEMMA GoingOn ==
  ASSUME SubsInv, NEW v \in Viewers, viewer[v].text = None, ~viewer[v].known,
         NEW pc \in {"beside", "fetch", "reload"}, pc = "beside" => sidecar # None
  PROVE  Asking([viewer[v] EXCEPT !.pc = pc], subtitles, title_subtitles, there)
<1> DEFINE r == [viewer[v] EXCEPT !.pc = pc]
<1>1. /\ r \in Asks /\ r.text = None /\ ~r.known /\ r.pc = pc /\ r.lost = viewer[v].lost
      /\ r.file = viewer[v].file /\ r.episode = viewer[v].episode
  BY SubsAre DEF Asks
<1> HIDE DEF r
<1>2. Asking(r, subtitles, title_subtitles, there)
  BY <1>1, SubsAre DEF Asking, Carries, Knows
<1> QED BY <1>2 DEF r

\* What is answered.
LEMMA Answering ==
  ASSUME SubsInv, NEW v \in Viewers, NEW rows \in Subs!Rows,
         viewer[v].text # None =>
           rows[viewer[v].lang] # None \/ viewer[v].lost \/ (movie /\ viewer[v].episode # 0)
  PROVE  Asking([viewer[v] EXCEPT !.pc = "answered", !.answer = rows],
                subtitles, title_subtitles, there)
<1> DEFINE r == [viewer[v] EXCEPT !.pc = "answered", !.answer = rows]
<1>1. /\ r \in Asks /\ r.text = viewer[v].text /\ r.known = viewer[v].known /\ r.pc = "answered"
      /\ r.lost = viewer[v].lost /\ r.answer = rows /\ r.lang = viewer[v].lang
      /\ r.file = viewer[v].file /\ r.episode = viewer[v].episode
  BY SubsAre DEF Asks
<1> HIDE DEF r
<1>2. Asking(r, subtitles, title_subtitles, there)
  BY <1>1, SubsAre DEF Asking, Carries, Knows, Has
<1> QED BY <1>2 DEF r

LEMMA LoadKeeps ==
  ASSUME SubsInv, Subs!SubtitleAssumption, NEW v \in Viewers, Subs!Load(v)
  PROVE  SubsInv'
<1> DEFINE rows == IF viewer[v].file THEN subtitles ELSE title_subtitles[viewer[v].episode]
           r == [viewer[v] EXCEPT !.pc = "meta", !.empty = (rows = Subs!NoRows)]
<1>1. rows \in Subs!Rows /\ viewer[v].text = None
  BY SubsAre DEF Subs!Load, Asking, Carries, Asks
<1>2. CASE rows[viewer[v].lang] # None
  <2>1. viewer' = [viewer EXCEPT ![v] = [viewer[v] EXCEPT !.pc = "answered", !.answer = rows]]
    BY <1>2 DEF Subs!Load, Subs!Answer, Subs!Set
  <2>2. Asking([viewer[v] EXCEPT !.pc = "answered", !.answer = rows],
               subtitles, title_subtitles, there)
    BY <1>1, Answering
  <2> QED BY <2>1, <2>2, LooksKeep DEF Subs!Load
<1>3. CASE ~(rows[viewer[v].lang] # None)
  <2>1. viewer' = [viewer EXCEPT ![v] = r]
    BY <1>3 DEF Subs!Load, Subs!Set
  <2>2. ~viewer[v].known
    BY <1>3, SubsAre DEF Asking, Knows, Has
  <2>3. /\ r \in Asks /\ r.text = None /\ ~r.known /\ r.pc = "meta" /\ r.lost = viewer[v].lost
        /\ r.file = viewer[v].file /\ r.episode = viewer[v].episode
    BY <1>1, <2>2, SubsAre DEF Asks
  <2> HIDE DEF r
  <2>4. Asking(r, subtitles, title_subtitles, there)
    BY <2>3, SubsAre DEF Asking, Carries, Knows
  <2> QED BY <2>1, <2>4, LooksKeep DEF Subs!Load
<1> QED BY <1>2, <1>3

LEMMA LoadMetaKeeps ==
  ASSUME SubsInv, Subs!SubtitleAssumption, NEW v \in Viewers, Subs!LoadMeta(v)
  PROVE  SubsInv'
<1>1. CASE ~there
  <2>1. Subs!Errs(v)
    BY <1>1 DEF Subs!LoadMeta
  <2>2. /\ UNCHANGED <<movie, parsed, sidecar, there, keys, fetched>> /\ Grown
        /\ asked' \in 0..MaxAsked /\ troubles' \in 0..MaxTroubles
    BY SameTables, SubsAre DEF Subs!LoadMeta, Subs!world, Subs!tables
  <2> QED BY <2>1, <2>2, GiveUpKeeps
<1>2. CASE there
  <2>1. PICK pc \in {"beside", "fetch", "reload"} :
          /\ viewer' = [viewer EXCEPT ![v] = [viewer[v] EXCEPT !.pc = pc]]
          /\ pc = "beside" => sidecar # None
    BY <1>2 DEF Subs!LoadMeta, Subs!Goes, Subs!Set
  <2>2. viewer[v].text = None /\ ~viewer[v].known
    BY SubsAre DEF Subs!LoadMeta, Asking, Carries, Knows
  <2>3. Asking([viewer[v] EXCEPT !.pc = pc], subtitles, title_subtitles, there)
    BY <2>1, <2>2, GoingOn
  <2> QED BY <2>1, <2>3, LooksKeep DEF Subs!LoadMeta
<1> QED BY <1>1, <1>2

LEMMA DownloadKeeps ==
  ASSUME SubsInv, Subs!SubtitleAssumption, NEW v \in Viewers, Subs!Download(v)
  PROVE  SubsInv'
<1>1. viewer[v].text = None /\ ~viewer[v].known
  BY SubsAre DEF Subs!Download, Asking, Carries, Knows
<1>2. CASE Subs!Goes(v, "reload")
  <2>1. Asking([viewer[v] EXCEPT !.pc = "reload"], subtitles, title_subtitles, there)
    BY <1>1, GoingOn
  <2> QED BY <1>2, <2>1, LooksKeep DEF Subs!Download, Subs!Goes, Subs!Set
<1>3. CASE ~Subs!Goes(v, "reload")
  <2>1. PICK l \in {viewer[v].lang, English} :
          Subs!Set(v, [viewer[v] EXCEPT !.pc = "title",
                         !.text = [in |-> l, for |-> Subs!IsFor(v), from |-> "opensubtitles"]])
    BY <1>3 DEF Subs!Download
  <2> DEFINE text == [in |-> l, for |-> Subs!IsFor(v), from |-> "opensubtitles"]
             r == [viewer[v] EXCEPT !.pc = "title", !.text = text]
  <2>2. Subs!IsFor(v) \in Subs!Episodes /\ l \in Languages
    BY SubsAre DEF Subs!IsFor, Subs!Lookup, Subs!Episodes, Asks, Subs!SubtitleAssumption
  <2>3. text \in Subs!Texts
    BY <2>2 DEF Subs!Texts
  <2> HIDE DEF text
  <2>4. /\ r \in Asks /\ ~r.known /\ r.pc = "title" /\ r.lost = viewer[v].lost
        /\ r.file = viewer[v].file /\ r.episode = viewer[v].episode
    BY <1>1, <2>3, SubsAre DEF Asks
  <2>5. viewer' = [viewer EXCEPT ![v] = r]
    BY <2>1 DEF Subs!Set, text
  <2> HIDE DEF r
  <2>6. Asking(r, subtitles, title_subtitles, there)
    BY <2>4, SubsAre DEF Asking, Carries, Knows
  <2> QED BY <2>5, <2>6, LooksKeep DEF Subs!Download
<1> QED BY <1>2, <1>3

\* A store of a title that is gone.
LEMMA NoStoreKeeps ==
  ASSUME SubsInv, Subs!SubtitleAssumption, NEW v \in Viewers, ~there,
         Subs!StoreSidecar(v) \/ Subs!StoreForTitle(v) \/ Subs!StoreForFile(v)
  PROVE  SubsInv'
<1>1. /\ Subs!Errs(v) /\ UNCHANGED <<subtitles, title_subtitles>>
      /\ UNCHANGED <<movie, parsed, sidecar, there, keys, fetched, asked, troubles>>
  BY DEF Subs!StoreSidecar, Subs!StoreForTitle, Subs!StoreForFile, Subs!world
<1> QED BY <1>1, SubsAre, SameTables, GiveUpKeeps

LEMMA StoreSidecarKeeps ==
  ASSUME SubsInv, Subs!SubtitleAssumption, NEW v \in Viewers, there, Subs!StoreSidecar(v)
  PROVE  SubsInv'
<1> DEFINE text == [in |-> sidecar, for |-> parsed, from |-> "sidecar"]
           r == [viewer[v] EXCEPT !.pc = "reload"]
<1>1. /\ viewer[v].text = None /\ ~viewer[v].known /\ viewer[v].lang \in Languages
      /\ sidecar # None
  BY SubsAre DEF Subs!StoreSidecar, Asking, Carries, Knows, Asks
<1>2. text \in Subs!Texts
  BY <1>1, SubsAre DEF Subs!Texts
<1>3. Asking(r, subtitles, title_subtitles, there) /\ r \in Asks
  BY <1>1, GoingOn DEF Asking
<1>4. viewer' = [viewer EXCEPT ![v] = r]
  BY DEF Subs!StoreSidecar, Subs!Goes, Subs!Set
<1>5. subtitles' = Subs!Kept(subtitles, viewer[v].lang, text)
  BY DEF Subs!StoreSidecar
<1>6. /\ UNCHANGED <<movie, parsed, sidecar, there, keys, fetched>> /\ UNCHANGED title_subtitles
      /\ asked' \in 0..MaxAsked /\ troubles' \in 0..MaxTroubles
  BY SubsAre DEF Subs!StoreSidecar, Subs!world
<1> HIDE DEF r, text
<1>7. Grown
  BY <1>1, <1>2, <1>5, <1>6, KeptGrows, SubsAre DEF Grown, Grows
<1>8. Asking(r, subtitles', title_subtitles', there')
  BY <1>3, <1>6, <1>7, AsksStay
<1> QED BY <1>4, <1>6, <1>7, <1>8, AskStep

LEMMA StoreForTitleKeeps ==
  ASSUME SubsInv, Subs!SubtitleAssumption, NEW v \in Viewers, there, Subs!StoreForTitle(v)
  PROVE  SubsInv'
<1> DEFINE pc == IF viewer[v].file THEN "file" ELSE "reload"
           r == [viewer[v] EXCEPT !.pc = pc]
           e == Subs!IsFor(v)
<1>1. /\ viewer[v].lang \in Languages /\ viewer[v].text \in Subs!Texts \cup {None}
      /\ viewer[v].episode \in Subs!Episodes /\ ~viewer[v].known /\ viewer[v].pc = "title"
      /\ viewer[v].file \in BOOLEAN
  BY SubsAre DEF Subs!StoreForTitle, Asking, Knows, Asks
<1>2. e \in Subs!Episodes /\ (~viewer[v].file => e = IF movie THEN 0 ELSE viewer[v].episode)
  <2>1. 0 \in Subs!Episodes
    BY DEF Subs!Episodes
  <2>2. parsed \in Subs!Episodes
    BY SubsAre
  <2> QED BY <1>1, <2>1, <2>2 DEF Subs!IsFor, Subs!Lookup
<1>3. viewer' = [viewer EXCEPT ![v] = r]
  BY DEF Subs!StoreForTitle, Subs!Goes, Subs!Set
<1>4. title_subtitles' = [title_subtitles EXCEPT ![e] =
                            Subs!Kept(title_subtitles[e], viewer[v].lang, viewer[v].text)]
  BY DEF Subs!StoreForTitle
<1>5. /\ UNCHANGED <<movie, parsed, sidecar, there, keys, fetched>> /\ UNCHANGED subtitles
      /\ asked' \in 0..MaxAsked /\ troubles' \in 0..MaxTroubles
  BY SubsAre DEF Subs!StoreForTitle, Subs!world
<1>6. /\ r \in Asks /\ r.pc = pc /\ r.text = viewer[v].text /\ ~r.known /\ r.lost = viewer[v].lost
      /\ r.lang = viewer[v].lang /\ r.file = viewer[v].file /\ r.episode = viewer[v].episode
  BY <1>1, SubsAre DEF Asks
<1>7. /\ viewer[v].file => pc = "file"
      /\ ~viewer[v].file => pc = "reload"
  OBVIOUS
<1> HIDE DEF r, e, pc
<1> DEFINE new == Subs!Kept(title_subtitles[e], viewer[v].lang, viewer[v].text)
<1>8. /\ new \in Subs!Rows /\ Grows(title_subtitles[e], new)
      /\ viewer[v].text # None => new[viewer[v].lang] # None
  BY <1>1, <1>2, KeptGrows, SubsAre
<1>9. \A d \in Subs!Episodes : title_subtitles'[d] = IF d = e THEN new ELSE title_subtitles[d]
  BY <1>2, <1>4, SubsAre
<1> HIDE DEF new
<1>10. Grown
  BY <1>2, <1>4, <1>5, <1>8, <1>9, SubsAre DEF Grown, Grows, new
<1>11. viewer[v].text # None /\ pc = "reload" => Stored(r, subtitles', title_subtitles')
  BY <1>2, <1>6, <1>7, <1>8, <1>9 DEF Stored
<1>12. Asking(r, subtitles', title_subtitles', there')
  BY <1>1, <1>5, <1>6, <1>7, <1>11, SubsAre DEF Asking, Carries, Knows
<1> QED BY <1>3, <1>5, <1>10, <1>12, AskStep

LEMMA StoreForFileKeeps ==
  ASSUME SubsInv, Subs!SubtitleAssumption, NEW v \in Viewers, there, Subs!StoreForFile(v)
  PROVE  SubsInv'
<1> DEFINE r == [viewer[v] EXCEPT !.pc = "reload"]
<1>1. /\ viewer[v].lang \in Languages /\ viewer[v].text \in Subs!Texts \cup {None}
      /\ viewer[v].file /\ ~viewer[v].known /\ viewer[v].pc = "file"
  BY SubsAre DEF Subs!StoreForFile, Asking, Knows, Asks
<1>2. viewer' = [viewer EXCEPT ![v] = r]
  BY DEF Subs!StoreForFile, Subs!Goes, Subs!Set
<1>3. subtitles' = Subs!Kept(subtitles, viewer[v].lang, viewer[v].text)
  BY DEF Subs!StoreForFile
<1>4. /\ UNCHANGED <<movie, parsed, sidecar, there, keys, fetched>> /\ UNCHANGED title_subtitles
      /\ asked' \in 0..MaxAsked /\ troubles' \in 0..MaxTroubles
  BY SubsAre DEF Subs!StoreForFile, Subs!world
<1>5. /\ r \in Asks /\ r.pc = "reload" /\ r.text = viewer[v].text /\ ~r.known
      /\ r.lost = viewer[v].lost /\ r.lang = viewer[v].lang /\ r.file = viewer[v].file
      /\ r.episode = viewer[v].episode
  BY <1>1, SubsAre DEF Asks
<1> HIDE DEF r
<1>6. /\ subtitles' \in Subs!Rows /\ Grows(subtitles, subtitles')
      /\ viewer[v].text # None => subtitles'[viewer[v].lang] # None
  BY <1>1, <1>3, KeptGrows, SubsAre
<1>7. Grown
  BY <1>4, <1>6, SubsAre DEF Grown, Grows
<1>8. Asking(r, subtitles', title_subtitles', there')
  BY <1>1, <1>4, <1>5, <1>6, SubsAre DEF Asking, Carries, Knows, Stored
<1> QED BY <1>2, <1>4, <1>7, <1>8, AskStep

LEMMA StoresKeep ==
  ASSUME SubsInv, Subs!SubtitleAssumption, NEW v \in Viewers,
         Subs!StoreSidecar(v) \/ Subs!StoreForTitle(v) \/ Subs!StoreForFile(v)
  PROVE  SubsInv'
BY NoStoreKeeps, StoreSidecarKeeps, StoreForTitleKeeps, StoreForFileKeeps

\* An answer after a download, which is remembered.
LEMMA DoneKeeps ==
  ASSUME SubsInv, Subs!SubtitleAssumption, NEW v \in Viewers, NEW rows \in Subs!Rows,
         Subs!Done(v, rows), UNCHANGED <<Subs!world, Subs!tables, asked, troubles>>,
         viewer[v].text # None =>
           rows[viewer[v].lang] # None \/ viewer[v].lost \/ (movie /\ viewer[v].episode # 0),
         viewer[v].text # None /\ there /\ ~(movie /\ viewer[v].episode # 0)
           => Has(viewer[v], subtitles, title_subtitles)
  PROVE  SubsInv'
<1> DEFINE r == [viewer[v] EXCEPT !.pc = "answered", !.answer = rows]
           x == <<viewer[v].file, viewer[v].episode, viewer[v].lang>>
<1>1. Asking(r, subtitles, title_subtitles, there)
  BY Answering
<1>2. /\ viewer' = [viewer EXCEPT ![v] = r]
      /\ UNCHANGED <<movie, parsed, sidecar, there, keys, subtitles, title_subtitles, asked, troubles>>
  BY DEF Subs!Done, Subs!Answer, Subs!Set, Subs!world, Subs!tables
<1>3. fetched' = fetched \/ (fetched' = fetched \cup {x} /\ Has(viewer[v], subtitles, title_subtitles))
  BY DEF Subs!Done
<1>4. x \in BOOLEAN \X Subs!Episodes \X Languages
  BY SubsAre DEF Asks
<1> HIDE DEF r
<1>5. Lasting(fetched', subtitles, title_subtitles) /\ fetched' \subseteq BOOLEAN \X Subs!Episodes \X Languages
  <2>1. CASE fetched' = fetched
    BY <2>1 DEF SubsInv, Subs!TypeOK
  <2>2. CASE fetched' = fetched \cup {x} /\ Has(viewer[v], subtitles, title_subtitles)
    BY <1>4, <2>2 DEF SubsInv, Subs!TypeOK, Lasting, Has
  <2> QED BY <1>3, <2>1, <2>2
<1>6. r \in Asks /\ viewer \in [Viewers -> Asks]
  BY <1>1 DEF Asking, SubsInv, Subs!TypeOK, Asks
<1>7. \A w \in Viewers : viewer'[w] = IF w = v THEN r ELSE viewer[w]
  BY <1>2, <1>6
<1>8. \A w \in Viewers : Asking(viewer'[w], subtitles, title_subtitles, there)
  BY <1>1, <1>7 DEF SubsInv
<1>9. \A w \in Viewers : Asking(viewer[w], subtitles, title_subtitles, there)'
  BY <1>2, <1>8 DEF Asking, Carries, Knows, Has, Stored, Asks, Subs!Rows, Subs!Texts, Subs!Episodes
<1>10. viewer' \in [Viewers -> Asks]
  BY <1>2, <1>6
<1>11. Subs!TypeOK'
  BY <1>2, <1>5, <1>10 DEF SubsInv, Subs!TypeOK, Asks
<1> QED BY <1>2, <1>5, <1>9, <1>11 DEF SubsInv, Lasting

LEMMA ReloadKeeps ==
  ASSUME SubsInv, Subs!SubtitleAssumption, NEW v \in Viewers, Subs!Reload(v)
  PROVE  SubsInv'
<1>1. /\ viewer[v].pc = "reload" /\ ~viewer[v].known /\ viewer[v].lang \in Languages
      /\ viewer[v].episode \in Subs!Episodes
      /\ viewer[v].text # None => Stored(viewer[v], subtitles, title_subtitles) \/ viewer[v].lost
      /\ viewer[v].lost => ~there
      /\ viewer[v].file => viewer[v].episode = 0
  BY SubsAre DEF Subs!Reload, Asking, Carries, Knows, Asks
<1>2. UNCHANGED <<Subs!world, Subs!tables, asked, troubles>>
  BY DEF Subs!Reload
<1>3. CASE viewer[v].file /\ Subs!Done(v, subtitles)
  <2>1. viewer[v].text # None => subtitles[viewer[v].lang] # None \/ viewer[v].lost
    BY <1>1, <1>3 DEF Stored
  <2> QED BY <1>1, <1>2, <1>3, <2>1, SubsAre, DoneKeeps DEF Has
<1>4. CASE /\ viewer[v].file /\ subtitles = Subs!NoRows
           /\ Subs!Goes(v, "fallback") /\ UNCHANGED fetched
  <2> DEFINE r == [viewer[v] EXCEPT !.pc = "fallback"]
  <2>1. viewer[v].text # None => viewer[v].lost
    BY <1>1, <1>4 DEF Stored, Subs!NoRows
  <2>2. /\ r \in Asks /\ r.pc = "fallback" /\ r.text = viewer[v].text /\ ~r.known
        /\ r.lost = viewer[v].lost /\ r.file = viewer[v].file /\ r.episode = viewer[v].episode
    BY <1>1, SubsAre DEF Asks
  <2>3. viewer' = [viewer EXCEPT ![v] = r]
    BY <1>4 DEF Subs!Goes, Subs!Set
  <2> HIDE DEF r
  <2>4. Asking(r, subtitles, title_subtitles, there)
    BY <1>1, <2>1, <2>2 DEF Asking, Carries, Knows
  <2> QED BY <1>2, <1>4, <2>3, <2>4, LooksKeep
<1>5. CASE ~viewer[v].file /\ Subs!Done(v, title_subtitles[viewer[v].episode])
  <2>1. viewer[v].text # None =>
          \/ title_subtitles[viewer[v].episode][viewer[v].lang] # None \/ viewer[v].lost
          \/ movie /\ viewer[v].episode # 0
    BY <1>1, <1>5 DEF Stored
  <2> QED BY <1>1, <1>2, <1>5, <2>1, SubsAre, DoneKeeps DEF Has
<1> QED BY <1>3, <1>4, <1>5 DEF Subs!Reload

LEMMA FallbackKeeps ==
  ASSUME SubsInv, Subs!SubtitleAssumption, NEW v \in Viewers, Subs!Fallback(v)
  PROVE  SubsInv'
<1>1. viewer[v].text # None => viewer[v].lost /\ ~there
  BY SubsAre DEF Subs!Fallback, Asking, Carries
<1>2. title_subtitles[parsed] \in Subs!Rows
  BY SubsAre
<1> QED BY <1>1, <1>2, DoneKeeps DEF Subs!Fallback

LEMMA WyzieKeeps ==
  ASSUME SubsInv, Subs!SubtitleAssumption, NEW v \in Viewers, Subs!Hits(v) \/ Subs!Pick(v)
  PROVE  SubsInv'
<1>1. PICK pc \in {"hits", "answered"}, rows \in Subs!Rows :
        viewer' = [viewer EXCEPT ![v] = [viewer[v] EXCEPT !.pc = pc, !.answer = rows]]
  <2>1. CASE Subs!Hits(v)
    <3>1. PICK found \in SUBSET Languages :
            LET l == viewer[v].lang
                shown == IF there THEN {h \in found : h \in {l, English} \/ l = English} ELSE {}
            IN Subs!Set(v, [viewer[v] EXCEPT !.pc = "hits", !.answer =
                 [h \in Languages |-> IF h \in shown
                                      THEN [in |-> h, for |-> viewer[v].episode, from |-> "wyzie"]
                                      ELSE None]])
      BY <2>1 DEF Subs!Hits
    <3> DEFINE l == viewer[v].lang
               shown == IF there THEN {h \in found : h \in {l, English} \/ l = English} ELSE {}
               rows == [h \in Languages |-> IF h \in shown
                          THEN [in |-> h, for |-> viewer[v].episode, from |-> "wyzie"] ELSE None]
    <3>2. \A h \in Languages : [in |-> h, for |-> viewer[v].episode, from |-> "wyzie"] \in Subs!Texts
      BY SubsAre DEF Asks, Subs!Texts
    <3>3. rows \in Subs!Rows
      BY <3>2 DEF Subs!Rows
    <3> QED BY <3>1, <3>3 DEF Subs!Set
  <2>2. CASE Subs!Pick(v)
    <3>1. PICK h \in Languages : Subs!Answer(v, [Subs!NoRows EXCEPT ![h] = viewer[v].answer[h]])
      BY <2>2 DEF Subs!Pick
    <3>2. [Subs!NoRows EXCEPT ![h] = viewer[v].answer[h]] \in Subs!Rows
      BY SubsAre DEF Asks, Subs!Rows, Subs!NoRows
    <3> QED BY <3>1, <3>2 DEF Subs!Answer, Subs!Set
  <2> QED BY <2>1, <2>2
<1> DEFINE r == [viewer[v] EXCEPT !.pc = pc, !.answer = rows]
<1>2. viewer[v].pc \in {"search", "hits"} /\ viewer[v].text = None
  BY SubsAre DEF Subs!Hits, Subs!Pick, Asking, Carries
<1>3. /\ r \in Asks /\ r.pc = pc /\ r.text = None /\ r.known = viewer[v].known /\ r.lang = viewer[v].lang
      /\ r.lost = viewer[v].lost /\ r.file = viewer[v].file /\ r.episode = viewer[v].episode
  BY <1>2, SubsAre DEF Asks
<1>4. viewer' = [viewer EXCEPT ![v] = r]
  BY <1>1
<1> HIDE DEF r
<1>5. Asking(r, subtitles, title_subtitles, there)
  BY <1>3, SubsAre DEF Asking, Carries, Knows, Has
<1>6. UNCHANGED <<Subs!world, Subs!tables, fetched, asked, troubles>>
  BY DEF Subs!Hits, Subs!Pick
<1> QED BY <1>4, <1>5, <1>6, LooksKeep

LEMMA DeleteTitleKeeps ==
  ASSUME SubsInv, Subs!SubtitleAssumption, Subs!DeleteTitle
  PROVE  SubsInv'
<1> DEFINE gone(v) == [viewer[v] EXCEPT !.known = FALSE, !.lost = TRUE]
<1>1. /\ ~there' /\ fetched' = {} /\ viewer' = [v \in Viewers |-> gone(v)]
      /\ subtitles' = Subs!NoRows /\ title_subtitles' = [e \in Subs!Episodes |-> Subs!NoRows]
      /\ UNCHANGED <<movie, parsed, sidecar, keys, asked, troubles>>
      /\ there' \in BOOLEAN
  BY DEF Subs!DeleteTitle
<1>2. ASSUME NEW v \in Viewers
      PROVE  /\ gone(v) \in Asks /\ gone(v).text = viewer[v].text /\ gone(v).pc = viewer[v].pc
             /\ ~gone(v).known /\ gone(v).lost /\ gone(v).file = viewer[v].file
             /\ gone(v).episode = viewer[v].episode
  BY SubsAre DEF Asks
<1>3. \A v \in Viewers : viewer'[v] = gone(v)
  BY <1>1
<1> HIDE DEF gone
<1>4. ASSUME NEW v \in Viewers
      PROVE  Asking(gone(v), subtitles', title_subtitles', there')
  BY <1>1, <1>2, SubsAre DEF Asking, Carries, Knows
<1>5. \A v \in Viewers : Asking(viewer[v], subtitles, title_subtitles, there)'
  BY <1>1, <1>3, <1>4 DEF Asking, Carries, Knows, Has, Stored, Asks, Subs!Rows, Subs!Texts, Subs!Episodes
<1>6. Subs!NoRows \in Subs!Rows
  BY DEF Subs!NoRows, Subs!Rows
<1>7. viewer' \in [Viewers -> Asks]
  BY <1>1, <1>2
<1>8. Subs!TypeOK'
  BY <1>1, <1>6, <1>7 DEF SubsInv, Subs!TypeOK, Asks
<1> QED BY <1>1, <1>5, <1>8 DEF SubsInv, Lasting

LEMMA SubsStays ==
  ASSUME SubsInv, UNCHANGED <<movie, parsed, sidecar, there, subtitles, title_subtitles, viewer,
                              fetched, asked>>,
         keys' \subseteq {"opensubtitles", "wyzie"}, troubles' \in 0..MaxTroubles
  PROVE  SubsInv'
<1>1. Subs!TypeOK'
  BY DEF SubsInv, Subs!TypeOK
<1>2. \A v \in Viewers : Asking(viewer[v], subtitles, title_subtitles, there)'
  BY DEF SubsInv, Asking, Carries, Knows, Has, Stored, Asks, Subs!Rows, Subs!Texts, Subs!Episodes
<1> QED BY <1>1, <1>2 DEF SubsInv, Lasting

LEMMA SubsInit ==
  ASSUME Subs!Init, Subs!SubtitleAssumption
  PROVE  SubsInv
<1>1. Subs!NoRows \in Subs!Rows
  BY DEF Subs!NoRows, Subs!Rows
<1>2. \A v \in Viewers : viewer[v] = Subs!NotAsking
  BY DEF Subs!Init
<1>3. viewer \in [Viewers -> Asks]
  BY NotAskingIs DEF Subs!Init
<1>4. Subs!TypeOK
  BY <1>1, <1>3 DEF Subs!Init, Subs!TypeOK, Asks, Subs!SubtitleAssumption
<1>5. \A v \in Viewers : Asking(viewer[v], subtitles, title_subtitles, there)
  BY <1>2, NotAskingAsks
<1> QED BY <1>4, <1>5 DEF SubsInv, Lasting, Subs!Init

LEMMA SubsStep ==
  ASSUME Subs!SubtitleAssumption, SubsInv, [Subs!Next]_(Subs!vars)
  PROVE  SubsInv'
<1>1. CASE UNCHANGED Subs!vars
  BY <1>1, SubsStays DEF Subs!vars, Subs!world, Subs!tables, SubsInv, Subs!TypeOK
<1>2. CASE Subs!ChangeKeys
  BY <1>2, SubsStays DEF Subs!ChangeKeys, Subs!Trouble, Subs!tables, SubsInv, Subs!TypeOK,
                         Subs!SubtitleAssumption
<1>3. CASE Subs!DeleteTitle
  BY <1>3, DeleteTitleKeeps
<1>4. ASSUME NEW v \in Viewers,
             \/ Subs!EnsureSubtitles(v) \/ Subs!FetchSubtitles(v) \/ Subs!SearchSubtitles(v)
             \/ Subs!Step(v) \/ Subs!Pick(v) \/ Subs!CloseMenu(v) \/ Subs!DownloadFails(v)
             \/ Subs!HangUp(v)
      PROVE  SubsInv'
  BY <1>4, StartsKeep, EndsKeep, LoadKeeps, LoadMetaKeeps, DownloadKeeps, StoresKeep, ReloadKeeps,
     FallbackKeeps, WyzieKeeps DEF Subs!Step
<1> QED BY <1>1, <1>2, <1>3, <1>4 DEF Subs!Next

LEMMA SubsGive == ASSUME SubsInv PROVE SubtitlesAreKept
BY SubsAre DEF SubtitlesAreKept, Subs!SubtitlesAreKept, Subs!NotFetchedAgain, Subs!FetchedIsAnswered,
               Asking, Carries, Knows

LEMMA SubsInvariant == Subs!Spec => []SubsInv
<1>1. Subs!Init => SubsInv
  BY SubsInit, SubsAssumption
<1>2. SubsInv /\ [Subs!Next]_(Subs!vars) => SubsInv'
  BY SubsStep, SubsAssumption
<1> QED BY <1>1, <1>2, PTL DEF Subs!Spec

\* Requests, answers and tables have their types (subtitles.rs).
THEOREM SubtitleTypeCorrect == Subs!Spec => []Subs!TypeOK
<1>1. SubsInv => Subs!TypeOK
  BY DEF SubsInv
<1> QED BY <1>1, SubsInvariant, PTL

\* Whatever is downloaded for a video stays what is given out, to requests that start later and to
\* the one that downloaded it (ensure_for_file, fetch_for_title).
THEOREM SubtitlesStay == Subs!Spec => []SubtitlesAreKept
<1>1. SubsInv => SubtitlesAreKept
  BY SubsGive
<1> QED BY <1>1, SubsInvariant, PTL
=============================================================================
