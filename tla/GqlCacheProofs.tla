---------------------------- MODULE GqlCacheProofs ----------------------------
(***************************************************************************)
(* Proofs about the GraphQL response cache, for any number of devices,     *)
(* queries, concurrent requests and writes.                                *)
(***************************************************************************)
EXTENDS GqlCache, TLAPS

\* No cached or computed answer is filed under another device.
EntriesInScope == \A k \in Keys : cache[k] # None => cache[k].of = k[1]
AnswersInScope ==
  \A r \in Requests : req[r].pc \in {"insert", "respond"} => req[r].ans.of = req[r].dev

\* What StaleOnlyIfMissed says of entries also holds of the answers about to
\* become one: this makes it inductive.
Behind(a) == a.own # own[a.of] \/ a.shared # shared
InsertsStaleOnlyIfMissed ==
  \A r \in Requests :
    (req[r].pc = "insert" /\ Behind(req[r].ans) /\ ~req[r].ans.missed)
      => Pending(req[r].dev)

CacheInv ==
  /\ TypeOK
  /\ EntriesInScope
  /\ AnswersInScope
  /\ StaleOnlyIfMissed
  /\ InsertsStaleOnlyIfMissed

-----------------------------------------------------------------------------
(* The handler's states, case by case. *)

\* What a state of a handler holds follows from where it is.
LEMMA StateByPc ==
  ASSUME NEW s \in ReqState
  PROVE  /\ s.pc \in {"idle", "lookup", "execute", "insert", "invalidate", "respond"}
         /\ s.pc = "idle" => s = Idle
         /\ s.pc = "lookup" =>
              s \in [pc : {"lookup", "execute"}, dev : Devices, kind : QueryKind, q : Queries]
         /\ s.pc = "execute" /\ s.kind \in QueryKind =>
              s \in [pc : {"lookup", "execute"}, dev : Devices, kind : QueryKind, q : Queries]
         /\ s.pc = "execute" /\ s.kind \in MutationKind =>
              s \in [pc : {"execute", "invalidate"}, dev : Devices, kind : MutationKind]
         /\ s.pc = "invalidate" =>
              s \in [pc : {"execute", "invalidate"}, dev : Devices, kind : MutationKind]
         /\ s.pc = "insert" => s \in [pc : {"insert"}, dev : Devices, q : Queries, ans : Answer]
         /\ s.pc = "respond" => s \in [pc : {"respond"}, dev : Devices, ans : Answer]
<1>1. CASE s \in {Idle}
  BY <1>1 DEF Idle
<1>2. CASE s \in [pc : {"lookup", "execute"}, dev : Devices, kind : QueryKind, q : Queries]
  BY <1>2 DEF QueryKind, MutationKind
<1>3. CASE s \in [pc : {"execute", "invalidate"}, dev : Devices, kind : MutationKind]
  BY <1>3 DEF QueryKind, MutationKind
<1>4. CASE s \in [pc : {"insert"}, dev : Devices, q : Queries, ans : Answer]
  BY <1>4
<1>5. CASE s \in [pc : {"respond"}, dev : Devices, ans : Answer]
  BY <1>5
<1> QED  BY <1>1, <1>2, <1>3, <1>4, <1>5 DEF ReqState

\* Marking an answer keeps its type and everything else about the request.
LEMMA MarkedAnswer ==
  ASSUME NEW a \in Answer
  PROVE  /\ [a EXCEPT !.missed = TRUE] \in Answer
         /\ [a EXCEPT !.missed = TRUE].of = a.of
         /\ [a EXCEPT !.missed = TRUE].missed
BY DEF Answer

LEMMA MissForKeeps ==
  ASSUME NEW s \in ReqState, NEW ds
  PROVE  /\ MissFor(s, ds) \in ReqState
         /\ MissFor(s, ds).pc = s.pc
         /\ s.pc # "idle" => MissFor(s, ds).dev = s.dev
         /\ s.pc = "invalidate" => MissFor(s, ds) = s
         /\ s.pc # "insert" => MissFor(s, ds) = s
         /\ s.pc = "insert" /\ s.dev \in ds =>
              MissFor(s, ds).ans.missed /\ MissFor(s, ds).ans.of = s.ans.of
         /\ s.pc = "insert" /\ s.dev \notin ds => MissFor(s, ds) = s
<1>1. CASE s.pc = "insert" /\ s.dev \in ds
  <2>1. s \in [pc : {"insert"}, dev : Devices, q : Queries, ans : Answer]
    BY <1>1, StateByPc
  <2>2. [s.ans EXCEPT !.missed = TRUE] \in Answer
    BY <2>1, MarkedAnswer
  <2>3. MissFor(s, ds) = [s EXCEPT !.ans = [s.ans EXCEPT !.missed = TRUE]]
    BY <1>1, <2>1 DEF MissFor
  <2>4. MissFor(s, ds) \in [pc : {"insert"}, dev : Devices, q : Queries, ans : Answer]
    BY <2>1, <2>2, <2>3
  <2> QED  BY <1>1, <2>1, <2>3, <2>4, MarkedAnswer DEF ReqState
<1>2. CASE ~(s.pc = "insert" /\ s.dev \in ds)
  BY <1>2 DEF MissFor
<1> QED  BY <1>1, <1>2

-----------------------------------------------------------------------------
(* Steps that change one handler and nothing else. *)

\* The mutations about to invalidate stay so when another request moves on.
LEMMA PendingStays ==
  ASSUME TypeOK, NEW r \in Requests, NEW s, req' = [req EXCEPT ![r] = s],
         req[r].pc # "invalidate"
  PROVE  \A d \in Devices : Pending(d) => Pending(d)'
BY DEF Pending, TypeOK

\* What a step of request r may turn its state into without touching anything
\* else: an answer under its own device that is up to date if it is to be cached.
LEMMA OnlyRequestMoves ==
  ASSUME CacheInv, NEW r \in Requests, NEW s \in ReqState,
         req' = [req EXCEPT ![r] = s], UNCHANGED <<own, shared, cache>>,
         req[r].pc # "invalidate",
         s.pc \in {"insert", "respond"} => s.ans.of = s.dev,
         s.pc = "insert" => ~Behind(s.ans)
  PROVE  CacheInv'
<1> USE DEF CacheInv
<1>1. TypeOK'
  BY DEF TypeOK
<1>2. EntriesInScope'
  BY DEF EntriesInScope
<1>3. \A t \in Requests : req'[t] = IF t = r THEN s ELSE req[t]
  BY DEF TypeOK
<1>4. AnswersInScope'
  BY <1>3 DEF AnswersInScope
<1>5. \A d \in Devices : Pending(d) => Pending(d)'
  BY PendingStays
<1>6. StaleOnlyIfMissed'
  BY <1>5 DEF StaleOnlyIfMissed, Outdated, Keys
<1>7. InsertsStaleOnlyIfMissed'
  <2> SUFFICES ASSUME NEW t \in Requests, (req[t].pc = "insert")',
                      Behind(req[t].ans)', (~req[t].ans.missed)'
               PROVE  Pending(req[t].dev)'
    BY DEF InsertsStaleOnlyIfMissed
  <2>1. CASE t = r
    BY <1>3, <2>1 DEF Behind
  <2>2. CASE t # r
    <3>1. req[t].pc = "insert" /\ Behind(req[t].ans) /\ ~req[t].ans.missed
      BY <1>3, <2>2 DEF Behind
    <3>2. req[t].dev \in Devices
      BY <3>1, StateByPc DEF TypeOK
    <3>3. Pending(req[t].dev)
      BY <3>1 DEF InsertsStaleOnlyIfMissed
    <3>4. \A d \in Devices : d = req[t].dev => Pending(d)'
      BY <1>5, <3>3
    <3> QED  BY <1>3, <2>2, <3>2, <3>4 DEF Pending
  <2> QED  BY <2>1, <2>2
<1> QED  BY <1>1, <1>2, <1>4, <1>6, <1>7

-----------------------------------------------------------------------------
(* Steps that invalidate the answers of some devices, or fail to. *)

LEMMA InvalidatedKeys ==
  ASSUME NEW d, NEW kind, NEW k \in Keys
  PROVE  k \in Invalidated(d, kind) <=> k[1] \in Touched(d, kind)
BY DEF Invalidated, Touched, InScope, Keys

\* The answers of devices ds are dropped or marked, the requests in `gone`
\* end, and none of those was to invalidate for a device outside ds.
LEMMA InvalidationMarksAll ==
  ASSUME CacheInv, NEW ds \in SUBSET Devices, NEW gone \in SUBSET Requests,
         UNCHANGED own, shared' \in 0..MaxWrites, shared' # shared => ds = Devices,
         cache' \in [Keys -> Answer \cup {None}],
         \A k \in Keys : k[1] \in ds =>
            \/ cache'[k] = None
            \/ cache[k] # None /\ cache'[k].missed /\ cache'[k].of = cache[k].of,
         \A k \in Keys : k[1] \notin ds => cache'[k] = cache[k],
         req' = [t \in Requests |-> IF t \in gone THEN Idle ELSE MissFor(req[t], ds)],
         \A t \in gone, d \in Devices :
            req[t].pc = "invalidate" /\ d \in Touched(req[t].dev, req[t].kind) => d \in ds
  PROVE  CacheInv'
<1> USE DEF CacheInv
<1>1. \A t \in Requests : req[t] \in ReqState
  BY DEF TypeOK
<1>2. Idle \in ReqState /\ Idle.pc = "idle"
  BY DEF ReqState, Idle
<1>3. TypeOK'
  BY <1>1, <1>2, MissForKeeps DEF TypeOK
<1>4. EntriesInScope'
  BY DEF EntriesInScope, Keys
<1>5. AnswersInScope'
  <2> SUFFICES ASSUME NEW t \in Requests, req'[t].pc \in {"insert", "respond"}
               PROVE  req'[t].ans.of = req'[t].dev
    BY DEF AnswersInScope
  <2>1. t \notin gone /\ req'[t] = MissFor(req[t], ds) /\ req[t].pc \in {"insert", "respond"}
    BY <1>1, <1>2, MissForKeeps
  <2>2. req'[t].dev = req[t].dev
    BY <1>1, <2>1, MissForKeeps
  <2>3. req'[t].ans.of = req[t].ans.of
    BY <1>1, <2>1, MissForKeeps
  <2> QED  BY <2>1, <2>2, <2>3 DEF AnswersInScope
<1>6. ASSUME NEW d \in Devices, d \notin ds, Pending(d)
      PROVE  Pending(d)'
  <2>1. PICK t \in Requests : req[t].pc = "invalidate" /\ d \in Touched(req[t].dev, req[t].kind)
    BY <1>6 DEF Pending
  <2>2. t \notin gone
    BY <1>6, <2>1
  <2>3. req'[t] = req[t]
    BY <1>1, <2>1, <2>2, MissForKeeps
  <2> QED  BY <2>1, <2>3 DEF Pending
<1>7. StaleOnlyIfMissed'
  <2> SUFFICES ASSUME NEW k \in Keys, cache'[k] # None, Outdated(k)', ~cache'[k].missed
               PROVE  Pending(k[1])'
    BY DEF StaleOnlyIfMissed
  <2>1. k[1] \in Devices /\ k[1] \notin ds
    BY DEF Keys
  <2>2. cache'[k] = cache[k] /\ shared' = shared
    BY <2>1
  <2>3. Outdated(k)
    BY <2>2 DEF Outdated
  <2> QED  BY <1>6, <2>1, <2>2, <2>3 DEF StaleOnlyIfMissed
<1>8. InsertsStaleOnlyIfMissed'
  <2> SUFFICES ASSUME NEW t \in Requests, (req[t].pc = "insert")',
                      Behind(req[t].ans)', (~req[t].ans.missed)'
               PROVE  Pending(req[t].dev)'
    BY DEF InsertsStaleOnlyIfMissed
  <2>1. t \notin gone /\ req'[t] = MissFor(req[t], ds) /\ req[t].pc = "insert"
    BY <1>1, <1>2, MissForKeeps
  <2>2. req[t].dev \in Devices
    BY <1>1, <2>1, StateByPc
  <2>3. req[t].dev \notin ds
    BY <1>1, <2>1, MissForKeeps
  <2>4. req'[t] = req[t] /\ shared' = shared
    BY <1>1, <2>1, <2>2, <2>3, MissForKeeps
  <2>5. Behind(req[t].ans)
    BY <2>4 DEF Behind
  <2>6. Pending(req[t].dev)
    BY <2>1, <2>4, <2>5 DEF InsertsStaleOnlyIfMissed
  <2>7. \A d \in Devices : d = req[t].dev => Pending(d)'
    BY <1>6, <2>3, <2>6
  <2> QED  BY <2>2, <2>4, <2>7 DEF Pending
<1> QED  BY <1>3, <1>4, <1>5, <1>7, <1>8

-----------------------------------------------------------------------------
(* The invariant *)

LEMMA CacheInvInit == Init => CacheInv
BY Bound DEF Init, CacheInv, TypeOK, EntriesInScope, AnswersInScope, StaleOnlyIfMissed,
   InsertsStaleOnlyIfMissed, Idle, ReqState

\* A query or mutation arrives.
LEMMA StartKeepsInv ==
  ASSUME CacheInv, NEW r \in Requests, StartQuery(r) \/ StartMutation(r)
  PROVE  CacheInv'
<1>1. req[r].pc = "idle"
  BY DEF StartQuery, StartMutation, Idle
<1>2. ASSUME StartQuery(r)  PROVE CacheInv'
  <2>1. PICK d \in Devices, k \in QueryKind, q \in Queries :
          Becomes(r, [pc |-> IF k = "query" THEN "lookup" ELSE "execute",
                      dev |-> d, kind |-> k, q |-> q])
    BY <1>2 DEF StartQuery
  <2> DEFINE s == [pc |-> IF k = "query" THEN "lookup" ELSE "execute",
                   dev |-> d, kind |-> k, q |-> q]
  <2>2. s \in ReqState /\ s.pc \notin {"insert", "respond"}
    BY DEF ReqState
  <2> QED  BY <1>1, <1>2, <2>1, <2>2, OnlyRequestMoves DEF StartQuery, Becomes
<1>3. ASSUME StartMutation(r)  PROVE CacheInv'
  <2>1. PICK d \in Devices, k \in MutationKind :
          Becomes(r, [pc |-> "execute", dev |-> d, kind |-> k])
    BY <1>3 DEF StartMutation
  <2> DEFINE s == [pc |-> "execute", dev |-> d, kind |-> k]
  <2>2. s \in ReqState /\ s.pc \notin {"insert", "respond"}
    BY DEF ReqState
  <2> QED  BY <1>1, <1>3, <2>1, <2>2, OnlyRequestMoves DEF StartMutation, Becomes
<1> QED  BY <1>2, <1>3

\* A query looks up its key: what it finds is an answer of its device.
LEMMA LookupKeepsInv ==
  ASSUME CacheInv, NEW r \in Requests, Lookup(r)
  PROVE  CacheInv'
<1>1. /\ req[r] \in ReqState /\ req[r].pc = "lookup"
      /\ req[r] \in [pc : {"lookup", "execute"}, dev : Devices, kind : QueryKind, q : Queries]
  BY StateByPc DEF CacheInv, TypeOK, Lookup
<1>2. PICK d \in Devices, q \in Queries, kind \in QueryKind :
        req[r] = [pc |-> "lookup", dev |-> d, kind |-> kind, q |-> q]
  BY <1>1
<1>3. CASE cache[<<d, q>>] # None
  <2>1. PICK hit \in Answer : hit = cache[<<d, q>>] /\ hit.of = d
    BY <1>3 DEF CacheInv, TypeOK, EntriesInScope, Keys
  <2> DEFINE s == [pc |-> "respond", dev |-> d, ans |-> hit]
  <2>2. s \in ReqState /\ s.pc = "respond" /\ s.ans.of = s.dev
    BY <2>1 DEF ReqState
  <2>3. req' = [req EXCEPT ![r] = s]
    BY <1>2, <1>3, <2>1 DEF Lookup, Becomes, Key
  <2> QED  BY <1>1, <2>2, <2>3, OnlyRequestMoves DEF Lookup
<1>4. CASE cache[<<d, q>>] = None
  <2> DEFINE s == [pc |-> "execute", dev |-> d, kind |-> kind, q |-> q]
  <2>1. s \in ReqState /\ s.pc = "execute"
    BY DEF ReqState
  <2>2. [req[r] EXCEPT !.pc = "execute"] = s
    BY <1>2
  <2>3. req' = [req EXCEPT ![r] = s]
    BY <1>2, <1>4, <2>2 DEF Lookup, Becomes, Key
  <2> QED  BY <1>1, <2>1, <2>3, OnlyRequestMoves DEF Lookup
<1> QED  BY <1>3, <1>4

\* A query reads the rows: its answer is of its device and up to date.
LEMMA ExecuteQueryKeepsInv ==
  ASSUME CacheInv, NEW r \in Requests, ExecuteQuery(r)
  PROVE  CacheInv'
<1>1. /\ req[r].pc = "execute"
      /\ req[r] \in [pc : {"lookup", "execute"}, dev : Devices, kind : QueryKind, q : Queries]
  BY StateByPc DEF CacheInv, TypeOK, ExecuteQuery
<1>2. PICK d \in Devices, q \in Queries, o \in 0..MaxWrites, h \in 0..MaxWrites :
        req[r].dev = d /\ req[r].q = q /\ own[d] = o /\ shared = h
  BY <1>1 DEF CacheInv, TypeOK
<1> DEFINE a == [of |-> d, own |-> o, shared |-> h, missed |-> FALSE]
<1>3. a \in Answer /\ a.of = d /\ ~Behind(a)
  BY <1>2 DEF Answer, Behind
<1>4. \/ req' = [req EXCEPT ![r] = [pc |-> "respond", dev |-> d, ans |-> a]]
      \/ req' = [req EXCEPT ![r] = [pc |-> "insert", dev |-> d, q |-> q, ans |-> a]]
  BY <1>2 DEF ExecuteQuery, Becomes
<1>5. CASE req' = [req EXCEPT ![r] = [pc |-> "respond", dev |-> d, ans |-> a]]
  <2> DEFINE s == [pc |-> "respond", dev |-> d, ans |-> a]
  <2>1. s \in ReqState /\ s.pc = "respond" /\ s.ans.of = s.dev
    BY <1>3 DEF ReqState
  <2> HIDE DEF s
  <2>2. req' = [req EXCEPT ![r] = s]
    BY <1>5 DEF s
  <2> QED  BY <1>1, <2>1, <2>2, OnlyRequestMoves DEF ExecuteQuery
<1>6. CASE req' = [req EXCEPT ![r] = [pc |-> "insert", dev |-> d, q |-> q, ans |-> a]]
  <2> DEFINE s == [pc |-> "insert", dev |-> d, q |-> q, ans |-> a]
  <2>1. s \in ReqState /\ s.pc = "insert" /\ s.ans.of = s.dev /\ s.ans = a
    BY <1>3 DEF ReqState
  <2> HIDE DEF s
  <2>2. req' = [req EXCEPT ![r] = s]
    BY <1>6 DEF s
  <2>3. ~Behind(s.ans)
    BY <1>3, <2>1
  <2> QED  BY <1>1, <2>1, <2>2, <2>3, OnlyRequestMoves DEF ExecuteQuery
<1> QED  BY <1>4, <1>5, <1>6

\* A mutation writes rows: from then on it is pending for every device whose
\* answers show them.
LEMMA ExecuteMutationKeepsInv ==
  ASSUME CacheInv, NEW r \in Requests, ExecuteMutation(r)
  PROVE  CacheInv'
<1> USE DEF CacheInv
<1>1. /\ req[r].pc = "execute"
      /\ req[r] \in [pc : {"execute", "invalidate"}, dev : Devices, kind : MutationKind]
  BY StateByPc DEF TypeOK, ExecuteMutation
<1>2. PICK d \in Devices, kind \in MutationKind : req[r].dev = d /\ req[r].kind = kind
  BY <1>1
<1> DEFINE s == [pc |-> "invalidate", dev |-> d, kind |-> kind]
<1>3. s \in ReqState /\ s.pc = "invalidate" /\ s.dev = d /\ s.kind = kind
  BY DEF ReqState
<1> HIDE DEF s
<1>4. req' = [req EXCEPT ![r] = s] /\ cache' = cache
  BY <1>2 DEF ExecuteMutation, Becomes, s
<1>5. \A t \in Requests : req'[t] = IF t = r THEN s ELSE req[t]
  BY <1>4 DEF TypeOK
<1>6. /\ own' \in [Devices -> 0..MaxWrites] /\ shared' \in 0..MaxWrites
      /\ \A e \in Devices : e # d => own'[e] = own[e]
      /\ kind = "personal" => shared' = shared
  BY <1>2, Bound DEF ExecuteMutation, TypeOK
<1>7. TypeOK'
  BY <1>3, <1>4, <1>6 DEF TypeOK
<1>8. EntriesInScope'
  BY <1>4 DEF EntriesInScope
<1>9. AnswersInScope'
  BY <1>3, <1>5 DEF AnswersInScope
<1>10. \A e \in Devices : Pending(e) => Pending(e)'
  BY <1>1, <1>4, PendingStays
<1>11. \A e \in Touched(d, kind) : Pending(e)'
  BY <1>3, <1>5 DEF Pending
<1>12. \A e \in Devices : e \notin Touched(d, kind) => own'[e] = own[e] /\ shared' = shared
  BY <1>6 DEF Touched, MutationKind
<1>13. StaleOnlyIfMissed'
  <2> SUFFICES ASSUME NEW k \in Keys, (cache[k] # None)', Outdated(k)', (~cache[k].missed)'
               PROVE  Pending(k[1])'
    BY DEF StaleOnlyIfMissed
  <2>1. k[1] \in Devices
    BY DEF Keys
  <2>2. CASE k[1] \in Touched(d, kind)
    BY <1>11, <2>2
  <2>3. CASE k[1] \notin Touched(d, kind)
    <3>1. Outdated(k)
      BY <1>4, <1>12, <2>1, <2>3 DEF Outdated
    <3> QED  BY <1>4, <1>10, <2>1, <3>1 DEF StaleOnlyIfMissed
  <2> QED  BY <2>2, <2>3
<1>14. InsertsStaleOnlyIfMissed'
  <2> SUFFICES ASSUME NEW t \in Requests, (req[t].pc = "insert")',
                      Behind(req[t].ans)', (~req[t].ans.missed)'
               PROVE  Pending(req[t].dev)'
    BY DEF InsertsStaleOnlyIfMissed
  <2>1. req'[t] = req[t] /\ req[t].pc = "insert"
    BY <1>3, <1>5
  <2>2. PICK e \in Devices : e = req[t].dev /\ e = req[t].ans.of
    BY <2>1, StateByPc DEF TypeOK, AnswersInScope
  <2>3. Pending(e)'
    <3>1. CASE e \in Touched(d, kind)
      BY <1>11, <3>1
    <3>2. CASE e \notin Touched(d, kind)
      <4>1. Behind(req[t].ans)
        BY <1>12, <2>1, <2>2, <3>2 DEF Behind
      <4>2. Pending(e)
        BY <2>1, <2>2, <4>1 DEF InsertsStaleOnlyIfMissed
      <4> QED  BY <1>10, <4>2
    <3> QED  BY <3>1, <3>2
  <2> QED  BY <2>1, <2>2, <2>3 DEF Pending
<1> QED  BY <1>7, <1>8, <1>9, <1>13, <1>14

\* The handler of a mutation invalidates, or is dropped before it does.
LEMMA InvalidationKeepsInv ==
  ASSUME CacheInv, NEW r \in Requests, req[r].pc = "invalidate",
         Invalidate(r) \/ HangUp(r)
  PROVE  CacheInv'
<1> USE DEF CacheInv
<1>1. req[r] \in [pc : {"execute", "invalidate"}, dev : Devices, kind : MutationKind]
  BY StateByPc DEF TypeOK
<1>2. PICK d \in Devices, kind \in MutationKind : req[r].dev = d /\ req[r].kind = kind
  BY <1>1
<1>3. PICK ds \in SUBSET Devices : ds = Touched(d, kind)
  BY DEF Touched
<1>4. /\ cache' = [k \in Keys |-> IF k \in Invalidated(d, kind) THEN None ELSE cache[k]]
         \/ cache' = MissCached(Invalidated(d, kind))
      /\ req' = [t \in Requests |-> IF t \in {r} THEN Idle ELSE MissFor(req[t], ds)]
      /\ UNCHANGED <<own, shared>>
  BY <1>2, <1>3 DEF Invalidate, HangUp, Drop
<1>5. /\ cache' \in [Keys -> Answer \cup {None}]
      /\ \A k \in Keys : k[1] \in ds =>
            \/ cache'[k] = None
            \/ cache[k] # None /\ cache'[k].missed /\ cache'[k].of = cache[k].of
      /\ \A k \in Keys : k[1] \notin ds => cache'[k] = cache[k]
  <2>1. CASE cache' = [k \in Keys |-> IF k \in Invalidated(d, kind) THEN None ELSE cache[k]]
    BY <1>3, <2>1, InvalidatedKeys DEF TypeOK
  <2>2. CASE cache' = MissCached(Invalidated(d, kind))
    BY <1>3, <2>2, InvalidatedKeys, MarkedAnswer DEF TypeOK, MissCached
  <2> QED  BY <1>4, <2>1, <2>2
<1>6. PICK gone \in SUBSET Requests : gone = {r}
  OBVIOUS
<1>7. req' = [t \in Requests |-> IF t \in gone THEN Idle ELSE MissFor(req[t], ds)]
  BY <1>4, <1>6
<1>8. \A t \in gone, e \in Devices :
        req[t].pc = "invalidate" /\ e \in Touched(req[t].dev, req[t].kind) => e \in ds
  BY <1>2, <1>3, <1>6
<1>9. UNCHANGED own /\ shared' \in 0..MaxWrites /\ shared' = shared
  BY <1>4 DEF TypeOK
<1> QED  BY <1>5, <1>7, <1>8, <1>9, InvalidationMarksAll

\* A query's answer goes into the cache; if it is stale, so was the answer.
LEMMA InsertKeepsInv ==
  ASSUME CacheInv, NEW r \in Requests, Insert(r)
  PROVE  CacheInv'
<1> USE DEF CacheInv
<1>1. /\ req[r].pc = "insert"
      /\ req[r] \in [pc : {"insert"}, dev : Devices, q : Queries, ans : Answer]
  BY StateByPc DEF TypeOK, Insert
<1>2. PICK d \in Devices, q \in Queries, a \in Answer :
        req[r].dev = d /\ req[r].q = q /\ req[r].ans = a /\ a.of = d
  BY <1>1 DEF AnswersInScope
<1> DEFINE s == [pc |-> "respond", dev |-> d, ans |-> a]
<1>3. s \in ReqState /\ s.pc = "respond" /\ s.ans = a /\ s.dev = d
  BY DEF ReqState
<1> HIDE DEF s
<1>4. req' = [req EXCEPT ![r] = s] /\ cache' = [cache EXCEPT ![<<d, q>>] = a]
  BY <1>2 DEF Insert, Becomes, Key, s
<1>5. /\ \A t \in Requests : req'[t] = IF t = r THEN s ELSE req[t]
      /\ \A k \in Keys : cache'[k] = IF k = <<d, q>> THEN a ELSE cache[k]
      /\ <<d, q>> \in Keys
      /\ UNCHANGED <<own, shared>>
  BY <1>4 DEF TypeOK, Insert, Keys
<1>6. TypeOK'
  BY <1>3, <1>4 DEF TypeOK, Insert
<1>7. EntriesInScope'
  BY <1>2, <1>5 DEF EntriesInScope
<1>8. AnswersInScope'
  BY <1>2, <1>3, <1>5 DEF AnswersInScope
<1>9. \A e \in Devices : Pending(e) => Pending(e)'
  BY <1>1, <1>4, PendingStays
<1>10. StaleOnlyIfMissed'
  <2> SUFFICES ASSUME NEW k \in Keys, (cache[k] # None)', Outdated(k)', (~cache[k].missed)'
               PROVE  Pending(k[1])'
    BY DEF StaleOnlyIfMissed
  <2>1. CASE k = <<d, q>>
    <3>1. Behind(a) /\ ~a.missed
      BY <1>2, <1>5, <2>1 DEF Outdated, Behind
    <3>2. Pending(d)
      BY <1>1, <1>2, <3>1 DEF InsertsStaleOnlyIfMissed
    <3> QED  BY <1>9, <2>1, <3>2
  <2>2. CASE k # <<d, q>>
    <3>1. cache[k] # None /\ Outdated(k) /\ ~cache[k].missed
      BY <1>5, <2>2 DEF Outdated
    <3> QED  BY <1>9, <3>1 DEF StaleOnlyIfMissed, Keys
  <2> QED  BY <2>1, <2>2
<1>11. InsertsStaleOnlyIfMissed'
  <2> SUFFICES ASSUME NEW t \in Requests, (req[t].pc = "insert")',
                      Behind(req[t].ans)', (~req[t].ans.missed)'
               PROVE  Pending(req[t].dev)'
    BY DEF InsertsStaleOnlyIfMissed
  <2>1. req'[t] = req[t] /\ req[t].pc = "insert"
    BY <1>3, <1>5
  <2>2. PICK e \in Devices : e = req[t].dev
    BY <2>1, StateByPc DEF TypeOK
  <2>3. Behind(req[t].ans)
    BY <1>5, <2>1 DEF Behind
  <2>4. Pending(e)
    BY <2>1, <2>2, <2>3 DEF InsertsStaleOnlyIfMissed
  <2> QED  BY <1>9, <2>1, <2>2, <2>4 DEF Pending
<1> QED  BY <1>6, <1>7, <1>8, <1>10, <1>11

\* A handler ends, its answer sent or its client gone.
LEMMA EndKeepsInv ==
  ASSUME CacheInv, NEW r \in Requests, req[r].pc # "invalidate", Respond(r) \/ HangUp(r)
  PROVE  CacheInv'
<1>1. Idle \in ReqState /\ Idle.pc = "idle"
  BY DEF ReqState, Idle
<1>2. req' = [req EXCEPT ![r] = Idle] /\ UNCHANGED <<own, shared, cache>>
  BY DEF Respond, HangUp, Becomes
<1> QED  BY <1>1, <1>2, OnlyRequestMoves

\* A background job writes shared rows: all answers so far have missed it.
LEMMA BackgroundWriteKeepsInv ==
  ASSUME CacheInv, BackgroundWrite
  PROVE  CacheInv'
<1>1. shared' \in 0..MaxWrites /\ own' = own
  BY Bound DEF CacheInv, TypeOK, BackgroundWrite
<1>2. PICK ds \in SUBSET Devices, gone \in SUBSET Requests : ds = Devices /\ gone = {}
  OBVIOUS
<1>3. req' = [t \in Requests |-> IF t \in gone THEN Idle ELSE MissFor(req[t], ds)]
  BY <1>2 DEF BackgroundWrite
<1>4. /\ cache' \in [Keys -> Answer \cup {None}]
      /\ \A k \in Keys : k[1] \in ds =>
            \/ cache'[k] = None
            \/ cache[k] # None /\ cache'[k].missed /\ cache'[k].of = cache[k].of
      /\ \A k \in Keys : k[1] \notin ds => cache'[k] = cache[k]
  BY <1>2, MarkedAnswer DEF BackgroundWrite, MissCached, CacheInv, TypeOK, Keys
<1>5. \A t \in gone, e \in Devices :
        req[t].pc = "invalidate" /\ e \in Touched(req[t].dev, req[t].kind) => e \in ds
  BY <1>2
<1> QED  BY <1>1, <1>2, <1>3, <1>4, <1>5, InvalidationMarksAll

LEMMA ExpireKeepsInv ==
  ASSUME CacheInv, NEW k \in Keys, Expire(k)
  PROVE  CacheInv'
<1>1. /\ cache' = [l \in Keys |-> IF l \in {k} THEN None ELSE cache[l]]
      /\ UNCHANGED <<own, shared, req>>
  BY DEF Expire, Drop
<1> QED  BY <1>1 DEF CacheInv, TypeOK, EntriesInScope, AnswersInScope, StaleOnlyIfMissed,
              InsertsStaleOnlyIfMissed, Outdated, Behind, Pending

\* CacheInv is inductive.
LEMMA CacheInvInductive ==
  ASSUME CacheInv, [Next]_vars
  PROVE  CacheInv'
<1>1. CASE UNCHANGED vars
  BY <1>1 DEF vars, CacheInv, TypeOK, EntriesInScope, AnswersInScope, StaleOnlyIfMissed,
     InsertsStaleOnlyIfMissed, Outdated, Behind, Pending
<1>2. ASSUME NEW r \in Requests,
             StartQuery(r) \/ StartMutation(r) \/ Handle(r) \/ HangUp(r)
      PROVE  CacheInv'
  <2>1. CASE StartQuery(r) \/ StartMutation(r)
    BY <2>1, StartKeepsInv
  <2>2. CASE Lookup(r)
    BY <2>2, LookupKeepsInv
  <2>3. CASE ExecuteQuery(r)
    BY <2>3, ExecuteQueryKeepsInv
  <2>4. CASE ExecuteMutation(r)
    BY <2>4, ExecuteMutationKeepsInv
  <2>5. CASE Invalidate(r) \/ (HangUp(r) /\ req[r].pc = "invalidate")
    BY <2>5, InvalidationKeepsInv DEF Invalidate
  <2>6. CASE Insert(r)
    BY <2>6, InsertKeepsInv
  <2>7. CASE Respond(r) \/ (HangUp(r) /\ req[r].pc # "invalidate")
    BY <2>7, EndKeepsInv DEF Respond
  <2> QED  BY <1>2, <2>1, <2>2, <2>3, <2>4, <2>5, <2>6, <2>7 DEF Handle
<1>3. CASE BackgroundWrite
  BY <1>3, BackgroundWriteKeepsInv
<1>4. ASSUME NEW k \in Keys, Expire(k)  PROVE CacheInv'
  BY <1>4, ExpireKeepsInv
<1> QED  BY <1>1, <1>2, <1>3, <1>4 DEF Next

LEMMA CacheInvariant == Spec => []CacheInv
BY CacheInvInit, CacheInvInductive, PTL DEF Spec

-----------------------------------------------------------------------------
(* Theorems *)

\* The variables keep their types: whatever graphql_handler, the background
\* jobs and the time limit do, a request is always at a point of the handler.
THEOREM CacheTypeCorrect == Spec => []TypeOK
<1>1. CacheInv => TypeOK
  BY DEF CacheInv
<1> QED  BY <1>1, CacheInvariant, PTL

\* graphql_handler never answers a device with another device's rows.
THEOREM AnswersStayWithTheirDevice == Spec => []OwnAnswersOnly
<1>1. CacheInv => OwnAnswersOnly
  BY DEF CacheInv, AnswersInScope, OwnAnswersOnly
<1> QED  BY <1>1, CacheInvariant, PTL

\* An entry of GqlCache is out of date only while the mutation responsible is
\* about to invalidate it, or if that invalidation missed it.
THEOREM StaleEntriesMissedTheirInvalidation == Spec => []StaleOnlyIfMissed
<1>1. CacheInv => StaleOnlyIfMissed
  BY DEF CacheInv
<1> QED  BY <1>1, CacheInvariant, PTL

\* Both at once: what graphql_handler answers from the cache is the device's and is current,
\* but for the entries that missed their invalidation.
THEOREM EntriesStayRight == Spec => []EntriesAreRight
<1> QED BY AnswersStayWithTheirDevice, StaleEntriesMissedTheirInvalidation, PTL DEF EntriesAreRight

=============================================================================
