------------------------------- MODULE GqlCache -------------------------------
(***************************************************************************)
(* The response cache of POST /graphql (backend/src/cache.rs, used by      *)
(* graphql_handler in main.rs): answers to queries are kept per device     *)
(* for 30 seconds; a mutation executes and then invalidates the entries    *)
(* of its device (if it only touched the device's own rows) or all.        *)
(*                                                                         *)
(* The handler awaits between looking up, executing, and inserting or      *)
(* invalidating, so requests interleave there, and hyper drops it at any   *)
(* of these points when the client hangs up.  Data are abstracted to       *)
(* version numbers: one per device for its own rows (progress, favourites) *)
(* and one for everything shared (titles, settings).                       *)
(***************************************************************************)
EXTENDS Integers

CONSTANTS
  Devices,    \* paired devices (token scopes)
  Queries,    \* distinct cacheable query texts
  Requests,   \* requests the server works on at the same time
  MaxWrites,  \* writes to the database (a bound)
  None        \* no entry

ASSUME DevicesExist == Devices # {}
ASSUME NoneIsNew == None \notin [of : Devices, own : Nat, shared : Nat, missed : BOOLEAN]
ASSUME Bound == MaxWrites \in Nat

VARIABLES
  own,     \* own[d]: version of device d's own rows
  shared,  \* version of the shared rows
  cache,   \* cache[k]: the cached answer under key k
  req      \* req[r]: what the handler of request r is doing

vars == <<own, shared, cache, req>>

Keys == Devices \X Queries
Answer == [of : Devices, own : 0..MaxWrites, shared : 0..MaxWrites, missed : BOOLEAN]
Idle == [pc |-> "idle"]

\* "uncached" is a query that skips the cache (serverInfo, streamStatus, ...).
QueryKind == {"query", "uncached"}
MutationKind == {"personal", "global"}

ReqState ==
  {Idle}
  \cup [pc : {"lookup", "execute"}, dev : Devices, kind : QueryKind, q : Queries]
  \cup [pc : {"execute", "invalidate"}, dev : Devices, kind : MutationKind]
  \cup [pc : {"insert"}, dev : Devices, q : Queries, ans : Answer]
  \cup [pc : {"respond"}, dev : Devices, ans : Answer]

TypeOK ==
  /\ own \in [Devices -> 0..MaxWrites] /\ shared \in 0..MaxWrites
  /\ cache \in [Keys -> Answer \cup {None}]
  /\ req \in [Requests -> ReqState]

Init ==
  /\ own = [d \in Devices |-> 0] /\ shared = 0
  /\ cache = [k \in Keys |-> None]
  /\ req = [r \in Requests |-> Idle]

Becomes(r, s) == req' = [req EXCEPT ![r] = s]

-----------------------------------------------------------------------------
(* GqlCache *)

\* Mutant: the key forgets whose answer it is.
KeyWithoutScope(d, q) == <<CHOOSE e \in Devices : TRUE, q>>

Key(d, q) == <<d, q>>

Drop(ks) == cache' = [k \in Keys |-> IF k \in ks THEN None ELSE cache[k]]

InScope(d) == {k \in Keys : k[1] = d}

\* Mutant: every mutation only invalidates the entries of its own device.
InvalidatedInScope(d, kind) == InScope(d)

\* The entries a mutation of device d invalidates.
Invalidated(d, kind) == IF kind = "global" THEN Keys ELSE InScope(d)

\* History: answers whose invalidation comes too early (their query has read
\* the rows but inserts later) or not at all are marked as having missed it.
MissFor(s, ds) ==
  IF s.pc = "insert" /\ s.dev \in ds THEN [s EXCEPT !.ans.missed = TRUE] ELSE s
MissCached(ks) ==
  [k \in Keys |-> IF k \in ks /\ cache[k] # None
                  THEN [cache[k] EXCEPT !.missed = TRUE] ELSE cache[k]]
Touched(d, kind) == IF kind = "global" THEN Devices ELSE {d}

-----------------------------------------------------------------------------
(* graphql_handler *)

StartQuery(r) ==
  /\ req[r] = Idle
  /\ \E d \in Devices, k \in QueryKind, q \in Queries :
       Becomes(r, [pc |-> IF k = "query" THEN "lookup" ELSE "execute",
                   dev |-> d, kind |-> k, q |-> q])
  /\ UNCHANGED <<own, shared, cache>>

StartMutation(r) ==
  /\ req[r] = Idle
  /\ \E d \in Devices, k \in MutationKind :
       Becomes(r, [pc |-> "execute", dev |-> d, kind |-> k])
  /\ UNCHANGED <<own, shared, cache>>

\* Mutant: an entry that has expired is still an answer.
LookupExpired(r) ==
  /\ req[r].pc = "lookup"
  /\ Becomes(r, [pc |-> "respond", dev |-> req[r].dev,
                 ans |-> cache[Key(req[r].dev, req[r].q)]])
  /\ UNCHANGED <<own, shared, cache>>

Lookup(r) ==
  /\ req[r].pc = "lookup"
  /\ LET hit == cache[Key(req[r].dev, req[r].q)]
     IN IF hit # None
        THEN Becomes(r, [pc |-> "respond", dev |-> req[r].dev, ans |-> hit])
        ELSE Becomes(r, [req[r] EXCEPT !.pc = "execute"])
  /\ UNCHANGED <<own, shared, cache>>

\* The rows are read; only an answer without errors to a cacheable query
\* goes into the cache.
ExecuteQuery(r) ==
  /\ req[r].pc = "execute" /\ req[r].kind \in QueryKind
  /\ LET d == req[r].dev
         ans == [of |-> d, own |-> own[d], shared |-> shared, missed |-> FALSE]
     IN \/ Becomes(r, [pc |-> "respond", dev |-> d, ans |-> ans])
        \/ /\ req[r].kind = "query"
           /\ Becomes(r, [pc |-> "insert", dev |-> d, q |-> req[r].q, ans |-> ans])
  /\ UNCHANGED <<own, shared, cache>>

\* A resolver writes its rows.  One that fails before it writes, and one that
\* only tries, still invalidate.
ExecuteMutation(r) ==
  /\ req[r].pc = "execute" /\ req[r].kind \in MutationKind
  /\ \/ /\ req[r].kind = "personal" /\ own[req[r].dev] < MaxWrites
        /\ own' = [own EXCEPT ![req[r].dev] = @ + 1]
        /\ UNCHANGED shared
     \/ /\ req[r].kind = "global" /\ shared < MaxWrites
        /\ shared' = shared + 1
        /\ \/ UNCHANGED own
           \/ /\ own[req[r].dev] < MaxWrites
              /\ own' = [own EXCEPT ![req[r].dev] = @ + 1]
     \/ UNCHANGED <<own, shared>>
  /\ Becomes(r, [pc |-> "invalidate", dev |-> req[r].dev, kind |-> req[r].kind])
  /\ UNCHANGED cache

\* The entries that are no longer true are dropped.
Invalidate(r) ==
  /\ req[r].pc = "invalidate"
  /\ LET d == req[r].dev
     IN /\ Drop(Invalidated(d, req[r].kind))
        /\ req' = [s \in Requests |-> IF s = r THEN Idle
                                      ELSE MissFor(req[s], Touched(d, req[r].kind))]
  /\ UNCHANGED <<own, shared>>

Insert(r) ==
  /\ req[r].pc = "insert"
  /\ cache' = [cache EXCEPT ![Key(req[r].dev, req[r].q)] = req[r].ans]
  /\ Becomes(r, [pc |-> "respond", dev |-> req[r].dev, ans |-> req[r].ans])
  /\ UNCHANGED <<own, shared>>

Respond(r) ==
  /\ req[r].pc = "respond"
  /\ Becomes(r, Idle)
  /\ UNCHANGED <<own, shared, cache>>

\* The client hangs up and the handler is dropped where it awaits.  A
\* mutation that has written then never invalidates.
HangUp(r) ==
  /\ req[r] # Idle
  /\ IF req[r].pc = "invalidate"
     THEN LET d == req[r].dev
          IN /\ cache' = MissCached(Invalidated(d, req[r].kind))
             /\ req' = [s \in Requests |-> IF s = r THEN Idle
                                           ELSE MissFor(req[s], Touched(d, req[r].kind))]
     ELSE Becomes(r, Idle) /\ UNCHANGED cache
  /\ UNCHANGED <<own, shared>>

-----------------------------------------------------------------------------
(* Catalog sync, the scheduler and the Jackett scan write shared rows and   *)
(* leave the cache to its time limit.                                       *)
BackgroundWrite ==
  /\ shared < MaxWrites
  /\ shared' = shared + 1
  /\ cache' = MissCached(Keys)
  /\ req' = [s \in Requests |-> MissFor(req[s], Devices)]
  /\ UNCHANGED own

\* Mutant: an entry that is being used does not expire (time_to_idle).
ExpireUnused(k) ==
  /\ cache[k] # None
  /\ \A r \in Requests : req[r].pc = "lookup" => Key(req[r].dev, req[r].q) # k
  /\ Drop({k})
  /\ UNCHANGED <<own, shared, req>>

\* time_to_live, or eviction at 512 entries.
Expire(k) ==
  /\ cache[k] # None
  /\ Drop({k})
  /\ UNCHANGED <<own, shared, req>>

Handle(r) ==
  \/ Lookup(r) \/ ExecuteQuery(r) \/ ExecuteMutation(r) \/ Invalidate(r)
  \/ Insert(r) \/ Respond(r)

Next ==
  \/ \E r \in Requests : StartQuery(r) \/ StartMutation(r) \/ Handle(r) \/ HangUp(r)
  \/ BackgroundWrite
  \/ \E k \in Keys : Expire(k)

Spec == Init /\ [][Next]_vars

\* Handlers finish, and an entry does not outlive its 30 seconds.
Fairness ==
  /\ \A r \in Requests : WF_vars(Handle(r))
  /\ \A k \in Keys : WF_vars(Expire(k))

FairSpec == Spec /\ Fairness

-----------------------------------------------------------------------------
(* Properties *)

\* No device is shown another device's progress or favourites.
OwnAnswersOnly ==
  \A r \in Requests : req[r].pc = "respond" => req[r].ans.of = req[r].dev

\* A mutation that wrote rows d's answers show and has not invalidated yet.
Pending(d) ==
  \E r \in Requests : /\ req[r].pc = "invalidate"
                      /\ d \in Touched(req[r].dev, req[r].kind)

\* An entry is out of date only while the mutation that made it so is about
\* to invalidate it, or when that invalidation missed it: its query was
\* executing at the time, the client of the mutation hung up, or the write
\* was a background job's.
Outdated(k) == cache[k].own # own[k[1]] \/ cache[k].shared # shared
StaleOnlyIfMissed ==
  \A k \in Keys :
    (cache[k] # None /\ Outdated(k) /\ ~cache[k].missed) => Pending(k[1])

\* An entry is its device's own, and what the database says unless that is said of it.
EntriesAreRight == OwnAnswersOnly /\ StaleOnlyIfMissed

\* Once nothing is written any more, every answer is up to date: whatever was
\* missed, nothing stale survives its 30 seconds.
Current(a) == a.own = own[a.of] /\ a.shared = shared
AnswersCatchUp ==
  <>[](\A r \in Requests : req[r].pc = "respond" => Current(req[r].ans))

=============================================================================
