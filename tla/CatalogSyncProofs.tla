-------------------------- MODULE CatalogSyncProofs --------------------------
(***************************************************************************)
(* Proofs about CatalogSync for any number of sync threads and console     *)
(* requests, any number of crashes.  The argument: every step changes the  *)
(* flag and the set of running syncs together, in one of four ways.  They  *)
(* are the disjuncts of LockStep, and LockInv is inductive for each.       *)
(***************************************************************************)
EXTENDS CatalogSync, TLAPS

\* The positions of threads and of requests.
LEMMA Names ==
  /\ {"none", "spawned", "claimed", "starting", "tmdb", "polish", "ended", "released"} \subseteq SyncPc
  /\ {"none", "reset", "clear", "wipe", "prepare", "announce", "spawn", "status",
      "load", "heal"} \subseteq RequestPc
BY DEF SyncPc, Claimed, Working, RequestPc

\* A phase leads to a known position.
LEMMA PhaseTable ==
  ASSUME NEW pc \in Working
  PROVE PhaseAfter[pc] \in {"tmdb", "polish", "ended"}
BY DEF Working, PhaseAfter

\* A statement on the row, done or failed, keeps the types.
LEMMA UpdateTypes ==
  ASSUME TypeOK, NEW b \in BOOLEAN, Update(b) \/ Write(b)
  PROVE /\ row' \in BOOLEAN /\ errors' \in Nat
        /\ abandoned' \in BOOLEAN /\ unwritten' \in BOOLEAN
BY DEF TypeOK, Update, Write, Fails

\* A thread's step keeps the types: the row first, then the rest.
LEMMA SyncStepTypes ==
  ASSUME TypeOK, NEW s \in Syncs, SyncStep(s) \/ Report(s) PROVE TypeOK'
<1> USE DEF consoleVars, envVars, GoSync, ClearFlag
<1>1. /\ row' \in BOOLEAN /\ errors' \in Nat
      /\ abandoned' \in BOOLEAN /\ unwritten' \in BOOLEAN
  <2>1. CASE Begin(s) \/ Advance(s) \/ Finish(s) \/ Report(s)
    <3>1. Update(TRUE) \/ Update(FALSE)
      BY <2>1 DEF Begin, Advance, Finish, Report, SetProgress
    <3> QED BY <3>1, UpdateTypes
  <2>2. CASE RuntimeFails(s) \/ Claim(s) \/ TmdbFails(s) \/ Release(s)
    BY <2>2 DEF TypeOK, RuntimeFails, Claim, TmdbFails, Release, rowVars
  <2> QED BY <2>1, <2>2 DEF SyncStep
<1>2. sync' \in [Syncs -> SyncPc]
  <2>1. CASE Advance(s)
    BY <2>1, PhaseTable, Names DEF TypeOK, Advance
  <2>2. CASE SyncStep(s) /\ ~Advance(s)
    BY <2>2, Names DEF TypeOK, SyncStep, RuntimeFails, Claim, Begin, TmdbFails, Release, Finish
  <2>3. CASE Report(s)
    BY <2>3 DEF TypeOK, Report
  <2> QED BY <2>1, <2>2, <2>3
<1>3. flag' \in BOOLEAN /\ overridden' \in BOOLEAN
  BY DEF TypeOK, SyncStep, RuntimeFails, Claim, Begin, Advance, TmdbFails, Release, Finish, Report
<1>4. UNCHANGED <<up, boot, key, crashes, cut, request, saw>>
  BY DEF SyncStep, RuntimeFails, Claim, Begin, Advance, TmdbFails, Release, Finish, Report
<1> QED BY <1>1, <1>2, <1>3, <1>4 DEF TypeOK

\* A console request's step keeps the types.
LEMMA RequestStepTypes ==
  ASSUME TypeOK, NEW r \in Requests,
         SyncStart(r) \/ FlushOrClear(r) \/ PollStatus(r) \/ RequestStep(r) \/ Disconnect(r)
  PROVE TypeOK'
<1> USE DEF envVars, GoRequest, ClearFlag, RequestStep
<1>1. /\ row' \in BOOLEAN /\ errors' \in Nat
      /\ abandoned' \in BOOLEAN /\ unwritten' \in BOOLEAN
  <2>1. CASE ForceReset(r) \/ Heal(r)
    BY <2>1, UpdateTypes DEF ForceReset, Heal
  <2>2. CASE ClearCatalog(r)
    <3>1. CASE Write(FALSE)  BY <3>1, UpdateTypes
    <3>2. CASE ~Write(FALSE)
      <4>1. errors' = errors + 1 /\ UNCHANGED <<row, abandoned, unwritten>>
        BY <2>2, <3>2 DEF ClearCatalog, Fails
      <4> QED BY <4>1 DEF TypeOK
    <3> QED BY <3>1, <3>2
  <2>3. CASE Prepare(r)
    BY <2>3, UpdateTypes DEF TypeOK, Prepare, SetProgress, rowVars
  <2>4. CASE ReadRow(r)
    BY <2>4 DEF TypeOK, ReadRow, Fails
  <2>5. CASE \/ SyncStart(r) \/ FlushOrClear(r) \/ PollStatus(r) \/ Disconnect(r)
             \/ SpawnSync(r) \/ LoadFlag(r)
    BY <2>5 DEF TypeOK, SyncStart, FlushOrClear, PollStatus, Disconnect, SpawnSync, LoadFlag,
                rowVars
  <2> QED BY <2>1, <2>2, <2>3, <2>4, <2>5
<1>2. request' \in [Requests -> RequestPc]
  BY Names DEF TypeOK, SyncStart, FlushOrClear, PollStatus, Disconnect, SpawnSync,
               ReadRow, LoadFlag, ForceReset, ClearCatalog, Prepare, Heal
<1>3. sync' \in [Syncs -> SyncPc]
  BY Names DEF TypeOK, SyncStart, FlushOrClear, PollStatus, Disconnect, SpawnSync, Spawn,
               GoSync, ReadRow, LoadFlag, ForceReset, ClearCatalog, Prepare, Heal
<1>4. saw' \in [Requests -> BOOLEAN]
  <2> QED
    BY DEF TypeOK, SyncStart, FlushOrClear, PollStatus, Disconnect, SpawnSync,
               ReadRow, LoadFlag, ForceReset, ClearCatalog, Prepare, Heal
<1>5. flag' \in BOOLEAN /\ overridden' \in BOOLEAN
  BY DEF TypeOK, SyncStart, FlushOrClear, PollStatus, Disconnect, SpawnSync,
         ReadRow, LoadFlag, ForceReset, ClearCatalog, Prepare, Heal
<1>6. UNCHANGED <<up, boot, key, crashes, cut>>
  BY DEF SyncStart, FlushOrClear, PollStatus, Disconnect, SpawnSync,
         ReadRow, LoadFlag, ForceReset, ClearCatalog, Prepare, Heal
<1> QED BY <1>1, <1>2, <1>3, <1>4, <1>5, <1>6 DEF TypeOK

\* Type correctness of every reachable state (the row, and the positions of
\* sync threads and console requests).
THEOREM TypeCorrect == Spec => []TypeOK
<1>1. Init => TypeOK
  <2> SUFFICES ASSUME Init PROVE TypeOK
    OBVIOUS
  <2>1. row \in BOOLEAN  BY DEF Init
  <2>2. sync \in [Syncs -> SyncPc] /\ request \in [Requests -> RequestPc]
    BY Names DEF Init
  <2> QED BY <2>1, <2>2 DEF Init, TypeOK
<1>2. TypeOK /\ [Next]_vars => TypeOK'
  <2> SUFFICES ASSUME TypeOK, [Next]_vars PROVE TypeOK'
    OBVIOUS
  <2>1. ASSUME NEW s \in Syncs, SyncStep(s) \/ Report(s) PROVE TypeOK'
    BY <2>1, SyncStepTypes
  <2>2. ASSUME NEW r \in Requests,
               SyncStart(r) \/ FlushOrClear(r) \/ PollStatus(r) \/ RequestStep(r) \/ Disconnect(r)
        PROVE TypeOK'
    BY <2>2, RequestStepTypes
  <2>3. CASE CronSync \/ TriggerSync \/ BootSync
    <3>1. sync' \in [Syncs -> SyncPc]
      BY <2>3, Names DEF TypeOK, CronSync, TriggerSync, BootSync, Spawn, GoSync
    <3> QED BY <2>3, <3>1 DEF TypeOK, CronSync, TriggerSync, BootSync, consoleVars, envVars, rowVars
  <2>4. CASE BootClear
    <3>1. Update(FALSE)  BY <2>4 DEF BootClear
    <3> QED BY <2>4, <3>1, UpdateTypes DEF TypeOK, BootClear, consoleVars
  <2>5. CASE ChangeKey  BY <2>5 DEF TypeOK, ChangeKey, consoleVars, rowVars
  <2>6. CASE Crash
    <3>1. sync' \in [Syncs -> SyncPc] /\ request' \in [Requests -> RequestPc]
      BY <2>6, Names DEF Crash
    <3>2. cut' \in BOOLEAN  BY <2>6 DEF TypeOK, Crash
    <3>3. UNCHANGED <<row, key, errors, abandoned, unwritten>>  BY <2>6 DEF Crash, rowVars
    <3>4. up' = FALSE /\ boot' = "waiting" /\ flag' = FALSE /\ overridden' = FALSE
      BY <2>6 DEF Crash
    <3>5. crashes' \in Nat /\ saw' \in [Requests -> BOOLEAN]  BY <2>6 DEF TypeOK, Crash
    <3> QED BY <3>1, <3>2, <3>3, <3>4, <3>5 DEF TypeOK
  <2>7. CASE Restart    BY <2>7 DEF TypeOK, Restart, consoleVars, rowVars
  <2>8. CASE UNCHANGED vars  BY <2>8 DEF TypeOK, vars
  <2> QED BY <2>1, <2>2, <2>3, <2>4, <2>5, <2>6, <2>7, <2>8 DEF Next
<1> QED BY <1>1, <1>2, PTL DEF Spec

-----------------------------------------------------------------------------
(* The lock *)

\* The inductive invariant behind the three lock properties.
LockInv ==
  /\ OverlapOnlyWhenOverridden
  /\ FlagHasHolder
  /\ FlagWhileRunning

\* What a step may do to the flag, the running syncs and the history.
Keeps == UNCHANGED <<flag, overridden>> /\ Running' = Running
Clears == flag' = FALSE /\ overridden' = (overridden \/ Running # {}) /\ Running' = Running
Enters == ~flag /\ flag' /\ overridden' = overridden
          /\ \E s \in Syncs : Running' = Running \cup {s}
Leaves == flag' = FALSE /\ overridden' = (Running' # {}) /\ Running' \subseteq Running
LockStep == Keeps \/ Clears \/ Enters \/ Leaves

\* Every step of the system is a LockStep.
LEMMA StepsAreLockSteps ==
  ASSUME TypeOK, [Next]_vars PROVE LockStep
<1> USE DEF TypeOK, LockStep, Keeps, GoSync, Running, Claimed, Working
<1>1. ASSUME NEW s \in Syncs, SyncStep(s) PROVE LockStep
  <2>1. CASE RuntimeFails(s)
    BY <2>1 DEF RuntimeFails, ClearFlag, Clears
  <2>2. CASE Claim(s) /\ flag
    BY <2>2 DEF Claim
  <2>3. CASE Claim(s) /\ ~flag
    <3>1. Running' = Running \cup {s}  BY <2>3 DEF Claim
    <3> QED BY <2>3, <3>1 DEF Claim, Enters
  <2>4. CASE Begin(s)      BY <2>4 DEF Begin
  <2>5. CASE Advance(s)    BY <2>5, PhaseTable DEF Advance
  <2>6. CASE TmdbFails(s)  BY <2>6 DEF TmdbFails
  <2>7. CASE Release(s)
    <3>1. Running' = Running \ {s}  BY <2>7 DEF Release
    <3> QED BY <2>7, <3>1 DEF Release, Leaves
  <2>8. CASE Finish(s)     BY <2>8 DEF Finish
  <2> QED BY <1>1, <2>1, <2>2, <2>3, <2>4, <2>5, <2>6, <2>7, <2>8 DEF SyncStep
<1>2. ASSUME NEW s \in Syncs, Report(s) PROVE LockStep
  BY <1>2 DEF Report
<1>3. CASE CronSync     BY <1>3 DEF CronSync, Spawn
<1>4. CASE TriggerSync  BY <1>4 DEF TriggerSync, Spawn
<1>5. CASE BootClear    BY <1>5 DEF BootClear
<1>6. CASE BootSync     BY <1>6 DEF BootSync, Spawn
<1>7. ASSUME NEW r \in Requests,
             SyncStart(r) \/ FlushOrClear(r) \/ PollStatus(r) \/ RequestStep(r) \/ Disconnect(r)
      PROVE LockStep
  <2>1. CASE SyncStart(r)     BY <2>1 DEF SyncStart, ClearFlag, Clears
  <2>2. CASE FlushOrClear(r)  BY <2>2 DEF FlushOrClear, ClearFlag, Clears
  <2>3. CASE PollStatus(r)    BY <2>3 DEF PollStatus
  <2>4. CASE Disconnect(r)    BY <2>4 DEF Disconnect
  <2>5. CASE RequestStep(r) /\ ~SpawnSync(r)
    BY <2>5 DEF RequestStep, ForceReset, ClearCatalog, Prepare, ReadRow, LoadFlag, Heal
  <2>6. CASE SpawnSync(r)     BY <2>6 DEF SpawnSync, Spawn
  <2> QED BY <1>7, <2>1, <2>2, <2>3, <2>4, <2>5, <2>6
<1>8. CASE ChangeKey  BY <1>8 DEF ChangeKey
<1>9. CASE Crash
  <2>1. Running' = {}  BY <1>9 DEF Crash
  <2> QED BY <1>9, <2>1 DEF Crash, Leaves
<1>10. CASE Restart   BY <1>10 DEF Restart
<1>11. CASE UNCHANGED vars  BY <1>11 DEF vars
<1> QED BY <1>1, <1>2, <1>3, <1>4, <1>5, <1>6, <1>7, <1>8, <1>9, <1>10, <1>11 DEF Next

\* LockInv is inductive: this is where the compare-exchange (Enters) and the
\* unconditional store at the end of a sync (Leaves) meet.
LEMMA LockInvInductive ==
  ASSUME LockInv, LockStep PROVE LockInv'
<1> USE DEF LockInv, OverlapOnlyWhenOverridden, FlagHasHolder, FlagWhileRunning
<1>1. CASE Keeps   BY <1>1 DEF Keeps
<1>2. CASE Clears  BY <1>2 DEF Clears
<1>3. CASE Enters  BY <1>3 DEF Enters
<1>4. CASE Leaves  BY <1>4 DEF Leaves
<1> QED BY <1>1, <1>2, <1>3, <1>4 DEF LockStep

LEMMA LockInvariant == Spec => []LockInv
<1>1. Init => LockInv
  BY DEF Init, LockInv, OverlapOnlyWhenOverridden, FlagHasHolder, FlagWhileRunning,
         Running, Claimed, Working
<1>2. TypeOK /\ LockInv /\ [Next]_vars => LockInv'
  BY StepsAreLockSteps, LockInvInductive
<1> QED BY <1>1, <1>2, TypeCorrect, PTL DEF Spec

\* Syncs never overlap unless the flag was cleared under a running one, for
\* any number of threads, starters and restarts.
THEOREM SyncsOverlapOnlyWhenOverridden == Spec => []OverlapOnlyWhenOverridden
BY LockInvariant, PTL DEF LockInv

\* "Already running" is never answered about a sync that is not there.
THEOREM FlagAlwaysHasHolder == Spec => []FlagHasHolder
BY LockInvariant, PTL DEF LockInv

\* An undisturbed sync holds the flag from its claim to its release.
THEOREM FlagHeldWhileRunning == Spec => []FlagWhileRunning
BY LockInvariant, PTL DEF LockInv

\* The three together: the atomic that run_full_sync takes and gives back, and the syncs that
\* run, never contradict each other but where someone cleared it under a running sync.
THEOREM FlagAndSyncsAgree == Spec => []FlagGoesWithSyncs
<1>1. LockInv => FlagGoesWithSyncs
  BY DEF LockInv, FlagGoesWithSyncs
<1> QED BY <1>1, LockInvariant, PTL

-----------------------------------------------------------------------------
(* The row *)

\* What QuietRow rests on: a row that says "syncing" has somebody left who will
\* reset it, the boot task, a sync that still has its last update to make, or a
\* request that still has to check on it, unless one of those has come and failed.
Checks(r) == request[r] \in {"spawn", "status", "heal"} \/ (request[r] = "load" /\ saw[r])
Resets(s) == sync[s] \in Claimed \cup {"released"}
RowHasResetter ==
  row =>
    \/ abandoned \/ unwritten
    \/ boot = "waiting"
    \/ \E s \in Syncs : Resets(s)
    \/ \E r \in Requests : Checks(r)

\* A reset, whether it succeeds or fails, leaves nothing to explain; an announcement
\* that succeeds leaves what was known of earlier resets as it was.
LEMMA UpdateLeaves ==
  ASSUME TypeOK
  PROVE /\ Update(FALSE) \/ Write(FALSE) => RowHasResetter'
        /\ Update(TRUE) => (row => row') /\ UNCHANGED <<abandoned, unwritten>>
<1>1. Update(FALSE) \/ Write(FALSE) => (row' => unwritten')
  BY DEF TypeOK, Update, Write
<1>2. Update(TRUE) => (row => row') /\ UNCHANGED <<abandoned, unwritten>>
  BY DEF TypeOK, Update, Write
<1> QED BY <1>1, <1>2 DEF RowHasResetter

\* A sync thread that does something either stays responsible for the row, or
\* never was, or has just tried to reset it.
LEMMA SyncKeepsResetter ==
  ASSUME TypeOK, RowHasResetter, NEW s \in Syncs, SyncStep(s) \/ Report(s)
  PROVE RowHasResetter'
<1> USE DEF consoleVars, envVars, GoSync, Resets, Checks
<1>1. UNCHANGED <<boot, request, saw>>
  BY DEF SyncStep, RuntimeFails, Claim, Begin, Advance, TmdbFails, Release, Finish, Report
<1>2. \A t \in Syncs \ {s} : sync'[t] = sync[t]
  BY DEF TypeOK, SyncStep, RuntimeFails, Claim, Begin, Advance, TmdbFails, Release, Finish, Report
<1>3. CASE Begin(s) \/ Advance(s) \/ TmdbFails(s) \/ Release(s) \/ Report(s)
  <2>1. CASE Advance(s)
    <3>1. PhaseAfter[sync[s]] \in Claimed
      BY <2>1, PhaseTable DEF Advance, Claimed, Working
    <3> QED BY <2>1, <3>1 DEF TypeOK, Advance, RowHasResetter
  <2>2. CASE Begin(s) \/ TmdbFails(s) \/ Release(s) \/ Report(s)
    <3>1. sync'[s] \in Claimed \cup {"released"}
      BY <2>2 DEF TypeOK, Begin, TmdbFails, Release, Report, Claimed, Working
    <3> QED BY <3>1 DEF RowHasResetter
  <2> QED BY <1>3, <2>1, <2>2
<1>4. CASE Finish(s)
  BY <1>4, UpdateLeaves DEF Finish
<1>5. CASE RuntimeFails(s) \/ Claim(s)
  <2>1. UNCHANGED rowVars /\ sync[s] = "spawned"  BY <1>5 DEF RuntimeFails, Claim
  <2>2. ~Resets(s)  BY <2>1 DEF Claimed, Working
  <2>3. (\E t \in Syncs : Resets(t)) => \E t \in Syncs : Resets(t)'  BY <1>2, <2>2
  <2> QED BY <1>1, <2>1, <2>3 DEF RowHasResetter, rowVars
<1> QED BY <1>3, <1>4, <1>5 DEF SyncStep

\* A console request takes over the row it has announced a sync in, and lets go
\* of it only when it has tried to reset it, when a sync runs (so FlagHasHolder is
\* needed), or by ending early.
LEMMA RequestKeepsResetter ==
  ASSUME TypeOK, FlagHasHolder, RowHasResetter, NEW r \in Requests,
         SyncStart(r) \/ FlushOrClear(r) \/ PollStatus(r) \/ RequestStep(r) \/ Disconnect(r)
  PROVE RowHasResetter'
<1> USE DEF envVars, GoRequest, Resets, Checks, RequestStep
<1>1. boot' = boot
  BY DEF SyncStart, FlushOrClear, PollStatus, Disconnect, SpawnSync, ReadRow, LoadFlag,
         ForceReset, ClearCatalog, Prepare, Heal
<1>2. \A q \in Requests \ {r} : request'[q] = request[q] /\ saw'[q] = saw[q]
  BY DEF TypeOK, SyncStart, FlushOrClear, PollStatus, Disconnect, SpawnSync, ReadRow, LoadFlag,
         ForceReset, ClearCatalog, Prepare, Heal
<1>3. \A s \in Syncs : Resets(s) => Resets(s)'
  <2>1. CASE SpawnSync(r)
    BY <2>1 DEF TypeOK, SpawnSync, Spawn, GoSync, Claimed, Working
  <2>2. CASE ~SpawnSync(r)
    BY <2>2 DEF SyncStart, FlushOrClear, PollStatus, Disconnect, ReadRow, LoadFlag,
                ForceReset, ClearCatalog, Prepare, Heal
  <2> QED BY <2>1, <2>2
<1>4. CASE ForceReset(r) \/ Heal(r)
  BY <1>4, UpdateLeaves DEF ForceReset, Heal
<1>5. CASE \/ SyncStart(r) \/ FlushOrClear(r) \/ PollStatus(r) \/ SpawnSync(r)
  <2>1. UNCHANGED rowVars /\ (Checks(r) => Checks(r)')
    BY <1>5 DEF TypeOK, SyncStart, FlushOrClear, PollStatus, SpawnSync
  <2>2. \A q \in Requests : Checks(q) => Checks(q)'  BY <1>2, <2>1
  <2> QED BY <1>1, <1>3, <2>1, <2>2 DEF RowHasResetter, rowVars
<1>6. CASE Prepare(r)
  <2>1. CASE request'[r] = "spawn"  BY <2>1 DEF RowHasResetter
  <2>2. CASE request'[r] # "spawn"
    <3>1. UNCHANGED rowVars /\ ~Checks(r)  BY <1>6, <2>2 DEF TypeOK, Prepare
    <3>2. \A q \in Requests : Checks(q) => Checks(q)'  BY <1>2, <3>1
    <3> QED BY <1>1, <1>3, <3>1, <3>2 DEF RowHasResetter, rowVars
  <2> QED BY <2>1, <2>2
<1>7. CASE ReadRow(r)
  <2>1. row' = row /\ (row => Checks(r)' \/ abandoned')  BY <1>7 DEF TypeOK, ReadRow
  <2> QED BY <2>1 DEF RowHasResetter
<1>8. CASE LoadFlag(r)
  <2>1. UNCHANGED rowVars  BY <1>8 DEF LoadFlag
  <2>2. CASE saw[r] /\ ~flag
    <3>1. Checks(r)'  BY <1>8, <2>2 DEF TypeOK, LoadFlag
    <3> QED BY <3>1 DEF RowHasResetter
  <2>3. CASE flag
    <3>1. \E s \in Syncs : Resets(s)  BY <2>3 DEF FlagHasHolder, Running
    <3> QED BY <1>3, <3>1 DEF RowHasResetter
  <2>4. CASE ~saw[r]
    <3>1. ~Checks(r)  BY <1>8, <2>4 DEF LoadFlag
    <3>2. \A q \in Requests : Checks(q) => Checks(q)'  BY <1>2, <3>1
    <3> QED BY <1>1, <1>3, <2>1, <3>2 DEF RowHasResetter, rowVars
  <2> QED BY <2>2, <2>3, <2>4
<1>9. CASE Disconnect(r)
  <2>1. UNCHANGED <<row, unwritten>> /\ (row /\ (abandoned \/ Checks(r)) => abandoned')
    BY <1>9 DEF TypeOK, Disconnect
  <2>2. (\E q \in Requests : Checks(q)) => Checks(r) \/ \E q \in Requests : Checks(q)'
    BY <1>2
  <2> QED BY <1>1, <1>3, <2>1, <2>2 DEF RowHasResetter
<1>10. CASE ClearCatalog(r)
  <2>1. CASE Write(FALSE)  BY <2>1, UpdateLeaves
  <2>2. CASE ~Write(FALSE)
    <3>1. UNCHANGED <<row, abandoned, unwritten>> /\ ~Checks(r)
      BY <1>10, <2>2 DEF ClearCatalog
    <3>2. \A q \in Requests : Checks(q) => Checks(q)'  BY <1>2, <3>1
    <3> QED BY <1>1, <1>3, <3>1, <3>2 DEF RowHasResetter
  <2> QED BY <2>1, <2>2
<1> QED BY <1>4, <1>5, <1>6, <1>7, <1>8, <1>9, <1>10

\* Nobody else takes a resetter away without being one: a crash makes the boot
\* task due again.
LEMMA OthersKeepResetter ==
  ASSUME TypeOK, RowHasResetter,
         \/ CronSync \/ TriggerSync \/ BootClear \/ BootSync \/ ChangeKey \/ Crash \/ Restart
         \/ UNCHANGED vars
  PROVE RowHasResetter'
<1> USE DEF consoleVars, envVars, rowVars, Resets, Checks
<1>1. CASE CronSync \/ TriggerSync \/ BootSync
  <2>1. \A s \in Syncs : Resets(s) => Resets(s)'
    BY <1>1 DEF TypeOK, CronSync, TriggerSync, BootSync, Spawn, GoSync, Claimed, Working
  <2>2. UNCHANGED <<row, request, saw, abandoned, unwritten>> /\ (boot = "waiting" => boot' = boot)
    BY <1>1 DEF CronSync, TriggerSync, BootSync
  <2> QED BY <2>1, <2>2 DEF RowHasResetter
<1>2. CASE BootClear  BY <1>2, UpdateLeaves DEF BootClear
<1>3. CASE Crash      BY <1>3 DEF Crash, RowHasResetter
<1>4. CASE ChangeKey  BY <1>4 DEF ChangeKey, RowHasResetter
<1>5. CASE Restart    BY <1>5 DEF Restart, RowHasResetter
<1>6. CASE UNCHANGED vars  BY <1>6 DEF vars, RowHasResetter
<1> QED BY <1>1, <1>2, <1>3, <1>4, <1>5, <1>6

LEMMA ResetterInvariant == Spec => []RowHasResetter
<1>1. Init => RowHasResetter
  BY DEF Init, RowHasResetter
<1>2. TypeOK /\ LockInv /\ RowHasResetter /\ [Next]_vars => RowHasResetter'
  BY SyncKeepsResetter, RequestKeepsResetter, OthersKeepResetter DEF Next, LockInv
<1> QED BY <1>1, <1>2, TypeCorrect, LockInvariant, PTL DEF Spec

\* A system at rest does not show a sync, whatever races, failed launches, failed
\* statements and restarts came before, unless, since the row shows it, a request
\* ended before its check or the very update that was to reset the row failed.
THEOREM RestingRowIsQuiet == Spec => []QuietRow
<1>1. RowHasResetter => QuietRow
  BY DEF RowHasResetter, QuietRow, Quiet, Checks, Resets, Claimed, Working
<1> QED BY <1>1, ResetterInvariant, PTL

=============================================================================
