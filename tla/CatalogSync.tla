----------------------------- MODULE CatalogSync -----------------------------
(***************************************************************************)
(* The full catalog sync of the backend (backend/src/ingest/mod.rs) and    *)
(* everything that starts, restarts, observes or repairs it: the console's *)
(* /sync/start, /sync/flush, /sync/status and form actions (admin.rs), the *)
(* GraphQL triggerSync mutation, the cron job, and the boot task (main.rs).*)
(*                                                                         *)
(* A sync is an OS thread that claims the in-memory atomic `syncing` by    *)
(* compare-exchange.  The database row sync_state(id = 1) is what people   *)
(* are shown; it survives a restart of the process, the atomic does not.   *)
(* Every database statement and every access to the atomic is a step of    *)
(* its own, because threads and requests interleave between them; and each *)
(* statement may fail, which nearly all of this code ignores (`let _ =`).  *)
(***************************************************************************)
EXTENDS Naturals

CONSTANTS
  Syncs,       \* slots for sync threads: how many may exist at a time (a bound)
  Requests,    \* slots for console requests in progress at a time (a bound)
  MaxCrashes,  \* how often the process may die (a bound)
  MaxErrors    \* how many statements on the row may fail (a bound)

ASSUME CrashBound == MaxCrashes \in Nat
ASSUME ErrorBound == MaxErrors \in Nat

VARIABLES
  up,        \* the process is running
  boot,      \* main.rs boot task: "waiting" (2 s), "scanning" (row cleared), "done"
  flag,      \* AppState.syncing, the atomic
  row,       \* sync_state.syncing WHERE id = 1, in the database (its phase,
             \* progress and error columns are only shown, never read)
  sync,      \* sync[s]: where sync thread s is
  request,   \* request[r]: where console request r is
  saw,       \* saw[r]: the row as build_sync_status_json read it
  key,       \* a TMDB API key is configured
  crashes,   \* crashes so far
  errors,    \* failed statements so far
  overridden,\* history: since a sync last ran alone, somebody who is not a
             \* finishing sync has cleared the flag under a running sync
  abandoned, \* history: since the row says "syncing", a console request ended before
             \* it checked on it: its browser went away, or it could not read the row
  unwritten, \* history: since the row says "syncing", an update that should have
             \* reset it failed
  cut        \* history: some crash hit while the row said a sync was running

vars == <<up, boot, flag, row, sync, request, saw, key, crashes, errors,
          overridden, abandoned, unwritten, cut>>
rowVars == <<row, errors, abandoned, unwritten>>
consoleVars == <<request, saw>>
envVars == <<up, boot, key, crashes, cut>>

\* Thread positions.  "claimed" .. "ended" hold the claim; after Release the
\* thread has only its final row update left.
Working == {"starting", "tmdb", "polish"}
Claimed == {"claimed", "ended"} \cup Working
SyncPc == {"none", "spawned", "released"} \cup Claimed

RequestPc == {"none", "reset", "clear", "wipe", "prepare", "announce", "spawn",
              "status", "load", "heal"}

TypeOK ==
  /\ up \in BOOLEAN /\ flag \in BOOLEAN /\ key \in BOOLEAN
  /\ boot \in {"waiting", "scanning", "done"}
  /\ row \in BOOLEAN
  /\ sync \in [Syncs -> SyncPc]
  /\ request \in [Requests -> RequestPc]
  /\ saw \in [Requests -> BOOLEAN]
  /\ crashes \in Nat /\ errors \in Nat
  /\ overridden \in BOOLEAN /\ abandoned \in BOOLEAN
  /\ unwritten \in BOOLEAN /\ cut \in BOOLEAN

Running == {s \in Syncs : sync[s] \in Claimed}

Init ==
  /\ up = TRUE /\ boot = "waiting" /\ flag = FALSE /\ key \in BOOLEAN
  /\ row = FALSE
  /\ sync = [s \in Syncs |-> "none"]
  /\ request = [r \in Requests |-> "none"]
  /\ saw = [r \in Requests |-> FALSE]
  /\ crashes = 0 /\ errors = 0
  /\ overridden = FALSE /\ abandoned = FALSE /\ unwritten = FALSE /\ cut = FALSE

-----------------------------------------------------------------------------
(* Row updates *)

\* A statement on the row fails.
Fails == errors < MaxErrors /\ errors' = errors + 1

\* The row is written; what went before a reset is over with it.
Write(syncing) ==
  /\ row' = syncing
  /\ abandoned' = (abandoned /\ syncing) /\ unwritten' = (unwritten /\ syncing)
  /\ UNCHANGED errors

\* One UPDATE of the row.  Its error is ignored: the row stays as it is, and
\* the thread, the request or the boot task goes on.
Update(syncing) ==
  \/ Write(syncing)
  \/ /\ Fails
     /\ unwritten' = (unwritten \/ (row /\ ~syncing))
     /\ UNCHANGED <<row, abandoned>>

\* db::set_sync_progress: every progress report also says "syncing".
SetProgress == Update(TRUE)

\* The flag is cleared by somebody who is not a finishing sync.
ClearFlag ==
  /\ flag' = FALSE
  /\ overridden' = (overridden \/ Running # {})

GoSync(s, pc) == sync' = [sync EXCEPT ![s] = pc]
GoRequest(r, pc) == request' = [request EXCEPT ![r] = pc]

-----------------------------------------------------------------------------
(* The sync thread: spawn_full_sync, run_full_sync, run_full_sync_inner *)

\* The thread cannot build its tokio runtime: it clears the flag and ends,
\* without ever having claimed it.
RuntimeFails(s) ==
  /\ sync[s] = "spawned"
  /\ ClearFlag
  /\ GoSync(s, "none")
  /\ UNCHANGED <<rowVars, consoleVars, envVars>>

\* Mutants of Claim: a load and a store instead of the exchange, and a loser
\* that cleans up a flag it does not hold.
ClaimUnchecked(s) ==
  /\ sync[s] = "spawned"
  /\ GoSync(s, "claimed")
  /\ flag' = TRUE
  /\ UNCHANGED <<rowVars, overridden, consoleVars, envVars>>

LoserClearsFlag(s) ==
  /\ sync[s] = "spawned"
  /\ GoSync(s, IF flag THEN "none" ELSE "claimed")
  /\ flag' = ~flag
  /\ UNCHANGED <<rowVars, overridden, consoleVars, envVars>>

\* compare_exchange(false, true): one winner, the losers log and return.
Claim(s) ==
  /\ sync[s] = "spawned"
  /\ GoSync(s, IF flag THEN "none" ELSE "claimed")
  /\ flag' = TRUE
  /\ UNCHANGED <<rowVars, overridden, consoleVars, envVars>>

\* Opening of run_full_sync_inner: refuse without a key, or mark the row (its
\* first two updates in one step: a poll between them does no more than one
\* after them, because the next report sets `syncing` again; when one of them
\* fails the other still says "syncing").
Begin(s) ==
  /\ sync[s] = "claimed"
  /\ IF key
     THEN SetProgress /\ GoSync(s, "starting")
     ELSE Update(FALSE) /\ GoSync(s, "ended")
  /\ UNCHANGED <<flag, overridden, consoleVars, envVars>>

\* The phases, each announced by set_sync_progress.  "polish" stands for the
\* last three (link legacy rows, OMDb if it has a key, search index), whose
\* errors are only logged: an error of the TMDB phase alone ends the sync.
PhaseAfter == [starting |-> "tmdb", tmdb |-> "polish", polish |-> "ended"]

Advance(s) ==
  /\ sync[s] \in Working
  /\ SetProgress
  /\ GoSync(s, PhaseAfter[sync[s]])
  /\ UNCHANGED <<flag, overridden, consoleVars, envVars>>

\* Within a phase progress is reported again and again (every 25th title,
\* every polish step).
Report(s) ==
  /\ sync[s] \in {"tmdb", "polish"}
  /\ SetProgress
  /\ UNCHANGED <<flag, sync, overridden, consoleVars, envVars>>

\* Mutant of TmdbFails: the error leaves run_full_sync at once (an early `?`).
TmdbFailsEarly(s) ==
  /\ sync[s] = "tmdb"
  /\ GoSync(s, "none")
  /\ UNCHANGED <<flag, rowVars, overridden, consoleVars, envVars>>

TmdbFails(s) ==
  /\ sync[s] = "tmdb"
  /\ GoSync(s, "ended")
  /\ UNCHANGED <<flag, rowVars, overridden, consoleVars, envVars>>

\* syncing.store(false): unconditional, whoever holds the flag by now.
Release(s) ==
  /\ sync[s] = "ended"
  /\ flag' = FALSE
  /\ GoSync(s, "released")
  /\ overridden' = (Running \ {s} # {})
  /\ UNCHANGED <<rowVars, consoleVars, envVars>>

\* The last row update, made after the flag was given up; nobody looks at
\* whether it was done.
Finish(s) ==
  /\ sync[s] = "released"
  /\ Update(FALSE)
  /\ GoSync(s, "none")
  /\ UNCHANGED <<flag, overridden, consoleVars, envVars>>

SyncStep(s) ==
  \/ RuntimeFails(s) \/ Claim(s) \/ Begin(s) \/ Advance(s)
  \/ TmdbFails(s) \/ Release(s) \/ Finish(s)

-----------------------------------------------------------------------------
(* Starters that do not wait for anything: cron, triggerSync, boot *)

\* A thread is launched in a free slot.
Spawn == \E s \in Syncs : sync[s] = "none" /\ GoSync(s, "spawned")

\* scheduler.rs: the cron job spawns without looking at the flag.
CronSync ==
  /\ up
  /\ Spawn
  /\ UNCHANGED <<flag, rowVars, overridden, consoleVars, envVars>>

\* triggerSync and the console's "force_sync" form action look first.
TriggerSync ==
  /\ up /\ ~flag
  /\ Spawn
  /\ UNCHANGED <<flag, rowVars, overridden, consoleVars, envVars>>

\* Mutant of BootClear: the orphaned row is left as it is.
BootKeepsRow ==
  /\ up /\ boot = "waiting"
  /\ boot' = "scanning"
  /\ UNCHANGED <<up, flag, rowVars, sync, overridden, consoleVars, key, crashes, cut>>

\* main.rs, 2 s after the start: clear what the previous process left (or
\* fail to: the library scan comes next in either case) ...
BootClear ==
  /\ up /\ boot = "waiting"
  /\ boot' = "scanning"
  /\ Update(FALSE)
  /\ UNCHANGED <<up, flag, sync, overridden, consoleVars, key, crashes, cut>>

\* ... then, after the library scan, start a sync if the catalog is thin and
\* a key is there.
BootSync ==
  /\ up /\ boot = "scanning"
  /\ boot' = "done"
  /\ sync' = sync \/ (key /\ Spawn)
  /\ UNCHANGED <<up, flag, rowVars, overridden, consoleVars, key, crashes, cut>>

-----------------------------------------------------------------------------
(* Console requests *)

\* POST /sync/start: with force the flag is cleared at once, whoever runs.
SyncStart(r) ==
  /\ up /\ request[r] = "none"
  /\ \/ /\ GoRequest(r, IF flag THEN "status" ELSE "prepare")
        /\ UNCHANGED <<flag, overridden>>
     \/ /\ GoRequest(r, "reset")
        /\ ClearFlag
  /\ UNCHANGED <<rowVars, sync, saw, envVars>>

ForceReset(r) ==
  /\ request[r] = "reset"
  /\ Update(FALSE)
  /\ GoRequest(r, "prepare")
  /\ UNCHANGED <<flag, sync, saw, overridden, envVars>>

\* POST /sync/flush ("clear") and the form action clear_catalog ("wipe").
FlushOrClear(r) ==
  /\ up /\ request[r] = "none"
  /\ ClearFlag
  /\ \E pc \in {"clear", "wipe"} : GoRequest(r, pc)
  /\ UNCHANGED <<rowVars, sync, saw, envVars>>

\* db::clear_catalog commits its one transaction, or fails, and the request
\* with it.
ClearCatalog(r) ==
  /\ request[r] \in {"clear", "wipe"}
  /\ \/ /\ Write(FALSE)
        /\ GoRequest(r, IF request[r] = "wipe" THEN "none"
                        ELSE IF key THEN "announce" ELSE "status")
     \/ Fails /\ GoRequest(r, "none") /\ UNCHANGED <<row, abandoned, unwritten>>
  /\ UNCHANGED <<flag, sync, saw, overridden, envVars>>

\* Both handlers announce the sync in the row before they spawn it.
Prepare(r) ==
  /\ \/ /\ request[r] = "prepare" /\ key
        /\ SetProgress /\ GoRequest(r, "spawn")
     \/ /\ request[r] = "prepare" /\ ~key
        /\ GoRequest(r, "status") /\ UNCHANGED rowVars
     \/ /\ request[r] = "announce"
        /\ SetProgress /\ GoRequest(r, "spawn")
  /\ UNCHANGED <<flag, sync, saw, overridden, envVars>>

\* The thread's launch may fail too: its error is dropped.
SpawnSync(r) ==
  /\ request[r] = "spawn"
  /\ Spawn \/ sync' = sync
  /\ GoRequest(r, "status")
  /\ UNCHANGED <<flag, rowVars, saw, overridden, envVars>>

\* GET /sync/status, and the tail of the handlers above:
\* build_sync_status_json reads the row, then the atomic, then may heal.
PollStatus(r) ==
  /\ up /\ request[r] = "none"
  /\ GoRequest(r, "status")
  /\ UNCHANGED <<flag, rowVars, sync, saw, overridden, envVars>>

\* A failed read ends the request.
ReadRow(r) ==
  /\ request[r] = "status"
  /\ \/ /\ saw' = [saw EXCEPT ![r] = row]
        /\ GoRequest(r, "load")
        /\ UNCHANGED <<errors, abandoned>>
     \/ /\ Fails
        /\ GoRequest(r, "none")
        /\ abandoned' = row
        /\ UNCHANGED saw
  /\ UNCHANGED <<flag, row, unwritten, sync, overridden, envVars>>

\* Mutant of LoadFlag: the status request never heals.
LoadNeverHeals(r) ==
  /\ request[r] = "load"
  /\ GoRequest(r, "none")
  /\ saw' = [saw EXCEPT ![r] = FALSE]
  /\ UNCHANGED <<flag, rowVars, sync, overridden, envVars>>

LoadFlag(r) ==
  /\ request[r] = "load"
  /\ GoRequest(r, IF saw[r] /\ ~flag THEN "heal" ELSE "none")
  /\ saw' = [saw EXCEPT ![r] = FALSE]
  /\ UNCHANGED <<flag, rowVars, sync, overridden, envVars>>

Heal(r) ==
  /\ request[r] = "heal"
  /\ Update(FALSE)
  /\ GoRequest(r, "none")
  /\ UNCHANGED <<flag, sync, saw, overridden, envVars>>

\* The browser goes away: axum drops the handler at the await it is at.
Disconnect(r) ==
  /\ request[r] # "none"
  /\ GoRequest(r, "none")
  /\ saw' = [saw EXCEPT ![r] = FALSE]
  /\ abandoned' = (row /\ (abandoned \/ request[r] \in {"spawn", "status", "load", "heal"}))
  /\ UNCHANGED <<flag, row, errors, unwritten, sync, overridden, envVars>>

RequestStep(r) ==
  \/ ForceReset(r) \/ ClearCatalog(r) \/ Prepare(r) \/ SpawnSync(r)
  \/ ReadRow(r) \/ LoadFlag(r) \/ Heal(r)

-----------------------------------------------------------------------------
(* Environment *)

\* The console saves or removes the TMDB key.
ChangeKey ==
  /\ up
  /\ key' = ~key
  /\ UNCHANGED <<up, boot, flag, rowVars, sync, consoleVars, crashes, overridden, cut>>

\* The process dies: threads, requests and the atomic are gone, the row stays.
Crash ==
  /\ up /\ crashes < MaxCrashes
  /\ up' = FALSE /\ boot' = "waiting" /\ flag' = FALSE
  /\ sync' = [s \in Syncs |-> "none"]
  /\ request' = [r \in Requests |-> "none"]
  /\ saw' = [r \in Requests |-> FALSE]
  /\ crashes' = crashes + 1
  /\ overridden' = FALSE
  /\ cut' = (cut \/ row)
  /\ UNCHANGED <<rowVars, key>>

Restart ==
  /\ ~up
  /\ up' = TRUE
  /\ UNCHANGED <<boot, flag, rowVars, sync, consoleVars, key, crashes, overridden, cut>>

Next ==
  \/ \E s \in Syncs : SyncStep(s) \/ Report(s)
  \/ CronSync \/ TriggerSync \/ BootClear \/ BootSync
  \/ \E r \in Requests :
       \/ SyncStart(r) \/ FlushOrClear(r) \/ PollStatus(r)
       \/ RequestStep(r) \/ Disconnect(r)
  \/ ChangeKey \/ Crash \/ Restart

Spec == Init /\ [][Next]_vars

(***************************************************************************)
(* Threads are scheduled and every TMDB call times out after 30 s, so a    *)
(* sync always moves on (a phase has finitely many titles).  The boot task *)
(* runs.  A console left open on the Sync tab keeps polling /sync/status   *)
(* (a poll needs no other request to end: the slot is the model's bound,   *)
(* hence SF), and not every poll is cut off by its browser.  The database  *)
(* fails now and then (MaxErrors), not for ever.                           *)
(***************************************************************************)
Fairness ==
  /\ \A s \in Syncs : WF_vars(SyncStep(s))
  /\ WF_vars(Restart) /\ WF_vars(BootClear) /\ WF_vars(BootSync)
  /\ \A r \in Requests : /\ SF_vars(PollStatus(r)) /\ WF_vars(RequestStep(r))
                         /\ SF_vars(ReadRow(r)) /\ SF_vars(LoadFlag(r))
                         /\ SF_vars(Heal(r))

FairSpec == Spec /\ Fairness

-----------------------------------------------------------------------------
(* Properties *)

\* Two catalog syncs run at the same time only if somebody cleared the flag
\* under a running one: a forced start, a flush, a wipe, or a sync thread
\* that could not build its runtime (ingest/mod.rs:96-100 is the claim).
OverlapOnlyWhenOverridden ==
  \A s, t \in Running : s # t => overridden

\* The flag is never set without a sync that will clear it again, so the
\* answer "already running" (admin.rs:526-535) is never given about nothing.
FlagHasHolder == flag => Running # {}

\* While a sync runs undisturbed the flag stays set, whatever other starters
\* do: on-demand paging (tmdb.rs:1535, 1627) keeps out of its way.
FlagWhileRunning == Running # {} /\ ~overridden => flag

\* The flag and the running syncs belong together (run_full_sync, sync_start).
FlagGoesWithSyncs == OverlapOnlyWhenOverridden /\ FlagHasHolder /\ FlagWhileRunning

\* When nothing is going on any more the row does not claim a sync, lost races
\* for the flag, failed launches, failed reports and restarts included, unless,
\* since it does, a console request ended between announcing a sync and checking
\* on it, or an update that should have reset the row failed (ingest/mod.rs:121,
\* 155 and 198, main.rs:171, admin.rs:457 and 542 drop its error).
Quiet ==
  /\ up /\ boot # "waiting"
  /\ \A s \in Syncs : sync[s] = "none"
  /\ \A r \in Requests : request[r] = "none"
QuietRow == Quiet /\ row => abandoned \/ unwritten

\* A row that says "syncing" does not say so for ever, whatever left it so, a
\* failed reset included: sync end, boot task or the console's healing poll
\* resets it.
RowSettles == row ~> ~row

\* What the comment at admin.rs:455 says of the status request's repair: "Heal
\* orphaned DB flag left behind when the process restarted mid-sync."
HealsOrphansOnly ==
  [][\A r \in Requests : Heal(r) /\ row => cut]_vars

=============================================================================
