------------------------------- MODULE ServerUpdate -------------------------------
(* The server's own update (server_update.rs). "Update now" in the console, or  *)
(* the task of Auto-update, claims `busy` and spawns a task, which backs up the *)
(* database and then has Watchtower, in a container of its own, pull the image  *)
(* :stable. A new image replaces the process. Versions are numbers.             *)
EXTENDS Integers, Sequences, SequencesExt

CONSTANTS
  Requests,     \* requests of the console
  AutoUpdate,   \* the task of spawn_auto
  Keep,         \* KEEP_BACKUPS
  MaxVersion,   \* bound: versions
  MaxClicks,    \* bound: what the console asks for
  MaxTroubles   \* bound: errors, time-outs, crashes and requests cut off

UpdateAssumption ==
  /\ AutoUpdate \notin Requests /\ Keep \in Nat \ {0}
  /\ MaxVersion \in Nat \ {0} /\ MaxClicks \in Nat /\ MaxTroubles \in Nat

Callers == Requests \cup {AutoUpdate}
Versions == 1..MaxVersion

VARIABLES
  released,    \* GitHub: the newest release
  image,       \* the registry: the version of :stable
  latest,      \* `latest_tag` of updates::status, or 0
  running,     \* build_version
  token,       \* the Watchtower token is on the volume
  row, auto,   \* Auto-update: server_auto_update in the database, and its copy
  busy,        \* the atomic
  lastAuto,    \* the version Auto-update tried less than AUTO_RETRY ago, or 0
  caller,      \* caller[u]: where a request, or the loop of Auto-update, is
  task,        \* task[u]: where the task that u spawned is
  backups,     \* files in the backup directory, the newest last
  pulling,     \* Watchtower has been asked and has not ended
  cut,         \* history: a request was cut off between its claim and its task
  clicks, troubles

disk == <<token, row, backups>>
memory == <<latest, auto, busy, lastAuto, caller, task, cut>>
vars == <<released, image, running, disk, memory, pulling, clicks, troubles>>

Everyone(pc) == [u \in Callers |-> pc]

Init ==
  /\ released = 1 /\ image = 1 /\ running = 1 /\ row = FALSE /\ backups = << >>
  /\ token \in BOOLEAN /\ auto = FALSE /\ busy = FALSE /\ lastAuto = 0 /\ latest = 0 /\ cut = FALSE
  /\ caller = Everyone("idle") /\ task = Everyone("off")
  /\ pulling = FALSE /\ clicks = 0 /\ troubles = 0

\* caller[u]: "asks" is in update_now, "claimed" waits for status() there; "on" and "off" have
\* written the switch to the database.
TypeOK ==
  /\ released \in Versions /\ image \in Versions /\ running \in Versions /\ latest \in 0..MaxVersion
  /\ token \in BOOLEAN /\ row \in BOOLEAN /\ auto \in BOOLEAN /\ busy \in BOOLEAN
  /\ lastAuto \in 0..MaxVersion /\ pulling \in BOOLEAN /\ cut \in BOOLEAN
  /\ caller \in [Callers -> {"idle", "asks", "claimed", "on", "off"}]
  /\ task \in [Callers -> {"off", "start", "dump", "ask", "wait"}]
  /\ backups \in Seq([of : Versions, whole : BOOLEAN])
  /\ clicks \in 0..MaxClicks /\ troubles \in 0..MaxTroubles

Trouble == troubles < MaxTroubles /\ troubles' = troubles + 1

Newer(a, b) == a > b

Goes(u, pc) == caller' = [caller EXCEPT ![u] = pc]
TaskGoes(u, pc) == task' = [task EXCEPT ![u] = pc]

(* CI and the mirror, whose check sees the newest release.                      *)
Publish == /\ released < MaxVersion /\ released' = released + 1
           /\ UNCHANGED <<image, running, disk, memory, pulling, clicks, troubles>>
PublishImage == /\ image < released /\ image' = image + 1
                /\ UNCHANGED <<released, running, disk, memory, pulling, clicks, troubles>>
SeeLatest == /\ latest # released /\ latest' = released
             /\ UNCHANGED <<released, image, running, disk, auto, busy, lastAuto, caller, task, cut,
                            pulling, clicks, troubles>>

(* The console.                                                                 *)
Click(r, pc) == /\ caller[r] = "idle" /\ clicks < MaxClicks /\ clicks' = clicks + 1 /\ Goes(r, pc)
                /\ UNCHANGED <<released, image, running, token, backups, latest, auto, busy, lastAuto,
                               task, cut, pulling, troubles>>
UpdateNow(r) == Click(r, "asks") /\ UNCHANGED row

\* set_auto: the database first, then its copy.
SetAuto(r) == \E on \in BOOLEAN : Click(r, IF on THEN "on" ELSE "off") /\ row' = on
StoreAuto(r) == /\ caller[r] \in {"on", "off"} /\ auto' = (caller[r] = "on") /\ Goes(r, "idle")
                /\ UNCHANGED <<released, image, running, disk, latest, busy, lastAuto, task, cut,
                               pulling, clicks, troubles>>

\* The handler is dropped where it waits.
HangUp(r) == /\ caller[r] # "idle" /\ Trouble /\ Goes(r, "idle")
             /\ cut' = (cut \/ caller[r] = "claimed")
             /\ UNCHANGED <<released, image, running, disk, latest, auto, busy, lastAuto, task,
                            pulling, clicks>>

(* Auto-update looks every 30 minutes. No stream is ever open on the server.    *)
AutoLooks ==
  /\ caller[AutoUpdate] = "idle" /\ auto /\ token /\ Newer(latest, running) /\ ~busy
  /\ lastAuto # latest
  /\ lastAuto' = latest /\ Goes(AutoUpdate, "asks")
  /\ UNCHANGED <<released, image, running, disk, latest, auto, busy, task, cut, pulling, clicks,
                 troubles>>

RetryDue == /\ lastAuto # 0 /\ lastAuto' = 0
            /\ UNCHANGED <<released, image, running, disk, latest, auto, busy, caller, task, cut,
                           pulling, clicks, troubles>>

(* update_now. The token is read first; a busy server refuses.                  *)
Claim(u) ==
  /\ caller[u] = "asks"
  /\ IF token /\ ~busy THEN busy' = TRUE /\ Goes(u, "claimed") ELSE Goes(u, "idle") /\ UNCHANGED busy
  /\ UNCHANGED <<released, image, running, disk, latest, auto, lastAuto, task, cut, pulling, clicks,
                 troubles>>

SpawnUpdate(u) ==
  /\ caller[u] = "claimed" /\ Goes(u, "idle") /\ TaskGoes(u, "start")
  /\ UNCHANGED <<released, image, running, disk, latest, auto, busy, lastAuto, cut, pulling, clicks,
                 troubles>>

(* The task. A dump that fails is removed; a crash leaves what there is of it.  *)
StartBackup(u) ==
  /\ task[u] = "start" /\ TaskGoes(u, "dump")
  /\ backups' = Append(backups, [of |-> running, whole |-> FALSE])
  /\ UNCHANGED <<released, image, running, token, row, latest, auto, busy, lastAuto, caller, cut,
                 pulling, clicks, troubles>>

\* Mutant of Pruned: the list is in the other order.
PrunedNewest(files) == SubSeq(files, 1, IF Len(files) > Keep THEN Keep ELSE Len(files))

Pruned(files) == SubSeq(files, IF Len(files) > Keep THEN Len(files) - Keep + 1 ELSE 1, Len(files))

EndBackup(u) ==
  /\ task[u] = "dump" /\ TaskGoes(u, "ask")
  /\ backups' = Pruned([backups EXCEPT ![Len(backups)].whole = TRUE])
  /\ UNCHANGED <<released, image, running, token, row, latest, auto, busy, lastAuto, caller, cut,
                 pulling, clicks, troubles>>

\* Mutant of EndTask: `busy` stays.
EndTaskBusy(u) == TaskGoes(u, "off")
                  /\ UNCHANGED <<busy, released, image, running, token, row, latest, auto, lastAuto,
                                 caller, cut, clicks>>

\* What every end of a task does.
EndTask(u) == TaskGoes(u, "off") /\ busy' = FALSE
              /\ UNCHANGED <<released, image, running, token, row, latest, auto, lastAuto, caller, cut,
                             clicks>>

BackupFails(u) ==
  /\ task[u] \in {"start", "dump"} /\ Trouble /\ EndTask(u)
  /\ backups' = IF task[u] = "dump" THEN Front(backups) ELSE backups
  /\ UNCHANGED pulling

Ask(u) == /\ task[u] = "ask" /\ TaskGoes(u, "wait") /\ pulling' = TRUE
          /\ UNCHANGED <<released, image, running, disk, latest, auto, busy, lastAuto, caller, cut,
                         clicks, troubles>>

\* Watchtower cannot be reached or refuses; or it takes longer than 15 minutes, and goes on.
AskFails(u) == task[u] \in {"ask", "wait"} /\ Trouble /\ EndTask(u) /\ UNCHANGED <<backups, pulling>>

\* There is no newer image (yet).
NoNewImage(u) == /\ task[u] = "wait" /\ ~pulling /\ EndTask(u)
                 /\ UNCHANGED <<backups, pulling, troubles>>

(* The process ends and starts: load(), and ensure_token() if there is none.    *)
Boot == /\ token' \in {token, TRUE} /\ auto' \in {row, FALSE}
        /\ busy' = FALSE /\ lastAuto' = 0 /\ latest' = 0 /\ cut' = FALSE
        /\ caller' = Everyone("idle") /\ task' = Everyone("off")
        /\ UNCHANGED <<released, image, row, backups, clicks>>

Replace == /\ pulling /\ image # running /\ pulling' = FALSE
           /\ running' = image /\ Boot
           /\ IF auto' = row /\ token' THEN UNCHANGED troubles ELSE Trouble
NothingToPull == /\ pulling /\ image = running /\ pulling' = FALSE
                 /\ UNCHANGED <<released, image, running, disk, memory, clicks, troubles>>
Crash == Trouble /\ Boot /\ UNCHANGED <<running, pulling>>

TaskStep(u) == StartBackup(u) \/ EndBackup(u) \/ Ask(u) \/ NoNewImage(u)
CallerStep(u) == Claim(u) \/ SpawnUpdate(u) \/ (u # AutoUpdate /\ StoreAuto(u))
Watchtower == Replace \/ NothingToPull

Next ==
  \/ Publish \/ PublishImage \/ SeeLatest \/ AutoLooks \/ RetryDue \/ Watchtower \/ Crash
  \/ \E r \in Requests : UpdateNow(r) \/ SetAuto(r) \/ HangUp(r)
  \/ \E u \in Callers : CallerStep(u) \/ TaskStep(u) \/ BackupFails(u) \/ AskFails(u)

\* CI and the mirror get there, the loops go on, tasks and handlers are run, Watchtower answers.
Fairness ==
  /\ WF_vars(PublishImage) /\ WF_vars(SeeLatest) /\ WF_vars(AutoLooks) /\ WF_vars(RetryDue)
  /\ WF_vars(Watchtower)
  /\ \A u \in Callers : WF_vars(CallerStep(u)) /\ WF_vars(TaskStep(u))

Spec == Init /\ [][Next]_vars /\ Fairness

--------------------------------------------------------------------------------
Holders == {u \in Callers : caller[u] = "claimed" \/ task[u] # "off"}

\* At most one update is under way, and `busy` says so; it also says so, until the next restart,
\* after a request was dropped while update_now waited for status() (update_now).
BusyIsOneUpdate ==
  /\ \A u, v \in Holders : u = v
  /\ \A u \in Callers : ~(caller[u] = "claimed" /\ task[u] # "off")
  /\ busy <=> (Holders # {} \/ cut)

\* While Watchtower may replace the running version, a whole backup that it made is in the
\* directory, whatever else was started, cut short or pruned meanwhile (backup, prune_backups).
BackedUpFirst ==
  pulling => \E i \in DOMAIN backups : backups[i].whole /\ backups[i].of = running

\* With Auto-update on, the server does come to run the newest release, unless `busy` was left
\* behind or the token could not be written (spawn_auto).
NewestIsInstalled == []<>(running = released \/ ~auto \/ ~token \/ cut)
=============================================================================
