------------------------------ MODULE AddonSettings ------------------------------
(* The installed Stremio add-ons (providers.rs): one document in the database   *)
(* and a copy of it in memory, which every change reads whole, changes and      *)
(* writes back, first to the database and then to memory.                       *)
(*                                                                             *)
(* Requests of the console wait at each await: the fetch of a manifest and the  *)
(* statement of `save`. A browser that hangs up there drops the request.        *)
EXTENDS Integers, FiniteSets

CONSTANTS
  Urls,         \* addresses of add-ons
  Catalogs,     \* lists of titles an add-on may offer
  Requests,     \* requests of the console
  MaxAddons,    \* bound: add-ons ever installed
  MaxRestarts,  \* bound: restarts of the server
  None

\* What is required of them.
AddonAssumption ==
  /\ MaxAddons \in Nat /\ MaxRestarts \in Nat
  /\ None \notin [url : Urls, enabled : BOOLEAN, catalogs : SUBSET Catalogs]

\* Ids are made in this order, which is also the order of the installed add-ons.
Ids == 1..MaxAddons
Addons == [url : Urls, enabled : BOOLEAN, catalogs : SUBSET Catalogs]
Settings == [Ids -> Addons \cup {None}]

VARIABLES
  memory,    \* the settings in use
  table,     \* app_settings.stream_providers
  created,   \* add-ons created so far
  request,   \* requests of the console
  wanted,    \* history: the settings after every change that was confirmed
  unsure,    \* history: a change that was not confirmed may be in the table
  again,     \* history: addresses added twice at once, or brought back by a crossing save
  restarts   \* restarts so far

settingsVars == <<memory, table, created, request, wanted, unsure, again, restarts>>

\* At "publish" the statement has run and its answer has not arrived. History: `stale`, the
\* settings in use were written since this request read them; `over`, the table was written
\* since it wrote it.
RequestStates ==
  [pc : {"idle", "manifest", "write", "publish"}, op : {"none", "add", "toggle", "remove"},
   id : Ids \cup {0}, url : Urls \cup {None}, next : Settings,
   stale : BOOLEAN, over : BOOLEAN]

Nothing == [i \in Ids |-> None]
NoChange == [pc |-> "idle", op |-> "none", id |-> 0, url |-> None, next |-> Nothing,
             stale |-> FALSE, over |-> FALSE]

SettingsInit ==
  /\ memory = Nothing /\ table = Nothing /\ wanted = Nothing
  /\ created = 0 /\ restarts = 0
  /\ request = [r \in Requests |-> NoChange]
  /\ unsure = FALSE /\ again = {}

SettingsTypes ==
  /\ {memory, table, wanted} \subseteq Settings
  /\ created \in 0..MaxAddons /\ restarts \in 0..MaxRestarts
  /\ request \in [Requests -> RequestStates]
  /\ unsure \in BOOLEAN /\ again \subseteq Urls

Installed(s) == {i \in Ids : s[i] # None}
HasUrl(s, u) == \E i \in Installed(s) : s[i].url = u

\* A change as it is meant.
Changed(s, op, i, addon) ==
  CASE op = "add" -> [s EXCEPT ![i] = addon]
    [] op = "toggle" /\ s[i] # None -> [s EXCEPT ![i].enabled = ~@]
    [] op = "remove" -> [s EXCEPT ![i] = None]
    [] OTHER -> s

----------------------------------------------------------------------------
(* Requests *)

NewRequest(r) == request[r].pc = "idle"

\* Mutant of StartAdd: the address is not looked up.
StartAddUnchecked(r, u) ==
  /\ NewRequest(r) /\ created < MaxAddons
  /\ request' = [request EXCEPT ![r] = [NoChange EXCEPT !.pc = "manifest", !.op = "add", !.url = u]]
  /\ UNCHANGED <<memory, table, created, wanted, unsure, again, restarts>>

\* `add` up to the fetch of the manifest.
StartAdd(r, u) ==
  /\ NewRequest(r) /\ created < MaxAddons
  /\ ~HasUrl(memory, u)
  /\ request' = [request EXCEPT ![r] = [NoChange EXCEPT !.pc = "manifest", !.op = "add", !.url = u]]
  /\ again' = IF \E q \in Requests : request[q].op = "add" /\ request[q].url = u
              THEN again \cup {u} ELSE again
  /\ UNCHANGED <<memory, table, created, wanted, unsure, restarts>>

\* The manifest has arrived: the settings are read again, and the add-on is put at their end.
Manifest(r, lists) ==
  /\ request[r].pc = "manifest" /\ created < MaxAddons
  /\ created' = created + 1
  /\ request' = [request EXCEPT ![r].pc = "write", ![r].id = created + 1,
       ![r].next = Changed(memory, "add", created + 1,
                           [url |-> request[r].url, enabled |-> TRUE, catalogs |-> lists])]
  /\ UNCHANGED <<memory, table, wanted, unsure, again, restarts>>

\* The add-on is out of reach, or its manifest is not one this server can use.
NoManifest(r) ==
  /\ request[r].pc = "manifest"
  /\ request' = [request EXCEPT ![r] = NoChange]
  /\ UNCHANGED <<memory, table, created, wanted, unsure, again, restarts>>

\* `toggle` up to the statement.
StartToggle(r, i) ==
  /\ NewRequest(r) /\ i \in Installed(memory)
  /\ request' = [request EXCEPT ![r] =
       [NoChange EXCEPT !.pc = "write", !.op = "toggle", !.id = i, !.next = Changed(memory, "toggle", i, None)]]
  /\ UNCHANGED <<memory, table, created, wanted, unsure, again, restarts>>

\* `remove` up to the statement; the page it comes from may list an add-on that is gone.
StartRemove(r, i) ==
  /\ NewRequest(r) /\ i \in 1..created
  /\ request' = [request EXCEPT ![r] =
       [NoChange EXCEPT !.pc = "write", !.op = "remove", !.id = i, !.next = Changed(memory, "remove", i, None)]]
  /\ UNCHANGED <<memory, table, created, wanted, unsure, again, restarts>>

\* Mutant of WriteTable: the change stays in memory.
WriteNothing(r) ==
  /\ request[r].pc = "write"
  /\ request' = [request EXCEPT ![r].pc = "publish"]
  /\ UNCHANGED <<memory, table, created, wanted, unsure, again, restarts>>

\* `save`: the statement.
WriteTable(r) ==
  /\ request[r].pc = "write"
  /\ table' = request[r].next
  /\ request' = [q \in Requests |->
       IF q = r THEN [request[q] EXCEPT !.pc = "publish"]
       ELSE [request[q] EXCEPT !.over = @ \/ request[q].pc = "publish"]]
  /\ UNCHANGED <<memory, created, wanted, unsure, again, restarts>>

\* Mutant of WriteFails: the error is only logged.
WriteFailsUnnoticed(r) ==
  /\ request[r].pc = "write"
  /\ memory' = request[r].next
  /\ request' = [request EXCEPT ![r] = NoChange]
  /\ UNCHANGED <<table, created, wanted, unsure, again, restarts>>

\* The statement fails: memory stays as it is.
WriteFails(r) ==
  /\ request[r].pc = "write"
  /\ request' = [request EXCEPT ![r] = NoChange]
  /\ UNCHANGED <<memory, table, created, wanted, unsure, again, restarts>>

Publishing == {r \in Requests : request[r].pc = "publish"}

\* Addresses that a save brings back from the settings it read before.
Returned(s) == {u \in Urls : HasUrl(s, u) /\ ~HasUrl(memory, u)}

\* `save`: the copy in memory; the change is confirmed. One that crossed another is
\* granted to stand alone, with what it read.
Publish(r) ==
  LET next == request[r].next
      op == request[r].op IN
  /\ request[r].pc = "publish"
  /\ memory' = next
  /\ wanted' = IF request[r].stale THEN next
               ELSE Changed(wanted, op, request[r].id, next[request[r].id])
  /\ again' = IF request[r].stale THEN again \cup Returned(next) ELSE again
  /\ unsure' = request[r].over
  /\ request' = [q \in Requests |->
       IF q = r THEN NoChange ELSE [request[q] EXCEPT !.stale = @ \/ request[q].pc \in {"write", "publish"}]]
  /\ UNCHANGED <<table, created, restarts>>

\* The browser hangs up: the request is dropped where it waits.
HangUp(r) ==
  /\ ~NewRequest(r)
  /\ request' = [request EXCEPT ![r] = NoChange]
  /\ unsure' = (unsure \/ request[r].pc = "publish")
  /\ UNCHANGED <<memory, table, created, wanted, again, restarts>>

\* The server starts again and loads the table; a change that was not confirmed may be in it.
Load ==
  /\ restarts < MaxRestarts /\ restarts' = restarts + 1
  /\ memory' = table
  /\ wanted' = IF unsure \/ Publishing # {} THEN table ELSE wanted
  /\ again' = again \cup Returned(table)
  /\ request' = [r \in Requests |-> NoChange] /\ unsure' = FALSE
  /\ UNCHANGED <<table, created>>

SettingsStep(r) ==
  \/ \E u \in Urls : StartAdd(r, u)
  \/ \E l \in SUBSET Catalogs : Manifest(r, l)
  \/ NoManifest(r)
  \/ \E i \in Ids : StartToggle(r, i) \/ StartRemove(r, i)
  \/ WriteTable(r) \/ HangUp(r)

SettingsNext == Load \/ \E r \in Requests : SettingsStep(r) \/ Publish(r) \/ WriteFails(r)

----------------------------------------------------------------------------
(* Properties *)

\* The settings in use, after restarts too, are those of the changes confirmed so far: a
\* change that meets no other one neither loses nor brings back anything (save, toggle, add).
ChangesTakeHold == memory = wanted

\* What is in use and what a restart would load differ only while a change is being
\* written, or after one was dropped between its two writes or crossed another (save).
MemoryIsTable == memory # table => Publishing # {} \/ unsure

\* An address is installed twice only if two requests added it at once, or a crossing
\* save or a restart brought it back in between (add, which checks before its fetch).
TwiceOnlyIfAtOnce ==
  \A i, j \in Installed(memory) : i # j /\ memory[i].url = memory[j].url => memory[i].url \in again
=============================================================================
