------------------------------- MODULE MCConsole -------------------------------
(* ConsoleAccess and AddonLists for TLC, side by side, in parts whose product   *)
(* is out of reach. In "devices" the sessions of the console stay as they are   *)
(* while a signed-in browser manages devices that apps use; in "sessions" no    *)
(* app calls and the devices stay; requests that are let in, restarts and the   *)
(* counters are in both. In "settings" all requests change the add-ons and      *)
(* their lists stay (a refresh is due and does not start); in "lists" one       *)
(* request at a time does, and the lists follow.                                *)
EXTENDS ConsoleAccess

CONSTANTS Urls, Catalogs, Requests, MaxAddons, MaxAsked, MaxErrors

VARIABLES part,
          memory, table, created, request, wanted, unsure, again, reloads,
          lists, asked, sync, missed, tried, errors

settingsVars == <<memory, table, created, request, wanted, unsure, again, reloads>>
listVars == <<lists, asked, sync, missed, tried, errors>>
addonVars == <<settingsVars, listVars>>
mcVars == <<part, vars, addonVars>>

Addon == INSTANCE AddonLists WITH restarts <- reloads

ASSUME AddonsAssumption == Addon!AddonAssumption /\ Addon!ListAssumption

MyToken == CHOOSE t \in Tokens : TRUE
Me == CHOOSE b \in Browsers : TRUE
Only == CHOOSE r \in Requests : TRUE

\* What a login with the first password leads to.
SignedInit ==
  /\ DeviceInit
  /\ password = [of |-> 0, old |-> FALSE] /\ upgraded = FALSE /\ latest = 0
  /\ opened = [[t \in Tokens |-> NotOpened] EXCEPT ![MyToken].state = "here"]
  /\ known = [[t \in Tokens |-> "no"] EXCEPT ![MyToken] = "yes"]
  /\ cookies = {MyToken}
  /\ browser = [b \in Browsers |-> NoBrowser]
  /\ cut = {} /\ restarts = 0

\* A new installation that nobody has signed in to.
NewInit == Init /\ ~device[Admin].legacy

MCInit ==
  /\ Addon!Init
  /\ \/ part = "devices" /\ SignedInit
     \/ part = "sessions" /\ NewInit
     \/ part \in {"settings", "lists"} /\ NewInit /\ ~password.old

In(p, A) == part = p /\ A /\ UNCHANGED part

DevicesNext ==
  /\ AppNext \/ ConsoleNext \/ DeviceStep(Me) \/ (Restart /\ UNCHANGED password)
  /\ \A b \in Browsers \ {Me} : UNCHANGED browser[b]
  /\ UNCHANGED addonVars

SessionsNext ==
  /\ SessionNext \/ ConsoleNext \/ (Restart /\ UNCHANGED device)
  /\ UNCHANGED addonVars

SettingsNext == Addon!SettingsNext /\ UNCHANGED <<vars, listVars>>

Follow(A) == In("lists", A /\ UNCHANGED vars)

MCNext ==
  \/ In("devices", DevicesNext)
  \/ In("sessions", SessionsNext)
  \/ In("settings", SettingsNext)
  \/ Follow(Addon!ListStep(Only) \/ Addon!TaskStep \/ Addon!Scheduled \/ Addon!Restart)

\* Requests go on, what is cached expires, tasks that were spawned run, and the schedule goes on.
MCSpec ==
  /\ MCInit /\ [][MCNext]_mcVars
  /\ WF_mcVars(In("devices", (Forget(Me) \/ SessionStep(Me)) /\ UNCHANGED addonVars))
  /\ \A a \in Apps : WF_mcVars(In("devices", AppStep(a) /\ UNCHANGED <<consoleVars, addonVars>>))
  /\ \A c \in Credentials :
       WF_mcVars(In("devices", SessionExpires(c) /\ UNCHANGED <<consoleVars, addonVars>>))
  /\ WF_mcVars(Follow(Addon!TaskStart /\ UNCHANGED settingsVars))
  /\ WF_mcVars(Follow(Addon!SyncStep /\ UNCHANGED settingsVars))
  /\ WF_mcVars(Follow(Addon!Scheduled))

\* Confirmed changes of the add-ons are what is in use (AddonSettings, save).
ChangesTakeHold == Addon!ChangesTakeHold

\* An add-on is installed twice only if it was added twice at once (AddonSettings, add).
TwiceOnlyIfAtOnce == Addon!TwiceOnlyIfAtOnce

\* The stored lists are those of the enabled add-ons (AddonLists, spawn_sync).
ListsMatchSettings == Addon!ListsMatchSettings

\* Lists of add-ons that are gone go (AddonLists, scheduler.rs).
StrayListsGo == part = "lists" => Addon!StrayListsGo
=============================================================================
