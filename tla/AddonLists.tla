-------------------------------- MODULE AddonLists --------------------------------
(* The title lists of the installed add-ons in the Trending row                 *)
(* (addon_catalogs.rs). `sync` runs as a task of its own, one at a time: a      *)
(* refresh asked for while it runs is skipped. It reads the settings once, when *)
(* it starts. Changes of the settings, the server's start and a schedule ask    *)
(* for it.                                                                      *)
EXTENDS AddonSettings

CONSTANTS
  MaxAsked,    \* bound: refreshes asked for and not started yet
  MaxErrors    \* bound: errors of the database in a sync

\* What is required of them.
ListAssumption == MaxAsked \in Nat \ {0} /\ MaxErrors \in Nat

Lists == Ids \X Catalogs

VARIABLES
  lists,    \* addon_catalog_items: the lists that are stored
  asked,    \* tasks of spawn_sync that have not run yet
  sync,     \* the sync under way
  missed,   \* history: the last sync that was due was skipped or did not end
  tried,    \* history: lists the latest sync has asked their add-on for
  errors    \* errors so far

listVars == <<lists, asked, sync, missed, tried, errors>>
vars == <<settingsVars, listVars>>

\* "drop": about to delete the lists of other add-ons; "fetch": waiting for the list `at`;
\* "store": its titles are imported, and it is about to be stored.
Syncs == [pc : {"off", "drop", "next", "fetch", "store"}, read : Settings,
          left : SUBSET Lists, at : Lists \cup {None}, items : BOOLEAN]
NoSync == [pc |-> "off", read |-> Nothing, left |-> {}, at |-> None, items |-> FALSE]

Init ==
  /\ SettingsInit
  /\ lists = {} /\ asked = 1 /\ sync = NoSync
  /\ missed = FALSE /\ tried = {} /\ errors = 0

TypeOK ==
  /\ SettingsTypes
  /\ lists \subseteq Lists /\ asked \in 0..MaxAsked /\ sync \in Syncs
  /\ missed \in BOOLEAN /\ tried \subseteq Lists /\ errors \in 0..MaxErrors

\* The lists of the add-ons that are enabled.
Enabled(s) == {x \in Lists : s[x[1]] # None /\ s[x[1]].enabled /\ x[2] \in s[x[1]].catalogs}
EnabledAddons(s) == {i \in Ids : s[i] # None /\ s[i].enabled /\ s[i].catalogs # {}}

----------------------------------------------------------------------------
(* The sync *)

\* A task of spawn_sync runs: the swap of SYNCING, and the settings as they are now.
Begin ==
  /\ asked > 0 /\ asked' = asked - 1
  /\ sync.pc = "off"
  /\ sync' = [NoSync EXCEPT !.pc = "drop", !.read = memory, !.left = Enabled(memory)]
  /\ missed' = FALSE /\ tried' = {}
  /\ UNCHANGED <<lists, errors>>

Skip ==
  /\ asked > 0 /\ asked' = asked - 1
  /\ sync.pc # "off"
  /\ missed' = (missed \/ sync.read # memory)
  /\ UNCHANGED <<lists, sync, tried, errors>>

\* Mutant of Drop: only the lists of removed add-ons go.
DropRemoved ==
  /\ sync.pc = "drop"
  /\ lists' = {x \in lists : x[1] \in Installed(sync.read)}
  /\ sync' = [sync EXCEPT !.pc = "next"]
  /\ UNCHANGED <<asked, missed, tried, errors>>

\* The lists of add-ons that are disabled or removed go.
Drop ==
  /\ sync.pc = "drop"
  /\ lists' = {x \in lists : x[1] \in EnabledAddons(sync.read)}
  /\ sync' = [sync EXCEPT !.pc = "next"]
  /\ UNCHANGED <<asked, missed, tried, errors>>

\* The next list, in the order of the add-ons.
Fetch(x) ==
  /\ sync.pc = "next" /\ x \in sync.left /\ \A y \in sync.left : x[1] <= y[1]
  /\ sync' = [sync EXCEPT !.pc = "fetch", !.at = x, !.left = @ \ {x}]
  /\ tried' = tried \cup {x}
  /\ UNCHANGED <<lists, asked, missed, errors>>

\* The add-on answers, with titles or with none, and they are imported (an import that
\* fails is logged).
Answer(items) ==
  /\ sync.pc = "fetch"
  /\ sync' = [sync EXCEPT !.pc = "store", !.items = items]
  /\ UNCHANGED <<lists, asked, missed, tried, errors>>

\* Mutant of NoAnswer: what did not arrive is stored.
NoAnswerStored ==
  /\ sync.pc = "fetch"
  /\ sync' = [sync EXCEPT !.pc = "store", !.at = None, !.items = TRUE]
  /\ UNCHANGED <<lists, asked, missed, tried, errors>>

\* It does not, for FETCH_TIMEOUT at most: the list stays as it was.
NoAnswer ==
  /\ sync.pc = "fetch"
  /\ sync' = [sync EXCEPT !.pc = "next", !.at = None]
  /\ UNCHANGED <<lists, asked, missed, tried, errors>>

\* One transaction replaces the list.
Store ==
  /\ sync.pc = "store"
  /\ lists' = IF sync.items THEN lists \cup {sync.at} ELSE lists \ {sync.at}
  /\ sync' = [sync EXCEPT !.pc = "next", !.at = None, !.items = FALSE]
  /\ UNCHANGED <<asked, missed, tried, errors>>

End ==
  /\ sync.pc = "next" /\ sync.left = {}
  /\ sync' = NoSync
  /\ UNCHANGED <<lists, asked, missed, tried, errors>>

\* Mutant of Abort: an error leaves SYNCING set.
AbortStuck ==
  /\ sync.pc \in {"drop", "fetch", "store"}
  /\ errors < MaxErrors /\ errors' = errors + 1
  /\ sync' = [NoSync EXCEPT !.pc = "stuck"] /\ missed' = TRUE
  /\ UNCHANGED <<lists, asked, tried>>

\* An error of the database ends it; SYNCING is cleared all the same.
Abort ==
  /\ sync.pc \in {"drop", "fetch", "store"}
  /\ errors < MaxErrors /\ errors' = errors + 1
  /\ sync' = NoSync /\ missed' = TRUE
  /\ UNCHANGED <<lists, asked, tried>>

SyncStep ==
  Drop \/ (\E x \in Lists : Fetch(x)) \/ (\E items \in BOOLEAN : Answer(items))
  \/ NoAnswer \/ Store \/ End \/ Abort

----------------------------------------------------------------------------
(* Who asks for it *)

\* spawn_sync.
Ask ==
  /\ asked < MaxAsked /\ asked' = asked + 1
  /\ UNCHANGED <<lists, sync, missed, tried, errors>>

\* The schedule of the popular sync.
Scheduled == asked = 0 /\ Ask /\ UNCHANGED settingsVars

\* A change that was saved.
Confirm(r) == Publish(r) /\ Ask

\* A change that was not: only "toggle_provider" asks all the same.
Refuse(r) == WriteFails(r) /\ IF request[r].op = "toggle" THEN Ask ELSE UNCHANGED listVars

\* "toggle_provider" for an add-on that is gone.
ToggleGone(r, i) ==
  /\ NewRequest(r) /\ i \in (1..created) \ Installed(memory)
  /\ Ask /\ UNCHANGED settingsVars

\* The server starts again: a sync under way is gone, and one is asked for.
Restart ==
  /\ Load
  /\ asked' = 1 /\ sync' = NoSync
  /\ UNCHANGED <<lists, missed, tried, errors>>

ListStep(r) ==
  \/ SettingsStep(r) /\ UNCHANGED listVars
  \/ Confirm(r) \/ Refuse(r)
  \/ \E i \in Ids : ToggleGone(r, i)

TaskStart == Begin \/ Skip
TaskStep == (TaskStart \/ SyncStep) /\ UNCHANGED settingsVars

Next ==
  \/ \E r \in Requests : ListStep(r)
  \/ TaskStep
  \/ Scheduled
  \/ Restart

Spec == Init /\ [][Next]_vars

\* Tasks that were spawned run, what they wait for answers, fails or times out, and the
\* schedule goes on.
FairSpec ==
  /\ Spec
  /\ WF_vars(TaskStart /\ UNCHANGED settingsVars)
  /\ WF_vars(SyncStep /\ UNCHANGED settingsVars)
  /\ WF_vars(Scheduled)

----------------------------------------------------------------------------
(* Properties *)

Quiet == asked = 0 /\ sync.pc = "off"

\* When no refresh is due or under way, the stored lists belong to enabled add-ons and every
\* list of an enabled add-on has been asked for, unless the last change was made while a
\* sync ran, whose refresh is skipped, or that sync ended in an error (spawn_sync, sync).
ListsMatchSettings ==
  Quiet /\ ~missed => /\ \A x \in lists : x[1] \in EnabledAddons(memory)
                      /\ Enabled(memory) \subseteq tried

\* And that is made good: lists of add-ons that are disabled or removed go in time,
\* as long as the settings do not keep changing (scheduler.rs).
StrayListsGo ==
  []<>(\A x \in lists : x[1] \in EnabledAddons(memory)) \/ []<><<memory' # memory>>_vars
=============================================================================
