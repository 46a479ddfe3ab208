------------------------------ MODULE AppUpdates ------------------------------
(***************************************************************************)
(* The app-update mirror of the backend (backend/src/updates.rs): it       *)
(* copies signed GitHub releases to a data volume and offers one of them   *)
(* to the apps.  Modelled are the steps of a check down to each change on  *)
(* disk, because the process may die between any two of them, the CI that  *)
(* publishes releases (.github/workflows/desktop-builds.yml), and an app   *)
(* that asks for the offer and downloads it (frontend/lib/app_updater.dart)*)
(*                                                                         *)
(* A release is known by tag, build and whether it has the installer of    *)
(* the optional platform, macOS.  Signatures and digests are abstracted to *)
(* what they achieve: a release directory renamed into place is whole.     *)
(***************************************************************************)
EXTENDS Integers, FiniteSets

CONSTANTS
  Tags,        \* release tags
  MaxBuild,    \* CI runs that publish (a bound); builds are 1 .. MaxBuild
  Checkers,    \* who runs check(): the timer, "Check now" requests
  Timer,       \* the 6-hour timer among them
  MaxDeaths,  \* how often the process may die (a bound)
  None         \* no tag, no release, no holder

ASSUME TimerChecks == Timer \in Checkers
ASSUME Bounds == MaxBuild \in Nat \ {0} /\ MaxDeaths \in Nat

VARIABLES
  github,   \* the latest release on GitHub
  runs,     \* history: runs[t] CI runs have published tag t
  dirs,     \* dirs[t]: releases/<t> on disk
  staging,  \* tags with a .staging-<t> directory on disk
  current,  \* the file `current`: tag on offer
  lock,     \* holder of the async mutex Service.run
  check,    \* check[c]: where checker c is
  got,      \* got[c]: the release checker c fetched
  doomed,   \* doomed[c]: directories c's prune() still has to remove
  busy,     \* UpdateStatus.busy
  app,      \* an app: the offer it holds, and how many releases were put on
            \* offer since (capped at 2)
  best,     \* history: the newest build put on offer so far
  deaths

disk == <<dirs, staging, current>>
mirrorVars == <<github, runs, dirs, staging, current, lock, check, got, doomed, busy,
          app, best, deaths>>

Builds == 1..MaxBuild
Releases == [tag : Tags, build : Builds, mac : BOOLEAN]
\* A directory being removed loses its manifest or its files first.
Dir == [build : Builds, mac : BOOLEAN, manifest : BOOLEAN, files : BOOLEAN]

ASSUME NoneIsNew == None \notin Tags \cup Checkers \cup Releases \cup Dir

CheckPc == {"idle", "fetch", "compare", "stage", "download", "replace", "removing",
            "rename", "point", "prune", "pruning", "cleanup"}
NoOffer == [at |-> "none"]
AppState == {NoOffer} \cup [at : {"asked"}, tag : Tags, since : 0..2]
            \cup [at : {"offered"}, tag : Tags, build : Builds, since : 0..2]

MirrorTypeOK ==
  /\ github \in Releases /\ runs \in [Tags -> 0..MaxBuild]
  /\ dirs \in [Tags -> Dir \cup {None}]
  /\ staging \subseteq Tags /\ current \in Tags \cup {None}
  /\ lock \in Checkers \cup {None}
  /\ check \in [Checkers -> CheckPc]
  /\ got \in [Checkers -> Releases \cup {None}] /\ doomed \in [Checkers -> SUBSET Tags]
  /\ \A c \in Checkers : check[c] \notin {"idle", "fetch"} => got[c] # None
  /\ busy \in BOOLEAN /\ app \in AppState
  /\ best \in 0..MaxBuild /\ deaths \in Nat

\* Service::load: manifest and signature are there and verify.
Loads(t) == dirs[t] # None /\ dirs[t].manifest
Whole(t) == Loads(t) /\ dirs[t].files

\* What GET /updates/latest answers: the build on offer, 0 for 204.
Offered == IF current # None /\ Loads(current) THEN dirs[current].build ELSE 0

MirrorInit ==
  /\ github \in [tag : Tags, build : {1}, mac : BOOLEAN]
  /\ runs = [t \in Tags |-> IF t = github.tag THEN 1 ELSE 0]
  /\ dirs = [t \in Tags |-> None] /\ staging = {} /\ current = None
  /\ lock = None /\ check = [c \in Checkers |-> "idle"]
  /\ got = [c \in Checkers |-> None] /\ doomed = [c \in Checkers |-> {}]
  /\ busy = FALSE
  /\ app = NoOffer /\ best = 0 /\ deaths = 0

-----------------------------------------------------------------------------
(* CI *)

\* A new run publishes: a new tag, or the latest tag moved to another commit.
PublishRelease ==
  /\ github.build < MaxBuild
  /\ \E t \in Tags, m \in BOOLEAN :
       /\ github' = [tag |-> t, build |-> github.build + 1, mac |-> m]
       /\ runs' = [runs EXCEPT ![t] = @ + 1]
  /\ UNCHANGED <<disk, lock, check, got, doomed, busy, app, best, deaths>>

\* A re-run of the failed macOS job uploads the same tag again with its
\* installer; the run number, hence the build, stays what it was.
AddMacInstaller ==
  /\ ~github.mac
  /\ github' = [github EXCEPT !.mac = TRUE]
  /\ UNCHANGED <<runs, disk, lock, check, got, doomed, busy, app, best, deaths>>

-----------------------------------------------------------------------------
(* Service::check *)

Go(c, pc) == check' = [check EXCEPT ![c] = pc]

\* The check returns: the mutex guard is dropped.
Return(c) ==
  /\ Go(c, "idle")
  /\ lock' = None
  /\ got' = [got EXCEPT ![c] = None]

\* Mutant: checks are not serialised.
StartAlongside(c) ==
  /\ check[c] = "idle"
  /\ lock' = c
  /\ Go(c, "fetch")
  /\ UNCHANGED <<github, runs, disk, got, doomed, busy, app, best, deaths>>

Start(c) ==
  /\ check[c] = "idle" /\ lock = None
  /\ lock' = c
  /\ Go(c, "fetch")
  /\ UNCHANGED <<github, runs, disk, got, doomed, busy, app, best, deaths>>

\* latest_release, manifest and signature; a network or signature error
\* ends the check.
Fetch(c) ==
  /\ check[c] = "fetch"
  /\ got' = [got EXCEPT ![c] = github]
  /\ Go(c, "compare")
  /\ UNCHANGED <<github, runs, disk, lock, doomed, busy, app, best, deaths>>

\* Mutant: an unreadable manifest does not end the check.
FetchFailsUnnoticed(c) ==
  /\ check[c] = "fetch"
  /\ Go(c, "compare")
  /\ UNCHANGED <<github, runs, disk, lock, got, doomed, busy, app, best, deaths>>

FetchFails(c) ==
  /\ check[c] = "fetch"
  /\ Return(c)
  /\ UNCHANGED <<github, runs, disk, doomed, busy, app, best, deaths>>

\* "Up to date" when the release on offer loads and is at least as new.
Compare(c) ==
  /\ check[c] = "compare"
  /\ IF Offered >= got[c].build
     THEN Return(c) /\ UNCHANGED busy
     ELSE Go(c, "stage") /\ busy' = TRUE /\ UNCHANGED <<lock, got>>
  /\ UNCHANGED <<github, runs, disk, doomed, app, best, deaths>>

\* Mutant: a left-over staging directory is an error.
StageOnlyFresh(c) ==
  /\ check[c] = "stage" /\ got[c].tag \notin staging
  /\ staging' = staging \cup {got[c].tag}
  /\ Go(c, "download")
  /\ UNCHANGED <<github, runs, dirs, current, lock, got, doomed, busy, app, best, deaths>>

\* A left-over staging directory is removed and a new one made ...
Stage(c) ==
  /\ check[c] = "stage"
  /\ staging' = staging \cup {got[c].tag}
  /\ Go(c, "download")
  /\ UNCHANGED <<github, runs, dirs, current, lock, got, doomed, busy, app, best, deaths>>

\* remove_dir_all of the staging directory, its error ignored.
TryRemoveStaging(c) == staging' \in {staging, staging \ {got[c].tag}}

\* ... or not: this early return leaves `busy` set.
StageFails(c) ==
  /\ check[c] = "stage"
  /\ TryRemoveStaging(c)
  /\ Return(c)
  /\ UNCHANGED <<github, runs, dirs, current, doomed, busy, app, best, deaths>>

\* Every installer of the manifest, then the manifest and its signature.
Download(c) ==
  /\ check[c] = "download"
  /\ Go(c, "replace")
  /\ UNCHANGED <<github, runs, disk, lock, got, doomed, busy, app, best, deaths>>

\* Any error from the first installer to the last rename (a directory that
\* cannot be removed makes the rename onto it fail).
MirrorFails(c) ==
  /\ check[c] \in {"download", "replace", "removing", "rename", "point"}
  /\ Go(c, "cleanup")
  /\ UNCHANGED <<github, runs, disk, lock, got, doomed, busy, app, best, deaths>>

Cleanup(c) ==
  /\ check[c] = "cleanup"
  /\ busy' = FALSE
  /\ TryRemoveStaging(c)
  /\ Return(c)
  /\ UNCHANGED <<github, runs, dirs, current, doomed, app, best, deaths>>

\* Mutant: `current` names the release before its directory is in place.
PointBeforeReplace(c) ==
  /\ check[c] = "replace"
  /\ current' = got[c].tag
  /\ Go(c, IF dirs[got[c].tag] = None THEN "rename" ELSE "removing")
  /\ UNCHANGED <<github, runs, dirs, staging, lock, got, doomed, busy, app, best, deaths>>

\* remove_dir_all of an earlier copy of the same tag, file by file.
BeginReplace(c) ==
  /\ check[c] = "replace"
  /\ IF dirs[got[c].tag] = None
     THEN Go(c, "rename") /\ UNCHANGED dirs
     ELSE /\ Go(c, "removing")
          /\ \E part \in {"manifest", "files"} :
               dirs' = [dirs EXCEPT ![got[c].tag][part] = FALSE]
  /\ UNCHANGED <<github, runs, staging, current, lock, got, doomed, busy, app, best, deaths>>

EndReplace(c) ==
  /\ check[c] = "removing"
  /\ dirs' = [dirs EXCEPT ![got[c].tag] = None]
  /\ Go(c, "rename")
  /\ UNCHANGED <<github, runs, staging, current, lock, got, doomed, busy, app, best, deaths>>

\* rename(staging, releases/<tag>)
RenameStaging(c) ==
  /\ check[c] = "rename"
  /\ dirs' = [dirs EXCEPT ![got[c].tag] =
                [build |-> got[c].build, mac |-> got[c].mac, manifest |-> TRUE, files |-> TRUE]]
  /\ staging' = staging \ {got[c].tag}
  /\ Go(c, "point")
  /\ best' = IF got[c].tag = current THEN got[c].build ELSE best
  /\ UNCHANGED <<github, runs, current, lock, got, doomed, busy, app, deaths>>

\* Mutant: the status keeps saying that a download is going on.
PointStaysBusy(c) ==
  /\ check[c] = "point"
  /\ current' = got[c].tag /\ best' = got[c].build
  /\ app' = IF app # NoOffer /\ app.since < 2 THEN [app EXCEPT !.since = @ + 1] ELSE app
  /\ Go(c, "prune")
  /\ UNCHANGED <<github, runs, dirs, staging, lock, got, doomed, busy, deaths>>

\* rename(.current.tmp, current): from here on the release is on offer.
Point(c) ==
  /\ check[c] = "point"
  /\ current' = got[c].tag
  /\ busy' = FALSE
  /\ best' = got[c].build
  /\ app' = IF app # NoOffer /\ app.since < 2
            THEN [app EXCEPT !.since = @ + 1] ELSE app
  /\ Go(c, "prune")
  /\ UNCHANGED <<github, runs, dirs, staging, lock, got, doomed, deaths>>

\* prune(keep): of the other releases only one of the newest builds stays
\* (-1 stands for a directory whose manifest does not load).
BuildOf(t) == IF Loads(t) THEN dirs[t].build ELSE -1

\* Mutant: only the newest release stays.
PruneAllOthers(c) ==
  /\ check[c] = "prune"
  /\ doomed' = [doomed EXCEPT ![c] = {t \in Tags \ {got[c].tag} : dirs[t] # None}]
  /\ Go(c, "pruning")
  /\ UNCHANGED <<github, runs, disk, lock, got, busy, app, best, deaths>>

ChoosePrune(c) ==
  /\ check[c] = "prune"
  /\ LET others == {t \in Tags \ {got[c].tag} : dirs[t] # None}
     IN IF others = {}
        THEN doomed' = [doomed EXCEPT ![c] = {}]
        ELSE \E kept \in others :
               /\ \A t \in others : BuildOf(kept) >= BuildOf(t)
               /\ doomed' = [doomed EXCEPT ![c] = others \ {kept}]
  /\ Go(c, "pruning")
  /\ UNCHANGED <<github, runs, disk, lock, got, busy, app, best, deaths>>

\* remove_dir_all of one doomed directory: part of it, then the rest; an
\* error is ignored and leaves what is left.
PruneOne(c) ==
  /\ check[c] = "pruning"
  /\ \E t \in doomed[c] :
       \/ /\ dirs[t].manifest /\ dirs[t].files
          /\ \E part \in {"manifest", "files"} : dirs' = [dirs EXCEPT ![t][part] = FALSE]
          /\ UNCHANGED doomed
       \/ /\ ~(dirs[t].manifest /\ dirs[t].files)
          /\ dirs' = [dirs EXCEPT ![t] = None]
          /\ doomed' = [doomed EXCEPT ![c] = @ \ {t}]
       \/ /\ doomed' = [doomed EXCEPT ![c] = @ \ {t}]
          /\ UNCHANGED dirs
  /\ UNCHANGED <<github, runs, staging, current, lock, check, got, busy, app, best, deaths>>

PruneDone(c) ==
  /\ check[c] = "pruning" /\ doomed[c] = {}
  /\ Return(c)
  /\ UNCHANGED <<github, runs, disk, doomed, busy, app, best, deaths>>

Proceed(c) ==
  \/ Compare(c) \/ Stage(c) \/ Cleanup(c) \/ BeginReplace(c) \/ EndReplace(c)
  \/ RenameStaging(c) \/ Point(c) \/ ChoosePrune(c) \/ PruneOne(c) \/ PruneDone(c)

-----------------------------------------------------------------------------
(* GET /updates/latest and /updates/files: an app that updates itself *)

\* latest() reads `current`, then loads that release.
AppAsks ==
  /\ app = NoOffer /\ current # None
  /\ app' = [at |-> "asked", tag |-> current, since |-> 0]
  /\ UNCHANGED <<github, runs, disk, lock, check, got, doomed, busy, best, deaths>>

AppIsTold ==
  /\ app.at = "asked"
  /\ app' = IF Loads(app.tag)
            THEN [at |-> "offered", tag |-> app.tag, build |-> dirs[app.tag].build,
                  since |-> app.since]
            ELSE NoOffer
  /\ UNCHANGED <<github, runs, disk, lock, check, got, doomed, busy, best, deaths>>

\* The download succeeds or fails; either way the app asks again later.
AppEnds ==
  /\ app.at = "offered"
  /\ app' = NoOffer
  /\ UNCHANGED <<github, runs, disk, lock, check, got, doomed, busy, best, deaths>>

-----------------------------------------------------------------------------
(* The process dies: the disk stays as it is. *)

MirrorCrash ==
  /\ deaths < MaxDeaths
  /\ deaths' = deaths + 1
  /\ check' = [c \in Checkers |-> "idle"]
  /\ lock' = None /\ busy' = FALSE
  /\ got' = [c \in Checkers |-> None] /\ doomed' = [c \in Checkers |-> {}]
  /\ UNCHANGED <<github, runs, disk, app, best>>

MirrorNext ==
  \/ PublishRelease \/ AddMacInstaller
  \/ \E c \in Checkers : \/ Start(c) \/ Fetch(c) \/ FetchFails(c) \/ Proceed(c)
                         \/ StageFails(c) \/ Download(c) \/ MirrorFails(c)
  \/ AppAsks \/ AppIsTold \/ AppEnds
  \/ MirrorCrash

MirrorSpec == MirrorInit /\ [][MirrorNext]_mirrorVars

(***************************************************************************)
(* The timer checks again and again; GitHub is reachable and a download    *)
(* succeeds sometimes (SF), and what the check does by itself goes on.     *)
(***************************************************************************)
MirrorFairness ==
  /\ SF_mirrorVars(Start(Timer))
  /\ \A c \in Checkers :
       /\ SF_mirrorVars(Fetch(c)) /\ SF_mirrorVars(Stage(c)) /\ SF_mirrorVars(Download(c))
       /\ SF_mirrorVars(BeginReplace(c)) /\ SF_mirrorVars(EndReplace(c))
       /\ SF_mirrorVars(RenameStaging(c)) /\ SF_mirrorVars(Point(c))
       /\ WF_mirrorVars(Proceed(c))

MirrorFairSpec == MirrorSpec /\ MirrorFairness

-----------------------------------------------------------------------------
(* Properties *)

\* The release on offer is on disk and complete, whatever check, prune or
\* crash comes in between.  (Replacing a tag that CI published twice is the
\* one time its directory is taken apart.)
OfferStays == current # None /\ runs[current] = 1 => Whole(current)

\* A release that an app was told of and that at most one later release has
\* taken the place of is only removed to keep a newer one for rollback (a
\* release that a crash kept from being put on offer): until then the app
\* can download the very build it was told of.  (Again but for a tag that CI
\* published twice.)
Downloadable(t, b) == Whole(t) /\ dirs[t].build = b
ToldOf(t, b) == app.at = "offered" /\ app.since <= 1 /\ app.tag = t /\ app.build = b
PreviousOfferKept ==
  [][\A t \in Tags, b \in Builds :
       (ToldOf(t, b) /\ runs[t] = 1 /\ Downloadable(t, b) /\ ~Downloadable(t, b)')
       => \E u \in Tags \ {current} : Loads(u) /\ dirs[u].build > b]_mirrorVars

\* The mirror implements the promise: only published builds, never an older
\* one than before, across checks, failures and crashes.
Promise == INSTANCE UpdateOffer WITH
             published <- 1..github.build, offer <- Offered, best <- best
ImplementsOffer == Promise!Spec

\* Once CI stops publishing, the newest build ends up on offer.
NewestIsOffered == <>[](Offered = github.build)

\* A mirror in progress ends: the progress bar does not stay for ever, not
\* even after the early return of StageFails.
BusyEnds == busy ~> ~busy

\* desktop-builds.yml:555-556: "Goes out even if macOS failed [...]; a re-run
\* of the macOS job then adds it to this same release", of which line 552 says
\* "Servers mirror it and offer it to apps as an update".  So a check that
\* finds the server up to date has the installers GitHub has.
UpToDateHasAllInstallers ==
  \A c \in Checkers :
    (check[c] = "compare" /\ Offered >= got[c].build /\ got[c].tag = current) =>
      (got[c].mac => dirs[current].mac)

=============================================================================
