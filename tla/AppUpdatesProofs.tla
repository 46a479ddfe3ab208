--------------------------- MODULE AppUpdatesProofs ---------------------------
(***************************************************************************)
(* Proofs about the update mirror, for any tags, builds, checkers and      *)
(* crashes.  The argument: every build that exists anywhere, on GitHub, in *)
(* a check or on disk, is a copy of something published, and a tag that    *)
(* was published once has one build only.  One check runs at a time, and   *)
(* only for a release newer than the one on offer; so it takes apart the   *)
(* directory of the release on offer only when CI published its tag twice. *)
(***************************************************************************)
EXTENDS MCUpdates, SequenceTheorems, TLAPS

\* The mutex: a check that goes on holds it, and only that check has fetched.
OneAtATime ==
  \A c \in Checkers : /\ check[c] # "idle" => lock = c
                      /\ check[c] \in {"idle", "fetch"} => got[c] = None

\* Where build b of tag t exists.
Copy(t, b) ==
  \/ github.tag = t /\ github.build = b
  \/ \E c \in Checkers : got[c] # None /\ got[c].tag = t /\ got[c].build = b
  \/ dirs[t] # None /\ dirs[t].build = b

\* Copies come from CI, which numbers its runs.
CopiesAgree ==
  /\ \A t \in Tags : runs[t] <= github.build
  /\ \A t \in Tags, b \in Builds : Copy(t, b) => runs[t] >= 1 /\ b <= github.build
  /\ \A t, u \in Tags, b \in Builds : Copy(t, b) /\ Copy(u, b) => t = u
  /\ \A t \in Tags, a, b \in Builds : Copy(t, a) /\ Copy(t, b) /\ runs[t] = 1 => a = b

\* From the comparison to the new offer.
Mirroring == {"stage", "download", "replace", "removing", "rename", "point"}
OnceOffered == current # None /\ runs[current] = 1

\* The release on offer is the best one so far, and one on its way is better.
OfferIsBest ==
  /\ current # None => runs[current] >= 1
  /\ OnceOffered => Whole(current) /\ dirs[current].build = best
  /\ best <= github.build
  /\ \A c \in Checkers : /\ got[c] # None => best <= got[c].build
                         /\ check[c] \in Mirroring /\ OnceOffered => best < got[c].build

\* What a check has done on disk when it is where it is.
InPlace ==
  \A c \in Checkers :
    /\ check[c] = "point" => Whole(got[c].tag) /\ dirs[got[c].tag].build = got[c].build
    /\ check[c] \in {"prune", "pruning"} => current = got[c].tag

\* prune() never touches the offer, and what it removes is older than what it keeps.
PruneSpares ==
  \A c \in Checkers : check[c] = "pruning" =>
    /\ current \notin doomed[c]
    /\ \A t \in doomed[c] :
         /\ dirs[t] # None
         /\ \E u \in Tags \ doomed[c] :
              u # current /\ dirs[u] # None /\ BuildOf(u) >= BuildOf(t)

\* A release that an app was told of and that is no longer on offer is not
\* fetched again.
AppLeftBehind ==
  app # NoOffer =>
    /\ runs[app.tag] >= 1
    /\ (runs[app.tag] = 1 /\ app.tag # current) =>
         /\ github.tag # app.tag
         /\ \A c \in Checkers : got[c] # None => got[c].tag # app.tag

MirrorInv ==
  /\ MirrorTypeOK
  /\ OneAtATime
  /\ CopiesAgree
  /\ OfferIsBest
  /\ InPlace
  /\ PruneSpares
  /\ AppLeftBehind

-----------------------------------------------------------------------------
(* Types *)

\* A directory that loses a part of it is still one, of the same build.
LEMMA BrokenDir ==
  ASSUME NEW d \in Dir, NEW piece \in {"manifest", "files"}
  PROVE  /\ [d EXCEPT ![piece] = FALSE] \in Dir
         /\ [d EXCEPT ![piece] = FALSE].build = d.build
<1>1. CASE piece = "manifest"  BY <1>1 DEF Dir
<1>2. CASE piece = "files"  BY <1>2 DEF Dir
<1> QED BY <1>1, <1>2

\* What the types say of a check that has fetched, and of its directory.
LEMMA FetchedTypes ==
  ASSUME MirrorTypeOK, NEW c \in Checkers, check[c] \notin {"idle", "fetch"}
  PROVE  /\ got[c] # None /\ got[c] \in Releases
         /\ got[c].tag \in Tags /\ got[c].build \in Builds /\ got[c].mac \in BOOLEAN
         /\ dirs[got[c].tag] # None => dirs[got[c].tag] \in Dir
BY DEF MirrorTypeOK, Releases

\* The steps of a check keep the types.
LEMMA CheckTypes ==
  ASSUME MirrorTypeOK, NEW c \in Checkers,
         \/ Start(c) \/ Fetch(c) \/ FetchFails(c) \/ Compare(c) \/ Stage(c) \/ StageFails(c)
         \/ Download(c) \/ MirrorFails(c) \/ Cleanup(c) \/ PruneDone(c)
  PROVE  MirrorTypeOK'
<1> USE DEF MirrorTypeOK, Go, disk
<1>1. CASE Start(c)        BY <1>1 DEF Start, CheckPc
<1>2. CASE Fetch(c)        BY <1>2, NoneIsNew DEF Fetch, CheckPc, Releases
<1>3. CASE FetchFails(c)   BY <1>3 DEF FetchFails, Return, CheckPc
<1>4. CASE Compare(c)      BY <1>4 DEF Compare, Return, CheckPc
<1>5. CASE Stage(c)        BY <1>5, FetchedTypes DEF Stage, CheckPc
<1>6. CASE StageFails(c)   BY <1>6 DEF StageFails, TryRemoveStaging, Return, CheckPc
<1>7. CASE Download(c)     BY <1>7 DEF Download, CheckPc
<1>8. CASE MirrorFails(c)  BY <1>8 DEF MirrorFails, CheckPc
<1>9. CASE Cleanup(c)      BY <1>9 DEF Cleanup, TryRemoveStaging, Return, CheckPc
<1>10. CASE PruneDone(c)   BY <1>10 DEF PruneDone, Return, CheckPc
<1> QED BY <1>1, <1>2, <1>3, <1>4, <1>5, <1>6, <1>7, <1>8, <1>9, <1>10

LEMMA DiskTypes ==
  ASSUME MirrorTypeOK, PruneSpares, NEW c \in Checkers,
         BeginReplace(c) \/ EndReplace(c) \/ RenameStaging(c) \/ ChoosePrune(c) \/ PruneOne(c)
  PROVE  MirrorTypeOK'
<1> USE DEF Go
<1>1. dirs' \in [Tags -> Dir \cup {None}]
  <2> USE DEF MirrorTypeOK
  <2>1. CASE BeginReplace(c)
    <3>1. CASE dirs' = dirs  BY <3>1
    <3>2. CASE dirs' # dirs
      <4>1. PICK piece \in {"manifest", "files"} : dirs' = [dirs EXCEPT ![got[c].tag][piece] = FALSE]
        BY <2>1, <3>2 DEF BeginReplace
      <4>2. got[c].tag \in Tags /\ dirs[got[c].tag] \in Dir
        BY <2>1, <3>2, FetchedTypes DEF BeginReplace
      <4>3. dirs' = [dirs EXCEPT ![got[c].tag] = [dirs[got[c].tag] EXCEPT ![piece] = FALSE]]
        BY <4>1, <4>2
      <4> QED BY <4>2, <4>3, BrokenDir
    <3> QED BY <3>1, <3>2
  <2>2. CASE EndReplace(c)  BY <2>2, FetchedTypes DEF EndReplace
  <2>3. CASE RenameStaging(c)
    <3>1. [build |-> got[c].build, mac |-> got[c].mac, manifest |-> TRUE, files |-> TRUE] \in Dir
      BY <2>3, FetchedTypes DEF RenameStaging, Dir
    <3> QED BY <2>3, <3>1, FetchedTypes DEF RenameStaging
  <2>4. CASE ChoosePrune(c)  BY <2>4 DEF ChoosePrune, disk
  <2>5. CASE PruneOne(c)
    <3>1. CASE \E t \in Tags : dirs' = [dirs EXCEPT ![t] = None]  BY <3>1
    <3>2. CASE dirs' = dirs  BY <3>2
    <3>3. CASE \E t \in doomed[c], piece \in {"manifest", "files"} : dirs' = [dirs EXCEPT ![t][piece] = FALSE]
      <4>1. PICK t \in doomed[c], piece \in {"manifest", "files"} : dirs' = [dirs EXCEPT ![t][piece] = FALSE]
        BY <3>3
      <4>2. t \in Tags /\ dirs[t] \in Dir  BY <2>5 DEF PruneOne, PruneSpares
      <4>3. dirs' = [dirs EXCEPT ![t] = [dirs[t] EXCEPT ![piece] = FALSE]]
        BY <4>1, <4>2
      <4> QED BY <4>2, <4>3, BrokenDir
    <3> QED BY <2>5, <3>1, <3>2, <3>3 DEF PruneOne
  <2> QED BY <2>1, <2>2, <2>3, <2>4, <2>5
<1>2. check' \in [Checkers -> CheckPc]
  BY DEF MirrorTypeOK, BeginReplace, EndReplace, RenameStaging, ChoosePrune, PruneOne, CheckPc
<1>3. doomed' \in [Checkers -> SUBSET Tags]
  BY DEF MirrorTypeOK, BeginReplace, EndReplace, RenameStaging, ChoosePrune, PruneOne
<1>4. best' \in 0..MaxBuild
  <2>1. check[c] = "rename" => got[c].build \in 0..MaxBuild
    BY FetchedTypes, Bounds DEF Builds
  <2> QED BY <2>1 DEF MirrorTypeOK, BeginReplace, EndReplace, RenameStaging, ChoosePrune, PruneOne
<1>5. staging' \subseteq Tags /\ UNCHANGED <<github, runs, current, lock, got, busy, app, deaths>>
  BY DEF MirrorTypeOK, BeginReplace, EndReplace, RenameStaging, ChoosePrune, PruneOne, disk
<1>6. \A d \in Checkers : check'[d] \notin {"idle", "fetch"} => got[d] # None
  BY DEF MirrorTypeOK, BeginReplace, EndReplace, RenameStaging, ChoosePrune, PruneOne
<1> QED BY <1>1, <1>2, <1>3, <1>4, <1>5, <1>6 DEF MirrorTypeOK

LEMMA AppTypes ==
  ASSUME MirrorTypeOK, app # NoOffer
  PROVE  /\ app.tag \in Tags /\ app.since \in 0..2
         /\ app.at \in {"asked", "offered"}
         /\ app.since < 2 => [app EXCEPT !.since = @ + 1] \in AppState
<1>1. CASE app \in [at : {"asked"}, tag : Tags, since : 0..2]
  BY <1>1 DEF AppState
<1>2. CASE app \in [at : {"offered"}, tag : Tags, build : Builds, since : 0..2]
  BY <1>2 DEF AppState
<1> QED BY <1>1, <1>2 DEF MirrorTypeOK, AppState

LEMMA OtherTypes ==
  ASSUME MirrorTypeOK, CopiesAgree,
         \/ PublishRelease \/ AddMacInstaller \/ AppAsks \/ AppIsTold \/ AppEnds \/ MirrorCrash
         \/ \E c \in Checkers : Point(c)
  PROVE  MirrorTypeOK'
<1> USE DEF disk
<1>1. CASE PublishRelease
  <2>1. PICK t \in Tags, m \in BOOLEAN :
          /\ github' = [tag |-> t, build |-> github.build + 1, mac |-> m]
          /\ runs' = [runs EXCEPT ![t] = @ + 1]
    BY <1>1 DEF PublishRelease
  <2>2. github' \in Releases
    BY <1>1, <2>1, Bounds DEF MirrorTypeOK, PublishRelease, Releases, Builds
  <2>3. runs' \in [Tags -> 0..MaxBuild]
    BY <1>1, <2>1, Bounds DEF MirrorTypeOK, PublishRelease, Releases, Builds, CopiesAgree
  <2> QED BY <1>1, <2>2, <2>3 DEF MirrorTypeOK, PublishRelease
<1>2. CASE AddMacInstaller
  <2>1. github' \in Releases  BY <1>2 DEF MirrorTypeOK, AddMacInstaller, Releases
  <2> QED BY <1>2, <2>1 DEF MirrorTypeOK, AddMacInstaller
<1>3. CASE AppAsks
  <2>1. app' \in AppState  BY <1>3 DEF MirrorTypeOK, AppAsks, AppState
  <2> QED BY <1>3, <2>1 DEF MirrorTypeOK, AppAsks
<1>4. CASE AppIsTold
  <2>1. app # NoOffer  BY <1>4 DEF AppIsTold, NoOffer
  <2>2. Loads(app.tag) => dirs[app.tag].build \in Builds
    BY <2>1, AppTypes DEF MirrorTypeOK, Loads, Dir
  <2>3. app' \in AppState  BY <1>4, <2>1, <2>2, AppTypes DEF AppIsTold, AppState
  <2> QED BY <1>4, <2>3 DEF MirrorTypeOK, AppIsTold
<1>5. CASE AppEnds
  <2>1. app' \in AppState  BY <1>5 DEF AppEnds, AppState
  <2> QED BY <1>5, <2>1 DEF MirrorTypeOK, AppEnds
<1>6. CASE MirrorCrash
  <2>1. check' \in [Checkers -> CheckPc] /\ doomed' \in [Checkers -> SUBSET Tags]
    BY <1>6 DEF MirrorCrash, CheckPc
  <2>2. got' \in [Checkers -> Releases \cup {None}] /\ \A c \in Checkers : check'[c] = "idle"
    BY <1>6 DEF MirrorCrash
  <2>3. deaths' \in Nat
    <3>1. deaths \in Nat /\ deaths' = deaths + 1  BY <1>6 DEF MirrorTypeOK, MirrorCrash
    <3> QED BY <3>1
  <2>4. busy' = FALSE /\ lock' = None /\ UNCHANGED <<github, runs, dirs, staging, current, app, best>>
    BY <1>6 DEF MirrorCrash
  <2> QED BY <2>1, <2>2, <2>3, <2>4 DEF MirrorTypeOK
<1>7. ASSUME NEW c \in Checkers, Point(c) PROVE MirrorTypeOK'
  <2>1. app' \in AppState  BY <1>7, AppTypes DEF MirrorTypeOK, Point
  <2>2. got[c].tag \in Tags /\ got[c].build \in 0..MaxBuild
    BY <1>7, FetchedTypes, Bounds DEF Point, Builds
  <2> QED BY <1>7, <2>1, <2>2 DEF MirrorTypeOK, Point, Go, CheckPc
<1> QED BY <1>1, <1>2, <1>3, <1>4, <1>5, <1>6, <1>7

-----------------------------------------------------------------------------
(* The mutex *)

\* Everybody but the one that holds the mutex is idle and has nothing in hand.
LEMMA OthersIdle ==
  ASSUME OneAtATime, NEW c \in Checkers, check[c] # "idle"
  PROVE  \A d \in Checkers \ {c} : check[d] = "idle" /\ got[d] = None
BY DEF OneAtATime

LEMMA MutexHolds ==
  ASSUME MirrorTypeOK, OneAtATime, [MirrorNext]_mirrorVars
  PROVE  OneAtATime'
<1> USE DEF MirrorTypeOK, Go
<1>1. ASSUME NEW c \in Checkers, Start(c) PROVE OneAtATime'
  <2>1. \A d \in Checkers : check[d] = "idle"  BY <1>1, NoneIsNew DEF Start, OneAtATime
  <2> QED BY <1>1, <2>1 DEF Start, OneAtATime
<1>2. ASSUME NEW c \in Checkers, check[c] # "idle", check' \in [Checkers -> CheckPc],
             got' \in [Checkers -> Releases \cup {None}],
             \A d \in Checkers \ {c} : check'[d] = check[d] /\ got'[d] = got[d],
             \/ check'[c] = "idle" /\ got'[c] = None
             \/ lock' = lock /\ check'[c] \notin {"idle", "fetch"}
      PROVE OneAtATime'
  BY <1>2, OthersIdle DEF OneAtATime
<1>3. ASSUME NEW c \in Checkers,
             \/ Fetch(c) \/ FetchFails(c) \/ Compare(c) \/ Stage(c) \/ StageFails(c)
             \/ Download(c) \/ MirrorFails(c) \/ Cleanup(c) \/ PruneDone(c)
      PROVE OneAtATime'
  <2>1. check' \in [Checkers -> CheckPc] /\ got' \in [Checkers -> Releases \cup {None}]
    BY <1>3, CheckTypes
  <2>2. check[c] # "idle"
    BY <1>3 DEF Fetch, FetchFails, Compare, Stage, StageFails, Download, MirrorFails, Cleanup, PruneDone
  <2>3. \A d \in Checkers \ {c} : check'[d] = check[d] /\ got'[d] = got[d]
    BY <1>3 DEF Fetch, FetchFails, Compare, Stage, StageFails, Download, MirrorFails, Cleanup,
                PruneDone, Return
  <2>4. \/ check'[c] = "idle" /\ got'[c] = None
        \/ lock' = lock /\ check'[c] \notin {"idle", "fetch"}
    BY <1>3 DEF Fetch, FetchFails, Compare, Stage, StageFails, Download, MirrorFails, Cleanup,
                PruneDone, Return
  <2> QED BY <1>2, <2>1, <2>2, <2>3, <2>4
<1>4. ASSUME NEW c \in Checkers,
             \/ BeginReplace(c) \/ EndReplace(c) \/ RenameStaging(c) \/ Point(c)
             \/ ChoosePrune(c) \/ PruneOne(c)
      PROVE OneAtATime'
  <2>1. check' \in [Checkers -> CheckPc]
    BY <1>4 DEF BeginReplace, EndReplace, RenameStaging, Point, ChoosePrune, PruneOne, CheckPc
  <2>2. check[c] # "idle" /\ got' = got /\ lock' = lock
    BY <1>4 DEF BeginReplace, EndReplace, RenameStaging, Point, ChoosePrune, PruneOne
  <2>3. \A d \in Checkers \ {c} : check'[d] = check[d]
    BY <1>4 DEF BeginReplace, EndReplace, RenameStaging, Point, ChoosePrune, PruneOne
  <2>4. check'[c] \notin {"idle", "fetch"}
    BY <1>4 DEF BeginReplace, EndReplace, RenameStaging, Point, ChoosePrune, PruneOne
  <2> QED BY <1>2, <2>1, <2>2, <2>3, <2>4
<1>5. CASE MirrorCrash  BY <1>5 DEF MirrorCrash, OneAtATime
<1>6. CASE \/ PublishRelease \/ AddMacInstaller \/ AppAsks \/ AppIsTold \/ AppEnds
           \/ UNCHANGED mirrorVars
  BY <1>6 DEF PublishRelease, AddMacInstaller, AppAsks, AppIsTold, AppEnds, mirrorVars, OneAtATime
<1> QED BY <1>1, <1>3, <1>4, <1>5, <1>6 DEF MirrorNext, Proceed

-----------------------------------------------------------------------------
(* Copies *)

\* Where builds of a tag are found.
LEMMA KnownCopies ==
  ASSUME MirrorTypeOK
  PROVE  /\ github.tag \in Tags /\ github.build \in Builds /\ Copy(github.tag, github.build)
         /\ \A c \in Checkers : got[c] # None =>
              got[c].tag \in Tags /\ got[c].build \in Builds /\ Copy(got[c].tag, got[c].build)
         /\ \A t \in Tags : dirs[t] # None =>
              dirs[t] \in Dir /\ dirs[t].build \in Builds /\ Copy(t, dirs[t].build)
<1>1. github \in Releases /\ \A c \in Checkers : got[c] # None => got[c] \in Releases
  BY DEF MirrorTypeOK
<1>2. \A t \in Tags : dirs[t] # None => dirs[t] \in Dir
  BY DEF MirrorTypeOK
<1>3. github.tag \in Tags /\ github.build \in Builds /\ Copy(github.tag, github.build)
  BY <1>1 DEF Releases, Copy
<1>4. \A c \in Checkers : got[c] # None =>
        got[c].tag \in Tags /\ got[c].build \in Builds /\ Copy(got[c].tag, got[c].build)
  BY <1>1 DEF Releases, Copy
<1>5. \A t \in Tags : dirs[t] # None => dirs[t].build \in Builds /\ Copy(t, dirs[t].build)
  BY <1>2 DEF Dir, Copy
<1> QED BY <1>2, <1>3, <1>4, <1>5

\* Only CI makes new copies.
NoNewCopy ==
  /\ runs' = runs /\ github'.build = github.build
  /\ \A t \in Tags, b \in Builds : Copy(t, b)' => Copy(t, b)

LEMMA ChecksMakeNoCopies ==
  ASSUME MirrorTypeOK, PruneSpares, NEW c \in Checkers,
         \/ Start(c) \/ Fetch(c) \/ FetchFails(c) \/ Proceed(c)
         \/ StageFails(c) \/ Download(c) \/ MirrorFails(c)
  PROVE  NoNewCopy
<1> USE DEF MirrorTypeOK, NoNewCopy, Copy
<1>1. runs' = runs /\ github' = github
  BY DEF Start, Fetch, FetchFails, StageFails, Download, MirrorFails, Proceed, Compare, Stage, Cleanup,
         BeginReplace, EndReplace, RenameStaging, Point, ChoosePrune, PruneOne, PruneDone
<1>2. CASE /\ dirs' = dirs
           /\ \A d \in Checkers : got'[d] \in {got[d], None, github}
  BY <1>1, <1>2
<1>3. CASE \/ Start(c) \/ Fetch(c) \/ FetchFails(c) \/ StageFails(c) \/ Download(c) \/ MirrorFails(c)
           \/ Compare(c) \/ Stage(c) \/ Cleanup(c) \/ Point(c) \/ ChoosePrune(c) \/ PruneDone(c)
  <2>1. dirs' = dirs
    BY <1>3 DEF Start, Fetch, FetchFails, StageFails, Download, MirrorFails, Compare, Stage, Cleanup,
                Point, ChoosePrune, PruneDone, disk
  <2>2. \A d \in Checkers : got'[d] \in {got[d], None, github}
    BY <1>3 DEF Start, Fetch, FetchFails, StageFails, Download, MirrorFails, Compare, Stage, Cleanup,
                Point, ChoosePrune, PruneDone, Return
  <2> QED BY <1>2, <2>1, <2>2
<1>4. CASE BeginReplace(c) \/ EndReplace(c) \/ RenameStaging(c) \/ PruneOne(c)
  <2>1. got' = got  BY <1>4 DEF BeginReplace, EndReplace, RenameStaging, PruneOne
  <2>2. \A t \in Tags : dirs'[t] # None =>
          \/ dirs[t] # None /\ dirs'[t].build = dirs[t].build
          \/ got[c] # None /\ t = got[c].tag /\ dirs'[t].build = got[c].build
    <3>1. CASE dirs' = dirs  BY <3>1
    <3>2. ASSUME NEW u \in Tags, dirs[u] \in Dir, NEW piece \in {"manifest", "files"},
                 dirs' = [dirs EXCEPT ![u][piece] = FALSE]
          PROVE \A t \in Tags : dirs'[t] # None => dirs[t] # None /\ dirs'[t].build = dirs[t].build
      <4>1. dirs' = [dirs EXCEPT ![u] = [dirs[u] EXCEPT ![piece] = FALSE]]
        BY <3>2
      <4>2. dirs[u] # None  BY <3>2, NoneIsNew
      <4> QED BY <3>2, <4>1, <4>2, BrokenDir
    <3>3. CASE BeginReplace(c)
      <4>1. CASE dirs' = dirs  BY <4>1
      <4>2. CASE dirs' # dirs
        <5>1. PICK piece \in {"manifest", "files"} : dirs' = [dirs EXCEPT ![got[c].tag][piece] = FALSE]
          BY <3>3, <4>2 DEF BeginReplace
        <5>2. got[c].tag \in Tags /\ dirs[got[c].tag] \in Dir
          BY <3>3, <4>2, FetchedTypes DEF BeginReplace
        <5> QED BY <3>2, <5>1, <5>2
      <4> QED BY <4>1, <4>2
    <3>4. CASE EndReplace(c)  BY <3>4, FetchedTypes DEF EndReplace
    <3>5. CASE RenameStaging(c)  BY <3>5, FetchedTypes DEF RenameStaging
    <3>6. CASE PruneOne(c)
      <4>1. PICK t \in doomed[c] :
               \/ \E piece \in {"manifest", "files"} : dirs' = [dirs EXCEPT ![t][piece] = FALSE]
               \/ dirs' = [dirs EXCEPT ![t] = None]
               \/ dirs' = dirs
        BY <3>6 DEF PruneOne
      <4>2. t \in Tags /\ dirs[t] \in Dir  BY <3>6 DEF PruneOne, PruneSpares
      <4> QED BY <3>2, <4>1, <4>2
    <3> QED BY <1>4, <3>3, <3>4, <3>5, <3>6
  <2> QED BY <1>1, <2>1, <2>2
<1> QED BY <1>3, <1>4 DEF Proceed

LEMMA CopiesKeepAgreeing ==
  ASSUME MirrorTypeOK, CopiesAgree, NoNewCopy
  PROVE  CopiesAgree'
BY DEF CopiesAgree, NoNewCopy

\* A new CI run has a number of its own.
LEMMA PublishingKeepsCopiesAgreeing ==
  ASSUME MirrorTypeOK, CopiesAgree, PublishRelease
  PROVE  CopiesAgree'
<1>1. PICK t \in Tags, m \in BOOLEAN :
        /\ github' = [tag |-> t, build |-> github.build + 1, mac |-> m]
        /\ runs' = [runs EXCEPT ![t] = @ + 1]
  BY DEF PublishRelease
<1>2. github.build \in Nat /\ runs \in [Tags -> Nat]
  BY KnownCopies, Bounds DEF MirrorTypeOK, Builds
<1>3. \A u \in Tags, b \in Builds :
        Copy(u, b)' => Copy(u, b) \/ (u = t /\ b = github.build + 1)
  BY <1>1 DEF PublishRelease, disk, Copy
<1>4. \A u \in Tags, b \in Builds : Copy(u, b) => b # github.build + 1
  BY <1>2 DEF CopiesAgree, Builds
<1>5. \A u \in Tags : runs'[u] >= runs[u] /\ (u = t => runs'[u] = runs[u] + 1) /\ (u # t => runs'[u] = runs[u])
  BY <1>1, <1>2
<1>6. github'.build = github.build + 1  BY <1>1
<1>7. \A u \in Tags : runs'[u] <= github'.build
  BY <1>2, <1>5, <1>6 DEF CopiesAgree
<1>8. \A u \in Tags, b \in Builds : Copy(u, b)' => runs'[u] >= 1 /\ b <= github'.build
  BY <1>2, <1>3, <1>5, <1>6 DEF CopiesAgree, Builds
<1>9. \A u, v \in Tags, b \in Builds : Copy(u, b)' /\ Copy(v, b)' => u = v
  BY <1>3, <1>4 DEF CopiesAgree
<1>10. \A u \in Tags, a, b \in Builds : Copy(u, a)' /\ Copy(u, b)' /\ runs'[u] = 1 => a = b
  <2> SUFFICES ASSUME NEW u \in Tags, NEW a \in Builds, NEW b \in Builds,
                      Copy(u, a)', Copy(u, b)', runs'[u] = 1
               PROVE  a = b
    OBVIOUS
  <2>1. CASE u # t
    BY <1>3, <1>5, <2>1 DEF CopiesAgree
  <2>2. CASE u = t
    <3>1. runs[u] = 0  BY <1>2, <1>5, <2>2
    <3>2. ~Copy(u, a) /\ ~Copy(u, b)  BY <3>1 DEF CopiesAgree
    <3> QED BY <1>3, <3>2
  <2> QED BY <2>1, <2>2
<1> QED BY <1>7, <1>8, <1>9, <1>10 DEF CopiesAgree

-----------------------------------------------------------------------------
(* The rest of the invariant, by kind of step *)

DiskInv == OfferIsBest /\ InPlace /\ PruneSpares /\ AppLeftBehind

\* A check that goes on is for another tag than the one on offer, if that was
\* published once: this is what the comparison is for.
LEMMA NotTheOffer ==
  ASSUME MirrorInv, NEW c \in Checkers, check[c] \in Mirroring, OnceOffered
  PROVE  got[c].tag # current
<1>1. got[c] # None /\ current \in Tags /\ dirs[current] # None
  BY FetchedTypes DEF MirrorInv, MirrorTypeOK, OfferIsBest, OnceOffered, Whole, Loads, Mirroring
<1>2. Copy(got[c].tag, got[c].build) /\ Copy(current, best)
      /\ got[c].build \in Builds /\ best \in Builds
  BY <1>1, KnownCopies DEF MirrorInv, OfferIsBest
<1>3. best < got[c].build
  BY DEF MirrorInv, OfferIsBest
<1>4. best # got[c].build  BY <1>2, <1>3 DEF Builds
<1> QED BY <1>1, <1>2, <1>4 DEF MirrorInv, CopiesAgree, OnceOffered

\* Steps that leave the disk as it is, apart from staging directories.
LEMMA QuietSteps ==
  ASSUME MirrorInv, NEW c \in Checkers,
         \/ Start(c) \/ Fetch(c) \/ FetchFails(c) \/ Compare(c) \/ Stage(c) \/ StageFails(c)
         \/ Download(c) \/ MirrorFails(c) \/ Cleanup(c) \/ PruneDone(c)
  PROVE  DiskInv'
<1> USE DEF MirrorInv
<1>1. UNCHANGED <<dirs, current, best, github, runs, app, doomed>>
  BY DEF Start, Fetch, FetchFails, Compare, Stage, StageFails, Download, MirrorFails, Cleanup,
         PruneDone, disk
<1>2. \A d \in Checkers \ {c} : check'[d] = check[d] /\ got'[d] = got[d]
  BY DEF MirrorTypeOK, Start, Fetch, FetchFails, Compare, Stage, StageFails, Download, MirrorFails,
         Cleanup, PruneDone, Return, Go
<1>3. got'[c] \in {got[c], None, github}
  BY DEF MirrorTypeOK, Start, Fetch, FetchFails, Compare, Stage, StageFails, Download, MirrorFails,
         Cleanup, PruneDone, Return
<1>4. check'[c] \notin {"point", "prune", "pruning"}
  BY DEF MirrorTypeOK, Start, Fetch, FetchFails, Compare, Stage, StageFails, Download, MirrorFails,
         Cleanup, PruneDone, Return, Go
<1>5. check'[c] \in Mirroring =>
        got'[c] = got[c] /\ (check[c] \in Mirroring \/ (check[c] = "compare" /\ ~(Offered >= got[c].build)))
  BY DEF MirrorTypeOK, Start, Fetch, FetchFails, Compare, Stage, StageFails, Download, MirrorFails,
         Cleanup, PruneDone, Return, Go, Mirroring
<1>6. Offered' = Offered /\ (OnceOffered' <=> OnceOffered)
  BY <1>1 DEF Offered, Loads, OnceOffered
<1>7. best \in Nat /\ github.build \in Nat
      /\ \A d \in Checkers : got[d] # None => got[d].build \in Nat
  BY KnownCopies, Bounds DEF MirrorTypeOK, Builds
<1>8. OfferIsBest'
  <2>1. ASSUME NEW d \in Checkers, got'[d] # None PROVE best <= got'[d].build
    BY <1>2, <1>3, <2>1 DEF OfferIsBest
  <2>2. ASSUME NEW d \in Checkers, check'[d] \in Mirroring, OnceOffered PROVE best < got'[d].build
    <3>1. CASE d # c  BY <1>2, <2>2, <3>1 DEF OfferIsBest
    <3>2. CASE check[c] \in Mirroring /\ d = c  BY <1>5, <2>2, <3>2 DEF OfferIsBest
    <3>3. CASE check[c] = "compare" /\ ~(Offered >= got[c].build) /\ d = c
      <4>1. Offered = best
        BY <2>2 DEF OfferIsBest, Offered, Whole, OnceOffered
      <4>2. got[c] # None  BY <3>3 DEF MirrorTypeOK
      <4>3. got'[c] = got[c]  BY <1>5, <2>2, <3>3
      <4> QED BY <1>7, <3>3, <4>1, <4>2, <4>3
    <3> QED BY <1>5, <2>2, <3>1, <3>2, <3>3
  <2> QED BY <1>1, <1>6, <2>1, <2>2 DEF OfferIsBest, Whole, Loads
<1>9. InPlace'
  BY <1>1, <1>2, <1>4 DEF InPlace, Whole, Loads
<1>10. PruneSpares'
  BY <1>1, <1>2, <1>4 DEF PruneSpares, BuildOf, Loads
<1>11. AppLeftBehind'
  BY <1>1, <1>2, <1>3 DEF AppLeftBehind
<1> QED BY <1>8, <1>9, <1>10, <1>11 DEF DiskInv

\* Taking the directory of the fetched tag apart and putting a new one there.
LEMMA ReplaceSteps ==
  ASSUME MirrorInv, NEW c \in Checkers, BeginReplace(c) \/ EndReplace(c) \/ RenameStaging(c)
  PROVE  DiskInv'
<1> USE DEF MirrorInv
<1> DEFINE g == got[c]
<1>1. /\ UNCHANGED <<current, github, runs, app, got, doomed>>
      /\ \A t \in Tags \ {g.tag} : dirs'[t] = dirs[t]
  BY DEF MirrorTypeOK, BeginReplace, EndReplace, RenameStaging
<1>2. /\ check[c] \in Mirroring /\ check[c] # "idle"
      /\ \A d \in Checkers \ {c} : check'[d] = "idle" /\ got[d] = None
      /\ check'[c] \in {"removing", "rename", "point"}
  BY OthersIdle DEF MirrorTypeOK, BeginReplace, EndReplace, RenameStaging, Go, Mirroring
<1>3. g # None /\ g.tag \in Tags /\ g.build \in Builds /\ Copy(g.tag, g.build)
  BY <1>2, FetchedTypes, KnownCopies DEF MirrorTypeOK, Mirroring
<1>4. OnceOffered => g.tag # current
  BY <1>2, NotTheOffer
<1>5. best' = best \/ (best' = g.build /\ g.tag = current)
  BY DEF BeginReplace, EndReplace, RenameStaging
<1>6. g.build <= github.build  BY <1>3 DEF CopiesAgree
<1>7. current # None => current \in Tags  BY DEF MirrorTypeOK
<1>8. OfferIsBest'
  <2>1. OnceOffered' <=> OnceOffered  BY <1>1 DEF OnceOffered
  <2>2. OnceOffered => best' = best /\ dirs'[current] = dirs[current]
    BY <1>1, <1>4, <1>5, <1>7 DEF OnceOffered
  <2>3. OnceOffered => Whole(current)' /\ dirs'[current].build = best'
    BY <1>1, <2>2 DEF OfferIsBest, Whole, Loads
  <2>4. best' <= github.build  BY <1>5, <1>6 DEF OfferIsBest
  <2>5. best' <= g.build /\ (OnceOffered => best' < g.build)
    BY <1>2, <1>3, <1>5, <2>2, Bounds DEF OfferIsBest, Builds
  <2> QED BY <1>1, <1>2, <2>1, <2>3, <2>4, <2>5, NoneIsNew DEF OfferIsBest, Mirroring
<1>9. InPlace'
  <2>1. check'[c] = "point" => RenameStaging(c)
    BY DEF MirrorTypeOK, BeginReplace, EndReplace, Go
  <2>2. RenameStaging(c) => /\ dirs'[g.tag] # None /\ dirs'[g.tag].manifest /\ dirs'[g.tag].files
                            /\ dirs'[g.tag].build = g.build
    <3>1. [build |-> g.build, mac |-> g.mac, manifest |-> TRUE, files |-> TRUE] \in Dir
      BY <1>2, FetchedTypes DEF Dir, Mirroring
    <3>2. RenameStaging(c) => dirs'[g.tag] = [build |-> g.build, mac |-> g.mac,
                                              manifest |-> TRUE, files |-> TRUE]
      BY <1>3 DEF MirrorTypeOK, RenameStaging
    <3> QED BY <3>1, <3>2, NoneIsNew
  <2> QED BY <1>1, <1>2, <2>1, <2>2 DEF InPlace, Whole, Loads
<1>10. PruneSpares'
  BY <1>2 DEF PruneSpares
<1>11. AppLeftBehind'
  BY <1>1 DEF AppLeftBehind
<1> QED BY <1>8, <1>9, <1>10, <1>11 DEF DiskInv

\* The new release is put on offer.
LEMMA PointStep ==
  ASSUME MirrorInv, NEW c \in Checkers, Point(c)
  PROVE  DiskInv'
<1> USE DEF MirrorInv
<1> DEFINE g == got[c]
<1>1. /\ UNCHANGED <<github, runs, dirs, got, doomed>> /\ current' = g.tag /\ best' = g.build
      /\ check[c] = "point"
  BY DEF Point
<1>2. /\ \A d \in Checkers \ {c} : check'[d] = "idle" /\ got[d] = None
      /\ check'[c] = "prune"
  BY OthersIdle DEF MirrorTypeOK, Point, Go
<1>3. g # None /\ g.tag \in Tags /\ g.build \in Builds /\ Copy(g.tag, g.build)
  BY <1>1, FetchedTypes, KnownCopies
<1>4. runs[g.tag] >= 1 /\ g.build <= github.build  BY <1>3 DEF CopiesAgree
<1>5. Whole(g.tag) /\ dirs[g.tag].build = g.build  BY <1>1 DEF InPlace
<1>6. OfferIsBest'
  <2>1. Whole(g.tag)'  BY <1>1, <1>5 DEF Whole, Loads
  <2>2. (current' # None => runs'[current'] >= 1) /\ best' <= github'.build
    BY <1>1, <1>4
  <2>3. OnceOffered' => Whole(current)' /\ dirs'[current'].build = best'
    BY <1>1, <1>5 DEF Whole, Loads
  <2>4. \A d \in Checkers : got'[d] # None => best' <= got'[d].build
    BY <1>1, <1>2, <1>3 DEF Builds
  <2>5. \A d \in Checkers : check'[d] \notin Mirroring
    BY <1>2 DEF Mirroring
  <2> QED BY <2>2, <2>3, <2>4, <2>5 DEF OfferIsBest
<1>7. InPlace'
  BY <1>1, <1>2 DEF InPlace
<1>8. PruneSpares'
  BY <1>2 DEF PruneSpares
<1>9. AppLeftBehind'
  <2> SUFFICES ASSUME app # NoOffer, runs[app.tag] = 1, app.tag # g.tag
               PROVE  github.tag # app.tag
    <3>1. app' = app \/ app' = [app EXCEPT !.since = @ + 1]  BY DEF Point
    <3>2. app' # NoOffer => app # NoOffer
      BY <3>1, AppTypes DEF Point
    <3>3. app # NoOffer => app'.tag = app.tag
      BY <3>1, AppTypes DEF MirrorTypeOK, AppState
    <3> QED BY <1>1, <1>2, <3>2, <3>3 DEF AppLeftBehind
  <2>1. CASE app.tag # current
    BY <2>1 DEF AppLeftBehind
  <2>2. CASE app.tag = current
    <3>1. app.tag \in Tags  BY AppTypes
    <3>2. OnceOffered  BY <2>2, <3>1, NoneIsNew DEF OnceOffered
    <3>3. best < g.build /\ dirs[current] # None /\ dirs[current].build = best
      BY <1>1, <3>2 DEF OfferIsBest, Mirroring, Whole, Loads
    <3>4. Copy(current, best) /\ best \in Builds  BY <2>2, <3>1, <3>3, KnownCopies
    <3>5. github.build # best  BY <1>3, <1>4, <3>3, <3>4, KnownCopies DEF Builds
    <3> QED BY <2>2, <3>1, <3>2, <3>4, <3>5, KnownCopies DEF CopiesAgree, OnceOffered
  <2> QED BY <2>1, <2>2
<1> QED BY <1>6, <1>7, <1>8, <1>9 DEF DiskInv

\* Choosing what to remove, and removing it.
LEMMA PruneSteps ==
  ASSUME MirrorInv, NEW c \in Checkers, ChoosePrune(c) \/ PruneOne(c)
  PROVE  DiskInv'
<1> USE DEF MirrorInv
<1>1. /\ UNCHANGED <<github, runs, current, best, app, got>> /\ check[c] \in {"prune", "pruning"}
      /\ check[c] # "idle"
      /\ check'[c] = "pruning"
  BY DEF MirrorTypeOK, ChoosePrune, PruneOne, Go, disk
<1>2. \A d \in Checkers \ {c} : check'[d] = "idle" /\ got[d] = None
  BY OthersIdle, <1>1 DEF MirrorTypeOK, ChoosePrune, PruneOne, Go
<1>3. current = got[c].tag /\ current \in Tags
  BY <1>1, FetchedTypes DEF InPlace
<1>4. dirs'[current] = dirs[current]
  BY <1>1, <1>3 DEF MirrorTypeOK, ChoosePrune, PruneOne, PruneSpares, disk
<1>5. OfferIsBest'
  BY <1>1, <1>2, <1>4 DEF OfferIsBest, OnceOffered, Whole, Loads, Mirroring
<1>6. InPlace'
  BY <1>1, <1>2, <1>3 DEF InPlace
<1>7. AppLeftBehind'
  BY <1>1 DEF AppLeftBehind
<1>8. PruneSpares'
  <2>1. CASE ChoosePrune(c)
    <3>1. dirs' = dirs  BY <2>1 DEF ChoosePrune, disk
    <3>2. /\ current \notin doomed'[c]
          /\ \A t \in doomed'[c] : /\ dirs[t] # None
                                   /\ \E u \in Tags \ doomed'[c] :
                                        u # current /\ dirs[u] # None /\ BuildOf(u) >= BuildOf(t)
      BY <1>3, <2>1 DEF MirrorTypeOK, ChoosePrune
    <3> QED BY <1>1, <1>2, <3>1, <3>2 DEF PruneSpares, BuildOf, Loads
  <2>2. CASE PruneOne(c)
    <3>1. PICK t \in doomed[c] :
             \/ /\ dirs[t].manifest /\ dirs[t].files
                /\ \E piece \in {"manifest", "files"} : dirs' = [dirs EXCEPT ![t][piece] = FALSE]
                /\ UNCHANGED doomed
             \/ dirs' = [dirs EXCEPT ![t] = None] /\ doomed' = [doomed EXCEPT ![c] = @ \ {t}]
             \/ doomed' = [doomed EXCEPT ![c] = @ \ {t}] /\ UNCHANGED dirs
      BY <2>2 DEF PruneOne
    <3>2. t \in Tags /\ dirs[t] \in Dir /\ check[c] = "pruning"
      BY <2>2 DEF MirrorTypeOK, PruneOne, PruneSpares
    <3>3. \A u \in Tags \ {t} : dirs'[u] = dirs[u] /\ BuildOf(u)' = BuildOf(u)
      BY <3>1, <3>2 DEF MirrorTypeOK, BuildOf, Loads
    <3>4. doomed'[c] \subseteq doomed[c]
      BY <3>1 DEF MirrorTypeOK
    <3>5. t \in doomed'[c] => dirs'[t] # None /\ (BuildOf(t)' = BuildOf(t) \/ BuildOf(t)' = -1)
      <4> SUFFICES ASSUME t \in doomed'[c] PROVE dirs'[t] # None /\ (BuildOf(t)' = BuildOf(t) \/ BuildOf(t)' = -1)
        OBVIOUS
      <4>1. PICK piece \in {"manifest", "files"} : dirs' = [dirs EXCEPT ![t][piece] = FALSE]
        BY <3>1 DEF MirrorTypeOK
      <4>2. dirs'[t] = [dirs[t] EXCEPT ![piece] = FALSE]  BY <3>2, <4>1 DEF MirrorTypeOK
      <4>3. dirs'[t] \in Dir /\ dirs'[t].build = dirs[t].build  BY <3>2, <4>2, BrokenDir
      <4>4. Loads(t) \/ ~Loads(t)'
        BY <3>1, <3>2, NoneIsNew DEF Loads, MirrorTypeOK
      <4> QED BY <4>3, <4>4, NoneIsNew DEF BuildOf
    <3>6. ASSUME NEW v \in doomed'[c]
          PROVE  /\ dirs'[v] # None
                 /\ \E u \in Tags \ doomed'[c] : u # current /\ dirs'[u] # None /\ BuildOf(u)' >= BuildOf(v)'
      <4>1. v \in Tags /\ v \in doomed[c]  BY <3>4 DEF MirrorTypeOK
      <4>2. PICK u \in Tags \ doomed[c] : u # current /\ dirs[u] # None /\ BuildOf(u) >= BuildOf(v)
        BY <3>2, <4>1 DEF PruneSpares
      <4>3. u # t /\ dirs'[u] # None /\ BuildOf(u)' = BuildOf(u)  BY <3>3, <4>2
      <4>4. BuildOf(u) >= -1
        BY <4>2, KnownCopies DEF BuildOf, Loads, Builds
      <4>5. BuildOf(v)' = BuildOf(v) \/ BuildOf(v)' = -1  BY <3>3, <3>5, <4>1
      <4>6. dirs'[v] # None  BY <3>2, <3>3, <3>5, <4>1 DEF PruneSpares
      <4> QED BY <3>4, <4>2, <4>3, <4>4, <4>5, <4>6
    <3>7. current \notin doomed'[c]  BY <3>2, <3>4 DEF PruneSpares
    <3> QED BY <1>1, <1>2, <3>6, <3>7 DEF PruneSpares
  <2> QED BY <2>1, <2>2
<1> QED BY <1>5, <1>6, <1>7, <1>8 DEF DiskInv

\* CI, the app, a crash.
LEMMA OtherSteps ==
  ASSUME MirrorInv,
         \/ PublishRelease \/ AddMacInstaller \/ AppAsks \/ AppIsTold \/ AppEnds \/ MirrorCrash
         \/ UNCHANGED mirrorVars
  PROVE  DiskInv'
<1> USE DEF MirrorInv
<1>1. UNCHANGED <<dirs, current, best>>
  BY DEF PublishRelease, AddMacInstaller, AppAsks, AppIsTold, AppEnds, MirrorCrash, mirrorVars, disk
<1>2. CASE PublishRelease
  <2>1. PICK t \in Tags, m \in BOOLEAN :
          /\ github' = [tag |-> t, build |-> github.build + 1, mac |-> m]
          /\ runs' = [runs EXCEPT ![t] = @ + 1]
    BY <1>2 DEF PublishRelease
  <2>2. github.build \in Nat /\ runs \in [Tags -> Nat] /\ best \in Nat
    BY KnownCopies, Bounds DEF MirrorTypeOK, Builds
  <2>3. \A u \in Tags : /\ runs'[u] >= runs[u] /\ (u = t => runs'[u] = runs[u] + 1)
                        /\ (u # t => runs'[u] = runs[u])
    BY <2>1, <2>2
  <2>4. UNCHANGED <<check, got, doomed, app>>  BY <1>2 DEF PublishRelease
  <2>5. current \in Tags \cup {None}  BY DEF MirrorTypeOK
  <2>6. OfferIsBest'
    <3>1. (current # None => runs'[current] >= 1) /\ (OnceOffered' => OnceOffered)
      BY <1>1, <2>2, <2>3, <2>5 DEF OfferIsBest, OnceOffered
    <3>2. best <= github'.build  BY <2>1, <2>2 DEF OfferIsBest
    <3> QED BY <1>1, <2>4, <3>1, <3>2 DEF OfferIsBest, Whole, Loads
  <2>7. InPlace' /\ PruneSpares'
    BY <1>1, <2>4 DEF InPlace, PruneSpares, Whole, Loads, BuildOf
  <2>8. AppLeftBehind'
    <3> SUFFICES ASSUME app # NoOffer PROVE AppLeftBehind'
      BY <2>4 DEF AppLeftBehind
    <3>1. app.tag \in Tags /\ runs[app.tag] >= 1  BY AppTypes DEF AppLeftBehind
    <3>2. runs'[app.tag] >= 1 /\ (runs'[app.tag] = 1 => runs[app.tag] = 1 /\ app.tag # t)
      BY <2>2, <2>3, <3>1
    <3>3. github'.tag = t  BY <2>1
    <3> QED BY <1>1, <2>4, <3>2, <3>3 DEF AppLeftBehind
  <2> QED BY <2>6, <2>7, <2>8 DEF DiskInv
<1>3. CASE AddMacInstaller
  <2>1. github'.tag = github.tag /\ github'.build = github.build /\ UNCHANGED <<runs, check, got, doomed, app>>
    BY <1>3 DEF MirrorTypeOK, AddMacInstaller, Releases
  <2> QED BY <1>1, <2>1 DEF DiskInv, OfferIsBest, OnceOffered, InPlace, PruneSpares, AppLeftBehind,
                            Whole, Loads, BuildOf
<1>4. CASE AppAsks \/ AppIsTold \/ AppEnds \/ UNCHANGED mirrorVars
  <2>1. UNCHANGED <<github, runs, check, got, doomed>>
    BY <1>4 DEF AppAsks, AppIsTold, AppEnds, mirrorVars
  <2>2. OfferIsBest' /\ InPlace' /\ PruneSpares'
    BY <1>1, <2>1 DEF OfferIsBest, OnceOffered, InPlace, PruneSpares, Whole, Loads, BuildOf
  <2>3. app' # NoOffer => \/ app # NoOffer /\ app'.tag = app.tag
                          \/ current # None /\ app'.tag = current
    BY <1>4 DEF AppAsks, AppIsTold, AppEnds, mirrorVars, NoOffer
  <2>4. AppLeftBehind'
    BY <1>1, <2>1, <2>3 DEF AppLeftBehind, OfferIsBest
  <2> QED BY <2>2, <2>4 DEF DiskInv
<1>5. CASE MirrorCrash
  <2>1. /\ UNCHANGED <<github, runs, app>>
        /\ \A c \in Checkers : check'[c] = "idle" /\ got'[c] = None
    BY <1>5 DEF MirrorCrash
  <2> QED BY <1>1, <2>1 DEF DiskInv, OfferIsBest, OnceOffered, InPlace, PruneSpares, AppLeftBehind,
                            Whole, Loads, BuildOf, Mirroring
<1> QED BY <1>2, <1>3, <1>4, <1>5

-----------------------------------------------------------------------------
(* The invariant *)

LEMMA MirrorStarts ==
  MirrorInit => MirrorInv
<1> SUFFICES ASSUME MirrorInit PROVE MirrorInv
  OBVIOUS
<1> USE DEF MirrorInit
<1>1. github \in Releases /\ github.build = 1 /\ runs[github.tag] = 1 /\ github.tag \in Tags
  BY Bounds DEF Releases, Builds
<1>2. MirrorTypeOK
  <2>1. runs \in [Tags -> 0..MaxBuild] /\ best \in 0..MaxBuild  BY <1>1, Bounds
  <2> QED BY <1>1, <2>1 DEF MirrorTypeOK, CheckPc, AppState
<1>3. OneAtATime  BY DEF OneAtATime
<1>4. CopiesAgree
  <2>1. \A t \in Tags, b \in Builds : Copy(t, b) => t = github.tag /\ b = github.build
    BY DEF Copy
  <2> QED BY <1>1, <2>1 DEF CopiesAgree
<1>5. OfferIsBest /\ InPlace /\ PruneSpares /\ AppLeftBehind
  BY <1>1, NoneIsNew DEF OfferIsBest, OnceOffered, InPlace, PruneSpares, AppLeftBehind, NoOffer, Mirroring
<1> QED BY <1>2, <1>3, <1>4, <1>5 DEF MirrorInv

\* What CI, the app and a crash do is no new copy either, but for a new run.
LEMMA OthersMakeNoCopies ==
  ASSUME MirrorTypeOK,
         \/ AddMacInstaller \/ AppAsks \/ AppIsTold \/ AppEnds \/ MirrorCrash
         \/ UNCHANGED mirrorVars
  PROVE  NoNewCopy
<1>1. dirs' = dirs /\ runs' = runs
  BY DEF AddMacInstaller, AppAsks, AppIsTold, AppEnds, MirrorCrash, mirrorVars, disk
<1>2. \A c \in Checkers : got'[c] \in {got[c], None}
  BY DEF AddMacInstaller, AppAsks, AppIsTold, AppEnds, MirrorCrash, mirrorVars
<1>3. github'.tag = github.tag /\ github'.build = github.build
  BY DEF MirrorTypeOK, Releases, AddMacInstaller, AppAsks, AppIsTold, AppEnds, MirrorCrash, mirrorVars
<1> QED BY <1>1, <1>2, <1>3 DEF NoNewCopy, Copy

LEMMA MirrorSteps ==
  ASSUME MirrorInv, [MirrorNext]_mirrorVars
  PROVE  MirrorInv'
<1> USE DEF MirrorInv
<1>1. OneAtATime'  BY MutexHolds
<1>2. ASSUME NEW c \in Checkers,
             \/ Start(c) \/ Fetch(c) \/ FetchFails(c) \/ Proceed(c)
             \/ StageFails(c) \/ Download(c) \/ MirrorFails(c)
      PROVE  MirrorInv'
  <2>1. MirrorTypeOK'  BY <1>2, CheckTypes, DiskTypes, OtherTypes DEF Proceed
  <2>2. CopiesAgree'  BY <1>2, ChecksMakeNoCopies, CopiesKeepAgreeing
  <2>3. DiskInv'  BY <1>2, QuietSteps, ReplaceSteps, PointStep, PruneSteps DEF Proceed
  <2> QED BY <1>1, <2>1, <2>2, <2>3 DEF DiskInv
<1>3. CASE \/ AddMacInstaller \/ AppAsks \/ AppIsTold \/ AppEnds \/ MirrorCrash
           \/ UNCHANGED mirrorVars
  <2>1. MirrorTypeOK'
    <3>1. CASE UNCHANGED mirrorVars  BY <3>1 DEF MirrorTypeOK, mirrorVars
    <3> QED BY <1>3, <3>1, OtherTypes
  <2>2. CopiesAgree'  BY <1>3, OthersMakeNoCopies, CopiesKeepAgreeing
  <2>3. DiskInv'  BY <1>3, OtherSteps
  <2> QED BY <1>1, <2>1, <2>2, <2>3 DEF DiskInv
<1>4. CASE PublishRelease
  <2>1. MirrorTypeOK' /\ CopiesAgree' /\ DiskInv'
    BY <1>4, OtherTypes, PublishingKeepsCopiesAgreeing, OtherSteps
  <2> QED BY <1>1, <2>1 DEF DiskInv
<1> QED BY <1>2, <1>3, <1>4 DEF MirrorNext

LEMMA MirrorInvariant == MirrorSpec => []MirrorInv
<1>1. MirrorInit => MirrorInv  BY MirrorStarts
<1>2. MirrorInv /\ [MirrorNext]_mirrorVars => MirrorInv'  BY MirrorSteps
<1> QED BY <1>1, <1>2, PTL DEF MirrorSpec

\* Type correctness of the mirror (updates.rs, Service and its data volume).
THEOREM MirrorTypeCorrect == MirrorSpec => []MirrorTypeOK
<1>1. MirrorInv => MirrorTypeOK  BY DEF MirrorInv
<1> QED BY <1>1, MirrorInvariant, PTL

\* Whatever check, prune, failure or crash comes in between, the release
\* that `current` names is on disk and complete, unless CI published its
\* tag twice (updates.rs, check and prune).
THEOREM OfferAlwaysStays == MirrorSpec => []OfferStays
<1>1. MirrorInv => OfferStays  BY DEF MirrorInv, OfferIsBest, OnceOffered, OfferStays
<1> QED BY <1>1, MirrorInvariant, PTL

-----------------------------------------------------------------------------
(* What apps can rely on *)

\* No app loses the release it was told of while at most one later release
\* has taken its place, unless prune() keeps a newer one (updates.rs, prune).
THEOREM PreviousOfferStaysForApps == MirrorSpec => PreviousOfferKept
<1> DEFINE Step == \A t \in Tags, b \in Builds :
       (ToldOf(t, b) /\ runs[t] = 1 /\ Downloadable(t, b) /\ ~Downloadable(t, b)')
       => \E u \in Tags \ {current} : Loads(u) /\ dirs[u].build > b
<1>1. ASSUME MirrorInv, MirrorNext PROVE Step
  <2> USE <1>1 DEF MirrorInv
  <2> SUFFICES ASSUME NEW t \in Tags, NEW b \in Builds, ToldOf(t, b), runs[t] = 1,
                      Downloadable(t, b), ~Downloadable(t, b)'
               PROVE  \E u \in Tags \ {current} : Loads(u) /\ dirs[u].build > b
    OBVIOUS
  <2>1. dirs'[t] # dirs[t]
    BY DEF Downloadable, Whole, Loads
  <2>2. app # NoOffer /\ app.tag = t
    BY DEF ToldOf, NoOffer
  <2>3. \A c \in Checkers : ~(BeginReplace(c) \/ EndReplace(c) \/ RenameStaging(c))
    <3> SUFFICES ASSUME NEW c \in Checkers, BeginReplace(c) \/ EndReplace(c) \/ RenameStaging(c)
                 PROVE  FALSE
      OBVIOUS
    <3>1. check[c] \in Mirroring /\ got[c] # None
      BY DEF MirrorTypeOK, BeginReplace, EndReplace, RenameStaging, Mirroring
    <3>2. got[c].tag = t
      BY <2>1 DEF MirrorTypeOK, BeginReplace, EndReplace, RenameStaging
    <3>3. CASE t = current
      BY <3>1, <3>2, <3>3, NotTheOffer, NoneIsNew DEF OnceOffered
    <3>4. CASE t # current
      BY <2>2, <3>1, <3>2, <3>4 DEF AppLeftBehind
    <3> QED BY <3>3, <3>4
  <2>4. PICK c \in Checkers : PruneOne(c)
    <3>1. (\E c \in Checkers : PruneOne(c)) \/ dirs' = dirs
      BY <2>3 DEF MirrorNext, PublishRelease, AddMacInstaller, Start, Fetch, FetchFails, Proceed, StageFails,
                  Download, MirrorFails, AppAsks, AppIsTold, AppEnds, MirrorCrash, Compare, Stage,
                  Cleanup, Point, ChoosePrune, PruneDone, disk
    <3> QED BY <2>1, <3>1
  <2>5. t \in doomed[c]
    BY <2>1, <2>4 DEF MirrorTypeOK, PruneOne
  <2>6. PICK u \in Tags \ doomed[c] : u # current /\ dirs[u] # None /\ BuildOf(u) >= BuildOf(t)
    BY <2>4, <2>5 DEF PruneOne, PruneSpares
  <2>7. BuildOf(t) = b /\ Copy(t, b) /\ b \in Int /\ b >= 1
    BY KnownCopies DEF Downloadable, Whole, Loads, BuildOf, Builds
  <2>8. Loads(u)
    BY <2>6, <2>7 DEF BuildOf
  <2>9. BuildOf(u) = dirs[u].build /\ Copy(u, dirs[u].build) /\ dirs[u].build \in Builds
    BY <2>6, <2>8, KnownCopies DEF BuildOf
  <2>10. dirs[u].build # b
    BY <2>5, <2>6, <2>7, <2>9 DEF CopiesAgree
  <2> QED BY <2>6, <2>7, <2>8, <2>9, <2>10 DEF Builds
<1>2. ASSUME MirrorInv, [MirrorNext]_mirrorVars PROVE [Step]_mirrorVars
  BY <1>1, <1>2
<1> QED BY <1>2, MirrorInvariant, PTL DEF MirrorSpec, PreviousOfferKept

-----------------------------------------------------------------------------
(* Refinement *)

\* What an app sees of a step that leaves the offer alone.
LEMMA OfferSame ==
  ASSUME UNCHANGED <<current, best>>, github'.build = github.build,
         current # None => dirs'[current] = dirs[current]
  PROVE  UNCHANGED Promise!vars
BY DEF Promise!vars, Offered, Loads

\* Every step of the mirror is one that UpdateOffer allows, or none that an
\* app can tell: an offer that was published and no older than any before,
\* an offer withdrawn, or a new release nobody offers yet.
THEOREM MirrorImplementsOffer == MirrorSpec => ImplementsOffer
<1>1. MirrorInit => Promise!Init
  <2> SUFFICES ASSUME MirrorInit PROVE Promise!Init
    OBVIOUS
  <2> QED BY DEF MirrorInit, Promise!Init, Offered
<1>2. ASSUME MirrorInv, [MirrorNext]_mirrorVars
      PROVE  [Promise!Next]_Promise!vars
  <2> USE <1>2 DEF MirrorInv
  <2>1. CASE PublishRelease
    <3>1. PICK t \in Tags, m \in BOOLEAN :
            github' = [tag |-> t, build |-> github.build + 1, mac |-> m]
      BY <2>1 DEF PublishRelease
    <3>2. github.build \in Nat /\ github'.build = github.build + 1
      BY <3>1, KnownCopies DEF Builds
    <3>3. 1..github.build \subseteq 1..github'.build  BY <3>2
    <3>4. Offered' = Offered /\ best' = best
      BY <2>1 DEF PublishRelease, disk, Offered, Loads
    <3> QED BY <3>3, <3>4 DEF Promise!Next, Promise!Publish
  <2>2. CASE \/ AddMacInstaller \/ AppAsks \/ AppIsTold \/ AppEnds \/ MirrorCrash
             \/ UNCHANGED mirrorVars
    <3>1. UNCHANGED <<dirs, current, best>>
      BY <2>2 DEF AddMacInstaller, AppAsks, AppIsTold, AppEnds, MirrorCrash, mirrorVars, disk
    <3>2. github'.build = github.build  BY <2>2, OthersMakeNoCopies DEF NoNewCopy
    <3> QED BY <3>1, <3>2, OfferSame
  <2>3. ASSUME NEW c \in Checkers,
               \/ Start(c) \/ Fetch(c) \/ FetchFails(c) \/ Compare(c) \/ Stage(c) \/ StageFails(c)
               \/ Download(c) \/ MirrorFails(c) \/ Cleanup(c) \/ ChoosePrune(c) \/ PruneDone(c)
        PROVE  UNCHANGED Promise!vars
    <3>1. UNCHANGED <<dirs, current, best, github>>
      BY <2>3 DEF Start, Fetch, FetchFails, Compare, Stage, StageFails, Download, MirrorFails,
                  Cleanup, ChoosePrune, PruneDone, disk
    <3> QED BY <3>1, OfferSame
  <2>4. ASSUME NEW c \in Checkers, PruneOne(c) PROVE UNCHANGED Promise!vars
    <3>1. UNCHANGED <<current, best, github>>  BY <2>4 DEF PruneOne
    <3>2. current # None => dirs'[current] = dirs[current]
      BY <2>4 DEF MirrorTypeOK, PruneOne, PruneSpares
    <3> QED BY <3>1, <3>2, OfferSame
  <2>5. ASSUME NEW c \in Checkers, BeginReplace(c) \/ EndReplace(c)
        PROVE  UNCHANGED Promise!vars \/ Promise!Withdraw
    <3>1. UNCHANGED <<current, best, github>>  BY <2>5 DEF BeginReplace, EndReplace
    <3>2. got[c].tag \in Tags /\ (dirs[got[c].tag] # None => dirs[got[c].tag] \in Dir)
      BY <2>5, FetchedTypes DEF BeginReplace, EndReplace
    <3>3. Offered' = Offered \/ Offered' = 0
      <4>1. CASE current # None => dirs'[current] = dirs[current]
        BY <3>1, <4>1 DEF Offered, Loads
      <4>2. CASE EndReplace(c) /\ current = got[c].tag
        BY <3>1, <3>2, <4>2 DEF MirrorTypeOK, EndReplace, Offered, Loads
      <4>3. CASE BeginReplace(c) /\ current = got[c].tag /\ dirs[current] # None
        <5>1. PICK piece \in {"manifest", "files"} : dirs' = [dirs EXCEPT ![current][piece] = FALSE]
          BY <4>3 DEF BeginReplace
        <5>2. dirs' = [dirs EXCEPT ![current] = [dirs[current] EXCEPT ![piece] = FALSE]]
          BY <3>2, <4>3, <5>1
        <5>3. dirs'[current] \in Dir /\ dirs'[current].build = dirs[current].build
          BY <3>2, <4>3, <5>2, BrokenDir DEF MirrorTypeOK
        <5>4. dirs'[current].manifest => dirs[current].manifest
          BY <3>2, <4>3, <5>2 DEF MirrorTypeOK, Dir
        <5> QED BY <3>1, <4>3, <5>3, <5>4 DEF Offered, Loads
      <4> QED BY <2>5, <4>1, <4>2, <4>3 DEF MirrorTypeOK, BeginReplace, EndReplace
    <3> QED BY <3>1, <3>3 DEF Promise!Withdraw, Promise!vars
  <2>6. ASSUME NEW c \in Checkers, RenameStaging(c) \/ Point(c)
        PROVE  \/ UNCHANGED Promise!vars
               \/ \E b \in 1..github.build : Promise!Offer(b)
    <3>1. got[c] # None /\ got[c] \in Releases /\ got[c].tag \in Tags /\ got[c].build \in Builds
      BY <2>6, FetchedTypes DEF RenameStaging, Point
    <3>2. got[c].build \in 1..github.build /\ got[c].build >= best
      <4>1. Copy(got[c].tag, got[c].build)  BY <3>1, KnownCopies
      <4>2. got[c].build <= github.build /\ best <= got[c].build
        BY <3>1, <4>1 DEF CopiesAgree, OfferIsBest
      <4>3. github.build \in Nat /\ best \in Nat /\ got[c].build \in Nat /\ got[c].build >= 1
        BY <3>1, KnownCopies, Bounds DEF MirrorTypeOK, Builds
      <4> QED BY <4>2, <4>3
    <3>3. github' = github  BY <2>6 DEF RenameStaging, Point
    <3>4. CASE Point(c)
      <4>1. current' = got[c].tag /\ best' = got[c].build /\ dirs' = dirs /\ check[c] = "point"
        BY <3>4 DEF Point
      <4>2. Offered' = got[c].build
        BY <3>1, <4>1, NoneIsNew DEF InPlace, Whole, Loads, Offered
      <4> QED BY <3>2, <3>3, <4>1, <4>2 DEF Promise!Offer
    <3>5. CASE RenameStaging(c) /\ got[c].tag # current
      <4>1. UNCHANGED <<current, best>> /\ (current # None => dirs'[current] = dirs[current])
        BY <3>5 DEF MirrorTypeOK, RenameStaging
      <4> QED BY <3>3, <4>1, OfferSame
    <3>6. CASE RenameStaging(c) /\ got[c].tag = current
      <4>1. current' = current /\ best' = got[c].build
        BY <3>6 DEF RenameStaging
      <4>2. dirs'[current] = [build |-> got[c].build, mac |-> got[c].mac,
                              manifest |-> TRUE, files |-> TRUE]
        BY <3>1, <3>6 DEF MirrorTypeOK, RenameStaging
      <4>3. [build |-> got[c].build, mac |-> got[c].mac, manifest |-> TRUE, files |-> TRUE] \in Dir
        BY <3>1 DEF Dir, Releases
      <4>4. Offered' = got[c].build
        <5>1. dirs'[current] # None /\ dirs'[current].manifest /\ dirs'[current].build = got[c].build
          <6> DEFINE d == [build |-> got[c].build, mac |-> got[c].mac,
                           manifest |-> TRUE, files |-> TRUE]
          <6>1. d # None  BY <4>3, NoneIsNew
          <6>2. d.manifest /\ d.build = got[c].build  OBVIOUS
          <6> QED BY <4>2, <6>1, <6>2
        <5>2. current # None  BY <3>1, <3>6, NoneIsNew
        <5> QED BY <4>1, <5>1, <5>2 DEF Offered, Loads
      <4> QED BY <3>2, <3>3, <4>1, <4>4 DEF Promise!Offer
    <3> QED BY <2>6, <3>4, <3>5, <3>6
  <2> QED BY <2>1, <2>2, <2>3, <2>4, <2>5, <2>6 DEF MirrorNext, Proceed, Promise!Next
<1> QED BY <1>1, <1>2, MirrorInvariant, PTL DEF MirrorSpec, ImplementsOffer, Promise!Spec

--------------------------------------------------------------------------------
(* The server's own update (ServerUpdate), in which what is kept is that the    *)
(* claim, the task and `busy` speak of one update, and that its backup is made. *)
Backup == [of : Update!Versions, whole : BOOLEAN]
HasBackup == \E i \in DOMAIN backups : backups[i].whole /\ backups[i].of = running

Callers == Update!Callers
CallerStates == {"idle", "asks", "claimed", "on", "off"}
TaskStates == {"off", "start", "dump", "ask", "wait"}

\* BusyIsOneUpdate, caller by caller.
Holds(u) == caller[u] = "claimed" \/ task[u] # "off"
OneHolds ==
  /\ \A u, v \in Callers : Holds(u) /\ Holds(v) => u = v
  /\ \A u \in Callers : ~(caller[u] = "claimed" /\ task[u] # "off")
  /\ updating <=> cut \/ \E u \in Callers : Holds(u)
  /\ cut => \A u \in Callers : ~Holds(u)

\* The backup being written is the last one, and of the running version.
DumpIsLast ==
  \A u \in Callers : task[u] = "dump" =>
    Len(backups) > 0 /\ backups[Len(backups)] = [of |-> running, whole |-> FALSE]

\* A task comes to ask Watchtower with a backup.
AsksWithBackup == \A u \in Callers : task[u] \in {"ask", "wait"} => HasBackup

ServerInv ==
  Update!TypeOK /\ OneHolds /\ DumpIsLast /\ AsksWithBackup /\ BackedUpFirst

\* prune_backups keeps the last one.
LEMMA PrunedKeepsLast ==
  ASSUME Update!UpdateAssumption, NEW b \in Seq(Backup), Len(b) > 0
  PROVE  /\ Update!Pruned(b) \in Seq(Backup)
         /\ Len(Update!Pruned(b)) > 0
         /\ Update!Pruned(b)[Len(Update!Pruned(b))] = b[Len(b)]
<1> DEFINE m == IF Len(b) > Keep THEN Len(b) - Keep + 1 ELSE 1
<1>1. m \in 1..Len(b) BY DEF Update!UpdateAssumption
<1>2. Update!Pruned(b) = SubSeq(b, m, Len(b)) BY DEF Update!Pruned
<1> HIDE DEF m
<1>3. /\ SubSeq(b, m, Len(b)) \in Seq(Backup)
      /\ Len(SubSeq(b, m, Len(b))) = Len(b) - m + 1
      /\ \A i \in 1..(Len(b) - m + 1) : SubSeq(b, m, Len(b))[i] = b[m + i - 1]
  BY <1>1
<1> QED BY <1>1, <1>2, <1>3

\* An aborted backup goes, and no other.
LEMMA FrontKeepsOthers ==
  ASSUME NEW b \in Seq(Backup), Len(b) > 0
  PROVE  /\ Update!Front(b) \in Seq(Backup) /\ Len(Update!Front(b)) = Len(b) - 1
         /\ \A i \in 1..(Len(b) - 1) : Update!Front(b)[i] = b[i]
<1> DEFINE n == Len(b) - 1
<1>1. n \in Nat /\ \A i \in 1..n : b[i] \in Backup OBVIOUS
<1>2. Update!Front(b) = SubSeq(b, 1, n) BY DEF Update!Front
<1> HIDE DEF n
<1>3. n \in 0..Len(b) BY DEF n
<1>4. /\ SubSeq(b, 1, n) \in Seq(Backup) /\ Len(SubSeq(b, 1, n)) = n
      /\ \A i \in 1..n : SubSeq(b, 1, n)[i] = b[i]
  <2>1. CASE n = 0 BY <2>1
  <2>2. CASE n > 0 BY <1>1, <1>3, <2>2
  <2> QED BY <1>1, <2>1, <2>2
<1> QED BY <1>2, <1>4 DEF n

LEMMA ServerInit == ASSUME Update!Init, Update!UpdateAssumption PROVE ServerInv
<1>1. Update!TypeOK
  <2>1. /\ caller \in [Update!Callers -> {"idle", "asks", "claimed", "on", "off"}]
        /\ task \in [Update!Callers -> {"off", "start", "dump", "ask", "wait"}]
    BY DEF Update!Init, Update!Everyone
  <2>2. 1 \in Update!Versions /\ 0 \in 0..MaxVersion /\ 0 \in 0..MaxClicks /\ 0 \in 0..MaxTroubles
    BY DEF Update!Versions, Update!UpdateAssumption
  <2>3. backups \in Seq([of : Update!Versions, whole : BOOLEAN]) BY DEF Update!Init
  <2> QED BY <2>1, <2>2, <2>3 DEF Update!Init, Update!TypeOK
<1>2. OneHolds BY DEF Update!Init, OneHolds, Holds, Callers, Update!Everyone
<1>3. DumpIsLast /\ AsksWithBackup /\ BackedUpFirst
  BY DEF Update!Init, DumpIsLast, AsksWithBackup, BackedUpFirst, Update!BackedUpFirst,
         Update!Everyone, Callers
<1> QED BY <1>1, <1>2, <1>3 DEF ServerInv

\* A caller, or its task, goes on.
LEMMA GoesIs ==
  ASSUME NEW S, NEW f \in [Callers -> S], NEW u \in Callers, NEW p \in S
  PROVE  /\ [f EXCEPT ![u] = p] \in [Callers -> S] /\ [f EXCEPT ![u] = p][u] = p
         /\ \A v \in Callers \ {u} : [f EXCEPT ![u] = p][v] = f[v]
OBVIOUS

LEMMA HoldsIsBusy == ASSUME OneHolds PROVE Update!BusyIsOneUpdate
<1>1. \A u : u \in Update!Holders <=> u \in Callers /\ Holds(u)
  BY DEF Update!Holders, Callers, Holds
<1>2. Update!Holders # {} <=> \E u \in Callers : Holds(u) BY <1>1
<1>3. \A u, v \in Update!Holders : u = v BY <1>1 DEF OneHolds
<1>4. \A u \in Update!Callers : ~(caller[u] = "claimed" /\ task[u] # "off")
  BY DEF OneHolds, Callers
<1>5. updating <=> Update!Holders # {} \/ cut BY <1>2, Zenon DEF OneHolds
<1> QED BY <1>3, <1>4, <1>5, Zenon DEF Update!BusyIsOneUpdate

\* Steps that leave tasks and backups alone, and where nobody claims.
LEMMA CallersKeep ==
  ASSUME ServerInv, Update!UpdateAssumption,
         \/ Update!Publish \/ Update!PublishImage \/ Update!SeeLatest \/ Update!AutoLooks
         \/ Update!RetryDue \/ Update!NothingToPull
         \/ \E r \in Consoles : Update!UpdateNow(r) \/ Update!SetAuto(r) \/ Update!HangUp(r)
                                \/ Update!StoreAuto(r)
  PROVE  ServerInv'
<1>0. /\ Update!TypeOK
      /\ AutoUpdate \in Callers /\ Consoles \subseteq Callers
      /\ caller \in [Callers -> CallerStates] /\ task \in [Callers -> TaskStates]
  BY DEF ServerInv, Update!TypeOK, Callers, Update!Callers, CallerStates, TaskStates
<1>1. UNCHANGED <<running, backups, task, updating>> /\ (pulling' => pulling)
  BY DEF Update!Publish, Update!PublishImage, Update!SeeLatest, Update!AutoLooks, Update!RetryDue,
         Update!UpdateNow, Update!SetAuto, Update!HangUp, Update!StoreAuto, Update!NothingToPull,
         Update!Click, Update!disk, Update!memory
<1>2. DumpIsLast' /\ AsksWithBackup' /\ BackedUpFirst'
  BY <1>1 DEF ServerInv, DumpIsLast, AsksWithBackup, HasBackup, BackedUpFirst, Update!BackedUpFirst
<1>3. ASSUME NEW u \in Callers, NEW p \in CallerStates \ {"claimed"}, Update!Goes(u, p),
             cut' = (cut \/ caller[u] = "claimed")
      PROVE  caller' \in [Callers -> CallerStates] /\ OneHolds'
  <2>1. /\ caller' \in [Callers -> CallerStates] /\ caller'[u] = p
        /\ \A v \in Callers \ {u} : caller'[v] = caller[v]
    BY <1>0, <1>3, GoesIs DEF Update!Goes
  <2>2. \A v \in Callers : Holds(v)' <=> Holds(v) /\ (v = u => task[u] # "off")
    BY <1>1, <1>3, <2>1 DEF Holds
  <2>3. \A v, w \in Callers : Holds(v)' /\ Holds(w)' => v = w BY <2>2 DEF ServerInv, OneHolds
  <2>4. \A v \in Callers : ~(caller'[v] = "claimed" /\ task'[v] # "off")
    BY <1>1, <1>3, <2>1 DEF ServerInv, OneHolds
  <2>5. updating' <=> cut' \/ \E v \in Callers : Holds(v)'
    <3>1. CASE caller[u] = "claimed"
      BY <1>1, <1>3, <3>1 DEF ServerInv, OneHolds, Holds
    <3>2. CASE caller[u] # "claimed"
      <4>1. \A v \in Callers : Holds(v)' <=> Holds(v) BY <2>2, <3>2 DEF Holds
      <4>2. cut' <=> cut BY <1>3, <3>2
      <4> QED BY <1>1, <4>1, <4>2, Zenon DEF ServerInv, OneHolds
    <3> QED BY <3>1, <3>2
  <2>6. cut' => \A v \in Callers : ~Holds(v)'
    <3>1. CASE caller[u] = "claimed"
      BY <2>2, <3>1 DEF ServerInv, OneHolds, Holds
    <3>2. CASE caller[u] # "claimed" BY <1>3, <2>2, <3>2 DEF ServerInv, OneHolds
    <3> QED BY <3>1, <3>2
  <2> QED BY <2>1, <2>3, <2>4, <2>5, <2>6, Zenon DEF OneHolds
<1>4. ASSUME UNCHANGED <<caller, cut>> PROVE OneHolds'
  BY <1>1, <1>4 DEF ServerInv, OneHolds, Holds
<1>5. CASE Update!Publish \/ Update!PublishImage \/ Update!SeeLatest \/ Update!RetryDue
           \/ Update!NothingToPull
  <2>1. /\ UNCHANGED <<running, token, row, backups, auto, updating, caller, task, cut, clicks,
                       troubles>>
        /\ released' \in Update!Versions /\ image' \in Update!Versions
        /\ latest' \in 0..MaxVersion /\ lastAuto' \in 0..MaxVersion /\ pulling' \in BOOLEAN
    <3> USE DEF Update!disk, Update!memory, Update!TypeOK, Update!Versions, Update!UpdateAssumption
    <3>1. CASE Update!Publish BY <1>0, <3>1 DEF Update!Publish
    <3>2. CASE Update!PublishImage BY <1>0, <3>2 DEF Update!PublishImage
    <3>3. CASE Update!SeeLatest BY <1>0, <3>3 DEF Update!SeeLatest
    <3>4. CASE Update!RetryDue BY <1>0, <3>4 DEF Update!RetryDue
    <3>5. CASE Update!NothingToPull BY <1>0, <3>5 DEF Update!NothingToPull
    <3> QED BY <1>5, <3>1, <3>2, <3>3, <3>4, <3>5
  <2>2. Update!TypeOK' BY <1>0, <2>1 DEF Update!TypeOK
  <2> QED BY <1>2, <1>4, <2>1, <2>2 DEF ServerInv
<1>6. CASE Update!AutoLooks
  <2>1. /\ UNCHANGED <<released, image, running, token, row, backups, latest, auto, updating, task,
                       cut, pulling, clicks, troubles>>
        /\ lastAuto' = latest /\ Update!Goes(AutoUpdate, "asks") /\ caller[AutoUpdate] = "idle"
    BY <1>6 DEF Update!AutoLooks, Update!disk
  <2>2. cut' = (cut \/ caller[AutoUpdate] = "claimed") BY <1>0, <2>1 DEF Update!TypeOK
  <2>3. caller' \in [Callers -> CallerStates] /\ OneHolds'
    BY <1>0, <1>3, <2>1, <2>2 DEF CallerStates
  <2>4. Update!TypeOK' BY <1>0, <2>1, <2>3 DEF Update!TypeOK, Callers, CallerStates
  <2> QED BY <1>2, <2>3, <2>4 DEF ServerInv
<1>7. ASSUME NEW r \in Consoles, \/ Update!UpdateNow(r) \/ Update!SetAuto(r) \/ Update!StoreAuto(r)
                                 \/ Update!HangUp(r)
      PROVE  ServerInv'
  <2>0. r \in Callers BY <1>0
  <2>1. /\ UNCHANGED <<released, image, running, token, backups, latest, updating, lastAuto, task,
                       pulling>>
        /\ row' \in BOOLEAN /\ auto' \in BOOLEAN
        /\ clicks' \in 0..MaxClicks /\ troubles' \in 0..MaxTroubles
    <3> USE DEF Update!Click, Update!disk, Update!TypeOK, Update!UpdateAssumption
    <3>1. CASE Update!UpdateNow(r) BY <1>0, <3>1 DEF Update!UpdateNow
    <3>2. CASE Update!SetAuto(r) BY <1>0, <3>2 DEF Update!SetAuto
    <3>3. CASE Update!StoreAuto(r) BY <1>0, <3>3 DEF Update!StoreAuto
    <3>4. CASE Update!HangUp(r) BY <1>0, <3>4 DEF Update!HangUp, Update!Trouble
    <3> QED BY <1>7, <3>1, <3>2, <3>3, <3>4
  <2>2. \E p \in CallerStates \ {"claimed"} : Update!Goes(r, p)
    BY <1>7 DEF Update!UpdateNow, Update!SetAuto, Update!StoreAuto, Update!HangUp, Update!Click,
       CallerStates
  <2>3. cut' = (cut \/ caller[r] = "claimed")
    <3>1. CASE Update!HangUp(r) BY <3>1 DEF Update!HangUp
    <3>2. CASE ~Update!HangUp(r)
      <4>1. caller[r] # "claimed" /\ cut' = cut
        BY <1>7, <3>2 DEF Update!UpdateNow, Update!SetAuto, Update!StoreAuto, Update!Click
      <4> QED BY <1>0, <4>1 DEF Update!TypeOK
    <3> QED BY <3>1, <3>2
  <2>4. caller' \in [Callers -> CallerStates] /\ OneHolds' BY <1>3, <2>0, <2>2, <2>3
  <2>5. cut' \in BOOLEAN BY <1>0, <2>3
  <2>6. Update!TypeOK' BY <1>0, <2>1, <2>4, <2>5 DEF Update!TypeOK, Callers, CallerStates
  <2> QED BY <1>2, <2>4, <2>6 DEF ServerInv
<1> QED BY <1>5, <1>6, <1>7

\* update_now: a claim, and the task that it spawns.
LEMMA ClaimKeeps ==
  ASSUME ServerInv, NEW u \in Callers, Update!Claim(u) \/ Update!SpawnUpdate(u)
  PROVE  ServerInv'
<1>0. /\ Update!TypeOK
      /\ caller \in [Callers -> CallerStates] /\ task \in [Callers -> TaskStates]
  BY DEF ServerInv, Update!TypeOK, Callers, CallerStates, TaskStates
<1>1. CASE Update!Claim(u)
  <2>1. UNCHANGED <<released, image, running, token, row, backups, latest, auto, lastAuto, task, cut,
                    pulling, clicks, troubles>> /\ caller[u] = "asks"
    BY <1>1 DEF Update!Claim, Update!disk
  <2>2. CASE token /\ ~updating
    <3>1. updating' = TRUE /\ Update!Goes(u, "claimed") BY <1>1, <2>2 DEF Update!Claim
    <3>2. /\ caller' \in [Callers -> CallerStates] /\ caller'[u] = "claimed"
          /\ \A v \in Callers \ {u} : caller'[v] = caller[v]
      BY <1>0, <3>1, GoesIs DEF Update!Goes, CallerStates
    <3>3. \A v \in Callers : ~Holds(v) BY <2>2 DEF ServerInv, OneHolds
    <3>4. \A v \in Callers : Holds(v)' <=> v = u BY <2>1, <3>2, <3>3 DEF Holds
    <3>5. \A v \in Callers : task[v] = "off" BY <3>3 DEF Holds
    <3>6. OneHolds'
      <4>1. cut = FALSE BY <1>0, <2>2 DEF ServerInv, OneHolds, Update!TypeOK
      <4> QED BY <2>1, <3>1, <3>4, <3>5, <4>1 DEF OneHolds
    <3>7. Update!TypeOK' BY <1>0, <2>1, <3>1, <3>2 DEF Update!TypeOK, Callers, CallerStates
    <3> QED BY <2>1, <3>6, <3>7 DEF ServerInv, DumpIsLast, AsksWithBackup, HasBackup, BackedUpFirst,
                                    Update!BackedUpFirst
  <2>3. CASE ~(token /\ ~updating)
    <3>1. Update!Goes(u, "idle") /\ UNCHANGED updating BY <1>1, <2>3 DEF Update!Claim
    <3>2. /\ caller' \in [Callers -> CallerStates] /\ caller'[u] = "idle"
          /\ \A v \in Callers \ {u} : caller'[v] = caller[v]
      BY <1>0, <3>1, GoesIs DEF Update!Goes, CallerStates
    <3>3. \A v \in Callers : Holds(v)' <=> Holds(v) BY <2>1, <3>2 DEF Holds
    <3>4. \A v \in Callers : ~(caller'[v] = "claimed" /\ task'[v] # "off")
      BY <2>1, <3>2 DEF ServerInv, OneHolds
    <3>5. OneHolds'
      <4>1. \A v, w \in Callers : Holds(v)' /\ Holds(w)' => v = w BY <3>3 DEF ServerInv, OneHolds
      <4>2. updating' <=> cut' \/ \E v \in Callers : Holds(v)'
        BY <2>1, <3>1, <3>3, Zenon DEF ServerInv, OneHolds
      <4>3. cut' => \A v \in Callers : ~Holds(v)' BY <2>1, <3>3 DEF ServerInv, OneHolds
      <4> QED BY <3>4, <4>1, <4>2, <4>3, Zenon DEF OneHolds
    <3>6. Update!TypeOK' BY <1>0, <2>1, <3>1, <3>2 DEF Update!TypeOK, Callers, CallerStates
    <3> QED BY <2>1, <3>5, <3>6 DEF ServerInv, DumpIsLast, AsksWithBackup, HasBackup, BackedUpFirst,
                                    Update!BackedUpFirst
  <2> QED BY <2>2, <2>3
<1>2. CASE Update!SpawnUpdate(u)
  <2>1. /\ UNCHANGED <<released, image, running, token, row, backups, latest, auto, updating, lastAuto,
                       cut, pulling, clicks, troubles>>
        /\ caller[u] = "claimed" /\ Update!Goes(u, "idle") /\ Update!TaskGoes(u, "start")
    BY <1>2 DEF Update!SpawnUpdate, Update!disk
  <2>2. /\ caller' \in [Callers -> CallerStates] /\ caller'[u] = "idle"
        /\ \A v \in Callers \ {u} : caller'[v] = caller[v]
    BY <1>0, <2>1, GoesIs DEF Update!Goes, CallerStates
  <2>3. /\ task' \in [Callers -> TaskStates] /\ task'[u] = "start"
        /\ \A v \in Callers \ {u} : task'[v] = task[v]
    BY <1>0, <2>1, GoesIs DEF Update!TaskGoes, TaskStates
  <2>4. \A v \in Callers : Holds(v)' <=> Holds(v) BY <2>1, <2>2, <2>3 DEF Holds
  <2>5. OneHolds'
    <3>1. \A v, w \in Callers : Holds(v)' /\ Holds(w)' => v = w BY <2>4 DEF ServerInv, OneHolds
    <3>2. \A v \in Callers : ~(caller'[v] = "claimed" /\ task'[v] # "off")
      BY <2>2, <2>3 DEF ServerInv, OneHolds
    <3>3. updating' <=> cut' \/ \E v \in Callers : Holds(v)'
      BY <2>1, <2>4, Zenon DEF ServerInv, OneHolds
    <3>4. cut' => \A v \in Callers : ~Holds(v)' BY <2>1, <2>4 DEF ServerInv, OneHolds
    <3> QED BY <3>1, <3>2, <3>3, <3>4, Zenon DEF OneHolds
  <2>6. Update!TypeOK' BY <1>0, <2>1, <2>2, <2>3 DEF Update!TypeOK, Callers, CallerStates, TaskStates
  <2>7. DumpIsLast' BY <2>1, <2>3 DEF ServerInv, DumpIsLast
  <2>8. AsksWithBackup' BY <2>1, <2>3 DEF ServerInv, AsksWithBackup, HasBackup
  <2>9. BackedUpFirst' BY <2>1 DEF ServerInv, BackedUpFirst, Update!BackedUpFirst
  <2> QED BY <2>5, <2>6, <2>7, <2>8, <2>9 DEF ServerInv
<1> QED BY <1>1, <1>2

\* A task that goes on without ending.
LEMMA TaskGoesOn ==
  ASSUME ServerInv, NEW u \in Callers, NEW p \in TaskStates \ {"off"}, task[u] # "off",
         Update!TaskGoes(u, p), UNCHANGED <<caller, updating, cut>>
  PROVE  /\ task' \in [Callers -> TaskStates] /\ task'[u] = p
         /\ \A v \in Callers \ {u} : task'[v] = task[v] /\ task[v] = "off"
         /\ OneHolds'
<1>1. task \in [Callers -> TaskStates] BY DEF ServerInv, Update!TypeOK, Callers, TaskStates
<1>2. /\ task' \in [Callers -> TaskStates] /\ task'[u] = p
      /\ \A v \in Callers \ {u} : task'[v] = task[v]
  BY <1>1, GoesIs DEF Update!TaskGoes
<1>3. \A v \in Callers \ {u} : task[v] = "off" BY DEF ServerInv, OneHolds, Holds
<1>4. \A v \in Callers : Holds(v)' <=> Holds(v) BY <1>2 DEF Holds
<1>5. \A v \in Callers : ~(caller'[v] = "claimed" /\ task'[v] # "off")
  BY <1>2 DEF ServerInv, OneHolds
<1>6. \A v, w \in Callers : Holds(v)' /\ Holds(w)' => v = w BY <1>4 DEF ServerInv, OneHolds
<1>7. updating' <=> cut' \/ \E v \in Callers : Holds(v)'
  BY <1>4, Zenon DEF ServerInv, OneHolds
<1>8. cut' => \A v \in Callers : ~Holds(v)' BY <1>4 DEF ServerInv, OneHolds
<1>9. OneHolds' BY <1>5, <1>6, <1>7, <1>8, Zenon DEF OneHolds
<1> QED BY <1>2, <1>3, <1>9

\* A task that ends.
LEMMA TaskEnds ==
  ASSUME ServerInv, NEW u \in Callers, task[u] # "off", Update!EndTask(u)
  PROVE  /\ task' \in [Callers -> TaskStates] /\ \A v \in Callers : task'[v] = "off"
         /\ OneHolds'
<1>1. task \in [Callers -> TaskStates] BY DEF ServerInv, Update!TypeOK, Callers, TaskStates
<1>2. /\ task' \in [Callers -> TaskStates] /\ task'[u] = "off"
      /\ \A v \in Callers \ {u} : task'[v] = task[v]
  BY <1>1, GoesIs DEF Update!TaskGoes, Update!EndTask, TaskStates
<1>3. \A v \in Callers \ {u} : ~Holds(v) BY DEF ServerInv, OneHolds, Holds
<1>4. \A v \in Callers : task'[v] = "off" BY <1>2, <1>3 DEF Holds
<1>5. caller[u] # "claimed" BY DEF ServerInv, OneHolds
<1>6. updating' = FALSE /\ UNCHANGED <<caller, cut>> BY DEF Update!EndTask
<1>7. \A v \in Callers : ~Holds(v)' BY <1>3, <1>4, <1>5, <1>6 DEF Holds
<1>8. ~cut BY DEF ServerInv, OneHolds, Holds
<1>9. OneHolds' BY <1>4, <1>6, <1>7, <1>8 DEF OneHolds
<1> QED BY <1>2, <1>4, <1>9

\* The task, and what ends it.
LEMMA TaskKeeps ==
  ASSUME ServerInv, Update!UpdateAssumption, NEW u \in Callers,
         \/ Update!StartBackup(u) \/ Update!EndBackup(u) \/ Update!BackupFails(u) \/ Update!Ask(u)
         \/ Update!AskFails(u) \/ Update!NoNewImage(u)
  PROVE  ServerInv'
<1>0. Update!TypeOK /\ backups \in Seq(Backup) /\ running \in Update!Versions
  BY DEF ServerInv, Update!TypeOK, Backup
<1>1. UNCHANGED <<released, image, running, token, row, latest, auto, lastAuto, caller, cut, clicks>>
      /\ task[u] # "off"
  BY DEF Update!StartBackup, Update!EndBackup, Update!BackupFails, Update!Ask, Update!AskFails,
         Update!NoNewImage, Update!EndTask, Update!disk
<1>2. task[u] = "dump" => Len(backups) > 0 /\ backups[Len(backups)] = [of |-> running, whole |-> FALSE]
  BY DEF ServerInv, DumpIsLast
<1>3. \A i \in DOMAIN backups : backups[i] \in Backup /\ i \in 1..Len(backups) BY <1>0
<1>4. CASE Update!StartBackup(u)
  <2>1. /\ UNCHANGED <<updating, pulling, troubles>> /\ Update!TaskGoes(u, "dump")
        /\ backups' = Append(backups, [of |-> running, whole |-> FALSE])
    BY <1>4 DEF Update!StartBackup
  <2>2. /\ task' \in [Callers -> TaskStates] /\ task'[u] = "dump"
        /\ \A v \in Callers \ {u} : task'[v] = task[v] /\ task[v] = "off"
        /\ OneHolds'
    BY <1>1, <2>1, TaskGoesOn DEF TaskStates
  <2>3. /\ backups' \in Seq(Backup) /\ Len(backups') = Len(backups) + 1
        /\ backups'[Len(backups')] = [of |-> running, whole |-> FALSE]
        /\ \A i \in 1..Len(backups) : backups'[i] = backups[i]
    BY <1>0, <2>1 DEF Backup
  <2>4. HasBackup => HasBackup' BY <1>0, <1>1, <2>3 DEF HasBackup
  <2>5. DumpIsLast' BY <1>0, <1>1, <2>2, <2>3 DEF DumpIsLast
  <2>6. AsksWithBackup' BY <2>2 DEF AsksWithBackup
  <2>7. BackedUpFirst' BY <2>1, <2>4 DEF ServerInv, BackedUpFirst, Update!BackedUpFirst, HasBackup
  <2>8. Update!TypeOK' BY <1>0, <1>1, <2>1, <2>2, <2>3 DEF Update!TypeOK, Backup, Callers, TaskStates
  <2> QED BY <2>2, <2>5, <2>6, <2>7, <2>8 DEF ServerInv
<1>5. CASE Update!EndBackup(u)
  <2> DEFINE b == [backups EXCEPT ![Len(backups)].whole = TRUE]
  <2>1. /\ UNCHANGED <<updating, pulling, troubles>> /\ Update!TaskGoes(u, "ask")
        /\ backups' = Update!Pruned(b) /\ task[u] = "dump"
    BY <1>5 DEF Update!EndBackup
  <2>2. /\ task' \in [Callers -> TaskStates] /\ task'[u] = "ask"
        /\ \A v \in Callers \ {u} : task'[v] = task[v] /\ task[v] = "off"
        /\ OneHolds'
    BY <1>1, <2>1, TaskGoesOn DEF TaskStates
  <2>3. /\ b \in Seq(Backup) /\ Len(b) = Len(backups)
        /\ b[Len(b)].of = running /\ b[Len(b)].whole
    <3> DEFINE n == Len(backups)
               r == [backups[n] EXCEPT !.whole = TRUE]
    <3>1. n \in DOMAIN backups /\ backups[n] \in Backup /\ backups[n].of = running
      BY <1>0, <1>2, <2>1 DEF Backup
    <3>2. r \in Backup /\ r.of = running /\ r.whole BY <3>1 DEF Backup
    <3>3. b = [backups EXCEPT ![n] = r] OBVIOUS
    <3> HIDE DEF b, r
    <3> QED BY <1>0, <3>1, <3>2, <3>3
  <2> HIDE DEF b
  <2>4. /\ backups' \in Seq(Backup) /\ Len(backups') > 0
        /\ backups'[Len(backups')].of = running /\ backups'[Len(backups')].whole
    BY <1>2, <2>1, <2>3, PrunedKeepsLast
  <2>5. HasBackup' 
    <3>1. Len(backups') \in DOMAIN backups' BY <2>4
    <3> QED BY <1>1, <2>4, <3>1 DEF HasBackup
  <2>6. DumpIsLast' BY <2>2 DEF DumpIsLast
  <2>7. AsksWithBackup' BY <2>5 DEF AsksWithBackup
  <2>8. BackedUpFirst' BY <2>5 DEF BackedUpFirst, Update!BackedUpFirst, HasBackup
  <2>9. Update!TypeOK' BY <1>0, <1>1, <2>1, <2>2, <2>4 DEF Update!TypeOK, Backup, Callers, TaskStates
  <2> QED BY <2>2, <2>6, <2>7, <2>8, <2>9 DEF ServerInv
<1>6. CASE Update!BackupFails(u)
  <2>1. /\ Update!EndTask(u) /\ UNCHANGED pulling /\ troubles' \in 0..MaxTroubles
        /\ backups' = IF task[u] = "dump" THEN Update!Front(backups) ELSE backups
    BY <1>0, <1>6 DEF Update!BackupFails, Update!Trouble, Update!TypeOK, Update!UpdateAssumption
  <2>2. /\ task' \in [Callers -> TaskStates] /\ \A v \in Callers : task'[v] = "off"
        /\ OneHolds'
    BY <1>1, <2>1, TaskEnds
  <2>3. backups' \in Seq(Backup) /\ (HasBackup => HasBackup')
    <3>1. CASE task[u] = "dump"
      <4>1. /\ backups' \in Seq(Backup) /\ Len(backups') = Len(backups) - 1
            /\ \A i \in 1..(Len(backups) - 1) : backups'[i] = backups[i]
        BY <1>0, <1>2, <2>1, <3>1, FrontKeepsOthers
      <4>2. ASSUME NEW i \in DOMAIN backups, backups[i].whole, backups[i].of = running
            PROVE  i \in DOMAIN backups' /\ backups'[i] = backups[i]
        <5>1. i # Len(backups) BY <1>2, <3>1, <4>2
        <5> QED BY <1>0, <4>1, <5>1
      <4> QED BY <1>1, <4>1, <4>2 DEF HasBackup
    <3>2. CASE task[u] # "dump" BY <1>0, <1>1, <2>1, <3>2 DEF HasBackup
    <3> QED BY <3>1, <3>2
  <2>4. DumpIsLast' /\ AsksWithBackup' BY <2>2 DEF DumpIsLast, AsksWithBackup
  <2>5. BackedUpFirst' BY <2>1, <2>3 DEF ServerInv, BackedUpFirst, Update!BackedUpFirst, HasBackup
  <2>6. updating' = FALSE BY <2>1 DEF Update!EndTask
  <2>7. Update!TypeOK' BY <1>0, <1>1, <2>1, <2>2, <2>3, <2>6 DEF Update!TypeOK, Backup, Callers, TaskStates
  <2> QED BY <2>2, <2>4, <2>5, <2>7 DEF ServerInv
<1>7. CASE Update!Ask(u)
  <2>1. /\ UNCHANGED <<backups, updating, troubles>> /\ Update!TaskGoes(u, "wait") /\ pulling' = TRUE
        /\ task[u] = "ask"
    BY <1>7 DEF Update!Ask, Update!disk
  <2>2. /\ task' \in [Callers -> TaskStates] /\ task'[u] = "wait"
        /\ \A v \in Callers \ {u} : task'[v] = task[v] /\ task[v] = "off"
        /\ OneHolds'
    BY <1>1, <2>1, TaskGoesOn DEF TaskStates
  <2>3. HasBackup BY <2>1 DEF ServerInv, AsksWithBackup
  <2>4. HasBackup' BY <1>1, <2>1, <2>3 DEF HasBackup
  <2>5. DumpIsLast' BY <2>2 DEF DumpIsLast
  <2>6. AsksWithBackup' BY <2>4 DEF AsksWithBackup
  <2>7. BackedUpFirst' BY <2>4 DEF BackedUpFirst, Update!BackedUpFirst, HasBackup
  <2>8. Update!TypeOK' BY <1>0, <1>1, <2>1, <2>2 DEF Update!TypeOK, Callers, TaskStates
  <2> QED BY <2>2, <2>5, <2>6, <2>7, <2>8 DEF ServerInv
<1>8. CASE Update!AskFails(u) \/ Update!NoNewImage(u)
  <2>1. /\ Update!EndTask(u) /\ UNCHANGED <<backups, pulling>> /\ troubles' \in 0..MaxTroubles
    BY <1>0, <1>8 DEF Update!AskFails, Update!NoNewImage, Update!Trouble, Update!TypeOK,
                      Update!UpdateAssumption
  <2>2. /\ task' \in [Callers -> TaskStates] /\ \A v \in Callers : task'[v] = "off"
        /\ OneHolds'
    BY <1>1, <2>1, TaskEnds
  <2>3. DumpIsLast' /\ AsksWithBackup' BY <2>2 DEF DumpIsLast, AsksWithBackup
  <2>4. BackedUpFirst' BY <1>1, <2>1 DEF ServerInv, BackedUpFirst, Update!BackedUpFirst
  <2>5. updating' = FALSE BY <2>1 DEF Update!EndTask
  <2>6. Update!TypeOK' BY <1>0, <1>1, <2>1, <2>2, <2>5 DEF Update!TypeOK, Callers, TaskStates
  <2> QED BY <2>2, <2>3, <2>4, <2>6 DEF ServerInv
<1> QED BY <1>4, <1>5, <1>6, <1>7, <1>8

\* The process ends and starts, on the same version or on the one that was pulled.
LEMMA BootKeeps ==
  ASSUME ServerInv, Update!UpdateAssumption, Update!Replace \/ Update!Crash
  PROVE  ServerInv'
<1>1. Update!TypeOK BY DEF ServerInv
<1>2. /\ Update!Boot /\ running' \in {running, image}
      /\ pulling' \in BOOLEAN /\ (pulling' => pulling /\ running' = running)
      /\ troubles' \in 0..MaxTroubles
  <2>1. CASE Update!Replace
    <3>1. /\ Update!Boot /\ running' = image /\ pulling' = FALSE
          /\ troubles' = troubles \/ Update!Trouble
      BY <2>1 DEF Update!Replace
    <3>2. troubles' \in 0..MaxTroubles
      BY <1>1, <3>1 DEF Update!Trouble, Update!TypeOK, Update!UpdateAssumption
    <3>3. pulling' \in BOOLEAN /\ (pulling' => pulling /\ running' = running) BY <3>1
    <3> QED BY <3>1, <3>2, <3>3
  <2>2. CASE Update!Crash
    BY <1>1, <2>2 DEF Update!Crash, Update!Trouble, Update!TypeOK, Update!UpdateAssumption
  <2> QED BY <2>1, <2>2
<1>3. /\ caller' \in [Callers -> CallerStates] /\ task' \in [Callers -> TaskStates]
      /\ \A u \in Callers : caller'[u] = "idle" /\ task'[u] = "off"
      /\ updating' = FALSE /\ cut' = FALSE /\ token' \in BOOLEAN /\ auto' \in BOOLEAN
      /\ lastAuto' = 0 /\ latest' = 0 /\ UNCHANGED <<released, image, row, backups, clicks>>
  BY <1>1, <1>2 DEF Update!Boot, Update!Everyone, Callers, CallerStates, TaskStates, Update!TypeOK
<1>4. Update!TypeOK'
  <2>1. 0 \in 0..MaxVersion BY DEF Update!UpdateAssumption
  <2> QED BY <1>1, <1>2, <1>3, <2>1 DEF Update!TypeOK, Callers, CallerStates, TaskStates
<1>5. OneHolds' BY <1>3 DEF OneHolds, Holds
<1>6. DumpIsLast' /\ AsksWithBackup' BY <1>3 DEF DumpIsLast, AsksWithBackup
<1>7. BackedUpFirst' BY <1>2, <1>3 DEF ServerInv, BackedUpFirst, Update!BackedUpFirst
<1> QED BY <1>4, <1>5, <1>6, <1>7 DEF ServerInv

\* Every step keeps it.
LEMMA ServerHolds == Update!Spec => []ServerInv
<1> USE ServicesAssumption
<1>1. Update!Init => ServerInv BY ServerInit
<1>2. ServerInv /\ [Update!Next]_(Update!vars) => ServerInv'
  <2>1. ASSUME ServerInv, UNCHANGED Update!vars PROVE ServerInv'
    BY <2>1 DEF ServerInv, Update!vars, Update!disk, Update!memory, Update!TypeOK, OneHolds, Holds,
                DumpIsLast, AsksWithBackup, HasBackup, BackedUpFirst, Update!BackedUpFirst
  <2>2. ASSUME ServerInv, Update!Next PROVE ServerInv'
    <3>1. ASSUME NEW u \in Callers, \/ Update!CallerStep(u) \/ Update!TaskStep(u)
                                    \/ Update!BackupFails(u) \/ Update!AskFails(u)
          PROVE  ServerInv'
      <4>1. CASE u # AutoUpdate /\ Update!StoreAuto(u)
        <5>1. u \in Consoles BY <4>1 DEF Callers, Update!Callers
        <5> QED BY <2>2, <4>1, <5>1, CallersKeep
      <4>2. CASE ~(u # AutoUpdate /\ Update!StoreAuto(u))
        BY <2>2, <3>1, <4>2, ClaimKeeps, TaskKeeps DEF Update!CallerStep, Update!TaskStep
      <4> QED BY <4>1, <4>2
    <3> QED BY <2>2, <3>1, CallersKeep, BootKeeps DEF Update!Next, Update!Watchtower, Callers
  <2> QED BY <2>1, <2>2
<1> QED BY <1>1, <1>2, PTL DEF Update!Spec

\* ServerUpdate: types of the versions, callers, tasks and backups.
THEOREM UpdateTypeCorrect == Update!Spec => []Update!TypeOK
<1>1. ServerInv => Update!TypeOK BY DEF ServerInv
<1> QED BY <1>1, ServerHolds, PTL

\* update_now: for any number of requests beside Auto-update, at most one update is under way, and
\* `busy` says so, or is left behind by a request that was dropped.
THEOREM OneUpdateAtATime == Update!Spec => []Update!BusyIsOneUpdate
<1>1. ServerInv => Update!BusyIsOneUpdate BY HoldsIsBusy DEF ServerInv
<1> QED BY <1>1, ServerHolds, PTL

\* backup, prune_backups: whatever was started, cut short or pruned, Watchtower is only ever asked
\* to replace a version of which there is a whole backup, however few are kept.
THEOREM PullsAreBackedUp == Update!Spec => []BackedUpFirst
<1>1. ServerInv => BackedUpFirst BY DEF ServerInv
<1> QED BY <1>1, ServerHolds, PTL
=============================================================================
