------------------------------- MODULE MCUpdates -------------------------------
(* The two updates that have to get there by themselves, under fairness, for    *)
(* TLC. They share nothing, so it looks at one or the other: the mirror of app  *)
(* releases ("app", without what the apps are told, which does not steer it)    *)
(* and the server's own update ("server").                                      *)
EXTENDS AppUpdates

CONSTANTS Consoles, AutoUpdate, Keep, MaxVersion, MaxClicks, MaxTroubles

VARIABLES part,
          released, image, latest, running, token, row, auto, updating, lastAuto, caller, task,
          backups, pulling, cut, clicks, troubles

Update == INSTANCE ServerUpdate WITH busy <- updating, Requests <- Consoles

ASSUME ServicesAssumption == Update!UpdateAssumption

updateVars == <<released, image, latest, running, token, row, auto, updating, lastAuto, caller,
                task, backups, pulling, cut, clicks, troubles>>
mcVars == <<part, mirrorVars, updateVars>>

\* The other part stands still where it is at first.
MCInit ==
  /\ part \in {"app", "server"}
  /\ MirrorInit /\ Update!Init
  /\ part # "app" => github = [tag |-> CHOOSE t \in Tags : TRUE, build |-> 1, mac |-> TRUE]
  /\ part # "server" => token

App(A) == part = "app" /\ A /\ app' = NoOffer /\ UNCHANGED <<part, updateVars>>
Server(A) == part = "server" /\ A /\ UNCHANGED <<part, mirrorVars>>

MCNext == App(MirrorNext) \/ Server(Update!Next)

\* What AppUpdates and ServerUpdate assume of their parts.
AppFairness ==
  /\ SF_mcVars(App(Start(Timer)))
  /\ \A c \in Checkers :
       /\ SF_mcVars(App(Fetch(c))) /\ SF_mcVars(App(Stage(c))) /\ SF_mcVars(App(Download(c)))
       /\ SF_mcVars(App(BeginReplace(c))) /\ SF_mcVars(App(EndReplace(c)))
       /\ SF_mcVars(App(RenameStaging(c))) /\ SF_mcVars(App(Point(c)))
       /\ WF_mcVars(App(Proceed(c)))

ServerFairness ==
  /\ WF_mcVars(Server(Update!PublishImage)) /\ WF_mcVars(Server(Update!SeeLatest))
  /\ WF_mcVars(Server(Update!AutoLooks)) /\ WF_mcVars(Server(Update!RetryDue))
  /\ WF_mcVars(Server(Update!Watchtower))
  /\ \A u \in Update!Callers :
       WF_mcVars(Server(Update!CallerStep(u))) /\ WF_mcVars(Server(Update!TaskStep(u)))

MCSpec == MCInit /\ [][MCNext]_mcVars /\ AppFairness /\ ServerFairness

\* The newest release gets on offer (AppUpdates, Service::check).
NewestGetsOffered == part = "app" => NewestIsOffered

\* A whole backup of the running version precedes the pull (ServerUpdate, backup).
BackedUpFirst == Update!BackedUpFirst

\* With Auto-update on, the newest release gets installed (ServerUpdate, spawn_auto).
NewestIsInstalled == part = "server" => Update!NewestIsInstalled
=============================================================================
