--------------------------- MODULE MCSyncAndCache ---------------------------
(* GqlCache and CatalogSync under fairness, for TLC, side by side: in "cache"   *)
(* the sync stays as it is, and in "sync" the cache. (What a sync writes behind *)
(* the cache's back is GqlCache's BackgroundWrite.)                             *)
EXTENDS GqlCache

CONSTANTS Syncs, Pollers, MaxCrashes, MaxErrors

VARIABLES part,
          up, boot, flag, row, sync, request, saw, key, crashes, errors,
          overridden, abandoned, unwritten, cut

syncVars == <<up, boot, flag, row, sync, request, saw, key, crashes, errors,
              overridden, abandoned, unwritten, cut>>
mcVars == <<part, vars, syncVars>>

Sync == INSTANCE CatalogSync WITH Requests <- Pollers

MCInit == part \in {"cache", "sync"} /\ Init /\ Sync!Init /\ (part = "cache" => key)

\* What was overridden, abandoned or not written is history that nothing here asks about.
WithoutHistory == <<part, vars, up, boot, flag, row, sync, request, saw, key, crashes, errors, cut>>

InCache(A) == part = "cache" /\ A /\ UNCHANGED <<part, syncVars>>
InSync(A) == part = "sync" /\ A /\ UNCHANGED <<part, vars>>

MCNext == InCache(Next) \/ InSync(Sync!Next)

\* The fairness of both modules.
MCSpec ==
  /\ MCInit /\ [][MCNext]_mcVars
  /\ \A r \in Requests : WF_mcVars(InCache(Handle(r)))
  /\ \A k \in Keys : WF_mcVars(InCache(Expire(k)))
  /\ \A s \in Syncs : WF_mcVars(InSync(Sync!SyncStep(s)))
  /\ WF_mcVars(InSync(Sync!Restart)) /\ WF_mcVars(InSync(Sync!BootClear))
  /\ WF_mcVars(InSync(Sync!BootSync))
  /\ \A r \in Pollers : /\ SF_mcVars(InSync(Sync!PollStatus(r)))
                        /\ WF_mcVars(InSync(Sync!RequestStep(r)))
                        /\ SF_mcVars(InSync(Sync!ReadRow(r))) /\ SF_mcVars(InSync(Sync!LoadFlag(r)))
                        /\ SF_mcVars(InSync(Sync!Heal(r)))

\* A row that says a sync is running is reset in the end (CatalogSync, build_sync_status_json).
RowSettles == Sync!RowSettles
=============================================================================
