----------------------------- MODULE MCMaintenance -----------------------------
(* What the server does from time to time, for TLC: the sync of the catalogue   *)
(* (CatalogSync) and the mirror of app releases (AppUpdates). They share no     *)
(* state, so TLC looks at one or the other: `part` says which. Names are only   *)
(* compared for equality: threads and requests are alike for TLC, and a new     *)
(* release takes the first tag that is free.                                    *)
EXTENDS CatalogSync, AppUpdates, TLC

VARIABLE part

mcVars == <<part, vars, mirrorVars>>

ASSUME Tags \subseteq Nat

Symmetry == Permutations(Syncs) \cup Permutations(Requests)

\* The other part stands still where it is at first.
MCInit ==
  /\ part \in {"sync", "mirror"} /\ Init /\ MirrorInit
  /\ github.tag = 1 /\ (part = "sync" => github.mac)
  /\ part = "mirror" => key

InOrder == \A t, u \in Tags : t < u /\ runs[t] = 0 => runs'[u] = 0

MCNext ==
  /\ UNCHANGED part
  /\ \/ part = "sync" /\ Next /\ UNCHANGED mirrorVars
     \/ part = "mirror" /\ MirrorNext /\ InOrder /\ UNCHANGED vars

MCSpec == MCInit /\ [][MCNext]_mcVars
=============================================================================
