----------------------------- MODULE UpdateOffer -----------------------------
(***************************************************************************)
(* What the update mirror promises to the apps on the LAN, whatever it     *)
(* does on disk: an offer is a release that was published, and a later     *)
(* offer is never an older build than any offer before it.  The offer may  *)
(* be withdrawn for a while (a restart, a release being replaced).         *)
(***************************************************************************)
EXTENDS Integers

VARIABLES
  published,  \* builds published so far
  offer,      \* build on offer, or 0 when none is
  best        \* the newest build offered so far

vars == <<published, offer, best>>

Init == published \subseteq Nat /\ offer = 0 /\ best = 0

Publish == published \subseteq published' /\ UNCHANGED <<offer, best>>

Offer(b) ==
  /\ b \in published /\ b >= best
  /\ offer' = b /\ best' = b
  /\ UNCHANGED published

Withdraw == offer' = 0 /\ UNCHANGED <<published, best>>

Next == Publish \/ (\E b \in published : Offer(b)) \/ Withdraw

Spec == Init /\ [][Next]_vars

=============================================================================
