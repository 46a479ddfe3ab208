--------------------------- MODULE MCTorrentSession ---------------------------
(* TorrentSession for TLC. *)
EXTENDS TorrentSession

\* Nothing is played any more.
Over == Quiet /\ UNCHANGED vars

MCSpec == Init /\ [][Next \/ Over]_vars

\* Bound: a behaviour is followed as long as the properties say something of it, and up to its
\* second trouble or kind of thing that comes too late.
Followed == Orderly /\ Cardinality(late) + troubles <= 1
=============================================================================
