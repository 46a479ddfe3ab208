---------------------------- MODULE MCStreamServer ----------------------------
(* Instances of StreamServer for TLC. *)
EXTENDS StreamServer
=============================================================================
