------------------------------- MODULE MCChat -------------------------------
(* The instances of Chat that TLC checks. *)
EXTENDS Chat
=============================================================================
