------------------------------- MODULE MCHome -------------------------------
(* The instances of Home that TLC checks. *)
EXTENDS Home
=============================================================================
