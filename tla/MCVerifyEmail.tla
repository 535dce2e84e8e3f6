--------------------------- MODULE MCVerifyEmail ---------------------------
(* The instances of VerifyEmail that TLC checks. *)
EXTENDS VerifyEmail
=============================================================================
