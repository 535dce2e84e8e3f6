----------------------------- MODULE MCSession -----------------------------
(* The instances of Session that TLC checks.  Every property of the passing run is about
   behaviours in which no step met another page or user than its own, and `raced' stays
   TRUE once it is: nothing after the first race is explored. *)
EXTENDS Session

Unraced == ~raced
=============================================================================
