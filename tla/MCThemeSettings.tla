-------------------------- MODULE MCThemeSettings --------------------------
(* The instances of ThemeSettings that TLC checks.  `raced' stays TRUE once it is, and the
   theme shown is then anybody's: nothing after the first race is explored. *)
EXTENDS ThemeSettings

Unraced == ~raced
=============================================================================
