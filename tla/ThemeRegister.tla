---------------------------- MODULE ThemeRegister ----------------------------
(***************************************************************************)
(* What the theme settings promise to the home page.  Seen from there the  *)
(* profile, the preference page and the sheet are one visit: the home page *)
(* keeps its theme until the user comes back, the theme is written during  *)
(* a visit only, and who comes back sees the theme written last.           *)
(*                                                                         *)
(* The promise ends with the first request that is overtaken (`raced'); a  *)
(* visit that ends before the profile has its data is `blind'.             *)
(***************************************************************************)
CONSTANT Theme

VARIABLES
    away,    \* the user is in the settings
    stored,  \* the server's theme
    shown,   \* the home page's theme
    blind,   \* the last visit ended without the user's data
    raced    \* a request was overtaken

vars == <<away, stored, shown, blind, raced>>

Init ==
    /\ away = FALSE /\ stored \in Theme /\ shown = stored
    /\ blind = FALSE /\ raced = FALSE

Leave ==
    /\ ~away /\ away' = TRUE
    /\ UNCHANGED <<stored, shown, blind, raced>>

Write ==
    /\ away /\ stored' \in Theme
    /\ UNCHANGED <<away, shown, blind, raced>>

Return ==
    /\ away /\ away' = FALSE
    /\ shown' \in Theme /\ blind' \in BOOLEAN
    /\ ~blind' => shown' = stored
    /\ UNCHANGED <<stored, raced>>

Race == raced' = TRUE

Next == Leave \/ Write \/ Return \/ Race

Spec == Init /\ [][Next]_vars
=============================================================================
