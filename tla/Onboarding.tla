----------------------------- MODULE Onboarding -----------------------------
(***************************************************************************)
(* What VerifyEmailPage promises to the rest of the app, whatever its      *)
(* timers, retries and overlapping checks do: the user gets to the Cover   *)
(* only after following the link of the e-mail, and not before the server  *)
(* has answered a request to create the user's record.                     *)
(***************************************************************************)
VARIABLES
    linked,   \* the user followed the link
    record,   \* the server has the user's record
    refused,  \* the server once failed to confirm a record
    out       \* the page has given way to the Cover

vars == <<linked, record, refused, out>>

Init ==
    /\ linked = FALSE /\ record \in BOOLEAN
    /\ refused = FALSE /\ out = FALSE

Click ==
    /\ ~linked /\ linked' = TRUE
    /\ UNCHANGED <<record, refused, out>>

\* The answer to createUser lets the user out, a bad one too.  Further answers may
\* follow the first; none takes a record away.
Answered ==
    /\ linked /\ out' = TRUE
    /\ \/ record' = TRUE /\ UNCHANGED refused
       \/ record' \in {record, TRUE} /\ refused' = TRUE
    /\ UNCHANGED linked

Next == Click \/ Answered

Spec == Init /\ [][Next]_vars
=============================================================================
