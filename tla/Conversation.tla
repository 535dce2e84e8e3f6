---------------------------- MODULE Conversation ----------------------------
(***************************************************************************)
(* What the chat page promises to its reader.  The conversation only ever  *)
(* grows, one entry at a time.  As long as questions come one after the    *)
(* other, an answer is that of the question still open; a question whose   *)
(* answer is empty or lost is closed without one.                          *)
(*                                                                         *)
(* The socket's events name no question.  Once questions overlap or an     *)
(* answer breaks off (`mixed'), only the growth is left of the promise.    *)
(***************************************************************************)
EXTENDS Naturals, Sequences, SequencesExt

VARIABLES
    log,      \* the entries: <<"Q", n>> is question n, <<"A", n>> its answer
    asked,    \* questions asked so far; a repeated question has a number of its own
    pending,  \* the question that is open, 0 for none
    mixed

vars == <<log, asked, pending, mixed>>

Init == log = <<>> /\ asked = 0 /\ pending = 0 /\ mixed = FALSE

\* A question the page came with, or that is repeated, has no entry of its own.
Ask ==
    /\ pending = 0
    /\ asked' = asked + 1 /\ pending' = asked + 1
    /\ log' \in {log, Append(log, <<"Q", asked + 1>>)}
    /\ UNCHANGED mixed

Answer ==
    /\ pending # 0 /\ pending' = 0
    /\ log' = Append(log, <<"A", pending>>)
    /\ UNCHANGED <<asked, mixed>>

NoAnswer ==
    /\ pending # 0 /\ pending' = 0
    /\ UNCHANGED <<log, asked, mixed>>

Overlap ==
    /\ mixed' = TRUE
    /\ IsPrefix(log, log') /\ Len(log') <= Len(log) + 1

Next == Ask \/ Answer \/ NoAnswer \/ Overlap

Spec == Init /\ [][Next]_vars
=============================================================================
