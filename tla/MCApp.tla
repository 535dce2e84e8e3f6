------------------------------- MODULE MCApp -------------------------------
(* The instance of App that TLC checks.  `raced' stays TRUE once it is, and the theme
   shown is then anybody's: nothing after the first race is explored.  With a profile open
   the stacks explored are those of three pages at most, and those with a second profile
   (Cover, Profile, Verse, Profile) once the Cover and the first one have their data.  Two
   updates at a time are explored over one profile of a signed-in user that has its data,
   and none beside those that a closed sheet or an earlier start has left on their way.

   States that differ in the offset of a page or in Home's history variables only are one
   to TLC: no action of App and none of its properties depends on these. *)
EXTENDS App

Explored ==
    /\ ~raced
    /\ \/ DOMAIN profiles = {}
       \/ Len(stack) <= 3
       \/ Cardinality(DOMAIN profiles) = 2 /\ profiles[2].get = "none" /\ userData = "done"
    /\ (\E s \in Slots : puts[s].state = "lost") =>
          \A s \in Slots : puts[s].state \in {"free", "lost"}
    /\ (\A s \in Slots : puts[s].state # "free") =>
          userData = "done" /\ session = "in" /\ Cardinality(DOMAIN profiles) < 2
          /\ \A i \in DOMAIN profiles : profiles[i].get = "none"

View ==
    <<[i \in DOMAIN stack |-> [stack[i] EXCEPT !.offset = FALSE]], cover, explain, session,
      themePuts, own>>
=============================================================================
