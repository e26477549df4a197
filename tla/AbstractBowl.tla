---------------------------- MODULE AbstractBowl ----------------------------
(***************************************************************************)
(* What catlock.c and catsem.c promise, with no primitive in sight: one   *)
(* bowl; an animal takes it when it is free and puts it back with one meal *)
(* eaten; nobody eats more than NMeals times, and under a fair     *)
(* scheduler every animal eventually eats all its meals.  CatMouse refines *)
(* this module (see RefinesBowl there).                                    *)
(***************************************************************************)
EXTENDS Naturals

CONSTANTS
  Animals,  \* the eating threads
  NMeals,   \* meals per animal
  None      \* the bowl is free

VARIABLES
  holder,   \* the animal at the bowl, or None
  meals     \* meals[a] : meals eaten so far

vars == <<holder, meals>>

Init ==
  /\ holder = None
  /\ meals = [a \in Animals |-> 0]

\* An animal with meals left takes the free bowl.
Take(a) ==
  /\ holder = None /\ meals[a] < NMeals
  /\ holder' = a
  /\ UNCHANGED meals

\* The holder puts the bowl back, one meal eaten.
Put(a) ==
  /\ holder = a
  /\ holder' = None
  /\ meals' = [meals EXCEPT ![a] = @ + 1]

Next == \E a \in Animals : Take(a) \/ Put(a)

\* A holder does not keep the bowl for ever, and an animal with meals left
\* that keeps finding the bowl free gets it: so every animal eats NMeals.
Spec ==
  /\ Init /\ [][Next]_vars
  /\ \A a \in Animals : WF_vars(Put(a)) /\ SF_vars(Take(a))
=============================================================================
