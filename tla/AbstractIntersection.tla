------------------------- MODULE AbstractIntersection -------------------------
(***************************************************************************)
(* What stoplight.c promises, with no semaphore in sight: at most Limit   *)
(* cars are in the intersection; each car, once in, follows one of the   *)
(* Routes quadrant by quadrant, holding at most two consecutive quadrants *)
(* of it, entering a quadrant only when no other car holds it, and giving *)
(* quadrants back in the order it took them; it leaves once it has given *)
(* back the last one.  Stoplight refines this module (RefinesIntersection *)
(* there).                                                                 *)
(***************************************************************************)
EXTENDS Naturals, Sequences, FiniteSets

CONSTANTS
  Cars,    \* the cars
  Routes,  \* the quadrant sequences a car may follow
  Limit    \* how many cars may be inside at once

VARIABLES
  status,  \* status[c] : "out" | "in" | "gone"
  route,   \* route[c] : the route the car follows, << >> until chosen
  front,   \* front[c] : how many quadrants of its route it has entered
  back     \* back[c]  : how many of them it has given back

vars == <<status, route, front, back>>

\* The quadrants car c is in: positions back+1..front of its route.
Occupies(c) == {route[c][i] : i \in back[c] + 1 .. front[c]}

InsideCars == {c \in Cars : status[c] = "in"}

Init ==
  /\ status = [c \in Cars |-> "out"]
  /\ route = [c \in Cars |-> << >>]
  /\ front = [c \in Cars |-> 0]
  /\ back = [c \in Cars |-> 0]

\* A car gets in while fewer than Limit cars are inside.
Admit(c) ==
  /\ status[c] = "out" /\ Cardinality(InsideCars) < Limit
  /\ status' = [status EXCEPT ![c] = "in"]
  /\ UNCHANGED <<route, front, back>>

\* A car inside picks its route.
Pick(c) ==
  /\ status[c] = "in" /\ route[c] = << >>
  /\ \E r \in Routes : route' = [route EXCEPT ![c] = r]
  /\ UNCHANGED <<status, front, back>>

\* A car holding at most one quadrant enters the next one of its route,
\* which no other car is in.
Take(c) ==
  /\ status[c] = "in" /\ route[c] # << >>
  /\ front[c] < Len(route[c]) /\ front[c] - back[c] <= 1
  /\ \A d \in Cars \ {c} : route[c][front[c] + 1] \notin Occupies(d)
  /\ front' = [front EXCEPT ![c] = @ + 1]
  /\ UNCHANGED <<status, route, back>>

\* A car gives back the first quadrant it holds, once it holds the next
\* one too or has reached the end of its route.
Release(c) ==
  /\ status[c] = "in" /\ back[c] < front[c]
  /\ front[c] - back[c] = 2 \/ front[c] = Len(route[c])
  /\ back' = [back EXCEPT ![c] = @ + 1]
  /\ UNCHANGED <<status, route, front>>

\* A car that has given back its whole route leaves.
Depart(c) ==
  /\ status[c] = "in" /\ route[c] # << >> /\ back[c] = Len(route[c])
  /\ status' = [status EXCEPT ![c] = "gone"]
  /\ UNCHANGED <<route, front, back>>

Next == \E c \in Cars : Admit(c) \/ Pick(c) \/ Take(c) \/ Release(c) \/ Depart(c)

Spec == Init /\ [][Next]_vars
=============================================================================
