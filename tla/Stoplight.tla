------------------------------ MODULE Stoplight ------------------------------
(***************************************************************************)
(* The intersection of src/asst2/stoplight.c.  The intersection has four *)
(* quadrants NE, NW, SW, SE, each guarded by a semaphore of count 1; the *)
(* semaphore carcheck (count 3) lets at most three cars in at a time.    *)
(* A car takes carcheck, picks a random direction and turn, and crosses   *)
(* its quadrants hand over hand: it takes the next quadrant before giving *)
(* back the one it is in.  A right turn uses one quadrant, going straight *)
(* two and a left turn three.  The driver thread forks the cars, yields  *)
(* until they are gone and destroys the semaphores.                       *)
(***************************************************************************)
EXTENDS Synch

CONSTANTS
  Cars,      \* the approachintersection threads (NCARS of them)
  Main,      \* the driver createcars
  Directions,\* the values random() % 4 takes for cardirection
  TurnKinds  \* the values random() % 3 takes for turndirection

ASSUME Threads = Cars \cup {Main} /\ Main \notin Cars
ASSUME Sems = {"carcheck", "ne", "nw", "sw", "se"}
ASSUME Locks = {} /\ CVs = {}
ASSUME Directions \subseteq 0..3 /\ TurnKinds \subseteq 0..2

VARIABLES
  dest,   \* dest[c] : the destination[] array of the car's turn function
  steps,  \* steps[c] : how many quadrants the turn crosses (loop bound)
  step    \* step[c] : stepcount

vars == <<synchVars, dest, steps, step>>

\* turns[] = {"NE", "NW", "SW", "SE"}, indexed from 0.
Turns == <<"ne", "nw", "sw", "se">>
Quadrant(i) == Turns[i + 1]

\* The destination[] arrays of gostraight and turnleft for directions[]
\* = {"N", "E", "S", "W"} (0..3): the quadrant indices to cross, then the
\* direction the car leaves to.  turnright crosses one quadrant.
Straight == <<<<1, 2, 2>>, <<0, 1, 3>>, <<3, 0, 0>>, <<2, 3, 1>>>>
Left     == <<<<1, 2, 3, 1>>, <<0, 1, 2, 2>>, <<3, 0, 1, 3>>, <<2, 3, 0, 0>>>>
Right    == <<<<1, 3>>, <<0, 0>>, <<3, 1>>, <<2, 2>>>>

\* The quadrant semaphore of the car's step k (0-based).
QuadAt(c, k) == Quadrant(dest[c][k + 1])

NoDest == <<>>

\* A variant of initialize() creating carcheck with count 4.
CarLimitFour == 4

\* The initial count of carcheck: the number of cars let in at a time.
CarLimit == 3

\* initialize(): carcheck with 3, each quadrant with 1; thread_fork the cars.
Init ==
  /\ pc = [t \in Threads |-> IF t = Main THEN "join" ELSE "approach"]
  /\ SynchInit([s \in Sems |-> IF s = "carcheck" THEN CarLimit ELSE 1])
  /\ dest = [c \in Cars |-> NoDest]
  /\ steps = [c \in Cars |-> 0]
  /\ step = [c \in Cars |-> 0]

\* approachintersection: P(carcheck).
Approach(c) ==
  /\ Ready(c) /\ pc[c] = "approach"
  /\ P(c, "carcheck", "choose")
  /\ UNCHANGED <<dest, steps, step>>

\* A variant whose loop bound is one short (turnleft's `stepcount < 2`,
\* gostraight's `stepcount < 1`): the car leaves from the middle of its
\* route.
ChooseShortLoop(c) ==
  /\ Ready(c) /\ pc[c] = "choose"
  /\ \E d \in Directions, turn \in TurnKinds :
       /\ dest'  = [dest EXCEPT ![c] = CASE turn = 0 -> Right[d + 1]
                                         [] turn = 1 -> Straight[d + 1]
                                         [] turn = 2 -> Left[d + 1]]
       /\ steps' = [steps EXCEPT ![c] = IF turn = 0 THEN 1 ELSE turn]
  /\ step' = [step EXCEPT ![c] = 0]
  /\ Goto(c, "enter")
  /\ UNCHANGED <<sleepaddr, count, held, owner, lockq, cvq, panicked>>

\* cardirection = random() % 4, turndirection = random() % 3, and the
\* turn function's choice of its destination[] array.
Choose(c) ==
  /\ Ready(c) /\ pc[c] = "choose"
  /\ \E d \in Directions, turn \in TurnKinds :
       /\ dest'  = [dest EXCEPT ![c] = CASE turn = 0 -> Right[d + 1]
                                         [] turn = 1 -> Straight[d + 1]
                                         [] turn = 2 -> Left[d + 1]]
       /\ steps' = [steps EXCEPT ![c] = turn + 1]
  /\ step' = [step EXCEPT ![c] = 0]
  /\ Goto(c, "enter")
  /\ UNCHANGED <<sleepaddr, count, held, owner, lockq, cvq, panicked>>

\* The label after the quadrant of step k is held and the one before it
\* given back: the next P, or the final V once the loop bound is reached.
AfterStep(c, k) == IF k + 1 = steps[c] THEN "leave" ELSE "enter"

\* P(nextstep).  On the first step the loop goes straight on (stepcount is
\* 0, nothing to give back); later steps first give back prevstep.
Enter(c) ==
  /\ Ready(c) /\ pc[c] = "enter"
  /\ P(c, QuadAt(c, step[c]),
       IF step[c] = 0 THEN AfterStep(c, 0) ELSE "dropprev")
  /\ step' = IF step[c] = 0 /\ count[QuadAt(c, 0)] > 0
             THEN [step EXCEPT ![c] = 1] ELSE step
  /\ UNCHANGED <<dest, steps>>

\* A variant that gives back nextstep instead of prevstep.
DropPrevWrong(c) ==
  /\ Ready(c) /\ pc[c] = "dropprev"
  /\ V(c, QuadAt(c, step[c]), AfterStep(c, step[c]))
  /\ step' = [step EXCEPT ![c] = @ + 1]
  /\ UNCHANGED <<dest, steps>>

\* V(prevstep); prevstep = nextstep; stepcount++.
DropPrev(c) ==
  /\ Ready(c) /\ pc[c] = "dropprev"
  /\ V(c, QuadAt(c, step[c] - 1), AfterStep(c, step[c]))
  /\ step' = [step EXCEPT ![c] = @ + 1]
  /\ UNCHANGED <<dest, steps>>

\* After the loop: V(prevstep), the quadrant the car is in.
Leave(c) ==
  /\ Ready(c) /\ pc[c] = "leave"
  /\ V(c, QuadAt(c, steps[c] - 1), "exit")
  /\ UNCHANGED <<dest, steps, step>>

\* approachintersection: V(carcheck); the thread exits.
Exit(c) ==
  /\ Ready(c) /\ pc[c] = "exit"
  /\ V(c, "carcheck", "done")
  /\ UNCHANGED <<dest, steps, step>>

\* A variant of the driver's wait testing thread_count() > 0.
JoinCountsSelf ==
  /\ Ready(Main) /\ pc[Main] = "join"
  /\ \A t \in Threads : pc[t] = "done"
  /\ Goto(Main, "terminate")
  /\ UNCHANGED <<sleepaddr, count, held, owner, lockq, cvq, panicked, dest, steps, step>>

\* createcars: `while (thread_count() > 1) thread_yield();`.
Join ==
  /\ Ready(Main) /\ pc[Main] = "join"
  /\ \A c \in Cars : pc[c] = "done"
  /\ Goto(Main, "terminate")
  /\ UNCHANGED <<sleepaddr, count, held, owner, lockq, cvq, panicked, dest, steps, step>>

\* terminate(): sem_destroy of carcheck, ne, nw, se, sw, each asserting
\* that nobody sleeps on it.
Terminate ==
  /\ Ready(Main) /\ pc[Main] = "terminate"
  /\ IF \E u \in Threads : sleepaddr[u] \in Sems
     THEN panicked' = TRUE /\ UNCHANGED pc
     ELSE Goto(Main, "end") /\ UNCHANGED panicked
  /\ UNCHANGED <<sleepaddr, count, held, owner, lockq, cvq, dest, steps, step>>

Car(c) == Approach(c) \/ Choose(c) \/ Enter(c) \/ DropPrev(c) \/ Leave(c) \/ Exit(c)

Next == (\E c \in Cars : Car(c)) \/ Join \/ Terminate

\* Timer preemption runs every runnable thread in turn (see CatMouse).
Fairness == (\A c \in Cars : WF_vars(Car(c))) /\ WF_vars(Join \/ Terminate)

Spec == Init /\ [][Next]_vars /\ Fairness

-----------------------------------------------------------------------------
\* The quadrant semaphores car c holds in its current state.
Holds(c) ==
  CASE pc[c] = "enter" /\ step[c] > 0 -> {QuadAt(c, step[c] - 1)}
    [] pc[c] = "dropprev" -> {QuadAt(c, step[c] - 1), QuadAt(c, step[c])}
    [] pc[c] = "leave"    -> {QuadAt(c, steps[c] - 1)}
    [] OTHER              -> {}

\* The cars past P(carcheck) and before V(carcheck).
Inside == {c \in Cars : pc[c] \in {"choose", "enter", "dropprev", "leave", "exit"}}

\* Each semaphore's count is its initial count less the cars holding it:
\* no quadrant ever has two cars in it, and no more than
\* CarLimit cars are in the intersection, across every interleaving of
\* the hand-over-hand walk.
SemaphoreAccounting ==
  /\ \A i \in 0..3 :
       count[Quadrant(i)] + Cardinality({c \in Cars : Quadrant(i) \in Holds(c)}) = 1
  /\ count["carcheck"] + Cardinality(Inside) = CarLimit

\* The limit of three cars rules out a circular wait: whenever a car is
\* still on its way, some thread can run.
NoDeadlock ==
  (\A c \in Cars : pc[c] # "done" => sleepaddr[c] # NoAddr)
    => \A c \in Cars : pc[c] = "done"

\* Every car eventually leaves the intersection and the driver finishes.
AllCarsLeave == <>(\A t \in Threads : pc[t] \in {"done", "end"})
\* The intersection seen at the level of AbstractIntersection.  A car is
\* in from P(carcheck) to V(carcheck); its route is the quadrants of its
\* destination[] array up to the loop bound; it has entered the quadrant
\* of each P it has passed and given back the quadrant of each V.
CarStatus(c) ==
  CASE pc[c] = "approach" -> "out"
    [] pc[c] = "done"     -> "gone"
    [] OTHER              -> "in"

CarRoute(c) ==
  IF pc[c] \in {"approach", "choose"} THEN << >>
  ELSE [i \in 1..steps[c] |-> QuadAt(c, i - 1)]

Entered(c) ==
  CASE pc[c] = "dropprev"              -> step[c] + 1
    [] pc[c] \in {"enter", "leave"}    -> step[c]
    [] pc[c] \in {"exit", "done"}      -> steps[c]
    [] OTHER                           -> 0

GivenBack(c) ==
  CASE pc[c] = "dropprev"              -> step[c] - 1
    [] pc[c] = "enter" /\ step[c] > 0  -> step[c] - 1
    [] pc[c] = "leave"                 -> step[c] - 1
    [] pc[c] \in {"exit", "done"}      -> steps[c]
    [] OTHER                           -> 0

\* The routes destination[] gives for the directions and turns the cars
\* may draw.
RoutesOf(d, turn) ==
  LET tbl == CASE turn = 0 -> Right[d + 1]
               [] turn = 1 -> Straight[d + 1]
               [] turn = 2 -> Left[d + 1]
  IN  [i \in 1..turn + 1 |-> Quadrant(tbl[i])]

Crossing == INSTANCE AbstractIntersection
  WITH Routes <- {RoutesOf(d, t) : d \in Directions, t \in TurnKinds},
       Limit <- CarLimit,
       status <- [c \in Cars |-> CarStatus(c)],
       route <- [c \in Cars |-> CarRoute(c)],
       front <- [c \in Cars |-> Entered(c)],
       back <- [c \in Cars |-> GivenBack(c)]

\* The semaphore protocol implements the abstract intersection: every step
\* of a car (each P, V and sleep) is an admission, a route choice, the
\* entry into the next quadrant of its route while no other car is in it,
\* the release of the oldest quadrant it holds, a departure, or no visible
\* step.  A car that skips or repeats a quadrant, stops short of its
\* route, or gives back a quadrant it is not leaving breaks it.
RefinesIntersection == Crossing!Spec
=============================================================================
