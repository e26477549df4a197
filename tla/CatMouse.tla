------------------------------- MODULE CatMouse -------------------------------
(***************************************************************************)
(* The cat/mouse exercise, src/asst2/catlock.c and src/asst2/catsem.c.    *)
(* Every cat and mouse thread eats NMEALS times; each meal is taken while *)
(* holding the lock `checkbowl` (catlock.c, Mode "lock") or the semaphore *)
(* `eating` created with count 1 (catsem.c, Mode "sem").  The driver      *)
(* thread forks the animals, yields until it is the last thread, and in  *)
(* catlock.c destroys the lock.  Cats and mice run the same code, so the *)
(* animals are one set.                                                    *)
(***************************************************************************)
EXTENDS Synch

CONSTANTS
  Animals,    \* the NCATS + NMICE eating threads
  Main,       \* the driver thread catmouselock / catmousesem
  NMeals,     \* NMEALS
  Mode,       \* "lock" (catlock.c) or "sem" (catsem.c)
  checkbowl,  \* the lock of catlock.c
  eating      \* the semaphore of catsem.c

ASSUME Threads = Animals \cup {Main} /\ Main \notin Animals
ASSUME Mode \in {"lock", "sem"} /\ NMeals \in Nat \ {0}
ASSUME Locks = IF Mode = "lock" THEN {checkbowl} ELSE {}
ASSUME Sems = IF Mode = "sem" THEN {eating} ELSE {}

VARIABLE meals  \* meals[a] : the loop's `iteration`

vars == <<synchVars, meals>>

\* Taking and giving back the bowl, with the primitive of the variant.
TakeBowl(a, next) ==
  IF Mode = "lock" THEN LockAcquire(a, checkbowl, next) ELSE P(a, eating, next)
GiveBowl(a, next) ==
  IF Mode = "lock" THEN LockRelease(a, checkbowl, next) ELSE V(a, eating, next)

\* A variant of initialize() creating the semaphore with count 2.
InitTwoBowls ==
  /\ pc = [t \in Threads |-> IF t = Main THEN "join" ELSE "top"]
  /\ SynchInit([s \in Sems |-> 2])
  /\ meals = [a \in Animals |-> 0]

\* initialize(): create the lock, or the semaphore with count 1; thread_fork
\* every animal.
Init ==
  /\ pc = [t \in Threads |-> IF t = Main THEN "join" ELSE "top"]
  /\ SynchInit([s \in Sems |-> 1])
  /\ meals = [a \in Animals |-> 0]

\* A variant of the loop head testing iteration <= NMEALS.
TopOffByOne(a) ==
  /\ Ready(a) /\ pc[a] = "top"
  /\ IF meals[a] = NMeals + 1
     THEN Goto(a, "done") /\ UNCHANGED <<sleepaddr, count, held, owner, lockq,
                                         cvq, panicked, meals>>
     ELSE TakeBowl(a, "eat") /\ UNCHANGED meals

\* The loop head: an animal with NMEALS meals exits, else it takes the bowl.
Top(a) ==
  /\ Ready(a) /\ pc[a] = "top"
  /\ IF meals[a] = NMeals
     THEN Goto(a, "done") /\ UNCHANGED <<sleepaddr, count, held, owner, lockq,
                                         cvq, panicked, meals>>
     ELSE TakeBowl(a, "eat") /\ UNCHANGED meals

\* catmouse_eat(...) and iteration++, holding the bowl.
Eat(a) ==
  /\ Ready(a) /\ pc[a] = "eat"
  /\ meals' = [meals EXCEPT ![a] = @ + 1]
  /\ Goto(a, "release")
  /\ UNCHANGED <<sleepaddr, count, held, owner, lockq, cvq, panicked>>

\* lock_release(checkbowl) or V(eating), back to the loop head.
Release(a) ==
  /\ Ready(a) /\ pc[a] = "release"
  /\ GiveBowl(a, "top")
  /\ UNCHANGED meals

\* A variant of the driver's wait testing thread_count() > 0, which
\* counts the driver itself.
JoinCountsSelf ==
  /\ Ready(Main) /\ pc[Main] = "join"
  /\ \A t \in Threads : pc[t] = "done"
  /\ Goto(Main, IF Mode = "lock" THEN "terminate" ELSE "end")
  /\ UNCHANGED <<sleepaddr, count, held, owner, lockq, cvq, panicked, meals>>

\* The driver's `while (thread_count() > 1) thread_yield();`: it moves on
\* once every animal thread has exited.
Join ==
  /\ Ready(Main) /\ pc[Main] = "join"
  /\ \A a \in Animals : pc[a] = "done"
  /\ Goto(Main, IF Mode = "lock" THEN "terminate" ELSE "end")
  /\ UNCHANGED <<sleepaddr, count, held, owner, lockq, cvq, panicked, meals>>

\* terminate(): lock_destroy(checkbowl) (catlock.c only).
Terminate ==
  /\ Ready(Main) /\ pc[Main] = "terminate"
  /\ LockDestroy(Main, checkbowl, "end")
  /\ UNCHANGED meals

Animal(a) == Top(a) \/ Eat(a) \/ Release(a)

Next == (\E a \in Animals : Animal(a)) \/ Join \/ Terminate

\* The timer interrupt preempts the running thread and the scheduler runs
\* every runnable thread in turn, so a thread that stays runnable takes its
\* next step.
Fairness == (\A a \in Animals : WF_vars(Animal(a))) /\ WF_vars(Join \/ Terminate)

Spec == Init /\ [][Next]_vars /\ Fairness

-----------------------------------------------------------------------------
TypeOK ==
  /\ SynchTypeOK
  /\ pc \in [Threads -> {"top", "eat", "release", "done", "join", "terminate", "end"}]
  /\ meals \in [Animals -> 0..NMeals]

\* The animals between taking and giving back the bowl.
Eating == {a \in Animals : pc[a] \in {"eat", "release"}}

\* At most one animal eats at a time, and the primitive agrees on who: the
\* lock is held exactly while an animal eats and is owned by it, or the
\* semaphore count is 0 exactly then.
BowlExclusive ==
  /\ Cardinality(Eating) <= 1
  /\ Mode = "lock" =>
       /\ held[checkbowl] <=> Eating # {}
       /\ \A a \in Eating : owner[checkbowl] = a
  /\ Mode = "sem" => count[eating] = 1 - Cardinality(Eating)

\* Sleepers and queues agree (see Synch), and the lock is never free with
\* only sleepers queued behind it.
LockQueueSound ==
  /\ QueuesMatchSleepers
  /\ NoStrandedLockWaiters(LAMBDA t : pc[t] \in {"top", "terminate"})

\* The bowl and the meals seen at the level of AbstractBowl: the animal
\* eating holds the bowl, and a meal counts once the bowl is given back.
BowlHolder == IF Eating = {} THEN NoAddr ELSE CHOOSE a \in Eating : TRUE
MealsDone == [a \in Animals |-> IF pc[a] = "release" THEN meals[a] - 1 ELSE meals[a]]

Bowl == INSTANCE AbstractBowl WITH None <- NoAddr, holder <- BowlHolder, meals <- MealsDone

\* Either variant implements the abstract bowl: every step of the lock or
\* semaphore protocol, sleeps and wakeups included, is a take, a put or a
\* step the bowl does not see, and the fairness of timer preemption gives
\* the abstract fairness, so every animal eats all its meals.
RefinesBowl == Bowl!Spec

\* Every animal eventually eats all its meals and exits, and the driver
\* finishes: neither primitive loses a wakeup or starves a thread for ever
\* when each thread has finitely many meals.
AllFed == <>(\A t \in Threads : pc[t] \in {"done", "end"})
=============================================================================
