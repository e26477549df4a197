\* Four cars, one more than carcheck admits, all turning left: the left
\* route from each direction crosses three quadrants and contains the
\* straight and right routes from that direction as prefixes, so every pair
\* of cars contends and four cars could close the circular wait that the
\* limit of three must prevent.  No symmetry: it is not sound for liveness.
CONSTANTS
  c1 = c1  c2 = c2  c3 = c3  c4 = c4  main = main  NoAddr = NoAddr
  Cars = {c1, c2, c3, c4}
  Main = main
  Threads = {c1, c2, c3, c4, main}
  Sems = {"carcheck", "ne", "nw", "sw", "se"}
  Locks = {}
  CVs = {}
  Directions = {0, 1, 2, 3}
  TurnKinds = {2}
SPECIFICATION Spec
INVARIANT SemaphoreAccounting NoDeadlock
PROPERTY AllCarsLeave RefinesIntersection
CHECK_DEADLOCK FALSE
