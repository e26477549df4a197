\* Four cars over every direction and turn, up to permutation of the cars
\* (safety only: symmetry is not sound for liveness).
CONSTANTS
  c1 = c1  c2 = c2  c3 = c3  c4 = c4  main = main  NoAddr = NoAddr
  Cars = {c1, c2, c3, c4}
  Main = main
  Threads = {c1, c2, c3, c4, main}
  Sems = {"carcheck", "ne", "nw", "sw", "se"}
  Locks = {}
  CVs = {}
  Directions = {0, 1, 2, 3}
  TurnKinds = {0, 1, 2}
SYMMETRY CarSymmetry
SPECIFICATION Spec
INVARIANT SemaphoreAccounting NoDeadlock

CHECK_DEADLOCK FALSE
