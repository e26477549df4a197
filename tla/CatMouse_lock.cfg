\* catlock.c: two cats and two mice, three meals each.
CONSTANTS
  cat1 = cat1  cat2 = cat2  mouse1 = mouse1  mouse2 = mouse2  main = main
  checkbowl = checkbowl  eating = eating  NoAddr = NoAddr
  Animals = {cat1, cat2, mouse1, mouse2}
  Main = main
  Threads = {cat1, cat2, mouse1, mouse2, main}
  Locks = {checkbowl}
  Sems = {}
  CVs = {}
  NMeals = 3
  Mode = "lock"
SPECIFICATION Spec
INVARIANT TypeOK BowlExclusive LockQueueSound
PROPERTY AllFed RefinesBowl
\* The test ends when the driver has finished.
CHECK_DEADLOCK FALSE
