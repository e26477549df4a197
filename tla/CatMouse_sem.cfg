\* catsem.c: two cats and two mice, three meals each.
CONSTANTS
  cat1 = cat1  cat2 = cat2  mouse1 = mouse1  mouse2 = mouse2  main = main
  checkbowl = checkbowl  eating = eating  NoAddr = NoAddr
  Animals = {cat1, cat2, mouse1, mouse2}
  Main = main
  Threads = {cat1, cat2, mouse1, mouse2, main}
  Locks = {}
  Sems = {eating}
  CVs = {}
  NMeals = 3
  Mode = "sem"
SPECIFICATION Spec
INVARIANT TypeOK BowlExclusive
PROPERTY AllFed
\* The test ends when the driver has finished.
CHECK_DEADLOCK FALSE
