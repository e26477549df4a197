\* A fault whose addentry kmalloc takes the last free frame, and a kernel
\* thread whose kmalloc then evicts the page the fault has claimed but not
\* yet linked into its page table.
CONSTANTS
  p1 = p1  k1 = k1  NoAddr = NoAddr  pl = pl  cl = cl
  Faulters = {p1}
  KThreads = {k1}
  Threads = {p1, k1}
  NFrames = 2
  Touches = 1
  HeapGrows = TRUE
  PageLock = pl
  CoreLock = cl
  Locks = {pl, cl}
  Sems = {}
  CVs = {}
SPECIFICATION Spec
INVARIANT NoPanic
CHECK_DEADLOCK FALSE
