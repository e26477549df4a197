\* Two user threads faulting twice each and one kernel thread doing a
\* kmalloc and its kfree over two frames: faults evict each other and
\* alloc_kpages evicts a user page or races a fault for a free frame.
CONSTANTS
  p1 = p1  p2 = p2  k1 = k1  NoAddr = NoAddr  pl = pl  cl = cl
  Faulters = {p1, p2}
  KThreads = {k1}
  Threads = {p1, p2, k1}
  NFrames = 2
  Touches = 2
  HeapGrows = TRUE
  PageLock = pl
  CoreLock = cl
  Locks = {pl, cl}
  Sems = {}
  CVs = {}
SPECIFICATION Spec
INVARIANT NoDeadlock
PROPERTY Terminates
CHECK_DEADLOCK FALSE
