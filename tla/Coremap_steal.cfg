\* One fault and one kmalloc over two frames, no nested kmalloc: the
\* kernel thread can run between the fault's findavailablepage and its
\* page_alloc and take the same free frame.
CONSTANTS
  p1 = p1  k1 = k1  NoAddr = NoAddr  pl = pl  cl = cl
  Faulters = {p1}
  KThreads = {k1}
  Threads = {p1, k1}
  NFrames = 2
  Touches = 1
  HeapGrows = FALSE
  PageLock = pl
  CoreLock = cl
  Locks = {pl, cl}
  Sems = {}
  CVs = {}
SPECIFICATION Spec
INVARIANT FrameOwnersAgree
CHECK_DEADLOCK FALSE
