\* With the clock past 2020-09-13, findoldestpage finds no frame older than its start value and swapout(-1) follows.
CONSTANTS
  a1 = a1  a2 = a2  pc = pc  pd = pd  ps = ps  px = px
  NoAS = NoAS  NoPage = NoPage
  AS = {a1}
  InitAS = {a1}
  Pages = {pc, pd, ps, px}
  Kind <- MCKind
  PageSize = 8
  UserStack = 512
  Images <- MCImages
  Starts <- MCStarts
  Linked <- MCLinked
  NFrames = 2
  NSlots = 2
  MaxEntries = 3
  MaxKPages = 1
  DiskWriteFails = FALSE
  LoadFails = FALSE
  DiskReadFails = FALSE
  KernelFaults = FALSE
  ClockPastCutoff = TRUE
SPECIFICATION Spec
INVARIANT NoPanic
\* The kernel stops at a panic and a process stops at exit; both are
\* terminal states of the model.
CHECK_DEADLOCK FALSE
