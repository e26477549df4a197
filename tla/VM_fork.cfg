\* Two processes (the second created by fork), eviction and swap: the
\* reference counts and slot bitmap under sharing, copy-on-write and exit.
CONSTANTS
  a1 = a1  a2 = a2  pc = pc  pd = pd  ps = ps  px = px
  NoAS = NoAS  NoPage = NoPage
  AS = {a1, a2}
  InitAS = {a1}
  Pages = {pc, pd}
  Kind <- MCKind
  PageSize = 8
  UserStack = 512
  Images <- MCImages
  Starts <- MCStarts
  Linked <- MCLinked
  NFrames = 2
  NSlots = 3
  MaxEntries = 4
  MaxKPages = 0
  DiskWriteFails = FALSE
  LoadFails = FALSE
  DiskReadFails = FALSE
  KernelFaults = FALSE
  ClockPastCutoff = FALSE
SPECIFICATION Spec
INVARIANT RefcountConservation SwapSlotAccounting
CHECK_DEADLOCK FALSE
