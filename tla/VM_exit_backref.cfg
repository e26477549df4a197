\* VM_exit_backref0
CONSTANTS
  a1 = a1  a2 = a2  pc = pc  pd = pd  ps = ps  px = px
  NoAS = NoAS  NoPage = NoPage
  AS = {a1, a2}
  InitAS = {a1}
  Pages = {pc, pd}
  Kind <- MCKind
  PageSize = 8
  UserStack = 512
  Images <- MCImages
  Starts <- MCStarts
  Linked <- MCLinked
  NFrames = 2
  NSlots = 3
  MaxEntries = 4
  MaxKPages = 0
  DiskWriteFails = FALSE
  LoadFails = FALSE
  DiskReadFails = FALSE
  KernelFaults = FALSE
  ClockPastCutoff = FALSE
SPECIFICATION Spec
INVARIANT FrameBackRef
CHECK_DEADLOCK FALSE
