\* VM_code_writable0
CONSTANTS
  a1 = a1  a2 = a2  pc = pc  pd = pd  ps = ps  px = px
  NoAS = NoAS  NoPage = NoPage
  AS = {a1}
  InitAS = {a1}
  Pages = {pc, pd, ps, px}
  Kind <- MCKind
  PageSize = 8
  UserStack = 512
  Images <- MCImages
  Starts <- MCStarts
  Linked <- MCLinked
  NFrames = 2
  NSlots = 3
  MaxEntries = 3
  MaxKPages = 0
  DiskWriteFails = FALSE
  LoadFails = FALSE
  DiskReadFails = FALSE
  KernelFaults = FALSE
  ClockPastCutoff = FALSE
SPECIFICATION Spec
INVARIANT CodeWriteProtected
CHECK_DEADLOCK FALSE
