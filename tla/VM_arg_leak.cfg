\* runprogram returns EFAULT on a failed string copyout without freeing argptr and argtemp.
CONSTANTS
  a1 = a1  a2 = a2  pc = pc  pd = pd  ps = ps  px = px
  NoAS = NoAS  NoPage = NoPage
  AS = {a1}
  InitAS = {a1}
  Pages = {pc, pd, ps, px}
  Kind <- MCKind
  PageSize = 8
  UserStack = 512
  Images <- MCImages
  Starts <- MCStarts
  Linked <- MCLinked
  NFrames = 2
  NSlots = 2
  MaxEntries = 3
  MaxKPages = 1
  DiskWriteFails = FALSE
  LoadFails = TRUE
  DiskReadFails = FALSE
  KernelFaults = FALSE
  ClockPastCutoff = FALSE
SPECIFICATION Spec
INVARIANT NoLeakOnError
\* The kernel stops at a panic and a process stops at exit; both are
\* terminal states of the model.
CHECK_DEADLOCK FALSE
