CONSTANTS
  w1 = w1  w2 = w2  w3 = w3  sig = sig  NoAddr = NoAddr  lk = lk  cv = cv
  Waiters = {w1, w2, w3}
  Signaller = sig
  Threads = {w1, w2, w3, sig}
  WakeOps = {"signal", "broadcast"}
  L = lk
  C = cv
  Locks = {lk}
  CVs = {cv}
  Sems = {}
SPECIFICATION Spec
INVARIANT MonitorExclusive WaitQueuesSound
CHECK_DEADLOCK FALSE
