CONSTANTS
  w1 = w1  w2 = w2  sig = sig  NoAddr = NoAddr  lk = lk  cv = cv
  Waiters = {w1, w2}
  Signaller = sig
  Threads = {w1, w2, sig}
  WakeOps = {"broadcast"}
  L = lk
  C = cv
  Locks = {lk}
  CVs = {cv}
  Sems = {}
SPECIFICATION Spec
PROPERTY WaitersFinish
CHECK_DEADLOCK FALSE
