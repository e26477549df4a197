------------------------------ MODULE CvMonitor ------------------------------
(***************************************************************************)
(* The condition variables of src/thread/synch.c under the usage their    *)
(* interface is written for: waiters take the lock, test a condition and  *)
(* call cv_wait(cv, lock) while it is false; a signaller takes the lock,  *)
(* makes the condition true and calls cv_signal or cv_broadcast.  Nothing *)
(* in src/ calls the condition variables, so this client is the smallest *)
(* one that exercises them; every step inside cv_wait, cv_signal,         *)
(* cv_broadcast, lock_acquire and lock_release is the code's.             *)
(*                                                                         *)
(* cv_wait is three steps: lock_release(lock) with interrupts on, then    *)
(* q_addtail + thread_sleep under splhigh, then lock_acquire(lock).       *)
(***************************************************************************)
EXTENDS Synch

CONSTANTS
  Waiters,    \* threads that wait for the condition
  Signaller,  \* the thread that makes it true
  WakeOps,    \* what the signaller calls: subset of {"signal", "broadcast"}
  L,          \* the monitor lock
  C           \* the condition variable

ASSUME Threads = Waiters \cup {Signaller} /\ Signaller \notin Waiters
ASSUME Locks = {L} /\ CVs = {C} /\ Sems = {}
ASSUME WakeOps \subseteq {"signal", "broadcast"} /\ WakeOps # {}

VARIABLE ready  \* the condition the waiters wait for

vars == <<synchVars, ready>>

Init ==
  /\ pc = [t \in Threads |-> IF t = Signaller THEN "sacq" ELSE "acq"]
  /\ SynchInit([s \in Sems |-> 0])
  /\ ready = FALSE

\* Waiter: lock_acquire(lock).
Acquire(t) ==
  /\ Ready(t) /\ pc[t] = "acq"
  /\ LockAcquire(t, L, "test")
  /\ UNCHANGED ready

\* Waiter: `while (!ready)` under the lock.
Test(t) ==
  /\ Ready(t) /\ pc[t] = "test"
  /\ Goto(t, IF ready THEN "rel" ELSE "wrel")
  /\ UNCHANGED <<sleepaddr, count, held, owner, lockq, cvq, panicked, ready>>

\* cv_wait, first step: lock_release(lock), interrupts still on.
WaitRelease(t) ==
  /\ Ready(t) /\ pc[t] = "wrel"
  /\ LockRelease(t, L, "wsleep")
  /\ UNCHANGED ready

\* cv_wait, second step: splhigh; q_addtail(cv->waitqueue, curthread);
\* thread_sleep(curthread); splx.
WaitSleep(t) ==
  /\ Ready(t) /\ pc[t] = "wsleep"
  /\ CvEnqueue(t, C, "wacq")
  /\ UNCHANGED ready

\* cv_wait, last step: lock_acquire(lock) once woken; then test again.
WaitReacquire(t) ==
  /\ Ready(t) /\ pc[t] = "wacq"
  /\ LockAcquire(t, L, "test")
  /\ UNCHANGED ready

\* Waiter: lock_release(lock) with the condition true.
Leave(t) ==
  /\ Ready(t) /\ pc[t] = "rel"
  /\ LockRelease(t, L, "done")
  /\ UNCHANGED ready

\* Signaller: lock_acquire(lock).
SigAcquire ==
  /\ Ready(Signaller) /\ pc[Signaller] = "sacq"
  /\ LockAcquire(Signaller, L, "set")
  /\ UNCHANGED ready

\* Signaller: make the condition true under the lock.
SetReady ==
  /\ Ready(Signaller) /\ pc[Signaller] = "set"
  /\ ready' = TRUE
  /\ Goto(Signaller, "wake")
  /\ UNCHANGED <<sleepaddr, count, held, owner, lockq, cvq, panicked>>

\* Signaller: cv_signal(cv, lock) or cv_broadcast(cv, lock).
Wake ==
  /\ Ready(Signaller) /\ pc[Signaller] = "wake"
  /\ \/ "signal" \in WakeOps /\ CvSignal(Signaller, C, "srel")
     \/ "broadcast" \in WakeOps /\ CvBroadcast(Signaller, C, "srel")
  /\ UNCHANGED ready

\* Signaller: lock_release(lock).
SigRelease ==
  /\ Ready(Signaller) /\ pc[Signaller] = "srel"
  /\ LockRelease(Signaller, L, "destroy")
  /\ UNCHANGED ready

\* Signaller: cv_destroy(cv), once every waiter has left the monitor (the
\* join a caller makes before freeing what its threads share).
Destroy ==
  /\ Ready(Signaller) /\ pc[Signaller] = "destroy"
  /\ \A t \in Waiters : pc[t] = "done"
  /\ CvDestroy(Signaller, C, "done")
  /\ UNCHANGED ready

Waiter(t) ==
  Acquire(t) \/ Test(t) \/ WaitRelease(t) \/ WaitSleep(t) \/ WaitReacquire(t)
    \/ Leave(t)

Signal == SigAcquire \/ SetReady \/ Wake \/ SigRelease \/ Destroy

Next == (\E t \in Waiters : Waiter(t)) \/ Signal

\* Timer preemption with round-robin scheduling (see CatMouse).
Fairness == (\A t \in Waiters : WF_vars(Waiter(t))) /\ WF_vars(Signal)

Spec == Init /\ [][Next]_vars /\ Fairness

-----------------------------------------------------------------------------
\* The threads at a label where they hold the monitor lock.
InMonitor ==
  {t \in Waiters : pc[t] \in {"test", "wrel", "rel"}}
    \cup {t \in {Signaller} : pc[t] \in {"set", "wake", "srel"}}

\* One thread at a time is inside the monitor, and the lock says which:
\* a waiter woken by cv_signal or cv_broadcast gets back in only through
\* lock_acquire, racing the signaller's lock_release and the other waiters.
MonitorExclusive ==
  /\ Cardinality(InMonitor) <= 1
  /\ held[L] <=> InMonitor # {}
  /\ \A t \in InMonitor : owner[L] = t

\* Sleepers and queues agree (see Synch), and the lock is never free with
\* only sleepers queued behind it, across cv_wait's three steps.
WaitQueuesSound ==
  /\ QueuesMatchSleepers
  /\ NoStrandedLockWaiters(LAMBDA t : pc[t] \in {"acq", "wacq", "sacq"})

\* cv_signal never stops the kernel: a signal is safe whether or not a
\* thread is waiting.
NoPanic == ~panicked

\* Every waiter eventually sees the condition and leaves: no wakeup is lost
\* between cv_wait's lock_release and its thread_sleep.
WaitersFinish == <>(\A t \in Waiters : pc[t] = "done")
=============================================================================
