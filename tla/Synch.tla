-------------------------------- MODULE Synch --------------------------------
(***************************************************************************)
(* The synchronisation primitives of src/thread/synch.c: counting          *)
(* semaphores, locks with a FIFO wait queue, and condition variables, all *)
(* built on the kernel's thread_sleep(addr) / thread_wakeup(addr).         *)
(*                                                                         *)
(* The kernel runs on one CPU.  Code between splhigh() and splx() runs     *)
(* with interrupts off and is one step here; a thread can be preempted by *)
(* the timer anywhere else.  thread_sleep(addr) blocks the thread until a *)
(* thread_wakeup(addr) makes every thread sleeping on addr runnable       *)
(* again.  A lock sleeper sleeps on its own thread address, so waking the *)
(* head of a lock or condition queue wakes exactly that thread.            *)
(*                                                                         *)
(* Each operator below is the step a thread t at some label takes; `next` *)
(* is the label it moves to when the step completes.  A thread that goes  *)
(* to sleep keeps its label, so when it is woken it runs the step again:  *)
(* that is the `while` loop around thread_sleep in P and lock_acquire.    *)
(* The clients (CatMouse, Stoplight, CvMonitor) EXTEND this module and    *)
(* give each thread its program.                                           *)
(***************************************************************************)
EXTENDS Naturals, SequencesExt

CONSTANTS
  Threads,  \* the kernel threads of the client
  Sems,     \* the semaphores
  Locks,    \* the locks
  CVs,      \* the condition variables
  NoAddr    \* "not sleeping" and "no owner" (lock->owner == 0)

VARIABLES
  pc,        \* pc[t] : the label thread t executes next
  sleepaddr, \* sleepaddr[t] : the address t sleeps on, NoAddr if runnable
  count,     \* count[s] : sem->count
  held,      \* held[l] : lock->isHeld
  owner,     \* owner[l] : lock->owner
  lockq,     \* lockq[l] : lock->waitqueue
  cvq,       \* cvq[c] : cv->waitqueue
  panicked   \* a failed kernel assertion has stopped the machine

synchVars == <<pc, sleepaddr, count, held, owner, lockq, cvq, panicked>>

\* A thread can be scheduled when it is not asleep and the kernel runs.
Ready(t) == ~panicked /\ sleepaddr[t] = NoAddr

Goto(t, l) == pc' = [pc EXCEPT ![t] = l]

\* thread_sleep(addr) for the running thread t.
Sleep(t, addr) == sleepaddr' = [sleepaddr EXCEPT ![t] = addr]

\* thread_wakeup(addr): every thread asleep on addr becomes runnable.
Wakeup(sa, addr) == [u \in Threads |-> IF sa[u] = addr THEN NoAddr ELSE sa[u]]

SynchInit(initCount) ==
  /\ sleepaddr = [t \in Threads |-> NoAddr]
  /\ count = initCount
  /\ held = [l \in Locks |-> FALSE]
  /\ owner = [l \in Locks |-> NoAddr]
  /\ lockq = [l \in Locks |-> <<>>]
  /\ cvq = [c \in CVs |-> <<>>]
  /\ panicked = FALSE

(***************************************************************************)
(* Semaphores.                                                             *)
(***************************************************************************)
\* P(sem): sleep on the semaphore while its count is 0, then take one.
P(t, s, next) ==
  /\ IF count[s] = 0
     THEN Sleep(t, s) /\ UNCHANGED <<pc, count>>
     ELSE /\ count' = [count EXCEPT ![s] = @ - 1]
          /\ Goto(t, next)
          /\ UNCHANGED sleepaddr
  /\ UNCHANGED <<held, owner, lockq, cvq, panicked>>

\* A variant of V without the thread_wakeup.
VNoWakeup(t, s, next) ==
  /\ count' = [count EXCEPT ![s] = @ + 1]
  /\ Goto(t, next)
  /\ UNCHANGED <<sleepaddr, held, owner, lockq, cvq, panicked>>

\* V(sem): give one back and wake every thread sleeping on the semaphore.
V(t, s, next) ==
  /\ count' = [count EXCEPT ![s] = @ + 1]
  /\ sleepaddr' = Wakeup(sleepaddr, s)
  /\ Goto(t, next)
  /\ UNCHANGED <<held, owner, lockq, cvq, panicked>>

\* sem_destroy: assert that no thread sleeps on the semaphore.
SemDestroy(t, s, next) ==
  /\ IF \E u \in Threads : sleepaddr[u] = s
     THEN panicked' = TRUE /\ UNCHANGED pc
     ELSE Goto(t, next) /\ UNCHANGED panicked
  /\ UNCHANGED <<sleepaddr, count, held, owner, lockq, cvq>>

(***************************************************************************)
(* Locks.                                                                  *)
(***************************************************************************)
\* A variant of lock_acquire with `if` for `while`: a woken thread goes on
\* into its critical section without looking at isHeld again.
LockAcquireNoRecheck(t, l, next) ==
  /\ IF held[l]
     THEN /\ lockq' = [lockq EXCEPT ![l] = Append(@, t)]
          /\ Sleep(t, t)
          /\ Goto(t, next)
          /\ UNCHANGED <<held, owner>>
     ELSE /\ held' = [held EXCEPT ![l] = TRUE]
          /\ owner' = [owner EXCEPT ![l] = t]
          /\ Goto(t, next)
          /\ UNCHANGED <<lockq, sleepaddr>>
  /\ UNCHANGED <<count, cvq, panicked>>

\* lock_acquire: while the lock is held, queue up and sleep on curthread;
\* then take it.  A woken thread competes again with any thread that
\* reached lock_acquire meanwhile, and re-queues at the tail if it loses.
LockAcquire(t, l, next) ==
  /\ IF held[l]
     THEN /\ lockq' = [lockq EXCEPT ![l] = Append(@, t)]
          /\ Sleep(t, t)
          /\ UNCHANGED <<pc, held, owner>>
     ELSE /\ held' = [held EXCEPT ![l] = TRUE]
          /\ owner' = [owner EXCEPT ![l] = t]
          /\ Goto(t, next)
          /\ UNCHANGED <<lockq, sleepaddr>>
  /\ UNCHANGED <<count, cvq, panicked>>

\* A variant of lock_release that frees the lock but wakes no one.
LockReleaseNoWakeup(t, l, next) ==
  /\ IF held[l] /\ owner[l] = t
     THEN /\ held' = [held EXCEPT ![l] = FALSE]
          /\ owner' = [owner EXCEPT ![l] = NoAddr]
     ELSE UNCHANGED <<held, owner>>
  /\ Goto(t, next)
  /\ UNCHANGED <<sleepaddr, lockq, count, cvq, panicked>>

\* lock_release: only the owner releases (a call by any other thread does
\* nothing); the head of the wait queue, if any, is dequeued and woken.
LockRelease(t, l, next) ==
  /\ IF held[l] /\ owner[l] = t
     THEN /\ held' = [held EXCEPT ![l] = FALSE]
          /\ owner' = [owner EXCEPT ![l] = NoAddr]
          /\ IF lockq[l] # <<>>
             THEN /\ lockq' = [lockq EXCEPT ![l] = Tail(@)]
                  /\ sleepaddr' = Wakeup(sleepaddr, Head(lockq[l]))
             ELSE UNCHANGED <<lockq, sleepaddr>>
     ELSE UNCHANGED <<held, owner, lockq, sleepaddr>>
  /\ Goto(t, next)
  /\ UNCHANGED <<count, cvq, panicked>>

\* lock_destroy: sleep (queued like an acquirer) while the lock is held;
\* then q_destroy the wait queue, whose assertion that the queue is empty
\* (kern/lib/queue.c) stops the kernel if a thread is still queued.
LockDestroy(t, l, next) ==
  /\ IF held[l]
     THEN /\ lockq' = [lockq EXCEPT ![l] = Append(@, t)]
          /\ Sleep(t, t)
          /\ UNCHANGED <<pc, panicked>>
     ELSE /\ UNCHANGED <<lockq, sleepaddr>>
          /\ IF lockq[l] # << >>
             THEN panicked' = TRUE /\ UNCHANGED pc
             ELSE Goto(t, next) /\ UNCHANGED panicked
  /\ UNCHANGED <<count, held, owner, cvq>>

(***************************************************************************)
(* Condition variables.  cv_wait is three steps: lock_release(lock) runs *)
(* with interrupts on, then the enqueue and thread_sleep under splhigh,   *)
(* then lock_acquire(lock) once woken.                                    *)
(***************************************************************************)
\* The middle of cv_wait: append curthread to the queue and sleep.
CvEnqueue(t, c, next) ==
  /\ cvq' = [cvq EXCEPT ![c] = Append(@, t)]
  /\ Sleep(t, t)
  /\ Goto(t, next)
  /\ UNCHANGED <<count, held, owner, lockq, panicked>>

\* A variant of cv_signal that wakes the head of the queue but leaves it
\* there (reading it with q_getguy instead of q_remhead).
CvSignalNoRemove(t, c, next) ==
  /\ IF cvq[c] # <<>>
     THEN /\ sleepaddr' = Wakeup(sleepaddr, Head(cvq[c]))
          /\ Goto(t, next)
          /\ UNCHANGED <<panicked, cvq>>
     ELSE panicked' = TRUE /\ UNCHANGED <<pc, cvq, sleepaddr>>
  /\ UNCHANGED <<count, held, owner, lockq>>

\* cv_signal: wake the thread q_remhead takes off the queue.  q_remhead
\* (kern/lib/queue.c) asserts that the queue is not empty, so a signal
\* with no waiter stops the kernel.
CvSignal(t, c, next) ==
  /\ IF cvq[c] # <<>>
     THEN /\ cvq' = [cvq EXCEPT ![c] = Tail(@)]
          /\ sleepaddr' = Wakeup(sleepaddr, Head(cvq[c]))
          /\ Goto(t, next)
          /\ UNCHANGED panicked
     ELSE panicked' = TRUE /\ UNCHANGED <<pc, cvq, sleepaddr>>
  /\ UNCHANGED <<count, held, owner, lockq>>

\* cv_broadcast: dequeue and wake every waiter.
CvBroadcast(t, c, next) ==
  /\ cvq' = [cvq EXCEPT ![c] = <<>>]
  /\ sleepaddr' = [u \in Threads |->
                     IF u \in ToSet(cvq[c]) /\ sleepaddr[u] = u THEN NoAddr
                     ELSE sleepaddr[u]]
  /\ Goto(t, next)
  /\ UNCHANGED <<count, held, owner, lockq, panicked>>

\* cv_destroy: q_destroy the wait queue and free the cv.  q_destroy
\* (kern/lib/queue.c) asserts that the queue is empty, so destroying a cv
\* with a thread still queued on it stops the kernel.
CvDestroy(t, c, next) ==
  /\ IF cvq[c] # <<>>
     THEN panicked' = TRUE /\ UNCHANGED pc
     ELSE Goto(t, next) /\ UNCHANGED panicked
  /\ UNCHANGED <<sleepaddr, count, held, owner, lockq, cvq>>

(***************************************************************************)
(* Properties of the primitives, for the clients to check.                *)
(***************************************************************************)
SynchTypeOK ==
  /\ sleepaddr \in [Threads -> Threads \cup Sems \cup {NoAddr}]
  /\ count \in [Sems -> Nat]
  /\ held \in [Locks -> BOOLEAN]
  /\ owner \in [Locks -> Threads \cup {NoAddr}]
  /\ lockq \in [Locks -> Seq(Threads)]
  /\ cvq \in [CVs -> Seq(Threads)]
  /\ panicked \in BOOLEAN

\* Every thread in a lock's or condition variable's queue is asleep on its
\* own address, and every thread asleep on its own address is in exactly
\* one queue, exactly once: lock_release and cv_signal wake a thread only
\* by taking it off a queue, so a sleeper missing from every queue is
\* never woken.
QueuesMatchSleepers ==
  \A t \in Threads :
    LET slots(q) == {i \in DOMAIN q : q[i] = t}
        places == UNION {{<<l, i>> : i \in slots(lockq[l])} : l \in Locks}
                  \cup UNION {{<<c, i>> : i \in slots(cvq[c])} : c \in CVs}
    IN  (sleepaddr[t] = t) <=> Cardinality(places) = 1

\* A free lock never has only sleepers behind it: if the lock is not held
\* while threads are queued on it, some thread that lock_release woke is
\* still on its way back to retry.
NoStrandedLockWaiters(retrying(_)) ==
  \A l \in Locks :
    ~held[l] /\ lockq[l] # <<>> =>
      \E t \in Threads : sleepaddr[t] = NoAddr /\ retrying(t)
=============================================================================
