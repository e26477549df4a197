------------------------------- MODULE Coremap -------------------------------
(***************************************************************************)
(* The coremap of src/vm/vm.c under thread interleaving.                  *)
(* User faults (vm_fault) and kernel allocations (kmalloc ->               *)
(* alloc_kpages, kfree -> free_kpages) share the physical frames.  The    *)
(* two locks of vm_bootstrap serialise parts of the work: page_lock is    *)
(* held across vm_fault, and core_lock is held across swapout and swapin, *)
(* and around the claim step of alloc_kpages.  Neither lock covers the    *)
(* gap between finding a frame (findavailablepage, findoldestpage) and    *)
(* claiming it (page_alloc, swapin, the TRASH assignment).                 *)
(*                                                                         *)
(* One CPU.  The running thread `cur` can be preempted by the timer       *)
(* unless it raised spl.  Every thread leaves the CPU while it sleeps, in  *)
(* lock_acquire or in a disk transfer (VOP_WRITE, VOP_READ).               *)
(* alloc_kpages runs at splhigh from findavailablepage to splx.  The other *)
(* splhigh sections of vm.c and addrspace.c are one step each.            *)
(*                                                                         *)
(* Data is abstracted away.  Each user thread has its own address space   *)
(* with one page, whose page-table entry is absent, resident in a frame   *)
(* or on disk.  A frame's record is its status, its back-reference        *)
(* (as; the vaddress is the one page) and its age stamp.  Swap slots are  *)
(* VM.tla's subject and are left out here.                                 *)
(***************************************************************************)
EXTENDS Synch

CONSTANTS
  Faulters,    \* user threads, each faulting on its own page
  KThreads,    \* kernel threads doing one kmalloc and its kfree
  NFrames,     \* user-eligible frames num_trash+1 .. totalnumpages-2
  Touches,     \* how many times each user thread faults on its page
  HeapGrows,   \* whether addentry's kmalloc may need a fresh kernel page
  PageLock, CoreLock

ASSUME Threads = Faulters \cup KThreads /\ Faulters \cap KThreads = {}
ASSUME Locks = {PageLock, CoreLock} /\ Sems = {} /\ CVs = {}
ASSUME NFrames \in Nat \ {0} /\ Touches \in Nat \ {0} /\ HeapGrows \in BOOLEAN

Frames == 1..NFrames

VARIABLES
  status,   \* status[f] : coremap[f]->status
  cas,      \* cas[f] : coremap[f]->as, a user thread or NoAddr (NULL)
  stamp,    \* stamp[f] : coremap[f]->secs/nsecs, as a rank (0 = zeroed)
  pte,      \* pte[p] : the page-table entry of p's page
  idx,      \* idx[t] : vm_fault's local `index`
  kidx,     \* kidx[t] : alloc_kpages's local `index`
  sidx,     \* sidx[t] : swapout's parameter `index`
  soret,    \* soret[t] : where swapout returns to
  karet,    \* karet[t] : where alloc_kpages returns to
  kpages,   \* kpages[t] : the kernel pages t's kmallocs took
  spl,      \* the threads inside alloc_kpages's splhigh section
  cur,      \* the thread on the CPU
  left      \* left[p] : faults p still has to take

vars == <<synchVars, status, cas, stamp, pte, idx, kidx, sidx, soret, karet,
          kpages, spl, cur, left>>

Absent == [where |-> "absent", frame |-> 0]
OnDisk == [where |-> "disk", frame |-> 0]
Mem(f) == [where |-> "mem", frame |-> f]

(***************************************************************************)
(* Age stamps.  gettime() gives a time later than every earlier stamp.    *)
(* free_kpages zeroes the stamp.  Stamps are kept as dense ranks, with 0   *)
(* kept for a zeroed stamp, so the state space stays finite.              *)
(***************************************************************************)
Normalize(s) ==
  [f \in Frames |->
     IF s[f] = 0 THEN 0
     ELSE 1 + Cardinality({s[g] : g \in {g \in Frames : 0 < s[g] /\ s[g] < s[f]}})]

Restamp(f) ==
  stamp' = Normalize([stamp EXCEPT ![f] = 1 + Max({stamp[g] : g \in Frames})])

\* findavailablepage: the lowest FREE frame, 0 if there is none.
FindAvailable ==
  IF \E f \in Frames : status[f] = "FREE"
  THEN Min({f \in Frames : status[f] = "FREE"}) ELSE 0

\* The first frame of S, in index order, whose stamp is smallest (the
\* scan keeps the earlier frame on a tie).
OldestOf(S) == Min({f \in S : \A g \in S : stamp[f] <= stamp[g]})

\* findoldestpage: the oldest non-TRASH frame.  When every frame is TRASH,
\* the second pass returns the oldest frame of all.
FindOldest ==
  IF \E f \in Frames : status[f] # "TRASH"
  THEN OldestOf({f \in Frames : status[f] # "TRASH"}) ELSE OldestOf(Frames)

(***************************************************************************)
(* Scheduling.  A step by t other than `cur` is a context switch.  The    *)
(* switch is possible only when `cur` sleeps, waits on the disk, has     *)
(* finished, or runs with interrupts on.                                  *)
(***************************************************************************)
DiskWait == {"so_write", "si_read"}

Preemptible(u) ==
  u \notin spl \/ sleepaddr[u] # NoAddr \/ pc[u] \in DiskWait \cup {"done"}

Run(t) == Ready(t) /\ (t = cur \/ Preemptible(cur)) /\ cur' = t

Panic == panicked' = TRUE /\ UNCHANGED pc

Init ==
  /\ pc = [t \in Threads |-> IF t \in Faulters THEN "fault" ELSE "ka_find"]
  /\ SynchInit([s \in Sems |-> 0])
  /\ status = [f \in Frames |-> "FREE"]
  /\ cas = [f \in Frames |-> NoAddr]
  \* vm_bootstrap never sets secs/nsecs: the first stamps are whatever the
  \* memory held.
  /\ stamp \in {Normalize(s) : s \in [Frames -> 0..1]}
  /\ pte = [p \in Faulters |-> Absent]
  /\ idx = [t \in Threads |-> 0]
  /\ kidx = [t \in Threads |-> 0]
  /\ sidx = [t \in Threads |-> 0]
  /\ soret = [t \in Threads |-> "done"]
  /\ karet = [t \in Threads |-> IF t \in KThreads THEN "kfree" ELSE "done"]
  /\ kpages = [t \in Threads |-> {}]
  /\ spl = {}
  /\ cur \in Threads
  /\ left = [p \in Faulters |-> Touches]

cm == <<status, cas, stamp>>
locals == <<idx, kidx, sidx, soret, karet>>
\* Synch's variables other than pc.
rest == <<sleepaddr, count, held, owner, lockq, cvq, panicked>>

(***************************************************************************)
(* vm_fault on the thread's own page (vm.c 234-266, 343-369, 426-431).     *)
(***************************************************************************)
\* lock_acquire(page_lock).
Fault(p) ==
  /\ Run(p) /\ pc[p] = "fault"
  /\ LockAcquire(p, PageLock, "lookup")
  /\ UNCHANGED <<cm, pte, locals, kpages, spl, left>>

\* findentry: a resident entry goes straight to the TLB; a missing entry
\* or one on disk needs a frame.
Lookup(p) ==
  /\ Run(p) /\ pc[p] = "lookup"
  /\ Goto(p, IF pte[p].where = "mem" THEN "tlb" ELSE "find")
  /\ UNCHANGED <<rest, cm, pte, locals, kpages, spl, left>>

\* Once a frame is found: swapin for an entry on disk, page_alloc for a
\* new one.
Claim(p) == IF pte[p].where = "disk" THEN "swapin" ELSE "palloc"

\* index = findavailablepage().
Find(p) ==
  /\ Run(p) /\ pc[p] = "find"
  /\ idx' = [idx EXCEPT ![p] = FindAvailable]
  /\ Goto(p, IF FindAvailable = 0 THEN "oldest" ELSE Claim(p))
  /\ UNCHANGED <<rest, cm, pte, kidx, sidx, soret, karet, kpages, spl, left>>

\* index = findoldestpage(); swapout(index).
Oldest(p) ==
  /\ Run(p) /\ pc[p] = "oldest"
  /\ idx' = [idx EXCEPT ![p] = FindOldest]
  /\ sidx' = [sidx EXCEPT ![p] = FindOldest]
  /\ soret' = [soret EXCEPT ![p] = Claim(p)]
  /\ Goto(p, "so_lock")
  /\ UNCHANGED <<rest, cm, pte, kidx, karet, kpages, spl, left>>

\* page_alloc(as, faultaddress, index): the frame is the fault's, DIRTY,
\* stamped now.
PageAlloc(p) ==
  /\ Run(p) /\ pc[p] = "palloc"
  /\ status' = [status EXCEPT ![idx[p]] = "DIRTY"]
  /\ cas' = [cas EXCEPT ![idx[p]] = p]
  /\ Restamp(idx[p])
  /\ Goto(p, "kmalloc")
  /\ UNCHANGED <<rest, pte, locals, kpages, spl, left>>

\* addentry's kmallocs: served from the kernel heap, or the heap needs a
\* fresh page and kmalloc calls alloc_kpages.
Kmalloc(p) ==
  /\ Run(p) /\ pc[p] = "kmalloc"
  /\ \/ Goto(p, "insert") /\ UNCHANGED karet
     \/ HeapGrows /\ karet' = [karet EXCEPT ![p] = "insert"] /\ Goto(p, "ka_find")
  /\ UNCHANGED <<rest, cm, pte, idx, kidx, sidx, soret, kpages, spl, left>>

\* addentry, under splhigh: link the entry, paddress as page_alloc
\* returned it.
Insert(p) ==
  /\ Run(p) /\ pc[p] = "insert"
  /\ pte' = [pte EXCEPT ![p] = Mem(idx[p])]
  /\ Goto(p, "tlb")
  /\ UNCHANGED <<rest, cm, locals, kpages, spl, left>>

\* swapin: lock_acquire(core_lock).
SwapinLock(p) ==
  /\ Run(p) /\ pc[p] = "swapin"
  /\ LockAcquire(p, CoreLock, "si_read")
  /\ UNCHANGED <<cm, pte, locals, kpages, spl, left>>

\* swapin, after VOP_READ: the entry points at the frame, and the frame
\* is p's, DIRTY and stamped now; lock_release(core_lock).
SwapinRead(p) ==
  /\ Run(p) /\ pc[p] = "si_read"
  /\ pte' = [pte EXCEPT ![p] = Mem(idx[p])]
  /\ status' = [status EXCEPT ![idx[p]] = "DIRTY"]
  /\ cas' = [cas EXCEPT ![idx[p]] = p]
  /\ Restamp(idx[p])
  /\ LockRelease(p, CoreLock, "tlb")
  /\ UNCHANGED <<locals, kpages, spl, left>>

\* assert(tempentry->paddress != 0), then TLB_Random/TLB_Write under
\* splhigh.
Tlb(p) ==
  /\ Run(p) /\ pc[p] = "tlb"
  /\ IF pte[p].where # "mem"
     THEN Panic /\ UNCHANGED <<sleepaddr, count, held, owner, lockq, cvq>>
     ELSE Goto(p, "unlock") /\ UNCHANGED rest
  /\ UNCHANGED <<cm, pte, locals, kpages, spl, left>>

\* lock_release(page_lock); the thread's next access faults again.
Unlock(p) ==
  /\ Run(p) /\ pc[p] = "unlock"
  /\ LockRelease(p, PageLock, IF left[p] > 1 THEN "fault" ELSE "done")
  /\ left' = [left EXCEPT ![p] = @ - 1]
  /\ UNCHANGED <<cm, pte, locals, kpages, spl>>
(***************************************************************************)
(* alloc_kpages after boot (vm.c 137-160), for a kernel thread's kmalloc  *)
(* or a kmalloc inside addentry, and free_kpages (vm.c 164-180).          *)
(***************************************************************************)
\* spl = splhigh(); index = findavailablepage().
KaFind(t) ==
  /\ Run(t) /\ pc[t] = "ka_find"
  /\ spl' = spl \cup {t}
  /\ kidx' = [kidx EXCEPT ![t] = FindAvailable]
  /\ Goto(t, IF FindAvailable = 0 THEN "ka_oldest" ELSE "ka_lock")
  /\ UNCHANGED <<rest, cm, pte, idx, sidx, soret, karet, kpages, left>>

\* index = findoldestpage(); swapout(index).
KaOldest(t) ==
  /\ Run(t) /\ pc[t] = "ka_oldest"
  /\ kidx' = [kidx EXCEPT ![t] = FindOldest]
  /\ sidx' = [sidx EXCEPT ![t] = FindOldest]
  /\ soret' = [soret EXCEPT ![t] = "ka_lock"]
  /\ Goto(t, "so_lock")
  /\ UNCHANGED <<rest, cm, pte, idx, karet, kpages, spl, left>>

\* lock_acquire(core_lock).
KaLock(t) ==
  /\ Run(t) /\ pc[t] = "ka_lock"
  /\ LockAcquire(t, CoreLock, "ka_claim")
  /\ UNCHANGED <<cm, pte, locals, kpages, spl, left>>

\* A variant of the claim that returns without lock_release(core_lock).
KaClaimNoRelease(t) ==
  /\ Run(t) /\ pc[t] = "ka_claim"
  /\ status' = [status EXCEPT ![kidx[t]] = "TRASH"]
  /\ cas' = [cas EXCEPT ![kidx[t]] = NoAddr]
  /\ kpages' = [kpages EXCEPT ![t] = @ \cup {kidx[t]}]
  /\ spl' = spl \ {t}
  /\ Goto(t, karet[t])
  /\ UNCHANGED <<rest, stamp, pte, locals, left>>

\* The frame becomes TRASH with no back-reference; lock_release(core_lock);
\* bzero; splx(spl); the page is the caller's.
KaClaim(t) ==
  /\ Run(t) /\ pc[t] = "ka_claim"
  /\ status' = [status EXCEPT ![kidx[t]] = "TRASH"]
  /\ cas' = [cas EXCEPT ![kidx[t]] = NoAddr]
  /\ kpages' = [kpages EXCEPT ![t] = @ \cup {kidx[t]}]
  /\ spl' = spl \ {t}
  /\ LockRelease(t, CoreLock, karet[t])
  /\ UNCHANGED <<stamp, pte, locals, left>>

\* kfree -> free_kpages, under splhigh: FREE, no back-reference, stamp 0.
KFree(k) ==
  /\ Run(k) /\ pc[k] = "kfree"
  /\ status' = [f \in Frames |-> IF f \in kpages[k] THEN "FREE" ELSE status[f]]
  /\ cas' = [f \in Frames |-> IF f \in kpages[k] THEN NoAddr ELSE cas[f]]
  /\ stamp' = Normalize([f \in Frames |-> IF f \in kpages[k] THEN 0 ELSE stamp[f]])
  /\ kpages' = [kpages EXCEPT ![k] = {}]
  /\ Goto(k, "done")
  /\ UNCHANGED <<rest, pte, locals, spl, left>>

(***************************************************************************)
(* swapout(index) (addrspace.c 428-487), called by vm_fault and by        *)
(* alloc_kpages.                                                           *)
(***************************************************************************)
\* lock_acquire(core_lock).
SoLock(t) ==
  /\ Run(t) /\ pc[t] = "so_lock"
  /\ LockAcquire(t, CoreLock, "so_check")
  /\ UNCHANGED <<cm, pte, locals, kpages, spl, left>>

\* The walk of coremap[index]->as->head finds the entry of the frame's
\* vaddress: false when the back-reference is NULL or the owner has no
\* entry for the page.  Either way the code dereferences NULL.
EntryOf(i) == cas[i] # NoAddr /\ pte[cas[i]].where # "absent"

\* A variant whose early return for a FREE frame keeps core_lock.
SoCheckNoRelease(t) ==
  /\ Run(t) /\ pc[t] = "so_check"
  /\ CASE status[sidx[t]] = "FREE" -> Goto(t, soret[t]) /\ UNCHANGED rest
       [] ~EntryOf(sidx[t]) -> Panic /\ UNCHANGED <<sleepaddr, count, held, owner, lockq, cvq>>
       [] OTHER -> Goto(t, "so_write") /\ UNCHANGED rest
  /\ UNCHANGED <<cm, pte, locals, kpages, spl, left>>

\* A FREE frame: lock_release and return.  Otherwise walk the owner's page
\* table, then VOP_WRITE (the thread waits on the disk at "so_write").
SoCheck(t) ==
  /\ Run(t) /\ pc[t] = "so_check"
  /\ CASE status[sidx[t]] = "FREE" -> LockRelease(t, CoreLock, soret[t])
       [] ~EntryOf(sidx[t]) -> Panic /\ UNCHANGED <<sleepaddr, count, held, owner, lockq, cvq>>
       [] OTHER -> Goto(t, "so_write") /\ UNCHANGED rest
  /\ UNCHANGED <<cm, pte, locals, kpages, spl, left>>

\* After VOP_WRITE: findentry(coremap[index]->as, ...) again; the entry is
\* on disk, the frame FREE, unowned, stamped now; as_activate(NULL);
\* lock_release(core_lock).
SoWrite(t) ==
  /\ Run(t) /\ pc[t] = "so_write"
  /\ LET i == sidx[t] IN
       IF ~EntryOf(i)
       THEN Panic /\ UNCHANGED <<sleepaddr, count, held, owner, lockq, cvq, cm, pte>>
       ELSE /\ pte' = [pte EXCEPT ![cas[i]] = OnDisk]
            /\ status' = [status EXCEPT ![i] = "FREE"]
            /\ cas' = [cas EXCEPT ![i] = NoAddr]
            /\ Restamp(i)
            /\ LockRelease(t, CoreLock, soret[t])
  /\ UNCHANGED <<locals, kpages, spl, left>>

(***************************************************************************)
(* The threads.                                                            *)
(***************************************************************************)
AllocKpages(t) == KaFind(t) \/ KaOldest(t) \/ KaLock(t) \/ KaClaim(t)

Swapout(t) == SoLock(t) \/ SoCheck(t) \/ SoWrite(t)

UserThread(p) ==
  \/ Fault(p) \/ Lookup(p) \/ Find(p) \/ Oldest(p) \/ PageAlloc(p) \/ Kmalloc(p)
  \/ Insert(p) \/ SwapinLock(p) \/ SwapinRead(p) \/ Tlb(p) \/ Unlock(p)
  \/ AllocKpages(p) \/ Swapout(p)

KernelThread(k) == AllocKpages(k) \/ Swapout(k) \/ KFree(k)

Next == (\E p \in Faulters : UserThread(p)) \/ (\E k \in KThreads : KernelThread(k))

\* Timer preemption with round-robin scheduling: a runnable thread gets
\* the CPU once the one holding it sleeps or runs with interrupts on.
Fairness ==
  /\ \A p \in Faulters : WF_vars(UserThread(p))
  /\ \A k \in KThreads : WF_vars(KernelThread(k))

Spec == Init /\ [][Next]_vars /\ Fairness
-----------------------------------------------------------------------------
TypeOK ==
  /\ SynchTypeOK
  /\ status \in [Frames -> {"FREE", "DIRTY", "TRASH"}]
  /\ cas \in [Frames -> Faulters \cup {NoAddr}]
  /\ pte \in [Faulters -> {Absent, OnDisk} \cup {Mem(f) : f \in Frames}]
  /\ kpages \in [Threads -> SUBSET Frames]
  /\ spl \subseteq Threads /\ cur \in Threads

\* Every frame has at most one holder, and the coremap names it: a page a
\* kmalloc holds is TRASH, and a resident page is DIRTY with its thread
\* as back-reference.  alloc_kpages and vm_fault each find a frame and
\* claim it later, and only core_lock, which vm_fault does not take
\* around page_alloc, stands between the two.
FrameOwnersAgree ==
  \A f \in Frames :
    /\ \A t \in Threads : f \in kpages[t] =>
         /\ status[f] = "TRASH"
         /\ \A u \in Threads \ {t} : f \notin kpages[u]
         /\ \A p \in Faulters : pte[p] # Mem(f)
    /\ \A p \in Faulters : pte[p] = Mem(f) => status[f] = "DIRTY" /\ cas[f] = p

\* Whenever the kernel runs and some thread is unfinished, some thread can
\* take a step.  The lock order page_lock before core_lock, and the
\* sleeps in swapout and alloc_kpages at raised spl, leave no
\* circular wait.
NoDeadlock ==
  (~panicked /\ \E t \in Threads : pc[t] # "done")
    => \E t \in Threads : pc[t] # "done" /\ Ready(t) /\ (t = cur \/ Preemptible(cur))

\* The kernel does not stop on an assertion or a NULL dereference in
\* swapout (the back-reference of a TRASH frame, or an owner with no
\* entry for the page) or in vm_fault.
NoPanic == ~panicked

\* Every fault and every kmalloc/kfree eventually completes, unless the
\* kernel has stopped: no thread sleeps forever on page_lock or core_lock.
Terminates == <>(panicked \/ \A t \in Threads : pc[t] = "done")
=============================================================================
