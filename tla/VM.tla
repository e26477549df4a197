--------------------------------- MODULE VM ---------------------------------
(***************************************************************************)
(* The virtual-memory manager of the kernel (src/vm/vm.c and               *)
(* src/vm/addrspace.c): the coremap of physical frames, the per-address-   *)
(* space page tables whose entries are shared by reference count after a   *)
(* fork, the swap file with its slot bitmap, the software-managed TLB, and *)
(* vm_fault, which ties them together.                                     *)
(*                                                                         *)
(* Each kernel operation is one atomic action: vm_fault runs under         *)
(* page_lock, as_copy and as_destroy take page_lock, and alloc_kpages runs *)
(* at splhigh.  Inside an action the code's calls are composed in the     *)
(* order the code makes them, as functions on a record of the kernel      *)
(* state (see K and Commit).  An assertion failure or a NULL dereference  *)
(* in the code sets `panicked` and leaves the rest of the state as it was *)
(* before the fatal operation.                                            *)
(***************************************************************************)
EXTENDS Naturals, FiniteSetsExt

CONSTANTS
  AS,           \* address-space identities (one user process each)
  InitAS,       \* the address spaces loaded by runprogram at boot
  Pages,        \* the user virtual pages of the model
  Kind,         \* Kind[va] : "code" (first segment), "data" (second
                \* segment), "stack" (stack or stack-growth zone), "gap"
  NFrames,      \* frames scanned by findavailablepage/findoldestpage
  NSlots,       \* swap slots 1..NSlots of offsetavailable[] (slot 0 unused)
  MaxEntries,   \* bound on simultaneously allocated struct ptentry
  MaxKPages,    \* bound on kernel pages held through alloc_kpages
  DiskWriteFails, \* whether VOP_WRITE on the swap file may fail
  LoadFails,    \* whether reading a segment from the executable may fail
  DiskReadFails, \* whether VOP_READ on the swap file may fail
  KernelFaults, \* whether a fault may be taken in kernel mode (copyin/copyout)
  ClockPastCutoff, \* whether gettime() reads at or after findoldestpage's
                \* start value 1599999999 (2020-09-13): System/161 reports
                \* the host's time
  NoAS, NoPage

ASSUME InitAS \subseteq AS /\ InitAS # {}
ASSUME Kind \in [Pages -> {"code", "data", "stack", "gap"}]
ASSUME NFrames \in Nat \ {0} /\ NSlots \in Nat /\ MaxEntries \in Nat
ASSUME DiskWriteFails \in BOOLEAN /\ LoadFails \in BOOLEAN /\ DiskReadFails \in BOOLEAN
ASSUME KernelFaults \in BOOLEAN /\ ClockPastCutoff \in BOOLEAN

Frames   == 1..NFrames
Slots    == 1..NSlots
EntryIds == 1..MaxEntries

(* Page contents, abstracted to what tells pages apart: zero-filled, the  *)
(* bytes of the executable for that page, the last write of a process to  *)
(* that page, or garbage (physical page 0, uninitialised memory).         *)
Zero == <<"zero", NoPage>>
Junk == <<"junk", NoPage>>
Img(va)    == <<"img", va>>
Wr(a, va)  == <<a, va>>
Contents == {Zero, Junk} \cup {Img(v) : v \in Pages} \cup (AS \X Pages)
NoContent == <<"none", NoPage>>

(* Permission bits as as_define_region stores them: PF_R|PF_W|PF_X.       *)
Writable(p) == (p \div 2) % 2 = 1

FileBacked(va) == Kind[va] \in {"code", "data"}

NoTlb == [valid |-> FALSE, pa |-> 0, dirty |-> FALSE]
EmptyTlb == [v \in Pages |-> NoTlb]
FreeEntry == [va |-> NoPage, pa |-> 0, loc |-> 0, ondisk |-> FALSE, count |-> 0]

VARIABLES
  proc,      \* proc[a] : "unborn" | "alive" | "killed" | "dead"
  cur,       \* address space of the running thread (curthread->t_vmspace)
  perm1, perm2, \* as->permissionv1, as->permissionv2
  pt,        \* pt[a][va] : the ptentry in a's list for va, 0 if none
  entry,     \* the struct ptentry objects; count = 0 means freed
  coremap,   \* coremap[f] : [status, as, va, age, early]
  avail,     \* offsetavailable[s]
  mem,       \* contents of physical frames
  disk,      \* contents of swap slots 0..NSlots
  tlb,       \* the TLB, keyed by virtual page
  view,      \* ghost: what each process last stored to / was given in va
  panicked

vars == <<proc, cur, perm1, perm2, pt, entry, coremap, avail, mem, disk,
          tlb, view, panicked>>

Live(a) == proc[a] \in {"alive", "killed"}

(***************************************************************************)
(* The kernel state as a record, so a handler's calls can be composed.    *)
(***************************************************************************)
K == [cm |-> coremap, ent |-> entry, pt |-> pt, avail |-> avail, mem |-> mem,
      disk |-> disk, tlb |-> tlb, panic |-> FALSE]

Commit(k) ==
  IF k.panic
  THEN /\ panicked' = TRUE
       /\ UNCHANGED <<coremap, entry, pt, avail, mem, disk, tlb>>
  ELSE /\ coremap' = k.cm /\ entry' = k.ent /\ pt' = k.pt
       /\ avail' = k.avail /\ mem' = k.mem /\ disk' = k.disk
       /\ tlb' = k.tlb /\ panicked' = FALSE

Panic(k) == [k EXCEPT !.panic = TRUE]

(***************************************************************************)
(* Frame registry.  gettime() stamps are kept as ranks: only their order  *)
(* is ever compared, so after each stamp the ages are renumbered densely. *)
(***************************************************************************)
Renumber(cm) ==
  [f \in Frames |-> [cm[f] EXCEPT !.age =
      Cardinality({cm[g].age : g \in {h \in Frames : cm[h].age < cm[f].age}})]]

\* `early` records whether the frame's secs are below 1599999999, the start
\* value of both of findoldestpage's loops: a gettime() stamp is only when
\* the clock is before that date.
Stamp(cm, f) ==
  Renumber([cm EXCEPT ![f].age = Max({cm[g].age : g \in Frames}) + 1,
                      ![f].early = ~ClockPastCutoff])

\* findavailablepage(): the lowest FREE frame, 0 if there is none.
FindAvailablePage(cm) ==
  LET free == {f \in Frames : cm[f].status = "FREE"}
  IN  IF free = {} THEN 0 ELSE Min(free)

\* findoldestpage(): the oldest frame not TRASH, lowest index on a tie; if
\* the first loop finds none, the second takes the oldest of all frames.
\* Both loops only take a frame older than their start value, so when no
\* frame's stamp is below it the result is -1.
NoFrame == -1

FindOldestPage(cm) ==
  LET cand == {f \in Frames : cm[f].status # "TRASH" /\ cm[f].early}
      pool == IF cand # {} THEN cand ELSE {f \in Frames : cm[f].early}
  IN  IF pool = {} THEN NoFrame
      ELSE CHOOSE f \in pool :
             \A g \in pool : cm[f].age < cm[g].age \/ (cm[f].age = cm[g].age /\ f <= g)

\* A variant of page_alloc that forgets to record the owner (as,
\* vaddress) of the frame it claims.
PageAllocNoOwner(k, a, va, idx) ==
  [k EXCEPT !.cm  = Stamp([@ EXCEPT ![idx].status = "DIRTY"], idx),
            !.mem = [@ EXCEPT ![idx] = Zero]]

\* page_alloc(): claim frame idx for (a, va), stamp it and zero it.
PageAlloc(k, a, va, idx) ==
  [k EXCEPT !.cm  = Stamp([@ EXCEPT ![idx] = [@ EXCEPT !.as = a, !.va = va,
                                                      !.status = "DIRTY"]], idx),
            !.mem = [@ EXCEPT ![idx] = Zero]]

(***************************************************************************)
(* Swap store.                                                             *)
(***************************************************************************)
\* A variant of the slot search with the loop bound one too far
\* (i <= 1280): a full bitmap yields the slot past its end.
FreeSlotPastEnd(k) ==
  LET free == {s \in 1..NSlots + 1 : s > NSlots \/ k.avail[s] = 0}
  IN  Min(free)

\* The slot search of swapout: the lowest slot offsetavailable[] marks
\* free, 0 when every slot is taken.
FreeSlot(k) ==
  LET free == {s \in Slots : k.avail[s] = 0}
  IN  IF free = {} THEN 0 ELSE Min(free)

\* A variant of swapout without the as_activate(NULL) that flushes the TLB.
SwapoutNoFlush(k, f, wok) ==
  IF k.cm[f].status = "FREE" THEN k
  ELSE
  LET o == k.cm[f].as
      va == k.cm[f].va
  IN
  IF o = NoAS \/ va = NoPage \/ k.pt[o][va] = 0 THEN Panic(k)
  ELSE
  LET e   == k.pt[o][va]
      off == IF k.ent[e].loc # 0 THEN k.ent[e].loc ELSE FreeSlot(k)
  IN
  [k EXCEPT !.avail = IF k.ent[e].loc = 0 /\ off # 0
                      THEN [@ EXCEPT ![off] = 1] ELSE @,
            !.disk  = IF wok THEN [@ EXCEPT ![off] = k.mem[f]] ELSE @,
            !.ent   = [@ EXCEPT ![e] = [@ EXCEPT !.pa = 0, !.loc = off,
                                                 !.ondisk = TRUE]],
            !.cm    = Stamp([@ EXCEPT ![f] = [@ EXCEPT !.as = NoAS,
                                 !.va = NoPage, !.status = "FREE"]], f)]

\* swapout(index): write the frame to the slot of the entry that the
\* coremap back-reference names (a fresh lowest slot if it has none, slot 0
\* if the bitmap is full), mark that entry on disk, free and stamp the
\* frame, flush the TLB.  A FREE frame is left alone.  A back-reference
\* that names no address space, or one whose list has no entry for the
\* page, is dereferenced as NULL: the kernel faults.  The result of
\* VOP_WRITE is only printed, so a failed write (wok = FALSE) leaves the
\* slot's old contents behind.
Swapout(k, f, wok) ==
  IF k.cm[f].status = "FREE" THEN k
  ELSE
  LET o  == k.cm[f].as
      va == k.cm[f].va
  IN
  IF o = NoAS \/ va = NoPage THEN Panic(k)
  ELSE IF k.pt[o][va] = 0 THEN Panic(k)
  ELSE
  LET e    == k.pt[o][va]
      off  == IF k.ent[e].loc # 0 THEN k.ent[e].loc ELSE FreeSlot(k)
  IN
  [k EXCEPT !.avail = IF k.ent[e].loc = 0 /\ off # 0
                      THEN [@ EXCEPT ![off] = 1] ELSE @,
            !.disk  = IF wok THEN [@ EXCEPT ![off] = k.mem[f]] ELSE @,
            !.ent   = [@ EXCEPT ![e] = [@ EXCEPT !.pa = 0, !.loc = off,
                                                 !.ondisk = TRUE]],
            !.cm    = Stamp([@ EXCEPT ![f] = [@ EXCEPT !.as = NoAS,
                                 !.va = NoPage, !.status = "FREE"]], f),
            !.tlb   = EmptyTlb]

\* A variant of swapin that omits the VOP_READ into the frame.
SwapinNoRead(k, e, idx, a, rok) ==
  IF k.ent[e].loc = 0 THEN Panic(k)
  ELSE
  [k EXCEPT !.ent = [@ EXCEPT ![e] = [@ EXCEPT !.pa = idx, !.ondisk = FALSE]],
            !.cm  = Stamp([@ EXCEPT ![idx] = [@ EXCEPT !.as = a,
                             !.va = k.ent[e].va, !.status = "DIRTY"]], idx)]

\* A variant of swapin that forgets to mark the frame DIRTY.
SwapinNoClaim(k, e, idx, a, rok) ==
  IF k.ent[e].loc = 0 THEN Panic(k)
  ELSE
  [k EXCEPT !.mem = [@ EXCEPT ![idx] = IF rok THEN k.disk[k.ent[e].loc] ELSE @],
            !.ent = [@ EXCEPT ![e] = [@ EXCEPT !.pa = idx, !.ondisk = FALSE]],
            !.cm  = Stamp([@ EXCEPT ![idx] = [@ EXCEPT !.as = a,
                             !.va = k.ent[e].va]], idx)]

\* swapin(entry, idx): read the entry's slot into frame idx (asserting the
\* slot is not 0), make the entry resident there, and record the running
\* address space as the frame's owner.  The slot stays allocated.  The
\* result of VOP_READ is ignored: when it fails (rok FALSE) before moving
\* any data, the frame keeps what it held and is mapped all the same.
Swapin(k, e, idx, a, rok) ==
  IF k.ent[e].loc = 0 THEN Panic(k)
  ELSE
  [k EXCEPT !.mem = [@ EXCEPT ![idx] = IF rok THEN k.disk[k.ent[e].loc] ELSE @],
            !.ent = [@ EXCEPT ![e] = [@ EXCEPT !.pa = idx, !.ondisk = FALSE]],
            !.cm  = Stamp([@ EXCEPT ![idx] = [@ EXCEPT !.as = a,
                             !.va = k.ent[e].va, !.status = "DIRTY"]], idx)]

\* The sequence every allocation site repeats:
\*   index = findavailablepage(); if (index == 0) { index = findoldestpage();
\*   swapout(index); }
\* yields the state after it and the chosen frame.
\* swapout(-1) reads coremap[-1], the word before the array, as a
\* pointer: undefined behaviour, modelled as the kernel stopping on the
\* bad address (the frame then named is irrelevant).
GetFrame(k, wok) ==
  LET avl == FindAvailablePage(k.cm)
      old == FindOldestPage(k.cm)
  IN  CASE avl # 0        -> [k |-> k, idx |-> avl]
        [] old = NoFrame  -> [k |-> Panic(k), idx |-> 1]
        [] OTHER          -> [k |-> Swapout(k, old, wok), idx |-> old]

(***************************************************************************)
(* Page-table entries.                                                     *)
(***************************************************************************)
FreeIds(k) == {e \in EntryIds : k.ent[e].count = 0}

\* addentry(): a fresh entry with count 1 for (va, frame idx), pushed on
\* the running thread's list.  (The permission field it also computes is
\* never read by the fault paths and is left out.)
AddEntry(k, a, va, idx) ==
  LET n == Min(FreeIds(k)) IN
  [k EXCEPT !.ent = [@ EXCEPT ![n] = [va |-> va, pa |-> idx, loc |-> 0,
                                      ondisk |-> FALSE, count |-> 1]],
            !.pt  = [@ EXCEPT ![a][va] = n]]

\* A variant of copyentry that leaves the shared entry's count as it was.
CopyEntryNoRelease(k, a, e, idx) ==
  LET n   == Min(FreeIds(k))
      src == IF k.ent[e].pa = 0 THEN Junk ELSE k.mem[k.ent[e].pa]
  IN
  [k EXCEPT !.ent = [@ EXCEPT ![n] = [va |-> k.ent[e].va, pa |-> idx,
                                      loc |-> 0, ondisk |-> FALSE, count |-> 1]],
            !.pt  = [@ EXCEPT ![a][k.ent[e].va] = n],
            !.mem = [@ EXCEPT ![idx] = src],
            !.tlb = EmptyTlb]

\* copyentry(): a private copy of a shared entry bound to frame idx; the
\* old entry's count drops (asserted non-zero), a's list is repointed, the
\* page is memcpy'd from the old entry's paddress as it is NOW (0, i.e.
\* physical page 0, if the old entry was swapped out meanwhile), and the
\* TLB is flushed.
CopyEntry(k, a, e, idx) ==
  LET n   == Min(FreeIds(k))
      src == IF k.ent[e].pa = 0 THEN Junk ELSE k.mem[k.ent[e].pa]
  IN
  IF k.ent[e].count - 1 = 0 THEN Panic(k)
  ELSE
  [k EXCEPT !.ent = [@ EXCEPT ![n] = [va |-> k.ent[e].va, pa |-> idx,
                                      loc |-> 0, ondisk |-> FALSE, count |-> 1],
                              ![e].count = @ - 1],
            !.pt  = [@ EXCEPT ![a][k.ent[e].va] = n],
            !.mem = [@ EXCEPT ![idx] = src],
            !.tlb = EmptyTlb]

\* TLB_Probe, then TLB_Write over the matching slot or TLB_Random.
TlbInstall(k, va, pa, dirty) ==
  [k EXCEPT !.tlb = [@ EXCEPT ![va] = [valid |-> TRUE, pa |-> pa,
                                       dirty |-> dirty]]]

(***************************************************************************)
(* vm_fault.  The hardware raises VM_FAULT_READ / VM_FAULT_WRITE on a TLB  *)
(* miss and VM_FAULT_READONLY on a store through a clean TLB entry.  Each *)
(* action below is one path through vm_fault, guarded by the conditions   *)
(* that select it.                                                         *)
(***************************************************************************)
WriteOutcomes == IF DiskWriteFails THEN BOOLEAN ELSE {TRUE}
ReadOutcomes  == IF DiskReadFails THEN BOOLEAN ELSE {TRUE}
LoadOutcomes  == IF LoadFails THEN {"ok", "openfail", "readfail"} ELSE {"ok"}

\* The mode the faulting access ran in.  vm_fault only returns its error;
\* the trap handler kills a thread whose user-mode access failed, but a
\* failed copyin/copyout in a system call becomes EFAULT and the process
\* goes on.
FaultModes == IF KernelFaults THEN {"user", "kernel"} ELSE {"user"}

Running(a) == /\ ~panicked /\ cur = a /\ proc[a] = "alive"

\* The permission vm_fault computes for the region holding va.
RegionPerm(a, va) ==
  CASE Kind[va] = "code" -> perm1[a]
    [] Kind[va] = "data" -> perm2[a]
    [] OTHER             -> 7

\* What a process must find in a page the first time it touches it.
FreshContent(va) == IF FileBacked(va) THEN Img(va) ELSE Zero

\* The part of vm_fault after page_lock is released when no entry was
\* found: as_prepare_load (both segments read-write), then for a page of
\* the executable load_segment(), whose uiomove into the page takes a
\* nested VM_FAULT_READONLY that dirties the TLB entry just installed,
\* then as_complete_load (first segment 5, second 6).  An error from
\* vfs_open or load_segment returns early, before as_complete_load.
LoadTail(k, va, out) ==
  IF ~FileBacked(va)
  THEN [k |-> k, p1 |-> 5, p2 |-> 6, ok |-> TRUE]
  ELSE IF out = "openfail"
  THEN [k |-> k, p1 |-> 6, p2 |-> 6, ok |-> FALSE]
  ELSE [k |-> [k EXCEPT !.mem = [@ EXCEPT ![k.tlb[va].pa] =
                                   IF out = "ok" THEN Img(va) ELSE Junk],
                        !.tlb = [@ EXCEPT ![va].dirty = TRUE]],
        p1 |-> IF out = "ok" THEN 5 ELSE 6, p2 |-> 6, ok |-> out = "ok"]

\* An address outside every region, or a write to a region without write
\* permission: vm_fault returns EFAULT and the process is killed.
FaultEfault(a, va, type) ==
  /\ Running(a) /\ type \in {"read", "write"} /\ ~tlb[va].valid
  /\ \/ Kind[va] = "gap"
     \/ type = "write" /\ ~Writable(RegionPerm(a, va))
  /\ proc' = [proc EXCEPT ![a] = "killed"]
  /\ UNCHANGED <<cur, perm1, perm2, pt, entry, coremap, avail, mem, disk,
                 tlb, view, panicked>>

Permitted(a, va, type) ==
  /\ Kind[va] # "gap"
  /\ type = "write" => Writable(RegionPerm(a, va))

\* No entry yet: take a frame (evicting if none is free), page_alloc,
\* addentry, install a clean translation, then the load tail.
FaultMiss(a, va, type) ==
  /\ Running(a) /\ type \in {"read", "write"} /\ ~tlb[va].valid
  /\ Permitted(a, va, type)
  /\ pt[a][va] = 0
  /\ FreeIds(K) # {}
  /\ \E wok \in WriteOutcomes, out \in LoadOutcomes, mode \in FaultModes :
       LET g  == GetFrame(K, wok)
           k1 == TlbInstall(AddEntry(PageAlloc(g.k, a, va, g.idx), a, va, g.idx),
                            va, g.idx, FALSE)
           t  == LoadTail(k1, va, out)
       IN  /\ Commit(t.k)
           /\ IF t.k.panic THEN UNCHANGED <<perm1, perm2, proc, view>>
              ELSE /\ perm1' = [perm1 EXCEPT ![a] = t.p1]
                   /\ perm2' = [perm2 EXCEPT ![a] = t.p2]
                   /\ proc'  = IF t.ok \/ mode = "kernel" THEN proc
                               ELSE [proc EXCEPT ![a] = "killed"]
                   /\ view'  = [view EXCEPT ![a][va] = FreshContent(va)]
  /\ UNCHANGED cur

\* A resident entry on a read, or an unshared resident entry on a write:
\* install the translation, dirty for a write.
FaultHit(a, va, type) ==
  /\ Running(a) /\ type \in {"read", "write"} /\ ~tlb[va].valid
  /\ Permitted(a, va, type)
  /\ LET e == pt[a][va] IN
     /\ e # 0 /\ ~entry[e].ondisk
     /\ type = "write" => entry[e].count = 1
     /\ Commit(TlbInstall(K, va, entry[e].pa, type = "write"))
  /\ UNCHANGED <<proc, cur, perm1, perm2, view>>

\* A swapped-out entry on a read, or an unshared one on a write: take a
\* frame, swapin, install the translation, dirty for a write.
FaultSwapIn(a, va, type) ==
  /\ Running(a) /\ type \in {"read", "write"} /\ ~tlb[va].valid
  /\ Permitted(a, va, type)
  /\ LET e == pt[a][va] IN
     /\ e # 0 /\ entry[e].ondisk
     /\ type = "write" => entry[e].count = 1
     /\ \E wok \in WriteOutcomes, rok \in ReadOutcomes :
          LET g == GetFrame(K, wok)
              k == Swapin(g.k, e, g.idx, a, rok)
          IN  Commit(TlbInstall(k, va, g.idx, type = "write"))
  /\ UNCHANGED <<proc, cur, perm1, perm2, view>>

\* A write to a shared resident entry: take a frame, page_alloc,
\* copyentry, install a clean translation (the retried store then takes
\* VM_FAULT_READONLY on an unshared entry).
FaultCopyOnWrite(a, va) ==
  /\ Running(a) /\ ~tlb[va].valid
  /\ Permitted(a, va, "write")
  /\ LET e == pt[a][va] IN
     /\ e # 0 /\ ~entry[e].ondisk /\ entry[e].count > 1
     /\ FreeIds(K) # {}
     /\ \E wok \in WriteOutcomes :
          LET g == GetFrame(K, wok)
              k == CopyEntry(PageAlloc(g.k, a, va, g.idx), a, e, g.idx)
          IN  Commit(TlbInstall(k, va, g.idx, FALSE))
  /\ UNCHANGED <<proc, cur, perm1, perm2, view>>

\* A write to a shared swapped-out entry: swapentry() builds the private
\* entry with location 0 and swapin() on it then fails assert(offset > 0).
FaultSharedSwapped(a, va) ==
  /\ Running(a) /\ ~tlb[va].valid
  /\ Permitted(a, va, "write")
  /\ LET e == pt[a][va] IN
     /\ e # 0 /\ entry[e].ondisk /\ entry[e].count > 1
  /\ panicked' = TRUE
  /\ UNCHANGED <<proc, cur, perm1, perm2, pt, entry, coremap, avail, mem,
                 disk, tlb, view>>

\* VM_FAULT_READONLY on an unshared entry of a writable region: TLB_Read
\* the matching slot and write it back with the dirty bit set.
FaultReadonlyOwned(a, va) ==
  /\ Running(a) /\ tlb[va].valid /\ ~tlb[va].dirty
  /\ Writable(RegionPerm(a, va))
  /\ LET e == pt[a][va] IN e # 0 /\ entry[e].count = 1
  /\ tlb' = [tlb EXCEPT ![va].dirty = TRUE]
  /\ UNCHANGED <<proc, cur, perm1, perm2, pt, entry, coremap, avail, mem,
                 disk, view, panicked>>

\* VM_FAULT_READONLY on a shared entry of a writable region: take a frame,
\* page_alloc, copyentry (which flushes the TLB, so the probe misses), then
\* TLB_Random(vaddress, ...) with `vaddress` never assigned on this path:
\* the dirty translation lands on whatever page the stack garbage names.
FaultReadonlyShared(a, va) ==
  /\ Running(a) /\ tlb[va].valid /\ ~tlb[va].dirty
  /\ Writable(RegionPerm(a, va))
  /\ LET e == pt[a][va] IN
     /\ e # 0 /\ entry[e].count > 1
     /\ FreeIds(K) # {}
     /\ \E wok \in WriteOutcomes, garbage \in Pages :
          LET g == GetFrame(K, wok)
              k == CopyEntry(PageAlloc(g.k, a, va, g.idx), a, e, g.idx)
          IN  Commit(TlbInstall(k, garbage, g.idx, TRUE))
  /\ UNCHANGED <<proc, cur, perm1, perm2, view>>

\* VM_FAULT_READONLY in a region without write permission: the code
\* releases core_lock and calls panic().
FaultReadonlyDenied(a, va) ==
  /\ Running(a) /\ tlb[va].valid /\ ~tlb[va].dirty
  /\ ~Writable(RegionPerm(a, va))
  /\ pt[a][va] # 0
  /\ panicked' = TRUE
  /\ UNCHANGED <<proc, cur, perm1, perm2, pt, entry, coremap, avail, mem,
                 disk, tlb, view>>

(***************************************************************************)
(* Address spaces: fork (as_copy/copypagetable), exit (as_destroy/         *)
(* deletepagetable), context switch (as_activate).                         *)
(***************************************************************************)
Mapped(a) == {pt[a][v] : v \in Pages} \ {0}

\* as_copy: copy the geometry and permissions, then share every entry of
\* the parent's list, counting each once more, and flush the TLB (only
\* when the list is non-empty: copypagetable returns early otherwise).
Fork(a, c) ==
  /\ Running(a) /\ proc[c] = "unborn"
  /\ proc'  = [proc EXCEPT ![c] = "alive"]
  /\ perm1' = [perm1 EXCEPT ![c] = perm1[a]]
  /\ perm2' = [perm2 EXCEPT ![c] = perm2[a]]
  /\ pt'    = [pt EXCEPT ![c] = pt[a]]
  /\ entry' = [e \in EntryIds |->
                 IF e \in Mapped(a) THEN [entry[e] EXCEPT !.count = @ + 1]
                 ELSE entry[e]]
  /\ tlb'   = IF Mapped(a) = {} THEN tlb ELSE EmptyTlb
  /\ view'  = [view EXCEPT ![c] = view[a]]
  /\ UNCHANGED <<cur, coremap, avail, mem, disk, panicked>>

\* A variant of deletepagetable that never clears offsetavailable[].
ReleaseSlotsLeak(mine) == avail

\* The slots deletepagetable hands back to offsetavailable[]: those of the
\* entries in `mine` whose last reference goes, resident or on disk.
ReleaseSlots(mine) ==
  [s \in Slots |->
     IF \E e \in mine : entry[e].count <= 1 /\ entry[e].loc = s THEN 0
     ELSE avail[s]]

\* as_destroy on exit: deletepagetable walks the list; an entry with count
\* <= 1 is freed together with its frame (when resident) and its slot
\* (when it has one), any other entry loses one count.  An on-disk entry
\* must have a slot that the bitmap marks used (assert).
Exit(a) ==
  /\ ~panicked /\ cur = a /\ Live(a)
  /\ LET mine == Mapped(a)
         last(e) == entry[e].count <= 1
     IN
     IF \E e \in mine : entry[e].ondisk /\ (entry[e].loc = 0 \/ avail[entry[e].loc] # 1)
     THEN /\ panicked' = TRUE
          /\ UNCHANGED <<proc, cur, pt, entry, coremap, avail, tlb>>
     ELSE
     /\ entry' = [e \in EntryIds |->
                   IF e \notin mine THEN entry[e]
                   ELSE IF last(e) THEN FreeEntry
                   ELSE [entry[e] EXCEPT !.count = @ - 1]]
     /\ avail' = ReleaseSlots(mine)
     /\ coremap' = [f \in Frames |->
                   IF \E e \in mine : last(e) /\ ~entry[e].ondisk /\ entry[e].pa = f
                   THEN [coremap[f] EXCEPT !.status = "FREE", !.as = NoAS,
                                           !.va = NoPage]
                   ELSE coremap[f]]
     /\ pt'   = [pt EXCEPT ![a] = [v \in Pages |-> 0]]
     /\ proc' = [proc EXCEPT ![a] = "dead"]
     /\ cur'  = NoAS
     /\ tlb'  = EmptyTlb
     /\ UNCHANGED panicked
  /\ UNCHANGED <<perm1, perm2, mem, disk, view>>

\* The scheduler switches to another live thread; mi_switch calls
\* as_activate, which invalidates every TLB slot.
Switch(b) ==
  /\ ~panicked /\ Live(b) /\ cur # b
  /\ cur' = b
  /\ tlb' = EmptyTlb
  /\ UNCHANGED <<proc, perm1, perm2, pt, entry, coremap, avail, mem, disk,
                 view, panicked>>

\* A user store that hits a dirty TLB entry goes straight to the frame.
UserWrite(a, va) ==
  /\ Running(a) /\ tlb[va].valid /\ tlb[va].dirty
  /\ mem'  = [mem EXCEPT ![tlb[va].pa] = Wr(a, va)]
  /\ view' = [view EXCEPT ![a][va] = Wr(a, va)]
  /\ UNCHANGED <<proc, cur, perm1, perm2, pt, entry, coremap, avail, disk,
                 tlb, panicked>>

(***************************************************************************)
(* Kernel page allocation, called by kmalloc from any thread.              *)
(***************************************************************************)
KernelPages == {f \in Frames : coremap[f].status = "TRASH"}

\* alloc_kpages after boot: a free frame or the evicted oldest one is
\* marked TRASH, its back-reference cleared, and zeroed.
AllocKpages ==
  /\ ~panicked /\ Cardinality(KernelPages) < MaxKPages
  /\ \E wok \in WriteOutcomes :
       LET g == GetFrame(K, wok)
       IN  Commit([g.k EXCEPT
                     !.cm  = [@ EXCEPT ![g.idx] = [@ EXCEPT !.status = "TRASH",
                                                   !.as = NoAS, !.va = NoPage]],
                     !.mem = [@ EXCEPT ![g.idx] = Zero]])
  /\ UNCHANGED <<proc, cur, perm1, perm2, view>>

\* free_kpages: the frame becomes FREE with a zero timestamp.
FreeKpages(f) ==
  /\ ~panicked /\ coremap[f].status = "TRASH"
  /\ coremap' = Renumber([coremap EXCEPT ![f] = [status |-> "FREE", as |-> NoAS,
                                                 va |-> NoPage, age |-> 0,
                                                 early |-> TRUE]])
  /\ UNCHANGED <<proc, cur, perm1, perm2, pt, entry, avail, mem, disk, tlb,
                 view, panicked>>

(***************************************************************************)
(* vm_bootstrap, then runprogram/load_elf for each initial process:       *)
(* every scanned frame FREE, every slot available, the segments defined   *)
(* by as_define_region with PF_R|PF_X (5) for the first and PF_R|PF_W (6) *)
(* for the second, page tables empty.  vm_bootstrap never sets a frame's *)
(* secs; they are taken as 0, below findoldestpage's start value (only a  *)
(* frame alloc_kpages takes without restamping keeps this value; Coremap  *)
(* explores the order of such stamps).                                     *)
(***************************************************************************)
Init ==
  /\ proc    = [a \in AS |-> IF a \in InitAS THEN "alive" ELSE "unborn"]
  /\ cur     \in InitAS
  /\ perm1   = [a \in AS |-> 5]
  /\ perm2   = [a \in AS |-> 6]
  /\ pt      = [a \in AS |-> [v \in Pages |-> 0]]
  /\ entry   = [e \in EntryIds |-> FreeEntry]
  /\ coremap = [f \in Frames |-> [status |-> "FREE", as |-> NoAS,
                                  va |-> NoPage, age |-> 0, early |-> TRUE]]
  /\ avail   = [s \in Slots |-> 0]
  /\ mem     = [f \in Frames |-> Junk]
  /\ disk    = [s \in 0..NSlots |-> Junk]
  /\ tlb     = EmptyTlb
  /\ view    = [a \in AS |-> [v \in Pages |-> NoContent]]
  /\ panicked = FALSE

Next ==
  \/ \E a \in AS, va \in Pages :
       \/ \E type \in {"read", "write"} :
            \/ FaultEfault(a, va, type)
            \/ FaultMiss(a, va, type)
            \/ FaultHit(a, va, type)
            \/ FaultSwapIn(a, va, type)
       \/ FaultCopyOnWrite(a, va)
       \/ FaultSharedSwapped(a, va)
       \/ FaultReadonlyOwned(a, va)
       \/ FaultReadonlyShared(a, va)
       \/ FaultReadonlyDenied(a, va)
       \/ UserWrite(a, va)
  \/ \E a, c \in AS : Fork(a, c)
  \/ \E a \in AS : Exit(a) \/ Switch(a)
  \/ AllocKpages
  \/ \E f \in Frames : FreeKpages(f)

Spec == Init /\ [][Next]_vars

(***************************************************************************)
(* Properties.                                                             *)
(***************************************************************************)
TypeOK ==
  /\ proc \in [AS -> {"unborn", "alive", "killed", "dead"}]
  /\ cur \in AS \cup {NoAS}
  /\ perm1 \in [AS -> 0..7] /\ perm2 \in [AS -> 0..7]
  /\ pt \in [AS -> [Pages -> EntryIds \cup {0}]]
  /\ entry \in [EntryIds -> [va : Pages \cup {NoPage}, pa : Frames \cup {0},
                             loc : Slots \cup {0}, ondisk : BOOLEAN,
                             count : Nat]]
  /\ coremap \in [Frames -> [status : {"FREE", "DIRTY", "TRASH"},
                             as : AS \cup {NoAS}, va : Pages \cup {NoPage},
                             age : 0..NFrames, early : BOOLEAN]]
  /\ avail \in [Slots -> {0, 1}]
  /\ mem \in [Frames -> Contents] /\ disk \in [0..NSlots -> Contents]
  /\ tlb \in [Pages -> [valid : BOOLEAN, pa : Frames \cup {0}, dirty : BOOLEAN]]
  /\ view \in [AS -> [Pages -> Contents \cup {NoContent}]]
  /\ panicked \in BOOLEAN

\* Where the page an entry stands for lives now.
Content(e) == IF entry[e].ondisk THEN disk[entry[e].loc] ELSE mem[entry[e].pa]

\* Every process that is still running finds in each page it has mapped
\* exactly what it last stored there, or what it was first given (the
\* executable's bytes or zeros): across forks and copy-on-write by other
\* processes, evictions by vm_fault and alloc_kpages, and swapins.
MemoryCoherent ==
  \A a \in AS : proc[a] = "alive" =>
    \A v \in Pages : pt[a][v] # 0 => Content(pt[a][v]) = view[a][v]

\* Each valid TLB entry of the running address space translates a page
\* to the frame its page-table entry is resident in, and a dirty (writable)
\* one only to an entry no other address space shares.
TlbCoherent ==
  cur # NoAS =>
    \A v \in Pages : tlb[v].valid =>
      LET e == pt[cur][v] IN
      /\ e # 0 /\ ~entry[e].ondisk /\ entry[e].pa = tlb[v].pa
      /\ tlb[v].dirty => entry[e].count = 1

\* The count of every entry equals the number of page-table lists that
\* hold it, through copypagetable, copyentry and deletepagetable.
RefcountConservation ==
  \A e \in EntryIds :
    entry[e].count = Cardinality({<<a, v>> \in AS \X Pages : pt[a][v] = e})

\* No two live entries are resident in the same frame, and the frame a
\* live entry is resident in is one the coremap holds as a user page.
FrameExclusive ==
  \A e1, e2 \in EntryIds :
    entry[e1].count > 0 /\ ~entry[e1].ondisk =>
      /\ coremap[entry[e1].pa].status = "DIRTY"
      /\ (e1 # e2 /\ entry[e2].count > 0 /\ ~entry[e2].ondisk
            => entry[e1].pa # entry[e2].pa)

\* A slot is marked used exactly when some live entry records it, and no
\* two live entries record the same slot.
SwapSlotAccounting ==
  /\ \A s \in Slots :
       avail[s] = 1 <=> \E e \in EntryIds : entry[e].count > 0 /\ entry[e].loc = s
  /\ \A e1, e2 \in EntryIds :
       e1 # e2 /\ entry[e1].count > 0 /\ entry[e2].count > 0 /\ entry[e1].loc # 0
         => entry[e1].loc # entry[e2].loc

\* An entry is either resident in a frame or on disk in a real slot.
ResidentOrSwapped ==
  \A e \in EntryIds : entry[e].count > 0 =>
    IF entry[e].ondisk THEN entry[e].pa = 0 /\ entry[e].loc \in Slots
    ELSE entry[e].pa \in Frames

\* The coremap back-reference of every user frame leads, through the
\* owner's page table, to an entry resident in that frame (swapout follows
\* exactly this path to find what to write out).
FrameBackRef ==
  \A f \in Frames : coremap[f].status = "DIRTY" =>
    LET o == coremap[f].as IN
    /\ o # NoAS /\ coremap[f].va # NoPage
    /\ pt[o][coremap[f].va] # 0
    /\ ~entry[pt[o][coremap[f].va]].ondisk
    /\ entry[pt[o][coremap[f].va]].pa = f

\* No user-triggerable sequence of faults, forks and exits panics the kernel.
NoPanic == ~panicked

\* The running process holds no writable translation for a page of its
\* code segment, which load_elf declared read+execute.
CodeWriteProtected ==
  cur # NoAS => \A v \in Pages : tlb[v].valid /\ tlb[v].dirty => Kind[v] # "code"
=============================================================================
