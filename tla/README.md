# TLA+ models of the ECE344 kernel

This directory holds TLA+ models of the teaching kernel in `src/`, along with the
TLC configurations that check them. Most of the work is on the virtual-memory
manager (`src/vm/vm.c`, `src/vm/addrspace.c`), which is the largest and most
intricate part of the code. The synchronisation primitives (`src/thread/synch.c`)
and the two exercises built on them (`src/asst2/`) are modelled as threads on
one CPU. `PROJECT.json` lists the components, the runs, the
mutants, the line-by-line map from definitions to source, the findings and the
hazards.

## 1. The system

| Part | Source | State it keeps | Operations that change state |
|---|---|---|---|
| Frame registry (coremap) | `vm.c` | `coremap[i]` holds status FREE/DIRTY/TRASH, the owner `as` and `vaddress` (a back-reference), and a `gettime` stamp | `vm_bootstrap`, `page_alloc`, `alloc_kpages`, `free_kpages`; `findavailablepage` and `findoldestpage` (the latter does two passes) pick frames |
| Swap store | `addrspace.c` | `offsetavailable[1280]`, a slot bitmap where slot 0 is a sentinel; the swap file | `swapout(index)`, `swapin(entry, index)` |
| Page table | `addrspace.c` | per address space, a list of `ptlist` nodes pointing to shared `ptentry` records (`vaddress`, `paddress`, `location`, `ondisk`, `count`) | `addentry`, `copyentry`, `swapentry`, `copypagetable`, `deletepagetable`; `findentry` only reads |
| Address space | `addrspace.c` | the two segments' geometry, `permissionv1/2`, the stack and heap | `as_create`, `as_copy`, `as_destroy`, `as_activate` (TLB flush), `as_define_region`, `as_prepare_load`/`as_complete_load` (which force permissions to 6/6 and then restore 5/6) |
| Fault resolver | `vm.c` | the TLB; no state of its own | `vm_fault` on READ, WRITE and READONLY; `load_segment` for demand loading |
| Synchronisation | `thread/synch.c` | semaphore counts; lock `isHeld`, `owner` and wait queue; condition-variable wait queues | `P`, `V`, `sem_destroy`, `lock_acquire`/`release`/`destroy`, `cv_wait`/`signal`/`broadcast` |
| Stoplight | `asst2/stoplight.c` | a semaphore per quadrant, plus `carcheck`, a car limit of 3 | `approachintersection`, `gostraight`, `turnleft`, `turnright`, `createcars`, `terminate` |
| Cats and mice | `asst2/catlock.c`, `asst2/catsem.c` | one lock `checkbowl` or one semaphore `eating` | the animal loops, `catmouselock`/`catmousesem`, `terminate` |
| ELF loader, program start | `userprog/loadelf.c`, `userprog/runprogram.c` | none of its own: the address space it builds and the `inst*`/`text*` fields of `curthread` | `load_elf` (via `as_create`, `as_define_region`, `as_define_stack`), `runprogram` (argument copy-out) |

**How the VM parts interact.** `vm_fault` holds `page_lock` while it:

- classifies the address by region;
- looks up the page table;
- on a miss, gets a frame (`findavailablepage`, and if none is free, `findoldestpage` + `swapout`);
- then calls `page_alloc`, `addentry`, `copyentry` or `swapin`, and installs a TLB entry.

After a fork, `copypagetable` shares every entry and increments its count. A write to a shared entry (copy-on-write) replaces the writer's entry with a private copy. `deletepagetable` releases entries, frames and slots at exit.

`swapout` locates the entry to write out through the coremap back-reference: it follows `coremap->as->head` and the virtual address.

`alloc_kpages` competes for the same frames, including through the `kmalloc` calls made inside `addentry` and `copyentry`. Two locks from `vm_bootstrap` order this: `page_lock` is held across `vm_fault`, and `core_lock` across `swapout`, `swapin` and the claim step of `alloc_kpages`, which also runs at `splhigh` from its frame search to its `splx`.

`runprogram` creates the address space, and `load_elf` defines its two regions from the executable's `PT_LOAD` headers. The regions are what `vm_fault` classifies each fault address against.

**Behaviours that are hard to test:**

- *Sharing and back-references.* Pages are shared between address spaces and the counts must stay right. The coremap's back-reference can go stale after copy-on-write or exit.
- *Eviction inside copy-on-write.* The fault can evict the very page it is copying.
- *Swap limits and failures.* Swap can run out of slots, and a swap write can fail.
- *Demand loading.* It has a permission protocol, and `load_segment` triggers a nested fault.
- *An uninitialised local.* One local is used uninitialised on the shared read-only path.
- *Concurrency in the primitives and exercises.* The lock/cv primitives and the stoplight exercise raise lost wakeups and deadlocks.

**Properties, by component:**

| Component | Properties |
|---|---|
| Frame registry | `FrameExclusive`, `FrameBackRef`; under interleaving, `FrameOwnersAgree`, `NoDeadlock`, `Terminates` (Coremap) |
| Swap | `SwapSlotAccounting`, `ResidentOrSwapped` |
| Page table | `RefcountConservation` |
| Fault resolver and TLB | `MemoryCoherent` (copy-on-write isolation, data surviving eviction), `TlbCoherent`, `CodeWriteProtected`, `NoPanic` |
| Synchronisation | `MonitorExclusive`, `WaitQueuesSound`, `WaitersFinish` (CvMonitor); `LockQueueSound` (CatMouse) |
| Stoplight | `SemaphoreAccounting`, `NoDeadlock`, `AllCarsLeave`, `RefinesIntersection` (refinement of `AbstractIntersection`) |
| Cats and mice | `BowlExclusive`, `AllFed`, `RefinesBowl` (refinement of `AbstractBowl`) |
| ELF loader, program start | `LoadResult`, `RegionsCoverSegments`, `StackLayout` |

**How the synchronisation parts interact.** Every primitive is built on
`thread_sleep(addr)` and `thread_wakeup(addr)` (in `thread.c`, which is not in
the repository): a thread sleeps on an address until some thread wakes *every*
sleeper on that address. `P` and `V` use the semaphore's address. The lock and
condition-variable queues hold threads that sleep on their own addresses, so
waking the head of a queue wakes exactly one thread. `cv_wait` calls
`lock_release` and `lock_acquire` of the lock passed in. The stoplight cars use
only semaphores. The cats and mice use one lock or one semaphore.

## 2. Modules

| Module | Models | Built |
|---|---|---|
| `VM` (`MCVM`) | the whole VM: every kernel operation is one atomic action, which is what `page_lock` and `splhigh` give a single CPU; the fork configuration composes two address spaces | sitting 1 |
| `Synch` | `synch.c`: each primitive is an operator for the step a thread takes; no `Next` of its own | sitting 2 |
| `CatMouse`, `AbstractBowl` | `catlock.c` and `catsem.c` (a `Mode` constant picks one) over `Synch`; `AbstractBowl` is the bowl the exercise promises, and `CatMouse` refines it | sitting 2 |
| `Stoplight` (`MCStoplight`), `AbstractIntersection` | `stoplight.c` over `Synch`; `AbstractIntersection` is the crossing the exercise promises | sitting 2, refinement sitting 4 |
| `CvMonitor` | the condition variables of `Synch` under a monitor client | sitting 2 |
| `Coremap` | the coremap of `vm.c` under thread interleaving: `vm_fault`'s frame search and claim, `alloc_kpages`, `free_kpages`, `swapout`, `swapin`, over `Synch`'s locks | sitting 3 |
| `Loader` | `load_elf`, `as_create`, `as_define_region`, `as_define_stack`, `vm_fault`'s region classification and `runprogram`, as pure operators; `MCVM` uses it to give `VM` its regions | sitting 3 |

**Still to do.** Give `VM` an abstract memory specification (each process's view of
its pages) refined by a mapping from entries to contents, so that
`MemoryCoherent`, checked today as an invariant over a ghost variable, becomes a
refinement property.

## 3. `VM.tla` and the code

**State.** `VM.tla`'s variables and the code they model:

| Variable | Code |
|---|---|
| `coremap` | `coremap[]`; gettime stamps are kept as dense ranks (`Renumber`/`Stamp`), because `findoldestpage` compares them with each other, plus a flag `early` for whether the stamp is below the fixed start value 1599999999 (13 Sept 2020) of both of its loops. A `gettime` stamp is early only under `ClockPastCutoff = FALSE`; a zeroed stamp (`vm_bootstrap`, `free_kpages`) always is. When no candidate is early, `findoldestpage` returns -1 (`NoFrame`) and `swapout(-1)` reads `coremap[-1]`, which the model takes as the kernel stopping |
| `entry` | a pool of `ptentry` records, where count 0 means freed (`kmalloc`/`kfree`) |
| `pt[a][va]` | the entry in `a`'s list for `va` |
| `avail` | `offsetavailable` |
| `disk` | the swap file |
| `mem` | the frames |
| `tlb` | the TLB, keyed by virtual page |
| `perm1` / `perm2` | `permissionv1/2` |
| `proc` | process status |
| `cur` | `curthread->t_vmspace` |
| `view` | a ghost: what each process last stored to or was first given in each page |
| `panicked` | whether the kernel has panicked |

Page contents are abstracted to tokens:

- zero-filled;
- junk, for physical page 0 or uninitialised memory;
- the executable's bytes for a page;
- the last write of a process to a page.

**Actions.** Each action is one path of `vm_fault` or one operation:

| Action | Code path |
|---|---|
| `FaultEfault` | bad region or write denied |
| `FaultMiss` | no entry: frame, `page_alloc`, `addentry`, TLB install, and the load tail `LoadTail` |
| `FaultHit` | resident entry |
| `FaultSwapIn` | entry on disk |
| `FaultCopyOnWrite` | write to a shared resident entry |
| `FaultSharedSwapped` | write to a shared on-disk entry: `swapentry` then the `swapin` assertion |
| `FaultReadonlyOwned`, `FaultReadonlyShared`, `FaultReadonlyDenied` | the three READONLY paths |
| `Fork` | `as_copy` |
| `Exit` | `as_destroy` |
| `Switch` | `as_activate` on a context switch |
| `AllocKpages`, `FreeKpages` | kernel page allocation |
| `UserWrite` | a user store through a dirty TLB entry; this is hardware, not kernel code |

Within an action, the code's calls (`GetFrame`, `Swapout`, `Swapin`, `PageAlloc`, `AddEntry`, `CopyEntry`, `TlbInstall`) are functions on a record `K` of the kernel state, composed in code order.

**Failure modelling.**

- An assertion failure or NULL dereference sets `panicked` and stops the model.
- A failing `VOP_WRITE` (`DiskWriteFails`) is a nondeterministic outcome, as are a failing `VOP_READ` of the swap file (`DiskReadFails`) and a failing load (`LoadFails`).
- `vm_fault` only returns a load error; what follows depends on the mode of the faulting access (`FaultModes`). The trap handler kills a thread whose user-mode access failed. A kernel-mode fault in `copyin`/`copyout` (`KernelFaults`) becomes `EFAULT`, and the process runs on with the page mapped and both segments read-write.
- The uninitialised `vaddress` is a nondeterministic page.

`PROJECT.json` "map" gives the source lines of every definition.

## 4. The synchronisation modules and the code

**Threads and steps.** `Synch` has a `pc` per thread, `sleepaddr[t]` (the
address `t` sleeps on, or `NoAddr`), `count` per semaphore, `held`, `owner`
and `lockq` per lock, `cvq` per condition variable, and `panicked`.

- Code between `splhigh()` and `splx()` is one step. A thread can be preempted
  anywhere else: between the three steps of `cv_wait`, or between the `P` and
  the `V` of a stoplight car.
- A thread that sleeps keeps its label, so when it is woken it runs the same
  step again. That is the `while` loop around `thread_sleep` in `P`,
  `lock_acquire` and `lock_destroy`. `lock_destroy` then `q_destroy`s the
  queue, whose assertion that it is empty (OS/161's `queue.c`) is a panic.
- `lock_acquire` lets a woken thread compete with newcomers; if it loses, it
  queues again at the tail. `lock_release` by a thread that is not the owner
  does nothing.
- `cv_wait` is three steps: `lock_release` (`WaitRelease`), then enqueue and
  sleep under `splhigh` (`CvEnqueue`), then `lock_acquire`.
- `cv_signal` calls `q_remhead` without testing the queue. `q_remhead`
  (`kern/lib/queue.c`, not in the repository) asserts that the queue is not
  empty, so an empty queue sets `panicked`.

**Clients.**

- `CatMouse`: an animal's labels are `top` (the loop test and the acquire),
  `eat` (`catmouse_eat` and `iteration++`) and `release`. The driver's labels
  are `join` (`while (thread_count() > 1)`), `terminate` (`lock_destroy`) and
  `end`. Cats and mice run identical code, so they are one set, `Animals`.
- `Stoplight`: a car's labels are `approach` (`P(carcheck)`), `choose` (the two
  `random()` calls and the turn function's `destination[]` table), `enter`
  (`P(nextstep)`), `dropprev` (`V(prevstep)`, `stepcount++`), `leave` (the
  final `V`) and `exit` (`V(carcheck)`). The tables `Straight`, `Left` and
  `Right` are the code's `destination[]` arrays, indexed as `directions[]`
  and `turns[]` are. The `message()` output is left out.
- `CvMonitor`: nothing in `src/` calls the condition variables, so this module
  supplies the smallest client that uses them as their interface intends.
  Waiters `lock_acquire`, test a flag and `cv_wait` while it is false. A
  signaller takes the lock, sets the flag, and calls `cv_signal` or
  `cv_broadcast` (chosen from `WakeOps`), then, once every waiter has left,
  `cv_destroy`. The client's own steps are not in
  the map; every step inside the primitives is.

**Refinement.** `AbstractBowl` is what both cat/mouse variants promise: one
bowl, taken when free and put back with one meal eaten, with weak fairness on
putting it back and strong fairness on taking it. `CatMouse` instantiates it,
mapping `holder` to the animal at `eat` or `release` and `meals` to the meals
finished. `RefinesBowl` checks the whole abstract specification, fairness
included. The abstract `Take` is strongly fair because `lock_acquire` lets
newcomers barge: a waiter can find the lock free, lose it, and find it free
again.

`AbstractIntersection` is what the stoplight promises: at most `Limit` cars
inside; a car picks one of `Routes`, enters its quadrants in order, holding
at most two consecutive ones, enters a quadrant only when no other car is in
it, gives quadrants back oldest first, and leaves after giving back the last.
`Stoplight` instantiates it as `Crossing`: a car is in from `P(carcheck)` to
`V(carcheck)`, its route is its `destination[]` array cut at the loop bound,
and `front`/`back` count the quadrant `P`s and `V`s it has passed (from `pc`
and `stepcount`). `RefinesIntersection` is the safety part (no fairness: the
abstract spec makes no liveness promise beyond `AllCarsLeave`). It holds for
all turns too (checked with three cars over every direction and turn,
398,744 states). It catches what `SemaphoreAccounting` cannot: a loop bound
one short (`ChooseShortLoop`) keeps every count right but leaves the car's
route unfinished.

**Fairness.** Each thread's steps are weakly fair (`WF_vars` per thread). The
timer interrupt preempts the running thread, and the scheduler runs every
runnable thread in turn, so a thread that stays runnable takes its next step.
A sleeping thread is not runnable, and its step is not enabled (`Ready`), so
fairness never wakes it. Only a `V`, `lock_release`, `cv_signal` or
`cv_broadcast` does.

## 5. `Coremap.tla` and the code

`VM` makes every kernel operation atomic. `Coremap` splits the frame-handling
ones into the steps a thread can be preempted between, and runs user faults and
kernel allocations as threads over `Synch`'s locks `page_lock` and `core_lock`.
Data is abstracted away: each user thread has one page, whose entry (`pte`) is
absent, resident in a frame or on disk, and a frame is its `status`, its
back-reference `cas` and its age `stamp`.

**Scheduling.** One CPU; `cur` is the running thread. Another thread may step
only when `cur` is `Preemptible`: it has not raised spl, or it sleeps (in
`lock_acquire` or in a disk transfer, `VOP_WRITE`/`VOP_READ`), or it is done.
`alloc_kpages` holds `splhigh` from `findavailablepage` (`KaFind`) to its claim
(`KaClaim`); every other `splhigh` section of `vm.c` and `addrspace.c` is one
step. Age stamps are dense ranks, 0 for a zeroed stamp, and start
nondeterministic, since `vm_bootstrap` never sets them. Unlike `VM`,
`Coremap` assumes every stamp is below `findoldestpage`'s start value (a clock
before 13 Sept 2020); `VM_clock_cutoff.cfg` shows what a later clock does.

**Steps.**

| Step | Code |
|---|---|
| `Fault`, `Lookup`, `Claim` | `vm_fault`: `lock_acquire(page_lock)`, `findentry`, and the choice between `swapin` and a new frame |
| `Find`, `Oldest` | `findavailablepage`, else `findoldestpage` followed by `swapout` |
| `PageAlloc`, `Kmalloc`, `Insert` | `page_alloc`; `addentry`'s `kmalloc` (which may itself call `alloc_kpages` when `HeapGrows`) and the entry it links |
| `SwapinLock`, `SwapinRead` | `swapin` under `core_lock` |
| `Tlb`, `Unlock` | the TLB install (which panics on a non-resident entry) and `lock_release(page_lock)` |
| `KaFind`, `KaOldest`, `KaLock`, `KaClaim`, `KFree` | `alloc_kpages` after boot and `free_kpages` |
| `SoLock`, `SoCheck`, `SoWrite` | `swapout`: `core_lock`, the back-reference walk (`EntryOf`; a TRASH frame or a missing entry panics), and the write-out |

**Fairness.** Each thread is weakly fair (`WF_vars` per thread): the timer
interrupt preempts a thread running with interrupts on and the scheduler runs
every runnable thread in turn. A thread sleeping on a lock is not enabled, so
only a `lock_release` wakes it.

## 6. `Loader.tla` and the code

`runprogram` and `load_elf` run sequentially in one thread, so each function
is an operator from its inputs to its result: `EmptyAS` (`as_create`),
`DefineRegion` (`as_define_region`, with `&` and `|` from `Bitwise`),
`PhdrLoop` (the loop over program headers, `RECURSIVE`), `LoadElf`,
`DefineStack`, `CopyStrings` (the argument copy-out loop, `RECURSIVE`) and
`Runprogram`. An executable is the outcome of reading its ELF header and a
sequence of program headers (read outcome, `p_type`, `p_vaddr`, `p_memsz`,
`p_filesz`, `p_offset`, `p_flags`); an argument is its `strlen`. The outcomes of
`vfs_open`, `as_create` and `copyout` are inputs. Addresses are small integers:
`PageSize` 8 and `UserStack` 512.

**Composition with `VM`.** `VM`'s constant `Kind` (the region of each page)
is not written by hand. `MCVM` loads a standard executable (a
`PT_MIPS_REGINFO` header, then an r-x and an rw- `PT_LOAD`) with `LoadElf`
and classifies one address of each page with `RegionOf`, which is
`vm_fault`'s region test (vm.c:205-228).

**Properties.** `MCVM` checks them for every process `VM` has started, over
`MCImages` (every sequence of up to three headers from sixteen, behind a good
ELF header, and the bad ELF headers) and `MCStarts` (up to four arguments of
lengths 1, 3 and 4, with each failure of the calls):

- `LoadResult`: `load_elf` fails exactly at the first unreadable header,
  unknown type or third `PT_LOAD`, with that header's error; compared with a
  reference that finds the first such header directly;
- `RegionsCoverSegments`: the k-th `PT_LOAD` segment lies in region k, which
  is page-aligned, has no spare page and carries the segment's flags;
- `StackLayout`: the argument strings and the argv array are 4-aligned, in
  order below `USERSTACK`, and never overlap;
- `PageContents`: every page of the text and data segments, as `vm_fault`
  demand-loads it, holds the segment's file bytes up to `p_filesz` and zeros
  after, over `MCLinked` (below); compared with a reference (`ElfPage`) that
  reads the ELF image by address.

**Demand loading.** `FaultLoad` is the tail of `vm_fault` (vm.c:440-509): a
fault between `TextBase` and `DataBase` (the code's 0x400000 and 0x10000000,
scaled to page 1 and page 5) loads from the first recorded segment, one
between `DataBase` and the heap from the second, anything else gets the zeroed
page of `page_alloc` (`ZeroPage`). `PageSlice` is the offset and the clamped
`memsize`/`filesize` of the faulting page, `LoadFromFile` the
`vfs_open`/`load_segment`/`vfs_close` sequence (which skips `vfs_close` on an
error), and `LoadSegment` is
`load_segment`: a failed or short read is an error, otherwise the page holds
file bytes (a file byte is its offset) up to `filesize` and `ZeroByte` after.
The segment fields of `struct thread` are taken to be `int` (`thread.h` is not
in the repository; the `< 0` clamps only make sense for a signed type), and a
value passed to `load_segment`'s `size_t` parameters goes through `SizeT`.
`MCLinked` is every executable with a REGINFO header, a text segment at
`TextBase` and a data segment at `DataBase`, with offsets 0, 3 and 16, file
sizes 0, 5, 8 and 12 and memory sizes 8, 12 and 20 (file no larger than
memory): empty, partial, full and crossing pages, and bss pages past the file.

## 7. Runs

**Pass runs:**

| Run | cfg | Checks | Shows |
|---|---|---|---|
| vm_single | `VM_single.cfg` | TypeOK, MemoryCoherent, TlbCoherent, FrameExclusive, SwapSlotAccounting, FrameBackRef, LoadResult, RegionsCoverSegments, StackLayout, PageContents | Without sharing, eviction, swap-in (with slot reuse and a full bitmap), failed loads, exit and kernel allocations keep memory, TLB, coremap and bitmap consistent (36,510 states). Over 4,372 executables and 5,808 `runprogram` calls, the loader fails where it must, its regions cover its segments, the user stack is laid out without overlap, and every demand-loaded page of 144 linked executables holds the right bytes (§6) |
| vm_fork | `VM_fork.cfg` | RefcountConservation, SwapSlotAccounting | With fork, copy-on-write, switches and exit, counts equal the number of lists holding each entry and the bitmap matches the entries' slots (1.84M states, about 1 min) |
| catmouse_lock | `CatMouse_lock.cfg` | TypeOK, BowlExclusive, LockQueueSound, AllFed, RefinesBowl | `catlock.c` with two cats and two mice, three meals each. One eater at a time, and the lock agrees on who it is. No free lock has only sleepers queued behind it. Every animal eats all its meals and the driver destroys the lock. The protocol implements `AbstractBowl` (22,947 states) |
| stoplight | `Stoplight.cfg` | SemaphoreAccounting, NoDeadlock, AllCarsLeave, RefinesIntersection | Four left-turning cars. No quadrant ever holds two cars, and at most three cars are inside. The limit of three rules out a circular wait, and every car leaves. The protocol implements `AbstractIntersection` (629,899 states, about 1 min 40 s) |
| coremap | `Coremap.cfg` | NoDeadlock, Terminates | Two faulting threads touching their pages twice and one kernel thread doing `kmalloc` (with a nested `alloc_kpages`) and `kfree` over two frames. Although `alloc_kpages` sleeps on `core_lock` at `splhigh`, some thread can always run; and every thread finishes under per-thread weak fairness (24,288 states) |
| cv_monitor | `CvMonitor.cfg` | MonitorExclusive, WaitQueuesSound | Three waiters and a signaller using `cv_signal` or `cv_broadcast`. One thread at a time is in the monitor across `cv_wait`'s three steps. The lock and condition-variable queues hold exactly the sleepers, and the signaller destroys the cv once every waiter has left (1,555 states) |

**Violation runs.** Each checks one property and ends in a finding of `PROJECT.json`:

| Run | Property | What TLC finds |
|---|---|---|
| cow_evicted_source | MemoryCoherent | Copy-on-write evicts its own source and copies physical page 0 |
| stale_backref | FrameExclusive | After copy-on-write, eviction through the stale back-reference frees a frame still in use, and two entries end up on one frame |
| code_writable | CodeWriteProtected | The code page keeps a writable translation after loading (§8) |
| swap_write_lost | MemoryCoherent | A failed swap write is ignored and the page is lost (§4.2) |
| coremap_steal | FrameOwnersAgree | `vm_fault` finds a free frame (vm.c:259) and is preempted before `page_alloc`; a `kmalloc` takes the same frame in `alloc_kpages` and marks it TRASH; `page_alloc` then marks it DIRTY for the user page. Spec §5 says frame allocation is never interrupted mid-update (vm.c:140) |
| cv_lost_wakeup | WaitersFinish | A waiter releases the lock in `cv_wait` and is preempted before it enqueues. The signaller takes the lock, sets the flag and broadcasts to an empty queue. The waiter then sleeps for ever (synch.c:246) |

**Further configurations.** These are not in the run list of `PROJECT.json`, which is kept to twelve runs, but they check as described:

| cfg | Module | Result |
|---|---|---|
| `CatMouse_sem.cfg` | `CatMouse` | `catsem.c`, same animals: TypeOK, BowlExclusive and AllFed hold (12,914 states) |
| `Stoplight_allturns.cfg` | `MCStoplight` | Four cars over every direction and turn, up to permutation of the cars: SemaphoreAccounting and NoDeadlock hold (722,624 states). No liveness, because symmetry is unsound for it |
| `CvMonitor_signal_panic.cfg` | `CvMonitor` | NoPanic is violated: a `cv_signal` with no waiter reaches `q_remhead`'s assertion (synch.c:266). The usual monitor usage allows such a signal, and `cv_wait`'s window makes one unavoidable |
| `VM_readonly_panic.cfg` | `MCVM` | NoPanic is violated: a store to code panics the kernel instead of killing the process (§4.5, vm.c:421) |
| `VM_swap_full.cfg` | `MCVM` | ResidentOrSwapped is violated: a full bitmap sends pages to sentinel slot 0 (§7(b), addrspace.c:449) |
| `VM_cow_stray_tlb.cfg` | `MCVM` | TlbCoherent is violated: a read-only fault on a shared page puts a dirty translation under an uninitialised address (vm.c:409) |
| `VM_exit_backref.cfg` | `MCVM` | FrameBackRef is violated: a parent's exit leaves shared frames owned by the destroyed address space |
| `Coremap_evict_unlinked.cfg` | `Coremap` | NoPanic is violated: `addentry`'s `kmalloc` takes the last free frame, and a kernel thread's `kmalloc` then evicts the page the fault has claimed with `page_alloc` but not yet linked; `swapout` finds no entry for it (addrspace.c:201) |
| `VM_page0_region.cfg` | `MCVM` | LoadResult is violated once segments may lie in page 0: `as_define_region` takes a base of 0 for an empty slot, so a second segment overwrites the first and a third is accepted (addrspace.c:123) |
| `VM_segment_info.cfg` | `MCVM` | SegmentInfoByLoad is violated: `load_elf` records `inst*`/`text*` for headers 1 and 2, so two `PT_LOAD`s at headers 0 and 1 leave the second's geometry unrecorded (loadelf.c:140) |
| `VM_heap_order.cfg` | `MCVM` | HeapAboveSegments is violated: when the higher segment is defined first, the heap follows the lower one and starts inside or below the higher region; spec §4.4 puts it above the highest segment (addrspace.c:135) |
| `VM_argv_unterminated.cfg` | `MCVM` | ArgvTerminated is violated: with three or more arguments `argnum` drops by two after `argptr[argnum] = NULL`, so `argv[argc]` is uninitialised (runprogram.c:88-98) |
| `VM_segment_base.cfg` | `MCVM` | PageContents is violated once a text segment starts elsewhere than 0x400000: `vm_fault` computes the file offset from the fixed base, not from `p_vaddr`, so the page is loaded shifted (vm.c:451) |
| `VM_swap_read_fail.cfg` | `MCVM` | MemoryCoherent is violated when `VOP_READ` may fail: `swapin` ignores the result and maps the frame with its old contents; spec §4.2 makes a read failure fatal to the fault (addrspace.c:411) |
| `VM_fault_vnode_leak.cfg` | `MCVM` | FaultVnodeClosed is violated: when `load_segment` fails or reads short, `vm_fault` returns before `vfs_close`, and the executable's vnode stays open (vm.c:470) |
| `VM_load_fail_kernel.cfg` | `MCVM` | MemoryCoherent is violated once faults may be taken in kernel mode: a failed demand load under `copyin` returns `EFAULT`, the process runs on, and its page keeps an entry with junk or zeros instead of the executable's bytes, with both segments read-write (vm.c:446, 470) |
| `VM_clock_cutoff.cfg` | `MCVM` | NoPanic is violated with the clock past 13 Sept 2020: every stamped frame is newer than `findoldestpage`'s start value 1599999999, so the third fault over two frames gets -1 and `swapout(-1)` reads `coremap[-1]` (vm.c:560, 584) |
| `VM_arg_leak.cfg` | `MCVM` | NoLeakOnError is violated: a failed string `copyout` returns EFAULT without freeing `argptr` and `argtemp` (runprogram.c:117) |

**Mutants.** Every property of a pass run is matched with a variant of a mapped definition. TLC finds each one violated when it checks that property alone. The VM variants:

- a dropped read, flush, owner, status, count release or slot release;
- an off-by-one slot search.

The Coremap variants: a `swapout` that keeps `core_lock` on its early return
(`SoCheckNoRelease`) and an `alloc_kpages` that never releases `core_lock`
(`KaClaimNoRelease`). The Loader variants: a type switch without its default
case (`PhdrLoopNoTypeCheck`), `as_define_region` without
`sz += vaddr & ~PAGE_FRAME` (`DefineRegionNoOffset`), and a copy-out that
reserves `strlen` bytes without the NUL (`CopyStringsNoNul`), and a page slice without the `filesize < 0` clamp (`PageSliceNoClamp`).

The synchronisation variants:

- `if` for `while` in `lock_acquire` (`LockAcquireNoRecheck`);
- a `lock_release` that wakes no one;
- a `V` without `thread_wakeup`;
- a `cv_signal` that leaves the woken thread queued;
- a car giving back `nextstep` instead of `prevstep`;
- `carcheck` created with 4;
- a turn loop bound one short (`ChooseShortLoop`);
- an off-by-one meal loop;
- a driver that waits for its own exit.

## 8. Bounds

**The two pass runs:**

- Two frames, with three or four pages of distinct kinds (code, data, stack, gap), force eviction on the third resident page.
- One fewer swap slot than mappable pages in `vm_single` reaches the full-bitmap path.
- `MaxEntries` is the number of entries that can coexist: 3 for one process, 4 for two processes with two pages.
- `MaxKPages` 1 lets a kernel allocation take a frame from the user.

**Coremap.** Two frames and two faulting threads that each touch their page
twice make every fault after the first two evict; a third thread, the kernel
`kmalloc`, contends for the same frames, and `HeapGrows` lets `addentry`'s own
`kmalloc` need a frame too. Two locks and three threads are the fewest in which
a thread sleeps on `core_lock` while another holds `page_lock`.
`Coremap_steal.cfg` uses one fault and one `kmalloc`: the race needs no more.

**Loader.** Three headers allow a skipped header before two `PT_LOAD`s, and
three `PT_LOAD`s; addresses 8, 13 and 40 with sizes 4 and 9 give segments that
are page-aligned or not and that fit in a page or cross one. Four arguments
take the `argnum > 2` path; lengths 1, 3 and 4 make the aligned and unaligned
cases of the copy-out. For `PageContents`, `PageSize` 8 with offsets 0, 3
and 16 and sizes up to 20 give segments of up to three pages, with a page that
is all file, one that ends the file mid-page, and bss pages after the file.

**The synchronisation runs:**

- *Cats and mice.* Three contenders and a driver give a waiter queued behind
  another waiter while a third thread barges in. Three meals let a thread come
  back to the lock while others still wait. The code has 6 cats, 2 mice and
  4 meals; those only lengthen the same queues.
- *Stoplight.* Four cars, one more than `carcheck` admits, are the fewest that
  can close a cycle through the four quadrants. The carcheck-4 mutant shows
  that this instance reaches that deadlock. Left turns from all four
  directions make every pair of routes overlap. `Stoplight_allturns.cfg`
  covers the other turns for safety.
- *Condition variables.* Three waiters and one signaller reach a broadcast
  that wakes several waiters, who then race for the lock.

**Why these bounds are enough.** Every VM bug above needs at most two processes, two pages and two frames. Every action of every module fires in one of the pass runs.

**Deadlock is not checked by TLC.** A panic, the exit of the last process, and the driver thread's end are terminal states by design, so the configurations set `CHECK_DEADLOCK FALSE`. For the stoplight, "everyone asleep" is stated as the invariant `NoDeadlock` instead.

**Fairness.** `VM` has only safety properties and no fairness. `Coremap` and the synchronisation clients assume weak fairness per thread, for the reason given in §4 and §5.

## 9. Not modelled

- **Concurrency within the VM.** `VM` keeps every operation atomic; `Coremap` covers the interleavings of the frame handling with one page per thread, without swap slots, page contents, copy-on-write or the demand-load tail (`load_segment`), which `VM` covers.
- **Address arithmetic in `VM`.** `VM` has one page per region; the geometry comes from `Loader`, and `Loader` models `load_segment`'s file-offset arithmetic as pure operators; the stack growth of `vm_fault` (which moves `as_stackvbase`) is classified by `RegionOf` but not executed by `VM`.
- **TLB replacement.** `TLB_Random` replacing a valid entry is not modelled, because the TLB is keyed by page.
- **Boot-time allocation** through `ram_stealmem`.
- **`thread.c`** is not in the repository. `thread_sleep`, `thread_wakeup`, `thread_yield` and `thread_count` are modelled by their documented behaviour (`Sleep`, `Wakeup`, the driver's `join` step). `thread_fork` failure (a panic) is left out.
- **`lock_do_i_hold`** only reads `owner`. (`cv_destroy` is `CvDestroy`, the `CvMonitor` signaller's last step once every waiter has left; `q_destroy`'s assertion that the queue is empty is taken from OS/161's `queue.c`, which is not in the repository.)
- **File contents and `md_usermode`.** `Loader` models what `load_elf` and `runprogram` decide, not the bytes read or the trap to user mode; the magic-number check is one outcome (`"bad"`), and the ignored result of the argv `copyout` has no effect to model.
