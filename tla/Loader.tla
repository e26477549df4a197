------------------------------- MODULE Loader --------------------------------
(***************************************************************************)
(* Program start: runprogram (src/userprog/runprogram.c), load_elf        *)
(* (src/userprog/loadelf.c) and the address-space calls they make,        *)
(* as_create, as_define_region and as_define_stack (src/vm/addrspace.c). *)
(* All of this runs sequentially in the thread that starts the program,  *)
(* so each function is an operator from its inputs to its result.        *)
(*                                                                         *)
(* An executable is abstracted to the outcome of reading its ELF header  *)
(* and a sequence of program headers.  Each header has a read outcome, a  *)
(* p_type and the p_vaddr, p_memsz, p_filesz, p_offset and p_flags       *)
(* fields.  Addresses and sizes are small integers, PageSize is the page  *)
(* size, and the & and | of the code are Bitwise's.  The outcomes of      *)
(* vfs_open, as_create and copyout are inputs.                             *)
(***************************************************************************)
EXTENDS Integers, Sequences, Bitwise

CONSTANTS
  PageSize,   \* PAGE_SIZE
  UserStack,  \* USERSTACK, the top of the user stack
  Images,     \* the executables the properties range over
  Starts,     \* the runprogram calls the properties range over
  Linked      \* executables laid out as the toolchain links them

PF_X == 1
PF_W == 2
PF_R == 4

\* vaddr & PAGE_FRAME
PageFrame(v) == v - (v % PageSize)

\* as_create: empty regions and heap, 32 stack pages below USERSTACK.
EmptyAS ==
  [vbase1 |-> 0, npages1 |-> 0, perm1 |-> 0,
   vbase2 |-> 0, npages2 |-> 0, perm2 |-> 0,
   stackvbase |-> UserStack - 32 * PageSize, heapStart |-> 0, heapEnd |-> 0]

\* (mutant) as_define_region without `sz += vaddr & ~PAGE_FRAME`: the
\* page count ignores where the segment starts within its first page.
DefineRegionNoOffset(as, vaddr, sz, readable, writeable, executable) ==
  LET base  == PageFrame(vaddr)
      n     == PageFrame(sz + PageSize - 1) \div PageSize
      perm  == (readable | writeable) | executable
      heap  == base + (n + 1) * PageSize
  IN  CASE as.vbase1 = 0 ->
             [err |-> "ok",
              as |-> [as EXCEPT !.vbase1 = base, !.perm1 = perm, !.npages1 = n,
                                !.heapStart = heap, !.heapEnd = heap]]
        [] as.vbase2 = 0 ->
             [err |-> "ok",
              as |-> [as EXCEPT !.vbase2 = base, !.perm2 = perm, !.npages2 = n,
                                !.heapStart = heap, !.heapEnd = heap]]
        [] OTHER -> [err |-> "EUNIMP", as |-> as]

\* as_define_region: round the region out to whole pages and record it in
\* the first slot whose base is still 0, or the second; the heap starts
\* one page past the region just recorded.  A third region fails.
DefineRegion(as, vaddr, sz, readable, writeable, executable) ==
  LET base  == PageFrame(vaddr)
      n     == PageFrame(sz + (vaddr - base) + PageSize - 1) \div PageSize
      perm  == (readable | writeable) | executable
      heap  == base + (n + 1) * PageSize
  IN  CASE as.vbase1 = 0 ->
             [err |-> "ok",
              as |-> [as EXCEPT !.vbase1 = base, !.perm1 = perm, !.npages1 = n,
                                !.heapStart = heap, !.heapEnd = heap]]
        [] as.vbase2 = 0 ->
             [err |-> "ok",
              as |-> [as EXCEPT !.vbase2 = base, !.perm2 = perm, !.npages2 = n,
                                !.heapStart = heap, !.heapEnd = heap]]
        [] OTHER -> [err |-> "EUNIMP", as |-> as]

\* The segment fields load_elf stores in curthread (inst* or text*).
Geometry(h) ==
  [set |-> TRUE, offset |-> h.offset, memsz |-> h.memsz,
   filesz |-> h.filesz, flags |-> h.flags]

\* Fields that load_elf did not store.
Unset == [set |-> FALSE, offset |-> 0, memsz |-> 0, filesz |-> 0, flags |-> 0]

RECURSIVE PhdrLoop(_, _, _)

\* (mutant) the switch on p_type without its default case: an unknown
\* segment type is skipped instead of failing with ENOEXEC.
PhdrLoopNoTypeCheck(ph, i, st) ==
  IF i = Len(ph) THEN st
  ELSE
    LET h == ph[i + 1] IN
    CASE h.read = "error" -> [st EXCEPT !.err = "EIO"]
      [] h.read = "short" -> [st EXCEPT !.err = "ENOEXEC"]
      [] h.type # "LOAD" -> PhdrLoop(ph, i + 1, st)
      [] OTHER ->
           LET d == DefineRegion(st.as, h.vaddr, h.memsz, h.flags & PF_R,
                                 h.flags & PF_W, h.flags & PF_X)
           IN  IF d.err # "ok" THEN [st EXCEPT !.err = d.err, !.as = d.as]
               ELSE PhdrLoop(ph, i + 1,
                      [st EXCEPT !.as = d.as,
                                 !.inst = IF i = 1 THEN Geometry(h) ELSE @,
                                 !.text = IF i = 2 THEN Geometry(h) ELSE @])

\* load_elf's loop from header i (0-based): a failed or short read of the
\* header ends the load; PT_NULL, PT_PHDR and PT_MIPS_REGINFO are skipped;
\* any other type but PT_LOAD ends it with ENOEXEC; a PT_LOAD defines a
\* region, and header 1 is stored as inst*, header 2 as text*.
PhdrLoop(ph, i, st) ==
  IF i = Len(ph) THEN st
  ELSE
    LET h == ph[i + 1] IN
    CASE h.read = "error" -> [st EXCEPT !.err = "EIO"]
      [] h.read = "short" -> [st EXCEPT !.err = "ENOEXEC"]
      [] h.type \in {"NULL", "PHDR", "REGINFO"} -> PhdrLoop(ph, i + 1, st)
      [] h.type # "LOAD" -> [st EXCEPT !.err = "ENOEXEC"]
      [] OTHER ->
           LET d == DefineRegion(st.as, h.vaddr, h.memsz, h.flags & PF_R,
                                 h.flags & PF_W, h.flags & PF_X)
           IN  IF d.err # "ok" THEN [st EXCEPT !.err = d.err, !.as = d.as]
               ELSE PhdrLoop(ph, i + 1,
                      [st EXCEPT !.as = d.as,
                                 !.inst = IF i = 1 THEN Geometry(h) ELSE @,
                                 !.text = IF i = 2 THEN Geometry(h) ELSE @])

\* load_elf: a failed read of the ELF header returns its error, and a
\* short read or a header that is not a 32-bit MIPS executable returns
\* ENOEXEC; then the loop over the program headers.
LoadElf(as, img) ==
  LET st0 == [err |-> "ok", as |-> as, inst |-> Unset, text |-> Unset]
  IN  CASE img.ehdr = "error" -> [st0 EXCEPT !.err = "EIO"]
        [] img.ehdr \in {"short", "bad"} -> [st0 EXCEPT !.err = "ENOEXEC"]
        [] OTHER -> PhdrLoop(img.phdrs, 0, st0)

\* as_define_stack: the initial stack pointer is USERSTACK.
DefineStack(as) == UserStack

\* The bottom of vm_fault's stack-growth zone, 0x70000000 for a USERSTACK
\* of 0x80000000.
StackGrowBase == (UserStack \div 8) * 7

\* vm_fault's classification of a fault address against the address
\* space: the first segment, the second, the stack, the heap, the
\* stack-growth zone (which also moves as_stackvbase down; only the class
\* is modelled here), or outside every region.  Heap and stack pages are
\* both zero-filled with permission 7, the class VM calls "stack".
RegionOf(as, va) ==
  LET In(lo, hi) == lo <= va /\ va < hi IN
  CASE In(PageFrame(as.vbase1), PageFrame(as.vbase1) + as.npages1 * PageSize) -> "code"
    [] In(PageFrame(as.vbase2), PageFrame(as.vbase2) + as.npages2 * PageSize) -> "data"
    [] In(as.stackvbase, UserStack) -> "stack"
    [] In(as.heapStart, as.heapEnd) -> "stack"
    [] In(StackGrowBase, UserStack) -> "stack"
    [] OTHER -> "gap"

-----------------------------------------------------------------------------
(* Demand loading of a page of the executable: the tail of vm_fault and   *)
(* load_segment.  A page's bytes are a function from 0..PageSize-1 to     *)
(* their content: the file byte at offset o is o itself, and ZeroByte is  *)
(* a byte that bzero or uiomovezeros left.                                 *)

ZeroByte == -1

\* The bases vm_fault compares fault addresses with, 0x400000 and
\* 0x10000000, scaled to a few pages.
TextBase == PageSize
DataBase == 5 * PageSize

\* A negative int passed as a size_t: 2^w + x, larger than any segment
\* size; w is 31 here, which TLC's integers hold.
SizeMax == 2147483647
SizeT(x) == IF x >= 0 THEN x ELSE SizeMax + (x + 1)

\* (mutant) the per-page geometry without `if (filesize < 0) filesize = 0`.
PageSliceNoClamp(g, base, fa) ==
  LET offset == g.offset + ((fa - base) \div PageSize) * PageSize
      done   == offset - g.offset
      Clip(sz) == IF sz - done > PageSize THEN PageSize
                  ELSE IF sz - done < 0 THEN 0 ELSE sz - done
  IN  [offset |-> offset, memsize |-> Clip(g.memsz),
       filesize |-> IF g.filesz - done > PageSize THEN PageSize
                    ELSE g.filesz - done]

\* vm_fault's geometry for the page fa of a segment whose fields g were
\* recorded by load_elf and which the code takes to start at base: the
\* file offset of the page, and how much of the page the segment's memory
\* and file images fill (at most a page, at least 0; int arithmetic).
PageSlice(g, base, fa) ==
  LET offset == g.offset + ((fa - base) \div PageSize) * PageSize
      done   == offset - g.offset
      Clip(sz) == IF sz - done > PageSize THEN PageSize
                  ELSE IF sz - done < 0 THEN 0 ELSE sz - done
  IN  [offset |-> offset, memsize |-> Clip(g.memsz), filesize |-> Clip(g.filesz)]

\* load_segment(v, offset, vaddr, memsize, filesize) into a page that
\* page_alloc has zeroed.  memsize and filesize are size_t; filesize is
\* cut to memsize; VOP_READ fails (rd = "error") or reads short
\* (rd = "short"), whose partly written page is not modelled; otherwise
\* the page holds filesize file bytes from offset and zeros after them.
LoadSegment(s, rd) ==
  LET fs == IF SizeT(s.filesize) > SizeT(s.memsize) THEN SizeT(s.memsize)
            ELSE SizeT(s.filesize)
  IN  CASE rd = "error" -> [err |-> "EIO", bytes |-> "partial"]
        [] rd = "short" -> [err |-> "ENOEXEC", bytes |-> "partial"]
        [] OTHER -> [err |-> "ok",
                     bytes |-> [j \in 0..PageSize - 1 |->
                                  IF j < fs THEN s.offset + j ELSE ZeroByte]]

\* A page page_alloc zeroed and nothing loaded into.
ZeroPage == [j \in 0..PageSize - 1 |-> ZeroByte]

\* vfs_open of the executable, load_segment, then vfs_close, which the
\* code reaches only when load_segment succeeded: on an error vm_fault
\* returns with the vnode still open.
LoadFromFile(s, rd) ==
  LET r == LoadSegment(s, rd)
  IN  [err |-> r.err, bytes |-> r.bytes, vnodeOpen |-> r.err # "ok"]

\* The load tail of vm_fault for a page fa with no entry, in the address
\* space and with the inst*/text* fields load_elf left (ld): a page in
\* [0x400000, 0x10000000) is loaded from the inst* segment, a page in
\* [0x10000000, heapStart) from the text* segment, any other page stays
\* zero.
FaultLoad(ld, fa, rd) ==
  CASE TextBase <= fa /\ fa < DataBase ->
         LoadFromFile(PageSlice(ld.inst, TextBase, fa), rd)
    [] DataBase <= fa /\ fa < ld.as.heapStart ->
         LoadFromFile(PageSlice(ld.text, DataBase, fa), rd)
    [] OTHER -> [err |-> "ok", bytes |-> ZeroPage, vnodeOpen |-> FALSE]

\* Uninitialised kmalloc memory read as a pointer.
Garbage == -1

RECURSIVE CopyStrings(_, _, _, _, _)

\* (mutant) the copy-out loop reserving strlen bytes, without the NUL.
CopyStringsNoNul(lens, n, fail, i, st) ==
  IF i = n \/ st.err # "ok" THEN st
  ELSE
    LET sp1 == st.sp - lens[i + 1]
        sp2 == sp1 - (sp1 % 4)
    IN  IF fail = i + 1 THEN [st EXCEPT !.err = "EFAULT"]
        ELSE CopyStrings(lens, n, fail, i + 1,
                         [st EXCEPT !.sp = sp2, !.ptrs = Append(@, sp2)])

\* runprogram's copy-out loop from string i (0-based): the stack pointer
\* drops by strlen + 1 and is aligned down to 4; a failed copyout returns
\* EFAULT at once.  `fail` is the 1-based string whose copyout fails, 0 for
\* none.
CopyStrings(lens, n, fail, i, st) ==
  IF i = n \/ st.err # "ok" THEN st
  ELSE
    LET sp1 == st.sp - (lens[i + 1] + 1)
        sp2 == sp1 - (sp1 % 4)
    IN  IF fail = i + 1 THEN [st EXCEPT !.err = "EFAULT"]
        ELSE CopyStrings(lens, n, fail, i + 1,
                         [st EXCEPT !.sp = sp2, !.ptrs = Append(@, sp2)])

\* runprogram(progname, args).  r.args holds the strlen of each argument;
\* r.prognull, r.open, r.create and r.copyfail are the outcomes of the
\* calls it makes.  The result says what runprogram returns (or
\* "usermode"), whether the executable is still open, whether
\* curthread->t_vmspace is set, which kmalloc'd arrays are never freed,
\* and, in user mode, argc, the argument string addresses, the argv array
\* address and the values argv[argc] may hold.
Runprogram(r) ==
  LET argnum == Len(r.args)
      \* with more than two arguments, argnum becomes argnum - 2
      n      == IF argnum > 2 THEN argnum - 2 ELSE argnum
      ld     == LoadElf(EmptyAS, r.img)
      cp     == CopyStrings(r.args, n, r.copyfail, 0,
                            [sp |-> DefineStack(ld.as), ptrs |-> <<>>, err |-> "ok"])
      Ret(err, vnode, vmspace, leaked) ==
        [err |-> err, vnode |-> vnode, vmspace |-> vmspace, leaked |-> leaked,
         argc |-> 0, strs |-> <<>>, argv |-> 0, argvEnd |-> {}]
  IN  CASE argnum = 0 \/ r.prognull -> Ret("EFAULT", "none", FALSE, {})
        [] r.open # "ok" -> Ret(r.open, "none", FALSE, {})
        [] r.create = "nomem" -> Ret("ENOMEM", "closed", FALSE, {})
        [] ld.err # "ok" -> Ret(ld.err, "closed", TRUE, {})
        [] cp.err # "ok" -> Ret("EFAULT", "closed", TRUE, {"argptr", "argtemp"})
        [] OTHER ->
             \* argptr[argnum] = NULL is set for the original argnum; the
             \* slot argptr[n] copied out as argv[argc] is otherwise
             \* whatever kmalloc's memory held.
             [err |-> "usermode", vnode |-> "closed", vmspace |-> TRUE,
              leaked |-> {}, argc |-> n, strs |-> cp.ptrs,
              argv |-> cp.sp - 4 * (n + 1),
              argvEnd |-> IF n = argnum THEN {0} ELSE {0, Garbage}]
-----------------------------------------------------------------------------
(* What the loader promises, over the executables Images and the calls   *)
(* Starts; MCVM checks them for the processes VM runs.                    *)

IsLoad(h) == h.type = "LOAD"

\* Header k of ph is where a load must stop: it could not be read, its
\* type is unknown, or it is a third PT_LOAD (only two regions exist).
Stops(ph, k) ==
  \/ ph[k].read # "ok"
  \/ ph[k].type \notin {"NULL", "PHDR", "REGINFO", "LOAD"}
  \/ IsLoad(ph[k]) /\ Len(SelectSeq(SubSeq(ph, 1, k), IsLoad)) > 2

\* The error a loader that reads the headers in order must report: the one
\* of the first header where the load must stop, or success.
ExpectedLoadErr(img) ==
  LET ph == img.phdrs
      F  == {k \in 1..Len(ph) : Stops(ph, k)}
      h  == ph[CHOOSE k \in F : \A j \in F : k <= j]
  IN  CASE img.ehdr = "error" -> "EIO"
        [] img.ehdr # "ok" -> "ENOEXEC"
        [] F = {} -> "ok"
        [] h.read = "error" -> "EIO"
        [] IsLoad(h) -> "EUNIMP"
        [] OTHER -> "ENOEXEC"

\* load_elf with as_define_region accepts exactly the executables whose
\* headers all read, are all of a known type and hold at most two PT_LOAD
\* segments, and otherwise fails with the error of the first bad header:
\* the two-slot capacity check, the type switch and the read checks
\* together.
LoadsAsExpected ==
  \A img \in Images : LoadElf(EmptyAS, img).err = ExpectedLoadErr(img)

\* Region slot k (1 or 2) of an address space.
Slot(as, k) ==
  IF k = 1 THEN [vbase |-> as.vbase1, npages |-> as.npages1, perm |-> as.perm1]
  ELSE [vbase |-> as.vbase2, npages |-> as.npages2, perm |-> as.perm2]

\* After a successful load_elf, the k-th PT_LOAD segment is region k: the
\* region starts on a page boundary, covers every byte of the segment
\* [p_vaddr, p_vaddr + p_memsz) with no page to spare, and carries the
\* segment's r/w/x flags, so vm_fault classifies every address of the
\* segment into it.
SegmentsCovered ==
  \A img \in Images :
    LET ld == LoadElf(EmptyAS, img)
        L  == SelectSeq(img.phdrs, IsLoad)
    IN  ld.err = "ok" =>
          \A k \in 1..Len(L) :
            LET s == Slot(ld.as, k)
                h == L[k]
            IN  /\ s.vbase % PageSize = 0
                /\ s.vbase <= h.vaddr
                /\ h.vaddr + h.memsz <= s.vbase + s.npages * PageSize
                /\ s.vbase + (s.npages - 1) * PageSize < h.vaddr + h.memsz
                /\ s.perm = h.flags & (PF_R | PF_W | PF_X)

\* When runprogram enters user mode, the argument strings it copied out lie
\* below USERSTACK in order, each 4-aligned and ending (NUL included)
\* below the one before it, and the argv array of argc + 1 pointers lies
\* 4-aligned below the last string and inside the stack region: no
\* copyout overwrites another.
StacksLaidOut ==
  \A r \in Starts :
    LET res == Runprogram(r)
        s   == res.strs
        n   == res.argc
    IN  res.err = "usermode" =>
          /\ n >= 1 /\ Len(s) = n
          /\ \A i \in 1..n :
               /\ s[i] % 4 = 0
               /\ s[i] + r.args[i] + 1 <= IF i = 1 THEN UserStack ELSE s[i - 1]
          /\ res.argv % 4 = 0
          /\ res.argv + 4 * (n + 1) <= s[n]
          /\ res.argv >= EmptyAS.stackvbase

\* The argv array runprogram hands to the program ends in a NULL pointer,
\* argv[argc] = NULL, whatever uninitialised memory holds.
ArgvsTerminated ==
  \A r \in Starts : Runprogram(r).err = "usermode" => Runprogram(r).argvEnd = {0}

\* Every return of runprogram frees what it kmalloc'd.
NoLeaks ==
  \A r \in Starts : Runprogram(r).leaked = {}

\* load_elf records the geometry of the first PT_LOAD segment as inst* and
\* of the second as text*, the fields vm_fault reads for regions 1 and 2.
SegmentInfoRecorded ==
  \A img \in Images :
    LET ld == LoadElf(EmptyAS, img)
        L  == SelectSeq(img.phdrs, IsLoad)
    IN  ld.err = "ok" =>
          /\ Len(L) >= 1 => ld.inst = Geometry(L[1])
          /\ Len(L) >= 2 => ld.text = Geometry(L[2])

\* The bytes of page fa under the ELF rule for segment h: the file image
\* below p_vaddr + p_filesz, zeros above it.
ElfPage(h, fa) ==
  [j \in 0..PageSize - 1 |->
     IF h.vaddr <= fa + j /\ fa + j < h.vaddr + h.filesz
     THEN h.offset + (fa + j - h.vaddr) ELSE ZeroByte]

\* Spec 4.5 (miss): demand loading any page of either segment fills it
\* with the bytes the ELF rule gives it, the file image clipped to
\* p_filesz, zero-filled up to p_memsz and beyond.
PagesLoaded ==
  \A img \in Linked :
    LET ld == LoadElf(EmptyAS, img)
        L  == SelectSeq(img.phdrs, IsLoad)
    IN  ld.err = "ok" =>
          \A k \in 1..Len(L) :
            \A i \in 0..Slot(ld.as, k).npages - 1 :
              LET fa == Slot(ld.as, k).vbase + i * PageSize
              IN  FaultLoad(ld, fa, "ok").bytes = ElfPage(L[k], fa)

\* Every page fault that opens the executable closes it again, whether
\* load_segment's read succeeds, fails or comes up short.
VnodesClosed ==
  \A img \in Linked, rd \in {"ok", "error", "short"} :
    LET ld == LoadElf(EmptyAS, img)
        L  == SelectSeq(img.phdrs, IsLoad)
    IN  ld.err = "ok" =>
          \A k \in 1..Len(L) :
            \A i \in 0..Slot(ld.as, k).npages - 1 :
              ~FaultLoad(ld, Slot(ld.as, k).vbase + i * PageSize, rd).vnodeOpen

\* Spec 4.4: the heap starts above the highest-addressed segment.
HeapsAbove ==
  \A img \in Images :
    LET ld == LoadElf(EmptyAS, img)
        L  == SelectSeq(img.phdrs, IsLoad)
    IN  ld.err = "ok" =>
          \A k \in 1..Len(L) :
            Slot(ld.as, k).vbase + Slot(ld.as, k).npages * PageSize <= ld.as.heapStart
=============================================================================
