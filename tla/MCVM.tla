-------------------------------- MODULE MCVM --------------------------------
(* Instances of VM for TLC: the address spaces, pages and their regions.   *)
(* The region of each page is not given by hand: it is what vm_fault's    *)
(* classification (Loader!RegionOf) makes of it in the address space that *)
(* load_elf builds from a standard executable, so VM runs against the     *)
(* regions the loader really defines.                                      *)
EXTENDS VM, Loader, TLC

CONSTANTS a1, a2, pc, pd, ps, px

\* A header that load_elf skips, and the template for the others.
Reginfo ==
  [read |-> "ok", type |-> "REGINFO", vaddr |-> 0, memsz |-> 0,
   filesz |-> 0, offset |-> 0, flags |-> 0]

\* The executables OS/161's toolchain produces: a PT_MIPS_REGINFO header,
\* then the text segment (r-x) and the data segment (rw-) as PT_LOADs.
StdPhdrs ==
  << Reginfo,
     [Reginfo EXCEPT !.type = "LOAD", !.vaddr = 8, !.memsz = 9, !.filesz = 9,
                     !.offset = 16, !.flags = 5],
     [Reginfo EXCEPT !.type = "LOAD", !.vaddr = 40, !.memsz = 3, !.filesz = 2,
                     !.offset = 32, !.flags = 6] >>

StdImage == [ehdr |-> "ok", phdrs |-> StdPhdrs]

\* One address in each page: in the text segment, in the data segment, in
\* the stack, and between the segments.
MCAddr == (pc :> 8) @@ (pd :> 40) @@ (ps :> 500) @@ (px :> 30)

\* The address space load_elf builds from the standard executable, and the
\* class of each page in it.
StdAS == LoadElf(EmptyAS, StdImage).as

MCRegion == [v \in DOMAIN MCAddr |-> RegionOf(StdAS, MCAddr[v])]

MCKind == [v \in Pages |-> MCRegion[v]]

\* Program headers for the loader properties: PT_LOADs at page-aligned and
\* unaligned addresses (none in page 0), sizes that do and do not cross a
\* page boundary, text and data flags; a skipped header, an unknown type,
\* and failed and short reads.
MCHeaders ==
  {[Reginfo EXCEPT !.type = "LOAD", !.vaddr = v, !.memsz = m, !.filesz = m,
                   !.flags = f] : v \in {8, 13, 40}, m \in {4, 9}, f \in {5, 6}}
  \cup {Reginfo, [Reginfo EXCEPT !.type = "OTHER"],
        [Reginfo EXCEPT !.read = "error"], [Reginfo EXCEPT !.read = "short"]}

\* Every sequence of at most three such headers behind a good ELF header,
\* and the standard headers behind each kind of bad one.
MCImages ==
  {[ehdr |-> "ok", phdrs |-> s] : s \in UNION {[1..k -> MCHeaders] : k \in 0..3}}
  \cup {[ehdr |-> e, phdrs |-> StdPhdrs] : e \in {"error", "short", "bad"}}

\* As MCImages, with PT_LOADs that may also lie in page 0.
MCImagesPage0 ==
  MCImages \cup
  {[ehdr |-> "ok", phdrs |-> s] :
     s \in [1..3 -> {[Reginfo EXCEPT !.type = "LOAD", !.vaddr = v, !.memsz = 4,
                                     !.flags = 6] : v \in {3, 40}}]}

\* runprogram calls: up to four arguments of lengths 1, 3 and 4, with and
\* without a program name, each outcome of vfs_open and as_create, a good
\* and a truncated executable, and no, the first or the second string
\* copyout failing.
MCStarts ==
  [args : UNION {[1..k -> {1, 3, 4}] : k \in 0..4},
   prognull : BOOLEAN, open : {"ok", "ENOENT"}, create : {"ok", "nomem"},
   img : {StdImage, [StdImage EXCEPT !.ehdr = "short"]}, copyfail : 0..2]
\* Executables as the toolchain links them: a REGINFO header, a text
\* segment at 0x400000 and a data segment at 0x10000000, each with a file
\* image no larger than its memory image; offsets, file and memory sizes
\* that fill part of a page, a page, or cross pages, and bss pages.
LinkedSeg(v, fl) ==
  {[Reginfo EXCEPT !.type = "LOAD", !.vaddr = v, !.offset = o, !.filesz = f,
                   !.memsz = m, !.flags = fl] :
     o \in {0, 3, 16}, f \in {0, 5, 8, 12}, m \in {8, 12, 20}}

MCLinked ==
  {[ehdr |-> "ok", phdrs |-> <<Reginfo, t, d>>] :
     t \in {h \in LinkedSeg(TextBase, 5) : h.filesz <= h.memsz},
     d \in {h \in LinkedSeg(DataBase, 6) : h.filesz <= h.memsz}}

\* As MCLinked, with segments that do not start at those two addresses.
MCLinkedAnyBase ==
  MCLinked \cup
  {[ehdr |-> "ok", phdrs |-> <<Reginfo, t, d>>] :
     t \in LinkedSeg(TextBase + 3, 5) \cup LinkedSeg(2 * TextBase, 5),
     d \in {h \in LinkedSeg(DataBase, 6) : h.filesz <= h.memsz}}

-----------------------------------------------------------------------------
(* The loader properties, for every process VM has started: each one was  *)
(* started by runprogram and load_elf, which must behave as below on every *)
(* executable of Images and every call of Starts.                          *)

Started == {a \in AS : proc[a] # "unborn"}

\* load_elf fails exactly on a bad header, an unknown segment type or a
\* third PT_LOAD, with the error of the first such header (Loader).
LoadResult == Started # {} => LoadsAsExpected

\* Each PT_LOAD segment lies in the page-rounded region as_define_region
\* records for it, with its r/w/x flags (Loader).
RegionsCoverSegments == Started # {} => SegmentsCovered

\* runprogram's argument strings and argv array are 4-aligned and do not
\* overlap on the user stack (Loader).
StackLayout == Started # {} => StacksLaidOut

\* A page of the executable, demand-loaded by vm_fault and load_segment,
\* holds the segment's file bytes up to p_filesz and zeros after (Loader).
PageContents == Started # {} => PagesLoaded

\* vm_fault closes the executable it opened for a demand load, also when
\* load_segment fails (Loader).
FaultVnodeClosed == Started # {} => VnodesClosed

\* runprogram hands the program an argv ending in NULL (Loader).
ArgvTerminated == Started # {} => ArgvsTerminated

\* runprogram frees argptr and argtemp on every return (Loader).
NoLeakOnError == Started # {} => NoLeaks

\* load_elf records the geometry of the first two PT_LOADs (Loader).
SegmentInfoByLoad == Started # {} => SegmentInfoRecorded

\* Spec 4.4: the heap starts above the highest-addressed segment (Loader).
HeapAboveSegments == Started # {} => HeapsAbove
=============================================================================
