---------------------------- MODULE AddressSpace -----------------------------
(***************************************************************************)
(* Page directories on top of physical memory: the kernel's, whose tables  *)
(* for kernel space paging_finalize makes at boot, and the clones that     *)
(* create_process makes of it in pages of the heap; cr3 and the processor's*)
(* cache of translations (TLB), which only a load of cr3 empties, because  *)
(* nothing calls invalidate_page_tables_at.                                *)
(*                                                                         *)
(* A directory is known by the heap page its entries are in: the other     *)
(* fields, the process object and everything else in the heap is left out. *)
(* Every table of kernel space holds the one entry per page that Paging    *)
(* has in pte.                                                             *)
(***************************************************************************)
EXTENDS Paging

CONSTANTS
  Processes,         \* what create_process can be called for
  Kernel,            \* kernel_directory
  None,              \* no table, no page, no translation
  NumTables,         \* 1024 in the kernel: entries of a directory
  FirstKernelTable,  \* the entry of kernel_voffset
  HeapTable,         \* the entry of KHEAP_START
  TablePages         \* 1024 in the kernel: pages of a table

ASSUME DirectoriesAssumption == Kernel \notin Processes /\ None \notin Processes \cup {Kernel} \cup Nat
ASSUME TablesAssumption ==
  /\ NumTables \in Nat /\ TablePages \in Nat \ {0}
  /\ FirstKernelTable \in 0..NumTables /\ HeapTable \in FirstKernelTable..NumTables - 1
  /\ \A p \in HeapPages : HeapTable + p \div TablePages < NumTables

VARIABLES
  tables,             \* by directory and entry: whose get_page made the table
  page_of,            \* the heap page a process's directory is in
  entries_phys_addr,  \* its frame as clone_page_directory found it
  current_directory,
  cr3,
  tlb,                \* by heap page: the frame of a cached translation
  returned,           \* pages contract gave back since cr3 was loaded
  stopped             \* page_fault or copy_frame has stopped the kernel

spaces == <<tables, page_of, entries_phys_addr, current_directory, cr3, tlb, returned, stopped>>
allvars == <<vars, spaces>>

Dirs == Processes \cup {Kernel}
Tables == 0..NumTables - 1
KernelTables == FirstKernelTable..NumTables - 1
table_of(p) == HeapTable + p \div TablePages
Live == {d \in Processes : page_of[d] # None}

SpacesInit ==
  /\ Init
  /\ tables = [d \in Dirs |-> [i \in Tables |-> None]]
  /\ page_of = [d \in Processes |-> None]
  /\ entries_phys_addr = [d \in Dirs |-> None]
  /\ current_directory = None
  /\ cr3 = None
  /\ tlb = [p \in HeapPages |-> None]
  /\ returned = {}
  /\ stopped = FALSE

-----------------------------------------------------------------------------

\* get_page with make: the table of entry i, made if d has none.
get_page(i, d) ==
  tables' = IF tables[d][i] = None THEN [tables EXCEPT ![d][i] = d] ELSE tables

\* Fault: the directory is taken for loaded without a load of cr3.
switch_page_directory_kept(d) ==
  /\ current_directory' = d
  /\ cr3' = entries_phys_addr[d]
  /\ UNCHANGED tlb
  /\ returned' = {}

switch_page_directory(d) ==
  /\ current_directory' = d
  /\ cr3' = entries_phys_addr[d]
  /\ tlb' = [p \in HeapPages |-> None]
  /\ returned' = {}

\* Fault: only the tables of the first heap page and below are made at boot.
preallocated_few == FirstKernelTable..HeapTable

\* The tables made by the loop of paging_finalize.
preallocated == KernelTables

\* The frames that an access to heap page p can reach: none when it faults.
walk(p) == IF tables[current_directory][table_of(p)] = Kernel THEN {pte[p]} \ {0} ELSE {}
reach(p) == IF tlb[p] # None THEN {tlb[p]} ELSE walk(p)

\* Code reads or writes heap page p; page_fault stops the kernel.
access(p) ==
  \/ reach(p) = {} /\ stopped' = TRUE /\ UNCHANGED tlb
  \/ \E f \in reach(p) : tlb' = [tlb EXCEPT ![p] = f] /\ UNCHANGED stopped

-----------------------------------------------------------------------------
(* Boot.                                                                   *)

\* The kernel's directory and tables are in the memory below placement_address;
\* its last frame stands for all of theirs.
boot ==
  \/ /\ \E f \in Reservable : paging_mark_reserved(f)
     /\ UNCHANGED spaces
  \/ /\ paging_finalize
     /\ tables' = [tables EXCEPT ![Kernel] =
          [i \in Tables |-> IF i \in preallocated THEN Kernel ELSE @[i]]]
     /\ entries_phys_addr' = [entries_phys_addr EXCEPT ![Kernel] = KernelFrames - 1]
     /\ UNCHANGED <<page_of, current_directory, cr3, tlb, returned, stopped>>
  \/ /\ paging_finalize_map
     /\ IF phase' = "heap"
        THEN switch_page_directory(Kernel)
        ELSE UNCHANGED <<current_directory, cr3, tlb, returned>>
     /\ UNCHANGED <<tables, page_of, entries_phys_addr, stopped>>
  \/ /\ paging_finalize_heap
     /\ IF heap_end < InitialPages THEN get_page(table_of(heap_end), Kernel) ELSE UNCHANGED tables
     /\ UNCHANGED <<page_of, entries_phys_addr, current_directory, cr3, tlb, returned, stopped>>

-----------------------------------------------------------------------------
(* The running kernel.                                                     *)

running == phase = "run" /\ ~stopped

heap_expand ==
  /\ running
  /\ expand
  /\ get_page(table_of(heap_end), Kernel)
  /\ UNCHANGED <<page_of, entries_phys_addr, current_directory, cr3, tlb, returned, stopped>>

\* A block that is not free keeps contract away from its pages.
heap_contract ==
  /\ running
  /\ \A d \in Live : page_of[d] < heap_end - 1
  /\ contract
  /\ returned' = returned \cup {heap_end - 1}
  /\ UNCHANGED <<tables, page_of, entries_phys_addr, current_directory, cr3, tlb, stopped>>

\* A table of dir that is not the kernel's would have to be copied.
shares(dir) == \A i \in Tables : tables[dir][i] \in {None, tables[Kernel][i]}

\* The directory of d, in page p, links the tables of current_directory.
link(d, p) ==
  /\ tables' = [tables EXCEPT ![d] = tables[current_directory]]
  /\ page_of' = [page_of EXCEPT ![d] = p]
  /\ entries_phys_addr' = [entries_phys_addr EXCEPT ![d] = pte[p]]

\* Fault: the new directory is not cleared, so that nothing accesses its page.
clone_page_directory_raw(d, p) == link(d, p) /\ UNCHANGED <<tlb, stopped>>

\* Its memset accesses the page; copy_frame, unfinished, stops the kernel.
clone_page_directory(d, p) ==
  \/ /\ reach(p) # {} /\ shares(current_directory)
     /\ access(p)
     /\ link(d, p)
  \/ /\ reach(p) = {} \/ ~shares(current_directory)
     /\ stopped' = TRUE
     /\ UNCHANGED <<tables, page_of, entries_phys_addr, tlb>>

\* The allocator has a free page p below the heap's end; expand has been before
\* where it had none.
create_process(d) ==
  /\ running /\ status = "ok"
  /\ d \notin Live
  /\ \E p \in 0..heap_end - 1 :
       /\ \A e \in Live : page_of[e] # p
       /\ clone_page_directory(d, p)
  /\ UNCHANGED <<vars, current_directory, cr3, returned>>

\* schedule_tick comes to a thread of another process.  With a directory in frame
\* 0, where none is, the processor finds no code any more.
schedule_tick(d) ==
  /\ running
  /\ d \in Live \cup {Kernel}
  /\ current_directory # d
  /\ switch_page_directory(d)
  /\ stopped' = (entries_phys_addr[d] = 0)
  /\ UNCHANGED <<vars, tables, page_of, entries_phys_addr>>

use_heap(p) ==
  /\ running
  /\ p < heap_end
  /\ access(p)
  /\ UNCHANGED <<vars, tables, page_of, entries_phys_addr, current_directory, cr3, returned>>

\* The processor drops a translation when it likes to.
evict(p) ==
  /\ running
  /\ tlb[p] # None
  /\ tlb' = [tlb EXCEPT ![p] = None]
  /\ UNCHANGED <<vars, tables, page_of, entries_phys_addr, current_directory, cr3, returned, stopped>>

SpacesNext ==
  \/ boot
  \/ heap_expand
  \/ heap_contract
  \/ \E d \in Processes : create_process(d)
  \/ \E d \in Dirs : schedule_tick(d)
  \/ \E p \in HeapPages : use_heap(p) \/ evict(p)

SpacesSpec == SpacesInit /\ [][SpacesNext]_allvars

-----------------------------------------------------------------------------

\* "Preallocate every page table for kernel space. That way, PDE never change and
\* we don't have to update kernel pages across processes": a heap page is seen in
\* every process as in the kernel, also when it was mapped after the process was
\* made, and no process has a table that is its own and would have to be copied.
KernelSpaceShared ==
  /\ \A d \in Live, i \in KernelTables : tables[d][i] = tables[Kernel][i]
  /\ phase = "run" => \A d \in Live \cup {Kernel} : shares(d)

\* clone_page_directory does not check that its page has a frame, which it has
\* not when expand found none; the page fault of its memset stops the kernel
\* before the directory can be loaded.  The exception is a page that was given
\* back and whose old translation is still cached.
CloneHasFrame ==
  [][\A d \in Live' \ Live :
       \/ entries_phys_addr'[d] \in frames \ kernel_pages
       \/ page_of'[d] \in returned]_allvars

\* What the processor has cached is what the tables say, except for pages that
\* contract gave back since cr3 was loaded: free_page does not invalidate the
\* translation.
StaleOnlyReturned ==
  \A p \in HeapPages \ returned : tlb[p] \in {None, pte[p]}

\* Through the tables or through the TLB, stale translations included, no two
\* pages of the heap lead to the same frame and none to a frame of the kernel.
\* The exception is a frame that is first in its word of the bitmap, the only
\* ones clear_frame gives back: a stale translation still leads to it when
\* it has its next owner.
TranslationsSound ==
  /\ StaleOnlyReturned
  /\ phase = "run" =>
       \A p, q \in 0..heap_end - 1 : \A f \in (reach(p) \cup walk(p)) \cap (reach(q) \cup walk(q)) :
         /\ p = q \/ f % WordBits = 0
         /\ f \notin kernel_pages

=============================================================================
