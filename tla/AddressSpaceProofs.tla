-------------------------- MODULE AddressSpaceProofs --------------------------
(***************************************************************************)
(* Address spaces and the processor's cached translations, for every size  *)
(* of memory and of the tables, any number of processes and any history of *)
(* expansions, contractions, clones and task switches.                     *)
(***************************************************************************)
EXTENDS AddressSpace, PagingProofs

SType ==
  /\ tables \in [Dirs -> [Tables -> Dirs \cup {None}]]
  /\ page_of \in [Processes -> HeapPages \cup {None}]
  /\ entries_phys_addr \in [Dirs -> Frames \cup {None}]
  /\ tlb \in [HeapPages -> Frames \cup {None}]
  /\ returned \subseteq HeapPages
  /\ phase \in {"reserve", "map", "heap", "run"}

\* Until the kernel runs there is no process, and until its directory is loaded
\* no translation.
NoneAtBoot ==
  /\ phase # "run" => Live = {} /\ \A p \in HeapPages : tlb[p] = None
  /\ phase = "heap" => current_directory = Kernel
  /\ phase = "run" => current_directory \in Live \cup {Kernel}

\* From paging_finalize on the kernel's tables never change, and every process
\* has the same ones.
TablesFixed ==
  /\ \A i \in Tables : tables[Kernel][i] \in {None, Kernel}
  /\ phase # "reserve" => \A i \in KernelTables : tables[Kernel][i] = Kernel
  /\ \A d \in Live : tables[d] = tables[Kernel]

\* A cached frame is one that was mapped: it still has its bit set unless it was
\* given back, which only the first frame of a word can be.
CachedFrames ==
  \A p \in HeapPages : tlb[p] # None =>
    /\ tlb[p] \in Frames /\ tlb[p] # 0
    /\ tlb[p] \notin kernel_pages
    /\ tlb[p] \in frames \/ tlb[p] % WordBits = 0

\* The frames page p has or is still taken to have.
Leads(p) == {tlb[p], pte[p]} \ {None, 0}

\* A frame that two pages lead to is the first of its word.
LeadsApart ==
  \A p, q \in HeapPages : \A f \in Leads(p) \cap Leads(q) : p = q \/ f % WordBits = 0

SpacesInvariant ==
  /\ FrameInvariant /\ SType /\ NoneAtBoot /\ TablesFixed
  /\ StaleOnlyReturned /\ CachedFrames /\ LeadsApart

\* What a step does to physical memory is a step of Paging.
LEMMA SpacesStep ==
  ASSUME [SpacesNext]_allvars
  PROVE  [Next]_vars
BY DEF SpacesNext, allvars, boot, heap_expand, heap_contract, create_process, schedule_tick,
       use_heap, evict, Next

\* The address spaces implement physical memory as Paging has it: what is proved
\* of frames holds with processes, task switches and the TLB as well.
THEOREM SpacesImplementPaging == SpacesSpec => Spec
<1>1. SpacesInit => Init
  BY DEF SpacesInit
<1> QED BY <1>1, SpacesStep, PTL DEF SpacesSpec, Spec

-----------------------------------------------------------------------------
(* The TLB.                                                                *)

\* With an empty TLB the pages lead to their own frames only.
LEMMA EmptyCache ==
  ASSUME FrameInvariant', \A p \in HeapPages : tlb'[p] = None
  PROVE  StaleOnlyReturned' /\ CachedFrames' /\ LeadsApart'
BY DEF StaleOnlyReturned, CachedFrames, LeadsApart, Leads, FrameInvariant, FrameExclusive, Mapped

\* While physical memory stays as it is, translations may be dropped, and those
\* the tables hold may be cached.
LEMMA CachePreserves ==
  ASSUME SpacesInvariant, UNCHANGED <<vars, returned>>,
         \A p \in HeapPages : tlb'[p] \in {None, tlb[p]} \cup ({pte[p]} \ {0})
  PROVE  StaleOnlyReturned' /\ CachedFrames' /\ LeadsApart'
<1> USE DEF SpacesInvariant
<1>1. UNCHANGED <<frames, kernel_pages, pte, returned>>
  BY DEF vars
<1>2. StaleOnlyReturned'
  BY <1>1 DEF StaleOnlyReturned
<1>3. CachedFrames'
  BY <1>1 DEF CachedFrames, FrameInvariant, PTypeOK, MappedIsSet, FrameExclusive, Mapped
<1>4. \A p \in HeapPages : Leads(p)' \subseteq Leads(p)
  BY <1>1 DEF Leads
<1>5. LeadsApart'
  BY <1>4 DEF LeadsApart
<1> QED BY <1>2, <1>3, <1>5

\* An access caches what it reaches: a frame the page already leads to.
LEMMA AccessCaches ==
  ASSUME SpacesInvariant, NEW p \in HeapPages, access(p)
  PROVE  /\ \A q \in HeapPages : tlb'[q] \in {None, tlb[q]} \cup ({pte[q]} \ {0})
         /\ tlb' \in [HeapPages -> Frames \cup {None}]
<1>1. CASE UNCHANGED tlb
  BY <1>1 DEF SpacesInvariant, SType
<1>2. CASE \E f \in reach(p) : tlb' = [tlb EXCEPT ![p] = f]
  <2>1. PICK f \in reach(p) : tlb' = [tlb EXCEPT ![p] = f]
    BY <1>2
  <2>2. f \in {tlb[p]} \ {None} \/ f \in {pte[p]} \ {0}
    BY DEF reach, walk
  <2>3. f \in Frames
    BY <2>2 DEF SpacesInvariant, SType, FrameInvariant, PTypeOK
  <2> QED BY <2>1, <2>2, <2>3 DEF SpacesInvariant, SType
<1> QED BY <1>1, <1>2 DEF access

\* The heap lies in kernel space, whose tables exist since boot: get_page makes
\* none.
LEMMA HeapTableExists ==
  ASSUME SpacesInvariant, phase # "reserve", NEW p \in HeapPages, get_page(table_of(p), Kernel)
  PROVE  UNCHANGED tables
<1>1. table_of(p) \in KernelTables
  <2>1. p \in Nat
    BY PagesAssumption DEF HeapPages
  <2>2. p \div TablePages \in Nat
    BY <2>1, TablesAssumption
  <2> QED BY <2>2, TablesAssumption DEF table_of, KernelTables
<1> QED BY <1>1, DirectoriesAssumption DEF SpacesInvariant, TablesFixed, get_page, Dirs

-----------------------------------------------------------------------------
(* The steps.                                                              *)

\* Boot makes the tables, loads the kernel's directory and maps the first pages of
\* the heap, with no process and nothing cached.
LEMMA BootPreserves ==
  ASSUME SpacesInvariant, FrameInvariant', boot
  PROVE  SpacesInvariant'
<1> USE DirectoriesAssumption
<1> USE DEF SpacesInvariant
<1>1. ASSUME NEW f \in Reservable, paging_mark_reserved(f), UNCHANGED spaces PROVE SpacesInvariant'
  <2>1. UNCHANGED <<tables, page_of, entries_phys_addr, current_directory, tlb, returned, phase>> /\ phase = "reserve"
    BY <1>1 DEF spaces, paging_mark_reserved
  <2>2. SType' /\ NoneAtBoot' /\ TablesFixed'
    BY <2>1 DEF SType, NoneAtBoot, TablesFixed, Live
  <2> QED BY <2>1, <2>2, EmptyCache DEF NoneAtBoot
<1>2. CASE /\ paging_finalize
           /\ tables' = [tables EXCEPT ![Kernel] =
                [i \in Tables |-> IF i \in preallocated THEN Kernel ELSE @[i]]]
           /\ entries_phys_addr' = [entries_phys_addr EXCEPT ![Kernel] = KernelFrames - 1]
           /\ UNCHANGED <<page_of, current_directory, cr3, tlb, returned, stopped>>
  <2>1. UNCHANGED <<page_of, current_directory, tlb, returned>> /\ phase = "reserve" /\ phase' = "map"
    BY <1>2 DEF paging_finalize
  <2>2. tables'[Kernel] = [i \in Tables |-> IF i \in KernelTables THEN Kernel ELSE tables[Kernel][i]]
    BY <1>2 DEF SType, Dirs, preallocated
  <2>3. tables' \in [Dirs -> [Tables -> Dirs \cup {None}]]
    BY <1>2, <2>2 DEF SType, Dirs
  <2>4. KernelTables \subseteq Tables
    BY TablesAssumption DEF KernelTables, Tables
  <2>5. SType' /\ NoneAtBoot'
    <3>1. KernelFrames - 1 \in Frames
      BY FramesAssumption, KernelAssumption DEF Frames
    <3> QED BY <1>2, <2>1, <2>3, <3>1 DEF SType, NoneAtBoot, Live
  <2>6. TablesFixed'
    BY <2>1, <2>2, <2>4 DEF TablesFixed, NoneAtBoot, Live
  <2> QED BY <2>1, <2>5, <2>6, EmptyCache DEF NoneAtBoot
<1>3. CASE /\ paging_finalize_map
           /\ IF phase' = "heap"
              THEN switch_page_directory(Kernel)
              ELSE UNCHANGED <<current_directory, cr3, tlb, returned>>
           /\ UNCHANGED <<tables, page_of, entries_phys_addr, stopped>>
  <2>1. phase = "map" /\ phase' \in {"map", "heap"}
    BY <1>3 DEF paging_finalize_map
  <2>2. /\ tlb' \in [HeapPages -> Frames \cup {None}]
        /\ \A p \in HeapPages : tlb'[p] = None
        /\ returned' \subseteq HeapPages
        /\ phase' = "heap" => current_directory' = Kernel
    BY <1>3, <2>1 DEF switch_page_directory, SType, NoneAtBoot
  <2>3. SType' /\ NoneAtBoot' /\ TablesFixed'
    BY <1>3, <2>1, <2>2 DEF SType, NoneAtBoot, TablesFixed, Live
  <2> QED BY <2>2, <2>3, EmptyCache
<1>4. CASE /\ paging_finalize_heap
           /\ IF heap_end < InitialPages THEN get_page(table_of(heap_end), Kernel) ELSE UNCHANGED tables
           /\ UNCHANGED <<page_of, entries_phys_addr, current_directory, cr3, tlb, returned, stopped>>
  <2>1. phase = "heap" /\ phase' \in {"heap", "run"}
    BY <1>4 DEF paging_finalize_heap
  <2>2. UNCHANGED tables
    <3>1. CASE heap_end < InitialPages
      <4>1. heap_end \in HeapPages
        BY <3>1, PagesAssumption DEF FrameInvariant, PTypeOK, HeapPages
      <4> QED BY <1>4, <2>1, <3>1, <4>1, HeapTableExists
    <3> QED BY <1>4, <3>1
  <2>3. SType' /\ NoneAtBoot' /\ TablesFixed'
    BY <1>4, <2>1, <2>2 DEF SType, NoneAtBoot, TablesFixed, Live
  <2> QED BY <1>4, <2>1, <2>3, EmptyCache DEF NoneAtBoot
<1> QED BY <1>1, <1>2, <1>3, <1>4 DEF boot

\* The page at the end of the heap gets a frame whose bit was clear: no page has
\* it, and none is still taken to have it unless it was given back.
LEMMA ExpandPreserves ==
  ASSUME SpacesInvariant, FrameInvariant', heap_expand
  PROVE  SpacesInvariant'
<1> USE DEF SpacesInvariant
<1>1. /\ phase = "run" /\ heap_end < MaxPages /\ alloc_page(heap_end)
      /\ UNCHANGED <<kernel_pages, phase, page_of, entries_phys_addr, current_directory, tlb, returned>>
  BY DEF heap_expand, expand
<1>2. heap_end \in HeapPages
  BY <1>1, PagesAssumption DEF FrameInvariant, PTypeOK, HeapPages
<1>3. UNCHANGED tables
  BY <1>1, <1>2, HeapTableExists DEF heap_expand
<1>4. SType' /\ NoneAtBoot' /\ TablesFixed'
  BY <1>1, <1>3 DEF SType, NoneAtBoot, TablesFixed, Live
<1>5. pte[heap_end] = 0
  BY <1>2 DEF FrameInvariant, PTypeOK, NothingAboveEnd, Mapped, HeapPages
<1>6. /\ frames \subseteq frames'
      /\ \A q \in HeapPages : pte'[q] = pte[q] \/ (q = heap_end /\ pte'[q] \notin frames)
  <2>1. CASE UNCHANGED <<frames, pte>>
    BY <2>1
  <2>2. CASE \E f \in first_free_frames : set_frame(f) /\ pte' = [pte EXCEPT ![heap_end] = f]
    <3>1. PICK f \in first_free_frames : set_frame(f) /\ pte' = [pte EXCEPT ![heap_end] = f]
      BY <2>2
    <3>2. f \notin frames /\ frames' = frames \cup {f}
      BY <3>1, SetFrameSets DEF first_free_frames
    <3> QED BY <1>2, <3>1, <3>2 DEF FrameInvariant, PTypeOK
  <2> QED BY <1>1, <2>1, <2>2 DEF alloc_page, no_frame
<1>7. CachedFrames'
  BY <1>1, <1>6 DEF CachedFrames
<1>8. StaleOnlyReturned'
  BY <1>1, <1>2, <1>5, <1>6 DEF StaleOnlyReturned, CachedFrames
<1>9. LeadsApart'
  <2> SUFFICES ASSUME NEW p \in HeapPages, NEW q \in HeapPages, p # q,
                      NEW f \in Leads(p)' \cap Leads(q)'
               PROVE  f % WordBits = 0
    BY DEF LeadsApart
  <2>1. \A r \in HeapPages : f \in Leads(r)' => f \in Leads(r) \/ (r = heap_end /\ f \notin frames)
    BY <1>1, <1>6 DEF Leads
  <2>2. \A r \in HeapPages : f \in Leads(r) => f \in frames \/ f % WordBits = 0
    BY DEF Leads, CachedFrames, FrameInvariant, MappedIsSet, Mapped
  <2> QED BY <2>1, <2>2 DEF LeadsApart
<1> QED BY <1>4, <1>7, <1>8, <1>9

\* A page that is given back leads only where it is cached to lead, and its frame
\* loses its bit only if it is the first of its word.
LEMMA ContractPreserves ==
  ASSUME SpacesInvariant, FrameInvariant', heap_contract
  PROVE  SpacesInvariant'
<1> USE DEF SpacesInvariant
<1> DEFINE p == heap_end - 1
<1>1. /\ phase = "run" /\ heap_end > MinPages /\ free_page(p)
      /\ returned' = returned \cup {p}
      /\ UNCHANGED <<kernel_pages, phase, tables, page_of, entries_phys_addr, current_directory, tlb>>
  BY DEF heap_contract, contract
<1>2. p \in HeapPages
  BY <1>1, PagesAssumption DEF FrameInvariant, PTypeOK, HeapPages
<1>3. SType' /\ NoneAtBoot' /\ TablesFixed'
  BY <1>1, <1>2 DEF SType, NoneAtBoot, TablesFixed, Live
<1>4. \A q \in HeapPages : pte'[q] = IF q = p THEN 0 ELSE pte[q]
  BY <1>1, <1>2 DEF free_page, FrameInvariant, PTypeOK
<1>5. \A f \in frames \ frames' : f % WordBits = 0
  <2>1. CASE UNCHANGED frames
    BY <2>1
  <2>2. CASE test_frame(pte[p]) = 1 /\ frames' = frames \ {pte[p]}
    <3>1. 2^(pte[p] % WordBits) = 1
      BY <2>2 DEF test_frame
    <3>2. pte[p] % WordBits \in Nat
      BY <1>2, FramesAssumption DEF FrameInvariant, PTypeOK, Frames
    <3> QED BY <2>2, <3>1, <3>2, MaskOfBit
  <2> QED BY <1>1, <2>1, <2>2 DEF free_page, clear_frame
<1> HIDE DEF p
<1>6. CachedFrames'
  BY <1>1, <1>5 DEF CachedFrames
<1>7. StaleOnlyReturned'
  BY <1>1, <1>4 DEF StaleOnlyReturned
<1>8. \A q \in HeapPages : Leads(q)' \subseteq Leads(q)
  BY <1>1, <1>4 DEF Leads
<1>9. LeadsApart'
  BY <1>8 DEF LeadsApart
<1> QED BY <1>3, <1>6, <1>7, <1>9

\* A new process has the tables of the one that made it, which are the kernel's.
LEMMA CreatePreserves ==
  ASSUME SpacesInvariant, FrameInvariant', NEW d \in Processes, create_process(d)
  PROVE  SpacesInvariant'
<1> USE DirectoriesAssumption
<1> USE DEF SpacesInvariant
<1>1. phase = "run" /\ UNCHANGED <<vars, current_directory, returned, phase>>
  BY DEF create_process, running, vars
<1>2. PICK p \in 0..heap_end - 1 : clone_page_directory(d, p)
  BY DEF create_process
<1>3. p \in HeapPages /\ p # None
  BY PagesAssumption DEF FrameInvariant, PTypeOK, HeapPages
<1>4. CASE access(p) /\ link(d, p)
  <2>1. tables' = [tables EXCEPT ![d] = tables[Kernel]]
    BY <1>1, <1>4 DEF link, NoneAtBoot, TablesFixed
  <2>2. page_of' = [page_of EXCEPT ![d] = p]
    BY <1>4 DEF link
  <2>3. Live' = Live \cup {d}
    BY <1>3, <2>2 DEF Live, SType
  <2>4. tables'[Kernel] = tables[Kernel] /\ \A e \in Live' : tables'[e] = tables[Kernel]
    BY <2>1, <2>3 DEF SType, Dirs, Live, TablesFixed
  <2>5. SType'
    <3>1. entries_phys_addr' = [entries_phys_addr EXCEPT ![d] = pte[p]] /\ pte[p] \in Frames
      BY <1>3, <1>4 DEF link, FrameInvariant, PTypeOK
    <3> QED BY <1>1, <1>3, <1>4, <2>1, <2>2, <3>1, AccessCaches DEF SType, Dirs
  <2>6. NoneAtBoot' /\ TablesFixed'
    BY <1>1, <2>3, <2>4 DEF NoneAtBoot, TablesFixed
  <2> QED BY <1>1, <1>3, <1>4, <2>5, <2>6, AccessCaches, CachePreserves
<1>5. CASE UNCHANGED <<tables, page_of, entries_phys_addr, tlb>>
  <2>1. SType' /\ NoneAtBoot' /\ TablesFixed'
    BY <1>1, <1>5 DEF SType, NoneAtBoot, TablesFixed, Live
  <2> QED BY <1>1, <1>5, <2>1, CachePreserves
<1> QED BY <1>2, <1>4, <1>5 DEF clone_page_directory

\* The steps that change neither physical memory nor the tables: a task switch
\* empties the TLB, an access fills it, the processor drops from it.
LEMMA TranslationPreserves ==
  ASSUME SpacesInvariant, FrameInvariant',
         \/ \E d \in Dirs : schedule_tick(d)
         \/ \E p \in HeapPages : use_heap(p) \/ evict(p)
  PROVE  SpacesInvariant'
<1> USE DEF SpacesInvariant
<1>1. ASSUME NEW d \in Dirs, schedule_tick(d) PROVE SpacesInvariant'
  <2>1. /\ phase = "run" /\ UNCHANGED <<vars, phase, tables, page_of, entries_phys_addr>>
        /\ current_directory' = d /\ d \in Live \cup {Kernel}
        /\ tlb' = [p \in HeapPages |-> None] /\ returned' = {}
    BY <1>1 DEF schedule_tick, switch_page_directory, running, vars
  <2>2. SType' /\ NoneAtBoot' /\ TablesFixed'
    BY <2>1 DEF SType, NoneAtBoot, TablesFixed, Live
  <2> QED BY <2>1, <2>2, EmptyCache
<1>2. ASSUME NEW p \in HeapPages, use_heap(p) \/ evict(p) PROVE SpacesInvariant'
  <2>1. /\ phase = "run"
        /\ UNCHANGED <<vars, phase, tables, page_of, entries_phys_addr, current_directory, returned>>
    BY <1>2 DEF use_heap, evict, running, vars
  <2>2. /\ \A q \in HeapPages : tlb'[q] \in {None, tlb[q]} \cup ({pte[q]} \ {0})
        /\ tlb' \in [HeapPages -> Frames \cup {None}]
    <3>1. CASE use_heap(p)
      BY <3>1, AccessCaches DEF use_heap
    <3>2. CASE evict(p)
      BY <3>2 DEF evict, SType
    <3> QED BY <1>2, <3>1, <3>2
  <2>3. SType' /\ NoneAtBoot' /\ TablesFixed'
    BY <2>1, <2>2 DEF SType, NoneAtBoot, TablesFixed, Live
  <2> QED BY <2>1, <2>2, <2>3, CachePreserves
<1> QED BY <1>1, <1>2

\* The invariant holds from paging_init on.
THEOREM SpacesAlways == SpacesSpec => []SpacesInvariant
<1>1. SpacesInit => SpacesInvariant
  <2> SUFFICES ASSUME SpacesInit PROVE SpacesInvariant
    OBVIOUS
  <2>1. FrameInvariant
    BY FramesAssumption, KernelAssumption, PagesAssumption
       DEF SpacesInit, Init, FrameInvariant, PTypeOK, HeapEmptyAtBoot, NothingAboveEnd,
           MappedIsSet, FrameExclusive, Mapped, Frames, HeapPages
  <2>2. SType /\ NoneAtBoot /\ TablesFixed
    BY DirectoriesAssumption DEF SpacesInit, Init, SType, NoneAtBoot, TablesFixed, Live, Dirs
  <2>3. StaleOnlyReturned /\ CachedFrames /\ LeadsApart
    BY DEF SpacesInit, Init, StaleOnlyReturned, CachedFrames, LeadsApart, Leads
  <2> QED BY <2>1, <2>2, <2>3 DEF SpacesInvariant
<1>2. SpacesInvariant /\ [SpacesNext]_allvars => SpacesInvariant'
  <2> SUFFICES ASSUME SpacesInvariant, [SpacesNext]_allvars PROVE SpacesInvariant'
    OBVIOUS
  <2>1. FrameInvariant'
    BY SpacesStep, StepPreserves DEF SpacesInvariant
  <2>2. CASE boot \/ heap_expand \/ heap_contract
    BY <2>1, <2>2, BootPreserves, ExpandPreserves, ContractPreserves
  <2>3. CASE \E d \in Processes : create_process(d)
    BY <2>1, <2>3, CreatePreserves
  <2>4. CASE \/ \E d \in Dirs : schedule_tick(d)
             \/ \E p \in HeapPages : use_heap(p) \/ evict(p)
    BY <2>1, <2>4, TranslationPreserves
  <2>5. CASE UNCHANGED allvars
    <3>1. UNCHANGED <<vars, tables, page_of, entries_phys_addr, current_directory, tlb, returned, phase>>
      BY <2>5 DEF allvars, spaces, vars
    <3>2. SType' /\ NoneAtBoot' /\ TablesFixed'
      BY <3>1 DEF SpacesInvariant, SType, NoneAtBoot, TablesFixed, Live
    <3> QED BY <2>1, <3>1, <3>2, CachePreserves DEF SpacesInvariant
  <2> QED BY <2>2, <2>3, <2>4, <2>5 DEF SpacesNext
<1> QED BY <1>1, <1>2, PTL DEF SpacesSpec

\* Every process sees kernel space as the kernel does, pages mapped after it was
\* made included, and has no table of its own: the tables made at boot are all
\* that is ever needed, so nothing has to be updated across processes.
THEOREM KernelSpaceAlwaysShared == SpacesSpec => []KernelSpaceShared
<1>1. SpacesInvariant => KernelSpaceShared
  BY DEF SpacesInvariant, TablesFixed, KernelSpaceShared, shares, Live
<1> QED BY <1>1, SpacesAlways, PTL

\* Cached or not, a translation leads to a frame no other page of the heap leads
\* to and the kernel is not in, unless clear_frame gave that frame back.
THEOREM TranslationsAlwaysSound == SpacesSpec => []TranslationsSound
<1>1. SpacesInvariant => TranslationsSound
  <2> SUFFICES ASSUME SpacesInvariant, NEW p \in 0..heap_end - 1, NEW q \in 0..heap_end - 1,
                      NEW f \in (reach(p) \cup walk(p)) \cap (reach(q) \cup walk(q))
               PROVE  (p = q \/ f % WordBits = 0) /\ f \notin kernel_pages
    BY DEF TranslationsSound, SpacesInvariant
  <2>1. p \in HeapPages /\ q \in HeapPages
    BY PagesAssumption DEF SpacesInvariant, FrameInvariant, PTypeOK, HeapPages
  <2>2. f \in Leads(p) /\ f \in Leads(q)
    BY <2>1, DirectoriesAssumption
       DEF reach, walk, Leads, SpacesInvariant, CachedFrames, FrameInvariant, PTypeOK, Frames
  <2> QED BY <2>1, <2>2 DEF SpacesInvariant, LeadsApart, Leads, CachedFrames, FrameInvariant,
                            FrameExclusive, Mapped
<1> QED BY <1>1, SpacesAlways, PTL

\* A directory that clone_page_directory makes lies in a frame of its own, unless
\* its page was given back and is still cached: the page fault of its memset
\* stops the kernel otherwise.
THEOREM CloneAlwaysHasFrame == SpacesSpec => CloneHasFrame
<1>1. ASSUME SpacesInvariant, [SpacesNext]_allvars
      PROVE  [\A d \in Live' \ Live : \/ entries_phys_addr'[d] \in frames \ kernel_pages
                                      \/ page_of'[d] \in returned]_allvars
  <2> SUFFICES ASSUME SpacesNext, NEW d \in Live' \ Live
               PROVE  \/ entries_phys_addr'[d] \in frames \ kernel_pages
                      \/ page_of'[d] \in returned
    BY <1>1
  <2>1. d \in Processes /\ ~UNCHANGED page_of
    BY DEF Live
  <2>2. PICK e \in Processes : create_process(e)
    BY <2>1 DEF SpacesNext, boot, spaces, heap_expand, heap_contract, schedule_tick, use_heap, evict
  <2>3. PICK p \in 0..heap_end - 1 : clone_page_directory(e, p)
    BY <2>2 DEF create_process
  <2>4. reach(p) # {} /\ link(e, p)
    BY <2>1, <2>3 DEF clone_page_directory
  <2>5. e = d
    BY <1>1, <2>4 DEF link, Live, SpacesInvariant, SType
  <2>6. page_of'[d] = p /\ entries_phys_addr'[d] = pte[p]
    BY <1>1, <2>1, <2>4, <2>5 DEF link, SpacesInvariant, SType, Dirs
  <2>7. p \in HeapPages
    BY <1>1, PagesAssumption DEF SpacesInvariant, FrameInvariant, PTypeOK, HeapPages
  <2>8. ASSUME p \notin returned PROVE pte[p] # 0
    BY <1>1, <2>4, <2>7, <2>8 DEF reach, walk, SpacesInvariant, StaleOnlyReturned, CachedFrames
  <2>9. ASSUME pte[p] # 0 PROVE pte[p] \in frames \ kernel_pages
    BY <1>1, <2>7, <2>9 DEF SpacesInvariant, FrameInvariant, MappedIsSet, FrameExclusive, Mapped
  <2> QED BY <2>6, <2>8, <2>9
<1> QED BY <1>1, SpacesAlways, PTL DEF SpacesSpec, CloneHasFrame

\* With address spaces cloned, switched and cached, no two heap pages share a
\* frame, every mapped frame is marked in the bitmap and frames_used counts the
\* marks (set_frame, clear_frame, alloc_page): Paging's theorems carry over.
THEOREM SpacesKeepFrames == SpacesSpec => [](FrameExclusive /\ MappedIsSet /\ UsedCounts)
BY SpacesImplementPaging, FramesExclusive, MappedAlwaysSet, UsedAlwaysCounts, PTL

=============================================================================
