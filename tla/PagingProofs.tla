---------------------------- MODULE PagingProofs -----------------------------
(***************************************************************************)
(* No frame serves two pages, for every size of memory, of the kernel and  *)
(* of the heap.  The inductive invariant adds to FrameExclusive that the   *)
(* bit of a mapped frame is set (so it is not handed out again), that no   *)
(* page above the end of the heap has a frame (so expand never meets one), *)
(* and that the heap is empty until the kernel's own pages are mapped.     *)
(***************************************************************************)
EXTENDS Paging, FiniteSetTheorems, TLAPS

HeapEmptyAtBoot == phase \in {"reserve", "map"} => heap_end = 0

PTypeOK ==
  /\ frames \subseteq Frames
  /\ kernel_pages \subseteq 0..KernelFrames - 1
  /\ pte \in [HeapPages -> Frames]
  /\ heap_end \in 0..MaxPages

FrameInvariant ==
  /\ PTypeOK
  /\ HeapEmptyAtBoot
  /\ NothingAboveEnd
  /\ MappedIsSet
  /\ FrameExclusive

\* set_frame leaves the bit of f set and touches no other, whichever of its
\* branches is taken.
LEMMA SetFrameSets ==
  ASSUME NEW f, set_frame(f)
  PROVE  frames' = frames \cup {f}
BY DEF set_frame, test_frame

\* clear_frame changes no bit but that of f, and sets none.
LEMMA ClearFrameClears ==
  ASSUME NEW f, clear_frame(f)
  PROVE  frames' \subseteq frames /\ frames \ {f} \subseteq frames'
BY DEF clear_frame

\* Giving the page at the end of the heap a frame keeps the invariant: the frame
\* comes with a clear bit, so no page and no part of the kernel has it.
LEMMA AllocPagePreserves ==
  ASSUME FrameInvariant, heap_end < MaxPages, alloc_page(heap_end),
         heap_end' = heap_end + 1, UNCHANGED kernel_pages,
         phase' \notin {"reserve", "map"}
  PROVE  FrameInvariant'
<1> USE PagesAssumption
<1>1. heap_end \in HeapPages /\ heap_end' \in 0..MaxPages /\ heap_end \in Int
  BY DEF FrameInvariant, PTypeOK, HeapPages
<1>2. CASE UNCHANGED <<frames, pte>>
  <2>1. PTypeOK' /\ HeapEmptyAtBoot' /\ MappedIsSet' /\ FrameExclusive'
    BY <1>1, <1>2 DEF FrameInvariant, PTypeOK, HeapEmptyAtBoot, MappedIsSet, FrameExclusive, Mapped
  <2>2. NothingAboveEnd'
    BY <1>1, <1>2 DEF FrameInvariant, NothingAboveEnd, Mapped, HeapPages
  <2> QED BY <2>1, <2>2 DEF FrameInvariant
<1>3. CASE \E f \in first_free_frames : set_frame(f) /\ pte' = [pte EXCEPT ![heap_end] = f]
  <2>1. PICK f \in first_free_frames : set_frame(f) /\ pte' = [pte EXCEPT ![heap_end] = f]
    BY <1>3, Zenon
  <2>2. f \in Frames /\ f \notin frames
    BY DEF first_free_frames
  <2>3. frames' = frames \cup {f}
    BY <2>1, SetFrameSets
  <2>4. \A p \in HeapPages : pte'[p] = IF p = heap_end THEN f ELSE pte[p]
    BY <2>1 DEF FrameInvariant, PTypeOK
  <2>5. PTypeOK' /\ HeapEmptyAtBoot'
    BY <1>1, <2>1, <2>2, <2>3 DEF FrameInvariant, PTypeOK, HeapEmptyAtBoot
  <2>6. NothingAboveEnd'
    BY <1>1, <2>4 DEF FrameInvariant, NothingAboveEnd, Mapped, HeapPages
  <2>7. MappedIsSet'
    BY <2>3, <2>4 DEF FrameInvariant, MappedIsSet, Mapped
  <2>8. FrameExclusive'
    BY <2>2, <2>4 DEF FrameInvariant, FrameExclusive, MappedIsSet, Mapped
  <2> QED BY <2>5, <2>6, <2>7, <2>8 DEF FrameInvariant
<1> QED BY <1>2, <1>3 DEF alloc_page, no_frame

\* Each step of the boot and of the heap keeps the invariant.
LEMMA StepPreserves ==
  ASSUME FrameInvariant, [Next]_vars
  PROVE  FrameInvariant'
<1> USE PagesAssumption
<1> USE DEF FrameInvariant
<1>1. ASSUME NEW f \in Reservable, paging_mark_reserved(f) PROVE FrameInvariant'
  <2>1. frames \subseteq frames' /\ frames' \subseteq frames \cup (Frames \cap {f})
    <3>1. CASE f \in Frames /\ set_frame(f)
      BY <3>1, SetFrameSets
    <3>2. CASE UNCHANGED frames
      BY <3>2
    <3> QED BY <1>1, <3>1, <3>2 DEF paging_mark_reserved
  <2> QED BY <1>1, <2>1, Zenon DEF paging_mark_reserved, PTypeOK, HeapEmptyAtBoot,
                          NothingAboveEnd, MappedIsSet, FrameExclusive, Mapped
<1>2. CASE paging_finalize
  <2>1. frames' = frames \cup {0}
    BY <1>2, SetFrameSets DEF paging_finalize
  <2>2. 0 \in Frames
    BY FramesAssumption, KernelAssumption DEF Frames
  <2> QED BY <1>2, <2>1, <2>2 DEF paging_finalize, PTypeOK, HeapEmptyAtBoot,
                                NothingAboveEnd, MappedIsSet, FrameExclusive, Mapped
<1>3. CASE paging_finalize_map
  <2>1. UNCHANGED <<pte, heap_end>> /\ phase = "map" /\ heap_end = 0
    BY <1>3 DEF paging_finalize_map, HeapEmptyAtBoot
  <2>2. Mapped = {} /\ Mapped' = {}
    BY <2>1 DEF NothingAboveEnd, Mapped, HeapPages
  <2>3. CASE UNCHANGED <<frames, kernel_pages>>
    BY <2>1, <2>2, <2>3 DEF PTypeOK, HeapEmptyAtBoot, NothingAboveEnd, MappedIsSet, FrameExclusive
  <2>4. CASE Cardinality(kernel_pages) < KernelFrames /\ map_page(Cardinality(kernel_pages))
    <3> DEFINE v == Cardinality(kernel_pages)
    <3>1. frames' = frames \cup {v} /\ kernel_pages' = kernel_pages \cup {v}
      BY <2>4, SetFrameSets DEF map_page
    <3>2. IsFiniteSet(0..KernelFrames - 1)
      BY KernelAssumption, FramesAssumption, FS_Interval
    <3>3. v \in Nat
      BY <3>2, FS_Subset, FS_CardinalityType, Zenon DEF PTypeOK
    <3>4. v \in Frames /\ v \in 0..KernelFrames - 1
      BY <2>4, <3>3, KernelAssumption, FramesAssumption DEF Frames
    <3> HIDE DEF v
    <3> QED BY <2>1, <2>2, <3>1, <3>4, <1>3 DEF paging_finalize_map, PTypeOK, HeapEmptyAtBoot, NothingAboveEnd,
                                        MappedIsSet, FrameExclusive
  <2> QED BY <1>3, <2>3, <2>4 DEF paging_finalize_map
<1>4. CASE paging_finalize_heap
  <2>1. CASE heap_end < InitialPages
    <3>1. heap_end < MaxPages
      BY <2>1 DEF PTypeOK
    <3> QED BY <1>4, <2>1, <3>1, AllocPagePreserves DEF paging_finalize_heap
  <2>2. CASE ~(heap_end < InitialPages)
    <3>1. UNCHANGED <<frames, kernel_pages, pte, heap_end>> /\ phase' = "run"
      BY <1>4, <2>2 DEF paging_finalize_heap
    <3> QED BY <3>1 DEF PTypeOK, HeapEmptyAtBoot, NothingAboveEnd, MappedIsSet,
                        FrameExclusive, Mapped
  <2> QED BY <2>1, <2>2
<1>5. CASE expand
  BY <1>5, AllocPagePreserves DEF expand
<1>6. CASE contract
  <2> DEFINE p == heap_end - 1
  <2>1. p \in HeapPages /\ heap_end' = p /\ p \in 0..MaxPages /\ pte[p] \in Frames
    BY <1>6 DEF contract, PTypeOK, HeapPages
  <2>2. \A q \in HeapPages : pte'[q] = IF q = p THEN 0 ELSE pte[q]
    BY <1>6 DEF contract, free_page, PTypeOK
  <2>3. frames' \subseteq frames /\ (frames' = frames \/ (pte[p] # 0 /\ frames \ {pte[p]} \subseteq frames'))
    BY <1>6, ClearFrameClears DEF contract, free_page
  <2>4. 0 \in Frames
    BY FramesAssumption, KernelAssumption DEF Frames
  <2>5. UNCHANGED <<kernel_pages, phase>> /\ phase \notin {"reserve", "map"}
    BY <1>6 DEF contract
  <2>6. PTypeOK' /\ HeapEmptyAtBoot'
    BY <1>6, <2>1, <2>3, <2>4, <2>5 DEF contract, free_page, PTypeOK, HeapEmptyAtBoot
  <2>7. NothingAboveEnd'
    BY <2>1, <2>2 DEF NothingAboveEnd, Mapped, HeapPages, PTypeOK
  <2>8. FrameExclusive'
    BY <2>2, <2>5 DEF FrameExclusive, Mapped
  <2>9. MappedIsSet'
    BY <2>1, <2>2, <2>3, <2>5 DEF MappedIsSet, FrameExclusive, Mapped
  <2> QED BY <2>6, <2>7, <2>8, <2>9
<1>7. CASE UNCHANGED vars
  BY <1>7 DEF vars, PTypeOK, HeapEmptyAtBoot, NothingAboveEnd, MappedIsSet, FrameExclusive, Mapped
<1> QED BY <1>1, <1>2, <1>3, <1>4, <1>5, <1>6, <1>7 DEF Next

\* The invariant holds from paging_init on.
THEOREM FramesAlways == Spec => []FrameInvariant
<1>1. Init => FrameInvariant
  BY FramesAssumption, KernelAssumption, PagesAssumption
     DEF Init, FrameInvariant, PTypeOK, HeapEmptyAtBoot, NothingAboveEnd, MappedIsSet,
         FrameExclusive, Mapped, Frames, HeapPages
<1> QED BY <1>1, StepPreserves, PTL DEF Spec

\* No two pages of the heap ever share a frame, and none lies in the kernel's own
\* memory: alloc_page and free_page keep frames exclusive, in any memory.
THEOREM FramesExclusive == Spec => []FrameExclusive
BY FramesAlways, PTL DEF FrameInvariant

\* A frame that is mapped is never free in the bitmap.
THEOREM MappedAlwaysSet == Spec => []MappedIsSet
BY FramesAlways, PTL DEF FrameInvariant

-----------------------------------------------------------------------------
(* The counter of used frames.                                             *)

\* The bit of a frame, shifted to its place in a word, is not zero, and is one
\* in the first place only: what test_frame returns is a mask.
LEMMA MaskOfBit ==
  ASSUME NEW k \in Nat
  PROVE  2^k # 0 /\ (2^k = 1 => k = 0)
<1>1. IsFiniteSet(1..k) /\ Cardinality(1..k) = k
  BY FS_Interval
<1>2. IsFiniteSet(SUBSET (1..k)) /\ Cardinality(SUBSET (1..k)) = 2^k
  BY <1>1, FS_SUBSET
<1>3. {} \in SUBSET (1..k) /\ 1..k \in SUBSET (1..k)
  OBVIOUS
<1>4. 2^k # 0
  BY <1>2, <1>3, FS_EmptySet, Zenon
<1>5. ASSUME 2^k = 1 PROVE k = 0
  <2>1. PICK S : SUBSET (1..k) = {S}
    BY <1>2, <1>5, FS_Singleton
  <2>2. {} = 1..k
    BY <1>3, <2>1, Zenon
  <2> QED BY <1>1, <2>2, FS_EmptySet, Zenon
<1> QED BY <1>4, <1>5

CountInvariant ==
  /\ used_frames \in Int
  /\ outside \subseteq Reservable
  /\ UsedCounts

\* The bitmap and what was reserved beyond it are finite, so that they have a size.
LEMMA BitmapFinite ==
  ASSUME FrameInvariant, CountInvariant
  PROVE  /\ IsFiniteSet(frames) /\ Cardinality(frames) \in Nat
         /\ IsFiniteSet(outside) /\ Cardinality(outside) \in Nat
<1>1. IsFiniteSet(Frames)
  BY FramesAssumption, FS_Interval DEF Frames
<1>2. IsFiniteSet(frames) /\ IsFiniteSet(outside)
  BY <1>1, ReservableAssumption, FS_Subset, Zenon DEF FrameInvariant, PTypeOK, CountInvariant
<1> QED BY <1>2, FS_CardinalityType, Zenon

\* set_frame counts a frame exactly when it sets its bit.
LEMMA SetFrameCounts ==
  ASSUME FrameInvariant, CountInvariant, NEW f \in Frames, set_frame(f), UNCHANGED outside
  PROVE  CountInvariant'
<1> USE FramesAssumption
<1>1. f % WordBits \in Nat
  BY DEF Frames
<1>2. test_frame(f) = 0 <=> f \notin frames
  BY <1>1, MaskOfBit DEF test_frame
<1>3. CASE f \in frames
  BY <1>2, <1>3 DEF set_frame, CountInvariant, UsedCounts
<1>4. CASE f \notin frames
  <2>1. frames' = frames \cup {f} /\ used_frames' = used_frames + 1
    BY <1>2, <1>4 DEF set_frame
  <2>2. Cardinality(frames') = Cardinality(frames) + 1
    BY <1>4, <2>1, BitmapFinite, FS_AddElement
  <2> QED BY <2>1, <2>2, BitmapFinite DEF CountInvariant, UsedCounts
<1> QED BY <1>3, <1>4

\* clear_frame counts a frame out exactly when it clears its bit.
LEMMA ClearFrameCounts ==
  ASSUME FrameInvariant, CountInvariant, NEW f, clear_frame(f), UNCHANGED outside
  PROVE  CountInvariant'
<1>1. CASE UNCHANGED <<frames, used_frames>>
  BY <1>1 DEF CountInvariant, UsedCounts
<1>2. CASE f \in frames /\ frames' = frames \ {f} /\ used_frames' = used_frames - 1
  <2>1. Cardinality(frames') = Cardinality(frames) - 1
    BY <1>2, BitmapFinite, FS_RemoveElement
  <2> QED BY <1>2, <2>1, BitmapFinite DEF CountInvariant, UsedCounts
<1> QED BY <1>1, <1>2 DEF clear_frame, test_frame

\* Each step of the boot and of the heap keeps the count.
LEMMA StepCounts ==
  ASSUME FrameInvariant, CountInvariant, [Next]_vars
  PROVE  CountInvariant'
<1>1. ASSUME NEW f \in Reservable, paging_mark_reserved(f) PROVE CountInvariant'
  <2>1. CASE f \in Frames /\ set_frame(f) /\ UNCHANGED outside
    BY <2>1, SetFrameCounts
  <2>2. CASE f \notin outside /\ outside' = outside \cup {f}
             /\ used_frames' = used_frames + 1 /\ UNCHANGED frames
    <3>1. Cardinality(outside') = Cardinality(outside) + 1
      BY <2>2, BitmapFinite, FS_AddElement
    <3> QED BY <2>2, <3>1, BitmapFinite DEF CountInvariant, UsedCounts
  <2>3. CASE UNCHANGED <<frames, used_frames, outside>>
    BY <2>3 DEF CountInvariant, UsedCounts
  <2> QED BY <1>1, <2>1, <2>2, <2>3 DEF paging_mark_reserved
<1>2. CASE paging_finalize
  <2>1. 0 \in Frames
    BY FramesAssumption, KernelAssumption DEF Frames
  <2> QED BY <1>2, <2>1, SetFrameCounts DEF paging_finalize
<1>3. CASE paging_finalize_map
  <2>1. CASE UNCHANGED <<frames, used_frames>>
    BY <1>3, <2>1 DEF paging_finalize_map, CountInvariant, UsedCounts
  <2>2. CASE Cardinality(kernel_pages) < KernelFrames /\ map_page(Cardinality(kernel_pages))
    <3>1. IsFiniteSet(0..KernelFrames - 1)
      BY KernelAssumption, FramesAssumption, FS_Interval
    <3>2. Cardinality(kernel_pages) \in Nat
      BY <3>1, FS_Subset, FS_CardinalityType, Zenon DEF FrameInvariant, PTypeOK
    <3>3. Cardinality(kernel_pages) \in Frames
      BY <2>2, <3>2, KernelAssumption, FramesAssumption DEF Frames
    <3> QED BY <1>3, <2>2, <3>3, SetFrameCounts DEF paging_finalize_map, map_page
  <2> QED BY <1>3, <2>1, <2>2 DEF paging_finalize_map
<1>4. ASSUME NEW p, alloc_page(p), UNCHANGED outside PROVE CountInvariant'
  <2>1. CASE UNCHANGED <<frames, used_frames>>
    BY <1>4, <2>1 DEF CountInvariant, UsedCounts
  <2>2. CASE \E f \in first_free_frames : set_frame(f)
    BY <1>4, <2>2, SetFrameCounts DEF first_free_frames
  <2> QED BY <1>4, <2>1, <2>2 DEF alloc_page, no_frame
<1>5. CASE paging_finalize_heap
  BY <1>4, <1>5 DEF paging_finalize_heap, CountInvariant, UsedCounts
<1>6. CASE expand
  BY <1>4, <1>6 DEF expand
<1>7. CASE contract
  BY <1>7, ClearFrameCounts DEF contract, free_page, CountInvariant, UsedCounts
<1>8. CASE UNCHANGED vars
  BY <1>8 DEF vars, CountInvariant, UsedCounts
<1> QED BY <1>1, <1>2, <1>3, <1>5, <1>6, <1>7, <1>8 DEF Next

\* used_frames is always the number of bits that are set, those past the end of
\* the bitmap included, in any memory and for any reserved frames.
THEOREM UsedAlwaysCounts == Spec => []UsedCounts
<1>1. Init => CountInvariant
  BY FS_EmptySet DEF Init, CountInvariant, UsedCounts
<1> QED BY <1>1, FramesAlways, StepCounts, PTL DEF Spec, CountInvariant

=============================================================================
