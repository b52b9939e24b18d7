------------------------------- MODULE Paging --------------------------------
(***************************************************************************)
(* Physical memory (paging.c): the bitmap of frames, the pages of the      *)
(* kernel directory that are mapped to them, and the heap's end that moves *)
(* up and down and takes and returns its pages (expand and contract of     *)
(* mem_alloc.c).  All of it runs with interrupts disabled or at boot.      *)
(*                                                                         *)
(* Kernel page v is v frames above kernel_voffset; heap page p is p frames *)
(* above KHEAP_START.  A page entry with frame 0 has no frame.             *)
(***************************************************************************)
EXTENDS Integers, FiniteSets

CONSTANTS
  nframes,       \* frames of physical memory
  WordBits,      \* 32 in the kernel: frames per word of the bitmap
  Reservable,    \* frame numbers the boot loader may report as reserved, those
                 \* of devices mapped above physical memory included
  KernelFrames,  \* frames below placement_address: the kernel and its tables
  InitialPages,  \* pages of the heap at first, at least and at most
  MinPages,
  MaxPages

ASSUME FramesAssumption == nframes \in Nat /\ WordBits \in Nat \ {0}
ASSUME ReservableAssumption == Reservable \subseteq Nat /\ IsFiniteSet(Reservable)
ASSUME KernelAssumption == KernelFrames \in 1..nframes
ASSUME PagesAssumption ==
  MaxPages \in Nat /\ InitialPages \in 0..MaxPages /\ MinPages \in 0..InitialPages

VARIABLES
  frames,       \* the frames whose bit is set
  used_frames,
  outside,      \* bits paging_mark_reserved has set past the end of the bitmap
  kernel_pages, \* kernel pages mapped by paging_finalize
  pte,          \* the frame field of the entry of each heap page
  heap_end,     \* pages of the heap
  phase,        \* "reserve", "map", "heap", "run": how far main has come
  status        \* "ok", or "undefined" once the bitmap is written out of bounds

vars == <<frames, used_frames, outside, kernel_pages, pte, heap_end, phase, status>>

Frames == 0..nframes - 1
HeapPages == 0..MaxPages - 1

\* paging_init
Init ==
  /\ frames = {}
  /\ used_frames = 0
  /\ outside = {}
  /\ kernel_pages = {}
  /\ pte = [p \in HeapPages |-> 0]
  /\ heap_end = 0
  /\ phase = "reserve"
  /\ status = "ok"

-----------------------------------------------------------------------------
(* The bitmap.                                                             *)

\* The value of the word masked with the frame's bit, not a truth value.
test_frame(f) == IF f \in frames THEN 2^(f % WordBits) ELSE 0

\* Fault: the counter moves although the bit was set before.
set_frame_twice(f) ==
  /\ frames' = frames \cup {f}
  /\ used_frames' = used_frames + 1

set_frame(f) ==
  IF test_frame(f) = 0
  THEN /\ frames' = frames \cup {f}
       /\ used_frames' = used_frames + 1
  ELSE UNCHANGED <<frames, used_frames>>

\* Fault: the frame that is cleared is the one before.
clear_frame_before(f) ==
  IF test_frame(f) # 0
  THEN /\ frames' = frames \ {f - 1}
       /\ used_frames' = used_frames - Cardinality(frames \cap {f - 1})
  ELSE UNCHANGED <<frames, used_frames>>

clear_frame(f) ==
  IF test_frame(f) = 1
  THEN /\ frames' = frames \ {f}
       /\ used_frames' = used_frames - 1
  ELSE UNCHANGED <<frames, used_frames>>

\* Fault: the position in the word is one too low.
first_free_frames_low == {f - 1 : f \in {g \in Frames \ frames : \A h \in 0..g - 1 : h \in frames}}

\* The first free frame, as a set of at most one.
first_free_frames == {f \in Frames \ frames : \A g \in 0..f - 1 : g \in frames}

-----------------------------------------------------------------------------
(* Pages.                                                                  *)

\* The scan takes nframes words for nframes frames and goes on past the bitmap:
\* when no frame is free it finds a zero bit there, and set_frame then writes
\* outside the bitmap, or it finds none.
no_frame ==
  /\ \/ status' = "undefined"
     \/ UNCHANGED status
  /\ UNCHANGED <<frames, used_frames, pte>>

alloc_page(p) ==
  \/ /\ pte[p] # 0
     /\ UNCHANGED <<frames, used_frames, pte, status>>
  \/ /\ pte[p] = 0
     /\ \E f \in first_free_frames :
          /\ set_frame(f)
          /\ pte' = [pte EXCEPT ![p] = f]
     /\ UNCHANGED status
  \/ /\ pte[p] = 0
     /\ first_free_frames = {}
     /\ no_frame

free_page(p) ==
  /\ IF pte[p] # 0 THEN clear_frame(pte[p]) ELSE UNCHANGED <<frames, used_frames>>
  /\ pte' = [pte EXCEPT ![p] = 0]

\* Kernel page v is mapped to frame v; KernelFrames never passes nframes.
map_page(v) ==
  /\ kernel_pages' = kernel_pages \cup {v}
  /\ set_frame(v)

-----------------------------------------------------------------------------
(* Boot, then the heap.                                                    *)

\* Nothing compares f with nframes.  Past the bitmap the bit found is whatever
\* memory holds there.
paging_mark_reserved(f) ==
  /\ phase = "reserve"
  /\ \/ f \in Frames /\ set_frame(f) /\ UNCHANGED outside
     \/ /\ f \notin Frames \cup outside
        /\ outside' = outside \cup {f}
        /\ used_frames' = used_frames + 1
        /\ UNCHANGED frames
     \/ f \notin Frames /\ UNCHANGED <<frames, used_frames, outside>>
  /\ UNCHANGED <<kernel_pages, pte, heap_end, phase, status>>

\* paging_finalize protects frame 0 first.
paging_finalize ==
  /\ phase = "reserve"
  /\ set_frame(0)
  /\ phase' = "map"
  /\ UNCHANGED <<outside, kernel_pages, pte, heap_end, status>>

paging_finalize_map ==
  /\ phase = "map"
  /\ IF Cardinality(kernel_pages) < KernelFrames
     THEN map_page(Cardinality(kernel_pages)) /\ UNCHANGED phase
     ELSE phase' = "heap" /\ UNCHANGED <<frames, used_frames, kernel_pages>>
  /\ UNCHANGED <<outside, pte, heap_end, status>>

paging_finalize_heap ==
  /\ phase = "heap"
  /\ status = "ok"
  /\ IF heap_end < InitialPages
     THEN alloc_page(heap_end) /\ heap_end' = heap_end + 1 /\ UNCHANGED phase
     ELSE phase' = "run" /\ UNCHANGED <<frames, used_frames, pte, heap_end, status>>
  /\ UNCHANGED <<outside, kernel_pages>>

\* One turn of the loop of expand: end_address moves whether or not a frame was
\* found.
expand ==
  /\ phase = "run"
  /\ status = "ok"
  /\ heap_end < MaxPages
  /\ alloc_page(heap_end)
  /\ heap_end' = heap_end + 1
  /\ UNCHANGED <<outside, kernel_pages, phase>>

\* One turn of the loop of contract.
contract ==
  /\ phase = "run"
  /\ status = "ok"
  /\ heap_end > MinPages
  /\ free_page(heap_end - 1)
  /\ heap_end' = heap_end - 1
  /\ UNCHANGED <<outside, kernel_pages, phase, status>>

Next ==
  \/ \E f \in Reservable : paging_mark_reserved(f)
  \/ paging_finalize
  \/ paging_finalize_map
  \/ paging_finalize_heap
  \/ expand
  \/ contract

Spec == Init /\ [][Next]_vars

-----------------------------------------------------------------------------

Mapped == {p \in HeapPages : pte[p] # 0}

\* No two heap pages share a frame, and none has a frame the kernel's own image
\* and tables are in: alloc_page hands out a frame only while its bit is clear,
\* and free_page forgets the frame it gives back.
FrameExclusive ==
  /\ \A p, q \in Mapped : pte[p] = pte[q] => p = q
  /\ \A p \in Mapped : pte[p] \notin kernel_pages

\* Every mapped frame has its bit set: what is in use cannot be handed out.
MappedIsSet ==
  /\ \A p \in Mapped : pte[p] \in frames
  /\ kernel_pages \subseteq frames

\* used_frames, which paging_finalize reports, counts the bits of the bitmap
\* although frames are reserved twice or mapped where they are reserved, and is
\* too large by exactly the reserved frames that are not physical memory.
UsedCounts == used_frames = Cardinality(frames) + Cardinality(outside)

\* Only the pages below end_address have frames.
NothingAboveEnd == \A p \in Mapped : p < heap_end

(* What a comment of paging.c says and a run refutes.                      *)

\* "allocate a free physical frame": what alloc_page gives to a page is a frame
\* of physical memory, in a machine with a frame for every page of the heap.
FrameIsPhysical == status # "undefined"

=============================================================================
