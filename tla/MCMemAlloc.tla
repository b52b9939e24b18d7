------------------------------ MODULE MCMemAlloc ------------------------------
(* Instances of MemAlloc for TLC.                                          *)
EXTENDS MemAlloc

\* A small structure, a stack, and a page table: <<size, alignment>>.
MCRequests == {<<6, 0>>, <<98, 0>>, <<FRAME_SIZE, FRAME_SIZE>>}

=============================================================================
