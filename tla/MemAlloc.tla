------------------------------- MODULE MemAlloc -------------------------------
(***************************************************************************)
(* The kernel heap: mem_alloc.c over its red-black tree of free blocks,    *)
(* behind kmalloc and kfree (kheap.c), which run with interrupts disabled  *)
(* and so are atomic.                                                      *)
(*                                                                         *)
(* Memory is seen through the block headers: a block is a header, room for *)
(* the user, and a footer that points back to the header.  The code only   *)
(* reads headers and footers where one block ends and the next begins; a   *)
(* footer is found through the block that ends there.  What user data      *)
(* overwrites (the links) is only read after insert_rbnode has reset it.   *)
(***************************************************************************)
EXTENDS BestFit, FiniteSets, Functions, FiniteSetsExt

CONSTANTS
  FRAME_SIZE,
  HeapBase,       \* KHEAP_START, where allocator_t itself lies
  InitialFrames,  \* KHEAP_INITIAL_SIZE
  MinFrames,      \* HEAP_MIN_SIZE
  MaxFrames,      \* HEAP_MAX_SIZE
  Requests,       \* what the kernel asks for: pairs of a size and an alignment
  MaxLive         \* bound on the allocations held at a time

AllocatorSize == 48      \* sizeof(allocator_t)

\* The first page has room for the allocator, wherever its end is rounded to, and
\* for a block.
ASSUME HeapAssumption ==
  /\ FRAME_SIZE \in Nat /\ FRAME_SIZE % WordSize = 0
  /\ FRAME_SIZE >= AllocatorSize + 2 * MIN_BLOCK_SIZE
  /\ HeapBase \in Nat \ {0} /\ HeapBase % FRAME_SIZE = 0
  /\ MinFrames \in Nat /\ InitialFrames \in Nat \ {0} /\ MaxFrames \in Nat
  /\ MinFrames <= InitialFrames /\ InitialFrames <= MaxFrames
  /\ Requests \subseteq Nat \X Nat

VARIABLES
  heap,     \* [block, tree, end, used, status]
  live      \* user pointers given out and not freed, with the size asked for

vars == <<heap, live>>

start_address == RoundUp(HeapBase + AllocatorSize, MIN_BLOCK_SIZE)
min_size == MinFrames * FRAME_SIZE
max_size == MaxFrames * FRAME_SIZE

-----------------------------------------------------------------------------
(* Blocks.  magic: the header holds MAGIC; free: its last bit.             *)

FreeBlock(size) == [size |-> size, free |-> TRUE, magic |-> TRUE]
UsedBlock(size, magic) == [size |-> size, free |-> FALSE, magic |-> magic]

get_next_block(H, b) == b + H.block[b].size

\* The block whose footer lies just before b.  Below the first block there is
\* no footer: those bytes were never written, and are taken not to hold MAGIC.
LeftOf(H, b) == {l \in DOMAIN H.block : get_next_block(H, l) = b}

put_block(H, b, block) == [H EXCEPT !.block = Put(@, b, block)]
drop_block(H, b) == [H EXCEPT !.block = Restrict(@, DOMAIN @ \ {b})]

insert_free(H, b, size) ==
  [put_block(H, b, FreeBlock(size)) EXCEPT !.tree = insert_rbnode(@, b, size, NoArgs)]

\* Fault: the merged block stays in the tree.
take_out_indexed(H, b) == drop_block(H, b)

\* Take free block b out of the tree and out of memory, to merge it.
take_out(H, b) ==
  The({[drop_block(H, b) EXCEPT !.tree = r.tree, !.status = IF r.found = b THEN @ ELSE "tree"] :
         r \in {remove_rbnode(H.tree, H.block[b].size, Args(0, b))}})

halt(H, status) == [H EXCEPT !.status = status]

create_mem_allocator ==
  LET end == HeapBase + InitialFrames * FRAME_SIZE
  IN  insert_free([block |-> <<>>, tree |-> init_rbtree, end |-> end,
                   used |-> 0, status |-> "ok"],
                  start_address, end - start_address)

-----------------------------------------------------------------------------
(* alloc                                                                   *)

\* Pages are added up to new_end; none if that would exceed max_size.
expand(H, new_end) ==
  LET rounded == RoundUp(new_end, FRAME_SIZE)
  IN  IF rounded > start_address + max_size THEN H ELSE [H EXCEPT !.end = rounded]

\* The added space becomes a free block, merged with the one before it.  With no
\* space added its header would be written past the last page.
add_hole(H, old_end) ==
  LET size == H.end - old_end
      left == {l \in LeftOf(H, old_end) : H.block[l].free /\ H.block[l].magic}
  IN  IF size = 0
      THEN halt(H, "exhausted")
      ELSE IF left = {}
           THEN insert_free(H, old_end, size)
           ELSE LET l == CHOOSE l \in left : TRUE
                IN  insert_free(take_out(H, l), l, H.block[l].size + size)

\* Block b, no longer in the tree, is cut so that the user pointer is aligned.
\* The header of the new block gets its size and not its magic: it holds MAGIC
\* only if an earlier block left it there (stale).
align_block(H, b, offset, stale) ==
  LET size == H.block[b].size
  IN  put_block(insert_free(H, b, offset), b + offset, UsedBlock(size - offset, stale))

\* Fault: a remainder of any size is given back.
fragment_block_any(H, b, requested) ==
  LET frag_size == H.block[b].size - requested
  IN  IF frag_size > 0
      THEN insert_free(put_block(H, b, UsedBlock(requested, TRUE)), b + requested, frag_size)
      ELSE put_block(H, b, UsedBlock(H.block[b].size, H.block[b].magic))

\* The end of block b beyond the requested size is given back if a block fits.
fragment_block(H, b, requested) ==
  LET frag_size == H.block[b].size - requested
  IN  IF frag_size >= MIN_BLOCK_SIZE
      THEN insert_free(put_block(H, b, UsedBlock(requested, TRUE)), b + requested, frag_size)
      ELSE put_block(H, b, UsedBlock(H.block[b].size, H.block[b].magic))

\* Take the best fit out of the tree.  A search that fails may still rotate it.
search(H, requested, unit) ==
  IF H.status # "ok"
  THEN [heap |-> H, block |-> Null]
  ELSE The({[heap |-> [H EXCEPT !.tree = r.tree], block |-> r.found] :
              r \in {remove_rbnode(H.tree, requested, Args(unit, 0))}})

\* alloc calls itself after each expansion; max_size bounds how often.
search_again(H, requested, unit) ==
  LET attempt[k \in 0..MaxFrames + 2] ==
        IF k = 0
        THEN search(H, requested, unit)
        ELSE The({IF a.block # Null \/ a.heap.status # "ok"
                  THEN a
                  ELSE search(add_hole(expand(a.heap, a.heap.end + requested), a.heap.end),
                              requested, unit) : a \in {attempt[k - 1]}})
  IN  attempt[MaxFrames + 2]

\* Yields the heap and the user pointer.  frag_size is unsigned: a block smaller
\* than the request would be cut into two that overlap their neighbours.
alloc(H, size, alignment, stale) ==
  LET requested == get_block_size(size)
      unit == IF alignment = 0 THEN 1 ELSE alignment
      give(done, b) == [heap |-> [done EXCEPT !.used = @ + done.block[b].size],
                        user |-> block_to_user(b)]
      use(G, b, offset) ==
        LET cut == IF offset = 0 THEN G ELSE align_block(G, b, offset, stale)
        IN  give(fragment_block(cut, b + offset, requested), b + offset)
      found(G, b) ==
        CASE b = Null -> [heap |-> G, user |-> Null]
          [] b # Null /\ G.block[b].size < align_offset(b, unit) + requested ->
               [heap |-> halt(G, "overlap"), user |-> Null]
          [] OTHER -> use(G, b, align_offset(b, unit))
  IN  The({found(a.heap, a.block) : a \in {search_again(H, requested, unit)}})

-----------------------------------------------------------------------------
(* free                                                                    *)

\* Fault: mem_used is not adjusted.
mark_free_unused(H, b) == put_block(H, b, FreeBlock(H.block[b].size))

\* Fault: the write of the header also reaches the header on the left.
mark_free_left(H, b) ==
  [H EXCEPT !.block = [x \in DOMAIN @ |-> IF x = b THEN FreeBlock(@[b].size)
                                         ELSE IF x \in LeftOf(H, b) THEN [@[x] EXCEPT !.magic = FALSE]
                                         ELSE @[x]],
            !.used = @ - H.block[b].size]

mark_free(H, b) ==
  [put_block(H, b, FreeBlock(H.block[b].size)) EXCEPT !.used = @ - H.block[b].size]

\* Fault: the right neighbour is not merged.
merge_right_never(H, b) == H

\* Block b and the free block to its right become one.
merge_right(H, b) ==
  LET n == get_next_block(H, b)
  IN  IF n \in DOMAIN H.block /\ H.block[n].free /\ H.block[n].magic
      THEN put_block(take_out(H, n), b, FreeBlock(H.block[b].size + H.block[n].size))
      ELSE H

\* The block that holds b once b is merged to its left, and the heap.
merge_left(H, b) ==
  LET left == {l \in LeftOf(H, b) : H.block[l].free /\ H.block[l].magic}
  IN  IF left = {}
      THEN [heap |-> H, block |-> b]
      ELSE LET l == CHOOSE l \in left : TRUE
           IN  [heap |-> put_block(drop_block(take_out(H, l), b), l,
                                   FreeBlock(H.block[l].size + H.block[b].size)),
                block |-> l]

\* Fault: min_size is not looked at.
contract_all(H, new_end) == RoundUp(new_end, FRAME_SIZE)

\* The end after contract: whole pages go while end lies above the target, and
\* start_address + min_size is not a multiple of FRAME_SIZE.
contract(H, new_end) ==
  LET rounded == RoundUp(new_end, FRAME_SIZE)
      target == IF rounded - start_address < min_size THEN start_address + min_size ELSE rounded
  IN  IF H.end <= target THEN H.end ELSE H.end - RoundUp(H.end - target, FRAME_SIZE)

\* Free block b is the last: give its pages back and keep what is left of it.
\* Header and footer of a remainder below MIN_BLOCK_SIZE overwrite each other.
shrink(H, b) ==
  LET end == contract(H, b)
      size == H.block[b].size - (H.end - end)
      H1 == [H EXCEPT !.end = end]
  IN  CASE size = 0 -> drop_block(H1, b)
        [] size \in 1..MIN_BLOCK_SIZE - 1 -> halt(H1, "sliver")
        [] OTHER -> insert_free(H1, b, size)

\* Past the last block there is no header: its size is read from a page that is
\* not mapped, unless a translation of a page given back is still cached.
free(H, p, mapped) ==
  LET b == user_to_block(p)
      release(M, m) ==
        IF get_next_block(M, m) = M.end /\ M.end - start_address > min_size
        THEN shrink(M, m)
        ELSE insert_free(M, m, M.block[m].size)
  IN  CASE p = Null -> H
        [] p # Null /\ ~H.block[b].magic -> halt(H, "assertion")
        [] p # Null /\ H.block[b].magic /\ H.block[b].free -> H
        [] p # Null /\ H.block[b].magic /\ ~H.block[b].free /\ get_next_block(H, b) = H.end /\ ~mapped ->
             halt(H, "fault")
        [] OTHER -> The({release(merged.heap, merged.block) : merged \in
                           {merge_left(M, b) : M \in {merge_right(mark_free(H, b), b)}}})

-----------------------------------------------------------------------------

Init ==
  /\ heap = create_mem_allocator
  /\ live = <<>>

kmalloc_int(size, alignment) ==
  /\ heap.status = "ok"
  /\ Cardinality(DOMAIN live) < MaxLive
  /\ \E stale \in BOOLEAN :
       \E r \in {alloc(heap, size, alignment, stale)} :
         /\ heap' = r.heap
         /\ live' = IF r.user = Null THEN live ELSE Put(live, r.user, <<size, alignment>>)

kfree(p) ==
  /\ heap.status = "ok"
  /\ \E mapped \in BOOLEAN : heap' = free(heap, p, mapped)
  /\ live' = Restrict(live, DOMAIN live \ {p})

Next ==
  \/ \E r \in Requests : kmalloc_int(r[1], r[2])
  \/ \E p \in DOMAIN live : kfree(p)

Spec == Init /\ [][Next]_vars

-----------------------------------------------------------------------------
(* Properties.  Once status is not "ok" the kernel has stopped, or memory  *)
(* is corrupt and nothing more is said of it.                              *)

Ok == heap.status = "ok"
Block == DOMAIN heap.block
FreeBlocks == {b \in Block : heap.block[b].free}
NextOf(b) == get_next_block(heap, b)

\* From the first byte to end_address every byte belongs to exactly one block,
\* and a block has room for its header and footer, through all splits, merges,
\* expansions and contractions (alloc, free).
Tiled ==
  Ok => /\ start_address \in Block \cup {heap.end}
        /\ \A b \in Block :
             /\ b >= start_address
             /\ heap.block[b].size >= MIN_BLOCK_SIZE
             /\ NextOf(b) \in Block \cup {heap.end}
             /\ \A c \in Block : b < c => NextOf(b) <= c

\* Two free blocks are never adjacent: what free, the alignment and the
\* expansion of alloc leave behind is always merged, so that memory freed
\* entirely is one block again.
Coalesced == Ok => \A b \in FreeBlocks : NextOf(b) \notin FreeBlocks

\* The tree holds exactly the free blocks, under their sizes, and is a valid
\* red-black tree: no block is lost to the searches or given out twice.
TreeIndexesFree ==
  Ok => /\ DOMAIN heap.tree.node = FreeBlocks
        /\ \A b \in FreeBlocks : heap.tree.node[b].data = heap.block[b].size
        /\ assert_tree(heap.tree, heap.tree.root) # 0

\* The size of the blocks in S together; B maps addresses to headers.
TotalSize(B, S) == FoldSet(LAMBDA b, n : B[b].size + n, 0, S)

\* mem_used is the size of the blocks in use, over any history of partial
\* splits (alloc adds what it really gave, free subtracts what it finds).
UsedCounts == Ok => heap.used = TotalSize(heap.block, Block \ FreeBlocks)

\* Each pointer held by a caller belongs to a used block of its own, is aligned
\* as asked, and the size asked for ends before the footer: users never reach
\* each other's memory or the headers (alloc, block_to_user).
LiveOwnsBlock ==
  Ok => /\ {user_to_block(p) : p \in DOMAIN live} = Block \ FreeBlocks
        /\ \A p \in DOMAIN live :
             /\ live[p][2] # 0 => p % live[p][2] = 0
             /\ p + live[p][1] + FooterSize <= NextOf(user_to_block(p))

\* An allocation or a release changes no other allocation: the header of a block
\* in use keeps its size and its place until its owner frees it (split, merge
\* and contraction touch free neighbours only).
OthersUndisturbed ==
  [][Ok' => \A p \in DOMAIN live \cap DOMAIN live' :
       LET b == user_to_block(p)
       IN  b \in DOMAIN heap'.block /\ heap'.block[b] = heap.block[b]]_vars

\* The heap stays within max_size, and contraction leaves min_size less at most
\* a page (contract, expand).
EndBounds ==
  /\ heap.end <= start_address + max_size
  /\ heap.end + FRAME_SIZE > start_address + min_size

\* The heap stops or corrupts itself only where the code has a limit, and nowhere
\* else.  alloc gives out a free block too small for the request only when
\* alignment takes more than the whole block, so that the unsigned difference in
\* compare wraps, or when the block is a duplicate of one that fits, since
\* select_dup does not look at the alignment; a heap that cannot grow is written
\* past its end.  free reads the header behind the last block, or gives pages back
\* and is left with less than a block.  A neighbour is always found in the tree.
FailsOnlyAtLimits ==
  [][CASE heap'.status = "overlap" ->
            \E r \in Requests, b \in FreeBlocks :
              LET size == heap.block[b].size
                  Fits(c) == align_offset(c, r[2]) + get_block_size(r[1]) <= heap.block[c].size
              IN  /\ r[2] # 0
                  /\ size >= get_block_size(r[1])
                  /\ ~Fits(b)
                  /\ \/ size < align_offset(b, r[2])
                     \/ \E c \in FreeBlocks : heap.block[c].size = size /\ Fits(c)
       [] heap'.status = "exhausted" ->
            \E r \in Requests :
              RoundUp(heap'.end + get_block_size(r[1]), FRAME_SIZE) > start_address + max_size
       [] heap'.status = "fault" ->
            \E p \in DOMAIN live \ DOMAIN live' : NextOf(user_to_block(p)) = heap.end
       [] heap'.status = "sliver" ->
            \E b \in DOMAIN heap'.block : heap'.end - b \in 1..MIN_BLOCK_SIZE - 1
       [] heap'.status = "assertion" ->
            \E p \in DOMAIN live \ DOMAIN live' : live[p][2] # 0
       [] heap'.status = "tree" -> FALSE
       [] OTHER -> TRUE]_vars

(* What an assertion of mem_alloc.c says and a run refutes.                *)

\* free asserts of every block it is given that "Wrong header magic" is not the
\* case: alloc has set the magic of what it returned.
HeaderMagicSet == heap.status # "assertion"

=============================================================================
