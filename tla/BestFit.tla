------------------------------- MODULE BestFit -------------------------------
(***************************************************************************)
(* How the heap (mem_alloc.c) uses the red-black tree: the layout of a     *)
(* block, and the two callbacks that make the tree a best-fit index of the *)
(* free blocks.  A node is named by the address of the block it lies in.   *)
(***************************************************************************)
EXTENDS Integers

Null == 0
Dummy == -1

WordSize == 4            \* sizeof(long)
HeaderSize == 20         \* sizeof(alloc_header_t): magic, data and three links
FooterSize == 8          \* sizeof(alloc_footer_t)
USER_PTR_OFFSET == 8     \* the magic and the size: user data overlays the links

RoundUp(x, unit) == ((x + unit - 1) \div unit) * unit
rounded_size(size) == RoundUp(size, WordSize)
MIN_BLOCK_SIZE == rounded_size(HeaderSize + FooterSize)

block_to_user(b) == b + USER_PTR_OFFSET
user_to_block(p) == p - USER_PTR_OFFSET

\* Fault: the footer is forgotten.
get_block_size_footless(size) ==
  LET s == rounded_size(size + USER_PTR_OFFSET)
  IN  IF s < MIN_BLOCK_SIZE THEN MIN_BLOCK_SIZE ELSE s

get_block_size(size) ==
  LET s == rounded_size(size + USER_PTR_OFFSET + FooterSize)
  IN  IF s < MIN_BLOCK_SIZE THEN MIN_BLOCK_SIZE ELSE s

\* struct alloc_args; a null pointer acts as both fields 0.
Args(alignment, address) == [alignment |-> alignment, address |-> address]
NoArgs == Args(0, 0)

\* From block b to the first aligned user pointer that leaves room for a block
\* before it.
align_offset(b, alignment) ==
  LET offset == (alignment - (block_to_user(b) % alignment)) % alignment
  IN  IF offset = 0 \/ offset >= MIN_BLOCK_SIZE
      THEN offset
      ELSE offset + RoundUp(MIN_BLOCK_SIZE - offset, alignment)

\* Fault: the room that alignment takes is not looked at.
too_small_never(b, size, data, alignment) == size < data

\* Unsigned: size - offset wraps to more than any data when offset > size.
too_small_once_aligned(b, size, data, alignment) ==
  LET offset == align_offset(b, alignment)
  IN  offset <= size /\ size - offset < data

\* Fault: sizes a few words apart count as equal.
compare_loose(b, size, data, args) ==
  IF size + 8 < data THEN -1 ELSE IF size > data + 8 THEN 1 ELSE 0

\* -1: node too small, go right; 0: possible match; 1: node too big.
compare(b, size, data, args) ==
  CASE size < data -> -1
    [] size >= data /\ args.alignment # 0 ->
         IF too_small_once_aligned(b, size, data, args.alignment) THEN -1 ELSE 0
    [] OTHER -> IF size > data THEN 1 ELSE 0

\* Fault: the address is not compared.
select_dup_any(b, args) == TRUE

select_dup(b, args) == args.address \in {0, b}

INSTANCE RBTree

=============================================================================
