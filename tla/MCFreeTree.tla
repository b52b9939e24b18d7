------------------------------ MODULE MCFreeTree ------------------------------
(* Instances of FreeTree for TLC, and the set of blocks it implements.     *)
EXTENDS FreeTree

\* The sizes of the blocks, in address order: one size occurs three times.
Sizes == <<28, 36, 36, 36, 44, 52, 60, 68>>

MCNodes == {1000 * i : i \in DOMAIN Sizes}
MCSize == [n \in MCNodes |-> Sizes[n \div 1000]]
MCRequests == {Sizes[i] : i \in DOMAIN Sizes} \cup {37, 69}

Free == INSTANCE BlockSet WITH
  Blocks <- Nodes, free <- DOMAIN tree.node

\* Whatever the shape of the tree, a removal by address takes that block, a
\* removal by size takes a block of the smallest sufficient size and fails only
\* if there is none, and nothing else enters or leaves (remove_rbnode,
\* insert_rbnode: comment "Searches and removes a block of size").
ImplementsBlockSet == Free!Spec

=============================================================================
