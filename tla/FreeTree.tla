------------------------------- MODULE FreeTree -------------------------------
(***************************************************************************)
(* The tree of free blocks on its own, under any sequence of the three     *)
(* calls mem_alloc.c makes: insert a block, take the best fit for a        *)
(* request, take a given block out to merge it.                            *)
(***************************************************************************)
EXTENDS BestFit, FiniteSets

CONSTANTS
  Nodes,      \* addresses of blocks
  Size,       \* the size of each
  Requests    \* sizes asked for

VARIABLES
  tree,
  call,       \* the last call and its argument
  taken       \* the node it returned, if it removed one

vars == <<tree, call, taken>>

Init ==
  /\ tree = init_rbtree
  /\ call = <<"none", Null>>
  /\ taken = Null

insert(n) ==
  /\ n \notin DOMAIN tree.node
  /\ tree' = insert_rbnode(tree, n, Size[n], NoArgs)
  /\ call' = <<"insert", n>>
  /\ taken' = Null

take_fit(size) ==
  /\ \E r \in {remove_rbnode(tree, size, Args(1, 0))} : tree' = r.tree /\ taken' = r.found
  /\ call' = <<"fit", size>>

take_block(n) ==
  /\ n \in DOMAIN tree.node
  /\ \E r \in {remove_rbnode(tree, Size[n], Args(0, n))} : tree' = r.tree /\ taken' = r.found
  /\ call' = <<"block", n>>

Next ==
  \/ \E n \in Nodes : insert(n) \/ take_block(n)
  \/ \E size \in Requests : take_fit(size)

Spec == Init /\ [][Next]_vars

-----------------------------------------------------------------------------

Members == DOMAIN tree.node

\* Nodes of the tree proper, and nodes that hang from one as duplicates.
Duplicates == {n \in Members : \E m \in Members : tree.node[m].link[2] = n}
TreeNodes == Members \ Duplicates

\* The rules assert_tree tests hold after every insertion and removal, at every
\* node: no red node has a red child, every path has as many black nodes, and
\* the root is black (rb_tree.c, assert_tree, whose calls are commented out).
RedBlack ==
  /\ assert_tree(tree, tree.root) # 0
  /\ ~is_red(tree, tree.root)

\* The nodes of the subtree at n.
Below(n) ==
  LET below[m \in Members \cup {Null}] ==
        IF m = Null THEN {} ELSE {m} \cup below[link(tree, m, 0)] \cup below[link(tree, m, 1)]
  IN  below[n]

\* A list of duplicates holds blocks of one size and belongs to one node, and all
\* blocks of a size are on one list.
DuplicatesTogether ==
  /\ \A n \in Members : LET d == link(tree, n, 2) IN d # Null => Size[d] = Size[n]
  /\ \A n, m \in Members : link(tree, n, 2) = link(tree, m, 2) /\ n # m => link(tree, n, 2) = Null
  /\ \A n, m \in TreeNodes : Size[n] = Size[m] => n = m

\* Every size to the left of a node is smaller and every size to its right is
\* larger, however far down, so that no rotation made a block unreachable for
\* the searches of insert_rbnode and remove_rbnode; the tree proper holds every
\* node that is not a duplicate, once; and the duplicates are with their own
\* (prepend in insert_rbnode, and the node that takes over links and colour when
\* the head of a list is removed).
Ordered ==
  /\ Below(tree.root) = TreeNodes
  /\ \A n \in TreeNodes :
       /\ \A m \in Below(link(tree, n, 0)) : Size[m] < Size[n]
       /\ \A m \in Below(link(tree, n, 1)) : Size[m] > Size[n]
  /\ DuplicatesTogether

=============================================================================
