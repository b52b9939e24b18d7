-------------------------------- MODULE RBTree --------------------------------
(***************************************************************************)
(* The red-black tree of rb_tree.c: top-down insertion and removal in one  *)
(* descent, with a list of duplicates hanging from each node.  A tree is a *)
(* record; node maps the address of each node it contains, and of the      *)
(* dummy root the descents start from, to data, links and colour.          *)
(* link[0] and link[1] are the subtrees, link[2] the next duplicate.       *)
(***************************************************************************)
EXTENDS Integers, FiniteSets

CONSTANTS
  Null,                  \* the null pointer
  Dummy,                 \* the address of the local variable head
  compare(_, _, _, _),   \* tree->compare: node, its data, data, args
  select_dup(_, _)       \* tree->select_dup: node, args

\* The one element of S.  The({f(x) : x \in {e}}) is f(e), with e computed once.
The(S) == CHOOSE x \in S : TRUE

\* f with x mapped to v.
Put(f, x, v) == [y \in DOMAIN f \cup {x} |-> IF y = x THEN v ELSE f[y]]

link(T, n, i) == T.node[n].link[i]
is_red(T, n) == n # Null /\ T.node[n].red

set_link(T, n, i, v) == [T EXCEPT !.node[n].link[i] = v]
paint_red(T, n) == [T EXCEPT !.node[n].red = TRUE]
paint_black(T, n) == [T EXCEPT !.node[n].red = FALSE]
copy_color(T, src, dst) == [T EXCEPT !.node[dst].red = T.node[src].red]

Unlinked == [i \in 0..2 |-> Null]

\* The index of the child slot of p that holds n, and the slot across.
Slot(T, p, n) == IF link(T, p, 1) = n THEN 1 ELSE 0
Toward(res) == IF res < 0 THEN 1 ELSE 0
Across(dir) == 1 - dir

init_rbtree == [root |-> Null, node |-> <<>>, num_nodes |-> 0, num_dup |-> 0]

\* set_link(p, i, rotate(n, dir)): n goes down in direction dir, turns red, and
\* its child across takes its place under p, black.
rotate(T, p, i, n, dir) ==
  LET over(save) ==
        LET T1 == set_link(T, n, Across(dir), link(T, save, dir))
            T2 == set_link(T1, save, dir, n)
        IN  set_link(paint_black(paint_red(T2, n), save), p, i, save)
  IN  The({over(save) : save \in {link(T, n, Across(dir))}})

\* The loops of the source start with a dummy node above the root and end by
\* taking the root from under it.
WithDummy(T) ==
  [T EXCEPT !.node = Put(@, Dummy, [data |-> 0, link |-> [Unlinked EXCEPT ![1] = T.root],
                                    red |-> FALSE])]

WithoutDummy(T) ==
  LET r == link(T, Dummy, 1)
      B == IF r = Null THEN T ELSE paint_black(T, r)
  IN  [B EXCEPT !.root = r, !.node = [n \in DOMAIN B.node \ {Dummy} |-> B.node[n]]]

-----------------------------------------------------------------------------
(* Insertion.  t, g, p are the last three nodes above n.                   *)

color_flip(T, n) ==
  paint_black(paint_black(paint_red(T, n), link(T, n, 0)), link(T, n, 1))

\* Fault: never a double rotation.
fix_red_single(T, t, g, p, n, last) == rotate(T, t, Slot(T, t, g), g, Across(last))

\* n and its parent p are red: a single or a double rotation of g.
fix_red(T, t, g, p, n, last) ==
  LET dir2 == Slot(T, t, g)
  IN  IF n = link(T, p, last)
      THEN rotate(T, t, dir2, g, Across(last))
      ELSE rotate(rotate(T, g, last, link(T, g, last), last), t, dir2, g, Across(last))

prepend_dup(T, n, new) ==
  [set_link(set_link(T, new, 2, link(T, n, 2)), n, 2, new) EXCEPT !.num_dup = @ + 1]

\* One turn of the loop of insert_rbnode, at n below p below g below t: put the
\* new node at the bottom or flip colours, mend two reds in a row, and go down.
insert_turn(c, new, args) ==
  LET T == c.tree
      bottom == c.n = Null
      m == IF bottom THEN new ELSE c.n
      T1 == IF bottom
            THEN [set_link(T, c.p, c.dir, new) EXCEPT !.num_nodes = @ + 1]
            ELSE IF is_red(T, link(T, m, 0)) /\ is_red(T, link(T, m, 1))
                 THEN color_flip(T, m)
                 ELSE T
      T2 == IF is_red(T1, m) /\ is_red(T1, c.p) THEN fix_red(T1, c.t, c.g, c.p, m, c.last) ELSE T1
      res == compare(m, T2.node[m].data, T2.node[new].data, args)
  IN  IF res = 0
      THEN [c EXCEPT !.tree = IF bottom THEN T2 ELSE prepend_dup(T2, m, new), !.done = TRUE]
      ELSE [tree |-> T2, t |-> IF c.g = Null THEN c.t ELSE c.g, g |-> c.p, p |-> m,
            n |-> link(T2, m, Toward(res)), dir |-> Toward(res), last |-> c.dir, done |-> FALSE]

\* A descent visits a node at most twice: again only after a double rotation.
Turns(T) == 2 * Cardinality(DOMAIN T.node)

insert_down(T, new, args) ==
  LET start == [tree |-> T, t |-> Dummy, g |-> Null, p |-> Null, n |-> link(T, Dummy, 1),
                dir |-> 0, last |-> 0, done |-> FALSE]
      turn[k \in 0..Turns(T)] ==
        IF k = 0
        THEN start
        ELSE The({IF c.done THEN c ELSE insert_turn(c, new, args) : c \in {turn[k - 1]}})
  IN  turn[Turns(T)].tree

insert_rbnode(tree, n, data, args) ==
  LET T == [tree EXCEPT !.node = Put(@, n, [data |-> data, link |-> Unlinked, red |-> TRUE])]
  IN  IF tree.root = Null
      THEN paint_black([T EXCEPT !.root = n, !.num_nodes = 1, !.num_dup = 0], n)
      ELSE WithoutDummy(insert_down(WithDummy(T), n, args))

-----------------------------------------------------------------------------
(* Removal.  A cursor is where the descent stands: n below p below g, the  *)
(* direction it goes on in, and the match f with its parent fp.            *)

has_red_child(T, n) == is_red(T, link(T, n, 0)) \/ is_red(T, link(T, n, 1))

\* Nothing red around n: colour a red from its sibling s, or rotate one over.
borrow_red(T, g, p, n, s, last) ==
  IF ~has_red_child(T, s)
  THEN paint_red(paint_red(paint_black(T, p), s), n)
  ELSE LET dir2 == Slot(T, g, p)
           T1 == IF is_red(T, link(T, s, Across(last)))
                 THEN rotate(T, g, dir2, p, last)
                 ELSE rotate(rotate(T, p, Across(last), s, Across(last)), g, dir2, p, last)
           top == link(T1, g, dir2)
           T2 == paint_red(paint_red(T1, n), top)
       IN  paint_black(paint_black(T2, link(T2, top, 0)), link(T2, top, 1))

\* One turn of the loop of remove_rbnode: step down to n, note a match, and see
\* to it that n or the node ahead is red.  Yields the tree and the new cursor.
push_red_down(T, c, data, args) ==
  LET g == c.p
      p == c.n
      n == link(T, p, c.dir)
      s == link(T, p, Across(c.dir))
      res == compare(n, T.node[n].data, data, args)
      dir == Toward(res)
      f == IF res = 0 THEN n ELSE c.f
      fp == IF res = 0 THEN p ELSE c.fp
      step(tree, parent, found) ==
        [tree |-> tree,
         cur |-> [g |-> g, p |-> parent, n |-> n, f |-> f, fp |-> found, dir |-> dir]]
  IN  CASE is_red(T, n) \/ is_red(T, link(T, n, dir)) ->
             step(T, p, fp)
        [] ~is_red(T, n) /\ ~is_red(T, link(T, n, dir)) /\ is_red(T, link(T, n, Across(dir))) ->
             LET T1 == rotate(T, p, c.dir, n, dir)
                 top == link(T1, p, c.dir)
             IN  step(T1, top, IF f = n THEN top ELSE fp)
        [] OTHER ->
             IF s = Null
             THEN step(T, p, fp)
             ELSE LET T1 == borrow_red(T, g, p, n, s, c.dir)
                  IN  step(T1, p, IF f = p /\ has_red_child(T, s)
                                  THEN link(T1, g, Slot(T, g, p))
                                  ELSE fp)

remove_down(T, data, args) ==
  LET start == [g |-> Null, p |-> Null, n |-> Dummy, f |-> Null, fp |-> Null, dir |-> 1]
      turn[k \in 0..Turns(T)] ==
        IF k = 0
        THEN [tree |-> T, cur |-> start]
        ELSE The({IF link(s.tree, s.cur.n, s.cur.dir) = Null
                  THEN s
                  ELSE push_red_down(s.tree, s.cur, data, args) : s \in {turn[k - 1]}})
  IN  turn[Turns(T)]

\* The first duplicate of f that select_dup accepts, or Null, and the node before.
find_dup(T, f, args) ==
  LET step[k \in 0..Turns(T)] ==
        IF k = 0
        THEN [before |-> f, dup |-> link(T, f, 2)]
        ELSE The({IF d.dup = Null \/ select_dup(d.dup, args)
                  THEN d
                  ELSE [before |-> d.dup, dup |-> link(T, d.dup, 2)] : d \in {step[k - 1]}})
  IN  step[Turns(T)]

\* n takes the links and the colour of f, and its place under fp.
replace(T, f, fp, n) ==
  LET T1 == set_link(set_link(T, n, 0, link(T, f, 0)), n, 1, link(T, f, 1))
  IN  copy_color(set_link(T1, fp, Slot(T1, fp, f), n), f, n)

\* f has duplicates: one of them goes, or f itself if the args single it out.
remove_dup(T, f, fp, args) ==
  LET d == find_dup(T, f, args)
      one_less(tree) == [tree EXCEPT !.num_dup = @ - 1]
  IN  CASE d.dup # Null ->
             [tree |-> one_less(set_link(T, d.before, 2, link(T, d.dup, 2))), found |-> d.dup]
        [] d.dup = Null /\ select_dup(f, args) ->
             [tree |-> one_less(replace(T, f, fp, link(T, f, 2))), found |-> f]
        [] OTHER -> [tree |-> T, found |-> Null]

\* f has none: its in-order predecessor n, the last node of the descent, is
\* unlinked and put in its place.  The address in args is not looked at.
remove_node(T, f, fp, p, n) ==
  LET T1 == set_link(T, p, Slot(T, p, n), link(T, n, IF link(T, n, 0) = Null THEN 1 ELSE 0))
      T2 == [T1 EXCEPT !.num_nodes = @ - 1]
  IN  [tree |-> IF n = f THEN T2 ELSE replace(T2, f, fp, n), found |-> f]

\* Yields the tree and the node removed, or Null.
remove_rbnode(tree, data, args) ==
  IF tree.root = Null
  THEN [tree |-> tree, found |-> Null]
  ELSE LET take(T, c) ==
             CASE c.f = Null -> [tree |-> T, found |-> Null]
               [] c.f # Null /\ link(T, c.f, 2) # Null -> remove_dup(T, c.f, c.fp, args)
               [] OTHER -> remove_node(T, c.f, c.fp, c.p, c.n)
           forget(T, found) ==
             [tree |-> [T EXCEPT !.node = [n \in DOMAIN @ \ {found} |-> @[n]]],
              found |-> found]
       IN  The({forget(WithoutDummy(r.tree), r.found) : r \in
                  {take(end.tree, end.cur) : end \in
                     {remove_down(WithDummy(tree), data, args)}}})

-----------------------------------------------------------------------------
(* What assert_tree tests.                                                 *)

\* The black height of the subtree at n, or 0 if it breaks a rule: no red node
\* below a red one, data increasing from left to right, equal black heights.
assert_tree(T, root) ==
  LET height[n \in DOMAIN T.node \cup {Null}] ==
        IF n = Null
        THEN 1
        ELSE LET ln == link(T, n, 0)
                 rn == link(T, n, 1)
             IN  IF \/ T.node[n].red /\ has_red_child(T, n)
                    \/ ln # Null /\ T.node[ln].data >= T.node[n].data
                    \/ rn # Null /\ T.node[rn].data <= T.node[n].data
                    \/ height[ln] # height[rn] \/ height[ln] = 0
                 THEN 0
                 ELSE IF T.node[n].red THEN height[ln] ELSE height[ln] + 1
  IN  height[root]

=============================================================================
