------------------------------- MODULE BlockSet -------------------------------
(***************************************************************************)
(* What the tree of free blocks promises the allocator: a set of blocks    *)
(* from which one takes either a given block or, for a request, a block of *)
(* the smallest size that satisfies it.                                    *)
(***************************************************************************)
EXTENDS Integers

CONSTANTS Blocks, Size, Requests, Null

VARIABLES
  free,    \* the blocks in the set
  call,    \* the last operation, with its argument
  taken    \* what it took out, or Null

vars == <<free, call, taken>>

Init ==
  /\ free = {}
  /\ call = <<"none", Null>>
  /\ taken = Null

Insert(b) ==
  /\ b \notin free
  /\ free' = free \cup {b}
  /\ call' = <<"insert", b>>
  /\ taken' = Null

Take(b) ==
  /\ b \in free
  /\ free' = free \ {b}
  /\ taken' = b

TakeBlock(b) == Take(b) /\ call' = <<"block", b>>

TakeFit(request) ==
  LET fits == {b \in free : Size[b] >= request}
      best == {b \in fits : \A c \in fits : Size[b] <= Size[c]}
  IN  /\ call' = <<"fit", request>>
      /\ IF fits = {}
         THEN UNCHANGED free /\ taken' = Null
         ELSE \E b \in best : Take(b)

Next ==
  \/ \E b \in Blocks : Insert(b) \/ TakeBlock(b)
  \/ \E request \in Requests : TakeFit(request)

Spec == Init /\ [][Next]_vars

=============================================================================
