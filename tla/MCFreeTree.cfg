CONSTANTS
  Nodes <- MCNodes
  Size <- MCSize
  Requests <- MCRequests
SPECIFICATION Spec
INVARIANTS
  RedBlack
  Ordered
PROPERTY ImplementsBlockSet
