CONSTANTS
  UIntRange = 32
  Requests <- MCRequests
  Behind <- MCBehind
  Size = 7
  Word = 2
  Bytes = {0, 1, 2}
  Handlers = {h1, h2, h3}
  NoHandler = NoHandler
  MAX_HANDLERS = 4
SPECIFICATION Spec
INVARIANTS OwnArguments MessageIsMeant ReadsBack BlocksMove StringsAgree WalkSound
PROPERTY LostOnlyBehindStaleHead
CHECK_DEADLOCK FALSE
