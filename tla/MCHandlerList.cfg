CONSTANTS
  Handlers = {h1, h2, h3}
  NoHandler = NoHandler
  MAX_HANDLERS = 4
SPECIFICATION HandlersSpec
INVARIANT AllAttachedCalled
