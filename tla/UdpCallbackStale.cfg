\* One callback, hooked and then dropped with its socket.
SPECIFICATION Spec
CONSTANTS
  Callbacks = {cb1}
  None = None
INVARIANT DispatchFindsCallback
CHECK_DEADLOCK FALSE
