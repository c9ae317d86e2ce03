\* One socket and its channel, from bind to the end of the task.
SPECIFICATION SystemSpec
CONSTANTS
  Callbacks = {cb1}
  None = None
  Tx = Tx
  Rx = Rx
  Capacity = 2
  MaxItems = 4
INVARIANTS
  RunningCallbackAlive
  SafeRestored
  SenderOutlivesCallback
  WakesLiveTask
  AllReturned
PROPERTY FailedTaskEnds
CHECK_DEADLOCK FALSE
