\* The calls the firmware makes: try_send from lwIP, receive().await in the app.
SPECIFICATION Spec
CONSTANTS
  Tx = Tx
  Rx = Rx
  Tasks = {Tx, Rx}
  Capacity = 2
  MaxItems = 4
  SendOps = {"try"}
PROPERTY RefusedOnlyWhenBusy
CHECK_DEADLOCK FALSE
