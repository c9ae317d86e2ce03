\* Every sender call there is, with wakes, spurious wakes and drops at any point.
SPECIFICATION FairSpec
CONSTANTS
  Tx = Tx
  Rx = Rx
  Tasks = {Tx, Rx}
  Capacity = 2
  MaxItems = 4
  SendOps = {"try", "await", "overwrite"}
INVARIANTS
  ParkedIsRegistered
  SendCannotFail
  Conservation
  InOrder
  SharedLifetime
PROPERTY SendWakesReceiver
CHECK_DEADLOCK FALSE
