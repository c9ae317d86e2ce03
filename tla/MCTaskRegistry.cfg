\* Three slots and three control blocks: claims race with exits and reuse.  An
\* interrupt wakes beside the tasks.
SPECIFICATION Spec
CONSTANTS
  Tasks = {t1, t2, t3}
  Outside = {isr}
  Sets = {s1}
  None = None
  MaxTasks = 3
SYMMETRY Symmetry
INVARIANTS
  ScanFindsSlot
  SlotIsOwn
  SleeperReachable
  WakersFindTask
\* All registered tasks may be asleep, waiting for an interrupt.
CHECK_DEADLOCK FALSE
