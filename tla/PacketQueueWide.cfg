\* Numbers wider than usize, scaled down: 2^64 and 2^32 become 16 and 8.
SPECIFICATION Spec
CONSTANTS
  Capacity = 3
  Seqs = {0, 1, 2, 8, 9, 10, 15}
  Copies = {a}
  Starts = {0}
  MaxHead = 3
  UsizeMod = 8
  None = None
INVARIANT SlotsImplied
CHECK_DEADLOCK FALSE
