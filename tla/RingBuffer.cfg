\* Four slots; calls of up to five frames, so that a call can want more than fits.
SPECIFICATION Spec
CONSTANTS
  N = 4
  MaxChunk = 5
  MaxItems = 7
INVARIANTS
  SlicesDisjoint
PROPERTY FifoSpec
