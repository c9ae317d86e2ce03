\* A window of three over seven numbers, two copies of each; usize is wide
\* enough.  Samples: each side of every test and of every exponent up to
\* 1.0, and some beyond.
SPECIFICATION PlaySpec
CONSTANTS
  Capacity = 3
  Seqs = {0, 1, 2, 3, 4, 5, 6}
  Copies = {a, b}
  Starts = {0, 2}
  MaxHead = 7
  UsizeMod = 256
  None = None
  Audio <- MCAudio
INVARIANTS
  SlotsImplied
  LevelIsExact
PROPERTIES
  PlayoutSpec
  LevelFollows
CHECK_DEADLOCK FALSE
