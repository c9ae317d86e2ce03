\* The application task, and two tasks that loop as the stream task does: one
\* more than the firmware has, so that a third can slip in at an unlock.
SPECIFICATION FairSpec
CONSTANTS
  Tasks = {app, stream, other}
  Loopers = {stream, other}
INVARIANTS
  MutualExclusion
  ParkedIsRegistered
  NotAllStuck
PROPERTY LoopersRescue
