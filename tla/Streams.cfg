\* Three sessions, each with a queue of its own, two of them waiting for the DAC.
SPECIFICATION FairSpec
CONSTANTS
  Sessions = {1, 2, 3}
  MaxQueues = 3
  DelayStart = 1
INVARIANTS
  HandlesCounted
  DisconnectIsFinal
  RescuerRuns
PROPERTIES
  AppRescued
  ReplacedStreamEnds
\* The device stops for good after a panic.
CHECK_DEADLOCK FALSE
