\* Four application tasks: as many as three addresses and a start can cause.
SPECIFICATION FairPlatformSpec
CONSTANTS
  Apps = {a1, a2, a3, a4}
  NoApp = NoApp
  MaxAddresses = 3
INVARIANTS
  OneServes
  SeesLatest
  RestIsServed
PROPERTIES
  ServesOnline
\* After the last event everybody waits.
CHECK_DEADLOCK FALSE
