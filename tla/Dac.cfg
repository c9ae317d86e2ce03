\* A ring of four DMA buffers, as in the firmware, each of one frame.
SPECIFICATION FairSpec
CONSTANTS
  Streams = {s1, s2}
  Isr = Isr
  Room = 3
  DmaFrames = 1
  PacketFrames = 2
  MaxFrames = 8
  Slack = 1
INVARIANTS
  ResetAlone
  PlayedInTurn
  SleeperReachable
  NoUnderrun
PROPERTIES
  WriteEnds
