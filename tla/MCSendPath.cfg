SPECIFICATION FairSpec
CONSTANTS
  Flows = {f1, f2}
  None = None
  MaxTime = 5
  PacketWeight = 1
  Lens = {1, 2}
  BufferSize = 2
  LossBound = 2
INVARIANTS SendingIsEarliest StreamCarriesWholePackets
PROPERTIES LeadGrowsByPacket ImplementsQueues EveryFlowIsServed
