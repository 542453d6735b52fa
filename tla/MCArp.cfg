SPECIFICATION Spec
CONSTANTS
  gw = gw
  a = a
  b = b
  r = r
  bc = bc
  f1 = f1
  f2 = f2
  f3 = f3
  none = none
  Hosts <- MCHosts
  Gateway = gw
  Peers <- MCPeers
  Remote <- MCRemote
  Broadcast = bc
  Frames <- MCFrames
  None = none
  CacheMax = 2
  QueueMax = 2
  MaxAge = 1
  Retries = 1
INVARIANTS
    NoPacketStranded
    SentToFirstHop
PROPERTIES
    WaitsEnd
CHECK_DEADLOCK FALSE
