SPECIFICATION Spec
CONSTANTS
  UdpMax = 2
  MaxCalls = 3
  f1 = f1
  f2 = f2
  Files <- MCFiles
  Blocks <- MCBlocks
  BlockMod = 3
  Lifetime = 2
  FirstPort = 1024
  LastPort = 1026
  TftpPort = 69
  TftpRetries = 1
  MaxSessions = 2
  Servers = {s1}
  NoServer = none
  Preset = preset
  DhcpPort = 68
  DhcpRetries = 1
  OptionSets <- MCOptionSets
  Names = {n1, n2}
  NoName = none
  DnsPort = 32768
  DnsRetries = 1
INVARIANTS
    FileIntact
    AnswersBelong
    PortsAccounted
PROPERTIES
    TftpIsTransfer
    RequestsEnd
CHECK_DEADLOCK FALSE
