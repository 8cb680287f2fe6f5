SPECIFICATION FairSession
CONSTANTS
  Contested <- AllPorts
INVARIANTS
  SessionTypeOK
  StreamsHaveServer
  OnlyLeaksRemain
  NoTerminate
  MonitorPatient
PROPERTIES
  ExitEnds
  MonitorNotices
  ClientEnds
