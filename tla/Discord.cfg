SPECIFICATION FairSpec
CONSTANTS
  deaths = deaths
  sys = sys
  achieve = achieve
  Channel = {deaths, sys, achieve}
  Sys = sys
  MaxPosts = 3
INVARIANTS
  TypeOK
  Conserved
  NoLostWakeup
  CleanExitSendsAll
PROPERTIES
  ShutdownCompletes
  QueueDrains
  ImplementsOutbox
