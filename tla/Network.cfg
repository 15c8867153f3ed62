\* Networks of up to four application tiles in two processes that carry packets and are
\* taken down, the maps and routes of larger ones, the ports of a
\* router, and two cores that send each other messages.
SPECIFICATION BothSpec
CONSTANTS
  Procs = 2
  Tiles = 5
  Nets <- AllNets
  DramTime = 2
  Window = 2
  Forever = 1000
  Confs <- SomeConfs
INVARIANTS DeliveredOnceInOrder NothingLost RoutesReachReceivers TornDownTogether DelaysAreFirstFit MessagesKept
CHECK_DEADLOCK FALSE
