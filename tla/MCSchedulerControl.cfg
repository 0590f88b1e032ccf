CONSTANTS
  Queues = {"q1"}
  Workers = {"w1"}
  Sources = {"s1", "s2", "s3"}
  Sinks = {"c1", "c2"}
  GraphInputs = {}
  Control = {"k1"}
  OneQueue = TRUE
  SharedSink = FALSE
  TwoLayers = FALSE
  SourceNeedsSink = TRUE
  LateNodes = {"c1"}
  MaxQueueSize = 1
  MaxPackets = 1
  Failures = {}
  ReportDeadlock = TRUE
  MaxControls = 2
  Main = "main"
  Idler = "idler"
  NoThread = "none"
  NoItem = NoItem
  Threads <- MCThreads
  Items <- MCItems
  Info <- MCInfo
  Dest <- MCDest
  Layer <- MCLayer
  OpenNeeds <- MCOpenNeeds
SPECIFICATION Spec
INVARIANTS
  RunningCountMatchesState
  QuiescentWhenTerminated
PROPERTIES
  StateTransitions
  RunEnds
