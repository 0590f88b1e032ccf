CONSTANTS
  Queues = {"q1", "q2"}
  Workers = {"w1", "w2"}
  Sources = {"s1", "s2"}
  Sinks = {"c1"}
  GraphInputs = {}
  Control = {}
  OneQueue = FALSE
  SharedSink = TRUE
  TwoLayers = TRUE
  SourceNeedsSink = FALSE
  LateNodes = {}
  MaxQueueSize = 1
  MaxPackets = 2
  Failures = {"s1", "c1"}
  ReportDeadlock = FALSE
  MaxControls = 0
  Main = "main"
  Idler = "idler"
  NoThread = "none"
  NoItem = NoItem
  Threads <- MCThreads
  Items <- MCItems
  Info <- MCInfo
  Dest <- MCDest
  Layer <- MCLayer
  OpenNeeds <- MCOpenNeeds
SPECIFICATION Spec
INVARIANTS
  SourcesSound
  DrainedWhenTerminated
PROPERTIES
  QueueSpec
  RunEnds
