CONSTANTS
  Queues = {"q1"}
  Workers = {"w1", "w2"}
  Sources = {}
  Sinks = {"c1"}
  GraphInputs = {"g1"}
  Control = {"k1"}
  OneQueue = TRUE
  SharedSink = TRUE
  TwoLayers = FALSE
  SourceNeedsSink = FALSE
  LateNodes = {}
  MaxQueueSize = 1
  MaxPackets = 1
  Failures = {}
  ReportDeadlock = FALSE
  MaxControls = 1
  Main = "main"
  Idler = "idler"
  NoThread = "none"
  NoItem = NoItem
  Threads <- MCThreads
  Items <- MCItems
  Info <- MCInfo
  Dest <- MCDest
  Layer <- MCLayer
  OpenNeeds <- MCOpenNeeds
SPECIFICATION Spec
INVARIANTS
  QuiescentWhenTerminated
