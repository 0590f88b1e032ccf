CONSTANTS
  Queues = {"q1"}
  Workers = {"w1", "w2"}
  Sources = {"s1", "s2"}
  Sinks = {"c1"}
  GraphInputs = {}
  Control = {}
  OneQueue = TRUE
  SharedSink = TRUE
  TwoLayers = FALSE
  SourceNeedsSink = FALSE
  LateNodes = {}
  MaxQueueSize = 1
  MaxPackets = 3
  Failures = {}
  ReportDeadlock = FALSE
  MaxControls = 0
  Main = "main"
  Idler = "idler"
  NoThread = "none"
  NoItem = NoItem
  Threads <- MCThreads
  Items <- MCItems
  Info <- MCInfo
  Dest <- MCDest
  Layer <- MCLayer
  OpenNeeds <- MCOpenNeeds
SPECIFICATION Spec
PROPERTIES
  ThrottledSourcesWait
