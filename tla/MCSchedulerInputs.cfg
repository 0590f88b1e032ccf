CONSTANTS
  Queues = {"q1"}
  Workers = {"w1", "w2"}
  Sources = {}
  Sinks = {"c1"}
  GraphInputs = {"g1", "g2"}
  Control = {}
  OneQueue = TRUE
  SharedSink = TRUE
  TwoLayers = FALSE
  SourceNeedsSink = FALSE
  LateNodes = {}
  MaxQueueSize = 1
  MaxPackets = 2
  Failures = {}
  ReportDeadlock = FALSE
  MaxControls = 1
  Main = "main"
  Idler = "idler"
  NoThread = "none"
  NoItem = NoItem
  Threads <- MCThreads
  Items <- MCItems
  Info <- MCInfo
  Dest <- MCDest
  Layer <- MCLayer
  OpenNeeds <- MCOpenNeeds
SPECIFICATION Spec
CHECK_DEADLOCK FALSE
INVARIANTS
  InputsSound
