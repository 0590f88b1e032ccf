CONSTANTS
  Parts = {"queue", "texture", "tensor", "buffers", "packets", "trace", "traces", "latency", "policies", "core"}
  q1 = q1
  q2 = q2
  src = src
  sink = sink
  opening = opening
  w2 = w2
  Queues = {q1, q2}
  Workers = {w1}
  Threads = {w1, a1, a2}
  Items = {src, sink, opening}
  Info <- MCInfo
  NoItem = NoItem
  Writers = {"W"}
  Readers = {"R", "S"}
  Buffers = {1, 2}
  KeepCount = 1
  MaxFrames = 2
  MaxReads = 2
  TensorThreads = {v1, v2}
  Tensors = {x1, x2}
  v1 = v1
  x2 = x2
  MaxVersion = 2
  Handles = {"b1", "i1"}
  ImageHandles = {"i1"}
  StorageIds = {"s1", "s2", "s3", "s4", "s5"}
  Registrations <- MCRegistrations
  MaxWrites = 3
  WriteShared = FALSE
  PacketThreads = {t1, t2}
  Slots = {p}
  Objects = {"m1", "m2"}
  Holders = {h1, h2}
  DataType <- MCDataType
  ProtoTypes = {"T"}
  Requested = {"T", "U"}
  Empty = Empty
  TraceThreads = {w1, w2}
  Capacity = 1
  LapModulus = 8
  StartCounts = {6}
  Margin = 1
  MaxTraceTime = 3
  MaxEvents = 2
  MaxStops = 1
  TracedNodes <- MCTracedNodes
  TracedTimes = {4, 6}
  MaxLogged = 4
  MaxLogTime = 3
  MaxWindows = 2
  LatencyNodes = {"detect", "track"}
  GraphInput = "in"
  InputsOf <- MCLatencyInputs
  BackEdgesOf <- MCBackEdges
  OutputOf <- MCLatencyOutput
  RecentCount = 2
  IntervalSize = 1
  NumIntervals = 2
  MaxLatencyPackets = 2
  MaxLatencyTime = 2
  RangeMin = 0
  RangeMax = 9
  NumStreams = 3
  Policies <- MCPolicies
  PolicyTimes = {3, 4}
  PolicyBounds = {12}
  Selected <- MCSelected
  TriggerSize = 2
  TargetSize = 1
  MaxPackets = 2
  NumBranches = 2
  Sources <- MCSources
  Gates <- MCGates
  Cloners <- MCCloners
  MaxTime = 2
SPECIFICATION SharedSpec
CHECK_DEADLOCK FALSE
INVARIANTS
  QueueSound
  NoStrandedTask
  FramesWhole
  ViewsShowLastWrite
  EveryViewShowsPicture
  PacketDataIntact
  TraceSound
  ProfilesSound
  PoliciesSound
  CalculatorsSound
