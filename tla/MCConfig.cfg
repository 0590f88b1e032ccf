CONSTANTS
  Parts = {"names", "expansion", "sorter", "validation", "text", "templates", "options", "wire", "builder", "sinks", "container", "routing", "run", "opening"}
  NameFields = {"a", "b"}
  TagFields = {"T", "U"}
  NumberValue <- MCNumberValue
  OtherFields = {"01"}
  TagOrder <- MCTagOrder
  MaxPorts = 3
  Registry <- MCRegistry
  TopConfigs <- MCTopConfigs
  LowerCase <- MCLowerCase
  NumberText <- MCNumberText
  NumNodes = 3
  MaxSuccessors = 3
  Configs <- MCConfigs
  MessageTypes <- MCMessageTypes
  RootType = "Root"
  Documents <- MCDocuments
  PackedValues <- MCPacked
  Settings <- MCSettings
  Int32Max = 3
  Int64Max = 7
  Texts <- MCTexts
  TemplateArgs <- MCTemplateArgs
  Types <- MCOptionTypes
  Extensions <- MCExtensions
  GraphConfigs <- MCOptionGraphs
  ParentNodes <- MCParents
  OptionPackets <- MCOptionPackets
  Bits32 = 2
  Bits64 = 3
  LeafTypes <- MCLeafTypes
  WireMessages <- MCMessagesOnWire
  TextValues <- MCTextValues
  MaxEdits = 2
  PortKeys <- MCPortKeys
  BuilderTags <- MCBuilderTags
  UserNames <- MCUserNames
  MaxNodes = 2
  MaxBuilderPorts = 2
  MaxConfigs = 1
  GraphNodes <- MCGraphNodes
  StreamNames <- MCStreamNames
  SideNames <- MCSides
  MaxSinks = 2
  Timelines <- MCTimelines
  PostStream = 9
  HeaderRuns <- MCHeaderRuns
  Containers <- MCContainers
  ContainedNodes = 2
  Channels = {0, 1}
  LastSwitchTime = 3
  MaxSelections = 1
  Generators <- MCGenerators
  SideNodes = {"N1", "N2"}
  Ports <- MCPorts
  OptionalNames = {"b"}
  StatusHandlers <- MCStatusHandlers
  ExecutorSets <- MCExecutorSets
  GivenExecutors = {{}, {"x"}}
  InitPackets <- MCInitPackets
  RunPackets <- MCRunPackets
  BadMakers = {"bad"}
  Failing = {"G2", "N1", "H1"}
  Requests <- MCRequests
  PoolThreads = {"w1", "w2"}
  Main = "main"
  MaxRuns = 2
  OpenGraphs <- MCOpenGraphs
  Openers = {"t1", "t2"}
  DefaultQueue = 5
  MaxOpenings = 2
SPECIFICATION ConfigPartsSpec
CHECK_DEADLOCK FALSE
INVARIANTS
  NamesSound
  ConfigsSound
  
  OptionsDerived
  ConnectionsSound
  SwitchSound
  RunsSound
  OpeningSound
