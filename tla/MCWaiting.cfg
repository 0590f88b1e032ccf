CONSTANTS
  Parts = {"stream", "mirror", "pool", "mono", "sim", "gl"}
  RangeMin = 0
  RangeMax = 2
  Streams = {"observer", "poller"}
  MaxQueueSizes <- MCMaxQueueSizes
  MaxList = 2
  MaxAdded = 3
  MaxDue = 2
  Producers = {p1}
  MirrorTimes = {0, 1, 2}
  MirrorBounds <- MCMirrorBounds
  ObserveBounds = {TRUE, FALSE}
  CallbacksFail = TRUE
  PoolWorkers = {1, 2}
  PoolTasks = {t1, t2, t3}
  ThreadCounts = {0, 1, 2, NoCount}
  NoCount = NoCount
  ClockThreads = {"t1", "t2"}
  MonoClocks = {"c1", "c2"}
  MaxRaw = 2
  MaxCalls = 1
  MaxCorrections = 1
  SimTasks = {"k1", "k2", "k3"}
  PoolThreads = 3
  Durations = {1, 2}
  MaxSimTime = 4
  Contexts = {"A", "B"}
  GlApps = {"app"}
  MaxCommands = 1
  MaxWaits = 3
SPECIFICATION WaitingSpec
CHECK_DEADLOCK FALSE
INVARIANTS
  StreamQueueSound
  SettledIsFinal
  WaitsSound
PROPERTIES
  BoundNeverDecreases
  ObserverDelivers
  PollerDelivers
  PoolDrains
  SleepersWake
  WaitsReturn
