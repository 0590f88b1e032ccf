CONSTANTS
    MaxQueueSizes <- MCMaxQueueSizes
    RangeMin = 0
    RangeMax = 3
    Streams = {1, 2}
    MaxList = 1
    MaxAdded = 3
    MaxDue = 1
    Workers = {w1}
    MaxInFlights = {1, 2}
    BatchSizes = {1, 2}
    ProcessTimestamps = {FALSE, TRUE}
    SendsPostStream = {TRUE}
    PacketTimes <- MCPacketTimes
    BoundTimes = {2}
    Announced = {3}
SPECIFICATION Spec
CHECK_DEADLOCK FALSE
INVARIANTS
    NodeSound
    NodeServes
