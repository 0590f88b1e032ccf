CONSTANTS
    MaxQueueSizes <- MCMaxQueueSizes
    RangeMin = 0
    RangeMax = 3
    Streams = {1}
    MaxList = 1
    MaxAdded = 3
    MaxDue = 1
    Workers = {w1, w2}
    MaxInFlights = {1, 2}
    BatchSizes = {1, 2}
    ProcessTimestamps = {FALSE, TRUE}
    SendsPostStream = {FALSE, TRUE}
    PacketTimes <- MCPacketTimes
    BoundTimes = {2}
    Announced = {}
SPECIFICATION Spec
CHECK_DEADLOCK FALSE
INVARIANTS
    OutputsSound
PROPERTIES
    NodeCloses
