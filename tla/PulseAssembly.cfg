CONSTANTS
    Sources = {d1, d2}
    HwIds = {h1}
    SmsIds = {0, 1}
    PulseIds = {1, 2, 3}
    BadTimes = {}
    Shapes = {1}
    MaxDup = 0
    MaxPackets = 3
    MaxEvents = 3
    Pixel <- MCPixel
    NoEoPPulseBufferSize = 1
    IntermittentDataThreshold = 1
    MaxPulseBufferSize = 1
    OverflowFreq = 2
    MaxPulseSeqList = 2
    RTDLNoDataThresh = 0
    RTDLFreq = 1
    DataTimeoutRetry = 0
SPECIFICATION Spec
INVARIANTS CacheValid NoWaitOnDeparted TimerRunning
PROPERTY RecordsPulseStream
SYMMETRY Swap
CHECK_DEADLOCK FALSE
