\* A three-bit cycle counter; sums of two calls need four bits. TLC's integers end
\* at 2^31: the baud divisor has 30 bits, which wrap above 42.9 MHz.
CONSTANTS
    Word = 8
    DoubleWord = 16
    Iterations = 2
    Elapsed = {1, 6}
    Samples = 4
    Overheads = {1, 3}
    StackWords = 2
    GuardWords = 1
    UartWord = 1073741824
    Clocks = {16000000, 42000000, 43000000, 84000000}
    Bauds = {9600, 57600, 111400, 115200, 125300, 230400}
    MaxSamples = 2
SPECIFICATION Spec
INVARIANTS
    TypeOK
    AggregatesAreExact
    PassIsEarned
    OverheadIsMedian
    WatermarkCoversStack
    BaudRateIsClose
    PassFollowsSchema
    MeansAreBetween
PROPERTY IsTheFirmware
