SPECIFICATION FairSpec
CONSTANTS
    FifoSize = 40
    BuffSize = 36
    Unit = 4
    HwRates = {2, 6}
    SampleRates = {2, 5, 15}
    Blocks = {16, 64}
    Precisions = {16}
    Channels = {1, 2}
INVARIANTS FifoFits PaddingOutlastsData RecordsWhole
PROPERTIES BlocksEnd
