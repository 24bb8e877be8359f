CONSTANTS
    Consumers <- MCOneConsumer
    Bodies <- MCBodies
    MinPartitions = 1
    MaxPartitions = 3
    MaxID = 2
    BatchSize = 2
    StoreFaults = FALSE
    FetchFaults = TRUE
    CompressMessages = FALSE
    CodecFaults = FALSE
    NoLease = NoLease
    c1 = c1
    c2 = c2
    m1 = m1
    m2 = m2

SPECIFICATION Spec
VIEW EngineView

PROPERTY GetCompletes
PROPERTY PartitionsComeBack
