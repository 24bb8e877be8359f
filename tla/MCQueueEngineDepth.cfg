CONSTANTS
    Consumers <- MCConsumers
    Bodies <- MCBodies
    MinPartitions = 1
    MaxPartitions = 2
    MaxID = 1
    BatchSize = 1
    StoreFaults = FALSE
    FetchFaults = FALSE
    CompressMessages = FALSE
    CodecFaults = FALSE
    NoLease = NoLease
    c1 = c1
    c2 = c2
    m1 = m1
    m2 = m2

SPECIFICATION Spec
SYMMETRY EngineSymmetry
CONSTRAINT StoreBound
CONSTRAINT DepthBound

INVARIANT DepthGaugeTracksStore
