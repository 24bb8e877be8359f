CONSTANTS
    Addrs <- MCAddrs
    Fatal = Fatal

SPECIFICATION Spec

INVARIANT EveryOtherSeedTried
