CONSTANTS
    MaxIndex = 2
    PacketSessions = {1}
    Delays <- MCDelaysTwo
    ForwardQueueCapacity = 2
    SurbKeystoreCapacity = 1
    MaxFragmentsPerMessage = 1
    MixnodeSession <- MCSmallMixnodeSession
    NonMixnodeSession <- MCNonMixnodeSession
    NoConfig = NoConfig
    NumSurbIds = 0
    MaxNumSurbs = 0
    MaxHeldSurbs = 0
    CallerCaches <- MCCachesReserved
    CallerRewinds = TRUE
    NotCached = NotCached
    None = None

SPECIFICATION Spec





VIEW MCViewCaches
INVARIANT ReservedPeersFresh
