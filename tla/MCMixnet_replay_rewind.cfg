CONSTANTS
    MaxIndex = 2
    PacketSessions = {1}
    Delays <- MCDelaysOne
    ForwardQueueCapacity = 1
    SurbKeystoreCapacity = 1
    MaxFragmentsPerMessage = 2
    MixnodeSession <- MCMixnodeSession
    NonMixnodeSession <- MCNonMixnodeSession
    NoConfig = NoConfig
    NumSurbIds = 0
    MaxNumSurbs = 0
    MaxHeldSurbs = 0
    CallerCaches <- MCCachesNone
    CallerRewinds = TRUE
    NotCached = NotCached
    None = None

SPECIFICATION Spec





INVARIANT ReplayImmunityAlways
