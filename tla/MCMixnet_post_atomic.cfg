CONSTANTS
    MaxIndex = 1
    PacketSessions = {1}
    Delays <- MCDelaysOne
    ForwardQueueCapacity = 1
    SurbKeystoreCapacity = 1
    MaxFragmentsPerMessage = 2
    MixnodeSession <- MCMixnodeSession
    NonMixnodeSession <- MCNonMixnodeSession
    NoConfig = NoConfig
    NumSurbIds = 2
    MaxNumSurbs = 1
    MaxHeldSurbs = 1
    CallerCaches <- MCCachesNone
    CallerRewinds = TRUE
    NotCached = NotCached
    None = None

SPECIFICATION Spec




PROPERTY PostRequestAllOrNothing
