CONSTANTS
    MaxIndex = 1
    PacketSessions = {1}
    Delays <- MCDelaysOne
    ForwardQueueCapacity = 1
    SurbKeystoreCapacity = 1
    MaxFragmentsPerMessage = 3
    MixnodeSession <- MCMixnodeSession3
    NonMixnodeSession <- MCNonMixnodeSession
    NoConfig = NoConfig
    NumSurbIds = 0
    MaxNumSurbs = 0
    MaxHeldSurbs = 3
    CallerCaches <- MCCachesNone
    CallerRewinds = TRUE
    NotCached = NotCached
    None = None

SPECIFICATION Spec


PROPERTY PostReplyLosesAtMostOneSurb
VIEW MCViewPostReply
