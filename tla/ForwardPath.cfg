CONSTANTS
    ForwardQueueCapacity = 4
    Delays = {0, 1, 2, 3}
    CallerPopsEarly = FALSE
    None = None

SPECIFICATION Spec

INVARIANT TypeOK
INVARIANT ForwardOnTime
PROPERTY DeadlineMonotone
