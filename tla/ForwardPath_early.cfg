CONSTANTS
    ForwardQueueCapacity = 2
    Delays = {0, 1, 2}
    CallerPopsEarly = TRUE
    None = None

SPECIFICATION Spec

PROPERTY DeadlineMonotone
