SPECIFICATION FairSpec
CONSTANTS
    Tasks = {t1, t2}
    MaxEvents = 3
    MaxBuffers = 1
    MaxWork = 2
    HandlersSuspend = TRUE
    HandlersEmit = TRUE
INVARIANTS HeldOnlyInSession CountCoversUsers DeliveredOnce
PROPERTIES BufferedDelivered
CHECK_DEADLOCK FALSE
