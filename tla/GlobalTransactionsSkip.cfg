\* A redeem transaction seen before the VAA.
SPECIFICATION Spec
CONSTANTS
    Queues <- MCQueues
    Trackers <- OneReplica
    QueueOf <- QueueOfOne
    Watchers <- OneWatcher
    MinRetries = 1
    MaxDeliveries = 2
    MaxWatched = 1
    MaxFaults = 0
\* Events are handled and bounds reached.
CHECK_DEADLOCK FALSE
PROPERTIES
    SkipsOnlyProcessed
