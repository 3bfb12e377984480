\* The contract-watcher and its backfiller.
SPECIFICATION Spec
CONSTANTS
    Queues <- MCQueues
    Trackers <- OneReplica
    QueueOf <- QueueOfOne
    Watchers <- TwoWatchers
    MinRetries = 1
    MaxDeliveries = 0
    MaxWatched = 2
    MaxFaults = 0
\* Events are handled and bounds reached.
CHECK_DEADLOCK FALSE
PROPERTIES
    ConfirmedStays
