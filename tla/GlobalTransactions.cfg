\* One tx-tracker replica, its two consumers, and one contract-watcher on one
\* document, two failed calls.
SPECIFICATION FairSpec
CONSTANTS
    Queues <- MCQueues
    Trackers <- OneReplica
    QueueOf <- QueueOfOne
    Watchers <- OneWatcher
    MinRetries = 2
    MaxDeliveries = 4
    MaxWatched = 2
    MaxFaults = 2
\* Events are handled and bounds reached.
CHECK_DEADLOCK FALSE
INVARIANTS
    TypeOK
    LostOnlyWhenExhausted
PROPERTIES
    OriginKept
    StatusNeverWorse
    EventHandled
