------------------------ MODULE MCGlobalTransactions ------------------------
(* Small instances of GlobalTransactions: one tx-tracker replica, whose        *)
(* consumers read the pipeline and the notification queue, with one            *)
(* contract-watcher or with the service and its backfiller.                    *)
EXTENDS GlobalTransactions

MCQueues == {"pipeline", "notifications"}
OneReplica == MCQueues \X {1}
QueueOfOne == [t \in OneReplica |-> t[1]]
OneWatcher == {"service"}
TwoWatchers == {"service", "backfiller"}
=============================================================================
