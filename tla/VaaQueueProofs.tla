--------------------------- MODULE VaaQueueProofs ---------------------------
(* The safety of VaaQueue for any VAAs, replicas, batch size and bounds.       *)
EXTENDS VaaQueue, FiniteSetTheorems, TLAPS

USE VaasAssumption, NobodyAssumption, BoundsAssumption

------------------------------------------------------------------------------
(* Types.                                                                   *)

LEMMA InitTypeOK == Init => TypeOK
<1> SUFFICES ASSUME Init PROVE TypeOK
    OBVIOUS
<1>1. QueueTypeOK
    BY DEF Init, QueueTypeOK, Messages
<1>2. WorkTypeOK
    BY DEF Init, WorkTypeOK, Labels
<1>3. DbTypeOK
    BY DEF Init, DbTypeOK
<1> QED
    BY <1>1, <1>2, <1>3 DEF Init, TypeOK

\* The message a busy consumer works on is a message of the log, its VAA one of Vaas.
LEMMA CurrentType ==
    ASSUME TypeOK, NEW r \in Replicas, batch[r] # <<>>
    PROVE  /\ CurrentMsg(r) \in Messages
           /\ Current(r) \in Vaas
           /\ EmitterOf(Current(r)) \in Emitters
           /\ Current(r).chain \in Chains
           /\ Tail(batch[r]) \in Seq(Messages)
BY DEF TypeOK, QueueTypeOK, WorkTypeOK, CurrentMsg, Current, Messages, Emitters, Chains

\* Sending keeps the messages of the queue where they are.
LEMMA SendGrows ==
    ASSUME TypeOK, NEW v \in Vaas, Send(v), UNCHANGED deleted
    PROVE  /\ QueueTypeOK'
           /\ Messages \subseteq Messages'
           /\ \A m \in Messages : log'[m] = log[m]
           /\ \A m \in Messages' : m \in Messages \/ log'[m] = v
<1>1. CASE v \in window
    BY <1>1 DEF Send, TypeOK, QueueTypeOK, Messages
<1>2. CASE v \notin window
    <2>1. log' = Append(log, v) /\ holder' = Append(holder, Nobody)
        BY <1>2 DEF Send
    <2>2. log' \in Seq(Vaas) /\ Len(log') = Len(log) + 1
        BY <2>1 DEF TypeOK, QueueTypeOK
    <2>3. Messages = 1..Len(log) /\ Messages' = 1..(Len(log) + 1)
        BY <2>2 DEF TypeOK, QueueTypeOK, Messages
    <2>4. \A m \in Messages : log'[m] = log[m]
        BY <2>1, <2>3 DEF TypeOK, QueueTypeOK
    <2>5. log'[Len(log) + 1] = v
        BY <2>1 DEF TypeOK, QueueTypeOK
    <2>6. holder \in Seq(Replicas \union {Nobody}) /\ Len(holder) = Len(log)
        BY <2>3 DEF TypeOK, QueueTypeOK
    <2>7. holder' \in [Messages' -> Replicas \union {Nobody}]
        <3>1. holder' \in Seq(Replicas \union {Nobody}) /\ Len(holder') = Len(log) + 1
            BY <2>1, <2>6
        <3> QED
            BY <3>1, <2>3
    <2>8. window' \subseteq Vaas
        BY <1>2 DEF Send, TypeOK, QueueTypeOK
    <2> QED
        BY <2>2, <2>3, <2>4, <2>5, <2>7, <2>8 DEF TypeOK, QueueTypeOK
<1> QED
    BY <1>1, <1>2

\* A larger log keeps the batches well typed.
LEMMA WorkTypeKept ==
    ASSUME WorkTypeOK, Messages \subseteq Messages', UNCHANGED <<seen, workVars>>
    PROVE  WorkTypeOK'
<1>1. batch' \in [Replicas -> Seq(Messages')]
    BY DEF WorkTypeOK, workVars
<1> QED
    BY <1>1 DEF WorkTypeOK, workVars

\* The end of the work on a message, and a move to the next call, keep the types.
LEMMA FinishType ==
    ASSUME TypeOK, NEW r \in Replicas, batch[r] # <<>>, Finish(r),
           UNCHANGED <<log, seen>>
    PROVE  WorkTypeOK'
BY CurrentType DEF TypeOK, WorkTypeOK, Finish, Labels, Messages

LEMMA GotoType ==
    ASSUME TypeOK, NEW r \in Replicas, NEW label \in Labels, batch[r] # <<>>,
           Goto(r, label), UNCHANGED <<log, seen>>
    PROVE  WorkTypeOK'
BY DEF TypeOK, WorkTypeOK, Goto, Messages

\* A batch a ReceiveMessage call returns is a nonempty sequence of messages.
LEMMA OrdersType ==
    ASSUME TypeOK, NEW S \in Receivable, NEW b \in Orders(S)
    PROVE  b \in Seq(Messages) /\ b # <<>> /\ S \subseteq Messages
<1>1. S \subseteq Messages /\ S # {}
    BY DEF Receivable, Available
<1>2. Messages = 1..Len(log) /\ Len(log) \in Nat
    BY DEF TypeOK, QueueTypeOK, Messages
<1>3. IsFiniteSet(S)
    <2>1. IsFiniteSet(1..Len(log))
        BY <1>2, FS_Interval
    <2> QED
        BY <2>1, <1>1, <1>2, FS_Subset
<1>4. Cardinality(S) \in Nat /\ Cardinality(S) # 0
    BY <1>1, <1>3, FS_CardinalityType, FS_EmptySet
<1>5. b \in [1..Cardinality(S) -> S]
    BY DEF Orders
<1> QED
    BY <1>1, <1>4, <1>5

------------------------------------------------------------------------------
(* Each action keeps the types.                                             *)

LEMMA PublishType ==
    ASSUME TypeOK, NEW r \in Replicas, NEW v \in Vaas,
           Publish(r, v) \/ PublishFails(r, v) \/ ForgetSeen(r, v)
    PROVE  TypeOK'
<1>1. CASE Publish(r, v)
    <2>1. QueueTypeOK' /\ Messages \subseteq Messages'
        BY <1>1, SendGrows DEF Publish
    <2>2. seen' \in [Replicas -> SUBSET Vaas]
        BY <1>1 DEF Publish, TypeOK, WorkTypeOK
    <2>3. batch' \in [Replicas -> Seq(Messages')]
        BY <1>1, <2>1 DEF Publish, TypeOK, WorkTypeOK, workVars
    <2> QED
        BY <1>1, <2>1, <2>2, <2>3
        DEF Publish, TypeOK, WorkTypeOK, DbTypeOK, workVars, dbVars
<1>2. CASE PublishFails(r, v)
    <2>1. QueueTypeOK' /\ Messages \subseteq Messages'
        BY <1>2, SendGrows DEF PublishFails
    <2>2. WorkTypeOK'
        BY <1>2, <2>1, WorkTypeKept DEF PublishFails, TypeOK
    <2> QED
        BY <1>2, <2>1, <2>2 DEF PublishFails, Fault, TypeOK, DbTypeOK, dbVars
<1>3. CASE ForgetSeen(r, v)
    BY <1>3 DEF ForgetSeen, TypeOK, QueueTypeOK, WorkTypeOK, DbTypeOK,
                Messages, sqsVars, workVars, dbVars
<1> QED
    BY <1>1, <1>2, <1>3

LEMMA ForgetWindowType ==
    ASSUME TypeOK, NEW v \in Vaas, ForgetWindow(v)
    PROVE  TypeOK'
BY DEF ForgetWindow, TypeOK, QueueTypeOK, WorkTypeOK, DbTypeOK, Messages, workVars, dbVars

LEMMA VisibilityTimeoutType ==
    ASSUME TypeOK, NEW m \in Messages, VisibilityTimeout(m)
    PROVE  TypeOK'
BY DEF VisibilityTimeout, Fault, TypeOK, QueueTypeOK, WorkTypeOK, DbTypeOK,
       Messages, workVars, dbVars

LEMMA ReceiveType ==
    ASSUME TypeOK, NEW r \in Replicas, Receive(r)
    PROVE  TypeOK'
<1>1. PICK S \in Receivable :
          /\ \E b \in Orders(S) : batch' = [batch EXCEPT ![r] = b]
          /\ holder' = [m \in Messages |-> IF m \in S THEN r ELSE holder[m]]
    BY DEF Receive
<1>2. PICK b \in Orders(S) : batch' = [batch EXCEPT ![r] = b]
    BY <1>1
<1>3. b \in Seq(Messages) /\ b # <<>>
    BY OrdersType
<1>4. log' = log /\ Messages' = Messages
    BY DEF Receive, Messages
<1>5. batch' \in [Replicas -> Seq(Messages')]
    BY <1>2, <1>3, <1>4 DEF TypeOK, WorkTypeOK
<1>6. \A s \in Replicas : batch'[s] = <<>> => pc'[s] = "take"
    BY <1>2, <1>3 DEF Receive, TypeOK, WorkTypeOK
<1>7. WorkTypeOK'
    BY <1>5, <1>6 DEF Receive, TypeOK, WorkTypeOK
<1>8. QueueTypeOK'
    BY <1>1, <1>4 DEF Receive, TypeOK, QueueTypeOK
<1> QED
    BY <1>7, <1>8 DEF Receive, TypeOK, DbTypeOK, dbVars

LEMMA BatchExpiresType ==
    ASSUME TypeOK, NEW r \in Replicas, BatchExpires(r)
    PROVE  TypeOK'
BY DEF BatchExpires, TypeOK, QueueTypeOK, WorkTypeOK, DbTypeOK, Messages, sqsVars, dbVars

\* The calls of the consumer touch neither the log nor seen.
LEMMA WorkType ==
    ASSUME TypeOK, NEW r \in Replicas, Work(r)
    PROVE  TypeOK'
<1>1. CASE Take(r)
    <2>1. WorkTypeOK'
        BY <1>1, FinishType, GotoType DEF Take, At, Labels, sqsVars
    <2> QED
        BY <1>1, <2>1 DEF Take, TypeOK, QueueTypeOK, DbTypeOK, Messages, sqsVars, dbVars
<1>2. CASE Upsert(r)
    <2>1. WorkTypeOK'
        BY <1>2, GotoType DEF Upsert, At, Labels, sqsVars
    <2>2. stored' \subseteq Vaas
        BY <1>2, CurrentType DEF Upsert, Insert, At, TypeOK, DbTypeOK
    <2> QED
        BY <1>2, <2>1, <2>2 DEF Upsert, TypeOK, QueueTypeOK, DbTypeOK, Messages, sqsVars
<1>3. CASE Count(r)
    <2>1. WorkTypeOK'
        BY <1>3, GotoType DEF Count, At, Labels, sqsVars
    <2>2. Current(r).chain \in Chains
        BY <1>3, CurrentType DEF Count, At
    <2>3. count' \in [Chains -> Nat]
        BY <1>3, <2>2 DEF Count, TypeOK, DbTypeOK
    <2>4. faults' \in Nat
        BY <1>3 DEF Count, Fault, TypeOK
    <2> QED
        BY <1>3, <2>1, <2>3, <2>4 DEF Count, TypeOK, QueueTypeOK, DbTypeOK, Messages, sqsVars
<1>4. CASE AfterUpdate(r)
    <2>1. WorkTypeOK'
        BY <1>4, GotoType DEF AfterUpdate, At, Labels, sqsVars
    <2>2. events' \in [Vaas -> Nat]
        BY <1>4, CurrentType DEF AfterUpdate, Emit, At, TypeOK, DbTypeOK
    <2> QED
        BY <1>4, <2>1, <2>2 DEF AfterUpdate, TypeOK, QueueTypeOK, DbTypeOK, Messages, sqsVars
<1>5. CASE Notify(r)
    <2>1. WorkTypeOK'
        BY <1>5, GotoType DEF Notify, At, Labels, sqsVars
    <2>2. lastSeq' \in [Emitters -> Nat \union {-1}]
        BY <1>5, CurrentType DEF Notify, RecordSequence, At, TypeOK, DbTypeOK
    <2> QED
        BY <1>5, <2>1, <2>2 DEF Notify, TypeOK, QueueTypeOK, DbTypeOK, Messages, sqsVars
<1>6. CASE Done(r)
    <2>1. WorkTypeOK'
        BY <1>6, FinishType DEF Done, At
    <2>2. QueueTypeOK'
        BY <1>6, CurrentType DEF Done, Delete, At, TypeOK, QueueTypeOK, Messages
    <2>3. faults' \in Nat
        BY <1>6 DEF Done, Fault, TypeOK
    <2> QED
        BY <1>6, <2>1, <2>2, <2>3 DEF Done, TypeOK, DbTypeOK, dbVars
<1> QED
    BY <1>1, <1>2, <1>3, <1>4, <1>5, <1>6 DEF Work

LEMMA FailType ==
    ASSUME TypeOK, NEW r \in Replicas, Fail(r)
    PROVE  TypeOK'
<1>1. CASE UpsertFails(r)
    <2>1. WorkTypeOK'
        BY <1>1, FinishType DEF UpsertFails, Fails, At, sqsVars
    <2>2. stored' \subseteq Vaas
        BY <1>1, CurrentType DEF UpsertFails, Insert, At, TypeOK, DbTypeOK
    <2> QED
        BY <1>1, <2>1, <2>2
        DEF UpsertFails, Fails, Fault, TypeOK, QueueTypeOK, DbTypeOK, Messages, sqsVars
<1>2. CASE AfterUpdateFails(r)
    <2>1. WorkTypeOK'
        BY <1>2, FinishType DEF AfterUpdateFails, Fails, At, sqsVars
    <2>2. events' \in [Vaas -> Nat]
        BY <1>2, CurrentType DEF AfterUpdateFails, Emit, At, TypeOK, DbTypeOK
    <2> QED
        BY <1>2, <2>1, <2>2
        DEF AfterUpdateFails, Fails, Fault, TypeOK, QueueTypeOK, DbTypeOK, Messages, sqsVars
<1>3. CASE NotifyFails(r)
    <2>1. WorkTypeOK'
        BY <1>3, FinishType DEF NotifyFails, Fails, At, sqsVars
    <2>2. lastSeq' \in [Emitters -> Nat \union {-1}]
        BY <1>3, CurrentType DEF NotifyFails, RecordSequence, At, TypeOK, DbTypeOK
    <2> QED
        BY <1>3, <2>1, <2>2
        DEF NotifyFails, Fails, Fault, TypeOK, QueueTypeOK, DbTypeOK, Messages, sqsVars
<1>4. CASE Crash(r)
    BY <1>4 DEF Crash, Fault, TypeOK, QueueTypeOK, WorkTypeOK, DbTypeOK, Labels,
                Messages, sqsVars, dbVars
<1> QED
    BY <1>1, <1>2, <1>3, <1>4 DEF Fail

LEMMA NextTypeOK == TypeOK /\ [Next]_vars => TypeOK'
<1> SUFFICES ASSUME TypeOK, [Next]_vars PROVE TypeOK'
    OBVIOUS
<1>1. CASE UNCHANGED vars
    BY <1>1 DEF vars, TypeOK, QueueTypeOK, WorkTypeOK, DbTypeOK, Messages
<1>2. CASE Next
    BY <1>2, PublishType, ForgetWindowType, VisibilityTimeoutType, ReceiveType,
       BatchExpiresType, WorkType, FailType DEF Next
<1> QED
    BY <1>1, <1>2

\* Every variable keeps its type, whatever the replicas, SQS and faults do.
THEOREM TypeCorrect == Spec => []TypeOK
BY InitTypeOK, NextTypeOK, PTL DEF Spec
------------------------------------------------------------------------------
(* Who changes what, whichever action is taken.                             *)

\* Mail: the steps of the queue, of publishers and of polling; none reaches a
\* database or a message being worked on.
Mail ==
    \/ \E r \in Replicas, v \in Vaas :
          Publish(r, v) \/ PublishFails(r, v) \/ ForgetSeen(r, v)
    \/ \E v \in Vaas : ForgetWindow(v)
    \/ \E m \in Messages : VisibilityTimeout(m)
    \/ \E r \in Replicas : Receive(r) \/ BatchExpires(r)

LEMMA StepKinds ==
    ASSUME [Next]_vars
    PROVE  UNCHANGED vars \/ Mail \/ (\E r \in Replicas : Work(r) \/ Fail(r))
BY DEF Next, Mail

\* The log only grows.
LEMMA LogGrows ==
    ASSUME TypeOK, [Next]_vars
    PROVE  /\ Messages \subseteq Messages'
           /\ \A m \in Messages : log'[m] = log[m]
<1>1. CASE log' = log
    BY <1>1 DEF Messages
<1>2. ASSUME NEW v \in Vaas, Send(v), UNCHANGED deleted
      PROVE  Messages \subseteq Messages' /\ \A m \in Messages : log'[m] = log[m]
    BY <1>2, SendGrows
<1>3. CASE UNCHANGED vars
    BY <1>1, <1>3 DEF vars
<1>4. CASE Mail
    BY <1>1, <1>2, <1>4 DEF Mail, Publish, PublishFails, ForgetSeen, ForgetWindow,
       VisibilityTimeout, Receive, BatchExpires, sqsVars
<1>5. ASSUME NEW r \in Replicas, Work(r) PROVE log' = log
    BY <1>5 DEF Work, Take, Upsert, Count, AfterUpdate, Notify, Done, sqsVars
<1>6. ASSUME NEW r \in Replicas, Fail(r) PROVE log' = log
    BY <1>6 DEF Fail, Fails, UpsertFails, AfterUpdateFails, NotifyFails, Crash, sqsVars
<1> QED
    BY <1>1, <1>3, <1>4, <1>5, <1>6, StepKinds

\* A step of r moves no other consumer.
LEMMA OthersStay ==
    ASSUME TypeOK, NEW r \in Replicas, Work(r) \/ Fail(r),
           NEW s \in Replicas, s # r
    PROVE  batch'[s] = batch[s] /\ pc'[s] = pc[s]
<1>1. CASE Work(r)
    BY <1>1 DEF Work, Take, Upsert, Count, AfterUpdate, Notify, Done, Goto, Finish,
       TypeOK, WorkTypeOK
<1>2. CASE Fail(r)
    BY <1>2 DEF Fail, UpsertFails, AfterUpdateFails, NotifyFails, Crash, Fails, Finish,
       TypeOK, WorkTypeOK
<1> QED
    BY <1>1, <1>2

LEMMA MailStays ==
    ASSUME TypeOK, UNCHANGED vars \/ Mail
    PROVE  /\ UNCHANGED <<pc, deleted, dbVars>>
           /\ \A s \in Replicas : batch[s] # <<>> => batch'[s] = batch[s]
<1>1. CASE UNCHANGED vars
    BY <1>1 DEF vars, dbVars
<1>2. CASE Mail
    BY <1>2 DEF Mail, Publish, PublishFails, ForgetSeen, ForgetWindow, VisibilityTimeout,
       Receive, BatchExpires, TypeOK, WorkTypeOK, sqsVars, workVars
<1> QED
    BY <1>1, <1>2

\* How a consumer comes to each of its calls.
LEMMA CallMoves ==
    ASSUME TypeOK, [Next]_vars, NEW s \in Replicas, pc'[s] # "take"
    PROVE  /\ batch'[s] = batch[s]
           /\ batch[s] # <<>>
           /\ \/ pc'[s] = pc[s]
              \/ pc'[s] = "upsert"
              \/ pc'[s] = "count" /\ Upsert(s) /\ IsNewRecord(s)
              \/ pc'[s] = "publish" /\ Count(s)
              \/ pc'[s] = "notify" /\ Upsert(s) /\ ~IsNewRecord(s)
              \/ pc'[s] = "notify" /\ AfterUpdate(s)
              \/ pc'[s] = "ack" /\ Notify(s)
<1>1. CASE UNCHANGED vars \/ Mail
    BY <1>1, MailStays DEF TypeOK, WorkTypeOK
<1>2. ASSUME NEW r \in Replicas, Work(r) \/ Fail(r), r # s PROVE pc'[s] = pc[s] /\ batch'[s] = batch[s]
    BY <1>2, OthersStay
<1>3. CASE Work(s)
    BY <1>3 DEF Work, Take, Upsert, Count, AfterUpdate, Notify, Done, Goto, Finish, At,
       TypeOK, WorkTypeOK
<1>4. CASE Fail(s)
    BY <1>4 DEF Fail, UpsertFails, AfterUpdateFails, NotifyFails, Crash, Fails, Finish, At,
       TypeOK, WorkTypeOK
<1> QED
    BY <1>1, <1>2, <1>3, <1>4, StepKinds DEF TypeOK, WorkTypeOK

LEMMA CurrentKept ==
    ASSUME TypeOK, [Next]_vars, NEW s \in Replicas, pc'[s] # "take"
    PROVE  batch[s] # <<>> /\ batch'[s] = batch[s] /\ Current(s)' = Current(s)
BY CallMoves, LogGrows, CurrentType DEF Current, CurrentMsg

\* Only a consumer at "ack" deletes, and its own message.
LEMMA DeletedBy ==
    ASSUME TypeOK, [Next]_vars, NEW m \in deleted'
    PROVE  m \in deleted \/ (\E r \in Replicas : Done(r) /\ m = CurrentMsg(r))
<1>1. CASE UNCHANGED vars \/ Mail
    BY <1>1, MailStays
<1>2. ASSUME NEW r \in Replicas, Work(r)
      PROVE  m \in deleted \/ (Done(r) /\ m = CurrentMsg(r))
    BY <1>2 DEF Work, Take, Upsert, Count, AfterUpdate, Notify, Done, Delete, sqsVars
<1>3. ASSUME NEW r \in Replicas, Fail(r) PROVE m \in deleted
    BY <1>3 DEF Fail, UpsertFails, AfterUpdateFails, NotifyFails, Crash, Fails, sqsVars
<1> QED
    BY <1>1, <1>2, <1>3, StepKinds

\* The collection only grows, by the VAA of a consumer at "upsert".
LEMMA StoredBy ==
    ASSUME TypeOK, [Next]_vars
    PROVE  \/ stored' = stored
           \/ \E r \in Replicas : (Upsert(r) \/ UpsertFails(r)) /\ Insert(r)
<1>1. CASE UNCHANGED vars \/ Mail
    BY <1>1, MailStays DEF dbVars
<1>2. ASSUME NEW r \in Replicas, Work(r)
      PROVE  stored' = stored \/ (Upsert(r) /\ Insert(r))
    BY <1>2 DEF Work, Take, Upsert, Count, AfterUpdate, Notify, Done, dbVars
<1>3. ASSUME NEW r \in Replicas, Fail(r)
      PROVE  stored' = stored \/ (UpsertFails(r) /\ Insert(r))
    BY <1>3 DEF Fail, UpsertFails, AfterUpdateFails, NotifyFails, Crash, dbVars
<1> QED
    BY <1>1, <1>2, <1>3, StepKinds

\* Only a consumer at "publish" publishes, and it leaves that call.
LEMMA EventsBy ==
    ASSUME TypeOK, [Next]_vars
    PROVE  \/ events' = events
           \/ \E r \in Replicas : At(r, "publish") /\ Emit(r) /\ pc'[r] \in {"take", "notify"}
                                  /\ (AfterUpdate(r) \/ AfterUpdateFails(r))
<1>1. CASE UNCHANGED vars \/ Mail
    BY <1>1, MailStays DEF dbVars
<1>2. ASSUME NEW r \in Replicas, Work(r) PROVE events' = events \/ AfterUpdate(r)
    BY <1>2 DEF Work, Take, Upsert, Count, Notify, Done, dbVars
<1>3. ASSUME NEW r \in Replicas, Fail(r)
      PROVE  events' = events \/ (AfterUpdateFails(r) /\ Emit(r))
    BY <1>3 DEF Fail, UpsertFails, AfterUpdateFails, NotifyFails, Crash, dbVars
<1>4. ASSUME NEW r \in Replicas, AfterUpdate(r) \/ AfterUpdateFails(r)
      PROVE  At(r, "publish") /\ pc'[r] \in {"take", "notify"}
    BY <1>4 DEF AfterUpdate, AfterUpdateFails, Fails, Goto, Finish, TypeOK, WorkTypeOK
<1>5. ASSUME NEW r \in Replicas, AfterUpdate(r) PROVE Emit(r)
    BY <1>5 DEF AfterUpdate
<1> QED
    BY <1>1, <1>2, <1>3, <1>4, <1>5, StepKinds

\* Only the script of a consumer at "notify" moves a last sequence.
LEMMA SequenceBy ==
    ASSUME TypeOK, [Next]_vars
    PROVE  \/ lastSeq' = lastSeq
           \/ \E r \in Replicas : At(r, "notify") /\ RecordSequence(r)
                                  /\ (Notify(r) \/ NotifyFails(r))
<1>1. CASE UNCHANGED vars \/ Mail
    BY <1>1, MailStays DEF dbVars
<1>2. ASSUME NEW r \in Replicas, Work(r) PROVE lastSeq' = lastSeq \/ Notify(r)
    BY <1>2 DEF Work, Take, Upsert, Count, AfterUpdate, Done, dbVars
<1>3. ASSUME NEW r \in Replicas, Fail(r)
      PROVE  lastSeq' = lastSeq \/ (NotifyFails(r) /\ RecordSequence(r))
    BY <1>3 DEF Fail, UpsertFails, AfterUpdateFails, NotifyFails, Crash, dbVars
<1>4. ASSUME NEW r \in Replicas, Notify(r) \/ NotifyFails(r) PROVE At(r, "notify")
    BY <1>4 DEF Notify, NotifyFails
<1>5. ASSUME NEW r \in Replicas, Notify(r) PROVE RecordSequence(r)
    BY <1>5 DEF Notify
<1> QED
    BY <1>1, <1>2, <1>3, <1>4, <1>5, StepKinds

\* Hence what is processed stays processed.
LEMMA DbGrows ==
    ASSUME TypeOK, [Next]_vars
    PROVE  /\ stored \subseteq stored'
           /\ \A g \in Emitters : lastSeq[g] <= lastSeq'[g]
<1>1. stored \subseteq stored'
    BY StoredBy DEF Insert
<1>2. ASSUME lastSeq' = lastSeq PROVE \A g \in Emitters : lastSeq[g] <= lastSeq'[g]
    BY <1>2 DEF TypeOK, DbTypeOK
<1>3. ASSUME NEW r \in Replicas, At(r, "notify"), RecordSequence(r)
      PROVE  \A g \in Emitters : lastSeq[g] <= lastSeq'[g]
    <2>1. Current(r) \in Vaas /\ EmitterOf(Current(r)) \in Emitters
        BY <1>3, CurrentType DEF At
    <2>2. Current(r).seq \in Nat
        BY <2>1
    <2> QED
        BY <1>3, <2>1, <2>2 DEF RecordSequence, TypeOK, DbTypeOK
<1> QED
    BY <1>1, <1>2, <1>3, SequenceBy

LEMMA ProcessedKept ==
    ASSUME TypeOK, TypeOK', [Next]_vars, NEW v \in Vaas, Processed(v)
    PROVE  Processed(v)'
<1>1. EmitterOf(v) \in Emitters /\ v.seq \in Nat
    BY DEF Emitters
<1>2. lastSeq[EmitterOf(v)] \in Int /\ lastSeq'[EmitterOf(v)] \in Int
    BY <1>1 DEF TypeOK, DbTypeOK
<1> QED
    BY <1>1, <1>2, DbGrows DEF Processed, EmitterOf

\* The last sequence of an emitter never goes back (LUA_SCRIPT), whichever
\* replica folds in an older VAA and however often.
THEOREM LastSequenceNeverBack == Spec => LastSequenceMonotone
<1>1. TypeOK /\ [Next]_vars => [\A g \in Emitters : lastSeq[g] <= lastSeq'[g]]_vars
    BY DbGrows
<1> QED
    BY <1>1, TypeCorrect, PTL DEF Spec, LastSequenceMonotone
------------------------------------------------------------------------------
(* The inductive invariant: what a consumer's next call says it has done.   *)

\* Past the upsert the VAA is in the collection.
UpsertDone ==
    \A r \in Replicas :
        batch[r] # <<>> /\ pc[r] \notin {"take", "upsert"} => Current(r) \in stored

\* Past the notification its sequence is folded in as well.
NotifyDone == \A r \in Replicas : At(r, "ack") => Processed(Current(r))

\* Only the replica that inserted a VAA is on its way to announce it, and it
\* has not been announced yet.
Announces(r) == At(r, "count") \/ At(r, "publish")
OneAnnouncer ==
    \A r, s \in Replicas :
        Announces(r) /\ Announces(s) /\ Current(r) = Current(s) => r = s
NotAnnounced == \A r \in Replicas : Announces(r) => events[Current(r)] = 0

IInv ==
    /\ TypeOK
    /\ UpsertDone
    /\ NotifyDone
    /\ NoLoss
    /\ LastSequenceStored
    /\ OneAnnouncer
    /\ NotAnnounced
    /\ AnnouncedOnce

LEMMA InitIInv == Init => IInv
<1> SUFFICES ASSUME Init PROVE IInv
    OBVIOUS
<1>1. TypeOK
    BY InitTypeOK
<1>2. UpsertDone /\ NotifyDone /\ OneAnnouncer /\ NotAnnounced
    BY DEF Init, UpsertDone, NotifyDone, OneAnnouncer, NotAnnounced, Announces, At
<1>3. NoLoss /\ AnnouncedOnce
    BY DEF Init, NoLoss, AnnouncedOnce
<1>4. LastSequenceStored
    BY DEF Init, LastSequenceStored
<1> QED
    BY <1>1, <1>2, <1>3, <1>4 DEF IInv

LEMMA UpsertDoneStep ==
    ASSUME IInv, TypeOK', [Next]_vars
    PROVE  UpsertDone'
<1> SUFFICES ASSUME NEW s \in Replicas, batch'[s] # <<>>, pc'[s] \notin {"take", "upsert"}
             PROVE  Current(s)' \in stored'
    BY DEF UpsertDone
<1> USE DEF IInv
<1>1. Current(s)' = Current(s) /\ batch[s] # <<>>
    BY CurrentKept
<1>2. CASE Upsert(s)
    BY <1>1, <1>2 DEF Upsert, Insert
<1>3. CASE pc[s] \notin {"take", "upsert"}
    BY <1>1, <1>3, DbGrows DEF UpsertDone
<1> QED
    BY <1>1, <1>2, <1>3, CallMoves DEF Count, AfterUpdate, Notify, At

\* The VAA of a consumer past its upsert is processed once its script has run.
LEMMA NotifyProcesses ==
    ASSUME IInv, TypeOK', [Next]_vars, NEW s \in Replicas, Notify(s)
    PROVE  Processed(Current(s))'
<1> USE DEF IInv
<1>1. batch[s] # <<>> /\ pc[s] = "notify" /\ pc'[s] = "ack"
    BY DEF Notify, At, Goto, TypeOK, WorkTypeOK
<1>2. Current(s)' = Current(s)
    BY <1>1, CurrentKept
<1>3. /\ Current(s) \in Vaas
      /\ EmitterOf(Current(s)) \in Emitters
      /\ Current(s).seq \in Nat
    BY <1>1, CurrentType
<1>4. Current(s).seq <= lastSeq'[EmitterOf(Current(s))]
    BY <1>3 DEF Notify, RecordSequence, TypeOK, DbTypeOK
<1>5. Current(s) \in stored'
    BY <1>1, DbGrows DEF UpsertDone
<1> QED
    BY <1>2, <1>4, <1>5 DEF Processed, EmitterOf

LEMMA NotifyDoneStep ==
    ASSUME IInv, TypeOK', [Next]_vars
    PROVE  NotifyDone'
<1> SUFFICES ASSUME NEW s \in Replicas, At(s, "ack")' PROVE Processed(Current(s))'
    BY DEF NotifyDone
<1> USE DEF IInv
<1>1. pc'[s] = "ack" /\ Current(s)' = Current(s) /\ batch[s] # <<>>
    BY CurrentKept DEF At
<1>2. CASE pc[s] = "ack"
    <2>1. Current(s) \in Vaas /\ Processed(Current(s))
        BY <1>1, <1>2, CurrentType DEF NotifyDone, At
    <2> QED
        BY <2>1, <1>1, ProcessedKept DEF Processed, EmitterOf
<1>3. CASE Notify(s)
    BY <1>3, NotifyProcesses
<1> QED
    BY <1>1, <1>2, <1>3, CallMoves

LEMMA NoLossStep ==
    ASSUME IInv, TypeOK', [Next]_vars
    PROVE  NoLoss'
<1> SUFFICES ASSUME NEW m \in deleted' PROVE Processed(log[m])'
    BY DEF NoLoss
<1> USE DEF IInv
<1>1. m \in Messages /\ Processed(log[m])
    <2>1. CASE m \in deleted
        BY <2>1 DEF NoLoss, TypeOK, QueueTypeOK
    <2>2. ASSUME NEW r \in Replicas, Done(r), m = CurrentMsg(r)
          PROVE  m \in Messages /\ Processed(log[m])
        BY <2>2, CurrentType DEF NotifyDone, Done, At, Current
    <2> QED
        BY <2>1, <2>2, DeletedBy
<1>2. log'[m] = log[m] /\ log[m] \in Vaas
    BY <1>1, LogGrows DEF TypeOK, QueueTypeOK, Messages
<1> QED
    BY <1>1, <1>2, ProcessedKept DEF Processed, EmitterOf

LEMMA LastSequenceStoredStep ==
    ASSUME IInv, TypeOK', [Next]_vars
    PROVE  LastSequenceStored'
<1> SUFFICES ASSUME NEW g \in Emitters, lastSeq'[g] # -1
             PROVE  \E v \in stored' : EmitterOf(v) = g /\ v.seq = lastSeq'[g]
    BY DEF LastSequenceStored, EmitterOf
<1> USE DEF IInv
<1>1. CASE lastSeq'[g] = lastSeq[g]
    BY <1>1, DbGrows DEF LastSequenceStored
<1>2. ASSUME NEW r \in Replicas, At(r, "notify"), RecordSequence(r), lastSeq'[g] # lastSeq[g]
      PROVE  \E v \in stored' : EmitterOf(v) = g /\ v.seq = lastSeq'[g]
    <2>1. EmitterOf(Current(r)) = g /\ Current(r).seq = lastSeq'[g]
        BY <1>2 DEF RecordSequence, TypeOK, DbTypeOK
    <2>2. Current(r) \in stored'
        BY <1>2, DbGrows DEF UpsertDone, At
    <2> QED
        BY <2>1, <2>2
<1> QED
    BY <1>1, <1>2, SequenceBy

\* A consumer that announces next was announcing before, or has just inserted.
LEMMA AnnouncesBy ==
    ASSUME IInv, [Next]_vars, NEW s \in Replicas, Announces(s)'
    PROVE  /\ Current(s)' = Current(s)
           /\ batch[s] # <<>>
           /\ \/ Announces(s) /\ Current(s) \in stored
              \/ Upsert(s) /\ Current(s) \notin stored
<1> USE DEF IInv
<1>1. pc'[s] \in {"count", "publish"}
    BY DEF Announces, At
<1>2. Current(s)' = Current(s) /\ batch[s] # <<>>
    BY <1>1, CurrentKept
<1>3. Announces(s) \/ (Upsert(s) /\ IsNewRecord(s))
    BY <1>1, <1>2, CallMoves DEF Announces, At, Count
<1>4. Announces(s) => Current(s) \in stored
    BY DEF Announces, At, UpsertDone
<1> QED
    BY <1>2, <1>3, <1>4 DEF IsNewRecord

LEMMA OneAnnouncerStep ==
    ASSUME IInv, TypeOK', [Next]_vars
    PROVE  OneAnnouncer'
<1> SUFFICES ASSUME NEW r \in Replicas, NEW s \in Replicas, Announces(r)', Announces(s)',
                    Current(r)' = Current(s)'
             PROVE  r = s
    BY DEF OneAnnouncer
<1> USE DEF IInv
<1>1. Current(r) = Current(s)
    BY AnnouncesBy
<1>2. CASE Announces(r) /\ Announces(s)
    BY <1>1, <1>2 DEF OneAnnouncer
<1>3. CASE Upsert(r) /\ Upsert(s)
    \* Two upserts in one step are the same step: each moves only its consumer.
    <2>1. pc[r] = "upsert" /\ pc'[r] # "upsert"
        BY <1>3 DEF Upsert, At, Goto, TypeOK, WorkTypeOK
    <2> QED
        BY <1>3, <2>1, OthersStay DEF Work
<1> QED
    BY <1>1, <1>2, <1>3, AnnouncesBy

LEMMA NotAnnouncedStep ==
    ASSUME IInv, TypeOK', [Next]_vars
    PROVE  NotAnnounced'
<1> SUFFICES ASSUME NEW s \in Replicas, Announces(s)' PROVE events'[Current(s)'] = 0
    BY DEF NotAnnounced
<1> USE DEF IInv
<1>1. Current(s)' = Current(s) /\ Current(s) \in Vaas /\ batch[s] # <<>>
    BY AnnouncesBy, CurrentType
<1>2. events[Current(s)] = 0
    <2>1. CASE Announces(s)
        BY <2>1 DEF NotAnnounced
    <2>2. CASE Current(s) \notin stored
        <3>1. events[Current(s)] \in Nat /\ events[Current(s)] <= 1 /\ events[Current(s)] # 1
            BY <1>1, <2>2 DEF AnnouncedOnce, TypeOK, DbTypeOK
        <3> QED
            BY <3>1
    <2> QED
        BY <2>1, <2>2, AnnouncesBy
<1>3. CASE events' = events
    BY <1>1, <1>2, <1>3
<1>4. ASSUME NEW r \in Replicas, At(r, "publish"), Emit(r), pc'[r] \in {"take", "notify"}
      PROVE  events'[Current(s)] = 0
    <2>1. r # s
        BY <1>4 DEF Announces, At
    <2>2. Current(r) \in stored
        BY <1>4 DEF UpsertDone, At
    <2>3. Current(r) # Current(s)
        BY <1>4, <2>1, <2>2, AnnouncesBy DEF OneAnnouncer, Announces
    <2> QED
        BY <1>1, <1>2, <1>4, <2>3 DEF Emit, TypeOK, DbTypeOK
<1> QED
    BY <1>1, <1>3, <1>4, EventsBy

LEMMA AnnouncedOnceStep ==
    ASSUME IInv, TypeOK', [Next]_vars
    PROVE  AnnouncedOnce'
<1> SUFFICES ASSUME NEW v \in Vaas
             PROVE  events'[v] <= 1 /\ (events'[v] = 1 => v \in stored')
    BY DEF AnnouncedOnce
<1> USE DEF IInv
<1>1. CASE events'[v] = events[v]
    BY <1>1, DbGrows DEF AnnouncedOnce
<1>2. ASSUME NEW r \in Replicas, At(r, "publish"), Emit(r), events'[v] # events[v]
      PROVE  events'[v] <= 1 /\ (events'[v] = 1 => v \in stored')
    <2>1. v = Current(r) /\ events'[v] = events[v] + 1
        BY <1>2 DEF Emit, TypeOK, DbTypeOK
    <2>2. events[v] = 0
        BY <1>2, <2>1 DEF NotAnnounced, Announces
    <2>3. v \in stored'
        BY <1>2, <2>1, DbGrows DEF UpsertDone, At
    <2> QED
        BY <2>1, <2>2, <2>3
<1> QED
    BY <1>1, <1>2, EventsBy

LEMMA NextIInv == IInv /\ [Next]_vars => IInv'
<1> SUFFICES ASSUME IInv, [Next]_vars PROVE IInv'
    OBVIOUS
<1>1. TypeOK'
    BY NextTypeOK DEF IInv
<1> QED
    BY <1>1, UpsertDoneStep, NotifyDoneStep, NoLossStep, LastSequenceStoredStep,
       OneAnnouncerStep, NotAnnouncedStep, AnnouncedOnceStep DEF IInv

LEMMA Invariance == Spec => []IInv
BY InitIInv, NextIInv, PTL DEF Spec

\* A message leaves the queue only when its VAA is stored and folded into the
\* last sequence: Done comes after UpsertVaa and Notify have succeeded at the
\* replica that deletes, whatever crashes, expires or fails elsewhere.
THEOREM NothingLost == Spec => []NoLoss
<1>1. IInv => NoLoss
    BY DEF IInv
<1> QED
    BY <1>1, Invariance, PTL

\* isNewRecord holds for one upsert of a VAA, so one replica announces it once.
THEOREM AnnouncedAtMostOnce == Spec => []AnnouncedOnce
<1>1. IInv => AnnouncedOnce
    BY DEF IInv
<1> QED
    BY <1>1, Invariance, PTL

\* Redis never holds a sequence whose VAA is not in the vaas collection.
THEOREM LastSequenceBacked == Spec => []LastSequenceStored
<1>1. IInv => LastSequenceStored
    BY DEF IInv
<1> QED
    BY <1>1, Invariance, PTL
------------------------------------------------------------------------------
(* The counts and the announcements that follow an insert.                  *)

Counters == {r \in Replicas : At(r, "count")}

CountInv ==
    /\ IsFiniteSet(stored) /\ IsFiniteSet(Counters)
    /\ CountsInserts

\* Of the steps only these touch a count, an insert or a consumer about to count.
Unmoved ==
    /\ count' = count /\ stored' = stored
    /\ Counters' = Counters

LEMMA CountMoves ==
    ASSUME TypeOK, [Next]_vars
    PROVE  \/ Unmoved
           \/ \E r \in Replicas : Upsert(r) /\ IsNewRecord(r)
           \/ \E r \in Replicas : Count(r)
           \/ /\ faults' # 0 /\ count' = count /\ Counters' \subseteq Counters
              /\ stored' = stored \/ \E v \in Vaas : stored' = stored \union {v}
<1>1. CASE UNCHANGED vars \/ Mail
    <2>1. UNCHANGED <<pc, count, stored>>
        BY <1>1, MailStays DEF dbVars
    <2>2. \A s \in Replicas : At(s, "count")' <=> At(s, "count")
        BY <1>1, <2>1, MailStays DEF At, TypeOK, WorkTypeOK
    <2> QED
        BY <2>1, <2>2 DEF Unmoved, Counters
<1>2. ASSUME NEW r \in Replicas, Work(r) \/ Fail(r)
      PROVE  Counters' \ {r} = Counters \ {r}
    BY <1>2, OthersStay DEF Counters, At
<1>3. ASSUME NEW r \in Replicas, Take(r) \/ AfterUpdate(r) \/ Notify(r) \/ Done(r)
      PROVE  Unmoved
    <2>1. r \notin Counters /\ r \notin Counters' /\ count' = count /\ stored' = stored
        BY <1>3 DEF Take, AfterUpdate, Notify, Done, Goto, Finish, Counters, At, dbVars,
           TypeOK, WorkTypeOK
    <2> QED
        BY <1>2, <1>3, <2>1 DEF Unmoved, Work
<1>4. ASSUME NEW r \in Replicas, Upsert(r), ~IsNewRecord(r) PROVE Unmoved
    <2>1. r \notin Counters /\ r \notin Counters' /\ count' = count /\ stored' = stored
        BY <1>4 DEF Upsert, Goto, Counters, At, Insert, IsNewRecord, TypeOK, WorkTypeOK
    <2> QED
        BY <1>2, <1>4, <2>1 DEF Unmoved, Work
<1>5. ASSUME NEW r \in Replicas, Fail(r)
      PROVE  /\ faults' # 0 /\ count' = count /\ Counters' \subseteq Counters
             /\ stored' = stored \/ \E v \in Vaas : stored' = stored \union {v}
    <2>1. faults' # 0 /\ count' = count
        BY <1>5 DEF Fail, UpsertFails, AfterUpdateFails, NotifyFails, Crash, Fails, Fault,
           dbVars, TypeOK
    <2>2. r \notin Counters'
        BY <1>5 DEF Fail, UpsertFails, AfterUpdateFails, NotifyFails, Crash, Fails, Finish,
           Counters, At, TypeOK, WorkTypeOK
    <2>3. stored' = stored \/ (stored' = stored \union {Current(r)} /\ Current(r) \in Vaas)
        <3>1. CASE UpsertFails(r)
            BY <3>1, CurrentType DEF UpsertFails, Insert, At
        <3>2. ASSUME AfterUpdateFails(r) \/ NotifyFails(r) \/ Crash(r) PROVE stored' = stored
            BY <3>2 DEF AfterUpdateFails, NotifyFails, Crash, dbVars
        <3> QED
            BY <1>5, <3>1, <3>2 DEF Fail
    <2> QED
        BY <1>2, <1>5, <2>1, <2>2, <2>3
<1> QED
    BY <1>1, <1>3, <1>4, <1>5, StepKinds DEF Work

\* A consumer about to count before and after a step has the same VAA.
LEMMA CountingKept ==
    ASSUME TypeOK, [Next]_vars, NEW c, NEW r \in Counters \intersect Counters'
    PROVE  r \in Counting(c)' <=> r \in Counting(c)
<1>1. r \in Replicas /\ At(r, "count") /\ At(r, "count")'
    BY DEF Counters
<1>2. Current(r)' = Current(r)
    BY <1>1, CurrentKept DEF At
<1> QED
    BY <1>1, <1>2 DEF Counting

LEMMA CountingIn ==
    ASSUME NEW c
    PROVE  Counting(c) \subseteq Counters /\ StoredOf(c) \subseteq stored
BY DEF Counting, Counters, StoredOf

\* What the counts say about one chain.
Tallied(c) ==
    /\ count[c] + Cardinality(Counting(c)) <= Cardinality(StoredOf(c))
    /\ faults = 0 => count[c] + Cardinality(Counting(c)) = Cardinality(StoredOf(c))

LEMMA TalliedSame ==
    ASSUME NEW c, Tallied(c), faults' = 0 => faults = 0, count'[c] = count[c],
           Counting(c)' = Counting(c), StoredOf(c)' = StoredOf(c)
    PROVE  Tallied(c)'
BY DEF Tallied

LEMMA TallyUpsert ==
    ASSUME TypeOK, [Next]_vars, CountInv, NEW c \in Chains, Tallied(c),
           NEW r \in Replicas, Upsert(r), IsNewRecord(r)
    PROVE  Tallied(c)'
<1>1. /\ batch[r] # <<>> /\ pc[r] = "upsert" /\ pc'[r] = "count" /\ batch' = batch
      /\ stored' = stored \union {Current(r)} /\ Current(r) \notin stored
      /\ count' = count /\ faults' = faults
    BY DEF Upsert, Insert, IsNewRecord, At, Goto, TypeOK, WorkTypeOK
<1>2. Current(r) \in Vaas /\ Current(r)' = Current(r)
    BY <1>1, CurrentType, CurrentKept
<1>3. r \notin Counters /\ r \in Counters' /\ Counters' \ {r} = Counters
    BY <1>1, OthersStay DEF Counters, At, Work
<1>4. IsFiniteSet(Counting(c)) /\ IsFiniteSet(StoredOf(c))
    BY CountingIn, FS_Subset DEF CountInv
<1>5. count[c] \in Nat /\ Cardinality(Counting(c)) \in Nat /\ Cardinality(StoredOf(c)) \in Nat
    BY <1>4, FS_CardinalityType DEF TypeOK, DbTypeOK
<1>6. \A s : s # r => (s \in Counting(c)' <=> s \in Counting(c))
    <2> SUFFICES ASSUME NEW s, s # r PROVE s \in Counting(c)' <=> s \in Counting(c)
        OBVIOUS
    <2>1. CASE s \in Counters
        BY <1>3, <2>1, CountingKept
    <2>2. CASE s \notin Counters
        BY <1>3, <2>2 DEF Counting, Counters
    <2> QED
        BY <2>1, <2>2
<1>7. r \in Counting(c)' <=> Current(r).chain = c
    BY <1>1, <1>2 DEF Counting, At
<1>8. r \notin Counting(c)
    BY <1>3, CountingIn
<1>9. CASE Current(r).chain # c
    <2>1. Counting(c)' = Counting(c)
        BY <1>6, <1>7, <1>8, <1>9
    <2>2. StoredOf(c)' = StoredOf(c)
        BY <1>1, <1>9 DEF StoredOf
    <2> QED
        BY <1>1, <2>1, <2>2, TalliedSame
<1>10. CASE Current(r).chain = c
    <2>1. Counting(c)' = Counting(c) \union {r}
        BY <1>6, <1>7, <1>10
    <2>2. StoredOf(c)' = StoredOf(c) \union {Current(r)} /\ Current(r) \notin StoredOf(c)
        BY <1>1, <1>10 DEF StoredOf
    <2>3. Cardinality(Counting(c)') = Cardinality(Counting(c)) + 1
        BY <1>4, <1>8, <2>1, FS_AddElement
    <2>4. Cardinality(StoredOf(c)') = Cardinality(StoredOf(c)) + 1
        BY <1>4, <2>2, FS_AddElement
    <2> QED
        BY <1>1, <1>5, <2>3, <2>4 DEF Tallied
<1> QED
    BY <1>9, <1>10

LEMMA TallyCount ==
    ASSUME TypeOK, [Next]_vars, CountInv, NEW c \in Chains, Tallied(c),
           NEW r \in Replicas, Count(r)
    PROVE  Tallied(c)' /\ Counters' \subseteq Counters
<1>1. /\ batch[r] # <<>> /\ pc[r] = "count" /\ pc'[r] = "publish" /\ batch' = batch
      /\ stored' = stored
      /\ \/ count' = [count EXCEPT ![Current(r).chain] = @ + 1] /\ faults' = faults
         \/ count' = count /\ faults' # 0
    BY DEF Count, At, Goto, Fault, TypeOK, WorkTypeOK
<1>2. Current(r).chain \in Chains
    BY <1>1, CurrentType
<1>3. r \in Counters /\ Counters' = Counters \ {r}
    BY <1>1, OthersStay DEF Counters, At, Work
<1>4. IsFiniteSet(Counting(c)) /\ StoredOf(c)' = StoredOf(c) /\ IsFiniteSet(StoredOf(c))
    BY <1>1, CountingIn, FS_Subset DEF CountInv, StoredOf
<1>5. /\ count[c] \in Nat /\ count[Current(r).chain] \in Nat
      /\ Cardinality(Counting(c)) \in Nat /\ Cardinality(StoredOf(c)) \in Nat
    BY <1>2, <1>4, FS_CardinalityType DEF TypeOK, DbTypeOK
<1>6. Counting(c)' = Counting(c) \ {r}
    <2>1. ASSUME NEW s PROVE s \in Counting(c)' <=> s \in Counting(c) /\ s # r
        <3>1. CASE s \in Counters /\ s # r
            BY <1>3, <3>1, CountingKept
        <3>2. CASE ~(s \in Counters /\ s # r)
            BY <1>3, <3>2 DEF Counting, Counters
        <3> QED
            BY <3>1, <3>2
    <2> QED
        BY <2>1
<1>7. r \in Counting(c) <=> Current(r).chain = c
    BY <1>1 DEF Counting, At
<1>8. CASE Current(r).chain # c
    <2>1. Counting(c)' = Counting(c)
        BY <1>6, <1>7, <1>8
    <2>2. count'[c] = count[c]
        BY <1>1, <1>8 DEF TypeOK, DbTypeOK
    <2>3. faults' = 0 => faults = 0
        BY <1>1
    <2> QED
        BY <1>3, <1>4, <2>1, <2>2, <2>3, TalliedSame
<1>9. CASE Current(r).chain = c
    <2>1. Cardinality(Counting(c)') = Cardinality(Counting(c)) - 1
        <3>1. r \in Counting(c)
            BY <1>7, <1>9
        <3> QED
            BY <1>4, <1>6, <3>1, FS_RemoveElement, Zenon
    <2>2. \/ count'[c] = count[c] + 1 /\ faults' = faults
          \/ count'[c] = count[c] /\ faults' # 0
        BY <1>1, <1>9 DEF TypeOK, DbTypeOK
    <2> QED
        BY <1>3, <1>4, <1>5, <2>1, <2>2 DEF Tallied
<1> QED
    BY <1>8, <1>9

LEMMA TallyFault ==
    ASSUME TypeOK, [Next]_vars, CountInv, IsFiniteSet(stored)', NEW c \in Chains, Tallied(c),
           faults' # 0, count' = count, Counters' \subseteq Counters, stored \subseteq stored'
    PROVE  Tallied(c)'
<1>1. Counting(c)' \subseteq Counting(c)
    <2> SUFFICES ASSUME NEW s \in Counting(c)' PROVE s \in Counting(c)
        OBVIOUS
    <2>1. s \in Counters'
        BY DEF Counting, Counters
    <2> QED
        BY <2>1, CountingKept
<1>2. StoredOf(c) \subseteq StoredOf(c)' /\ StoredOf(c)' \subseteq stored'
    BY DEF StoredOf
<1>3. IsFiniteSet(Counting(c)) /\ IsFiniteSet(StoredOf(c)')
    BY <1>2, CountingIn, FS_Subset DEF CountInv
<1>4. /\ IsFiniteSet(Counting(c)') /\ Cardinality(Counting(c)') <= Cardinality(Counting(c))
      /\ IsFiniteSet(StoredOf(c)) /\ Cardinality(StoredOf(c)) <= Cardinality(StoredOf(c)')
    BY <1>1, <1>2, <1>3, FS_Subset
<1>5. /\ Cardinality(Counting(c)) \in Nat /\ Cardinality(Counting(c)') \in Nat
      /\ Cardinality(StoredOf(c)) \in Nat /\ Cardinality(StoredOf(c)') \in Nat
      /\ count[c] \in Nat
    BY <1>3, <1>4, FS_CardinalityType DEF TypeOK, DbTypeOK
<1> QED
    BY <1>4, <1>5 DEF Tallied

\* A fault is never undone.
LEMMA FaultsStay == ASSUME TypeOK, [Next]_vars, faults' = 0 PROVE
    faults = 0 /\ \A r \in Replicas : ~Fail(r)
<1>1. CASE UNCHANGED vars
    BY <1>1 DEF vars, Fail, UpsertFails, AfterUpdateFails, NotifyFails, Crash, Fails, Fault, TypeOK
<1>2. CASE Mail
    BY <1>2 DEF Mail, Publish, PublishFails, ForgetSeen, ForgetWindow, VisibilityTimeout,
       Receive, BatchExpires, Fault, TypeOK, Fail, UpsertFails, AfterUpdateFails, NotifyFails,
       Crash, Fails
<1>3. ASSUME NEW r \in Replicas, Work(r) PROVE faults = 0
    BY <1>3 DEF Work, Take, Upsert, Count, AfterUpdate, Notify, Done, Fault, TypeOK
<1>4. ASSUME NEW r \in Replicas, Fail(r) PROVE FALSE
    BY <1>4 DEF Fail, UpsertFails, AfterUpdateFails, NotifyFails, Crash, Fails, Fault, TypeOK
<1> QED
    BY <1>1, <1>2, <1>3, <1>4, StepKinds

\* As long as nothing has failed, a stored VAA is announced or about to be.
AllAnnounced == faults = 0 => \A v \in stored : events[v] = 1 \/ Announcing(v)

LEMMA AllAnnouncedStep ==
    ASSUME IInv, IInv', [Next]_vars, AllAnnounced
    PROVE  AllAnnounced'
<1> USE DEF IInv
<1> SUFFICES ASSUME faults' = 0, NEW v \in stored' PROVE events'[v] = 1 \/ Announcing(v)'
    BY DEF AllAnnounced
<1>1. faults = 0 /\ \A r \in Replicas : ~Fail(r)
    BY FaultsStay
<1>2. v \in Vaas /\ events[v] \in Nat /\ events'[v] \in Nat
    BY DEF TypeOK, DbTypeOK
<1>3. CASE v \notin stored
    <2>1. PICK r \in Replicas : Upsert(r) /\ v = Current(r)
        BY <1>1, <1>3, StoredBy DEF Insert, Fail
    <2>2. At(r, "count")' /\ Current(r)' = v
        <3>1. pc'[r] = "count" /\ batch'[r] = batch[r] /\ batch[r] # <<>>
            BY <1>3, <2>1 DEF Upsert, IsNewRecord, Goto, At, TypeOK, WorkTypeOK
        <3> QED
            BY <2>1, <3>1, CurrentKept DEF At
    <2> QED
        BY <2>2 DEF Announcing
<1>4. ASSUME events[v] = 1 PROVE events'[v] = 1
    <2>1. ASSUME NEW r \in Replicas, At(r, "publish"), Emit(r) PROVE events'[v] = 1
        <3>1. events[Current(r)] = 0
            BY <2>1 DEF NotAnnounced, Announces
        <3> QED
            BY <1>2, <1>4, <2>1, <3>1 DEF Emit, TypeOK, DbTypeOK
    <2> QED
        BY <1>4, <2>1, EventsBy
<1>5. ASSUME NEW r \in Replicas, Announces(r), Current(r) = v
      PROVE  events'[v] = 1 \/ Announcing(v)'
    <2>1. CASE AfterUpdate(r)
        <3>1. events[Current(r)] = 0
            BY <1>5 DEF NotAnnounced
        <3> QED
            BY <1>2, <1>5, <2>1, <3>1 DEF AfterUpdate, Emit, TypeOK, DbTypeOK
    <2>2. CASE ~AfterUpdate(r)
        <3>1. pc'[r] \in {"count", "publish"}
            <4>1. batch[r] # <<>> /\ pc[r] \in {"count", "publish"}
                BY <1>5 DEF Announces, At
            <4>2. CASE UNCHANGED vars \/ Mail
                BY <4>1, <4>2, MailStays
            <4>3. ASSUME NEW s \in Replicas, s # r, Work(s) PROVE pc'[r] = pc[r]
                BY <4>3, OthersStay
            <4>4. CASE Work(r)
                BY <2>2, <4>1, <4>4 DEF Work, Take, Upsert, Count, Notify, Done, Goto, At,
                   TypeOK, WorkTypeOK
            <4> QED
                BY <1>1, <4>1, <4>2, <4>3, <4>4, StepKinds
        <3>2. batch'[r] = batch[r] /\ batch[r] # <<>> /\ Current(r)' = Current(r)
            BY <3>1, CurrentKept
        <3> QED
            BY <1>5, <3>1, <3>2 DEF Announcing, At
    <2> QED
        BY <2>1, <2>2
<1>6. CASE v \in stored
    BY <1>1, <1>4, <1>5, <1>6 DEF AllAnnounced, Announcing, Announces
<1> QED
    BY <1>3, <1>6

LEMMA CountInvStep ==
    ASSUME IInv, IInv', [Next]_vars, CountInv
    PROVE  CountInv'
<1> USE DEF IInv
<1>1. AllAnnounced'
    BY AllAnnouncedStep DEF CountInv, CountsInserts, AllAnnounced
<1>2. \A c \in Chains : Tallied(c)
    BY DEF CountInv, CountsInserts, Tallied
<1>3. IsFiniteSet(stored)' /\ IsFiniteSet(Counters)' /\ \A c \in Chains : Tallied(c)'
    <2>1. CASE Unmoved
        <3>1. ASSUME NEW c \in Chains PROVE Tallied(c)'
            <4>1. Counting(c)' = Counting(c)
                <5>1. Counting(c)' \subseteq Counters' /\ Counting(c) \subseteq Counters
                    BY DEF Counting, Counters
                <5>2. ASSUME NEW s PROVE s \in Counting(c)' <=> s \in Counting(c)
                    <6>1. CASE s \in Counters
                        <7>1. s \in Counters \intersect Counters'
                            BY <2>1, <6>1 DEF Unmoved
                        <7> QED
                            BY <7>1, CountingKept
                    <6>2. CASE s \notin Counters
                        BY <2>1, <5>1, <6>2 DEF Unmoved
                    <6> QED
                        BY <6>1, <6>2
                <5> QED
                    BY <5>2
            <4>2. StoredOf(c)' = StoredOf(c) /\ count'[c] = count[c]
                BY <2>1 DEF Unmoved, StoredOf
            <4> QED
                BY <1>2, <4>1, <4>2, FaultsStay, TalliedSame
        <3> QED
            BY <2>1, <3>1 DEF Unmoved, CountInv
    <2>2. ASSUME NEW r \in Replicas, Upsert(r), IsNewRecord(r)
          PROVE  IsFiniteSet(stored)' /\ IsFiniteSet(Counters)' /\ \A c \in Chains : Tallied(c)'
        <3>1. stored' = stored \union {Current(r)}
            BY <2>2 DEF Upsert, Insert
        <3>2. Counters' \ {r} \subseteq Counters
            BY <2>2, OthersStay DEF Counters, At, Work
        <3>3. IsFiniteSet(stored) /\ IsFiniteSet(Counters \union {r}) /\ Counters' \subseteq Counters \union {r}
            BY <3>2, FS_AddElement DEF CountInv
        <3>4. IsFiniteSet(stored') /\ IsFiniteSet(Counters')
            BY <3>1, <3>3, FS_AddElement, FS_Subset
        <3> QED
            BY <1>2, <2>2, <3>4, TallyUpsert
    <2>3. ASSUME NEW r \in Replicas, Count(r)
          PROVE  IsFiniteSet(stored)' /\ IsFiniteSet(Counters)' /\ \A c \in Chains : Tallied(c)'
        <3>1. stored' = stored /\ Current(r).chain \in Chains
            BY <2>3, CurrentType DEF Count, At
        <3>2. \A c \in Chains : Tallied(c)' /\ Counters' \subseteq Counters
            BY <1>2, <2>3, TallyCount
        <3> QED
            BY <3>1, <3>2, FS_Subset DEF CountInv
    <2>4. ASSUME faults' # 0, count' = count, Counters' \subseteq Counters,
                 stored' = stored \/ \E v \in Vaas : stored' = stored \union {v}
          PROVE  IsFiniteSet(stored)' /\ IsFiniteSet(Counters)' /\ \A c \in Chains : Tallied(c)'
        <3>1. IsFiniteSet(stored') /\ stored \subseteq stored'
            BY <2>4, FS_AddElement DEF CountInv
        <3>2. IsFiniteSet(Counters')
            BY <2>4, FS_Subset DEF CountInv
        <3> QED
            BY <1>2, <2>4, <3>1, <3>2, TallyFault
    <2> QED
        BY <2>1, <2>2, <2>3, <2>4, CountMoves
<1> QED
    BY <1>1, <1>3 DEF CountInv, CountsInserts, AllAnnounced, Tallied

LEMMA InitCountInv == Init => CountInv
<1> SUFFICES ASSUME Init PROVE CountInv
    OBVIOUS
<1>1. stored = {} /\ Counters = {} /\ \A c \in Chains : count[c] = 0
    BY DEF Init, Counters, At
<1>2. \A c \in Chains : Counting(c) = {} /\ StoredOf(c) = {}
    BY <1>1, CountingIn
<1>3. IsFiniteSet({}) /\ Cardinality({}) = 0
    BY FS_EmptySet
<1>4. \A c \in Chains : Tallied(c)
    <2> SUFFICES ASSUME NEW c \in Chains PROVE Tallied(c)
        OBVIOUS
    <2>1. Cardinality(Counting(c)) = 0 /\ Cardinality(StoredOf(c)) = 0
        BY <1>2, <1>3, Zenon
    <2> QED
        BY <1>1, <2>1 DEF Tallied
<1>5. IsFiniteSet(stored) /\ IsFiniteSet(Counters)
    BY <1>1, <1>3
<1>6. \A v \in stored : events[v] = 1 \/ Announcing(v)
    BY <1>1
<1> QED
    BY <1>4, <1>5, <1>6 DEF CountInv, CountsInserts, Tallied

\* vaaCounts never runs ahead of the vaas collection, and without failures it
\* is the collection but for the inserts just being counted, each announced or
\* about to be (isNewRecord, updateVAACount and notifyFunc of UpsertVaa), for
\* any number of replicas and copies.
THEOREM CountsFollowInserts == Spec => []CountsInserts
<1>1. Init => IInv /\ CountInv
    BY InitIInv, InitCountInv
<1>2. (IInv /\ CountInv) /\ [Next]_vars => (IInv /\ CountInv)'
    BY NextIInv, CountInvStep
<1>3. CountInv => CountsInserts
    BY DEF CountInv
<1> QED
    BY <1>1, <1>2, <1>3, PTL DEF Spec
------------------------------------------------------------------------------
(* The FIFO groups, as long as nothing has failed.                          *)

SameEmitter(m, n) == EmitterOf(log[m]) = EmitterOf(log[n])

\* A message a replica holds is in flight for it and for no other, its batch
\* keeps the order of the queue in each emitter and leaves out none before.
NoExpiry == \A r \in Replicas : ~expired[r]
InFlight == \A r \in Replicas : \A m \in Held(r) : holder[m] = r /\ m \notin deleted
BatchInOrder ==
    \A r \in Replicas : \A i, j \in DOMAIN batch[r] : i < j =>
        \A m, n \in Messages : m = batch[r][i] /\ n = batch[r][j] =>
            m # n /\ (SameEmitter(m, n) => m < n)
NoneBefore ==
    \A r \in Replicas : \A n \in Held(r), m \in Messages :
        m < n /\ SameEmitter(m, n) => m \in deleted \union Held(r)
OneReplica ==
    \A r, s \in Replicas : \A m \in Held(r), n \in Held(s) : SameEmitter(m, n) => r = s
AckedInOrder ==
    \A n \in deleted, m \in Messages : m < n /\ SameEmitter(m, n) => m \in deleted

InOrder == NoExpiry /\ InFlight /\ BatchInOrder /\ NoneBefore /\ OneReplica /\ AckedInOrder
OrderInv == faults = 0 => InOrder

\* Who moves holders, batches and the deadline when no fault happens.
LEMMA QuietSteps ==
    ASSUME TypeOK, [Next]_vars, faults' = 0, InOrder
    PROVE  \/ UNCHANGED <<holder, batch, expired, deleted>>
           \/ UNCHANGED <<batch, expired, deleted>> /\ \E v \in Vaas : Send(v)
           \/ \E m \in Messages : VisibilityTimeout(m) /\ m \notin Held(holder[m])
           \/ \E r \in Replicas : Receive(r)
           \/ \E r \in Replicas : Done(r) /\ Delete(CurrentMsg(r))
<1>0. faults = 0 /\ \A r \in Replicas : ~Fail(r)
    BY FaultsStay
<1>1. CASE UNCHANGED vars
    BY <1>1 DEF vars
<1>2. ASSUME NEW r \in Replicas, NEW v \in Vaas, Publish(r, v) \/ PublishFails(r, v) \/ ForgetSeen(r, v)
      PROVE  \/ UNCHANGED <<holder, batch, expired, deleted>>
             \/ UNCHANGED <<batch, expired, deleted>> /\ Send(v)
    BY <1>2 DEF Publish, PublishFails, ForgetSeen, workVars, sqsVars
<1>3. ASSUME NEW v \in Vaas, ForgetWindow(v) PROVE UNCHANGED <<holder, batch, expired, deleted>>
    BY <1>3 DEF ForgetWindow, workVars
<1>4. ASSUME NEW m \in Messages, VisibilityTimeout(m) PROVE m \notin Held(holder[m])
    BY <1>0, <1>4 DEF VisibilityTimeout, Fault, TypeOK
<1>5. ASSUME NEW r \in Replicas, BatchExpires(r) PROVE FALSE
    <2>1. batch[r] # <<>> /\ \A m \in Messages : holder[m] # r
        BY <1>5 DEF BatchExpires
    <2>2. Head(batch[r]) \in Held(r) /\ Head(batch[r]) \in Messages
        BY <2>1 DEF Held, TypeOK, WorkTypeOK
    <2> QED
        BY <2>1, <2>2 DEF InOrder, InFlight
<1>6. ASSUME NEW r \in Replicas, Work(r), ~Done(r) PROVE UNCHANGED <<holder, batch, expired, deleted>>
    <2>1. ASSUME Take(r) PROVE UNCHANGED <<holder, batch, expired, deleted>>
        BY <2>1 DEF Take, Goto, sqsVars, InOrder, NoExpiry
    <2>2. ASSUME Upsert(r) \/ Count(r) \/ AfterUpdate(r) \/ Notify(r)
          PROVE  UNCHANGED <<holder, batch, expired, deleted>>
        BY <2>2 DEF Upsert, Count, AfterUpdate, Notify, Goto, sqsVars
    <2> QED
        BY <1>6, <2>1, <2>2 DEF Work
<1>7. ASSUME NEW r \in Replicas, Done(r) PROVE Delete(CurrentMsg(r))
    <2>1. CurrentMsg(r) \in Held(r)
        BY <1>7 DEF Done, At, CurrentMsg, Held, TypeOK, WorkTypeOK
    <2>2. holder[CurrentMsg(r)] = r
        BY <2>1 DEF InOrder, InFlight
    <2>3. ~Fault
        BY <1>0 DEF Fault
    <2> QED
        BY <1>7, <2>2, <2>3 DEF Done
<1> QED
    BY <1>0, <1>1, <1>2, <1>3, <1>4, <1>5, <1>6, <1>7 DEF Next

LEMMA HeldType == ASSUME TypeOK, NEW r \in Replicas PROVE Held(r) \subseteq Messages
BY DEF Held, TypeOK, WorkTypeOK

LEMMA EmitterKept ==
    ASSUME TypeOK, [Next]_vars, NEW m \in Messages, NEW n \in Messages
    PROVE  SameEmitter(m, n)' <=> SameEmitter(m, n)
BY LogGrows DEF SameEmitter, EmitterOf

\* Nothing is gained or lost: only new, visible messages come behind the others.
LEMMA InOrderSame ==
    ASSUME TypeOK, TypeOK', [Next]_vars, InOrder, UNCHANGED <<batch, expired, deleted>>,
           \A m \in Messages : holder'[m] = holder[m] \/ \A r \in Replicas : m \notin Held(r)
    PROVE  InOrder'
<1> USE DEF InOrder
<1>1. Messages \subseteq Messages' /\ deleted \subseteq Messages
    BY LogGrows DEF TypeOK, QueueTypeOK
<1>2. \A r \in Replicas : Held(r)' = Held(r) /\ Held(r) \subseteq Messages
    BY HeldType DEF Held
<1>3. \A m \in Messages, n \in Messages' : n \notin Messages => ~(n < m)
    BY <1>1 DEF TypeOK, QueueTypeOK, Messages
<1>4. NoExpiry'
    BY DEF NoExpiry
<1>5. InFlight'
    BY <1>2 DEF InFlight
<1>6. BatchInOrder'
    <2> SUFFICES ASSUME NEW r \in Replicas, NEW i \in DOMAIN batch[r], NEW j \in DOMAIN batch[r], i < j,
                        NEW m \in Messages', NEW n \in Messages', m = batch[r][i], n = batch[r][j]
                 PROVE  m # n /\ (SameEmitter(m, n)' => m < n)
        BY DEF BatchInOrder
    <2>1. m \in Messages /\ n \in Messages
        BY DEF TypeOK, WorkTypeOK
    <2> QED
        BY <2>1, EmitterKept DEF BatchInOrder
<1>7. NoneBefore'
    <2> SUFFICES ASSUME NEW r \in Replicas, NEW n \in Held(r), NEW m \in Messages', m < n, SameEmitter(m, n)'
                 PROVE  m \in deleted \union Held(r)
        BY <1>2 DEF NoneBefore
    <2>1. n \in Messages /\ m \in Messages
        BY <1>2, <1>3
    <2> QED
        BY <2>1, EmitterKept DEF NoneBefore
<1>8. OneReplica'
    <2> SUFFICES ASSUME NEW r \in Replicas, NEW s \in Replicas, NEW m \in Held(r), NEW n \in Held(s),
                        SameEmitter(m, n)'
                 PROVE  r = s
        BY <1>2 DEF OneReplica
    <2>1. n \in Messages /\ m \in Messages
        BY <1>2
    <2> QED
        BY <2>1, EmitterKept DEF OneReplica
<1>9. AckedInOrder'
    <2> SUFFICES ASSUME NEW n \in deleted, NEW m \in Messages', m < n, SameEmitter(m, n)'
                 PROVE  m \in deleted
        BY DEF AckedInOrder
    <2>1. n \in Messages /\ m \in Messages
        BY <1>1, <1>3
    <2> QED
        BY <2>1, EmitterKept DEF AckedInOrder
<1> QED
    BY <1>4, <1>5, <1>6, <1>7, <1>8, <1>9

\* The order of a batch leaves out none of its messages.
LEMMA OrdersOnto ==
    ASSUME TypeOK, NEW S \in Receivable, NEW b \in Orders(S), NEW m \in S
    PROVE  \E i \in DOMAIN b : b[i] = m
<1> DEFINE N == Cardinality(S)
<1>1. S \subseteq Messages /\ IsFiniteSet(1..Len(log)) /\ Messages = 1..Len(log)
    BY OrdersType, FS_Interval DEF TypeOK, QueueTypeOK, Messages
<1>2. IsFiniteSet(S)
    BY <1>1, FS_Subset
<1>3. N \in Nat /\ IsFiniteSet(1..N) /\ Cardinality(1..N) = N
    BY <1>2, FS_CardinalityType, FS_Interval
<1>4. b \in [1..N -> S] /\ \A i, j \in 1..N : i < j => b[i] # b[j]
    BY DEF Orders
<1> HIDE DEF N
<1>5. \A i, j \in 1..N : b[i] = b[j] => i = j
    BY <1>3, <1>4
<1>6. b \in Injection(1..N, S)
    BY <1>4, <1>5 DEF Injection, IsInjective
<1>7. b \in Surjection(1..N, S)
    BY <1>2, <1>3, <1>6, FS_Injection DEF N
<1> QED
    BY <1>4, <1>7 DEF Surjection

\* ReceiveMessage gives r messages of emitters of which nothing is in flight,
\* and of each all that is before.
LEMMA InOrderReceive ==
    ASSUME TypeOK, TypeOK', [Next]_vars, InOrder, NEW r \in Replicas, Receive(r)
    PROVE  InOrder'
<1> USE DEF InOrder
<1>0. PICK S \in Receivable :
            /\ \E b \in Orders(S) : batch' = [batch EXCEPT ![r] = b]
            /\ holder' = [m \in Messages |-> IF m \in S THEN r ELSE holder[m]]
    BY DEF Receive
<1>1. PICK b \in Orders(S) :
            /\ batch' = [batch EXCEPT ![r] = b]
            /\ holder' = [m \in Messages |-> IF m \in S THEN r ELSE holder[m]]
    BY <1>0
<1>2. /\ batch[r] = <<>> /\ expired' = [expired EXCEPT ![r] = FALSE]
      /\ log' = log /\ deleted' = deleted /\ Messages' = Messages
    BY DEF Receive, Messages
<1>3. b \in Seq(Messages) /\ S \subseteq Messages /\ b \in [1..Cardinality(S) -> S]
    BY OrdersType DEF Orders
<1>4. /\ Held(r)' \subseteq S /\ DOMAIN b = 1..Cardinality(S) /\ batch'[r] = b
      /\ \A s \in Replicas : s # r => Held(s)' = Held(s) /\ batch'[s] = batch[s]
    BY <1>1, <1>3 DEF Held, TypeOK, WorkTypeOK
<1>5. \A m, n : SameEmitter(m, n)' <=> SameEmitter(m, n)
    BY <1>2 DEF SameEmitter, EmitterOf
<1>6. \A m \in S : m \in Messages /\ m \notin deleted
    BY <1>3 DEF Receivable, Available, Pending
<1>7. \A s \in Replicas, m \in S : \A n \in Held(s) : ~SameEmitter(m, n)
    <2> SUFFICES ASSUME NEW s \in Replicas, NEW m \in S, NEW n \in Held(s), SameEmitter(m, n) PROVE FALSE
        OBVIOUS
    <2>1. n \in Messages /\ holder[n] = s /\ n \notin deleted
        BY HeldType DEF InFlight
    <2>2. Pending(n) /\ holder[n] # Nobody
        BY <2>1 DEF Pending
    <2>3. ~Blocked(EmitterOf(log[m]))
        BY DEF Receivable, Available, GroupOf
    <2> QED
        BY <2>1, <2>2, <2>3 DEF Blocked, GroupOf, SameEmitter
<1>8. \A s \in Replicas, m \in S : m \notin Held(s)
    BY <1>7 DEF SameEmitter
<1>9. Held(r) = {}
    BY <1>2 DEF Held
<1>10. NoExpiry'
    BY <1>2 DEF NoExpiry, TypeOK, WorkTypeOK
<1>11. InFlight'
    <2> SUFFICES ASSUME NEW s \in Replicas, NEW m \in Held(s)' PROVE holder'[m] = s /\ m \notin deleted
        BY <1>2 DEF InFlight
    <2>1. CASE s = r
        BY <1>1, <1>4, <1>6, <2>1
    <2>2. CASE s # r
        <3>1. m \in Held(s) /\ m \in Messages
            BY <1>4, <2>2, HeldType
        <3> QED
            BY <1>1, <1>8, <3>1 DEF InFlight
    <2> QED
        BY <2>1, <2>2
<1>12. BatchInOrder'
    <2> SUFFICES ASSUME NEW s \in Replicas, NEW i \in DOMAIN batch'[s], NEW j \in DOMAIN batch'[s], i < j,
                        NEW m \in Messages, NEW n \in Messages, m = batch'[s][i], n = batch'[s][j]
                 PROVE  m # n /\ (SameEmitter(m, n) => m < n)
        BY <1>2, <1>5 DEF BatchInOrder
    <2>1. CASE s = r
        <3>1. i \in 1..Cardinality(S) /\ j \in 1..Cardinality(S) /\ m = b[i] /\ n = b[j]
            BY <1>4, <2>1
        <3>2. b[i] # b[j] /\ (GroupOf(log[b[i]]) = GroupOf(log[b[j]]) => b[i] < b[j])
            BY <3>1, Zenon DEF Orders
        <3> QED
            BY <3>1, <3>2 DEF SameEmitter, GroupOf
    <2>2. CASE s # r
        BY <1>4, <2>2 DEF BatchInOrder
    <2> QED
        BY <2>1, <2>2
<1>13. S \subseteq Held(r)'
    <2>1. \A m \in S : \E i \in DOMAIN b : b[i] = m
        BY OrdersOnto
    <2> QED
        BY <1>4, <2>1 DEF Held
<1>14. NoneBefore'
    <2> SUFFICES ASSUME NEW s \in Replicas, NEW n \in Held(s)', NEW m \in Messages, m < n, SameEmitter(m, n)
                 PROVE  m \in deleted \union Held(s)'
        BY <1>2, <1>5 DEF NoneBefore
    <2>1. CASE s = r
        <3>1. n \in S /\ n \in Available /\ n \in Messages
            BY <1>3, <1>4, <2>1 DEF Receivable
        <3>2. CASE m \notin deleted
            <4>1. GroupOf(log[m]) = GroupOf(log[n])
                BY DEF SameEmitter, GroupOf
            <4>2. m \in Available
                BY <3>1, <3>2, <4>1 DEF Available, Pending
            <4>3. m \in S
                BY <3>1, <4>1, <4>2, Zenon DEF Receivable
            <4> QED
                BY <1>13, <2>1, <4>3
        <3> QED
            BY <3>2
    <2>2. CASE s # r
        BY <1>4, <2>2 DEF NoneBefore
    <2> QED
        BY <2>1, <2>2
<1>15. OneReplica'
    <2> SUFFICES ASSUME NEW s \in Replicas, NEW t \in Replicas, NEW m \in Held(s)', NEW n \in Held(t)',
                        SameEmitter(m, n), s # t
                 PROVE  FALSE
        BY <1>5 DEF OneReplica
    <2>1. CASE s # r /\ t # r
        BY <1>4, <2>1 DEF OneReplica
    <2>2. CASE s = r /\ t # r
        BY <1>4, <1>7, <2>2
    <2>3. CASE s # r /\ t = r
        BY <1>4, <1>7, <2>3 DEF SameEmitter
    <2> QED
        BY <2>1, <2>2, <2>3
<1>16. AckedInOrder'
    BY <1>2, <1>5 DEF AckedInOrder
<1> QED
    BY <1>10, <1>11, <1>12, <1>14, <1>15, <1>16

\* DeleteMessage takes the oldest message of its emitter off the queue.
LEMMA InOrderDone ==
    ASSUME TypeOK, TypeOK', [Next]_vars, InOrder, NEW r \in Replicas,
           Done(r), Delete(CurrentMsg(r))
    PROVE  InOrder'
<1> USE DEF InOrder
<1> DEFINE d == CurrentMsg(r)
<1>1. /\ batch[r] # <<>> /\ batch' = [batch EXCEPT ![r] = Tail(@)] /\ UNCHANGED <<expired, log>>
      /\ deleted' = deleted \union {d} /\ holder' = [holder EXCEPT ![d] = Nobody]
    BY DEF Done, At, Finish, Delete
<1>2. /\ batch[r] \in Seq(Messages) /\ d = batch[r][1] /\ Len(batch[r]) \in Nat \ {0}
      /\ d \in Messages
    BY <1>1 DEF CurrentMsg, TypeOK, WorkTypeOK
<1> HIDE DEF d
<1>3. Messages' = Messages /\ \A m, n : SameEmitter(m, n)' <=> SameEmitter(m, n)
    BY <1>1 DEF SameEmitter, EmitterOf, Messages
<1>4. \A s \in Replicas : s # r => Held(s)' = Held(s) /\ batch'[s] = batch[s]
    BY <1>1 DEF Held, TypeOK, WorkTypeOK
<1>5. /\ batch'[r] = Tail(batch[r]) /\ batch'[r] \in Seq(Messages)
      /\ Len(batch'[r]) = Len(batch[r]) - 1
      /\ \A i \in DOMAIN batch'[r] : i + 1 \in DOMAIN batch[r] /\ batch'[r][i] = batch[r][i + 1]
    BY <1>1, <1>2 DEF TypeOK, WorkTypeOK
<1>6. Held(r)' = Held(r) \ {d}
    <2>1. ASSUME NEW m \in Held(r)' PROVE m \in Held(r) \ {d}
        <3>1. PICK i \in DOMAIN batch'[r] : m = batch'[r][i]
            BY DEF Held
        <3>2. i \in Nat \ {0} /\ i + 1 \in DOMAIN batch[r] /\ m = batch[r][i + 1] /\ 1 \in DOMAIN batch[r] /\ 1 < i + 1
            BY <1>2, <1>5, <3>1
        <3>3. m \in Messages /\ m # d
            BY <1>2, <3>2 DEF BatchInOrder
        <3> QED
            BY <3>2, <3>3 DEF Held
    <2>2. ASSUME NEW m \in Held(r) \ {d} PROVE m \in Held(r)'
        <3>1. PICK i \in DOMAIN batch[r] : m = batch[r][i]
            BY <2>2 DEF Held
        <3>2. i # 1
            BY <1>2, <2>2, <3>1
        <3>3. i - 1 \in DOMAIN batch'[r] /\ batch'[r][i - 1] = m
            BY <1>2, <1>5, <3>1, <3>2
        <3> QED
            BY <3>3 DEF Held
    <2> QED
        BY <2>1, <2>2
<1>7. d \in Held(r)
    BY <1>2 DEF Held
<1>8. NoExpiry'
    BY <1>1 DEF NoExpiry
<1>9. \A s \in Replicas : Held(s)' \subseteq Held(s) /\ d \notin Held(s)'
    <2> SUFFICES ASSUME NEW z \in Replicas, z # r PROVE d \notin Held(z)
        BY <1>4, <1>6
    <2> QED
        BY <1>7 DEF OneReplica, SameEmitter
<1>10. InFlight'
    <2> SUFFICES ASSUME NEW s \in Replicas, NEW m \in Held(s)' PROVE holder'[m] = s /\ m \notin deleted'
        BY DEF InFlight
    <2>1. m \in Held(s) /\ m # d /\ m \in Messages
        BY <1>9, HeldType
    <2> QED
        BY <1>1, <2>1 DEF InFlight, TypeOK, QueueTypeOK
<1>11. BatchInOrder'
    <2> SUFFICES ASSUME NEW s \in Replicas, NEW i \in DOMAIN batch'[s], NEW j \in DOMAIN batch'[s], i < j,
                        NEW m \in Messages, NEW n \in Messages, m = batch'[s][i], n = batch'[s][j]
                 PROVE  m # n /\ (SameEmitter(m, n) => m < n)
        BY <1>3 DEF BatchInOrder
    <2>1. CASE s = r
        <3>1. /\ i \in DOMAIN batch'[r] /\ j \in DOMAIN batch'[r]
              /\ m = batch'[r][i] /\ n = batch'[r][j]
            BY <2>1, Zenon
        <3>2. DOMAIN batch'[r] \subseteq Int
            BY <1>5
        <3>3. i \in Int /\ j \in Int
            BY <3>1, <3>2
        <3>4. /\ i + 1 \in DOMAIN batch[r] /\ j + 1 \in DOMAIN batch[r]
              /\ m = batch[r][i + 1] /\ n = batch[r][j + 1]
            BY <1>5, <3>1
        <3>5. i + 1 < j + 1 /\ i + 1 \in Nat /\ j + 1 \in Nat
            BY <1>2, <3>3, <3>4
        <3> QED
            BY <3>4, <3>5 DEF BatchInOrder
    <2>2. CASE s # r
        BY <1>4, <2>2 DEF BatchInOrder
    <2> QED
        BY <2>1, <2>2
<1>12. NoneBefore'
    <2> SUFFICES ASSUME NEW s \in Replicas, NEW n \in Held(s)', NEW m \in Messages, m < n, SameEmitter(m, n)
                 PROVE  m \in deleted' \union Held(s)'
        BY <1>3 DEF NoneBefore
    <2>1. n \in Held(s)
        BY <1>9
    <2>2. m \in deleted \union Held(s)
        BY <2>1 DEF NoneBefore
    <2> QED
        BY <1>1, <1>4, <1>6, <2>2
<1>13. OneReplica'
    <2> SUFFICES ASSUME NEW s \in Replicas, NEW t \in Replicas, NEW m \in Held(s)', NEW n \in Held(t)',
                        SameEmitter(m, n)
                 PROVE  s = t
        BY <1>3 DEF OneReplica
    <2> QED
        BY <1>9 DEF OneReplica
<1>14. AckedInOrder'
    <2> SUFFICES ASSUME NEW n \in deleted', NEW m \in Messages, m < n, SameEmitter(m, n)
                 PROVE  m \in deleted'
        BY <1>3 DEF AckedInOrder
    <2>1. CASE n \in deleted
        BY <1>1, <2>1 DEF AckedInOrder
    <2>2. CASE n = d /\ m \in Held(r)
        <3>1. PICK i \in DOMAIN batch[r] : m = batch[r][i]
            BY <2>2 DEF Held
        <3>2. m # n
            BY <1>2, <2>2 DEF TypeOK, QueueTypeOK, Messages
        <3>3. 1 \in DOMAIN batch[r] /\ 1 < i
            BY <1>2, <2>2, <3>1, <3>2
        <3>4. n < m
            BY <1>2, <2>2, <3>1, <3>3 DEF BatchInOrder, SameEmitter
        <3> QED
            BY <1>2, <2>2, <3>4 DEF TypeOK, QueueTypeOK, Messages
    <2>3. CASE n = d /\ m \notin Held(r)
        BY <1>1, <1>7, <2>3 DEF NoneBefore
    <2> QED
        BY <1>1, <2>1, <2>2, <2>3
<1> QED
    BY <1>8, <1>10, <1>11, <1>12, <1>13, <1>14

LEMMA OrderInvStep ==
    ASSUME TypeOK, TypeOK', [Next]_vars, OrderInv
    PROVE  OrderInv'
<1> SUFFICES ASSUME faults' = 0 PROVE InOrder'
    BY DEF OrderInv
<1>1. InOrder
    BY FaultsStay DEF OrderInv
<1>2. CASE UNCHANGED <<holder, batch, expired, deleted>>
    BY <1>1, <1>2, InOrderSame
<1>3. ASSUME UNCHANGED <<batch, expired, deleted>>, NEW v \in Vaas, Send(v) PROVE InOrder'
    <2>1. holder' = holder \/ holder' = Append(holder, Nobody)
        BY <1>3 DEF Send
    <2>2. holder \in [1..Len(log) -> Replicas \union {Nobody}] /\ Messages = 1..Len(log) /\ Len(log) \in Nat
        BY DEF TypeOK, QueueTypeOK, Messages
    <2>3. holder \in Seq(Replicas \union {Nobody}) /\ Len(holder) = Len(log)
        BY <2>2
    <2>4. \A m \in Messages : holder'[m] = holder[m]
        BY <2>1, <2>2, <2>3
    <2> QED
        BY <1>1, <1>3, <2>4, InOrderSame
<1>4. ASSUME NEW m \in Messages, VisibilityTimeout(m), m \notin Held(holder[m]) PROVE InOrder'
    <2>1. UNCHANGED <<batch, expired, deleted>> /\ holder' = [holder EXCEPT ![m] = Nobody]
        BY <1>4 DEF VisibilityTimeout, workVars
    <2>2. \A r \in Replicas : m \notin Held(r)
        BY <1>1, <1>4 DEF InOrder, InFlight
    <2>3. \A n \in Messages : n # m => holder'[n] = holder[n]
        BY <2>1 DEF TypeOK, QueueTypeOK
    <2> QED
        BY <1>1, <2>1, <2>2, <2>3, InOrderSame
<1> QED
    BY <1>1, <1>2, <1>3, <1>4, InOrderReceive, InOrderDone, QuietSteps

LEMMA InitOrderInv == Init => OrderInv
<1> SUFFICES ASSUME Init PROVE InOrder
    BY DEF OrderInv
<1>1. \A r \in Replicas : Held(r) = {} /\ batch[r] = <<>> /\ ~expired[r]
    BY DEF Init, Held
<1>2. Messages = {} /\ deleted = {}
    BY DEF Init, Messages
<1> QED
    BY <1>1, <1>2 DEF InOrder, NoExpiry, InFlight, BatchInOrder, NoneBefore, OneReplica, AckedInOrder

\* Without failures the FIFO groups keep the VAAs of an emitter in one replica
\* at a time, and they are acked in the order they were published (Publish's
\* message group, GetMessages, Done), for any number of replicas and messages.
THEOREM EmittersInOrder == Spec => []EmitterInOrder
<1>1. Init => TypeOK /\ OrderInv
    BY InitTypeOK, InitOrderInv
<1>2. (TypeOK /\ OrderInv) /\ [Next]_vars => (TypeOK /\ OrderInv)'
    BY NextTypeOK, OrderInvStep
<1>3. OrderInv => EmitterInOrder
    BY DEF OrderInv, InOrder, OneReplica, AckedInOrder, EmitterInOrder, SameEmitter
<1> QED
    BY <1>1, <1>2, <1>3, PTL DEF Spec
------------------------------------------------------------------------------
(* VaaQueue implements VaaLedger.                                           *)

Accepted == {log[m] : m \in Messages}
Settled == {log[m] : m \in deleted}

LEMMA InitLedger == Init => Ledger!LInit
<1> SUFFICES ASSUME Init PROVE Ledger!LInit
    OBVIOUS
<1>1. Accepted = {} /\ Settled = {}
    BY DEF Init, Accepted, Settled, Messages
<1>2. Emitters = Ledger!Emitters
    BY DEF Emitters, EmitterOf, Ledger!Emitters, Ledger!EmitterOf
<1> QED
    BY <1>1, <1>2 DEF Init, Ledger!LInit, Accepted, Settled

\* What a sender adds to the log is accepted; no other step changes the two sets.
LEMMA AcceptedKept ==
    ASSUME TypeOK, log' = log
    PROVE  Accepted' = Accepted
BY DEF Accepted, Messages

LEMMA SettledKept ==
    ASSUME TypeOK, [Next]_vars, deleted' = deleted
    PROVE  Settled' = Settled
BY LogGrows DEF Settled, TypeOK, QueueTypeOK

LEMMA SendAccepts ==
    ASSUME TypeOK, NEW v \in Vaas, Send(v), UNCHANGED deleted
    PROVE  Accepted' = Accepted \/ Accepted' = Accepted \union {v}
<1>1. /\ Messages \subseteq Messages'
      /\ \A m \in Messages : log'[m] = log[m]
      /\ \A m \in Messages' : m \in Messages \/ log'[m] = v
    BY SendGrows
<1>2. Accepted \subseteq Accepted'
    BY <1>1 DEF Accepted
<1>3. Accepted' \subseteq Accepted \union {v}
    BY <1>1 DEF Accepted
<1> QED
    BY <1>2, <1>3

\* The VAA of a message is an accepted one.
LEMMA CurrentAccepted ==
    ASSUME TypeOK, NEW r \in Replicas, batch[r] # <<>>
    PROVE  Current(r) \in Accepted
BY CurrentType DEF Accepted, Current

LEMMA MailStep ==
    ASSUME TypeOK, [Next]_vars, UNCHANGED vars \/ Mail
    PROVE  [Ledger!LNext]_(Ledger!lvars)
<1>1. UNCHANGED <<deleted, stored, events, lastSeq>>
    BY MailStays DEF dbVars
<1>2. Settled' = Settled
    BY <1>1, SettledKept
<1>3. Accepted' = Accepted \/ \E v \in Vaas : Accepted' = Accepted \union {v}
    <2>1. CASE log' = log
        BY <2>1, AcceptedKept
    <2>2. CASE \E v \in Vaas : Send(v)
        BY <2>2, <1>1, SendAccepts
    <2> QED
        BY <2>1, <2>2 DEF Mail, Publish, PublishFails, ForgetSeen, ForgetWindow,
           VisibilityTimeout, Receive, BatchExpires, sqsVars, vars
<1> QED
    BY <1>1, <1>2, <1>3
    DEF Ledger!LNext, Ledger!Accept, Ledger!lvars, Accepted, Settled

\* The consumer's steps leave the log alone; what they do to the databases and
\* to deleted decides the step of the ledger.
LEMMA ConsumerStep ==
    ASSUME IInv, [Next]_vars, NEW r \in Replicas, Work(r) \/ Fail(r)
    PROVE  [Ledger!LNext]_(Ledger!lvars)
<1> DEFINE v == Current(r)
<1> USE DEF IInv
<1>1. log' = log
    BY DEF Work, Take, Upsert, Count, AfterUpdate, Notify, Done,
           Fail, Fails, UpsertFails, AfterUpdateFails, NotifyFails, Crash, sqsVars
<1>2. Accepted' = Accepted
    BY <1>1, AcceptedKept
<1>3. ASSUME UNCHANGED <<deleted, stored, events, lastSeq>>
      PROVE  UNCHANGED Ledger!lvars
    BY <1>2, <1>3, SettledKept DEF Ledger!lvars, Accepted, Settled
<1>4. CASE Upsert(r) \/ (UpsertFails(r) /\ Insert(r))
    <2>1. v \in Vaas /\ v \in Accepted
        BY <1>4, CurrentType, CurrentAccepted DEF Upsert, UpsertFails, At
    <2>2. stored' = stored \union {v} /\ UNCHANGED <<deleted, events, lastSeq>>
        BY <1>4 DEF Upsert, UpsertFails, Fails, Insert, sqsVars
    <2>3. Ledger!Record(v)
        BY <2>1, <2>2, <1>2, SettledKept DEF Ledger!Record, Accepted, Settled
    <2> QED
        BY <2>1, <2>3 DEF Ledger!LNext
<1>5. CASE AfterUpdate(r) \/ (AfterUpdateFails(r) /\ Emit(r))
    <2>1. At(r, "publish")
        BY <1>5 DEF AfterUpdate, AfterUpdateFails
    <2>2. v \in Vaas /\ v \in stored /\ events[v] = 0
        BY <2>1, CurrentType DEF At, UpsertDone, NotAnnounced, Announces
    <2>3. events' = [events EXCEPT ![v] = @ + 1] /\ UNCHANGED <<deleted, stored, lastSeq>>
        BY <1>5 DEF AfterUpdate, AfterUpdateFails, Fails, Emit, sqsVars
    <2>4. events' = [events EXCEPT ![v] = 1]
        BY <2>2, <2>3 DEF TypeOK, DbTypeOK
    <2>5. Ledger!Announce(v)
        BY <2>2, <2>3, <2>4, <1>2, SettledKept DEF Ledger!Announce, Accepted, Settled
    <2> QED
        BY <2>2, <2>5 DEF Ledger!LNext
<1>6. CASE Notify(r) \/ (NotifyFails(r) /\ RecordSequence(r))
    <2>1. At(r, "notify")
        BY <1>6 DEF Notify, NotifyFails
    <2>2. v \in Vaas /\ EmitterOf(v) \in Emitters /\ v.seq \in Nat /\ v \in stored
        BY <2>1, CurrentType DEF At, UpsertDone
    <2>3. RecordSequence(r) /\ UNCHANGED <<deleted, stored, events>>
        BY <1>6 DEF Notify, NotifyFails, Fails, sqsVars
    <2>4. CASE v.seq > lastSeq[EmitterOf(v)]
        <3>1. lastSeq' = [lastSeq EXCEPT ![EmitterOf(v)] = v.seq]
            BY <2>2, <2>3, <2>4 DEF RecordSequence, TypeOK, DbTypeOK
        <3>2. Ledger!Advance(v)
            BY <2>2, <2>3, <2>4, <3>1, <1>2, SettledKept
            DEF Ledger!Advance, Ledger!EmitterOf, EmitterOf, Accepted, Settled, TypeOK, DbTypeOK
        <3> QED
            BY <2>2, <3>2 DEF Ledger!LNext
    <2>5. CASE ~(v.seq > lastSeq[EmitterOf(v)])
        <3>1. lastSeq' = lastSeq
            BY <2>2, <2>3, <2>5 DEF RecordSequence, TypeOK, DbTypeOK
        <3> QED
            BY <1>3, <2>3, <3>1
    <2> QED
        BY <2>4, <2>5
<1>7. CASE Done(r)
    <2>1. At(r, "ack") /\ UNCHANGED <<stored, events, lastSeq>>
        BY <1>7 DEF Done, dbVars
    <2>2. v \in Vaas /\ CurrentMsg(r) \in Messages /\ Processed(v)
        BY <2>1, CurrentType DEF At, NotifyDone
    <2>3. CASE deleted' = deleted
        BY <1>3, <2>1, <2>3
    <2>4. CASE deleted' = deleted \union {CurrentMsg(r)}
        <3>1. Settled' = Settled \union {v}
            BY <1>1, <2>4 DEF Settled, Current
        <3>2. PICK w \in Vaas : w = v
            BY <2>2
        <3>3. Ledger!Settle(w)
            BY <2>1, <2>2, <3>1, <3>2, <1>2
            DEF Ledger!Settle, Ledger!EmitterOf, EmitterOf, Processed, Accepted, Settled
        <3> QED
            BY <3>3 DEF Ledger!LNext
    <2> QED
        BY <1>7, <2>3, <2>4 DEF Done, Delete
<1>8. CASE \/ Take(r) \/ Count(r) \/ Crash(r)
           \/ (UpsertFails(r) /\ UNCHANGED stored)
           \/ (AfterUpdateFails(r) /\ UNCHANGED events)
           \/ (NotifyFails(r) /\ UNCHANGED lastSeq)
    BY <1>3, <1>8 DEF Take, Count, Crash, UpsertFails, AfterUpdateFails, NotifyFails, Fails,
       sqsVars, dbVars
<1> QED
    BY <1>4, <1>5, <1>6, <1>7, <1>8 DEF Work, Fail, UpsertFails, AfterUpdateFails, NotifyFails

LEMMA NextLedger == IInv /\ [Next]_vars => [Ledger!LNext]_(Ledger!lvars)
BY StepKinds, MailStep, ConsumerStep DEF IInv

\* The queue, its publishers and its consumers together keep the promise of
\* VaaLedger: each of their steps records, announces, advances or settles one
\* VAA as the ledger allows, or is invisible to it.
THEOREM ImplementsLedger == Spec => LedgerSpec
BY InitLedger, NextLedger, Invariance, PTL DEF Spec, LedgerSpec, Ledger!LSpec
=============================================================================
