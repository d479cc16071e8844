----------------------- MODULE OutboxDispatcherProofs -----------------------
(***************************************************************************)
(* Proofs about the dispatcher of module OutboxDispatcher, for every value *)
(* of its constants that satisfies the module's assumptions: any number of *)
(* rows, workers, batch size, semaphore capacity, retry and fault bounds.  *)
(***************************************************************************)
EXTENDS OutboxDispatcher, FiniteSetTheorems, TLAPS

(* A goroutine of some worker has published row r and not yet issued     *)
(* MarkAsPublished for it.                                                *)
AboutToMark(r) == \E w \in Workers : task[w][r] = "mark"

(* The strengthening of PublishedImpliesDelivered: a row is delivered    *)
(* not only once it is 'published' but from the moment its goroutine     *)
(* leaves publishEventWithRetry with success.                             *)
DeliveredInv ==
    \A r \in Rows : (status[r] = "published" \/ AboutToMark(r)) => delivered[r] >= 1

(* Rows are claimed only while pending, and a pending (or not yet         *)
(* committed) row has retry_count 0: the only UPDATEs that set            *)
(* retry_count also move the row out of 'pending', for good.              *)
ClaimedSnapZero ==
    \A w \in Workers, r \in Rows : task[w][r] # "none" => snap[w][r] = 0
PendingCountZero ==
    \A r \in Rows : status[r] \in {"none", "pending"} => retryCount[r] = 0

IInvDelivered == TypeOK /\ DeliveredInv
IInvDLQ == TypeOK /\ ClaimedSnapZero /\ PendingCountZero /\ DLQConsistency

-----------------------------------------------------------------------------
(* The created_at stamp SaveEvent computes, the number of rows already    *)
(* inserted, is a natural number.                                         *)
LEMMA StampIsNat ==
    ASSUME NEW S, S \subseteq Rows
    PROVE  Cardinality(S) \in Nat
BY RowsAssumption, FS_Subset, FS_CardinalityType

(* Type correctness of the initial state.                                 *)
LEMMA TypeOKInit == Init => TypeOK
BY MaxRetriesAssumption, BoundsAssumption
   DEF Init, TypeOK, Status, TaskState

(* Every step of the dispatcher, of the writers and of the environment    *)
(* keeps the variables in their types; in particular the retry loop of    *)
(* publishEventWithRetry never takes attempt past MaxRetries.             *)
LEMMA TypeOKNext == TypeOK /\ [Next]_vars => TypeOK'
<1> SUFFICES ASSUME TypeOK, [Next]_vars PROVE TypeOK'
    OBVIOUS
<1>1. ASSUME NEW r \in Rows, SaveEvent(r) PROVE TypeOK'
  <2>1. Cardinality({q \in Rows : status[q] # "none"}) \in Nat
    BY StampIsNat
  <2> QED BY <1>1, <2>1 DEF SaveEvent, TypeOK, Status
<1>2. ASSUME NEW w \in Workers, ProcessPendingEvents(w) PROVE TypeOK'
  <2>1. CASE UNCHANGED vars
    BY <2>1 DEF vars, TypeOK
  <2>2. CASE /\ worker' = [worker EXCEPT ![w] = "busy"]
             /\ task' = [task EXCEPT ![w] =
                           [r \in Rows |-> IF r \in PendingBatch THEN "sem"
                                                                 ELSE "none"]]
             /\ snap' = [snap EXCEPT ![w] = retryCount]
             /\ attempt' = [attempt EXCEPT ![w] = [r \in Rows |-> 0]]
             /\ UNCHANGED <<status, retryCount, createdAt, delivered, faults,
                            restarts>>
    <3>1. worker' \in [Workers -> {"idle", "busy", "stopped"}]
      BY <2>2 DEF TypeOK
    <3>2. task' \in [Workers -> [Rows -> TaskState]]
      BY <2>2 DEF TypeOK, TaskState
    <3>3. snap' \in [Workers -> [Rows -> Nat]]
      BY <2>2 DEF TypeOK
    <3>4. attempt' \in [Workers -> [Rows -> 0..MaxRetries]]
      BY <2>2, MaxRetriesAssumption DEF TypeOK
    <3> QED BY <2>2, <3>1, <3>2, <3>3, <3>4 DEF TypeOK
  <2> QED BY <1>2, <2>1, <2>2 DEF ProcessPendingEvents
<1>3. ASSUME NEW w \in Workers, FinishBatch(w) PROVE TypeOK'
  BY <1>3 DEF FinishBatch, TypeOK
<1>4. ASSUME NEW w \in Workers, Start(w) PROVE TypeOK'
  BY <1>4 DEF Start, TypeOK
<1>5. ASSUME NEW w \in Workers, NEW r \in Rows, AcquireSemaphore(w, r)
      PROVE TypeOK'
  BY <1>5 DEF AcquireSemaphore, TypeOK, TaskState
<1>6. ASSUME NEW w \in Workers, NEW r \in Rows, PublishAttempt(w, r)
      PROVE TypeOK'
  <2>1. CASE /\ delivered' = [delivered EXCEPT ![r] = @ + 1]
             /\ task' = [task EXCEPT ![w][r] = "mark"]
             /\ UNCHANGED <<attempt, faults>>
    BY <1>6, <2>1 DEF PublishAttempt, TypeOK, TaskState
  <2>2. CASE /\ Fault(1)
             /\ attempt[w][r] < MaxRetries
             /\ attempt' = [attempt EXCEPT ![w][r] = @ + 1]
             /\ UNCHANGED <<delivered, task>>
    BY <1>6, <2>2, MaxRetriesAssumption, BoundsAssumption
       DEF PublishAttempt, Fault, TypeOK
  <2>3. CASE /\ Fault(1)
             /\ attempt[w][r] = MaxRetries
             /\ task' = [task EXCEPT ![w][r] = "fail"]
             /\ UNCHANGED <<delivered, attempt>>
    BY <1>6, <2>3, BoundsAssumption DEF PublishAttempt, Fault, TypeOK, TaskState
  <2> QED BY <1>6, <2>1, <2>2, <2>3 DEF PublishAttempt
<1>7. ASSUME NEW w \in Workers, NEW r \in Rows, MarkPublished(w, r)
      PROVE TypeOK'
  <2> DEFINE StoreOK == /\ status' \in [Rows -> Status]
                        /\ retryCount' \in [Rows -> Nat]
                        /\ faults' \in 0..MaxFaults
  <2>1. ASSUME MarkAsPublished(r) /\ UNCHANGED faults PROVE StoreOK
    BY <2>1 DEF MarkAsPublished, TypeOK, Status
  <2>2. ASSUME Fault(1) /\ UNCHANGED <<status, retryCount>> PROVE StoreOK
    BY <2>2, BoundsAssumption DEF Fault, TypeOK
  <2>3. StoreOK
    BY <1>7, <2>1, <2>2 DEF MarkPublished
  <2>4. task' \in [Workers -> [Rows -> TaskState]]
    BY <1>7 DEF MarkPublished, TypeOK, TaskState
  <2> QED BY <1>7, <2>3, <2>4 DEF MarkPublished, TypeOK
<1>8. ASSUME NEW w \in Workers, NEW r \in Rows, HandlePublishFailure(w, r)
      PROVE TypeOK'
  <2> DEFINE rc == snap[w][r] + 1
             StoreOK == /\ status' \in [Rows -> Status]
                        /\ retryCount' \in [Rows -> Nat]
                        /\ faults' \in 0..MaxFaults
  <2>1. rc \in Nat
    BY DEF TypeOK
  <2>2. ASSUME MoveToDLQ(r) /\ UNCHANGED faults PROVE StoreOK
    BY <2>2 DEF MoveToDLQ, TypeOK, Status
  <2>3. ASSUME Fault(1) /\ MarkAsFailed(r, rc) PROVE StoreOK
    BY <2>1, <2>3, BoundsAssumption DEF Fault, MarkAsFailed, TypeOK, Status
  <2>4. ASSUME Fault(2) /\ UNCHANGED <<status, retryCount>> PROVE StoreOK
    BY <2>4, BoundsAssumption DEF Fault, TypeOK
  <2>5. ASSUME MarkAsFailed(r, rc) /\ UNCHANGED faults PROVE StoreOK
    BY <2>1, <2>5 DEF MarkAsFailed, TypeOK, Status
  <2>6. ASSUME Fault(1) /\ UNCHANGED <<status, retryCount>> PROVE StoreOK
    BY <2>6, BoundsAssumption DEF Fault, TypeOK
  <2>7. StoreOK
    BY <1>8, <2>2, <2>3, <2>4, <2>5, <2>6 DEF HandlePublishFailure
  <2>8. task' \in [Workers -> [Rows -> TaskState]]
    BY <1>8 DEF HandlePublishFailure, TypeOK, TaskState
  <2> QED BY <1>8, <2>7, <2>8 DEF HandlePublishFailure, TypeOK
<1>9. ASSUME NEW w \in Workers, Stop(w) PROVE TypeOK'
  BY <1>9, BoundsAssumption DEF Stop, TypeOK
<1>10. ASSUME NEW w \in Workers, Crash(w) PROVE TypeOK'
  BY <1>10, BoundsAssumption DEF Crash, TypeOK, TaskState
<1>11. CASE UNCHANGED vars
  BY <1>11 DEF vars, TypeOK
<1> QED
  BY <1>1, <1>2, <1>3, <1>4, <1>5, <1>6, <1>7, <1>8, <1>9, <1>10, <1>11
  DEF Next, WorkerStep

(* TypeOK holds in every reachable state of the dispatcher.               *)
THEOREM TypeCorrect == Spec => []TypeOK
BY TypeOKInit, TypeOKNext, PTL DEF Spec

-----------------------------------------------------------------------------
LEMMA DeliveredInit == Init => DeliveredInv
BY DEF Init, DeliveredInv, AboutToMark

(* No step makes a row 'published', or puts a goroutine at "mark", without *)
(* the row having gone out on the bus: MarkPublished runs only from       *)
(* "mark", and only a successful publishEvent leads there.                *)
LEMMA DeliveredNext ==
    TypeOK /\ DeliveredInv /\ [Next]_vars => DeliveredInv'
<1> SUFFICES ASSUME TypeOK, DeliveredInv, [Next]_vars,
                    NEW x \in Rows,
                    status'[x] = "published" \/ AboutToMark(x)'
             PROVE  delivered'[x] >= 1
    BY DEF DeliveredInv
<1>1. ASSUME NEW r \in Rows, SaveEvent(r) PROVE delivered'[x] >= 1
  BY <1>1 DEF SaveEvent, DeliveredInv, AboutToMark, TypeOK
<1>2. ASSUME NEW w \in Workers, ProcessPendingEvents(w)
      PROVE delivered'[x] >= 1
  BY <1>2 DEF ProcessPendingEvents, DeliveredInv, AboutToMark, TypeOK, vars
<1>3. ASSUME NEW w \in Workers, FinishBatch(w) \/ Start(w) \/ Stop(w)
      PROVE delivered'[x] >= 1
  BY <1>3 DEF FinishBatch, Start, Stop, DeliveredInv, AboutToMark
<1>4. ASSUME NEW w \in Workers, NEW r \in Rows, AcquireSemaphore(w, r)
      PROVE delivered'[x] >= 1
  BY <1>4 DEF AcquireSemaphore, DeliveredInv, AboutToMark, TypeOK
<1>5. ASSUME NEW w \in Workers, NEW r \in Rows, PublishAttempt(w, r)
      PROVE delivered'[x] >= 1
  <2>1. CASE /\ delivered' = [delivered EXCEPT ![r] = @ + 1]
             /\ task' = [task EXCEPT ![w][r] = "mark"]
    BY <1>5, <2>1 DEF PublishAttempt, DeliveredInv, AboutToMark, TypeOK
  <2>2. CASE UNCHANGED <<delivered, task>>
    BY <1>5, <2>2 DEF PublishAttempt, DeliveredInv, AboutToMark
  <2>3. CASE /\ task' = [task EXCEPT ![w][r] = "fail"]
             /\ UNCHANGED delivered
    BY <1>5, <2>3 DEF PublishAttempt, DeliveredInv, AboutToMark, TypeOK
  <2> QED BY <1>5, <2>1, <2>2, <2>3 DEF PublishAttempt
<1>6. ASSUME NEW w \in Workers, NEW r \in Rows, MarkPublished(w, r)
      PROVE delivered'[x] >= 1
  BY <1>6 DEF MarkPublished, MarkAsPublished, Fault, DeliveredInv,
             AboutToMark, TypeOK
<1>7. ASSUME NEW w \in Workers, NEW r \in Rows, HandlePublishFailure(w, r)
      PROVE delivered'[x] >= 1
  BY <1>7 DEF HandlePublishFailure, MarkAsFailed, MoveToDLQ, Fault,
             DeliveredInv, AboutToMark, TypeOK
<1>8. ASSUME NEW w \in Workers, Crash(w) PROVE delivered'[x] >= 1
  BY <1>8 DEF Crash, DeliveredInv, AboutToMark, TypeOK
<1>9. CASE UNCHANGED vars
  BY <1>9 DEF vars, DeliveredInv, AboutToMark
<1> QED
  BY <1>1, <1>2, <1>3, <1>4, <1>5, <1>6, <1>7, <1>8, <1>9 DEF Next, WorkerStep

(* Whatever the number of workers, rows, retries and failures, a row the  *)
(* store calls 'published' has been delivered to the bus at least once.   *)
THEOREM PublishedDelivered == Spec => []PublishedImpliesDelivered
<1>1. Init => IInvDelivered
  BY TypeOKInit, DeliveredInit DEF IInvDelivered
<1>2. IInvDelivered /\ [Next]_vars => IInvDelivered'
  BY TypeOKNext, DeliveredNext DEF IInvDelivered
<1>3. IInvDelivered => PublishedImpliesDelivered
  BY DEF IInvDelivered, DeliveredInv, PublishedImpliesDelivered
<1> QED BY <1>1, <1>2, <1>3, PTL DEF Spec

-----------------------------------------------------------------------------
(* GetPendingEvents returns pending rows only.                            *)
LEMMA PendingBatchPending ==
    PendingBatch \subseteq {r \in Rows : status[r] = "pending"}
BY DEF PendingBatch

DLQPart == ClaimedSnapZero /\ PendingCountZero /\ DLQConsistency

LEMMA DLQInit == Init => DLQPart
BY DEF Init, DLQPart, ClaimedSnapZero, PendingCountZero, DLQConsistency

(* Each step keeps the three facts: a claim snapshots a pending row's     *)
(* retry_count (0), every UPDATE that sets retry_count leaves 'pending'   *)
(* for good, and handlePublishFailure chooses the DLQ only when the       *)
(* snapshot plus one exceeds MaxRetries, after which the SQL makes the    *)
(* stored count at least that large.                                      *)
LEMMA DLQNext ==
    TypeOK /\ DLQPart /\ [Next]_vars => DLQPart'
<1> SUFFICES ASSUME TypeOK, DLQPart, [Next]_vars PROVE DLQPart'
    OBVIOUS
<1> USE MaxRetriesAssumption
<1>1. ASSUME NEW r \in Rows, SaveEvent(r) PROVE DLQPart'
  BY <1>1 DEF SaveEvent, DLQPart, ClaimedSnapZero, PendingCountZero,
             DLQConsistency, TypeOK
<1>2. ASSUME NEW w \in Workers, ProcessPendingEvents(w) PROVE DLQPart'
  <2>1. CASE UNCHANGED vars
    BY <2>1 DEF vars, DLQPart, ClaimedSnapZero, PendingCountZero,
                DLQConsistency
  <2>2. CASE /\ task' = [task EXCEPT ![w] =
                           [r \in Rows |-> IF r \in PendingBatch THEN "sem"
                                                                 ELSE "none"]]
             /\ snap' = [snap EXCEPT ![w] = retryCount]
             /\ UNCHANGED <<status, retryCount>>
    BY <2>2, PendingBatchPending
       DEF DLQPart, ClaimedSnapZero, PendingCountZero, DLQConsistency, TypeOK
  <2> QED BY <1>2, <2>1, <2>2 DEF ProcessPendingEvents
<1>3. ASSUME NEW w \in Workers, FinishBatch(w) \/ Start(w) \/ Stop(w)
      PROVE DLQPart'
  BY <1>3 DEF FinishBatch, Start, Stop, DLQPart, ClaimedSnapZero,
             PendingCountZero, DLQConsistency
<1>4. ASSUME NEW w \in Workers, NEW r \in Rows, AcquireSemaphore(w, r)
      PROVE DLQPart'
  BY <1>4 DEF AcquireSemaphore, DLQPart, ClaimedSnapZero, PendingCountZero,
             DLQConsistency, TypeOK
<1>9. ASSUME NEW w \in Workers, NEW r \in Rows, PublishAttempt(w, r)
      PROVE DLQPart'
  <2>1. UNCHANGED <<status, retryCount, snap>>
    BY <1>9 DEF PublishAttempt
  <2>2. \/ task' = task
        \/ task' = [task EXCEPT ![w][r] = "mark"]
        \/ task' = [task EXCEPT ![w][r] = "fail"]
    BY <1>9 DEF PublishAttempt
  <2>3. \A v \in Workers, y \in Rows : task'[v][y] # "none" => task[v][y] # "none"
    <3> SUFFICES ASSUME NEW v \in Workers, NEW y \in Rows, task'[v][y] # "none"
                 PROVE  task[v][y] # "none"
      OBVIOUS
    <3>1. task[w][r] = "publish"
      BY <1>9 DEF PublishAttempt
    <3>2. CASE task' = task
      BY <3>2
    <3>3. CASE task' = [task EXCEPT ![w][r] = "mark"]
      BY <3>1, <3>3 DEF TypeOK
    <3>4. CASE task' = [task EXCEPT ![w][r] = "fail"]
      BY <3>1, <3>4 DEF TypeOK
    <3> QED BY <2>2, <3>2, <3>3, <3>4
  <2> QED BY <2>1, <2>3 DEF DLQPart, ClaimedSnapZero, PendingCountZero,
                                  DLQConsistency
<1>5. ASSUME NEW w \in Workers, NEW r \in Rows, MarkPublished(w, r)
      PROVE DLQPart'
  BY <1>5 DEF MarkPublished, MarkAsPublished, DLQPart, ClaimedSnapZero,
             PendingCountZero, DLQConsistency, TypeOK
<1>6. ASSUME NEW w \in Workers, NEW r \in Rows, HandlePublishFailure(w, r)
      PROVE DLQPart'
  <2>1. snap[w][r] = 0
    BY <1>6 DEF HandlePublishFailure, DLQPart, ClaimedSnapZero
  <2>2. ClaimedSnapZero'
    BY <1>6 DEF HandlePublishFailure, ClaimedSnapZero, DLQPart, TypeOK
  <2>3. ASSUME MarkAsFailed(r, snap[w][r] + 1)
        PROVE  (PendingCountZero /\ DLQConsistency)'
    BY <2>3 DEF MarkAsFailed, DLQPart, PendingCountZero, DLQConsistency,
                TypeOK
  <2>4. ASSUME UNCHANGED <<status, retryCount>>
        PROVE  (PendingCountZero /\ DLQConsistency)'
    BY <2>4 DEF DLQPart, PendingCountZero, DLQConsistency
  <2>5. CASE snap[w][r] + 1 > MaxRetries
    <3>1. MaxRetries = 0
      BY <2>1, <2>5
    <3>2. ASSUME MoveToDLQ(r) PROVE (PendingCountZero /\ DLQConsistency)'
      BY <3>1, <3>2 DEF MoveToDLQ, DLQPart, PendingCountZero, DLQConsistency,
                        TypeOK
    <3> QED BY <1>6, <2>2, <2>3, <2>4, <2>5, <3>2
               DEF HandlePublishFailure, DLQPart
  <2>6. CASE ~(snap[w][r] + 1 > MaxRetries)
    BY <1>6, <2>2, <2>3, <2>4, <2>6 DEF HandlePublishFailure, DLQPart
  <2> QED BY <2>5, <2>6
<1>7. ASSUME NEW w \in Workers, Crash(w) PROVE DLQPart'
  BY <1>7 DEF Crash, DLQPart, ClaimedSnapZero, PendingCountZero,
             DLQConsistency, TypeOK
<1>8. CASE UNCHANGED vars
  BY <1>8 DEF vars, DLQPart, ClaimedSnapZero, PendingCountZero,
              DLQConsistency
<1> QED BY <1>1, <1>2, <1>3, <1>4, <1>5, <1>6, <1>7, <1>8, <1>9
        DEF Next, WorkerStep

(* For every configuration and any number of competing replicas, a row in *)
(* the dead-letter state has retry_count > max_retries; and since pending *)
(* rows always carry retry_count 0, handlePublishFailure can choose the   *)
(* DLQ only when max_retries is 0.                                        *)
THEOREM DLQConsistent == Spec => []DLQConsistency
<1>1. Init => IInvDLQ
  BY TypeOKInit, DLQInit DEF IInvDLQ, DLQPart
<1>2. IInvDLQ /\ [Next]_vars => IInvDLQ'
  BY TypeOKNext, DLQNext DEF IInvDLQ, DLQPart
<1>3. IInvDLQ => DLQConsistency
  BY DEF IInvDLQ
<1> QED BY <1>1, <1>2, <1>3, PTL DEF Spec

-----------------------------------------------------------------------------
(* With a single worker, a row has a goroutine only while the store has   *)
(* it pending: the claim takes pending rows, and the only UPDATEs that    *)
(* move a row out of 'pending' are issued by that row's goroutine, which  *)
(* ends with them.  A second worker breaks this (its claim of the same    *)
(* row races the first one's UPDATE).                                     *)
ClaimedPending ==
    \A w \in Workers, r \in Rows : task[w][r] # "none" => status[r] = "pending"

RefinementInv == TypeOK /\ DeliveredInv /\ ClaimedPending

LEMMA ClaimedInit == Init => ClaimedPending
BY DEF Init, ClaimedPending

LEMMA ClaimedNext ==
    ASSUME NEW w0, Workers = {w0}, TypeOK, ClaimedPending, [Next]_vars
    PROVE  ClaimedPending'
<1> SUFFICES ASSUME NEW v \in Workers, NEW x \in Rows, task'[v][x] # "none"
             PROVE  status'[x] = "pending"
    BY DEF ClaimedPending
<1>1. ASSUME NEW r \in Rows, SaveEvent(r) PROVE status'[x] = "pending"
  BY <1>1 DEF SaveEvent, ClaimedPending, TypeOK
<1>2. ASSUME NEW w \in Workers, ProcessPendingEvents(w)
      PROVE status'[x] = "pending"
  <2>1. CASE UNCHANGED vars
    BY <2>1 DEF vars, ClaimedPending
  <2>2. CASE /\ task' = [task EXCEPT ![w] =
                           [r \in Rows |-> IF r \in PendingBatch THEN "sem"
                                                                 ELSE "none"]]
             /\ UNCHANGED status
    BY <2>2, PendingBatchPending DEF ClaimedPending, TypeOK
  <2> QED BY <1>2, <2>1, <2>2 DEF ProcessPendingEvents
<1>3. ASSUME NEW w \in Workers, FinishBatch(w) \/ Start(w) \/ Stop(w)
      PROVE status'[x] = "pending"
  BY <1>3 DEF FinishBatch, Start, Stop, ClaimedPending
<1>4. ASSUME NEW w \in Workers, NEW r \in Rows, AcquireSemaphore(w, r)
      PROVE status'[x] = "pending"
  BY <1>4 DEF AcquireSemaphore, ClaimedPending, TypeOK
<1>5. ASSUME NEW w \in Workers, NEW r \in Rows, PublishAttempt(w, r)
      PROVE status'[x] = "pending"
  <2>1. \/ task' = task
        \/ task' = [task EXCEPT ![w][r] = "mark"]
        \/ task' = [task EXCEPT ![w][r] = "fail"]
    BY <1>5 DEF PublishAttempt
  <2>2. task[v][x] # "none"
    <3>1. task[w][r] = "publish"
      BY <1>5 DEF PublishAttempt
    <3>2. CASE task' = task
      BY <3>2
    <3>3. CASE task' = [task EXCEPT ![w][r] = "mark"]
      BY <3>1, <3>3 DEF TypeOK
    <3>4. CASE task' = [task EXCEPT ![w][r] = "fail"]
      BY <3>1, <3>4 DEF TypeOK
    <3> QED BY <2>1, <3>2, <3>3, <3>4
  <2> QED BY <1>5, <2>2 DEF PublishAttempt, ClaimedPending
<1>6. ASSUME NEW w \in Workers, NEW r \in Rows, MarkPublished(w, r)
      PROVE status'[x] = "pending"
  <2>1. v = w
    OBVIOUS
  <2>2. x # r
    BY <1>6, <2>1 DEF MarkPublished, TypeOK
  <2> QED BY <1>6, <2>1, <2>2 DEF MarkPublished, MarkAsPublished,
                                  ClaimedPending, TypeOK
<1>7. ASSUME NEW w \in Workers, NEW r \in Rows, HandlePublishFailure(w, r)
      PROVE status'[x] = "pending"
  <2>1. v = w
    OBVIOUS
  <2>2. x # r
    BY <1>7, <2>1 DEF HandlePublishFailure, TypeOK
  <2>3. status'[x] = status[x]
    BY <1>7, <2>2 DEF HandlePublishFailure, MarkAsFailed, MoveToDLQ, TypeOK
  <2> QED BY <1>7, <2>1, <2>2, <2>3 DEF HandlePublishFailure, ClaimedPending,
                                        TypeOK
<1>8. ASSUME NEW w \in Workers, Crash(w) PROVE status'[x] = "pending"
  BY <1>8 DEF Crash, ClaimedPending, TypeOK
<1>9. CASE UNCHANGED vars
  BY <1>9 DEF vars, ClaimedPending
<1> QED
  BY <1>1, <1>2, <1>3, <1>4, <1>5, <1>6, <1>7, <1>8, <1>9 DEF Next, WorkerStep

(* Each step of the dispatcher is a step of the row lifecycle or leaves   *)
(* status and deliveries alone.                                           *)
LEMMA LifecycleStep ==
    ASSUME RefinementInv, [Next]_vars
    PROVE  [Lifecycle!Next]_Lifecycle!vars
<1> USE DEF RefinementInv
<1>1. ASSUME NEW r \in Rows, SaveEvent(r) PROVE [Lifecycle!Next]_Lifecycle!vars
  <2>1. Lifecycle!Commit(r)
    BY <1>1 DEF SaveEvent, Lifecycle!Commit
  <2> QED BY <2>1 DEF Lifecycle!Next
<1>2. ASSUME NEW w \in Workers, NEW r \in Rows, PublishAttempt(w, r)
      PROVE [Lifecycle!Next]_Lifecycle!vars
  <2>1. CASE delivered' = [delivered EXCEPT ![r] = @ + 1]
    <3>1. status[r] = "pending"
      BY <1>2 DEF PublishAttempt, ClaimedPending
    <3>2. Lifecycle!Deliver(r)
      BY <1>2, <2>1, <3>1 DEF PublishAttempt, Lifecycle!Deliver
    <3> QED BY <3>2 DEF Lifecycle!Next
  <2>2. CASE UNCHANGED delivered
    BY <1>2, <2>2 DEF PublishAttempt, Lifecycle!vars
  <2> QED BY <1>2, <2>1, <2>2 DEF PublishAttempt
<1>3. ASSUME NEW w \in Workers, NEW r \in Rows, MarkPublished(w, r)
      PROVE [Lifecycle!Next]_Lifecycle!vars
  <2>1. status[r] = "pending" /\ delivered[r] >= 1
    BY <1>3 DEF MarkPublished, ClaimedPending, DeliveredInv, AboutToMark
  <2>2. CASE MarkAsPublished(r)
    <3>1. Lifecycle!Resolve(r)
      BY <1>3, <2>1, <2>2 DEF MarkPublished, MarkAsPublished, Lifecycle!Resolve
    <3> QED BY <3>1 DEF Lifecycle!Next
  <2>3. CASE UNCHANGED <<status, retryCount>>
    BY <1>3, <2>3 DEF MarkPublished, Lifecycle!vars
  <2> QED BY <1>3, <2>2, <2>3 DEF MarkPublished
<1>4. ASSUME NEW w \in Workers, NEW r \in Rows, HandlePublishFailure(w, r)
      PROVE [Lifecycle!Next]_Lifecycle!vars
  <2>1. status[r] = "pending" /\ UNCHANGED delivered
    BY <1>4 DEF HandlePublishFailure, ClaimedPending
  <2>2. CASE MoveToDLQ(r)
    <3>1. Lifecycle!Resolve(r)
      BY <2>1, <2>2 DEF MoveToDLQ, Lifecycle!Resolve
    <3> QED BY <3>1 DEF Lifecycle!Next
  <2>3. CASE MarkAsFailed(r, snap[w][r] + 1)
    <3>1. Lifecycle!Resolve(r)
      BY <2>1, <2>3 DEF MarkAsFailed, Lifecycle!Resolve
    <3> QED BY <3>1 DEF Lifecycle!Next
  <2>4. CASE UNCHANGED <<status, retryCount>>
    BY <2>1, <2>4 DEF Lifecycle!vars
  <2> QED BY <1>4, <2>2, <2>3, <2>4 DEF HandlePublishFailure
<1>5. ASSUME NEW w \in Workers,
             \/ ProcessPendingEvents(w) \/ FinishBatch(w) \/ Start(w)
             \/ Stop(w) \/ Crash(w)
             \/ \E r \in Rows : AcquireSemaphore(w, r)
      PROVE UNCHANGED <<status, delivered>>
  BY <1>5 DEF ProcessPendingEvents, FinishBatch, Start, Stop, Crash,
              AcquireSemaphore, vars
<1>6. CASE UNCHANGED vars
  BY <1>6 DEF vars, Lifecycle!vars
<1> QED
  BY <1>1, <1>2, <1>3, <1>4, <1>5, <1>6 DEF Next, WorkerStep, Lifecycle!vars

(* A deployment with one products-service process: the dispatcher         *)
(* implements the row lifecycle of OutboxRowLifecycle for every number of *)
(* rows, batch size, semaphore capacity, retry and fault bound.  In       *)
(* particular it never publishes a row the store no longer has pending,   *)
(* and published and dlq rows stay so.                                    *)
THEOREM SingleWorkerRefinement ==
    ASSUME NEW w0, Workers = {w0}
    PROVE  Spec => LifecycleRefined
<1>1. Init => Lifecycle!Init
  BY DEF Init, Lifecycle!Init
<1>2. Init => RefinementInv
  BY TypeOKInit, DeliveredInit, ClaimedInit DEF RefinementInv
<1>3. RefinementInv /\ [Next]_vars => RefinementInv'
  BY TypeOKNext, DeliveredNext, ClaimedNext DEF RefinementInv
<1>4. RefinementInv /\ [Next]_vars => [Lifecycle!Next]_Lifecycle!vars
  BY LifecycleStep
<1> QED
  BY <1>1, <1>2, <1>3, <1>4, PTL DEF Spec, LifecycleRefined, Lifecycle!Spec

=============================================================================
