-------------------------- MODULE OutboxDispatcher --------------------------
(***************************************************************************)
(* The outbox table and the dispatcher that drains it to the bus.          *)
(*                                                                         *)
(* Source: products/internal/infrastructure/messaging/outbox_worker.go     *)
(* (OutboxWorker) and products/internal/repository/outbox_repository.go    *)
(* with queries.go (postgresOutboxRepository).                             *)
(*                                                                         *)
(* One worker per process of the products service (Workers): its run loop  *)
(* polls GetPendingEvents on every tick, launches one goroutine per        *)
(* claimed row, gates them by a semaphore of capacity Concurrency, and     *)
(* waits for all of them before the next tick.  Each goroutine publishes   *)
(* with up to MaxRetries + 1 attempts and records the outcome with one     *)
(* UPDATE.  The worker's context is context.Background()                   *)
(* (bootstrap/init_messaging.go:34), so no cancellation path is taken.     *)
(*                                                                         *)
(* The bus is a per-row count of deliveries.  A bus failure, a failed      *)
(* store UPDATE and a process crash are environment events; the first two  *)
(* are drawn from a budget of MaxFaults, stops and crashes from one of     *)
(* MaxRestarts, so that "the bus and the store are eventually available"   *)
(* holds in every behaviour.                                               *)
(***************************************************************************)
EXTENDS Naturals, FiniteSets

CONSTANTS
    Rows,         \* outbox row ids
    Workers,      \* one OutboxWorker per running process of the service
    BatchSize,    \* outbox.batch_size: LIMIT of GetPendingEvents
    Concurrency,  \* outbox.concurrency: capacity of the semaphore
    MaxRetries,   \* outbox.max_retries
    MaxFaults,    \* bound on bus failures and failed store updates
    MaxRestarts   \* bound on worker stops and crashes

ASSUME RowsAssumption == IsFiniteSet(Rows) /\ Rows # {}
ASSUME WorkersAssumption == Workers # {}
ASSUME BatchSizeAssumption == BatchSize \in Nat \ {0}
ASSUME ConcurrencyAssumption == Concurrency \in Nat \ {0}
ASSUME MaxRetriesAssumption == MaxRetries \in Nat
ASSUME BoundsAssumption == MaxFaults \in Nat /\ MaxRestarts \in Nat

(* Values of outbox.status; "none" stands for a row not yet committed.    *)
Status == {"none", "pending", "published", "failed", "dlq"}

(* Where the goroutine of one claimed row is:                             *)
(*   "sem"     waiting to acquire the semaphore                           *)
(*   "publish" inside publishEventWithRetry                               *)
(*   "mark"    publish succeeded, MarkAsPublished not yet issued          *)
(*   "fail"    attempts exhausted, handlePublishFailure not yet run       *)
(*   "none"    no goroutine for this row                                  *)
TaskState == {"none", "sem", "publish", "mark", "fail"}

(* The goroutines that hold a slot of the semaphore.                      *)
Holding == {"publish", "mark", "fail"}

VARIABLES
    status,      \* outbox.status per row
    retryCount,  \* outbox.retry_count per row
    createdAt,   \* outbox.created_at, as an insertion stamp
    delivered,   \* number of times each row was published to the bus
    worker,      \* "idle" (in the select of run), "busy" (in
                 \* processPendingEvents) or "stopped"
    task,        \* task[w][r]: the goroutine of worker w for row r
    snap,        \* snap[w][r]: event.RetryCount as read by GetPendingEvents
    attempt,     \* attempt[w][r]: loop index of publishEventWithRetry
    faults,      \* environment failures used so far
    restarts     \* stops and crashes used so far

vars == <<status, retryCount, createdAt, delivered, worker, task, snap,
          attempt, faults, restarts>>

storeVars == <<status, retryCount, createdAt>>

-----------------------------------------------------------------------------
(* Store operations, each one SQL statement of queries.go.                *)

PendingBatch_NoStatusFilter ==
    (* mutant: the WHERE status = $1 of the SELECT is lost *)
    LET pending == {r \in Rows : status[r] # "none"}
    IN  {r \in pending :
            Cardinality({q \in pending : createdAt[q] < createdAt[r]})
                < BatchSize}

PendingBatch_FailedStatus ==
    (* mutant: GetPendingEvents is passed StatusFailed instead of          *)
    (* StatusPending                                                       *)
    LET pending == {r \in Rows : status[r] = "failed"}
    IN  {r \in pending :
            Cardinality({q \in pending : createdAt[q] < createdAt[r]})
                < BatchSize}

(* The rows queryGetPendingEvents returns: status = 'pending' ORDER BY    *)
(* created_at ASC LIMIT BatchSize.  The SELECT runs outside any           *)
(* transaction (the worker's repository has tx = nil), so its FOR UPDATE  *)
(* SKIP LOCKED locks end with the statement and lock nothing out.         *)
PendingBatch ==
    LET pending == {r \in Rows : status[r] = "pending"}
    IN  {r \in pending :
            Cardinality({q \in pending : createdAt[q] < createdAt[r]})
                < BatchSize}

(* queryMarkAsPublished: SET status = 'published' WHERE id = r.           *)
MarkAsPublished(r) ==
    /\ status' = [status EXCEPT ![r] = "published"]
    /\ UNCHANGED retryCount

(* queryMarkAsFailed: SET status = 'failed', retry_count = rc WHERE id=r. *)
MarkAsFailed(r, rc) ==
    /\ status' = [status EXCEPT ![r] = "failed"]
    /\ retryCount' = [retryCount EXCEPT ![r] = rc]

MoveToDLQ_NoIncrement(r) ==
    (* mutant: the SQL keeps retry_count as it is *)
    /\ status' = [status EXCEPT ![r] = "dlq"]
    /\ UNCHANGED retryCount

(* queryMoveToDLQ: SET status = 'dlq', retry_count = retry_count + 1.     *)
MoveToDLQ(r) ==
    /\ status' = [status EXCEPT ![r] = "dlq"]
    /\ retryCount' = [retryCount EXCEPT ![r] = @ + 1]

(* One environment failure, while the budget lasts.                       *)
Fault(n) == /\ faults + n <= MaxFaults
            /\ faults' = faults + n

(* Goroutines of worker w holding the semaphore.                          *)
InFlight(w) == {r \in Rows : task[w][r] \in Holding}

-----------------------------------------------------------------------------
Init ==
    /\ status = [r \in Rows |-> "none"]
    /\ retryCount = [r \in Rows |-> 0]
    /\ createdAt = [r \in Rows |-> 0]
    /\ delivered = [r \in Rows |-> 0]
    /\ worker = [w \in Workers |-> "idle"]
    /\ task = [w \in Workers |-> [r \in Rows |-> "none"]]
    /\ snap = [w \in Workers |-> [r \in Rows |-> 0]]
    /\ attempt = [w \in Workers |-> [r \in Rows |-> 0]]
    /\ faults = 0
    /\ restarts = 0

(* A committed write transaction makes row r visible as 'pending' with    *)
(* retry_count 0 (the insert of SaveEventsBatch; the transaction around   *)
(* it is the subject of module ProductWrite).                             *)
SaveEvent(r) ==
    /\ status[r] = "none"
    /\ status' = [status EXCEPT ![r] = "pending"]
    /\ createdAt' = [createdAt EXCEPT
                        ![r] = Cardinality({q \in Rows : status[q] # "none"})]
    /\ UNCHANGED <<retryCount, delivered, worker, task, snap, attempt,
                   faults, restarts>>

(* A tick of run: processPendingEvents polls the store; on an error of    *)
(* the SELECT (possible whatever the table holds) or an empty result it   *)
(* returns at once, otherwise it launches one goroutine per row, each     *)
(* first waiting on the semaphore.                                        *)
ProcessPendingEvents(w) ==
    /\ worker[w] = "idle"
    /\ \/ UNCHANGED vars
       \/ /\ PendingBatch # {}
          /\ worker' = [worker EXCEPT ![w] = "busy"]
          /\ task' = [task EXCEPT ![w] =
                        [r \in Rows |-> IF r \in PendingBatch THEN "sem"
                                                              ELSE "none"]]
          /\ snap' = [snap EXCEPT ![w] = retryCount]
          /\ attempt' = [attempt EXCEPT ![w] = [r \in Rows |-> 0]]
          /\ UNCHANGED <<status, retryCount, createdAt, delivered, faults,
                         restarts>>

(* The goroutine of row r acquires a slot of the semaphore.               *)
AcquireSemaphore(w, r) ==
    /\ task[w][r] = "sem"
    /\ Cardinality(InFlight(w)) < Concurrency
    /\ task' = [task EXCEPT ![w][r] = "publish"]
    /\ UNCHANGED <<status, retryCount, createdAt, delivered, worker, snap,
                   attempt, faults, restarts>>

PublishAttempt_OffByOne(w, r) ==
    (* mutant: the retry loop runs while attempt <= MaxRetries *)
    /\ task[w][r] = "publish"
    /\ \/ /\ delivered' = [delivered EXCEPT ![r] = @ + 1]
          /\ task' = [task EXCEPT ![w][r] = "mark"]
          /\ UNCHANGED <<attempt, faults>>
       \/ /\ Fault(1)
          /\ attempt[w][r] <= MaxRetries
          /\ attempt' = [attempt EXCEPT ![w][r] = @ + 1]
          /\ UNCHANGED <<delivered, task>>
       \/ /\ Fault(1)
          /\ attempt[w][r] = MaxRetries
          /\ task' = [task EXCEPT ![w][r] = "fail"]
          /\ UNCHANGED <<delivered, attempt>>
    /\ UNCHANGED <<status, retryCount, createdAt, worker, snap, restarts>>

PublishAttempt_LastErrorDropped(w, r) ==
    (* mutant: the error of the last attempt is not returned, processEvent *)
    (* goes on to markEventAsPublished                                     *)
    /\ task[w][r] = "publish"
    /\ \/ /\ delivered' = [delivered EXCEPT ![r] = @ + 1]
          /\ task' = [task EXCEPT ![w][r] = "mark"]
          /\ UNCHANGED <<attempt, faults>>
       \/ /\ Fault(1)
          /\ attempt[w][r] < MaxRetries
          /\ attempt' = [attempt EXCEPT ![w][r] = @ + 1]
          /\ UNCHANGED <<delivered, task>>
       \/ /\ Fault(1)
          /\ attempt[w][r] = MaxRetries
          /\ task' = [task EXCEPT ![w][r] = "mark"]
          /\ UNCHANGED <<delivered, attempt>>
    /\ UNCHANGED <<status, retryCount, createdAt, worker, snap, restarts>>

(* One iteration of publishEventWithRetry: the backoff sleep (when        *)
(* attempt > 0) and one publishEvent.  Success leaves the loop; a failure *)
(* goes round again until attempt = MaxRetries.                           *)
PublishAttempt(w, r) ==
    /\ task[w][r] = "publish"
    /\ \/ /\ delivered' = [delivered EXCEPT ![r] = @ + 1]
          /\ task' = [task EXCEPT ![w][r] = "mark"]
          /\ UNCHANGED <<attempt, faults>>
       \/ /\ Fault(1)
          /\ attempt[w][r] < MaxRetries
          /\ attempt' = [attempt EXCEPT ![w][r] = @ + 1]
          /\ UNCHANGED <<delivered, task>>
       \/ /\ Fault(1)
          /\ attempt[w][r] = MaxRetries
          /\ task' = [task EXCEPT ![w][r] = "fail"]
          /\ UNCHANGED <<delivered, attempt>>
    /\ UNCHANGED <<status, retryCount, createdAt, worker, snap, restarts>>

(* The success path of processEvent: markEventAsPublished.  An error of   *)
(* the UPDATE is logged and the row stays as it was.  The goroutine ends  *)
(* and releases its slot.                                                 *)
MarkPublished(w, r) ==
    /\ task[w][r] = "mark"
    /\ \/ /\ MarkAsPublished(r)
          /\ UNCHANGED faults
       \/ /\ Fault(1)
          /\ UNCHANGED <<status, retryCount>>
    /\ task' = [task EXCEPT ![w][r] = "none"]
    /\ UNCHANGED <<createdAt, delivered, worker, snap, attempt, restarts>>

(* handlePublishFailure with retryCount = event.RetryCount + 1: past      *)
(* MaxRetries it moves the row to the DLQ and, if that UPDATE fails,      *)
(* marks it failed instead; otherwise it marks it failed.  A failed       *)
(* MarkAsFailed is only logged.                                           *)
HandlePublishFailure(w, r) ==
    LET rc == snap[w][r] + 1 IN
    /\ task[w][r] = "fail"
    /\ IF rc > MaxRetries
         THEN \/ /\ MoveToDLQ(r)
                 /\ UNCHANGED faults
              \/ /\ Fault(1)
                 /\ MarkAsFailed(r, rc)
              \/ /\ Fault(2)
                 /\ UNCHANGED <<status, retryCount>>
         ELSE \/ /\ MarkAsFailed(r, rc)
                 /\ UNCHANGED faults
              \/ /\ Fault(1)
                 /\ UNCHANGED <<status, retryCount>>
    /\ task' = [task EXCEPT ![w][r] = "none"]
    /\ UNCHANGED <<createdAt, delivered, worker, snap, attempt, restarts>>

(* wg.Wait returns: processPendingEvents returns to the run loop.         *)
FinishBatch(w) ==
    /\ worker[w] = "busy"
    /\ \A r \in Rows : task[w][r] = "none"
    /\ worker' = [worker EXCEPT ![w] = "idle"]
    /\ UNCHANGED <<status, retryCount, createdAt, delivered, task, snap,
                   attempt, faults, restarts>>

(* Stop closes stopChan; run takes it only from its select, i.e. between  *)
(* batches, and Stop returns once run has returned.                       *)
Stop(w) ==
    /\ worker[w] = "idle"
    /\ restarts < MaxRestarts
    /\ restarts' = restarts + 1
    /\ worker' = [worker EXCEPT ![w] = "stopped"]
    /\ UNCHANGED <<status, retryCount, createdAt, delivered, task, snap,
                   attempt, faults>>

(* The process dies at any point: its goroutines vanish with it; what the *)
(* store and the bus already received stays.                              *)
Crash(w) ==
    /\ worker[w] # "stopped"
    /\ restarts < MaxRestarts
    /\ restarts' = restarts + 1
    /\ worker' = [worker EXCEPT ![w] = "stopped"]
    /\ task' = [task EXCEPT ![w] = [r \in Rows |-> "none"]]
    /\ UNCHANGED <<status, retryCount, createdAt, delivered, snap, attempt,
                   faults>>

(* A new process starts its worker: Start launches run.                   *)
Start(w) ==
    /\ worker[w] = "stopped"
    /\ worker' = [worker EXCEPT ![w] = "idle"]
    /\ UNCHANGED <<status, retryCount, createdAt, delivered, task, snap,
                   attempt, faults, restarts>>

(* The actions of worker w that the code's scheduling keeps running.      *)
WorkerStep(w) ==
    \/ ProcessPendingEvents(w)
    \/ FinishBatch(w)
    \/ Start(w)
    \/ \E r \in Rows :
          \/ AcquireSemaphore(w, r)
          \/ PublishAttempt(w, r)
          \/ MarkPublished(w, r)
          \/ HandlePublishFailure(w, r)

Next ==
    \/ \E r \in Rows : SaveEvent(r)
    \/ \E w \in Workers : WorkerStep(w) \/ Stop(w) \/ Crash(w)

Spec == Init /\ [][Next]_vars

(* The goroutines of a running worker are scheduled fairly: the ticker   *)
(* fires every interval, a goroutine that can take its next step does.    *)
(* A stopped service is started again (the deployment restarts it).       *)
(* Clients, stops and crashes get no fairness.                            *)
Fairness ==
    \A w \in Workers :
        /\ WF_vars(ProcessPendingEvents(w))
        /\ WF_vars(FinishBatch(w))
        /\ WF_vars(Start(w))
        /\ \A r \in Rows :
              /\ WF_vars(AcquireSemaphore(w, r))
              /\ WF_vars(PublishAttempt(w, r))
              /\ WF_vars(MarkPublished(w, r))
              /\ WF_vars(HandlePublishFailure(w, r))

FairSpec == Spec /\ Fairness

-----------------------------------------------------------------------------
(* Properties.                                                            *)

TypeOK ==
    /\ status \in [Rows -> Status]
    /\ retryCount \in [Rows -> Nat]
    /\ createdAt \in [Rows -> Nat]
    /\ delivered \in [Rows -> Nat]
    /\ worker \in [Workers -> {"idle", "busy", "stopped"}]
    /\ task \in [Workers -> [Rows -> TaskState]]
    /\ snap \in [Workers -> [Rows -> Nat]]
    /\ attempt \in [Workers -> [Rows -> 0..MaxRetries]]
    /\ faults \in 0..MaxFaults
    /\ restarts \in 0..MaxRestarts

(* A row the store records as 'published' really went out on the bus:     *)
(* processEvent issues MarkAsPublished only after publishEventWithRetry   *)
(* returned nil, whatever the interleaving of workers, failures and       *)
(* crashes (spec section 5: a successful publish happens-before its       *)
(* MarkAsPublished).                                                      *)
PublishedImpliesDelivered ==
    \A r \in Rows : status[r] = "published" => delivered[r] >= 1

(* A row in the dead-letter state has used up its retries: retry_count > *)
(* max_retries (spec section 3).  The decision of handlePublishFailure is *)
(* taken on the count read at poll time, the stored value is incremented  *)
(* by the SQL of MoveToDLQ.                                               *)
DLQConsistency ==
    \A r \in Rows : status[r] = "dlq" => retryCount[r] > MaxRetries

(* Every committed event eventually leaves 'pending': it is claimed by a  *)
(* later tick and resolved to published, failed or dlq, however often a   *)
(* store update is lost or the process restarts in between.               *)
PendingEventuallyResolved ==
    \A r \in Rows : status[r] = "pending" ~> status[r] # "pending"

(* Spec section 8, scenario 3: while the bus is down an event waits, and  *)
(* once the bus is back the event is delivered.  Here the bus fails only  *)
(* finitely often, so every committed event is eventually delivered.      *)
EventuallyDelivered ==
    \A r \in Rows : status[r] # "none" ~> delivered[r] >= 1

-----------------------------------------------------------------------------
(* The row lifecycle the outbox promises, with the store's status and the *)
(* bus deliveries of this module for its variables.                       *)
Lifecycle == INSTANCE OutboxRowLifecycle WITH status <- status,
                                              delivered <- delivered

(* The dispatcher implements the row lifecycle: every step of a worker,   *)
(* of a writer or of a crash moves each row along the promised diagram or *)
(* leaves it alone, and the dispatcher puts a row on the bus only while   *)
(* the store still has it pending.                                        *)
LifecycleRefined == Lifecycle!Spec

=============================================================================
