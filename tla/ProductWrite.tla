---------------------------- MODULE ProductWrite ----------------------------
(***************************************************************************)
(* The write path: a client request, the use case, the application        *)
(* service's ExecuteInTransaction with its retrier, the unit of work and  *)
(* the two repositories it binds, down to the product and outbox tables.  *)
(*                                                                         *)
(* Source: products/internal/usecase/product_usecase.go (CreateProduct,   *)
(* DeleteProduct), application/product_service.go (ExecuteInTransaction,  *)
(* CreateProductWithEvent, DeleteProductWithEvent,                        *)
(* publishDomainEventsBatch), repository/unit_of_work.go,                 *)
(* repository/postgres_product_repository.go, repository/                 *)
(* outbox_repository.go (saveEventsBatchSingle), infrastructure/retry/    *)
(* retry.go (Do).                                                         *)
(*                                                                         *)
(* ProductRepoInTx says whether the unit of work can bind its product     *)
(* repository to the transaction.  Begin does so only through the type    *)
(* assertion u.productRepo.(ports.TransactionalRepository); when the      *)
(* factory has a metrics collector (bootstrap passes one) the repository  *)
(* is a MetricsProductRepositoryDecorator, which does not implement that  *)
(* interface, so its statements run in autocommit on the pool: FALSE is   *)
(* the deployed service, TRUE the unit of work built without metrics.     *)
(***************************************************************************)
EXTENDS Naturals, FiniteSets, Sequences

CONSTANTS
    Requests,        \* client requests handled concurrently
    Keys,            \* values of the Idempotency-Key header
    KeyOf,           \* KeyOf[q]: the header of request q ("" included)
    KindOf,          \* KindOf[q] \in {"create", "delete"}
    MaxProductId,    \* products_id_seq never goes past this bound
    MaxAttempts,     \* retryConfig.MaxAttempts of ProductService (3)
    MaxFaults,       \* bound on failed statements, commits and crashes
    ProductRepoInTx  \* see above

ASSUME RequestsAssumption == IsFiniteSet(Requests)
ASSUME KeyOfAssumption == KeyOf \in [Requests -> Keys]
ASSUME KindOfAssumption == KindOf \in [Requests -> {"create", "delete"}]
ASSUME ProductIdAssumption == MaxProductId \in Nat \ {0}
ASSUME MaxAttemptsAssumption == MaxAttempts \in Nat \ {0}
ASSUME MaxFaultsAssumption == MaxFaults \in Nat
ASSUME ProductRepoInTxAssumption == ProductRepoInTx \in BOOLEAN

ProductIds == 1..MaxProductId

(* An outbox row as the dispatcher will see it: the idempotency_key       *)
(* column, the event type and the product_id in event_data.               *)
OutboxRow == [key : Keys, type : {"PRODUCT_CREATED", "PRODUCT_DELETED"},
              pid : ProductIds]

EventType(q) ==
    IF KindOf[q] = "create" THEN "PRODUCT_CREATED" ELSE "PRODUCT_DELETED"

(* Where request q is:                                                    *)
(*   "lookup"  DeleteProduct's GetByID, outside any transaction           *)
(*   "begin"   an attempt of retry.Do about to call uow.Begin             *)
(*   "write"   transaction open, product Create or Delete next            *)
(*   "outbox"  product statement done, SaveEventsBatch next               *)
(*   "commit"  fn returned nil, the deferred Commit next                  *)
(*   "done"    the use case has returned                                  *)
Phase == {"lookup", "begin", "write", "outbox", "commit", "done"}

Result == {"none", "ok", "error", "notfound", "lost"}

VARIABLES
    createdIds,  \* ids whose products INSERT is committed
    deletedIds,  \* ids whose products DELETE is committed
    nextId,      \* next value of products_id_seq (nextval is not rolled back)
    outbox,      \* committed outbox rows
    pc,          \* pc[q] \in Phase
    pid,         \* product.ID of request q (0 until Create scans it)
    attempt,     \* attempt of retry.Do, from 1
    txIns,       \* products inserts of q's open transaction
    txDel,       \* products deletes of q's open transaction
    txOut,       \* outbox rows of q's open transaction
    domainEvents,\* product.domainEvents of q: the product ids of the events
                 \* recorded and not yet cleared, oldest first
    result,      \* what the use case returned to the handler
    faults       \* failures used so far

vars == <<createdIds, deletedIds, nextId, outbox, pc, pid, attempt, txIns,
          txDel, txOut, domainEvents, result, faults>>

(* The products table.                                                    *)
products == createdIds \ deletedIds

Fault == /\ faults < MaxFaults
         /\ faults' = faults + 1

(* The outbox row request q's SaveEventsBatch leaves.                    *)
(* publishDomainEventsBatch gives every event of domainEvents the         *)
(* caller's key ("" when the header was absent), and saveEventsBatchSingle *)
(* sends them in one INSERT ... VALUES (...), (...) ON CONFLICT           *)
(* (idempotency_key) DO NOTHING: the first event of the buffer is         *)
(* inserted and the others conflict with it.  The missing RETURNING rows  *)
(* are not an error.                                                      *)
RowOf(q) == [key |-> KeyOf[q], type |-> EventType(q),
             pid |-> Head(domainEvents[q])]

(* product.recordDomainEvent: the event of product id goes to the end of  *)
(* request q's buffer (RecordCreatedEvent, RecordDeleteEvent).            *)
recordDomainEvent(q, id) ==
    domainEvents' = [domainEvents EXCEPT ![q] = Append(@, id)]

(* product.ClearDomainEvents: the buffer of request q is emptied.         *)
ClearDomainEvents(q) == domainEvents' = [domainEvents EXCEPT ![q] = <<>>]

(* Another request's open transaction holds an uncommitted outbox row     *)
(* with this key: ON CONFLICT waits for it to end.                        *)
KeyInFlight(q, k) == \E o \in Requests \ {q} : \E row \in txOut[o] : row.key = k

(* Another open transaction holds the row lock of product id.             *)
DeleteInFlight(q, id) == \E o \in Requests \ {q} : id \in txDel[o]

-----------------------------------------------------------------------------
FailAttempt_OffByOne(q) ==
    (* mutant: retry.Do loops while attempt <= MaxAttempts                 *)
    /\ txIns' = [txIns EXCEPT ![q] = {}]
    /\ txDel' = [txDel EXCEPT ![q] = {}]
    /\ txOut' = [txOut EXCEPT ![q] = {}]
    /\ \/ /\ attempt[q] <= MaxAttempts
          /\ attempt' = [attempt EXCEPT ![q] = @ + 1]
          /\ pc' = [pc EXCEPT ![q] = "begin"]
          /\ UNCHANGED result
       \/ /\ attempt[q] = MaxAttempts
          /\ pc' = [pc EXCEPT ![q] = "done"]
          /\ result' = [result EXCEPT ![q] = "error"]
          /\ UNCHANGED attempt
    /\ UNCHANGED domainEvents

(* The error path of ExecuteInTransaction's closure: the deferred         *)
(* Rollback discards the transaction, and retry.Do either starts the next *)
(* attempt after its backoff or gives up with RetryExhausted.  The        *)
(* product's domainEvents are Go memory and survive the rollback: the     *)
(* next attempt runs the closure on the same product.                     *)
FailAttempt(q) ==
    /\ txIns' = [txIns EXCEPT ![q] = {}]
    /\ txDel' = [txDel EXCEPT ![q] = {}]
    /\ txOut' = [txOut EXCEPT ![q] = {}]
    /\ \/ /\ attempt[q] < MaxAttempts
          /\ attempt' = [attempt EXCEPT ![q] = @ + 1]
          /\ pc' = [pc EXCEPT ![q] = "begin"]
          /\ UNCHANGED result
       \/ /\ attempt[q] = MaxAttempts
          /\ pc' = [pc EXCEPT ![q] = "done"]
          /\ result' = [result EXCEPT ![q] = "error"]
          /\ UNCHANGED attempt
    /\ UNCHANGED domainEvents

Init ==
    /\ createdIds = {}
    /\ deletedIds = {}
    /\ nextId = 1
    /\ outbox = {}
    /\ pc = [q \in Requests |-> IF KindOf[q] = "create" THEN "begin"
                                                        ELSE "lookup"]
    /\ pid \in {f \in [Requests -> ProductIds \cup {0}] :
                \A q \in Requests : (f[q] = 0) <=> (KindOf[q] = "create")}
    /\ attempt = [q \in Requests |-> 1]
    /\ txIns = [q \in Requests |-> {}]
    /\ txDel = [q \in Requests |-> {}]
    /\ txOut = [q \in Requests |-> {}]
    /\ domainEvents = [q \in Requests |-> <<>>]
    /\ result = [q \in Requests |-> "none"]
    /\ faults = 0

(* DeleteProduct: GetByID on the pool; an absent row is ProductNotFound   *)
(* (404) before any transaction.  CanDeleteProduct accepts every product  *)
(* and RecordDeleteEvent puts one PRODUCT_DELETED event in the buffer of  *)
(* the product read, before DeleteProductWithEvent.                       *)
Lookup(q) ==
    /\ pc[q] = "lookup"
    /\ \/ /\ pid[q] \in products
          /\ pc' = [pc EXCEPT ![q] = "begin"]
          /\ recordDomainEvent(q, pid[q])
          /\ UNCHANGED result
       \/ /\ pid[q] \notin products
          /\ pc' = [pc EXCEPT ![q] = "done"]
          /\ result' = [result EXCEPT ![q] = "notfound"]
          /\ UNCHANGED domainEvents
    /\ UNCHANGED <<createdIds, deletedIds, nextId, outbox, pid, attempt,
                   txIns, txDel, txOut, faults>>

(* uow.Begin: BeginTx; an error fails the attempt.                        *)
Begin(q) ==
    /\ pc[q] = "begin"
    /\ \/ /\ pc' = [pc EXCEPT ![q] = "write"]
          /\ UNCHANGED <<attempt, txIns, txDel, txOut, result, faults>>
       \/ /\ Fault
          /\ FailAttempt(q)
    /\ UNCHANGED <<createdIds, deletedIds, nextId, outbox, pid, domainEvents>>

(* CreateProductWithEvent step 1: ProductRepository().Create, INSERT ...  *)
(* RETURNING id into product.ID, then RecordCreatedEvent, which appends a *)
(* PRODUCT_CREATED event of that id to the product's domainEvents.  The  *)
(* INSERT runs in the transaction when the repository is bound to it,     *)
(* otherwise it commits at once.                                          *)
CreateProduct(q) ==
    /\ pc[q] = "write"
    /\ KindOf[q] = "create"
    /\ \/ /\ nextId <= MaxProductId
          /\ nextId' = nextId + 1
          /\ pid' = [pid EXCEPT ![q] = nextId]
          /\ IF ProductRepoInTx
               THEN /\ txIns' = [txIns EXCEPT ![q] = @ \cup {nextId}]
                    /\ UNCHANGED createdIds
               ELSE /\ createdIds' = createdIds \cup {nextId}
                    /\ UNCHANGED txIns
          /\ recordDomainEvent(q, nextId)
          /\ pc' = [pc EXCEPT ![q] = "outbox"]
          /\ UNCHANGED <<attempt, txDel, txOut, result, faults>>
       \/ /\ Fault
          /\ FailAttempt(q)
          /\ UNCHANGED <<createdIds, nextId, pid>>
    /\ UNCHANGED <<deletedIds, outbox>>

DeleteProduct_NoRowsCheck(q) ==
    (* mutant: Delete does not check RowsAffected, a DELETE of a missing   *)
    (* row succeeds                                                        *)
    /\ pc[q] = "write"
    /\ KindOf[q] = "delete"
    /\ \/ /\ ProductRepoInTx /\ DeleteInFlight(q, pid[q])
          /\ UNCHANGED vars
       \/ /\ ~(ProductRepoInTx /\ DeleteInFlight(q, pid[q]))
          /\ IF ProductRepoInTx
               THEN /\ txDel' = [txDel EXCEPT ![q] = @ \cup {pid[q]}]
                    /\ UNCHANGED deletedIds
               ELSE /\ deletedIds' = deletedIds \cup {pid[q]}
                    /\ UNCHANGED txDel
          /\ pc' = [pc EXCEPT ![q] = "outbox"]
          /\ UNCHANGED <<attempt, txIns, txOut, result, faults>>
       \/ /\ Fault
          /\ FailAttempt(q)
          /\ UNCHANGED deletedIds
    /\ UNCHANGED <<createdIds, nextId, outbox, pid, domainEvents>>

(* DeleteProductWithEvent step 1: ProductRepository().Delete.  Zero rows  *)
(* affected is ProductNotFound, an error of fn like any other, so the     *)
(* retrier runs the attempt again.  In a transaction the DELETE blocks on *)
(* the row lock of another open transaction deleting the same row, and    *)
(* finds the row gone if that one commits.                                *)
DeleteProduct(q) ==
    /\ pc[q] = "write"
    /\ KindOf[q] = "delete"
    /\ \/ /\ ProductRepoInTx /\ DeleteInFlight(q, pid[q])
          /\ UNCHANGED vars
       \/ /\ pid[q] \in products
          /\ ~(ProductRepoInTx /\ DeleteInFlight(q, pid[q]))
          /\ IF ProductRepoInTx
               THEN /\ txDel' = [txDel EXCEPT ![q] = @ \cup {pid[q]}]
                    /\ UNCHANGED deletedIds
               ELSE /\ deletedIds' = deletedIds \cup {pid[q]}
                    /\ UNCHANGED txDel
          /\ pc' = [pc EXCEPT ![q] = "outbox"]
          /\ UNCHANGED <<attempt, txIns, txOut, result, faults>>
       \/ /\ pid[q] \notin products
          /\ FailAttempt(q)
          /\ UNCHANGED <<deletedIds, faults>>
       \/ /\ Fault
          /\ FailAttempt(q)
          /\ UNCHANGED deletedIds
    /\ UNCHANGED <<createdIds, nextId, outbox, pid, domainEvents>>

SaveEventsBatch_Autocommit(q) ==
    (* mutant: the outbox repository is not bound to the transaction, its  *)
    (* INSERT commits at once                                              *)
    /\ pc[q] = "outbox"
    /\ \/ /\ IF \E row \in outbox : row.key = KeyOf[q]
               THEN UNCHANGED outbox
               ELSE outbox' = outbox \cup {RowOf(q)}
          /\ ClearDomainEvents(q)
          /\ pc' = [pc EXCEPT ![q] = "commit"]
          /\ UNCHANGED <<attempt, txIns, txDel, txOut, result, faults>>
       \/ /\ Fault
          /\ FailAttempt(q)
          /\ UNCHANGED outbox
    /\ UNCHANGED <<createdIds, deletedIds, nextId, pid>>

(* publishDomainEventsBatch -> SaveEventsBatch: INSERT ... ON CONFLICT    *)
(* (idempotency_key) DO NOTHING in the transaction.  A committed row with *)
(* the key makes it a no-op success; an uncommitted one of another        *)
(* transaction blocks the statement, still waiting, until that           *)
(* transaction ends.  On success the closure calls ClearDomainEvents.     *)
SaveEventsBatch(q) ==
    /\ pc[q] = "outbox"
    /\ \/ /\ KeyInFlight(q, KeyOf[q])
          /\ UNCHANGED vars
       \/ /\ ~KeyInFlight(q, KeyOf[q])
          /\ IF \E row \in outbox : row.key = KeyOf[q]
               THEN UNCHANGED txOut
               ELSE txOut' = [txOut EXCEPT ![q] = @ \cup {RowOf(q)}]
          /\ ClearDomainEvents(q)
          /\ pc' = [pc EXCEPT ![q] = "commit"]
          /\ UNCHANGED <<attempt, txIns, txDel, result, faults>>
       \/ /\ Fault
          /\ FailAttempt(q)
    /\ UNCHANGED <<createdIds, deletedIds, nextId, outbox, pid>>

Commit_KeepTxOnError(q) ==
    (* mutant: a failed Commit leaves the transaction open on its          *)
    (* connection instead of rolling it back                               *)
    /\ pc[q] = "commit"
    /\ \/ /\ createdIds' = createdIds \cup txIns[q]
          /\ deletedIds' = deletedIds \cup txDel[q]
          /\ outbox' = outbox \cup txOut[q]
          /\ txIns' = [txIns EXCEPT ![q] = {}]
          /\ txDel' = [txDel EXCEPT ![q] = {}]
          /\ txOut' = [txOut EXCEPT ![q] = {}]
          /\ UNCHANGED faults
       \/ /\ Fault
          /\ UNCHANGED <<createdIds, deletedIds, outbox, txIns, txDel, txOut>>
    /\ pc' = [pc EXCEPT ![q] = "done"]
    /\ result' = [result EXCEPT ![q] = "ok"]
    /\ UNCHANGED <<nextId, pid, attempt, domainEvents>>

(* The deferred Commit of ExecuteInTransaction.  On a commit error it     *)
(* logs, calls Rollback and assigns originalErr, but the closure has      *)
(* already returned nil, so retry.Do and the use case report success.     *)
Commit(q) ==
    /\ pc[q] = "commit"
    /\ \/ /\ createdIds' = createdIds \cup txIns[q]
          /\ deletedIds' = deletedIds \cup txDel[q]
          /\ outbox' = outbox \cup txOut[q]
          /\ UNCHANGED faults
       \/ /\ Fault
          /\ UNCHANGED <<createdIds, deletedIds, outbox>>
    /\ txIns' = [txIns EXCEPT ![q] = {}]
    /\ txDel' = [txDel EXCEPT ![q] = {}]
    /\ txOut' = [txOut EXCEPT ![q] = {}]
    /\ pc' = [pc EXCEPT ![q] = "done"]
    /\ result' = [result EXCEPT ![q] = "ok"]
    /\ UNCHANGED <<nextId, pid, attempt, domainEvents>>

(* The products process dies: every open transaction is aborted by the   *)
(* database and no request in flight gets an answer.                      *)
Crash ==
    /\ \E q \in Requests : pc[q] # "done"
    /\ Fault
    /\ pc' = [q \in Requests |-> "done"]
    /\ result' = [q \in Requests |-> IF pc[q] = "done" THEN result[q]
                                                       ELSE "lost"]
    /\ txIns' = [q \in Requests |-> {}]
    /\ txDel' = [q \in Requests |-> {}]
    /\ txOut' = [q \in Requests |-> {}]
    /\ UNCHANGED <<createdIds, deletedIds, nextId, outbox, pid, attempt,
                   domainEvents>>

(* The steps of request q.                                                *)
RequestStep(q) ==
    \/ Lookup(q)
    \/ Begin(q)
    \/ CreateProduct(q)
    \/ DeleteProduct(q)
    \/ SaveEventsBatch(q)
    \/ Commit(q)

(* Every request has returned: nothing is left to do.                     *)
Finished == /\ \A q \in Requests : pc[q] = "done"
            /\ UNCHANGED vars

Next == (\E q \in Requests : RequestStep(q)) \/ Crash \/ Finished

Spec == Init /\ [][Next]_vars

(* Each request runs on its own goroutine until it returns: a statement  *)
(* that can run does.                                                     *)
FairSpec == Spec /\ \A q \in Requests : WF_vars(RequestStep(q))

-----------------------------------------------------------------------------
(* Properties.                                                            *)

TypeOK ==
    /\ createdIds \subseteq ProductIds
    /\ deletedIds \subseteq ProductIds
    /\ nextId \in 1..(MaxProductId + 1)
    /\ outbox \subseteq OutboxRow
    /\ pc \in [Requests -> Phase]
    /\ pid \in [Requests -> ProductIds \cup {0}]
    /\ attempt \in [Requests -> 1..MaxAttempts]
    /\ txIns \in [Requests -> SUBSET ProductIds]
    /\ txDel \in [Requests -> SUBSET ProductIds]
    /\ txOut \in [Requests -> SUBSET OutboxRow]
    /\ domainEvents \in [Requests -> Seq(ProductIds)]
    /\ result \in [Requests -> Result]
    /\ faults \in 0..MaxFaults

(* The product ids named by committed outbox rows of one type.            *)
EventPids(type) == {row.pid : row \in {e \in outbox : e.type = type}}

(* Outbox atomicity for deletes (spec sections 3 and 4.4): a committed   *)
(* product DELETE and its PRODUCT_DELETED row commit together or not at  *)
(* all, in every state, with concurrent deletes of one product, failed    *)
(* statements, retries, failed commits and crashes.                       *)
DeleteAtomicity == EventPids("PRODUCT_DELETED") = deletedIds

(* A request the service reports as successful has its mutation and its  *)
(* outbox row committed (spec section 8, outbox atomicity: after a        *)
(* successful CreateProductWithEvent there is one product and one row).   *)
SuccessMeansCommitted ==
    \A q \in Requests :
        result[q] = "ok" =>
            /\ KindOf[q] = "create" => pid[q] \in createdIds
            /\ KindOf[q] = "delete" => pid[q] \in deletedIds
            /\ \E row \in outbox : row.key = KeyOf[q]

(* No lost events (spec section 8): once every request has returned,     *)
(* whatever failed or crashed on the way, every committed product insert  *)
(* and delete has its event in the outbox, so the dispatcher will         *)
(* publish it.                                                            *)
NoLostEvents ==
    (\A q \in Requests : pc[q] = "done") =>
        /\ createdIds \subseteq EventPids("PRODUCT_CREATED")
        /\ deletedIds \subseteq EventPids("PRODUCT_DELETED")

(* Concurrent deletes of one product (both pass GetByID) publish one      *)
(* PRODUCT_DELETED event between them: the one that finds the row gone    *)
(* gets ProductNotFound from the RowsAffected check of Delete and writes  *)
(* no outbox row.                                                         *)
SingleDeleteEvent ==
    \A e1, e2 \in outbox :
        e1.type = "PRODUCT_DELETED" /\ e2.type = "PRODUCT_DELETED"
        /\ e1.pid = e2.pid => e1 = e2

(* Every request returns: the retries are bounded, and a request waiting  *)
(* on another transaction's idempotency key or row lock is released when  *)
(* that transaction commits or rolls back.                                *)
RequestsComplete == \A q \in Requests : <>(pc[q] = "done")

(* The write path implements the atomic write of AtomicProductWrite      *)
(* (spec sections 3, 4.4 and 8): every step either leaves the products   *)
(* and outbox tables alone or is one create or delete committed together *)
(* with its event for the same product, on a fresh id (create) or a      *)
(* product that exists (delete), under a key that has no row yet.        *)
Atomic == INSTANCE AtomicProductWrite WITH createdIds <- createdIds,
            deletedIds <- deletedIds, outbox <- outbox,
            ProductIds <- ProductIds
AtomicWriteRefined == Atomic!Spec

=============================================================================
