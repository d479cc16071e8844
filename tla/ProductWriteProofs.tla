-------------------------- MODULE ProductWriteProofs --------------------------
(***************************************************************************)
(* Proofs about the write path of module ProductWrite, for every number   *)
(* of requests, keys, product ids, attempts and faults.  Type correctness *)
(* and SingleDeleteEvent hold for both wirings of the unit of work;       *)
(* DeleteAtomicity is proved for the wiring that binds the product        *)
(* repository to the transaction and for requests with distinct           *)
(* Idempotency-Key headers, the configuration of write_concurrent_delete. *)
(* The create half of outbox atomicity is false (run write_create_retry): *)
(* the event buffer of a product survives a rolled-back attempt.          *)
(***************************************************************************)
EXTENDS ProductWrite, SequenceTheorems, TLAPS

(* The two buffer operations are abbreviations for their EXCEPT.          *)
USE DEF recordDomainEvent, ClearDomainEvents

(* Request q has written its product statement and not yet ended its     *)
(* transaction: SaveEventsBatch or the deferred Commit is next.           *)
Holding(q) == pc[q] \in {"outbox", "commit"}

(* What product.domainEvents holds at each phase of request q.  A delete *)
(* request is at "lookup" with an empty buffer and the id of its URL; from *)
(* RecordDeleteEvent until SaveEventsBatch succeeds its buffer is that one *)
(* event, whatever attempts fail.  A request about to call               *)
(* SaveEventsBatch has at least one event, so RowOf names a product id.   *)
BufOf(q) ==
    /\ pc[q] = "lookup" => KindOf[q] = "delete" /\ domainEvents[q] = <<>>
    /\ pc[q] = "outbox" => domainEvents[q] # <<>>
    /\ KindOf[q] = "delete" =>
           /\ pid[q] \in ProductIds
           /\ pc[q] \in {"begin", "write", "outbox"} =>
                  domainEvents[q] = <<pid[q]>>

(* The strengthening of TypeOK.                                           *)
TypeInv == TypeOK /\ \A q \in Requests : BufOf(q)

(* The outbox row of the event RecordDeleteEvent records for request q.   *)
DelRow(q) == [key |-> KeyOf[q], type |-> "PRODUCT_DELETED", pid |-> pid[q]]

(* What an open transaction of request q holds, in either wiring: outbox *)
(* rows of its own key and event type, only after SaveEventsBatch, the    *)
(* delete's own row for a delete request; a product DELETE only between   *)
(* the statement and the end of the attempt, committed or in the          *)
(* transaction while q holds it.  Without the product repository in the  *)
(* transaction it holds no product statement at all.                      *)
TxShapeOf(q) ==
    /\ \A e \in txOut[q] : e.key = KeyOf[q] /\ e.type = EventType(q)
    /\ KindOf[q] = "delete" => txOut[q] \subseteq {DelRow(q)}
    /\ pc[q] # "commit" => txOut[q] = {}
    /\ ~Holding(q) => txDel[q] = {}
    /\ Holding(q) /\ KindOf[q] = "create" => txDel[q] = {}
    /\ Holding(q) /\ KindOf[q] = "delete" =>
           /\ txDel[q] \subseteq {pid[q]}
           /\ pid[q] \in deletedIds \cup txDel[q]
    /\ ~ProductRepoInTx => txDel[q] = {}

TxShape == \A q \in Requests : TxShapeOf(q)

(* Every committed PRODUCT_DELETED row names a committed delete.          *)
DelEvents == EventPids("PRODUCT_DELETED") \subseteq deletedIds

(* Two delete requests never hold the same product at once, and a        *)
(* request holding a delete has no committed PRODUCT_DELETED row for its *)
(* product yet: the first to delete it either committed it (the other    *)
(* then finds it gone) or holds its row lock.                             *)
DelHolding(q) == Holding(q) /\ KindOf[q] = "delete"

DeleteHolders ==
    /\ \A q1, q2 \in Requests :
           q1 # q2 /\ DelHolding(q1) /\ DelHolding(q2) => pid[q1] # pid[q2]
    /\ \A q \in Requests :
           DelHolding(q) =>
               \A e \in outbox : e.type = "PRODUCT_DELETED" => e.pid # pid[q]

IInvDelete == TypeInv /\ TxShape /\ DelEvents /\ DeleteHolders /\ SingleDeleteEvent

(* Every request carries its own Idempotency-Key header.                  *)
KeysDistinct == \A q1, q2 \in Requests : KeyOf[q1] = KeyOf[q2] => q1 = q2

(* With the transactional wiring: a delete holder holds exactly its      *)
(* DELETE, and once past SaveEventsBatch exactly its row; a committed row *)
(* bears only the key of a request that has returned.                     *)
TxExactOf(q) ==
    /\ DelHolding(q) => txDel[q] = {pid[q]}
    /\ pc[q] = "commit" /\ KindOf[q] = "delete" => txOut[q] = {DelRow(q)}
    /\ pc[q] # "done" => \A e \in outbox : e.key # KeyOf[q]

TxExact == \A q \in Requests : TxExactOf(q)

IInvAtomic == TypeInv /\ TxShape /\ TxExact /\ DeleteAtomicity

-----------------------------------------------------------------------------
(* Type correctness.                                                      *)

(* Updating one entry of a function with a value of its range keeps the  *)
(* function in its function set.                                          *)
LEMMA ExceptType ==
    ASSUME NEW S, NEW T, NEW f \in [S -> T], NEW x \in S, NEW v \in T
    PROVE  [f EXCEPT ![x] = v] \in [S -> T]
OBVIOUS

(* A Fault step stays within the fault budget.                            *)
LEMMA FaultType ==
    ASSUME TypeOK, Fault
    PROVE  faults' \in 0..MaxFaults
BY MaxFaultsAssumption DEF Fault, TypeOK

(* The buffer of a request whose phase, id and buffer a step leaves      *)
(* alone keeps its invariant.                                             *)
LEMMA BufFrame ==
    ASSUME NEW p \in Requests, BufOf(p),
           pc'[p] = pc[p], pid'[p] = pid[p], domainEvents'[p] = domainEvents[p]
    PROVE  BufOf(p)'
BY DEF BufOf

(* The initial state: every create request starts at "begin" with no     *)
(* product id, every delete request at "lookup" with the id of its URL,  *)
(* and every buffer is empty.                                             *)
LEMMA TypeInvInit == Init => TypeInv
BY MaxAttemptsAssumption, MaxFaultsAssumption, ProductIdAssumption,
   KindOfAssumption
   DEF Init, TypeInv, TypeOK, BufOf, Phase, Result, ProductIds

(* The error path of an attempt keeps the types: the retrier counts only *)
(* up to MaxAttempts, the request leaves its transaction for "begin" or  *)
(* "done", and its buffer is kept as it was.                              *)
LEMMA FailAttemptTypeInv ==
    ASSUME TypeInv, NEW q \in Requests, FailAttempt(q),
           pc[q] \in {"begin", "write", "outbox"},
           faults' \in 0..MaxFaults,
           UNCHANGED <<createdIds, deletedIds, nextId, outbox, pid>>
    PROVE  TypeInv'
<1>1. TypeOK'
  <2>1. domainEvents' = domainEvents
    BY DEF FailAttempt
  <2>2. /\ attempt' \in [Requests -> 1..MaxAttempts]
        /\ pc' \in [Requests -> Phase]
        /\ result' \in [Requests -> Result]
    <3>1. CASE /\ attempt[q] < MaxAttempts
               /\ attempt' = [attempt EXCEPT ![q] = @ + 1]
               /\ pc' = [pc EXCEPT ![q] = "begin"]
               /\ UNCHANGED result
      BY <3>1, MaxAttemptsAssumption DEF TypeInv, TypeOK, Phase
    <3>2. CASE /\ pc' = [pc EXCEPT ![q] = "done"]
               /\ result' = [result EXCEPT ![q] = "error"]
               /\ UNCHANGED attempt
      BY <3>2 DEF TypeInv, TypeOK, Phase, Result
    <3> QED BY <3>1, <3>2 DEF FailAttempt
  <2>3. /\ txIns' \in [Requests -> SUBSET ProductIds]
        /\ txDel' \in [Requests -> SUBSET ProductIds]
        /\ txOut' \in [Requests -> SUBSET OutboxRow]
    BY DEF FailAttempt, TypeInv, TypeOK
  <2> QED BY <2>1, <2>2, <2>3 DEF TypeInv, TypeOK
<1>2. ASSUME NEW p \in Requests PROVE BufOf(p)'
  <2>1. CASE p = q
    <3>1. pc'[q] \in {"begin", "done"} /\ domainEvents' = domainEvents
      BY DEF FailAttempt, TypeInv, TypeOK
    <3> QED BY <2>1, <3>1 DEF TypeInv, BufOf
  <2>2. CASE p # q
    BY <2>2, BufFrame DEF FailAttempt, TypeInv, TypeOK
  <2> QED BY <2>1, <2>2
<1> QED BY <1>1, <1>2 DEF TypeInv

(* Lookup keeps the types: a product that is found gets its one delete   *)
(* event in the empty buffer, and the request moves to "begin".           *)
LEMMA LookupTypeInv ==
    ASSUME TypeInv, NEW q \in Requests, Lookup(q)
    PROVE  TypeInv'
<1>0. /\ pc[q] = "lookup"
      /\ UNCHANGED <<createdIds, deletedIds, nextId, outbox, pid, attempt,
                     txIns, txDel, txOut, faults>>
  BY DEF Lookup
<1>1. KindOf[q] = "delete" /\ pid[q] \in ProductIds /\ domainEvents[q] = <<>>
  BY <1>0 DEF TypeInv, BufOf
<1>2. CASE /\ pc' = [pc EXCEPT ![q] = "begin"]
           /\ domainEvents' = [domainEvents EXCEPT ![q] = Append(@, pid[q])]
           /\ UNCHANGED result
  <2>1. domainEvents'[q] = <<pid[q]>> /\ pc'[q] = "begin"
    BY <1>1, <1>2 DEF TypeInv, TypeOK
  <2>2. TypeOK'
    <3>1. domainEvents' \in [Requests -> Seq(ProductIds)]
      BY <1>1, <1>2 DEF TypeInv, TypeOK
    <3>2. pc' \in [Requests -> Phase]
      BY <1>2 DEF TypeInv, TypeOK, Phase
    <3> QED BY <1>0, <1>2, <3>1, <3>2 DEF TypeInv, TypeOK
  <2>3. ASSUME NEW p \in Requests PROVE BufOf(p)'
    <3>1. CASE p = q
      BY <1>0, <1>1, <2>1, <3>1 DEF BufOf
    <3>2. CASE p # q
      BY <1>0, <1>2, <3>2, BufFrame DEF TypeInv, TypeOK
    <3> QED BY <3>1, <3>2
  <2> QED BY <2>2, <2>3 DEF TypeInv
<1>3. CASE /\ pc' = [pc EXCEPT ![q] = "done"]
           /\ result' = [result EXCEPT ![q] = "notfound"]
           /\ UNCHANGED domainEvents
  <2>1. TypeOK'
    BY <1>0, <1>3 DEF TypeInv, TypeOK, Phase, Result
  <2>2. ASSUME NEW p \in Requests PROVE BufOf(p)'
    <3>1. CASE p = q
      BY <1>0, <1>1, <1>3, <3>1 DEF TypeInv, TypeOK, BufOf
    <3>2. CASE p # q
      BY <1>0, <1>3, <3>2, BufFrame DEF TypeInv, TypeOK
    <3> QED BY <3>1, <3>2
  <2> QED BY <2>1, <2>2 DEF TypeInv
<1> QED BY <1>2, <1>3 DEF Lookup

(* A successful CreateProduct puts the new id in the buffer: the request *)
(* reaches "outbox" with an event to save.                                *)
LEMMA CreateTypeInv ==
    ASSUME TypeInv, NEW q \in Requests, CreateProduct(q)
    PROVE  TypeInv'
<1>0. UNCHANGED <<deletedIds, outbox>> /\ KindOf[q] = "create" /\ pc[q] = "write"
  BY DEF CreateProduct
<1>1. CASE /\ nextId <= MaxProductId
           /\ nextId' = nextId + 1
           /\ pid' = [pid EXCEPT ![q] = nextId]
           /\ IF ProductRepoInTx
                THEN /\ txIns' = [txIns EXCEPT ![q] = @ \cup {nextId}]
                     /\ UNCHANGED createdIds
                ELSE /\ createdIds' = createdIds \cup {nextId}
                     /\ UNCHANGED txIns
           /\ domainEvents' = [domainEvents EXCEPT ![q] = Append(@, nextId)]
           /\ pc' = [pc EXCEPT ![q] = "outbox"]
           /\ UNCHANGED <<attempt, txDel, txOut, result, faults>>
  <2>1. nextId \in ProductIds
    BY <1>1 DEF TypeInv, TypeOK, ProductIds
  <2>2. TypeOK'
    <3>1. createdIds' \subseteq ProductIds
          /\ txIns' \in [Requests -> SUBSET ProductIds]
      <4>1. CASE ProductRepoInTx
        <5>1. txIns[q] \cup {nextId} \in SUBSET ProductIds
          BY <2>1 DEF TypeInv, TypeOK
        <5>2. txIns' = [txIns EXCEPT ![q] = txIns[q] \cup {nextId}]
              /\ createdIds' = createdIds
          BY <1>1, <4>1
        <5> QED BY <5>1, <5>2, ExceptType DEF TypeInv, TypeOK
      <4>2. CASE ~ProductRepoInTx
        BY <1>1, <2>1, <4>2 DEF TypeInv, TypeOK
      <4> QED BY <4>1, <4>2
    <3>2. nextId' \in 1..(MaxProductId + 1)
      BY <1>1, ProductIdAssumption DEF TypeInv, TypeOK
    <3>3. pid' \in [Requests -> ProductIds \cup {0}]
      BY <1>1, <2>1 DEF TypeInv, TypeOK
    <3>4. pc' \in [Requests -> Phase]
      BY <1>1 DEF TypeInv, TypeOK, Phase
    <3>5. domainEvents' \in [Requests -> Seq(ProductIds)]
      BY <1>1, <2>1 DEF TypeInv, TypeOK
    <3> QED BY <1>0, <1>1, <3>1, <3>2, <3>3, <3>4, <3>5 DEF TypeInv, TypeOK
  <2>3. ASSUME NEW p \in Requests PROVE BufOf(p)'
    <3>1. CASE p = q
      <4>1. pc'[q] = "outbox"
            /\ domainEvents'[q] = Append(domainEvents[q], nextId)
        BY <1>1 DEF TypeInv, TypeOK
      <4>2. nextId \in ProductIds /\ domainEvents[q] \in Seq(ProductIds)
        BY <2>1 DEF TypeInv, TypeOK
      <4>3. domainEvents'[q] # <<>>
        BY <4>1, <4>2, AppendProperties
      <4> QED BY <1>0, <3>1, <4>1, <4>3 DEF BufOf
    <3>2. CASE p # q
      BY <1>1, <3>2, BufFrame DEF TypeInv, TypeOK
    <3> QED BY <3>1, <3>2
  <2> QED BY <2>2, <2>3 DEF TypeInv
<1>2. CASE Fault /\ FailAttempt(q) /\ UNCHANGED <<createdIds, nextId, pid>>
  BY <1>0, <1>2, FaultType, FailAttemptTypeInv DEF TypeInv
<1> QED BY <1>1, <1>2 DEF CreateProduct

(* A successful DeleteProduct moves the request to "outbox" with its one *)
(* delete event still in the buffer.                                      *)
LEMMA DeleteTypeInv ==
    ASSUME TypeInv, NEW q \in Requests, DeleteProduct(q)
    PROVE  TypeInv'
<1>0. /\ UNCHANGED <<createdIds, nextId, outbox, pid, domainEvents>>
      /\ KindOf[q] = "delete" /\ pc[q] = "write"
  BY DEF DeleteProduct
<1>1. CASE UNCHANGED vars
  BY <1>1 DEF vars, TypeInv, TypeOK, BufOf
<1>2. CASE /\ pid[q] \in products
           /\ IF ProductRepoInTx
                THEN /\ txDel' = [txDel EXCEPT ![q] = @ \cup {pid[q]}]
                     /\ UNCHANGED deletedIds
                ELSE /\ deletedIds' = deletedIds \cup {pid[q]}
                     /\ UNCHANGED txDel
           /\ pc' = [pc EXCEPT ![q] = "outbox"]
           /\ UNCHANGED <<attempt, txIns, txOut, result, faults>>
  <2>1. pid[q] \in ProductIds /\ domainEvents[q] = <<pid[q]>>
    BY <1>0 DEF TypeInv, BufOf
  <2>2. TypeOK'
    <3>1. pc' \in [Requests -> Phase]
      BY <1>2 DEF TypeInv, TypeOK, Phase
    <3>2. CASE ProductRepoInTx
      <4>1. txDel' = [txDel EXCEPT ![q] = txDel[q] \cup {pid[q]}]
            /\ deletedIds' = deletedIds
        BY <1>2, <3>2
      <4>2. txDel[q] \cup {pid[q]} \in SUBSET ProductIds
        BY <2>1 DEF TypeInv, TypeOK
      <4> QED BY <1>0, <1>2, <3>1, <4>1, <4>2, ExceptType DEF TypeInv, TypeOK
    <3>3. CASE ~ProductRepoInTx
      <4>1. deletedIds' = deletedIds \cup {pid[q]} /\ txDel' = txDel
        BY <1>2, <3>3
      <4> QED BY <1>0, <1>2, <2>1, <3>1, <4>1 DEF TypeInv, TypeOK
    <3> QED BY <3>2, <3>3
  <2>3. ASSUME NEW p \in Requests PROVE BufOf(p)'
    <3>1. CASE p = q
      <4>1. pc'[q] = "outbox"
        BY <1>2 DEF TypeInv, TypeOK
      <4> QED BY <1>0, <2>1, <3>1, <4>1 DEF BufOf
    <3>2. CASE p # q
      BY <1>0, <1>2, <3>2, BufFrame DEF TypeInv, TypeOK
    <3> QED BY <3>1, <3>2
  <2> QED BY <2>2, <2>3 DEF TypeInv
<1>3. CASE FailAttempt(q) /\ UNCHANGED <<deletedIds, faults>>
  BY <1>0, <1>3, FailAttemptTypeInv DEF TypeInv, TypeOK
<1>4. CASE Fault /\ FailAttempt(q) /\ UNCHANGED deletedIds
  BY <1>0, <1>4, FaultType, FailAttemptTypeInv DEF TypeInv
<1> QED BY <1>1, <1>2, <1>3, <1>4 DEF DeleteProduct

(* A successful SaveEventsBatch writes an outbox row naming the first    *)
(* buffered id and clears the buffer (ClearDomainEvents).                 *)
LEMMA SaveTypeInv ==
    ASSUME TypeInv, NEW q \in Requests, SaveEventsBatch(q)
    PROVE  TypeInv'
<1>0. UNCHANGED <<createdIds, deletedIds, nextId, outbox, pid>> /\ pc[q] = "outbox"
  BY DEF SaveEventsBatch
<1>1. CASE UNCHANGED vars
  BY <1>1 DEF vars, TypeInv, TypeOK, BufOf
<1>2. CASE /\ IF \E row \in outbox : row.key = KeyOf[q]
                THEN UNCHANGED txOut
                ELSE txOut' = [txOut EXCEPT ![q] = @ \cup {RowOf(q)}]
           /\ domainEvents' = [domainEvents EXCEPT ![q] = <<>>]
           /\ pc' = [pc EXCEPT ![q] = "commit"]
           /\ UNCHANGED <<attempt, txIns, txDel, result, faults>>
  <2>1. Head(domainEvents[q]) \in ProductIds
    <3>1. domainEvents[q] \in Seq(ProductIds) /\ domainEvents[q] # <<>>
      BY <1>0 DEF TypeInv, TypeOK, BufOf
    <3> QED BY <3>1, HeadTailProperties
  <2>2. RowOf(q) \in OutboxRow
    BY <2>1, KeyOfAssumption, KindOfAssumption DEF RowOf, OutboxRow, EventType
  <2>3. TypeOK'
    <3>1. txOut' \in [Requests -> SUBSET OutboxRow]
      <4>1. CASE txOut' = txOut
        BY <4>1 DEF TypeInv, TypeOK
      <4>2. CASE txOut' = [txOut EXCEPT ![q] = txOut[q] \cup {RowOf(q)}]
        <5>1. txOut[q] \cup {RowOf(q)} \in SUBSET OutboxRow
          BY <2>2 DEF TypeInv, TypeOK
        <5> QED BY <4>2, <5>1, ExceptType DEF TypeInv, TypeOK
      <4> QED BY <1>2, <4>1, <4>2
    <3>2. domainEvents' \in [Requests -> Seq(ProductIds)]
      BY <1>2 DEF TypeInv, TypeOK
    <3>3. pc' \in [Requests -> Phase]
      BY <1>2 DEF TypeInv, TypeOK, Phase
    <3> QED BY <1>0, <1>2, <3>1, <3>2, <3>3 DEF TypeInv, TypeOK
  <2>4. ASSUME NEW p \in Requests PROVE BufOf(p)'
    <3>1. CASE p = q
      <4>1. pc'[q] = "commit"
        BY <1>2 DEF TypeInv, TypeOK
      <4> QED BY <1>0, <3>1, <4>1 DEF TypeInv, BufOf
    <3>2. CASE p # q
      BY <1>0, <1>2, <3>2, BufFrame DEF TypeInv, TypeOK
    <3> QED BY <3>1, <3>2
  <2> QED BY <2>3, <2>4 DEF TypeInv
<1>3. CASE Fault /\ FailAttempt(q)
  BY <1>0, <1>3, FaultType, FailAttemptTypeInv DEF TypeInv
<1> QED BY <1>1, <1>2, <1>3 DEF SaveEventsBatch

(* Every step keeps TypeInv.                                              *)
LEMMA TypeInvNext == TypeInv /\ [Next]_vars => TypeInv'
<1> SUFFICES ASSUME TypeInv, [Next]_vars PROVE TypeInv'
    OBVIOUS
<1>1. ASSUME NEW q \in Requests, Lookup(q) PROVE TypeInv'
  BY <1>1, LookupTypeInv
<1>2. ASSUME NEW q \in Requests, Begin(q) PROVE TypeInv'
  <2>0. pc[q] = "begin" /\ UNCHANGED <<createdIds, deletedIds, nextId, outbox, pid,
                                      domainEvents>>
    BY <1>2 DEF Begin
  <2>1. CASE pc' = [pc EXCEPT ![q] = "write"]
             /\ UNCHANGED <<attempt, txIns, txDel, txOut, result, faults>>
    <3>1. TypeOK'
      BY <2>0, <2>1 DEF TypeInv, TypeOK, Phase
    <3>2. ASSUME NEW p \in Requests PROVE BufOf(p)'
      <4>1. CASE p = q
        BY <2>0, <2>1, <4>1 DEF TypeInv, TypeOK, BufOf
      <4>2. CASE p # q
        BY <2>0, <2>1, <4>2, BufFrame DEF TypeInv, TypeOK
      <4> QED BY <4>1, <4>2
    <3> QED BY <3>1, <3>2 DEF TypeInv
  <2>2. CASE Fault /\ FailAttempt(q)
    BY <2>0, <2>2, FaultType, FailAttemptTypeInv DEF TypeInv
  <2> QED BY <1>2, <2>1, <2>2 DEF Begin
<1>3. ASSUME NEW q \in Requests, CreateProduct(q) PROVE TypeInv'
  BY <1>3, CreateTypeInv
<1>4. ASSUME NEW q \in Requests, DeleteProduct(q) PROVE TypeInv'
  BY <1>4, DeleteTypeInv
<1>5. ASSUME NEW q \in Requests, SaveEventsBatch(q) PROVE TypeInv'
  BY <1>5, SaveTypeInv
<1>6. ASSUME NEW q \in Requests, Commit(q) PROVE TypeInv'
  <2>1. faults' \in 0..MaxFaults
    BY <1>6, FaultType DEF Commit, TypeInv, TypeOK
  <2>2. TypeOK'
    BY <1>6, <2>1 DEF Commit, TypeInv, TypeOK, Phase, Result
  <2>3. ASSUME NEW p \in Requests PROVE BufOf(p)'
    <3>1. CASE p = q
      <4>1. pc'[q] = "done" /\ pid' = pid
        BY <1>6 DEF Commit, TypeInv, TypeOK
      <4> QED BY <3>1, <4>1 DEF TypeInv, BufOf
    <3>2. CASE p # q
      BY <1>6, <3>2, BufFrame DEF Commit, TypeInv, TypeOK
    <3> QED BY <3>1, <3>2
  <2> QED BY <2>2, <2>3 DEF TypeInv
<1>7. CASE Crash
  <2>1. TypeOK'
    BY <1>7, FaultType DEF Crash, TypeInv, TypeOK, Phase, Result
  <2>2. ASSUME NEW p \in Requests PROVE BufOf(p)'
    BY <1>7 DEF Crash, TypeInv, BufOf
  <2> QED BY <2>1, <2>2 DEF TypeInv
<1>8. CASE Finished \/ UNCHANGED vars
  BY <1>8 DEF Finished, vars, TypeInv, TypeOK, BufOf
<1> QED BY <1>1, <1>2, <1>3, <1>4, <1>5, <1>6, <1>7, <1>8
        DEF Next, RequestStep

(* The write path keeps its variables in their types, for every number   *)
(* of requests, product ids, attempts and faults: in particular the      *)
(* retrier of ExecuteInTransaction never runs attempt past MaxAttempts,  *)
(* products_id_seq never hands out an id past MaxProductId, and every    *)
(* outbox row SaveEventsBatch writes names a product id: a request       *)
(* reaches SaveEventsBatch only with an event in product.domainEvents.   *)
THEOREM TypeCorrect == Spec => []TypeOK
<1>1. TypeInv => TypeOK
  BY DEF TypeInv
<1> QED BY TypeInvInit, TypeInvNext, <1>1, PTL DEF Spec

-----------------------------------------------------------------------------
(* The shape of the open transactions.                                    *)

LEMMA TxShapeInit == Init => TxShape
BY DEF Init, TxShape, TxShapeOf, Holding

(* A request that is not in a transaction, with nothing in it, has the   *)
(* shape: this is where Lookup, Begin, the error path and Commit leave it.*)
LEMMA Released ==
    ASSUME NEW q \in Requests,
           pc'[q] \in {"lookup", "begin", "write", "done"},
           txDel'[q] = {}, txOut'[q] = {}
    PROVE  TxShapeOf(q)'
BY DEF TxShapeOf, Holding

(* The steps of one request leave the shape of another request alone:    *)
(* its own entries are untouched and the committed deletes only grow.    *)
LEMMA ShapeFrame ==
    ASSUME NEW p \in Requests, TxShapeOf(p),
           pc'[p] = pc[p], pid'[p] = pid[p], txDel'[p] = txDel[p],
           txOut'[p] = txOut[p], deletedIds \subseteq deletedIds'
    PROVE  TxShapeOf(p)'
BY DEF TxShapeOf, Holding, DelRow

(* The error path of an attempt keeps the shape.                          *)
LEMMA FailAttemptShape ==
    ASSUME TypeInv, TxShape, NEW q \in Requests, FailAttempt(q),
           UNCHANGED <<deletedIds, pid>>
    PROVE  TxShape'
<1> SUFFICES ASSUME NEW p \in Requests PROVE TxShapeOf(p)'
    BY DEF TxShape
<1>1. CASE p = q
  BY <1>1, Released DEF FailAttempt, TypeInv, TypeOK
<1>2. CASE p # q
  <2>1. pc'[p] = pc[p] /\ txDel'[p] = txDel[p] /\ txOut'[p] = txOut[p]
    BY <1>2 DEF FailAttempt, TypeInv, TypeOK
  <2> QED BY <2>1, ShapeFrame DEF TxShape
<1> QED BY <1>1, <1>2

(* The row SaveEventsBatch writes for request q has q's key and event    *)
(* type, and for a delete request it is the row of its one event.        *)
LEMMA RowOfShape ==
    ASSUME TypeInv, NEW q \in Requests, pc[q] = "outbox"
    PROVE  /\ RowOf(q).key = KeyOf[q]
           /\ RowOf(q).type = EventType(q)
           /\ KindOf[q] = "delete" => RowOf(q) = DelRow(q)
<1>1. KindOf[q] = "delete" => Head(domainEvents[q]) = pid[q]
  BY DEF TypeInv, BufOf
<1> QED BY <1>1 DEF RowOf, DelRow, EventType

LEMMA TxShapeNext == TypeInv /\ TxShape /\ [Next]_vars => TxShape'
<1> SUFFICES ASSUME TypeInv, TxShape, [Next]_vars PROVE TxShape'
    OBVIOUS
<1>1. ASSUME NEW q \in Requests, Lookup(q) PROVE TxShape'
  <2> SUFFICES ASSUME NEW p \in Requests PROVE TxShapeOf(p)'
      BY DEF TxShape
  <2>1. CASE p = q
    <3>1. txDel[q] = {} /\ txOut[q] = {}
      BY <1>1 DEF Lookup, TxShape, TxShapeOf, Holding
    <3> QED BY <1>1, <2>1, <3>1, Released DEF Lookup, TypeInv, TypeOK
  <2>2. CASE p # q
    BY <1>1, <2>2, ShapeFrame DEF Lookup, TxShape, TypeInv, TypeOK
  <2> QED BY <2>1, <2>2
<1>2. ASSUME NEW q \in Requests, Begin(q) PROVE TxShape'
  <2>1. CASE pc' = [pc EXCEPT ![q] = "write"]
             /\ UNCHANGED <<attempt, txIns, txDel, txOut, result, faults>>
    <3> SUFFICES ASSUME NEW p \in Requests PROVE TxShapeOf(p)'
        BY DEF TxShape
    <3>1. UNCHANGED <<deletedIds, pid>> /\ pc[q] = "begin"
      BY <1>2 DEF Begin
    <3>2. CASE p = q
      <4>1. txDel[q] = {} /\ txOut[q] = {}
        BY <3>1 DEF TxShape, TxShapeOf, Holding
      <4> QED BY <2>1, <3>2, <4>1, Released DEF TypeInv, TypeOK
    <3>3. CASE p # q
      BY <2>1, <3>1, <3>3, ShapeFrame DEF TxShape, TypeInv, TypeOK
    <3> QED BY <3>2, <3>3
  <2>2. CASE Fault /\ FailAttempt(q)
    BY <1>2, <2>2, FailAttemptShape DEF Begin
  <2> QED BY <1>2, <2>1, <2>2 DEF Begin
<1>3. ASSUME NEW q \in Requests, CreateProduct(q) PROVE TxShape'
  <2>0. /\ UNCHANGED <<deletedIds, outbox>>
        /\ KindOf[q] = "create" /\ pc[q] = "write"
    BY <1>3 DEF CreateProduct
  <2>1. CASE /\ pid' = [pid EXCEPT ![q] = nextId]
             /\ pc' = [pc EXCEPT ![q] = "outbox"]
             /\ UNCHANGED <<txDel, txOut>>
    <3> SUFFICES ASSUME NEW p \in Requests PROVE TxShapeOf(p)'
        BY DEF TxShape
    <3>1. txDel[q] = {} /\ txOut[q] = {}
      BY <2>0 DEF TxShape, TxShapeOf, Holding
    <3>2. CASE p = q
      <4>1. pc'[q] = "outbox" /\ txDel'[q] = {} /\ txOut'[q] = {}
        BY <2>1, <3>1 DEF TypeInv, TypeOK
      <4> QED BY <2>0, <3>2, <4>1 DEF TxShapeOf, Holding
    <3>3. CASE p # q
      <4>1. pid'[p] = pid[p] /\ pc'[p] = pc[p]
        BY <2>1, <3>3 DEF TypeInv, TypeOK
      <4> QED BY <2>0, <2>1, <3>3, <4>1, ShapeFrame DEF TxShape
    <3> QED BY <3>2, <3>3
  <2>2. CASE Fault /\ FailAttempt(q) /\ UNCHANGED <<createdIds, nextId, pid>>
    BY <2>0, <2>2, FailAttemptShape
  <2> QED BY <1>3, <2>1, <2>2 DEF CreateProduct
<1>4. ASSUME NEW q \in Requests, DeleteProduct(q) PROVE TxShape'
  <2>0. /\ UNCHANGED <<createdIds, nextId, outbox, pid>>
        /\ KindOf[q] = "delete" /\ pc[q] = "write"
    BY <1>4 DEF DeleteProduct
  <2>1. CASE UNCHANGED vars
    BY <2>1 DEF vars, TxShape, TxShapeOf, Holding, DelRow
  <2>2. CASE /\ IF ProductRepoInTx
                  THEN /\ txDel' = [txDel EXCEPT ![q] = @ \cup {pid[q]}]
                       /\ UNCHANGED deletedIds
                  ELSE /\ deletedIds' = deletedIds \cup {pid[q]}
                       /\ UNCHANGED txDel
             /\ pc' = [pc EXCEPT ![q] = "outbox"]
             /\ UNCHANGED <<attempt, txIns, txOut, result, faults>>
    <3> SUFFICES ASSUME NEW p \in Requests PROVE TxShapeOf(p)'
        BY DEF TxShape
    <3>1. txDel[q] = {} /\ txOut[q] = {}
      BY <2>0 DEF TxShape, TxShapeOf, Holding
    <3>2. deletedIds \subseteq deletedIds'
      BY <2>2
    <3>3. CASE p = q /\ ProductRepoInTx
      <4>1. txDel'[q] = {pid[q]} /\ pc'[q] = "outbox" /\ txOut'[q] = {}
        BY <2>2, <3>1, <3>3 DEF TypeInv, TypeOK
      <4> QED BY <2>0, <3>3, <4>1 DEF TxShapeOf, Holding
    <3>4. CASE p = q /\ ~ProductRepoInTx
      <4>1. txDel'[q] = {} /\ pc'[q] = "outbox" /\ txOut'[q] = {}
            /\ pid[q] \in deletedIds'
        BY <2>2, <3>1, <3>4 DEF TypeInv, TypeOK
      <4> QED BY <2>0, <3>4, <4>1 DEF TxShapeOf, Holding
    <3>5. CASE p # q
      <4>1. txDel'[p] = txDel[p] /\ pc'[p] = pc[p]
        BY <2>2, <3>5 DEF TypeInv, TypeOK
      <4> QED BY <2>0, <2>2, <3>2, <3>5, <4>1, ShapeFrame
              DEF TxShape, TypeInv, TypeOK
    <3> QED BY <3>3, <3>4, <3>5
  <2>3. CASE FailAttempt(q) /\ UNCHANGED <<deletedIds, faults>>
    BY <2>0, <2>3, FailAttemptShape
  <2>4. CASE Fault /\ FailAttempt(q) /\ UNCHANGED deletedIds
    BY <2>0, <2>4, FailAttemptShape
  <2> QED BY <1>4, <2>1, <2>2, <2>3, <2>4 DEF DeleteProduct
<1>5. ASSUME NEW q \in Requests, SaveEventsBatch(q) PROVE TxShape'
  <2>0. UNCHANGED <<createdIds, deletedIds, nextId, outbox, pid>>
        /\ pc[q] = "outbox"
    BY <1>5 DEF SaveEventsBatch
  <2>1. CASE UNCHANGED vars
    BY <2>1 DEF vars, TxShape, TxShapeOf, Holding, DelRow
  <2>2. CASE /\ IF \E row \in outbox : row.key = KeyOf[q]
                  THEN UNCHANGED txOut
                  ELSE txOut' = [txOut EXCEPT ![q] = @ \cup {RowOf(q)}]
             /\ pc' = [pc EXCEPT ![q] = "commit"]
             /\ UNCHANGED <<attempt, txIns, txDel, result, faults>>
    <3> SUFFICES ASSUME NEW p \in Requests PROVE TxShapeOf(p)'
        BY DEF TxShape
    <3>1. txOut[q] = {}
      BY <2>0 DEF TxShape, TxShapeOf
    <3>2. CASE p = q
      <4>1. txOut'[q] \subseteq {RowOf(q)} /\ pc'[q] = "commit"
            /\ txDel'[q] = txDel[q]
        BY <2>2, <3>1 DEF TypeInv, TypeOK
      <4>2. /\ RowOf(q).key = KeyOf[q]
            /\ RowOf(q).type = EventType(q)
            /\ KindOf[q] = "delete" => RowOf(q) = DelRow(q)
        BY <2>0, RowOfShape
      <4>3. DelRow(q)' = DelRow(q)
        BY <2>0 DEF DelRow
      <4> QED BY <2>0, <3>2, <4>1, <4>2, <4>3 DEF TxShape, TxShapeOf, Holding
    <3>3. CASE p # q
      <4>1. pc'[p] = pc[p] /\ txOut'[p] = txOut[p]
        BY <2>2, <3>3 DEF TypeInv, TypeOK
      <4> QED BY <2>0, <2>2, <4>1, ShapeFrame DEF TxShape
    <3> QED BY <3>2, <3>3
  <2>3. CASE Fault /\ FailAttempt(q)
    BY <2>0, <2>3, FailAttemptShape
  <2> QED BY <1>5, <2>1, <2>2, <2>3 DEF SaveEventsBatch
<1>6. ASSUME NEW q \in Requests, Commit(q) PROVE TxShape'
  <2> SUFFICES ASSUME NEW p \in Requests PROVE TxShapeOf(p)'
      BY DEF TxShape
  <2>1. deletedIds \subseteq deletedIds' /\ UNCHANGED pid
    BY <1>6 DEF Commit
  <2>2. CASE p = q
    BY <1>6, <2>2, Released DEF Commit, TypeInv, TypeOK
  <2>3. CASE p # q
    <3>1. pc'[p] = pc[p] /\ txDel'[p] = txDel[p] /\ txOut'[p] = txOut[p]
      BY <1>6, <2>3 DEF Commit, TypeInv, TypeOK
    <3> QED BY <2>1, <3>1, ShapeFrame DEF TxShape
  <2> QED BY <2>2, <2>3
<1>7. CASE Crash
  <2> SUFFICES ASSUME NEW p \in Requests PROVE TxShapeOf(p)'
      BY DEF TxShape
  <2> QED BY <1>7, Released DEF Crash
<1>8. CASE Finished \/ UNCHANGED vars
  BY <1>8 DEF Finished, vars, TxShape, TxShapeOf, Holding, DelRow
<1> QED BY <1>1, <1>2, <1>3, <1>4, <1>5, <1>6, <1>7, <1>8
        DEF Next, RequestStep

-----------------------------------------------------------------------------
(* Committed delete events, and one PRODUCT_DELETED event per product.    *)

(* A Commit of request q that succeeds: its transaction's inserts,        *)
(* deletes and outbox rows reach the tables together.                     *)
CommitStep(q) ==
    /\ pc[q] = "commit"
    /\ createdIds' = createdIds \cup txIns[q]
    /\ deletedIds' = deletedIds \cup txDel[q]
    /\ outbox' = outbox \cup txOut[q]
    /\ pc' = [pc EXCEPT ![q] = "done"]
    /\ txIns' = [txIns EXCEPT ![q] = {}]
    /\ txDel' = [txDel EXCEPT ![q] = {}]
    /\ txOut' = [txOut EXCEPT ![q] = {}]
    /\ UNCHANGED pid

(* Only a successful Commit writes the outbox table; every other step     *)
(* leaves it alone and at most adds to the products table (the           *)
(* statements that run in autocommit when the repository is not bound to *)
(* the transaction).                                                      *)
LEMMA TableStep ==
    ASSUME [Next]_vars
    PROVE  \/ /\ outbox' = outbox
              /\ createdIds \subseteq createdIds'
              /\ deletedIds \subseteq deletedIds'
           \/ \E q \in Requests : CommitStep(q)
<1>1. ASSUME NEW q \in Requests, Commit(q)
      PROVE  \/ /\ outbox' = outbox
                /\ createdIds \subseteq createdIds'
                /\ deletedIds \subseteq deletedIds'
             \/ CommitStep(q)
  BY <1>1 DEF Commit, CommitStep
<1>2. ASSUME NEW q \in Requests, CreateProduct(q)
      PROVE  /\ outbox' = outbox
             /\ createdIds \subseteq createdIds'
             /\ deletedIds \subseteq deletedIds'
  BY <1>2 DEF CreateProduct
<1>3. ASSUME NEW q \in Requests, DeleteProduct(q)
      PROVE  /\ outbox' = outbox
             /\ createdIds \subseteq createdIds'
             /\ deletedIds \subseteq deletedIds'
  BY <1>3 DEF DeleteProduct, vars
<1>4. ASSUME NEW q \in Requests, Lookup(q) \/ Begin(q) \/ SaveEventsBatch(q)
      PROVE  /\ outbox' = outbox
             /\ createdIds \subseteq createdIds'
             /\ deletedIds \subseteq deletedIds'
  BY <1>4 DEF Lookup, Begin, SaveEventsBatch, vars
<1>5. ASSUME Crash \/ Finished \/ UNCHANGED vars
      PROVE  /\ outbox' = outbox
             /\ createdIds \subseteq createdIds'
             /\ deletedIds \subseteq deletedIds'
  BY <1>5 DEF Crash, Finished, vars
<1> QED BY <1>1, <1>2, <1>3, <1>4, <1>5 DEF Next, RequestStep

(* EventPids as a statement about the rows.                               *)
LEMMA EventPidsWithin ==
    ASSUME NEW O, NEW t, NEW C
    PROVE  ({row.pid : row \in {e \in O : e.type = t}} \subseteq C)
           <=> \A e \in O : e.type = t => e.pid \in C
OBVIOUS

(* A PRODUCT_DELETED row of an open transaction is its delete's own row. *)
LEMMA DelRowOnly ==
    ASSUME TxShape, NEW q \in Requests, NEW e \in txOut[q],
           e.type = "PRODUCT_DELETED"
    PROVE  KindOf[q] = "delete" /\ e = DelRow(q)
<1>1. KindOf[q] = "delete"
  BY KindOfAssumption DEF TxShape, TxShapeOf, EventType
<1> QED BY <1>1 DEF TxShape, TxShapeOf

LEMMA DelEventsInit == Init => DelEvents
BY DEF Init, DelEvents, EventPids

(* A committed PRODUCT_DELETED row is written in the transaction of its  *)
(* DELETE or after the DELETE committed on its own.                       *)
LEMMA DelEventsNext ==
    ASSUME TypeInv, TxShape, DelEvents, [Next]_vars
    PROVE  DelEvents'
<1>1. \A e \in outbox : e.type = "PRODUCT_DELETED" => e.pid \in deletedIds
  BY EventPidsWithin DEF DelEvents, EventPids
<1> SUFFICES \A e \in outbox' : e.type = "PRODUCT_DELETED" => e.pid \in deletedIds'
    BY EventPidsWithin DEF DelEvents, EventPids
<1>2. CASE outbox' = outbox /\ deletedIds \subseteq deletedIds'
  BY <1>1, <1>2
<1>3. ASSUME NEW q \in Requests, CommitStep(q)
      PROVE  \A e \in outbox' : e.type = "PRODUCT_DELETED" => e.pid \in deletedIds'
  <2> SUFFICES ASSUME NEW e \in outbox', e.type = "PRODUCT_DELETED"
               PROVE  e.pid \in deletedIds'
      OBVIOUS
  <2>1. CASE e \in outbox
    BY <1>1, <1>3, <2>1 DEF CommitStep
  <2>2. CASE e \in txOut[q]
    <3>1. KindOf[q] = "delete" /\ e = DelRow(q)
      BY <2>2, DelRowOnly
    <3>2. pid[q] \in deletedIds \cup txDel[q]
      BY <1>3, <3>1 DEF CommitStep, TxShape, TxShapeOf, Holding
    <3> QED BY <1>3, <3>1, <3>2 DEF CommitStep, DelRow
  <2> QED BY <1>3, <2>1, <2>2 DEF CommitStep
<1> QED BY <1>2, <1>3, TableStep

LEMMA DeleteInit == Init => DeleteHolders /\ SingleDeleteEvent
BY DEF Init, DeleteHolders, DelHolding, Holding, SingleDeleteEvent

(* A step that writes no outbox row and makes no request a delete holder *)
(* keeps DeleteHolders and SingleDeleteEvent.                             *)
LEMMA DeleteQuiet ==
    ASSUME DeleteHolders, SingleDeleteEvent, outbox' = outbox,
           \A p \in Requests : DelHolding(p)' => DelHolding(p) /\ pid'[p] = pid[p]
    PROVE  DeleteHolders' /\ SingleDeleteEvent'
BY DEF DeleteHolders, SingleDeleteEvent

(* The steps other than a successful DeleteProduct and Commit make no    *)
(* delete holder: the only move into "outbox" of a delete request is its *)
(* DeleteProduct, and SaveEventsBatch moves a holder on to "commit".     *)
LEMMA HoldersOnlyByDelete ==
    ASSUME TypeInv, NEW q \in Requests,
           \/ Lookup(q) \/ Begin(q) \/ CreateProduct(q) \/ SaveEventsBatch(q)
           \/ FailAttempt(q) /\ UNCHANGED pid
    PROVE  \A p \in Requests : DelHolding(p)' => DelHolding(p) /\ pid'[p] = pid[p]
<1> SUFFICES ASSUME NEW p \in Requests, DelHolding(p)'
             PROVE  DelHolding(p) /\ pid'[p] = pid[p]
    OBVIOUS
<1>1. CASE Lookup(q)
  BY <1>1 DEF Lookup, DelHolding, Holding, TypeInv, TypeOK
<1>2. CASE Begin(q)
  BY <1>2 DEF Begin, FailAttempt, DelHolding, Holding, TypeInv, TypeOK
<1>3. CASE CreateProduct(q)
  BY <1>3 DEF CreateProduct, FailAttempt, DelHolding, Holding, TypeInv, TypeOK
<1>4. CASE SaveEventsBatch(q)
  BY <1>4 DEF SaveEventsBatch, FailAttempt, DelHolding, Holding, TypeInv,
              TypeOK, vars
<1>5. CASE FailAttempt(q) /\ UNCHANGED pid
  BY <1>5 DEF FailAttempt, DelHolding, Holding, TypeInv, TypeOK
<1> QED BY <1>1, <1>2, <1>3, <1>4, <1>5

(* A successful DeleteProduct of request q makes q a holder of a product *)
(* that no other request holds and no committed PRODUCT_DELETED row      *)
(* names: the product is still in the table, so no delete of it has      *)
(* committed, and in a transaction DELETE waits for another open         *)
(* transaction that deleted it.                                           *)
LEMMA DeleteFresh ==
    ASSUME TypeInv, TxShape, DelEvents, NEW q \in Requests,
           pid[q] \in products,
           ~(ProductRepoInTx /\ DeleteInFlight(q, pid[q]))
    PROVE  /\ \A o \in Requests \ {q} : DelHolding(o) => pid[o] # pid[q]
           /\ \A e \in outbox : e.type = "PRODUCT_DELETED" => e.pid # pid[q]
<1>1. pid[q] \notin deletedIds
  BY DEF products
<1>2. ASSUME NEW o \in Requests \ {q}, DelHolding(o), pid[o] = pid[q]
      PROVE  FALSE
  <2>1. pid[q] \in deletedIds \cup txDel[o]
    BY <1>2 DEF TxShape, TxShapeOf, DelHolding
  <2>2. pid[q] \in txDel[o] /\ ProductRepoInTx
    BY <1>1, <2>1 DEF TxShape, TxShapeOf
  <2> QED BY <2>2 DEF DeleteInFlight
<1>3. \A e \in outbox : e.type = "PRODUCT_DELETED" => e.pid # pid[q]
  BY <1>1, EventPidsWithin DEF DelEvents, EventPids
<1> QED BY <1>2, <1>3

LEMMA DeleteNext ==
    ASSUME TypeInv, TxShape, DelEvents, DeleteHolders, SingleDeleteEvent,
           [Next]_vars
    PROVE  DeleteHolders' /\ SingleDeleteEvent'
<1>1. ASSUME NEW q \in Requests,
             Lookup(q) \/ Begin(q) \/ CreateProduct(q) \/ SaveEventsBatch(q)
      PROVE  DeleteHolders' /\ SingleDeleteEvent'
  <2>1. outbox' = outbox
    BY <1>1 DEF Lookup, Begin, CreateProduct, SaveEventsBatch
  <2> QED BY <1>1, <2>1, HoldersOnlyByDelete, DeleteQuiet
<1>2. ASSUME NEW q \in Requests, DeleteProduct(q)
      PROVE  DeleteHolders' /\ SingleDeleteEvent'
  <2>0. UNCHANGED <<createdIds, nextId, outbox, pid>> /\ KindOf[q] = "delete"
    BY <1>2 DEF DeleteProduct
  <2>1. CASE UNCHANGED vars
    BY <2>1 DEF vars, DeleteHolders, DelHolding, Holding, SingleDeleteEvent
  <2>2. CASE /\ pid[q] \in products
             /\ ~(ProductRepoInTx /\ DeleteInFlight(q, pid[q]))
             /\ pc' = [pc EXCEPT ![q] = "outbox"]
    <3>1. \A p \in Requests : DelHolding(p)' <=> DelHolding(p) \/ p = q
      BY <2>0, <2>2 DEF DelHolding, Holding, TypeInv, TypeOK
    <3>2. /\ \A o \in Requests \ {q} : DelHolding(o) => pid[o] # pid[q]
          /\ \A e \in outbox : e.type = "PRODUCT_DELETED" => e.pid # pid[q]
      BY <2>2, DeleteFresh
    <3>3. DeleteHolders'
      BY <2>0, <3>1, <3>2 DEF DeleteHolders
    <3>4. SingleDeleteEvent'
      BY <2>0 DEF SingleDeleteEvent
    <3> QED BY <3>3, <3>4
  <2>3. CASE FailAttempt(q)
    BY <2>0, <2>3, HoldersOnlyByDelete, DeleteQuiet
  <2> QED BY <1>2, <2>1, <2>2, <2>3 DEF DeleteProduct
<1>3. ASSUME NEW q \in Requests, Commit(q)
      PROVE  DeleteHolders' /\ SingleDeleteEvent'
  <2>1. \A p \in Requests : DelHolding(p)' => DelHolding(p) /\ pid'[p] = pid[p]
    BY <1>3 DEF Commit, DelHolding, Holding, TypeInv, TypeOK
  <2>2. CASE outbox' = outbox
    BY <2>1, <2>2, DeleteQuiet
  <2>3. CASE CommitStep(q)
    <3>1. \A e \in txOut[q] : e.type = "PRODUCT_DELETED" =>
              KindOf[q] = "delete" /\ e = DelRow(q)
      BY DelRowOnly
    <3>2. \A e \in txOut[q] : e.type = "PRODUCT_DELETED" =>
              /\ DelHolding(q)
              /\ \A e2 \in outbox : e2.type = "PRODUCT_DELETED" => e2.pid # e.pid
              /\ \A o \in Requests \ {q} : DelHolding(o) => pid[o] # e.pid
      BY <2>3, <3>1 DEF CommitStep, DelRow, DeleteHolders, DelHolding, Holding
    <3>3. ~DelHolding(q)'
      BY <2>3 DEF CommitStep, DelHolding, Holding, TypeInv, TypeOK
    <3>4. outbox' = outbox \cup txOut[q] /\ pid' = pid
      BY <2>3 DEF CommitStep
    <3>5. DeleteHolders'
      BY <2>1, <3>2, <3>3, <3>4 DEF DeleteHolders
    <3>6. SingleDeleteEvent'
      <4>1. \A e, e2 \in txOut[q] :
                e.type = "PRODUCT_DELETED" /\ e2.type = "PRODUCT_DELETED" => e = e2
        BY <3>1
      <4> QED BY <3>2, <3>4, <4>1 DEF SingleDeleteEvent
    <3> QED BY <3>5, <3>6
  <2> QED BY <1>3, <2>2, <2>3 DEF Commit, CommitStep
<1>4. CASE Crash \/ Finished \/ UNCHANGED vars
  <2>1. \A p \in Requests : DelHolding(p)' => DelHolding(p) /\ pid'[p] = pid[p]
    BY <1>4 DEF Crash, Finished, vars, DelHolding, Holding
  <2> QED BY <1>4, <2>1, DeleteQuiet DEF Crash, Finished, vars
<1> QED BY <1>1, <1>2, <1>3, <1>4 DEF Next, RequestStep

(* Concurrent deletes of one product commit one PRODUCT_DELETED row      *)
(* between them, for both wirings of the unit of work and any headers:   *)
(* the second finds the row gone (zero RowsAffected, ProductNotFound) or, *)
(* in a transaction, waits on the row lock of the first, and each        *)
(* request's buffer holds the one event of its own product.               *)
THEOREM OneDeleteEvent == Spec => []SingleDeleteEvent
<1>1. Init => IInvDelete
  BY TypeInvInit, TxShapeInit, DelEventsInit, DeleteInit DEF IInvDelete
<1>2. IInvDelete /\ [Next]_vars => IInvDelete'
  BY TypeInvNext, TxShapeNext, DelEventsNext, DeleteNext DEF IInvDelete
<1>3. IInvDelete => SingleDeleteEvent
  BY DEF IInvDelete
<1> QED BY <1>1, <1>2, <1>3, PTL DEF Spec

-----------------------------------------------------------------------------
(* Delete atomicity, with the product repository in the transaction and  *)
(* distinct Idempotency-Key headers.                                      *)

(* With the product repository bound to the transaction, only a          *)
(* successful Commit changes the deletes and the outbox table.            *)
LEMMA TableStepInTx ==
    ASSUME ProductRepoInTx, [Next]_vars
    PROVE  \/ UNCHANGED <<outbox, deletedIds>>
           \/ \E q \in Requests : CommitStep(q)
<1>1. ASSUME NEW q \in Requests, Commit(q)
      PROVE  UNCHANGED <<outbox, deletedIds>> \/ CommitStep(q)
  BY <1>1 DEF Commit, CommitStep
<1>2. ASSUME NEW q \in Requests, CreateProduct(q) \/ DeleteProduct(q)
      PROVE  UNCHANGED <<outbox, deletedIds>>
  BY <1>2 DEF CreateProduct, DeleteProduct, vars
<1>3. ASSUME NEW q \in Requests, Lookup(q) \/ Begin(q) \/ SaveEventsBatch(q)
      PROVE  UNCHANGED <<outbox, deletedIds>>
  BY <1>3 DEF Lookup, Begin, SaveEventsBatch, vars
<1>4. ASSUME Crash \/ Finished \/ UNCHANGED vars
      PROVE  UNCHANGED <<outbox, deletedIds>>
  BY <1>4 DEF Crash, Finished, vars
<1> QED BY <1>1, <1>2, <1>3, <1>4 DEF Next, RequestStep

LEMMA TxExactInit == Init => TxExact
BY DEF Init, TxExact, TxExactOf, DelHolding, Holding

(* A request out of its transaction, whose key no committed row bears    *)
(* unless it has returned, satisfies TxExactOf.                           *)
LEMMA ExactReleased ==
    ASSUME NEW q \in Requests,
           pc'[q] \in {"lookup", "begin", "write", "done"},
           pc'[q] # "done" => \A e \in outbox' : e.key # KeyOf[q]
    PROVE  TxExactOf(q)'
BY DEF TxExactOf, DelHolding, Holding

LEMMA ExactFrame ==
    ASSUME NEW p \in Requests, TxExactOf(p),
           pc'[p] = pc[p], pid'[p] = pid[p], txDel'[p] = txDel[p],
           txOut'[p] = txOut[p], outbox' = outbox
    PROVE  TxExactOf(p)'
BY DEF TxExactOf, DelHolding, Holding, DelRow

LEMMA FailAttemptExact ==
    ASSUME TypeInv, TxExact, NEW q \in Requests, pc[q] # "done",
           FailAttempt(q), UNCHANGED <<outbox, pid>>
    PROVE  TxExact'
<1> SUFFICES ASSUME NEW p \in Requests PROVE TxExactOf(p)'
    BY DEF TxExact
<1>1. CASE p = q
  BY <1>1, ExactReleased DEF FailAttempt, TypeInv, TypeOK,
             TxExact, TxExactOf
<1>2. CASE p # q
  <2>1. pc'[p] = pc[p] /\ txDel'[p] = txDel[p] /\ txOut'[p] = txOut[p]
    BY <1>2 DEF FailAttempt, TypeInv, TypeOK
  <2> QED BY <2>1, ExactFrame DEF TxExact
<1> QED BY <1>1, <1>2

LEMMA TxExactNext ==
    ASSUME ProductRepoInTx, KeysDistinct, TypeInv, TxShape, TxExact,
           [Next]_vars
    PROVE  TxExact'
<1>1. ASSUME NEW q \in Requests, Lookup(q) PROVE TxExact'
  <2> SUFFICES ASSUME NEW p \in Requests PROVE TxExactOf(p)'
      BY DEF TxExact
  <2>1. CASE p = q
    BY <1>1, <2>1, ExactReleased DEF Lookup, TypeInv, TypeOK, TxExact,
       TxExactOf
  <2>2. CASE p # q
    BY <1>1, <2>2, ExactFrame DEF Lookup, TypeInv, TypeOK, TxExact
  <2> QED BY <2>1, <2>2
<1>2. ASSUME NEW q \in Requests, Begin(q) PROVE TxExact'
  <2>0. UNCHANGED <<outbox, pid>> /\ pc[q] = "begin"
    BY <1>2 DEF Begin
  <2>1. CASE pc' = [pc EXCEPT ![q] = "write"]
             /\ UNCHANGED <<attempt, txIns, txDel, txOut, result, faults>>
    <3> SUFFICES ASSUME NEW p \in Requests PROVE TxExactOf(p)'
        BY DEF TxExact
    <3>1. CASE p = q
      BY <2>0, <2>1, <3>1, ExactReleased DEF TypeInv, TypeOK, TxExact,
         TxExactOf
    <3>2. CASE p # q
      BY <2>0, <2>1, <3>2, ExactFrame DEF TypeInv, TypeOK, TxExact
    <3> QED BY <3>1, <3>2
  <2>2. CASE Fault /\ FailAttempt(q)
    BY <2>0, <2>2, FailAttemptExact
  <2> QED BY <1>2, <2>1, <2>2 DEF Begin
<1>3. ASSUME NEW q \in Requests, CreateProduct(q) PROVE TxExact'
  <2>0. UNCHANGED outbox /\ KindOf[q] = "create" /\ pc[q] = "write"
    BY <1>3 DEF CreateProduct
  <2>1. CASE /\ pid' = [pid EXCEPT ![q] = nextId]
             /\ pc' = [pc EXCEPT ![q] = "outbox"]
             /\ UNCHANGED <<txDel, txOut>>
    <3> SUFFICES ASSUME NEW p \in Requests PROVE TxExactOf(p)'
        BY DEF TxExact
    <3>1. CASE p = q
      <4>1. pc'[q] = "outbox"
        BY <2>1 DEF TypeInv, TypeOK
      <4> QED BY <2>0, <3>1, <4>1 DEF TxExact, TxExactOf, DelHolding, Holding
    <3>2. CASE p # q
      BY <2>0, <2>1, <3>2, ExactFrame DEF TypeInv, TypeOK, TxExact
    <3> QED BY <3>1, <3>2
  <2>2. CASE Fault /\ FailAttempt(q) /\ UNCHANGED <<createdIds, nextId, pid>>
    BY <2>0, <2>2, FailAttemptExact
  <2> QED BY <1>3, <2>1, <2>2 DEF CreateProduct
<1>4. ASSUME NEW q \in Requests, DeleteProduct(q) PROVE TxExact'
  <2>0. UNCHANGED <<outbox, pid>> /\ KindOf[q] = "delete" /\ pc[q] = "write"
    BY <1>4 DEF DeleteProduct
  <2>1. CASE UNCHANGED vars
    BY <2>1 DEF vars, TxExact, TxExactOf, DelHolding, Holding, DelRow
  <2>2. CASE /\ txDel' = [txDel EXCEPT ![q] = @ \cup {pid[q]}]
             /\ pc' = [pc EXCEPT ![q] = "outbox"]
             /\ UNCHANGED txOut
    <3> SUFFICES ASSUME NEW p \in Requests PROVE TxExactOf(p)'
        BY DEF TxExact
    <3>1. txDel[q] = {}
      BY <2>0 DEF TxShape, TxShapeOf, Holding
    <3>2. CASE p = q
      <4>1. txDel'[q] = {pid'[q]} /\ pc'[q] = "outbox"
        BY <2>0, <2>2, <3>1 DEF TypeInv, TypeOK
      <4> QED BY <2>0, <3>2, <4>1 DEF TxExact, TxExactOf, DelHolding, Holding
    <3>3. CASE p # q
      BY <2>0, <2>2, <3>3, ExactFrame DEF TypeInv, TypeOK, TxExact
    <3> QED BY <3>2, <3>3
  <2>3. CASE FailAttempt(q)
    BY <2>0, <2>3, FailAttemptExact
  <2> QED BY <1>4, <2>1, <2>2, <2>3 DEF DeleteProduct
<1>5. ASSUME NEW q \in Requests, SaveEventsBatch(q) PROVE TxExact'
  <2>0. UNCHANGED <<outbox, pid>> /\ pc[q] = "outbox"
    BY <1>5 DEF SaveEventsBatch
  <2>1. CASE UNCHANGED vars
    BY <2>1 DEF vars, TxExact, TxExactOf, DelHolding, Holding, DelRow
  <2>2. CASE /\ IF \E row \in outbox : row.key = KeyOf[q]
                  THEN UNCHANGED txOut
                  ELSE txOut' = [txOut EXCEPT ![q] = @ \cup {RowOf(q)}]
             /\ pc' = [pc EXCEPT ![q] = "commit"]
             /\ UNCHANGED txDel
    <3> SUFFICES ASSUME NEW p \in Requests PROVE TxExactOf(p)'
        BY DEF TxExact
    <3>1. ~\E row \in outbox : row.key = KeyOf[q]
      BY <2>0 DEF TxExact, TxExactOf
    <3>2. txOut[q] = {}
      BY <2>0 DEF TxShape, TxShapeOf
    <3>3. txOut' = [txOut EXCEPT ![q] = {RowOf(q)}]
      BY <2>2, <3>1, <3>2
    <3>4. CASE p = q
      <4>1. txOut'[q] = {RowOf(q)} /\ pc'[q] = "commit" /\ txDel'[q] = txDel[q]
        BY <2>2, <3>3 DEF TypeInv, TypeOK
      <4>2. KindOf[q] = "delete" => RowOf(q) = DelRow(q)'
        BY <2>0, RowOfShape DEF DelRow
      <4> QED BY <2>0, <3>4, <4>1, <4>2 DEF TxExact, TxExactOf, DelHolding,
                 Holding
    <3>5. CASE p # q
      BY <2>0, <2>2, <3>3, <3>5, ExactFrame DEF TypeInv, TypeOK, TxExact
    <3> QED BY <3>4, <3>5
  <2>3. CASE Fault /\ FailAttempt(q)
    BY <2>0, <2>3, FailAttemptExact
  <2> QED BY <1>5, <2>1, <2>2, <2>3 DEF SaveEventsBatch
<1>6. ASSUME NEW q \in Requests, Commit(q) PROVE TxExact'
  <2> SUFFICES ASSUME NEW p \in Requests PROVE TxExactOf(p)'
      BY DEF TxExact
  <2>1. CASE p = q
    BY <1>6, <2>1, ExactReleased DEF Commit, TypeInv, TypeOK
  <2>2. CASE p # q
    <3>1. pc'[p] = pc[p] /\ txDel'[p] = txDel[p] /\ txOut'[p] = txOut[p]
          /\ pid' = pid
      BY <1>6, <2>2 DEF Commit, TypeInv, TypeOK
    <3>2. CASE outbox' = outbox
      BY <3>1, <3>2, ExactFrame DEF TxExact
    <3>3. CASE outbox' = outbox \cup txOut[q]
      <4>1. \A e \in txOut[q] : e.key # KeyOf[p]
        BY <2>2 DEF TxShape, TxShapeOf, KeysDistinct
      <4> QED BY <3>1, <3>3, <4>1 DEF TxExact, TxExactOf, DelHolding,
                 Holding, DelRow
    <3> QED BY <1>6, <3>2, <3>3 DEF Commit
  <2> QED BY <2>1, <2>2
<1>7. CASE Crash
  <2> SUFFICES ASSUME NEW p \in Requests PROVE TxExactOf(p)'
      BY DEF TxExact
  <2> QED BY <1>7, ExactReleased DEF Crash
<1>8. CASE Finished \/ UNCHANGED vars
  BY <1>8 DEF Finished, vars, TxExact, TxExactOf, DelHolding, Holding, DelRow
<1> QED BY <1>1, <1>2, <1>3, <1>4, <1>5, <1>6, <1>7, <1>8
        DEF Next, RequestStep

(* Adding one row to the outbox adds its product id to the ids of its    *)
(* event type and to no other.                                            *)
LEMMA EventPidsAdd ==
    ASSUME NEW O, NEW r, NEW t
    PROVE  {row.pid : row \in {e \in O \cup {r} : e.type = t}}
           = {row.pid : row \in {e \in O : e.type = t}}
             \cup (IF r.type = t THEN {r.pid} ELSE {})
OBVIOUS

(* Adding rows of other event types leaves the ids of a type alone.       *)
LEMMA EventPidsOther ==
    ASSUME NEW O, NEW R, NEW t, \A r \in R : r.type # t
    PROVE  {row.pid : row \in {e \in O \cup R : e.type = t}}
           = {row.pid : row \in {e \in O : e.type = t}}
OBVIOUS

LEMMA AtomicInit == Init => DeleteAtomicity
BY DEF Init, DeleteAtomicity, EventPids

LEMMA AtomicNext ==
    ASSUME ProductRepoInTx, TypeInv, TxShape, TxExact, DeleteAtomicity,
           [Next]_vars
    PROVE  DeleteAtomicity'
<1>1. CASE UNCHANGED <<outbox, deletedIds>>
  BY <1>1 DEF DeleteAtomicity, EventPids
<1>2. ASSUME NEW q \in Requests, CommitStep(q) PROVE DeleteAtomicity'
  <2>0. Holding(q) /\ pc[q] = "commit"
    BY <1>2 DEF CommitStep, Holding
  <2>1. CASE KindOf[q] = "create"
    <3>1. txDel[q] = {}
      BY <2>0, <2>1 DEF TxShape, TxShapeOf
    <3>2. \A e \in txOut[q] : e.type # "PRODUCT_DELETED"
      BY <2>1 DEF TxShape, TxShapeOf, EventType
    <3>3. deletedIds' = deletedIds /\ outbox' = outbox \cup txOut[q]
      BY <1>2, <3>1 DEF CommitStep
    <3> QED BY <3>2, <3>3, EventPidsOther DEF DeleteAtomicity, EventPids
  <2>2. CASE KindOf[q] = "delete"
    <3>1. txDel[q] = {pid[q]} /\ txOut[q] = {DelRow(q)}
      BY <2>0, <2>2 DEF TxExact, TxExactOf, DelHolding
    <3>2. deletedIds' = deletedIds \cup {pid[q]}
          /\ outbox' = outbox \cup {DelRow(q)}
      BY <1>2, <3>1 DEF CommitStep
    <3>3. DelRow(q).type = "PRODUCT_DELETED" /\ DelRow(q).pid = pid[q]
      BY DEF DelRow
    <3> QED BY <3>2, <3>3, EventPidsAdd DEF DeleteAtomicity, EventPids
  <2> QED BY <2>1, <2>2, KindOfAssumption
<1> QED BY <1>1, <1>2, TableStepInTx

(* Outbox atomicity of deletes (spec sections 3 and 4.4): when the unit  *)
(* of work binds the product repository to its transaction and every     *)
(* request carries its own Idempotency-Key, the committed product        *)
(* deletes are exactly those with a PRODUCT_DELETED row, in every state, *)
(* whatever statements, commits and crashes fail and however deletes of *)
(* one product race.  A retried delete resends the one event              *)
(* RecordDeleteEvent put in its buffer, so the row names the product the *)
(* transaction deletes.  Both hypotheses are needed: without the first   *)
(* the deployed service commits the DELETE before its row (run           *)
(* write_deployed), without the second ON CONFLICT DO NOTHING drops the  *)
(* row of a request whose key another request committed.  The same      *)
(* statement for creates is false (run write_create_retry).              *)
THEOREM DeleteAtomic ==
    ASSUME ProductRepoInTx, KeysDistinct
    PROVE  Spec => []DeleteAtomicity
<1>1. Init => IInvAtomic
  BY TypeInvInit, TxShapeInit, TxExactInit, AtomicInit DEF IInvAtomic
<1>2. IInvAtomic /\ [Next]_vars => IInvAtomic'
  BY TypeInvNext, TxShapeNext, TxExactNext, AtomicNext DEF IInvAtomic
<1>3. IInvAtomic => DeleteAtomicity
  BY DEF IInvAtomic
<1> QED BY <1>1, <1>2, <1>3, PTL DEF Spec

====
