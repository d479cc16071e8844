------------------------- MODULE AtomicProductWrite -------------------------
(***************************************************************************)
(* What the write path promises the products table and the outbox (spec   *)
(* sections 3, 4.4 and 8): a create inserts a product that never existed  *)
(* and a delete removes one that exists, each in one atomic step together *)
(* with the one outbox row of its event; the row carries the request's    *)
(* Idempotency-Key, and a key that already has a row gets no second one.  *)
(* Failed attempts, failed commits and crashes leave no trace.            *)
(*                                                                         *)
(* ProductWrite is shown to implement this specification under the        *)
(* identity mapping of createdIds, deletedIds and outbox, when the unit   *)
(* of work binds the product repository to its transaction and requests   *)
(* carry distinct keys.                                                    *)
(***************************************************************************)
CONSTANTS Keys, ProductIds

VARIABLES
  createdIds,   \* ids of the products ever inserted
  deletedIds,   \* ids of the products deleted
  outbox        \* committed outbox rows [key, type, pid]

vars == <<createdIds, deletedIds, outbox>>

Init ==
  /\ createdIds = {}
  /\ deletedIds = {}
  /\ outbox = {}

\* No committed row has idempotency key k.
KeyUnused(k) == \A row \in outbox : row.key # k

\* A new product and its PRODUCT_CREATED row commit together.
CreateWithEvent(k, id) ==
  /\ id \notin createdIds
  /\ KeyUnused(k)
  /\ createdIds' = createdIds \cup {id}
  /\ outbox' = outbox \cup {[key |-> k, type |-> "PRODUCT_CREATED", pid |-> id]}
  /\ UNCHANGED deletedIds

\* An existing product's removal and its PRODUCT_DELETED row commit together.
DeleteWithEvent(k, id) ==
  /\ id \in createdIds \ deletedIds
  /\ KeyUnused(k)
  /\ deletedIds' = deletedIds \cup {id}
  /\ outbox' = outbox \cup {[key |-> k, type |-> "PRODUCT_DELETED", pid |-> id]}
  /\ UNCHANGED createdIds

Next == \E k \in Keys, id \in ProductIds :
          CreateWithEvent(k, id) \/ DeleteWithEvent(k, id)

Spec == Init /\ [][Next]_vars

=============================================================================
