------------------------- MODULE OutboxRowLifecycle -------------------------
(***************************************************************************)
(* What the outbox promises of one row, whoever drains it (the status     *)
(* diagram of spec section 3 and section 4.5): a committed row is          *)
(* 'pending'; while it is pending it may be published to the bus any       *)
(* number of times (at-least-once); it is marked 'published' only after it *)
(* went out, or it leaves pending as 'failed' or 'dlq', and a failed row   *)
(* may later be dead-lettered; 'published' and 'dlq' are final, and        *)
(* nothing is put on the bus for a row that is no longer pending.          *)
(*                                                                         *)
(* OutboxDispatcher is shown to implement this specification under the     *)
(* identity mapping of status and delivered.                               *)
(***************************************************************************)
EXTENDS Naturals

CONSTANT Rows

VARIABLES
  status,     \* "none" (not committed), "pending", "published", "failed", "dlq"
  delivered   \* how many times each row was put on the bus

vars == <<status, delivered>>

Init ==
  /\ status = [r \in Rows |-> "none"]
  /\ delivered = [r \in Rows |-> 0]

\* A write transaction commits the row.
Commit(r) ==
  /\ status[r] = "none"
  /\ status' = [status EXCEPT ![r] = "pending"]
  /\ UNCHANGED delivered

\* The row goes out on the bus, possibly once more.
Deliver(r) ==
  /\ status[r] = "pending"
  /\ delivered' = [delivered EXCEPT ![r] = @ + 1]
  /\ UNCHANGED status

(***************************************************************************)
(* The row leaves pending: published once delivered, or failed, or dead;   *)
(* a failed row may still be dead-lettered.                                *)
(***************************************************************************)
Resolve(r) ==
  /\ \E s \in {"published", "failed", "dlq"} :
        /\ \/ status[r] = "pending"
           \/ status[r] = "failed" /\ s = "dlq"
        /\ s = "published" => delivered[r] >= 1
        /\ status' = [status EXCEPT ![r] = s]
  /\ UNCHANGED delivered

Next == \E r \in Rows : Commit(r) \/ Deliver(r) \/ Resolve(r)

Spec == Init /\ [][Next]_vars
=============================================================================
