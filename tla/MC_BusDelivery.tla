---------------------------- MODULE MC_BusDelivery ----------------------------
(***************************************************************************)
(* Three outbox events and two messages of another producer: one with an   *)
(* unknown type and one that is not JSON.                                  *)
(***************************************************************************)
EXTENDS BusDelivery

CONSTANTS e1, e2, e3, f1, f2

MCEvents == {e1, e2, e3}
MCForeign == {f1, f2}
MCKindOf == [m \in MCEvents \cup MCForeign |->
               IF m = f1 THEN "malformed" ELSE IF m = f2 THEN "unknown" ELSE "product"]
=============================================================================
