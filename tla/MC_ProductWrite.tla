-------------------------- MODULE MC_ProductWrite --------------------------
(* Model-checking instance of ProductWrite: three requests, with the     *)
(* kinds and the header assignments the .cfg files choose.               *)
EXTENDS ProductWrite, TLC

CONSTANTS q1, q2, q3, k1, k2, k3, NoKey

MCRequests == {q1, q2, q3}
MCKeys == {k1, k2, k3, NoKey}
MCKinds == (q1 :> "create" @@ q2 :> "create" @@ q3 :> "delete")

(* One create request and two delete requests, which may name the same  *)
(* product.                                                               *)
MCKindsTwoDeletes == (q1 :> "create" @@ q2 :> "delete" @@ q3 :> "delete")

(* Every request carries its own Idempotency-Key header.                  *)
DistinctKeys == (q1 :> k1 @@ q2 :> k2 @@ q3 :> k3)
(* The client replays its create request with the same key.               *)
ReplayedKey == (q1 :> k1 @@ q2 :> k1 @@ q3 :> k3)
=============================================================================
