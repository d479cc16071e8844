------------------------- MODULE BusDeliveryProofs -------------------------
(***************************************************************************)
(* Proofs about BusDelivery: the publisher, broker and consumer model is   *)
(* well typed for every set of events, foreign messages and fault bounds.  *)
(***************************************************************************)
EXTENDS BusDelivery, TLAPS

\* The counters are naturals: BoundsAssumption read per bound.
LEMMA BoundsNat == MaxOutages \in Nat /\ MaxFaults \in Nat /\ MaxRestarts \in Nat
BY BoundsAssumption

(* Routing a message keeps the queue a sequence of messages and the       *)
(* history a set of them.                                                  *)
LEMMA RouteType ==
    ASSUME TypeOK, NEW m \in Messages, Route(m)
    PROVE  queue' \in Seq(Messages) /\ routed' \subseteq Messages
BY DEF TypeOK, Route

LEMMA TypeInit == Init => TypeOK
BY BoundsNat DEF Init, TypeOK

LEMMA TypeNext == TypeOK /\ [Next]_vars => TypeOK'
<1> SUFFICES ASSUME TypeOK, [Next]_vars PROVE TypeOK'
  OBVIOUS
<1>0. outages \in Nat /\ faults \in Nat /\ restarts \in Nat
  BY BoundsNat DEF TypeOK
<1>1. ASSUME NEW e \in Events, PublishOk(e) PROVE TypeOK'
  <2>1. queue' \in Seq(Messages) /\ routed' \subseteq Messages
    BY <1>1, RouteType DEF PublishOk, Messages
  <2> QED BY <1>1, <2>1 DEF PublishOk, TypeOK
<1>2. ASSUME NEW e \in Events, PublishUnconfirmed(e) PROVE TypeOK'
  BY <1>0, BoundsNat, <1>2 DEF PublishUnconfirmed, TypeOK
<1>3. ASSUME NEW e \in Events, PublishFail(e) PROVE TypeOK'
  BY <1>3 DEF PublishFail, TypeOK, vars
<1>4. ASSUME NEW m \in Foreign, ForeignPublish(m) PROVE TypeOK'
  <2>1. queue' \in Seq(Messages) /\ routed' \subseteq Messages
    BY <1>4, RouteType DEF ForeignPublish, Messages
  <2> QED BY <1>4, <2>1 DEF ForeignPublish, TypeOK
<1>5. CASE Handle
  <2>1. queue # <<>> /\ queue \in Seq(Messages)
    BY <1>5 DEF Handle, TypeOK
  <2>2. Head(queue) \in Messages /\ Tail(queue) \in Seq(Messages)
    BY <2>1
  <2>4. /\ queue' = Tail(queue)
        /\ \/ handled' = handled
           \/ KindOf[Head(queue)] = "product" /\ handled' = handled \cup {Head(queue)}
    BY <1>5 DEF Handle
  <2>5. UNCHANGED <<outbox, pubConn, broker, cons, routed, outages, faults, restarts>>
    BY <1>5 DEF Handle
  <2> QED BY <2>2, <2>4, <2>5 DEF TypeOK
<1>6. CASE BrokerStop
  BY <1>0, BoundsNat, <1>6 DEF BrokerStop, TypeOK
<1>7. CASE BrokerStart
  BY <1>7 DEF BrokerStart, TypeOK
<1>9. CASE ConsumerStop
  BY <1>0, BoundsNat, <1>9 DEF ConsumerStop, TypeOK
<1>10. CASE ConsumerStart
  BY <1>10 DEF ConsumerStart, TypeOK
<1>8. CASE Idle \/ UNCHANGED vars
  BY <1>8 DEF Idle, vars, TypeOK
<1> QED BY <1>1, <1>2, <1>3, <1>4, <1>5, <1>6, <1>7, <1>8, <1>9, <1>10
        DEF Next, PublishAttempt

(* Every state is well typed: the outbox rows, the connection, broker and *)
(* consumer phases, the exclusive queue (a sequence of messages that only *)
(* Route appends to and handleMessage takes from), and the fault counters *)
(* within their bounds.                                                    *)
THEOREM TypeCorrect == Spec => []TypeOK
BY TypeInit, TypeNext, PTL DEF Spec

=============================================================================
