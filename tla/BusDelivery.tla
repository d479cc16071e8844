----------------------------- MODULE BusDelivery -----------------------------
(***************************************************************************)
(* The path of an outbox event from the products service to the            *)
(* notifications service over RabbitMQ.                                    *)
(*                                                                         *)
(*  - rabbitMQPublisher (products, publisher.go) holds one connection and  *)
(*    one channel opened by NewRabbitMQPublisher; Publish on the channel   *)
(*    is fire-and-forget (no confirms, mandatory = false) and fails once   *)
(*    the channel is closed.  Nothing re-opens it.                         *)
(*  - The broker routes a message on the durable fanout exchange to every  *)
(*    bound queue; with no queue bound it is dropped.                      *)
(*  - rabbitMQConsumer (notifications, consumer.go) declares a server-     *)
(*    named exclusive queue, binds it and consumes it in one goroutine;    *)
(*    handleMessage Nacks (no requeue) what it cannot decode and Acks the  *)
(*    rest.  The exclusive queue dies with the consumer's connection; when *)
(*    the delivery channel closes the goroutine returns.                   *)
(*                                                                         *)
(* The dispatcher is reduced to its most favourable behaviour: it tries    *)
(* every pending event again and again and marks it published when         *)
(* Publish returns nil.  Other producers on the exchange (Foreign) may     *)
(* send messages the consumer does not know or cannot decode.              *)
(***************************************************************************)
EXTENDS Naturals, Sequences

CONSTANTS
  Events,       \* outbox events of the products service
  Foreign,      \* messages of other producers on the same exchange
  KindOf,       \* "product", "unknown" (other type) or "malformed" (bad JSON)
  MaxOutages,   \* broker stops
  MaxFaults,    \* publisher connections lost with a frame in flight
  MaxRestarts   \* notifications service restarts

Messages == Events \cup Foreign

ASSUME MessagesAssumption ==
  /\ Events \cap Foreign = {}
  /\ KindOf \in [Messages -> {"product", "unknown", "malformed"}]
  /\ \A e \in Events : KindOf[e] = "product"
ASSUME BoundsAssumption ==
  {MaxOutages, MaxFaults, MaxRestarts} \subseteq Nat

VARIABLES
  outbox,       \* outbox status of each event: "pending" or "published"
  pubConn,      \* the publisher's connection and channel: "open" / "closed"
  broker,       \* "up" or "down"
  cons,         \* "consuming", "detached" (goroutine returned) or "down"
  queue,        \* the consumer's exclusive queue, in delivery order
  routed,       \* history: messages the exchange accepted
  handled,      \* history: product-type messages the consumer logged and acked
  outages, faults, restarts

vars == <<outbox, pubConn, broker, cons, queue, routed, handled,
          outages, faults, restarts>>

(***************************************************************************)
(* The fanout exchange delivers m to the consumer's queue if the queue     *)
(* exists, that is while the consumer's connection is up.                  *)
(***************************************************************************)
Route(m) ==
  /\ routed' = routed \cup {m}
  /\ queue' = IF cons = "consuming" THEN Append(queue, m) ELSE queue

\* Both services are running: the constructors succeeded.
Init ==
  /\ outbox = [e \in Events |-> "pending"]
  /\ pubConn = "open"
  /\ broker = "up"
  /\ cons = "consuming"
  /\ queue = <<>>
  /\ routed = {}
  /\ handled = {}
  /\ outages = 0 /\ faults = 0 /\ restarts = 0

(***************************************************************************)
(* publishInfrastructureEvent succeeds: the frame reaches the broker,      *)
(* which routes it, and the dispatcher marks the row published.            *)
(***************************************************************************)
PublishOk(e) ==
  /\ outbox[e] = "pending" /\ pubConn = "open" /\ broker = "up"
  /\ outbox' = [outbox EXCEPT ![e] = "published"]
  /\ Route(e)
  /\ UNCHANGED <<pubConn, broker, cons, handled, outages, faults, restarts>>

(***************************************************************************)
(* Publish returns nil (the frame is written to the socket; no confirm is  *)
(* awaited) but the connection breaks before the broker reads it: the row  *)
(* is marked published, the message is gone and the channel is closed.     *)
(***************************************************************************)
PublishUnconfirmed(e) ==
  /\ outbox[e] = "pending" /\ pubConn = "open"
  /\ faults < MaxFaults
  /\ outbox' = [outbox EXCEPT ![e] = "published"]
  /\ pubConn' = "closed"
  /\ faults' = faults + 1
  /\ UNCHANGED <<broker, cons, queue, routed, handled, outages, restarts>>

\* Publish on a closed channel returns amqp.ErrClosed: the row stays pending.
PublishFail(e) ==
  /\ outbox[e] = "pending" /\ pubConn = "closed"
  /\ UNCHANGED vars

PublishAttempt(e) == PublishOk(e) \/ PublishUnconfirmed(e) \/ PublishFail(e)

\* Another producer publishes on the exchange.
ForeignPublish(m) ==
  /\ m \in Foreign \ routed /\ broker = "up"
  /\ Route(m)
  /\ UNCHANGED <<outbox, pubConn, broker, cons, handled, outages, faults, restarts>>

(***************************************************************************)
(* handleMessage on the head of the queue.  Bad JSON: Nack(false, false),  *)
(* the broker discards it.  Unknown type: Ack.  Product event: logged and  *)
(* Acked.  requeue = true would put the message back at the head.          *)
(***************************************************************************)
Handle_NackRequeue ==
  /\ cons = "consuming" /\ queue # <<>>
  /\ LET m == Head(queue) IN
       \/ KindOf[m] = "malformed" /\ UNCHANGED <<queue, handled>>
       \/ KindOf[m] = "unknown" /\ queue' = Tail(queue) /\ UNCHANGED handled
       \/ /\ KindOf[m] = "product"
          /\ queue' = Tail(queue)
          /\ handled' = handled \cup {m}
  /\ UNCHANGED <<outbox, pubConn, broker, cons, routed, outages, faults, restarts>>

\* Without the event type check every decoded message is taken for a product event.
Handle_NoTypeCheck ==
  /\ cons = "consuming" /\ queue # <<>>
  /\ LET m == Head(queue) IN
       \/ /\ KindOf[m] = "malformed"
          /\ queue' = Tail(queue)
          /\ UNCHANGED handled
       \/ /\ KindOf[m] \in {"product", "unknown"}
          /\ queue' = Tail(queue)
          /\ handled' = handled \cup {m}
  /\ UNCHANGED <<outbox, pubConn, broker, cons, routed, outages, faults, restarts>>

Handle ==
  /\ cons = "consuming" /\ queue # <<>>
  /\ LET m == Head(queue) IN
       \/ /\ KindOf[m] \in {"malformed", "unknown"}
          /\ queue' = Tail(queue)
          /\ UNCHANGED handled
       \/ /\ KindOf[m] = "product"
          /\ queue' = Tail(queue)
          /\ handled' = handled \cup {m}
  /\ UNCHANGED <<outbox, pubConn, broker, cons, routed, outages, faults, restarts>>

(***************************************************************************)
(* The broker stops: every connection closes.  The publisher's channel is  *)
(* closed for good; the consumer's exclusive queue is deleted with what it *)
(* held, its delivery channel closes and the consume goroutine returns.    *)
(***************************************************************************)
BrokerStop ==
  /\ broker = "up" /\ outages < MaxOutages
  /\ broker' = "down"
  /\ pubConn' = "closed"
  /\ cons' = IF cons = "consuming" THEN "detached" ELSE cons
  /\ queue' = <<>>
  /\ outages' = outages + 1
  /\ UNCHANGED <<outbox, routed, handled, faults, restarts>>

BrokerStart ==
  /\ broker = "down"
  /\ broker' = "up"
  /\ UNCHANGED <<outbox, pubConn, cons, queue, routed, handled,
                 outages, faults, restarts>>

\* The notifications service stops (Stop closes channel and connection).
ConsumerStop ==
  /\ cons # "down" /\ restarts < MaxRestarts
  /\ cons' = "down"
  /\ queue' = <<>>
  /\ restarts' = restarts + 1
  /\ UNCHANGED <<outbox, pubConn, broker, routed, handled, outages, faults>>

(***************************************************************************)
(* It starts again: NewRabbitMQConsumer dials (it exits if the broker is   *)
(* down), declares and binds a fresh empty queue, and Start consumes it.   *)
(***************************************************************************)
ConsumerStart ==
  /\ cons = "down" /\ broker = "up"
  /\ cons' = "consuming"
  /\ queue' = <<>>
  /\ UNCHANGED <<outbox, pubConn, broker, routed, handled, outages, faults, restarts>>

(***************************************************************************)
(* Both services idle: the dispatcher's poll finds no pending row and the  *)
(* consumer waits on an empty queue.                                       *)
(***************************************************************************)
Idle ==
  /\ \A e \in Events : outbox[e] = "published"
  /\ queue = <<>>
  /\ UNCHANGED vars

Next ==
  \/ \E e \in Events : PublishAttempt(e)
  \/ \E m \in Foreign : ForeignPublish(m)
  \/ Handle
  \/ BrokerStop \/ BrokerStart
  \/ ConsumerStop \/ ConsumerStart
  \/ Idle

Spec == Init /\ [][Next]_vars

(***************************************************************************)
(* The dispatcher keeps trying each pending event, the consume goroutine   *)
(* keeps reading while it runs, the broker comes back and the              *)
(* notifications service is restarted.  Faults and stops are not forced.   *)
(***************************************************************************)
Fairness ==
  /\ \A e \in Events : WF_vars(PublishOk(e))
  /\ WF_vars(Handle)
  /\ WF_vars(BrokerStart)
  /\ WF_vars(ConsumerStart)

FairSpec == Spec /\ Fairness

-----------------------------------------------------------------------------
(* The consumer logs and acks only messages of a product event type, the  *)
(* outbox events and any a foreign producer sends with such a type.       *)
TypeOK ==
  /\ outbox \in [Events -> {"pending", "published"}]
  /\ pubConn \in {"open", "closed"}
  /\ broker \in {"up", "down"}
  /\ cons \in {"consuming", "detached", "down"}
  /\ queue \in Seq(Messages)
  /\ routed \subseteq Messages
  /\ handled \subseteq {m \in Messages : KindOf[m] = "product"}
  /\ outages \in 0..MaxOutages /\ faults \in 0..MaxFaults
  /\ restarts \in 0..MaxRestarts

(***************************************************************************)
(* Every pending event is eventually published, across a broker restart    *)
(* ("bus down, then up" of the spec).                                      *)
(***************************************************************************)
EventuallyPublished ==
  \A e \in Events : outbox[e] = "pending" ~> outbox[e] = "published"

\* m waits in the consumer's queue.
InQueue(m) == \E i \in 1..Len(queue) : queue[i] = m

(***************************************************************************)
(* No message blocks the queue: whatever the consumer's queue holds        *)
(* leaves it (handled, acked, nacked away, or dropped with the queue),     *)
(* however the broker, the publisher and the notifications service fail.   *)
(* A poison message Nacked with requeue would sit at the head for ever.    *)
(***************************************************************************)
QueueDrains == \A m \in Messages : InQueue(m) ~> ~InQueue(m)

=============================================================================
