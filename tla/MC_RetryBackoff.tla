--------------------------- MODULE MC_RetryBackoff ---------------------------
(***************************************************************************)
(* TLC instances of RetryBackoff on a 16-bit Duration, one unit being a    *)
(* millisecond.  The worker keeps the defaults of LoadAppConfig (base 1s,  *)
(* max 30s) for every OUTBOX_MAX_RETRIES the service can be given; Do runs *)
(* with the start-up config that NewRabbitMQPublisher and InitDatabase     *)
(* derive from retry.DefaultConfig (5 attempts, base 2s, max 10s, initial  *)
(* 1s) and the use-case DefaultRetryConfig (3 attempts, 50ms, 100ms, 1s).  *)
(* On 16 bits 1000 * 2^k wraps from k = 6 on, as 10^9 * 2^k does on 64    *)
(* bits from k = 34 on.                                                    *)
(***************************************************************************)
EXTENDS RetryBackoff

DoConfigs ==
  { [loop |-> "do", limit |-> n, base |-> 2000, max |-> 10000, initial |-> 1000] :
      n \in 0..5 } \cup
  { [loop |-> "do", limit |-> n, base |-> 100, max |-> 1000, initial |-> 50] :
      n \in 0..3 }

WorkerConfigs(retries) ==
  { [loop |-> "worker", limit |-> n, base |-> 1000, max |-> 30000, initial |-> 0] :
      n \in retries }

\* OUTBOX_MAX_RETRIES from -1 to 6: no shift reaches the sign bit.
MCConfigsInRange == DoConfigs \cup WorkerConfigs(-1..6)

=============================================================================
