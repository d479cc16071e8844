---------------------------- MODULE RetryBackoff ----------------------------
(***************************************************************************)
(* The two retry loops of the products service and the exponential         *)
(* backoff they sleep between attempts.                                    *)
(*                                                                         *)
(*  - OutboxWorker.publishEventWithRetry (outbox_worker.go) tries an event *)
(*    maxRetries + 1 times and, before attempt a > 0, sleeps               *)
(*    baseBackoff * time.Duration(1 << uint(a - 1)), capped at maxBackoff. *)
(*  - retry.Do (retry.go) calls fn MaxAttempts times and, after a failed   *)
(*    attempt a that is not the last, sleeps calculateBackoff(cfg, a):     *)
(*    InitialDelay for a = 0, else BaseBackoff * 2^(a - 1) capped.         *)
(*                                                                         *)
(* time.Duration is an int64: the shift and the product wrap modulo 2^64   *)
(* and a shift by 64 or more yields 0.  The word width is the constant     *)
(* Width, so that TLC can run the loops on a scaled word (TLC's integers   *)
(* are 32-bit) with the wrap at the same attempt as in the deployed      *)
(* build relative to its own bound.  A configuration is a record: the loop *)
(* it drives, its limit (maxRetries of the worker, MaxAttempts of Do) and  *)
(* its durations, as LoadAppConfig and the retry configs set them.         *)
(***************************************************************************)
EXTENDS Integers

CONSTANTS
  Width,      \* bits of time.Duration (64 in the build)
  Configs     \* the configurations the program may be started with

Config == [loop : {"worker", "do"}, limit : Int,
           base : Nat, max : Nat, initial : Nat]

ASSUME WidthAssumption == Width \in Nat \ {0}
ASSUME ConfigsAssumption == Configs \subseteq Config /\ Configs # {}

(***************************************************************************)
(* Two's-complement reading of x as a Width-bit signed integer.            *)
(***************************************************************************)
Signed(x) ==
  LET m == x % 2^Width
  IN  IF m >= 2^(Width - 1) THEN m - 2^Width ELSE m

(***************************************************************************)
(* base * time.Duration(1 << uint(k)): the shift of a Duration by Width or *)
(* more bits is 0, a shift by Width - 1 is the minimum Duration, and the   *)
(* product wraps.                                                          *)
(***************************************************************************)
Shifted(base, k) == IF k >= Width THEN 0 ELSE Signed(base * 2^k)

Capped(d, max) == IF d > max THEN max ELSE d

\* A shift one attempt ahead: the first retry would already sleep 2 * base.
WorkerBackoff_OffByOne(c, a) == Capped(Shifted(c.base, a), c.max)

\* The worker's backoff before attempt a > 0 (outbox_worker.go).
WorkerBackoff(c, a) == Capped(Shifted(c.base, a - 1), c.max)

\* calculateBackoff(cfg, attempt) of retry.go.
CalculateBackoff(c, a) ==
  IF a = 0 THEN c.initial ELSE Capped(Shifted(c.base, a - 1), c.max)

\* The number of attempts each loop makes when every attempt fails.
Limit(c) == IF c.loop = "worker" THEN c.limit + 1 ELSE c.limit

\* The calls a loop makes when every attempt fails, none for a limit below 1.
Attempts(c) == IF Limit(c) > 0 THEN Limit(c) ELSE 0

\* The sleep after failed attempt a, a not being the last one.
Delay(c, a) ==
  IF c.loop = "worker" THEN WorkerBackoff(c, a + 1) ELSE CalculateBackoff(c, a)

(***************************************************************************)
(* Reference: the delay the loops mean, in unbounded integers: the initial *)
(* delay for Do's first retry, else base doubled per attempt, capped.      *)
(***************************************************************************)
IntendedDelay(c, a) ==
  LET k == IF c.loop = "worker" THEN a ELSE a - 1
  IN  IF c.loop = "do" /\ a = 0 THEN c.initial
      ELSE IF c.base * 2^k > c.max THEN c.max ELSE c.base * 2^k

VARIABLES
  cfg,        \* the configuration of this call
  calls,      \* attempts made so far (fn or publishEvent calls)
  pc,         \* "call", "sleep" or "done"
  backoff,    \* the duration of the pending sleep
  result      \* "none", "ok", "exhausted" or "cancelled"

vars == <<cfg, calls, pc, backoff, result>>

\* A loop that makes its first attempt whatever its limit.
Init_AtLeastOnce ==
  /\ cfg \in Configs
  /\ calls = 0
  /\ backoff = 0
  /\ pc = "call"
  /\ result = "none"

(***************************************************************************)
(* A loop whose limit admits no attempt returns its "failed after"         *)
(* error at once.                                                          *)
(***************************************************************************)
Init ==
  /\ cfg \in Configs
  /\ calls = 0
  /\ backoff = 0
  /\ pc = IF Attempts(cfg) > 0 THEN "call" ELSE "done"
  /\ result = IF Attempts(cfg) > 0 THEN "none" ELSE "exhausted"

(***************************************************************************)
(* One attempt: it succeeds and the loop returns nil, or it fails and the  *)
(* loop returns the error after the last attempt, or computes the backoff  *)
(* and goes to sleep.                                                      *)
(***************************************************************************)
Call ==
  /\ pc = "call"
  /\ calls' = calls + 1
  /\ \/ pc' = "done" /\ result' = "ok" /\ UNCHANGED backoff
     \/ /\ calls + 1 = Limit(cfg)
        /\ pc' = "done" /\ result' = "exhausted"
        /\ UNCHANGED backoff
     \/ /\ calls + 1 < Limit(cfg)
        /\ pc' = "sleep"
        /\ backoff' = Delay(cfg, calls)
        /\ UNCHANGED result
  /\ UNCHANGED cfg

\* time.After(backoff) fires: the next attempt.
Sleep ==
  /\ pc = "sleep"
  /\ pc' = "call"
  /\ UNCHANGED <<cfg, calls, backoff, result>>

(***************************************************************************)
(* ctx.Done() wins the select of the sleep; Do also checks ctx.Err()       *)
(* before every attempt.                                                   *)
(***************************************************************************)
Cancel ==
  /\ \/ pc = "sleep"
     \/ pc = "call" /\ cfg.loop = "do"
  /\ pc' = "done"
  /\ result' = "cancelled"
  /\ UNCHANGED <<cfg, calls, backoff>>

Done == pc = "done" /\ UNCHANGED vars

Next == Call \/ Sleep \/ Cancel \/ Done

Spec == Init /\ [][Next]_vars

-----------------------------------------------------------------------------
TypeOK ==
  /\ cfg \in Configs
  /\ calls \in 0..Attempts(cfg)
  /\ pc \in {"call", "sleep", "done"}
  /\ backoff \in Int
  /\ result \in {"none", "ok", "exhausted", "cancelled"}

(***************************************************************************)
(* Every sleep of either loop is the delay the code means: base doubled    *)
(* per attempt and capped at max, never a wrapped (negative or too short)  *)
(* Duration.  Violated when the shift of publishEventWithRetry or of       *)
(* calculateBackoff overflows time.Duration.                               *)
(***************************************************************************)
BackoffMatchesReference ==
  pc = "sleep" => backoff = IntendedDelay(cfg, calls - 1)

=============================================================================
