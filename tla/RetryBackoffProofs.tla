------------------------- MODULE RetryBackoffProofs -------------------------
(***************************************************************************)
(* Proofs about the retry loops of RetryBackoff: their type, and that the  *)
(* backoff they sleep is the intended one for every word width and every  *)
(* configuration whose shifts stay in range.                               *)
(***************************************************************************)
EXTENDS RetryBackoff, FiniteSetTheorems, TLAPS

(***************************************************************************)
(* The loop's control state: a loop that is still running has reported    *)
(* nothing and has an attempt left.  It leaves out the type of backoff,    *)
(* which TypeInv adds.                                                     *)
(***************************************************************************)
IInv ==
  /\ cfg \in Configs
  /\ calls \in 0..Attempts(cfg)
  /\ pc \in {"call", "sleep", "done"}
  /\ result \in {"none", "ok", "exhausted", "cancelled"}
  /\ pc \in {"call", "sleep"} => result = "none" /\ calls < Attempts(cfg)
  /\ result = "exhausted" => calls = Attempts(cfg)

-----------------------------------------------------------------------------
(* Powers of two.  The provers do not know ^ beyond constants; the        *)
(* subsets of 1..k, 2^k of them, give what the Duration arithmetic needs.  *)

(* 2^k counts the subsets of 1..k, so it is a positive natural.           *)
LEMMA PowerPos ==
    ASSUME NEW k \in Nat
    PROVE  2^k \in Nat \ {0}
<1>1. IsFiniteSet(1..k) /\ Cardinality(1..k) = k
  BY FS_Interval
<1>2. IsFiniteSet(SUBSET (1..k)) /\ Cardinality(SUBSET (1..k)) = 2^k
  BY <1>1, FS_SUBSET
<1>3. Cardinality(SUBSET (1..k)) \in Nat
  BY <1>2, FS_CardinalityType
<1>4. Cardinality(SUBSET (1..k)) # 0
  <2>1. SUBSET (1..k) # {}
    OBVIOUS
  <2> QED BY <1>2, <2>1, FS_EmptySet
<1> QED BY <1>2, <1>3, <1>4

(* 2^j <= 2^k for j <= k: the subsets of 1..j are subsets of 1..k.       *)
LEMMA PowerMono ==
    ASSUME NEW j \in Nat, NEW k \in Nat, j <= k
    PROVE  2^j <= 2^k
<1>1. IsFiniteSet(SUBSET (1..j)) /\ Cardinality(SUBSET (1..j)) = 2^j
  <2>1. IsFiniteSet(1..j) /\ Cardinality(1..j) = j
    BY FS_Interval
  <2> QED BY <2>1, FS_SUBSET
<1>2. IsFiniteSet(SUBSET (1..k)) /\ Cardinality(SUBSET (1..k)) = 2^k
  <2>1. IsFiniteSet(1..k) /\ Cardinality(1..k) = k
    BY FS_Interval
  <2> QED BY <2>1, FS_SUBSET
<1>3. SUBSET (1..j) \subseteq SUBSET (1..k)
  OBVIOUS
<1> QED BY <1>1, <1>2, <1>3, FS_Subset

(***************************************************************************)
(* Configuration c never shifts into the sign bit: every backoff its loop  *)
(* sleeps, base * 2^k for k up to Attempts(c) - 2, is below 2^(Width-1).  *)
(* It holds for the defaults and every OUTBOX_MAX_RETRIES up to 34 on the *)
(* 64-bit build; finding 7 is what happens outside it.                     *)
(***************************************************************************)
InRange(c) ==
    \A k \in 0..(Attempts(c) - 2) : k < Width /\ c.base * 2^k < 2^(Width - 1)

LEMMA AttemptsNat == \A c \in Configs : Attempts(c) \in Nat
  BY ConfigsAssumption DEF Attempts, Limit, Config

LEMMA IInvInit == Init => IInv
  BY AttemptsNat DEF Init, IInv

LEMMA IInvNext == IInv /\ [Next]_vars => IInv'
<1> SUFFICES ASSUME IInv, [Next]_vars PROVE IInv'
  OBVIOUS
<1>1. cfg \in Configs /\ Attempts(cfg) \in Nat /\ calls \in Nat
  BY AttemptsNat DEF IInv
<1>2. CASE Call
  <2>1. Limit(cfg) \in Int
    BY ConfigsAssumption, <1>1 DEF Limit, Config
  <2>2. calls + 1 = Limit(cfg) => Attempts(cfg) = Limit(cfg)
    BY <1>1, <2>1 DEF Attempts
  <2>3. calls + 1 < Limit(cfg) => calls + 1 < Attempts(cfg)
    BY <1>1, <2>1 DEF Attempts
  <2> QED
    BY <1>1, <1>2, <2>1, <2>2, <2>3 DEF IInv, Call
<1>3. CASE Sleep
  BY <1>3 DEF IInv, Sleep
<1>4. CASE Cancel
  BY <1>4 DEF IInv, Cancel
<1>5. CASE Done \/ UNCHANGED vars
  BY <1>5 DEF IInv, Done, vars
<1> QED
  BY <1>2, <1>3, <1>4, <1>5 DEF Next

-----------------------------------------------------------------------------
(* The Duration arithmetic.                                               *)

(* The two's-complement reading of an integer is an integer.              *)
LEMMA SignedInt ==
    ASSUME NEW x \in Int
    PROVE  Signed(x) \in Int
<1>1. 2^Width \in Nat \ {0} /\ 2^(Width - 1) \in Nat \ {0}
  BY WidthAssumption, PowerPos
<1> QED BY <1>1 DEF Signed

(* A non-negative value below the sign bit reads as itself.               *)
LEMMA SignedId ==
    ASSUME NEW x \in Nat, x < 2^(Width - 1)
    PROVE  Signed(x) = x
<1>1. 2^Width \in Nat \ {0} /\ 2^(Width - 1) \in Nat \ {0}
  BY WidthAssumption, PowerPos
<1>2. 2^(Width - 1) <= 2^Width
  BY WidthAssumption, PowerMono
<1>3. x % 2^Width = x
  BY <1>1, <1>2
<1> QED BY <1>1, <1>3 DEF Signed

(* base * time.Duration(1 << uint(k)) is an integer, wrapped or not.      *)
LEMMA ShiftedInt ==
    ASSUME NEW b \in Nat, NEW k \in Nat
    PROVE  Shifted(b, k) \in Int
<1>1. b * 2^k \in Int
  BY PowerPos
<1> QED BY <1>1, SignedInt DEF Shifted

(* Every sleep either loop computes is an integer Duration.               *)
LEMMA DelayInt ==
    ASSUME NEW c \in Configs, NEW a \in Nat
    PROVE  Delay(c, a) \in Int
<1>1. c.base \in Nat /\ c.max \in Nat /\ c.initial \in Nat
  BY ConfigsAssumption DEF Config
<1>2. CASE c.loop = "worker"
  <2>1. Shifted(c.base, (a + 1) - 1) \in Int
    BY <1>1, ShiftedInt
  <2> QED BY <1>1, <1>2, <2>1 DEF Delay, WorkerBackoff, Capped
<1>3. CASE c.loop # "worker" /\ a = 0
  BY <1>1, <1>3 DEF Delay, CalculateBackoff
<1>4. CASE c.loop # "worker" /\ a # 0
  <2>1. Shifted(c.base, a - 1) \in Int
    BY <1>1, <1>4, ShiftedInt
  <2> QED BY <1>1, <1>4, <2>1 DEF Delay, CalculateBackoff, Capped
<1> QED BY <1>2, <1>3, <1>4

(* In range, the shift neither reaches the word width nor the sign bit,   *)
(* so the Duration is the unbounded product.                              *)
LEMMA ShiftedExact ==
    ASSUME NEW c \in Configs, InRange(c), NEW k \in 0..(Attempts(c) - 2)
    PROVE  Shifted(c.base, k) = c.base * 2^k
<1>1. k < Width /\ c.base * 2^k < 2^(Width - 1)
  BY DEF InRange
<1>2. c.base * 2^k \in Nat
  BY PowerPos, ConfigsAssumption DEF Config
<1>3. Signed(c.base * 2^k) = c.base * 2^k
  BY <1>1, <1>2, SignedId
<1> QED BY <1>1, <1>3, WidthAssumption DEF Shifted

(* The sleep after failed attempt a, when a is not the last one, is the   *)
(* intended capped doubling delay for a configuration in range.           *)
LEMMA DelayMatches ==
    ASSUME NEW c \in Configs, InRange(c), NEW a \in Nat, a + 1 < Limit(c)
    PROVE  Delay(c, a) = IntendedDelay(c, a)
<1>1. Limit(c) \in Int /\ Attempts(c) = Limit(c)
  BY ConfigsAssumption DEF Limit, Attempts, Config
<1>2. CASE c.loop = "worker"
  <2>1. Shifted(c.base, a) = c.base * 2^a
    BY <1>1, ShiftedExact
  <2>2. (a + 1) - 1 = a
    OBVIOUS
  <2> QED BY <1>2, <2>1, <2>2 DEF Delay, WorkerBackoff, Capped, IntendedDelay
<1>3. CASE c.loop # "worker" /\ a = 0
  <2>1. c.loop = "do"
    BY <1>3, ConfigsAssumption DEF Config
  <2> QED BY <1>3, <2>1 DEF Delay, CalculateBackoff, IntendedDelay
<1>4. CASE c.loop # "worker" /\ a # 0
  <2>1. a - 1 \in 0..(Attempts(c) - 2)
    BY <1>1, <1>4
  <2>2. Shifted(c.base, a - 1) = c.base * 2^(a - 1)
    BY <2>1, ShiftedExact
  <2>3. c.loop = "do"
    BY <1>4, ConfigsAssumption DEF Config
  <2> QED BY <1>4, <2>2, <2>3 DEF Delay, CalculateBackoff, Capped, IntendedDelay
<1> QED BY <1>2, <1>3, <1>4

-----------------------------------------------------------------------------
(* Type correctness and the backoff in range.                             *)

(* IInv with the type of the pending sleep.                               *)
TypeInv == IInv /\ backoff \in Int

(* TypeInv with the pending sleep equal to the reference delay.           *)
BackoffInv == TypeInv /\ BackoffMatchesReference

LEMMA TypeInvNext == TypeInv /\ [Next]_vars => TypeInv'
<1> SUFFICES ASSUME TypeInv, [Next]_vars PROVE TypeInv'
  OBVIOUS
<1>1. IInv'
  BY IInvNext DEF TypeInv
<1>2. CASE Call
  <2>1. cfg \in Configs /\ calls \in Nat
    BY DEF TypeInv, IInv
  <2>2. Delay(cfg, calls) \in Int
    BY <2>1, DelayInt
  <2> QED BY <1>1, <1>2, <2>2 DEF TypeInv, Call
<1>3. CASE Sleep \/ Cancel \/ Done \/ UNCHANGED vars
  BY <1>1, <1>3 DEF TypeInv, Sleep, Cancel, Done, vars
<1> QED BY <1>2, <1>3 DEF Next

(* Every state of either retry loop is well typed for every word width   *)
(* and configuration: in particular the backoff computed by the shift is  *)
(* a Duration, wrapped or not.                                            *)
THEOREM TypeCorrect == Spec => []TypeOK
<1>1. Init => TypeInv
  BY IInvInit DEF Init, TypeInv
<1>2. TypeInv => TypeOK
  BY DEF TypeInv, IInv, TypeOK
<1> QED BY <1>1, <1>2, TypeInvNext, PTL DEF Spec

LEMMA BackoffInvNext ==
    ASSUME \A c \in Configs : InRange(c)
    PROVE  BackoffInv /\ [Next]_vars => BackoffInv'
<1> SUFFICES ASSUME BackoffInv, [Next]_vars PROVE BackoffInv'
  OBVIOUS
<1>1. TypeInv'
  BY TypeInvNext DEF BackoffInv
<1>2. CASE Call
  <2>1. cfg \in Configs /\ calls \in Nat /\ InRange(cfg)
    BY DEF BackoffInv, TypeInv, IInv
  <2>2. calls + 1 < Limit(cfg) => Delay(cfg, calls) = IntendedDelay(cfg, calls)
    BY <2>1, DelayMatches
  <2>3. (calls + 1) - 1 = calls
    BY <2>1
  <2> QED BY <1>1, <1>2, <2>2, <2>3 DEF BackoffInv, BackoffMatchesReference, Call
<1>3. CASE Sleep \/ Cancel
  BY <1>1, <1>3 DEF BackoffInv, BackoffMatchesReference, Sleep, Cancel
<1>4. CASE Done \/ UNCHANGED vars
  BY <1>1, <1>4 DEF BackoffInv, BackoffMatchesReference, Done, vars
<1> QED BY <1>2, <1>3, <1>4 DEF Next

(* For every word width and every set of configurations whose shifts stay *)
(* below the sign bit, each sleep of publishEventWithRetry and retry.Do   *)
(* is the intended delay: Do's InitialDelay first, then base doubled per  *)
(* attempt and capped at max.                                             *)
THEOREM BackoffExact ==
    ASSUME \A c \in Configs : InRange(c)
    PROVE  Spec => []BackoffMatchesReference
<1>1. Init => BackoffInv
  BY IInvInit DEF Init, BackoffInv, TypeInv, BackoffMatchesReference
<1>2. BackoffInv => BackoffMatchesReference
  BY DEF BackoffInv
<1> QED BY <1>1, <1>2, BackoffInvNext, PTL DEF Spec

=============================================================================
