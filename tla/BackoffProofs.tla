---------------------------- MODULE BackoffProofs ----------------------------
(***************************************************************************)
(* Proofs about Backoff: the delays are the ones that are meant, in        *)
(* integers of any width, in both builds, until the product leaves them.   *)
(***************************************************************************)
EXTENDS Backoff, TLAPS

(* Powers of two are positive, and each is twice the one before; neither   *)
(* needs induction when the two are stated for neighbours.                 *)
LEMMA PowerTypes ==
  ASSUME NEW e \in 0..MaxRetriesBound
  PROVE  Pow2[e] \in Nat
BY BackoffAssumption

LEMMA PowerDoubles ==
  ASSUME NEW e \in 1..MaxRetriesBound
  PROVE  /\ e - 1 \in 0..MaxRetriesBound
         /\ Pow2[e] = 2 * Pow2[e - 1]
<1>1. e - 1 \in 0..MaxRetriesBound
  BY BackoffAssumption
<1> QED
  BY <1>1, BackoffAssumption

(* As long as the product fits, nothing saturates, wraps or panics.        *)
LEMMA DelayIsMeant ==
  ASSUME TypeOK, NEW n \in 1..MaxRetriesBound, InRange(n)
  PROVE  /\ Product(n) = retryDelaySec * Pow2[n - 1]
         /\ ComputeRetryDelay(n) = Meant(n)
         /\ ~Panics(n)
<1> DEFINE r == retryDelaySec
           p == Pow2[n - 1]
<1>1. r \in Nat /\ n - 1 \in 0..MaxRetriesBound
  BY BackoffAssumption DEF TypeOK, InRange
<1>2. p \in Nat
  BY <1>1, PowerTypes
<1>3. Exponent(n) = n - 1
  BY DEF Exponent
<1>4. I64Max \in Nat /\ MaxBackoffSecs \in Int /\ SecondsMax \in 0..I64Max
  BY BackoffAssumption
<1>5. r * p \in Nat /\ r * p <= I64Max
  BY <1>1, <1>2 DEF InRange
<1>6. Product(n) = r * p
  <2>1. CASE p <= I64Max
    BY <1>3, <2>1 DEF Product, SaturatingPow2, Lower
  <2>2. CASE ~(p <= I64Max)
    <3>1. r = 0
      <4>1. SUFFICES ASSUME r >= 1 PROVE FALSE
        BY <1>1
      <4> HIDE DEF r, p
      <4>2. r * p >= p
        BY <4>1, <1>1, <1>2
      <4> QED
        BY <4>2, <1>2, <1>4, <1>5, <2>2
    <3>2. Product(n) = 0 * I64Max
      BY <1>3, <2>2, <3>1 DEF Product, SaturatingPow2, Lower
    <3>3. r * p = 0 * p
      BY <3>1
    <3> QED
      BY <1>2, <1>4, <3>2, <3>3
  <2> QED
    BY <2>1, <2>2
<1>7. InI64(Product(n))
  BY <1>4, <1>5, <1>6 DEF InI64
<1>8. ComputeRetryDelay(n) = Lower(r * p, MaxBackoffSecs)
  BY <1>6, <1>7 DEF ComputeRetryDelay, Wrap
<1>9. 0 <= MaxBackoffSecs /\ MaxBackoffSecs <= SecondsMax
  BY DEF InRange
<1>10. Representable(ComputeRetryDelay(n))
  <2> HIDE DEF r, p
  <2> QED
    BY <1>4, <1>5, <1>8, <1>9 DEF Representable, Lower
<1> QED
  BY <1>6, <1>7, <1>8, <1>10 DEF Panics, Meant

-----------------------------------------------------------------------------
(* The delay itself is an integer, whatever wraps.                         *)
LEMMA DelayTypes ==
  ASSUME TypeOK, NEW n \in 1..MaxRetriesBound
  PROVE  ComputeRetryDelay(n) \in Int
<1>1. Exponent(n) \in 0..MaxRetriesBound
  BY BackoffAssumption DEF Exponent
<1>2. Pow2[Exponent(n)] \in Nat /\ I64Max \in Nat /\ MaxBackoffSecs \in Int
  BY <1>1, BackoffAssumption
<1>3. SaturatingPow2(Exponent(n)) \in Nat
  BY <1>2 DEF SaturatingPow2, Lower
<1>4. retryDelaySec \in Int
  BY BackoffAssumption DEF TypeOK
<1>5. Product(n) \in Int
  BY <1>3, <1>4 DEF Product
<1>6. Wrap(Product(n)) \in Int
  <2> DEFINE m == 2 * (I64Max + 1)
             x == Product(n) + I64Max + 1
  <2>1. x \in Int /\ m \in Int /\ m > 0
    BY <1>2, <1>5
  <2>2. x % m \in Int
    <3> HIDE DEF x, m
    <3> QED
      BY <2>1
  <2> QED
    BY <1>2, <1>5, <2>2 DEF Wrap
<1> QED
  BY <1>2, <1>6 DEF ComputeRetryDelay, Lower

BackoffInv == TypeOK /\ BackoffExact

LEMMA BackoffInit == Init => BackoffInv
<1> SUFFICES ASSUME Init PROVE BackoffInv
  OBVIOUS
<1>1. TypeOK
  BY BackoffAssumption DEF Init, TypeOK
<1>2. BackoffExact
  BY DEF Init, BackoffExact
<1> QED
  BY <1>1, <1>2 DEF BackoffInv

LEMMA BackoffStep == BackoffInv /\ [Next]_vars => BackoffInv'
<1> SUFFICES ASSUME BackoffInv, [Next]_vars PROVE BackoffInv'
  OBVIOUS
<1>0. TypeOK /\ BackoffExact /\ MaxRetriesBound \in Nat
  BY BackoffAssumption DEF BackoffInv
<1>1. CASE Retry
  <2> DEFINE next == attempt + 1
  <2>1. /\ next \in 1..MaxRetriesBound
        /\ next \in 0..maxRetries
        /\ UNCHANGED job
    BY <1>0, <1>1 DEF Retry, RetriesLeft, TypeOK
  <2>2. CASE Panics(next) /\ outcome' = "panicked" /\ UNCHANGED <<attempt, delay>>
    <3>1. TypeOK'
      BY <1>0, <2>1, <2>2 DEF TypeOK, job
    <3>2. ~InRange(next)
      BY <1>0, <2>1, <2>2, DelayIsMeant
    <3> QED
      BY <1>0, <2>1, <2>2, <3>1, <3>2 DEF BackoffInv, BackoffExact, InRange, Meant, job
  <2>3. CASE /\ ~Panics(next)
             /\ attempt' = next
             /\ delay' = ComputeRetryDelay(next)
             /\ UNCHANGED outcome
    <3>1. delay' \in Int
      BY <1>0, <2>1, <2>3, DelayTypes
    <3>2. TypeOK'
      BY <1>0, <2>1, <2>3, <3>1 DEF TypeOK, job
    <3>3. InRange(next) => delay' = Meant(next)
      BY <1>0, <2>1, <2>3, DelayIsMeant
    <3>4. outcome' # "panicked"
      BY <1>1, <2>3 DEF Retry
    <3> QED
      BY <2>1, <2>3, <3>2, <3>3, <3>4 DEF BackoffInv, BackoffExact, InRange, Meant, job
  <2> QED
    BY <1>1, <2>2, <2>3 DEF Retry
<1>2. CASE DeadLetter
  BY <1>0, <1>2 DEF DeadLetter, BackoffInv, TypeOK, BackoffExact, InRange, Meant, job
<1>3. CASE UNCHANGED vars
  BY <1>0, <1>3 DEF vars, BackoffInv, TypeOK, BackoffExact, InRange, Meant, job
<1> QED
  BY <1>1, <1>2, <1>3 DEF Next

(* The n-th delay is min(retry_delay_sec * 2^(n-1), MAX_RETRY_BACKOFF_SECS)*)
(* for every width of the integers, in debug and in release builds, for as *)
(* long as the product fits; no failure up to there ends the worker.       *)
THEOREM DelaysAreExact == Spec => []BackoffExact
<1>1. BackoffInv => BackoffExact
  BY DEF BackoffInv
<1> QED
  BY <1>1, BackoffInit, BackoffStep, PTL DEF Spec

(* Types: in particular a job is retried max_retries times at most         *)
(* (result.rs:77-78).                                                      *)
THEOREM BackoffTypes == Spec => []TypeOK
<1>1. BackoffInv => TypeOK
  BY DEF BackoffInv
<1> QED
  BY <1>1, BackoffInit, BackoffStep, PTL DEF Spec

-----------------------------------------------------------------------------
(* Two neighbouring delays that are both in range.                         *)
LEMMA MeantGrows ==
  ASSUME TypeOK, NEW n \in 1..(MaxRetriesBound - 1), InRange(n + 1)
  PROVE  InRange(n) /\ Meant(n) <= Meant(n + 1)
<1> DEFINE r == retryDelaySec
           p == Pow2[n - 1]
           q == Pow2[n]
<1>1. n \in 1..MaxRetriesBound /\ MaxRetriesBound \in Nat /\ (n + 1) - 1 = n
  BY BackoffAssumption
<1>2. p \in Nat /\ q = 2 * p
  BY <1>1, PowerDoubles, PowerTypes
<1>3. r \in Nat /\ MaxBackoffSecs \in Int /\ I64Max \in Nat
  BY BackoffAssumption DEF TypeOK, InRange
<1>4. r * p <= r * q /\ r * p \in Nat /\ r * q \in Nat
  <2> HIDE DEF r, p, q
  <2>1. r * p \in Nat
    BY <1>2, <1>3
  <2>2. r * q = 2 * (r * p)
    BY <1>2, <1>3
  <2> QED
    BY <2>1, <2>2
<1>5. r * q <= I64Max
  BY <1>1 DEF InRange
<1>6. Meant(n) = Lower(r * p, MaxBackoffSecs) /\ Meant(n + 1) = Lower(r * q, MaxBackoffSecs)
  BY <1>1 DEF Meant
<1>7. InRange(n)
  <2>1. r * p <= I64Max
    <3> HIDE DEF r, p, q
    <3> QED
      BY <1>3, <1>4, <1>5
  <2> QED
    BY <2>1 DEF InRange
<1>8. Lower(r * p, MaxBackoffSecs) <= Lower(r * q, MaxBackoffSecs)
  <2> HIDE DEF r, p, q
  <2> QED
    BY <1>3, <1>4 DEF Lower
<1> QED
  BY <1>6, <1>7, <1>8

(* A job never waits less than after its previous failure, as long as the  *)
(* product fits.                                                           *)
THEOREM DelaysGrow == Spec => BackoffGrows
<1>1. ASSUME BackoffInv, [Next]_vars, attempt > 0, attempt' # attempt, InRange(attempt')
      PROVE  delay' >= delay
  <2> DEFINE next == attempt + 1
  <2>0. TypeOK /\ BackoffExact /\ MaxRetriesBound \in Nat
    BY <1>1, BackoffAssumption DEF BackoffInv
  <2>1. Retry /\ ~Panics(next) /\ attempt' = next /\ delay' = ComputeRetryDelay(next)
    BY <1>1 DEF Next, Retry, DeadLetter, vars
  <2>2. attempt \in 1..(MaxRetriesBound - 1) /\ next \in 1..MaxRetriesBound
    BY <1>1, <2>0, <2>1 DEF TypeOK, Retry, RetriesLeft
  <2>3. InRange(next)
    BY <1>1, <2>1
  <2>4. InRange(attempt) /\ Meant(attempt) <= Meant(next)
    BY <2>0, <2>2, <2>3, MeantGrows
  <2>5. delay = Meant(attempt)
    BY <1>1, <2>0, <2>4 DEF BackoffExact
  <2>6. delay' = Meant(next)
    BY <2>0, <2>1, <2>2, <2>3, DelayIsMeant
  <2>7. Meant(attempt) \in Int /\ Meant(next) \in Int
    <3>1. delay' \in Int /\ delay \in Int
      BY <2>0, <2>1, <2>2, DelayTypes DEF TypeOK
    <3> QED
      BY <2>5, <2>6, <3>1
  <2> QED
    BY <2>4, <2>5, <2>6, <2>7
<1>2. BackoffInv /\ [Next]_vars =>
        [attempt > 0 /\ attempt' # attempt /\ InRange(attempt') => delay' >= delay]_vars
  BY <1>1
<1> QED
  BY <1>2, BackoffInit, BackoffStep, PTL DEF Spec, BackoffGrows

=============================================================================
