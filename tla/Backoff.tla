------------------------------- MODULE Backoff -------------------------------
(***************************************************************************)
(* The delays between the attempts of one job that keeps failing:          *)
(* compute_retry_delay (src/models/job.rs:341-345) and its use in the      *)
(* result handler (src/worker/result.rs:77-92), in 64-bit integers.        *)
(* RetryDelay[j][n] of the core is the n-th delay of job j here.           *)
(*                                                                         *)
(*   retryDelaySec, maxRetries   columns of the job                        *)
(*   attempt   attempt_count                                               *)
(*   delay     the last delay that was scheduled                           *)
(*   outcome   "retrying", "dead" (DEAD_LETTER), or "panicked": the worker *)
(*             task ended in the result handler                            *)
(***************************************************************************)
EXTENDS Integers

CONSTANTS
  RetryDelaySecs,  \* the values of retry_delay_sec that clients send
  MaxRetriesBound, \* bound: max_retries is at most this
  MaxBackoffSecs,  \* Config::max_retry_backoff_secs
  I64Max,          \* the largest i64
  SecondsMax,      \* the largest delay that can be added to the present time
  Pow2,            \* Pow2[e] is 2 to the power of e
  OverflowChecks   \* a debug build

ASSUME BackoffAssumption ==
  /\ RetryDelaySecs \subseteq Int
  /\ MaxRetriesBound \in Nat
  /\ MaxBackoffSecs \in Int
  /\ I64Max \in Nat
  /\ SecondsMax \in 0..I64Max
  /\ Pow2 \in [0..MaxRetriesBound -> Nat]
  /\ Pow2[0] = 1
  /\ \A e \in 1..MaxRetriesBound : Pow2[e] = 2 * Pow2[e - 1]
  /\ OverflowChecks \in BOOLEAN

VARIABLES retryDelaySec, maxRetries, attempt, delay, outcome

job == <<retryDelaySec, maxRetries>>
vars == <<job, attempt, delay, outcome>>

-----------------------------------------------------------------------------
(* i64.                                                                    *)
Lower(x, y) == IF x <= y THEN x ELSE y

InI64(x) == -(I64Max + 1) <= x /\ x <= I64Max

(* The product of two i64 in a release build keeps its low bits.           *)
Wrap(x) ==
  LET modulus == 2 * (I64Max + 1) IN
  IF InI64(x) THEN x ELSE ((x + I64Max + 1) % modulus) - (I64Max + 1)

(* 2i64.saturating_pow                                                     *)
SaturatingPow2(e) == Lower(Pow2[e], I64Max)

ExponentOfAttempt(n) == n  \* mutant: no saturating_sub(1)
ExponentRemaining(n) == maxRetries - n  \* mutant: the attempts left
Exponent(n) == IF n > 1 THEN n - 1 ELSE 0

Product(n) == retryDelaySec * SaturatingPow2(Exponent(n))

(* compute_retry_delay and now + ChronoDuration::seconds(..): each of them *)
(* may panic.                                                              *)
ComputeRetryDelay(n) == Lower(Wrap(Product(n)), MaxBackoffSecs)

Representable(d) == -SecondsMax <= d /\ d <= SecondsMax

Panics(n) ==
  \/ OverflowChecks /\ ~InI64(Product(n))
  \/ ~Representable(ComputeRetryDelay(n))

-----------------------------------------------------------------------------
Init ==
  /\ retryDelaySec \in RetryDelaySecs
  /\ maxRetries \in 0..MaxRetriesBound
  /\ attempt = 0
  /\ delay = 0
  /\ outcome = "retrying"

(* next_attempt > max_retries is the test of the code.                     *)
RetriesLeftOneMore(n) == n <= maxRetries + 1  \* mutant: >=
RetriesLeft(n) == n <= maxRetries

Retry ==
  LET next == attempt + 1 IN
  /\ outcome = "retrying"
  /\ RetriesLeft(next)
  /\ \/ /\ Panics(next)
        /\ outcome' = "panicked"
        /\ UNCHANGED <<attempt, delay>>
     \/ /\ ~Panics(next)
        /\ attempt' = next
        /\ delay' = ComputeRetryDelay(next)
        /\ UNCHANGED outcome
  /\ UNCHANGED job

DeadLetter ==
  /\ outcome = "retrying"
  /\ ~RetriesLeft(attempt + 1)
  /\ outcome' = "dead"
  /\ UNCHANGED <<job, attempt, delay>>

Next == Retry \/ DeadLetter

Spec == Init /\ [][Next]_vars

-----------------------------------------------------------------------------
TypeOK ==
  /\ retryDelaySec \in RetryDelaySecs
  /\ maxRetries \in 0..MaxRetriesBound
  /\ attempt \in 0..maxRetries
  /\ delay \in Int
  /\ outcome \in {"retrying", "dead", "panicked"}

(* The delay that is meant, and the configurations it is meant for: the    *)
(* product may not exceed an i64, the cap may not exceed the calendar.     *)
Meant(n) == Lower(retryDelaySec * Pow2[n - 1], MaxBackoffSecs)

InRange(n) ==
  /\ retryDelaySec >= 0
  /\ retryDelaySec * Pow2[n - 1] <= I64Max
  /\ 0 <= MaxBackoffSecs /\ MaxBackoffSecs <= SecondsMax

(* "Failed jobs reschedule with exponential backoff capped by              *)
(* MAX_RETRY_BACKOFF_SECS" (README, "Retries"), for as long as             *)
(* retry_delay_sec * 2^(n-1) fits into an i64 (job.rs:343); only beyond    *)
(* that does the n-th failure bring the worker down, or make it retry at   *)
(* another time.                                                           *)
BackoffExact ==
  /\ attempt > 0 /\ InRange(attempt) => delay = Meant(attempt)
  /\ outcome = "panicked" => ~InRange(attempt + 1)

(* Up to there a job never waits less than after its previous failure.     *)
BackoffGrows ==
  [][attempt > 0 /\ attempt' # attempt /\ InRange(attempt') => delay' >= delay]_vars

=============================================================================
