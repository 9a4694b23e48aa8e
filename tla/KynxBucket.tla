----------------------------- MODULE KynxBucket -----------------------------
(***************************************************************************)
(* The token buckets of Kynx (runtime/kynx.c): what kynx_refill and        *)
(* kynx_route_refill add, and what kynx_retry_after_ms and                 *)
(* kynx_route_retry_ms tell a denied client.  Both pairs compute the same  *)
(* thing; they differ in the capacity they clamp to, which is a parameter. *)
(* A token is Milli milli-tokens, a millisecond NsPerMs clock units, and   *)
(* unsigned arithmetic wraps at Word.  The gates share the clock.          *)
(***************************************************************************)
EXTENDS Naturals

CONSTANTS Milli,    \* milli-tokens of a token (1000)
          NsPerMs,  \* clock units of a millisecond (1000000)
          Word,     \* uint64_t wraps here (2^64)
          Threads,  \* worker threads
          MaxTime   \* bound: the clock stops here

ASSUME BucketAssumption ==
  /\ Milli \in Nat \ {0}
  /\ NsPerMs \in Nat \ {0}
  /\ Word \in Nat \ {0}
  /\ MaxTime \in Nat \ {0}

VARIABLE now  \* orbit_kynx_now_ns

Smaller(a, b) == IF a < b THEN a ELSE b

(* time - then on unsigned integers. *)
Since(time, then) == (Word + time - then) % Word

(* elapsed * rate * 1000 / window_ns, with elapsed capped at ten windows. *)
Gained(elapsed, rate, win) ==
  ((Smaller(elapsed, 10 * win * NsPerMs) * rate * Milli) % Word) \div (win * NsPerMs)

(* Mutant: the elapsed time is rounded up to whole tokens. *)
RefillRoundsUp(tokens, last, time, rate, win, cap) ==
  IF last = 0 \/ time <= last THEN tokens
  ELSE Smaller(tokens + Gained(time - last, rate, win) + 1, cap)

(* Mutant: nothing is gained before a whole window has passed. *)
RefillByWindow(tokens, last, time, rate, win, cap) ==
  IF last = 0 \/ time <= last + win * NsPerMs THEN tokens
  ELSE Smaller(tokens + Gained(time - last, rate, win), cap)

(* The tokens after a refill; last_refill_ns becomes `time' in every case. *)
Refill(tokens, last, time, rate, win, cap) ==
  IF last = 0 \/ time <= last THEN tokens
  ELSE Smaller(tokens + Gained(time - last, rate, win), cap)

(* Mutant: the wait is computed for half of the missing tokens. *)
RetryMsHalf(tokens, rate, win) ==
  LET ms == ((Milli - tokens) * win) \div (2 * rate * Milli)
  IN  IF tokens >= Milli \/ ms < 1 THEN 1 ELSE Smaller(ms, win)

RetryMs(tokens, rate, win) ==
  LET ms == ((Milli - tokens) * win) \div (rate * Milli)
  IN  IF tokens >= Milli \/ ms < 1 THEN 1 ELSE Smaller(ms, win)
=============================================================================
