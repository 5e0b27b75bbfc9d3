----------------------------- MODULE AcmeBudget -----------------------------
(***************************************************************************)
(* The token buckets of internal/limit/acme_budget.go as pure operators.   *)
(* A bucket is [cap, refill]: its burst and the time in which one token    *)
(* comes back.  Its state is [t, at].  The code keeps tokens as a float    *)
(* and adds elapsed/refill; here t counts tokens * refill, so that the     *)
(* arithmetic is exact in whole units of time.                             *)
(***************************************************************************)
EXTENDS Integers

BMin(x, y) == IF x <= y THEN x ELSE y
BMax(x, y) == IF x >= y THEN x ELSE y

BucketShape == [cap : Nat, refill : Nat \ {0}]
BucketState == [t : Int, at : Int]

\* parseBucket: a missing key reads as a full bucket.
Full(b, now) == [t |-> b.cap * b.refill, at |-> now]

\* tokensAt.  An "at" in the future (a Retry-After) stops the refill.
TokensAt(b, s, now) ==
  IF now < s.at THEN s.t ELSE BMin(b.cap * b.refill, s.t + now - s.at)

\* waitFor: how long until the bucket holds need tokens.
WaitFor(b, s, now, need) ==
  IF need > b.cap THEN b.refill
  ELSE IF now < s.at THEN (s.at - now) + (need * b.refill - s.t)
  ELSE need * b.refill - TokensAt(b, s, now)

\* spendN; spend is n = 1.
SpendN(b, s, now, n) ==
  IF now < s.at
    THEN [t |-> s.t - n * b.refill, at |-> s.at]
    ELSE [t |-> TokensAt(b, s, now) - n * b.refill, at |-> now]

\* Mutant: the orders that run already are not counted.
AffordsAlone(b, s, now, held, n) == TokensAt(b, s, now) >= n * b.refill

\* The test of ReserveACME, TakeACME (held = 0, n = 1) and PrepayACME
\* (held = 0): n tokens beyond those held by running orders.
Affords(b, s, now, held, n) == TokensAt(b, s, now) >= (held + n) * b.refill

\* The write of RefundACME, which leaves a bucket alone whose "at" is ahead.
Refunded(b, s, now, n) ==
  IF now < s.at THEN s
  ELSE [t |-> BMin(b.cap * b.refill, TokensAt(b, s, now) + n * b.refill), at |-> now]

\* The write of ResyncACME after a 429.
Resynced(b, now, retryAfter) == [t |-> 0, at |-> (now + retryAfter) - b.refill]

\* writeBucket's PEXPIRE, without its margin of one hour: when the key goes,
\* the next read sees Full.
KeyTTL(b, s, now) ==
  (b.cap * b.refill - BMin(s.t, b.cap * b.refill)) + BMax(0, s.at - now)
=============================================================================
