-------------------------- MODULE AcmeBudgetProofs --------------------------
(***************************************************************************)
(* Facts about the bucket arithmetic of AcmeBudget for every capacity,     *)
(* refill time, state and instant.                                         *)
(***************************************************************************)
EXTENDS AcmeBudget, TLAPS

\* The wait that ReserveACME and PrepayACME report is long enough: a caller
\* that comes back after it finds the tokens, if nobody took any since and
\* the bucket can hold that many.
THEOREM WaitIsEnough ==
  ASSUME NEW b \in BucketShape, NEW s \in BucketState, NEW now \in Int,
         NEW need \in Nat, need <= b.cap,
         ~ (TokensAt(b, s, now) >= need * b.refill)
  PROVE  TokensAt(b, s, now + WaitFor(b, s, now, need)) >= need * b.refill
<1> DEFINE C == b.cap * b.refill
           D == need * b.refill
<1>1. /\ C \in Int /\ D \in Int /\ D <= C
  BY SMTT(30) DEF BucketShape
<1> HIDE DEF C, D
<1>2. /\ s.t \in Int /\ s.at \in Int
  BY DEF BucketState
<1>3. need \in Int /\ b.cap \in Int /\ ~(need > b.cap)
  BY DEF BucketShape
<1>4. TokensAt(b, s, now) = (IF now < s.at THEN s.t ELSE BMin(C, s.t + now - s.at))
  BY DEF TokensAt, C
<1>5. WaitFor(b, s, now, need) =
        (IF now < s.at THEN (s.at - now) + (D - s.t) ELSE D - TokensAt(b, s, now))
  BY <1>3 DEF WaitFor, D
<1>6. CASE now < s.at
  <2>1. WaitFor(b, s, now, need) = (s.at - now) + (D - s.t) /\ s.t < D
    BY <1>1, <1>2, <1>4, <1>5, <1>6 DEF D
  <2>2. now + WaitFor(b, s, now, need) = s.at + (D - s.t)
    BY <2>1, <1>1, <1>2
  <2>3. TokensAt(b, s, s.at + (D - s.t)) = BMin(C, s.t + (s.at + (D - s.t)) - s.at)
    BY <2>1, <1>1, <1>2 DEF TokensAt, C
  <2>4. BMin(C, s.t + (s.at + (D - s.t)) - s.at) = D
    BY <1>1, <1>2 DEF BMin
  <2> QED BY <2>2, <2>3, <2>4, <1>1 DEF D
<1>7. CASE ~(now < s.at)
  <2>1. /\ WaitFor(b, s, now, need) = D - BMin(C, s.t + now - s.at)
        /\ BMin(C, s.t + now - s.at) < D
    BY <1>1, <1>2, <1>4, <1>5, <1>7 DEF D, BMin
  <2>2. /\ BMin(C, s.t + now - s.at) = s.t + now - s.at
        /\ s.t + now - s.at < D
    BY <2>1, <1>1, <1>2 DEF BMin
  <2>3. now + WaitFor(b, s, now, need) = now + (D - (s.t + now - s.at))
    BY <2>1, <2>2
  <2> DEFINE later == now + (D - (s.t + now - s.at))
  <2>4. later \in Int /\ ~(later < s.at) /\ s.t + later - s.at = D
    BY <1>1, <1>2, <1>7, <2>2
  <2>5. TokensAt(b, s, later) = BMin(C, D)
    BY <2>4 DEF TokensAt, C
  <2> QED BY <2>3, <2>5, <1>1 DEF BMin, D
<1> QED BY <1>6, <1>7

\* A bucket that a 429 emptied admits no request before the CA's Retry-After
\* has passed, and exactly one at that instant.
THEOREM ResyncHoldsBack ==
  ASSUME NEW b \in BucketShape, b.cap >= 1, NEW now \in Int, NEW ra \in Nat, NEW d \in Nat
  PROVE  /\ d < ra => TokensAt(b, Resynced(b, now, ra), now + d) < b.refill
         /\ TokensAt(b, Resynced(b, now, ra), now + ra) = b.refill
<1> DEFINE C == b.cap * b.refill
<1>1. /\ b.refill \in Nat /\ b.refill > 0 /\ C \in Int /\ C >= b.refill
  BY SMTT(30) DEF BucketShape
<1> HIDE DEF C
<1>2. TokensAt(b, Resynced(b, now, ra), now + d) =
        IF now + d < (now + ra) - b.refill THEN 0
        ELSE BMin(C, (now + d) - ((now + ra) - b.refill))
  BY <1>1 DEF TokensAt, Resynced, C
<1>3. TokensAt(b, Resynced(b, now, ra), now + ra) = BMin(C, b.refill)
  BY <1>1 DEF TokensAt, Resynced, C
<1> QED BY <1>1, <1>2, <1>3 DEF BMin

\* The key of a bucket expires only when the bucket would be full anyway, so
\* the expiry, which readers take for a full bucket, gives nothing away.
THEOREM ExpiryIsInvisible ==
  ASSUME NEW b \in BucketShape, NEW s \in BucketState, NEW now \in Int,
         NEW later \in Int, later >= now + KeyTTL(b, s, now)
  PROVE  TokensAt(b, s, later) = b.cap * b.refill
<1> DEFINE C == b.cap * b.refill
<1>1. C \in Nat /\ s.t \in Int /\ s.at \in Int
  BY SMTT(30) DEF BucketShape, BucketState
<1> HIDE DEF C
<1>2. KeyTTL(b, s, now) = (C - BMin(s.t, C)) + BMax(0, s.at - now)
  BY DEF KeyTTL, C
<1>3. ~(later < s.at) /\ s.t + later - s.at >= C
  BY <1>1, <1>2 DEF BMin, BMax
<1>4. TokensAt(b, s, later) = BMin(C, s.t + later - s.at)
  BY <1>3 DEF TokensAt, C
<1> QED BY <1>1, <1>3, <1>4 DEF BMin, BMax, C
=============================================================================
