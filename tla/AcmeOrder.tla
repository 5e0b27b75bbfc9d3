----------------------------- MODULE AcmeOrder -----------------------------
(***************************************************************************)
(* Certificate orders: the issuer chain (internal/acme/chain.go), the      *)
(* order it starts on an account and the order's goroutine                 *)
(* (lego_client.go), the order's track (track.go), the transport that      *)
(* every request of the order passes (transport.go), and what they keep in *)
(* Valkey: token buckets, reservations, cooldowns and the mark of the last *)
(* 429 (internal/limit/acme_budget.go, acme_cooldown.go).                  *)
(*                                                                         *)
(* Each run of the chain is on a node of its own, all for one host name.   *)
(* The chain has a Let's Encrypt account and then a Google account; a      *)
(* ZeroSSL account follows the path of the Google one.  withBudgetLock is  *)
(* taken to exclude: a budget operation is one step.                       *)
(*                                                                         *)
(* The model looks at a stretch of time too short for a bucket to refill,  *)
(* the instant 0 of AcmeBudget, whose theorems cover the passage of time.  *)
(* Timers and cooldowns run out at any moment.                             *)
(***************************************************************************)
EXTENDS AcmeBudget, Sequences, FiniteSets, TLC

CONSTANTS Chains,      \* the accounts configured, in order: the choices
          Runs,        \* runs of the chain; the run is also its node
          Renewals,    \* the runs that renew a Let's Encrypt certificate
          Cap,         \* bucket -> burst
          Refill,      \* bucket -> time for one token
          PerOrder,    \* requests set aside for a Google order (9 in the code)
          RetryAfter,  \* of a 429
          MaxTimeouts, \* attempts whose timer fires
          MaxFaults    \* errors, 429s and silences of the CA, failed Valkey
                       \* calls, stalls, crashes, callers that leave

VARIABLES chain, bucket, held, cool, mark,       \* the configuration and Valkey
          run, trk,                            \* the chain's runs; their orders
          faults, lost, timeouts,                 \* failures so far
          reached, charged, exposed, reqs, empties  \* history: see the properties

valkey == <<bucket, held, cool, mark>>
bounds == <<faults, lost, timeouts>>
history == <<reached, charged, exposed, reqs, empties>>
ovars == <<chain, valkey, run, trk, bounds, history>>

Attempts == Runs \X {1, 2}
Buckets == {"leOrders", "leName", "leDomain", "gtsOrders", "gtsRequests", "gtsPolls"}
Shape(b) == [cap |-> Cap[b], refill |-> Refill[b]]

ASSUME BudgetAssumption ==
  /\ \A b \in Buckets : Shape(b) \in BucketShape
  /\ Renewals \subseteq Runs
  /\ PerOrder \in Nat \ {0} /\ RetryAfter \in Nat

----------------------------------------------------------------------------
\* budget.go: which buckets an order and its requests use.
OnCreate(r, i) ==
  CASE chain[i] = "GTS"   -> {"gtsOrders"}
    [] r \in Renewals     -> {}
    [] OTHER              -> {"leOrders"}

OnSuccess(r, i) ==
  CASE chain[i] = "GTS"   -> {}
    [] r \in Renewals     -> {"leName"}
    [] OTHER              -> {"leName", "leDomain"}

OrderBuckets(r, i) == OnCreate(r, i) \union OnSuccess(r, i)

RequestBuckets(i, req) ==
  CASE chain[i] = "LE"    -> {}
    [] req = "cert"       -> {"gtsRequests", "gtsPolls"}
    [] OTHER              -> {"gtsRequests"}

PrepayBucket == "gtsRequests"
Prepays(i) == chain[i] = "GTS"

\* The buckets that a 429 may empty: its text names one of them.
ResyncChoices(i) ==
  IF chain[i] = "LE" THEN {{}, {"leOrders"}, {"leDomain"}, {"leName"}}
  ELSE {{"gtsRequests"}, {"gtsPolls"}}

Spend(b, n) == SpendN(Shape(b), bucket[b], 0, n)
Cooling(i) == cool[chain[i]]

\* SetCACooldown: EXPIRE GT, then SET NX.
Cooled(i) == [cool EXCEPT ![chain[i]] = TRUE]

\* runEnded: the caller is gone or the budget of the run is over.
Ended(r) == run[r].over

\* inflightCounts: members of the listed nodes.
Counted(b, live) == {x \in held[b] : x[1] \in live}

NoTrack == [g |-> "none", req |-> "order", paid |-> FALSE, known |-> TRUE, seen |-> 0,
            created |-> FALSE, orderSent |-> FALSE, finalized |-> FALSE, finalSent |-> FALSE,
            prepaid |-> 0, mark |-> 0, epoch |-> 0, limited |-> FALSE, done |-> FALSE, ch |-> "none"]

Classes == {"transient", "permanent", "local", "limited"}

(* The configured accounts are one of the given choices. *)
OrderInit(choices) ==
  /\ chain \in choices
  /\ bucket = [b \in Buckets |-> Full(Shape(b), 0)]
  /\ held = [b \in Buckets |-> {}]
  /\ cool = [a \in {"LE", "GTS"} |-> FALSE]
  /\ mark = [a \in {"LE", "GTS"} |-> 0]
  /\ run = [r \in Runs |-> [pc |-> "idle", i |-> 1, live |-> {}, over |-> FALSE,
                            class |-> "none", used |-> {}, left |-> 0, ended |-> FALSE]]
  /\ trk = [x \in Attempts |-> NoTrack]
  /\ faults = 0 /\ lost = FALSE /\ timeouts = 0
  /\ reached = [x \in Attempts |-> {}]
  /\ charged = [x \in Attempts |-> {}]
  /\ exposed = [b \in Buckets |-> {}]
  /\ reqs = 0
  /\ empties = 0

\* Something goes wrong; Fault is a Valkey call that fails.
Trouble == faults < MaxFaults /\ faults' = faults + 1
Fault == Trouble /\ lost' = TRUE
Works == UNCHANGED <<faults, lost>>
Missed == lost' = TRUE /\ UNCHANGED faults   \* a write of a 429's handling
Goto(r, pc) == run' = [run EXCEPT ![r].pc = pc]
X(r) == <<r, run[r].i>>
At(r, pc) == run[r].pc = pc

----------------------------------------------------------------------------
(* What happens around the runs. *)

Settled(x) ==
  LET r == x[1] IN
  \/ run[r].i > x[2]
  \/ run[r].i = x[2] /\ run[r].pc \in {"refund?", "refund", "after", "done"}

\* The caller of Obtain or Renew goes away, or the budget of the run is over.
RunOver(r) ==
  /\ ~ run[r].pc \in {"idle", "done", "dead"} /\ ~ run[r].over
  /\ Trouble
  /\ run' = [run EXCEPT ![r].over = TRUE]
  /\ UNCHANGED <<chain, timeouts, valkey, trk, lost, history>>

CoolEnds(a) ==
  /\ cool[a]
  /\ cool' = [cool EXCEPT ![a] = FALSE]
  /\ UNCHANGED <<chain, bucket, held, mark, run, trk, bounds, history>>

\* The deadline of a reservation passes; that of a running order only when the
\* run stalls, because the deadline is that of its timer and the grace.
Lapse(x) ==
  /\ \E b \in Buckets : x \in held[b]
  /\ held' = [b \in Buckets |-> held[b] \ {x}]
  /\ IF Settled(x) \/ run[x[1]].pc = "dead" THEN UNCHANGED faults ELSE Trouble
  /\ UNCHANGED <<chain, timeouts, bucket, cool, mark, run, trk, lost, history>>

\* The node dies: its run and its goroutines stop, its members stay.
Crash(r) ==
  /\ ~ run[r].pc \in {"idle", "done", "dead"}
  /\ Trouble
  /\ Goto(r, "dead")
  /\ trk' = [x \in Attempts |-> IF x[1] = r THEN [trk[x] EXCEPT !.g = "over"] ELSE trk[x]]
  /\ UNCHANGED <<chain, timeouts, valkey, lost, history>>

----------------------------------------------------------------------------
(* The run. *)

\* run: LiveNodes, once for the whole run; an error leaves only the own node.
\* The list is stale in either direction: a dead node may still be on it.
Start(r) ==
  /\ At(r, "idle")
  /\ Len(chain) > 1 => \A s \in Runs : At(s, "idle")
  /\ \E live \in {L \in SUBSET Runs : r \in L /\ \A s \in Runs : run[s].pc # "dead" => s \in L} \union {{r}} :
       /\ IF live = {r} /\ Runs # {r} /\ (\E s \in Runs \ {r} : run[s].pc # "dead")
            THEN Fault ELSE Works
       /\ run' = [run EXCEPT ![r].pc = "acct", ![r].live = live]
  /\ UNCHANGED <<chain, timeouts, valkey, trk, history>>

\* Mutant: no end to the chain.
NextAcctUnbounded(r) ==
  IF run[r].i > Len(chain) THEN [run EXCEPT ![r].pc = "done", ![r].class = "limited"]
  ELSE [run EXCEPT ![r].pc = "acct", ![r].i = @ + 1]

\* The next account, or the end of the chain: every account cooled or failed.
NextAcct(r) ==
  IF run[r].i = Len(chain) THEN [run EXCEPT ![r].pc = "done", ![r].class = "limited"]
  ELSE [run EXCEPT ![r].pc = "acct", ![r].i = @ + 1]

\* The head of the loop: an ended run stops, a cooling account is skipped; an
\* error of CACooldown reads as not cooling.
PickAccount(r) ==
  /\ At(r, "acct")
  /\ \/ /\ Ended(r)
        /\ run' = [run EXCEPT ![r].pc = "done", ![r].class = "transient"]
        /\ Works
     \/ ~ Ended(r) /\ Cooling(run[r].i) /\ run' = NextAcct(r) /\ Works
     \/ ~ Ended(r) /\ ~ Cooling(run[r].i) /\ Goto(r, "reserve") /\ Works
     \/ ~ Ended(r) /\ Cooling(run[r].i) /\ Goto(r, "reserve") /\ Fault
  /\ UNCHANGED <<chain, timeouts, valkey, trk, history>>

\* attempt: prepare builds the account's client on its first use and may fail.
PrepareFails(r) ==
  /\ At(r, "reserve")
  /\ Trouble
  /\ run' = [run EXCEPT ![r].pc = "after", ![r].class = "transient", ![r].ended = Ended(r)]
  /\ UNCHANGED <<chain, timeouts, valkey, trk, lost, history>>

\* attempt: the track, the timer and the order's goroutine.
Launched(r, n) == [trk EXCEPT ![X(r)].prepaid = n, ![X(r)].g = "check", ![X(r)].epoch = empties]
Obtaining(r) == [run EXCEPT ![r].pc = "obtain", ![r].left = 0]

Open(b) == {x \in Attempts : /\ run[x[1]].i = x[2]
                             /\ b \in OrderBuckets(x[1], x[2])
                             /\ run[x[1]].pc \in {"mark", "prepay", "obtain", "outcome", "settle"}}

\* attempt: ReserveACME in all the order's buckets or in none.  After an error
\* the account is tried anyway, whether or not the members were written.  Only
\* Google orders prepay requests; the others start at once.
Reserve(r) ==
  LET x == X(r)
      bs == OrderBuckets(r, run[r].i)
      fits == \A b \in bs : Affords(Shape(b), bucket[b], 0, Cardinality(Counted(b, run[r].live)), 1)
      written == [b \in Buckets |-> IF b \in bs THEN held[b] \union {x} ELSE held[b]]
      Goes == IF Prepays(run[r].i) THEN Goto(r, "mark") /\ UNCHANGED trk
              ELSE run' = Obtaining(r) /\ trk' = Launched(r, 0)
  IN /\ At(r, "reserve")
     /\ \/ /\ fits /\ Goes /\ held' = written /\ Works
           /\ exposed' = [b \in Buckets |-> IF b \in bs
                THEN exposed[b] \union (Open(b) \ Counted(b, run[r].live)) ELSE exposed[b]]
        \/ ~ fits /\ run' = NextAcct(r) /\ UNCHANGED <<held, exposed, trk, faults, lost>>
        \/ /\ Fault /\ Goes /\ held' \in {held} \union (IF fits THEN {written} ELSE {})
           /\ exposed' = [b \in Buckets |-> IF b \in bs THEN exposed[b] \union {x} ELSE exposed[b]]
     /\ UNCHANGED <<chain, timeouts, bucket, cool, mark, reached, charged, reqs, empties>>

\* attempt: CAWaitState before the prepayment; an error gives up prepaying.
ReadMark(r) ==
  /\ At(r, "mark")
  /\ \/ /\ trk' = [trk EXCEPT ![X(r)].mark = mark[chain[run[r].i]]]
        /\ run' = [run EXCEPT ![r].pc = "prepay", ![r].left = PerOrder]
        /\ Works
     \/ Fault /\ run' = Obtaining(r) /\ trk' = Launched(r, 0)
  /\ UNCHANGED <<chain, timeouts, valkey, history>>

\* attempt: PrepayACME; too few requests left means ReleaseACME and the next
\* account, an error an order without prepaid requests.
Prepay(r) ==
  LET n == BMin(run[r].left, Cap[PrepayBucket])
      fits == Affords(Shape(PrepayBucket), bucket[PrepayBucket], 0, 0, n)
      paid == [bucket EXCEPT ![PrepayBucket] = Spend(PrepayBucket, n)]
  IN /\ At(r, "prepay")
     /\ \/ /\ fits /\ bucket' = paid /\ reqs' = reqs + n /\ Works
           /\ run' = Obtaining(r) /\ trk' = Launched(r, n)
        \/ ~ fits /\ Goto(r, "unreserve") /\ UNCHANGED <<trk, bucket, reqs, faults, lost>>
        \/ /\ Fault /\ bucket' \in {bucket} \union (IF fits THEN {paid} ELSE {}) /\ UNCHANGED reqs
           /\ run' = Obtaining(r) /\ trk' = Launched(r, 0)
     /\ UNCHANGED <<chain, timeouts, held, cool, mark, reached, charged, exposed, empties>>

\* ReleaseACME; an error leaves the members to their deadline.
Unreserve(r) ==
  /\ At(r, "unreserve")
  /\ \/ held' = [b \in Buckets |-> held[b] \ {X(r)}] /\ Works
     \/ Fault /\ UNCHANGED held
  /\ run' = NextAcct(r)
  /\ UNCHANGED <<chain, timeouts, bucket, cool, mark, trk, history>>

Left(r, class) ==
  run' = [run EXCEPT ![r].pc = "outcome", ![r].class = class, ![r].ended = Ended(r)]

\* obtain's select: attemptContext's timer, the caller or the end of the run.
\* abandon throws away a result that is there already.
TimedOut(r) ==
  /\ At(r, "obtain")
  /\ timeouts < MaxTimeouts /\ timeouts' = timeouts + 1
  /\ trk' = [trk EXCEPT ![X(r)].done = TRUE, ![X(r)].ch = "none"]
  /\ Left(r, "transient")
  /\ UNCHANGED <<chain, valkey, faults, lost, history>>

LimitedNow(r) ==
  /\ At(r, "obtain") /\ trk[X(r)].limited
  /\ trk' = [trk EXCEPT ![X(r)].done = TRUE, ![X(r)].ch = "none", ![X(r)].limited = FALSE]
  /\ Left(r, "limited")
  /\ UNCHANGED <<chain, valkey, bounds, history>>

Result(r) ==
  /\ At(r, "obtain") /\ trk[X(r)].ch # "none"
  /\ Left(r, trk[X(r)].ch)
  /\ UNCHANGED <<chain, valkey, trk, bounds, history>>


\* attempt: the outcome is read, and then the track is abandoned.
Outcome(r) ==
  LET t == trk[X(r)]
      ok == run[r].class = "ok"
  IN /\ At(r, "outcome")
     /\ run' = [run EXCEPT ![r].pc = "settle",
                  ![r].used = (IF ok \/ t.created \/ t.orderSent THEN OnCreate(r, run[r].i) ELSE {})
                       \union (IF ok \/ t.finalized \/ t.finalSent THEN OnSuccess(r, run[r].i) ELSE {})]
     /\ trk' = [trk EXCEPT ![X(r)].done = TRUE]
     /\ UNCHANGED <<chain, valkey, bounds, history>>

\* settle: CommitACME of each bucket the order used, whatever its level, then
\* ReleaseACME of the others and drainPrepaid.  A failed call leaves the member
\* to its deadline, and may have been applied.
Settle(r) ==
  LET x == X(r)
      used == run[r].used
      Settles(paid, freed) ==
        /\ bucket' = [b \in Buckets |-> IF b \in paid THEN Spend(b, 1) ELSE bucket[b]]
        /\ held' = [b \in Buckets |-> IF b \in paid \union freed THEN held[b] \ {x} ELSE held[b]]
  IN /\ At(r, "settle")
     /\ \/ Settles(used, OrderBuckets(r, run[r].i) \ used) /\ Works
        \/ /\ Fault
           /\ \/ \E b \in used : Settles(used \ {b}, OrderBuckets(r, run[r].i) \ used)
              \/ used # OrderBuckets(r, run[r].i) /\ Settles(used, {})
     /\ charged' = [charged EXCEPT ![x] = used]
     /\ trk' = [trk EXCEPT ![x].prepaid = 0]
     /\ run' = [run EXCEPT ![r].left = trk[x].prepaid, ![r].used = {},
                           ![r].pc = IF trk[x].prepaid > 0 THEN "refund?" ELSE "after"]
     /\ UNCHANGED <<chain, timeouts, cool, mark, reached, exposed, reqs, empties>>

\* refund: nothing goes back when the account was limited since the prepayment.
RefundCheck(r) ==
  LET cur == mark[chain[run[r].i]] IN
  /\ At(r, "refund?")
  /\ \/ Fault /\ Goto(r, "after")
     \/ cur # 0 /\ cur # trk[X(r)].mark /\ Goto(r, "after") /\ Works
     \/ ~ (cur # 0 /\ cur # trk[X(r)].mark) /\ Goto(r, "refund") /\ Works
  /\ UNCHANGED <<chain, timeouts, valkey, trk, history>>

Refund(r) ==
  LET back == [bucket EXCEPT ![PrepayBucket] =
                 Refunded(Shape(PrepayBucket), @, 0, run[r].left)] IN
  /\ At(r, "refund")
  /\ Goto(r, "after")
  /\ \/ bucket' = back /\ Works
     \/ Fault /\ bucket' \in {bucket, back}
  /\ reqs' = IF bucket' = bucket THEN reqs ELSE reqs - run[r].left
  /\ UNCHANGED <<chain, timeouts, held, cool, mark, trk, reached, charged, exposed, empties>>

\* handleFailure: a rate limit sets the account's cooldown, a transient failure
\* (exponential backoff) only when none runs.
Cools(i, class) == class = "limited" \/ ~ Cooling(i)

\* run after the attempt: success and final errors end it; after handleFailure
\* the next account follows.
After(r) ==
  LET i == run[r].i
      class == run[r].class
      sets == Cools(i, class)
  IN /\ At(r, "after")
     /\ IF class \in {"ok", "permanent", "local"} \/ run[r].ended
          THEN Goto(r, "done") /\ UNCHANGED <<cool, faults, lost>>
          ELSE /\ run' = NextAcct(r)
               /\ \/ cool' = (IF sets THEN Cooled(i) ELSE cool) /\ Works
                  \/ sets /\ Fault /\ UNCHANGED cool
     /\ UNCHANGED <<chain, timeouts, bucket, held, mark, trk, history>>

----------------------------------------------------------------------------
(* The order's goroutine: lego sends the new-order request, finalizes and     *)
(* fetches the certificate; each request passes budgetTransport.roundTrip.    *)

G(x, g) == trk[x].g = g
AcctOf(x) == chain[x[2]]
MoveG(x, g) == trk' = [trk EXCEPT ![x].g = g]

\* obtain's goroutine returns, and its locals with it; nobody reads the result
\* of an abandoned order.
Returned(t, class) ==
  [t EXCEPT !.g = "over", !.req = "order", !.paid = FALSE, !.known = TRUE, !.seen = 0,
            !.ch = IF t.done THEN "none" ELSE class]
SetTrk(x, t) == trk' = [trk EXCEPT ![x] = t]

\* before: the abandoned check and waitState.  A cooling account is waited for.
Check(x) ==
  /\ G(x, "check")
  /\ \/ trk[x].done /\ SetTrk(x, Returned(trk[x], "none")) /\ Works
     \/ /\ ~ trk[x].done /\ ~ Cooling(x[2]) /\ Works
        /\ trk' = [trk EXCEPT ![x].g = "take", ![x].seen = mark[AcctOf(x)], ![x].known = TRUE]
     \/ /\ ~ trk[x].done /\ Fault
        /\ trk' = [trk EXCEPT ![x].g = "take", ![x].seen = 0, ![x].known = FALSE]
  /\ UNCHANGED <<chain, timeouts, valkey, run, history>>

\* The challenge of the order cannot be stored: ErrChallengeStore.
PresentFails(x) ==
  /\ G(x, "check") /\ trk[x].req = "final" /\ ~ trk[x].done
  /\ Fault
  /\ SetTrk(x, Returned(trk[x], "local"))
  /\ UNCHANGED <<chain, timeouts, valkey, run, history>>

MarkLimited(x) == mark' = [mark EXCEPT ![AcctOf(x)] = @ + 1]

\* dropPrepaid: what was prepaid counts only while the mark is unchanged.
Kept(x) ==
  LET t == trk[x] IN
  IF t.known /\ (t.seen = 0 \/ t.seen = t.mark) THEN t.prepaid ELSE 0


\* usePrepaid: what is left after this request.
UsePrepaid(x) == IF Kept(x) > 0 THEN Kept(x) - 1 ELSE 0

\* before: dropPrepaid, usePrepaid, TakeACME of the rest.  Without the tokens
\* the prepaid request is returned and the goroutine waits and checks again; an
\* error sends the request anyway.  markSent follows, before the request leaves.
Take(x) ==
  LET paid == Kept(x) > 0
      charge == RequestBuckets(x[2], trk[x].req) \ (IF paid THEN {PrepayBucket} ELSE {})
      fits == \A b \in charge : Affords(Shape(b), bucket[b], 0, 0, 1)
      spent == [b \in Buckets |-> IF b \in charge THEN Spend(b, 1) ELSE bucket[b]]
      on == [trk EXCEPT ![x].g = "gate", ![x].paid = paid,
                        ![x].prepaid = UsePrepaid(x),
                        ![x].finalSent = @ \/ trk[x].req = "final",
                        ![x].orderSent = @ \/ (trk[x].req = "order" /\ ~ trk[x].created)]
  IN /\ G(x, "take")
     /\ \/ /\ fits /\ bucket' = spent /\ trk' = on /\ Works
           /\ reqs' = IF PrepayBucket \in charge THEN reqs + 1 ELSE reqs
        \/ /\ ~ fits /\ trk' = [trk EXCEPT ![x].g = "check", ![x].prepaid = Kept(x)]
           /\ UNCHANGED <<bucket, reqs, faults, lost>>
        \/ /\ charge # {} /\ Fault
           /\ bucket' \in {bucket} \union (IF fits THEN {spent} ELSE {})
           /\ trk' = on
           /\ reqs' = IF PrepayBucket \in charge THEN reqs + 1 ELSE reqs
     /\ UNCHANGED <<chain, timeouts, held, cool, mark, run, reached, charged, exposed, empties>>

\* The mark of the current request, taken back.
Answered(x) ==
  [trk[x] EXCEPT !.orderSent = @ /\ trk[x].req # "order",
                 !.finalSent = @ /\ trk[x].req # "final"]

\* roundTrip: an abandoned order sends nothing more; otherwise the CA gets it.
Gate(x) ==
  /\ G(x, "gate")
  /\ IF trk[x].done
       THEN /\ SetTrk(x, Returned([Answered(x) EXCEPT !.prepaid = @ + (IF trk[x].paid THEN 1 ELSE 0)], "none"))
            /\ UNCHANGED <<reached, reqs>>
       ELSE /\ MoveG(x, "wait")
            /\ reached' = [reached EXCEPT ![x] = @ \union {trk[x].req}]
            /\ reqs' = IF AcctOf(x) = "GTS" THEN reqs - 1 ELSE reqs
  /\ UNCHANGED <<chain, valkey, run, bounds, charged, exposed, empties>>

\* What lego sends next.  Only Google's certificate download is charged.
NextRequest(x) ==
  CASE trk[x].req = "order"                       -> "final"
    [] trk[x].req = "final" /\ AcctOf(x) = "GTS"  -> "cert"
    [] OTHER                                      -> "none"

\* The CA answers with success (observe: setOrder, markFinalized), with an
\* error (classifyLego) or with 429; or the answer is lost, and the request
\* stays marked as sent.
Answer(x) ==
  LET t == [Answered(x) EXCEPT !.created = @ \/ trk[x].req = "order",
                               !.finalized = @ \/ trk[x].req = "final"]
  IN /\ G(x, "wait")
     /\ \/ /\ IF NextRequest(x) = "none" THEN SetTrk(x, Returned(t, "ok"))
              ELSE SetTrk(x, [t EXCEPT !.req = NextRequest(x), !.g = "check"])
           /\ UNCHANGED <<faults, reached>>
        \/ /\ Trouble
           /\ \/ /\ \/ MoveG(x, "limit")
                    \/ \E class \in {"transient", "permanent"} : SetTrk(x, Returned(Answered(x), class))
                 /\ reached' = [reached EXCEPT ![x] = @ \ {trk[x].req}]
              \/ SetTrk(x, Returned(trk[x], "transient")) /\ UNCHANGED reached
     /\ UNCHANGED <<chain, timeouts, valkey, run, lost, charged, exposed, reqs, empties>>

\* rateLimited: setWaitUntil, markLimited and only then signalLimited.  An
\* unreadable body ends it here, and the request stays marked as sent.
Limit(x) ==
  /\ G(x, "limit")
  /\ LET t == [trk[x] EXCEPT !.limited = TRUE] IN
     SetTrk(x, [t EXCEPT !.g = "resync"]) \/ SetTrk(x, Returned(t, "transient"))
  /\ \/ cool' = Cooled(x[2]) /\ MarkLimited(x) /\ Works
     \/ cool' = Cooled(x[2]) /\ Missed /\ UNCHANGED mark
     \/ MarkLimited(x) /\ Missed /\ UNCHANGED cool
  /\ UNCHANGED <<chain, timeouts, bucket, held, run, history>>

\* rateLimited: the buckets the answer names are emptied until Retry-After.
Resync(x) ==
  /\ G(x, "resync") /\ MoveG(x, "remark")
  /\ \E bs \in ResyncChoices(x[2]) :
       \/ /\ bucket' = [b \in Buckets |-> IF b \in bs THEN Resynced(Shape(b), 0, RetryAfter) ELSE bucket[b]]
          /\ exposed' = [b \in Buckets |-> IF b \in bs THEN exposed[b] \union Open(b) ELSE exposed[b]]
          /\ empties' = IF PrepayBucket \in bs THEN empties + 1 ELSE empties
          /\ Works
       \/ bs # {} /\ Missed /\ UNCHANGED <<bucket, exposed, empties>>
  /\ UNCHANGED <<chain, timeouts, held, cool, mark, run, reached, charged, reqs>>

\* rateLimited marks the account again: an order may have prepaid in between.
Remark(x) ==
  /\ G(x, "remark")
  /\ \/ MarkLimited(x) /\ Works
     \/ Missed /\ UNCHANGED mark
  /\ SetTrk(x, Returned(Answered(x), "limited"))
  /\ UNCHANGED <<chain, timeouts, bucket, held, cool, run, history>>

Goroutine(x) ==
  \/ Check(x) \/ PresentFails(x) \/ Take(x) \/ Gate(x) \/ Answer(x)
  \/ Limit(x) \/ Resync(x) \/ Remark(x)

Step(r) ==
  \/ Start(r) \/ PickAccount(r) \/ PrepareFails(r) \/ Reserve(r) \/ ReadMark(r)
  \/ Prepay(r) \/ Unreserve(r) \/ TimedOut(r) \/ LimitedNow(r) \/ Result(r)
  \/ Outcome(r) \/ Settle(r) \/ RefundCheck(r)
  \/ Refund(r) \/ After(r)

OrderNext ==
  \/ \E r \in Runs : Step(r) \/ RunOver(r) \/ Crash(r)
  \/ \E a \in {"LE", "GTS"} : CoolEnds(a)
  \/ \E x \in Attempts : Goroutine(x) \/ Lapse(x)

-----------------------------------------------------------------------------
(* Type invariant of the order state. *)
OrderTypeOK ==
  /\ \A b \in Buckets : bucket[b] \in BucketState /\ held[b] \subseteq Attempts
  /\ \A r \in Runs : run[r].class \in Classes \union {"none", "ok"} /\ run[r].i \in 1 .. Len(chain)
  /\ \A x \in Attempts : trk[x].prepaid \in Nat


\* A budget goes below zero only by orders whose reservation another order did
\* not see (it had lapsed, its write failed, or the list of nodes missed it) or
\* that were running when a 429 emptied the bucket.
BudgetFloor ==
  \A b \in Buckets : bucket[b].t >= - Refill[b] * Cardinality(exposed[b])


\* A settled attempt keeps no reservation, except after a failed call.
ReservationsGone ==
  ~ lost => \A x \in Attempts, b \in Buckets : Settled(x) => ~ x \in held[b]

\* Requests that were prepaid before a 429 emptied the bucket are recognised:
\* once the 429 is handled the order's mark differs from the account's, so its
\* next request drops them and its refund is not made.
StaleIsMarked ==
  \A x \in Attempts :
    \/ lost \/ trk[x].prepaid = 0 \/ trk[x].epoch = empties
    \/ trk[x].mark # mark[AcctOf(x)]
    \/ \E y \in Attempts : trk[y].g = "remark"
    \/ \E r \in Runs : run[r].pc = "dead"
=============================================================================
