----------------------------- MODULE Enrolment -----------------------------
(***************************************************************************)
(* Enrolment and certificate issuance.                                     *)
(*                                                                         *)
(* A phone enrols in two phases.  Phase 1 (internal/enroll/http.go         *)
(* handleEnroll, enroll.go Enroll) claims a name in the object store       *)
(* under a Valkey claim lock.  Phase 2, and every renewal (serveIssue,     *)
(* enroll.go Issue), orders a certificate under a per-name issuance lock   *)
(* (internal/limit/issuance.go).  The reference client (client/enroll.go,  *)
(* issue_retry.go, renew.go) drives both and retries.                      *)
(*                                                                         *)
(* A request is a handler with its own program counter, one step per       *)
(* Valkey or object-store call.  The client may lose any answer; the       *)
(* handler's context is then cancelled ("cut") and it runs on beside the   *)
(* client's retry.  What the certificate chain does inside an order is     *)
(* modelled in AcmeOrder; here an order succeeds or fails.                 *)
(***************************************************************************)
EXTENDS Integers, FiniteSets

CONSTANTS
  Phones,        \* the phones, all behind one source address
  Scenes,        \* bound: which phones enrol and which of them go on to Phase 2
  Names,         \* the candidate names the generator draws from
  None,          \* no name, no record, no holder
  EnrollLimit,   \* --enroll-minute: admissions of the address per window
  IssuePerWeek,  \* successful issuances of a name per window
  ClaimTries,    \* claimName's attempts (8 in the code)
  EnrollRetries, \* wire.EnrollRetries
  IssueRetries,  \* wire.IssueRetries
  Rounds,        \* bound: issuances a phone asks for (the first and its renewals)
  MaxLost,       \* bound: answers the network loses
  EnrolFaults,   \* bound: failed calls, crashes and lapses of a held lock
  MaxRolls       \* bound: ends of a counting window

Slots == Phones \X {1, 2}
Orphan == <<None, 0>>
Records == [owner : Phones, cert : Nat]

ASSUME EnrolAssumption ==
  /\ \A sc \in Scenes : sc.issue \subseteq sc.start /\ sc.start \subseteq Phones
  /\ IsFiniteSet(Phones) /\ None \notin Names \cup Phones \cup Slots \cup {Orphan} \cup Records
  /\ {EnrollLimit, IssuePerWeek, ClaimTries} \subseteq Nat \ {0}
  /\ {EnrollRetries, IssueRetries, Rounds, MaxLost, EnrolFaults, MaxRolls} \subseteq Nat

VARIABLES
  phone,    \* the client: pc, tries, nonce, name, cert, att (issue requests sent), left (issuances)
  hnd,      \* the handlers: two slots per phone, so that a retry overlaps the request it replaces
  claim,    \* lock:claim:{name}: is it set
  rec,      \* the name records of the object store
  zombie,   \* writes whose caller gave up and that may still land
  iss,      \* iss_lock:{name}: the slot whose token it holds, Orphan, or None
  count,    \* iss:{name}: issuances counted in this window
  hits,     \* the address's admission counter in this window
  issued,   \* history: certificates issued to a name in this window
  slip,     \* history: lapses of a held issuance lock and issuances that were not counted
  granted,  \* history: the phone whose enrolment was answered with this name
  behind,   \* history: names whose record missed a write
  elost, efaults, rolls

evars == <<phone, hnd, claim, rec, zombie, iss, count, hits, issued,
          slip, granted, behind, elost, efaults, rolls>>
store == <<claim, rec, zombie>>
locks == <<iss, count>>
ghost == <<issued, slip, granted, behind>>
ebounds == <<elost, efaults, rolls>>

EnrolPCs == {"gate", "admit", "lock", "get", "put", "sign", "undo"}
IssuePCs == {"read", "begin", "count", "order", "note", "write", "free", "del"}

Client == [pc : {"fetch", "post", "waitE", "issue", "waitI", "renonce", "rest", "failed"},
           tries : 0..EnrollRetries + IssueRetries, nonce : BOOLEAN, name : Names \cup {None},
           cert : Nat, att : Nat, left : 0..Rounds]
Request == [pc : {"idle", "reply"} \cup EnrolPCs \cup IssuePCs, name : Names \cup {None},
            tries : 0..ClaimTries, att : Nat, cut : BOOLEAN, live : BOOLEAN,
            res : {"none", "ok", "retry", "fatal"}]

(* A request as it starts; live: its nonce is one the server handed out and still has. *)
Begun(pc, name, att, live) == [pc |-> pc, name |-> name, tries |-> 0, att |-> att,
                               cut |-> FALSE, live |-> live, res |-> "none"]
Idle == Begun("idle", None, 0, FALSE)

(* Writes in flight after their caller gave up: a record, or a deletion. *)
Record(p, a) == [owner |-> p, cert |-> a]
Landing(n, r) == [name |-> n, rec |-> r]

EnrolInit(scenes) ==
  /\ \E sc \in scenes :
       phone = [p \in Phones |->
                 [pc |-> IF p \in sc.start THEN "fetch" ELSE "failed", tries |-> 0,
                  nonce |-> FALSE, name |-> None, cert |-> 0, att |-> 0,
                  left |-> IF p \in sc.issue THEN Rounds ELSE 0]]
  /\ hnd = [s \in Slots |-> Idle]
  /\ claim = [n \in Names |-> FALSE]
  /\ rec = [n \in Names |-> None]
  /\ zombie = {}
  /\ iss = [n \in Names |-> None]
  /\ count = [n \in Names |-> 0]
  /\ hits = 0
  /\ issued = [n \in Names |-> 0]
  /\ slip = [n \in Names |-> 0]
  /\ granted = [n \in Names |-> None]
  /\ behind = {}
  /\ elost = 0 /\ efaults = 0 /\ rolls = 0

(* One call of the code fails: an injected fault, within the bound. *)
Faulty == efaults < EnrolFaults /\ efaults' = efaults + 1 /\ UNCHANGED <<elost, rolls>>

-----------------------------------------------------------------------------
(* The two counting windows end. *)

RateRolls ==
  /\ rolls < MaxRolls /\ hits > 0
  /\ hits' = 0 /\ rolls' = rolls + 1
  /\ UNCHANGED <<phone, hnd, store, locks, ghost, elost, efaults>>

WeekRolls(n) ==
  /\ rolls < MaxRolls /\ count[n] > 0
  /\ count' = [count EXCEPT ![n] = 0]
  /\ issued' = [issued EXCEPT ![n] = 0]
  /\ rolls' = rolls + 1
  /\ UNCHANGED <<phone, hnd, store, iss, hits, slip, granted, behind, elost, efaults>>

(* limit.Allow: count the request, admit it while the count is within the limit. *)
Allowed == hits + 1 <= EnrollLimit
Hit == hits' = IF hits > EnrollLimit THEN hits ELSE hits + 1

(* limit.Over, the read-only test: the window is already full. *)
Over == hits >= EnrollLimit

-----------------------------------------------------------------------------
(* The reference client *)

(* enrollWithRetries: a retryable refusal, or a nonce request that met the
   network, is tried again from the nonce on. *)
RetryEnroll(p) ==
  phone' = [phone EXCEPT ![p] =
    IF @.tries < EnrollRetries
    THEN [@ EXCEPT !.pc = "fetch", !.tries = phone[p].tries + 1, !.nonce = FALSE]
    ELSE [@ EXCEPT !.pc = "failed", !.tries = 0, !.nonce = FALSE]]

(* issueWithRetries: the same for Phase 2, with a fresh nonce each time. *)
RetryIssue(p) ==
  phone' = [phone EXCEPT ![p] =
    IF @.tries < IssueRetries
    THEN [@ EXCEPT !.pc = "renonce", !.tries = phone[p].tries + 1, !.nonce = FALSE]
    ELSE [@ EXCEPT !.pc = "rest", !.tries = 0, !.nonce = FALSE]]

Retry(p) == IF phone[p].name = None THEN RetryEnroll(p) ELSE RetryIssue(p)

(* GET /api/v1/nonce, client and server side: the address's limit, then a
   nonce.  A refusal or a network error is one of the client's retries. *)
FetchNonce(p) ==
  /\ phone[p].pc \in {"fetch", "renonce"}
  /\ Hit
  /\ \/ /\ Allowed
        /\ phone' = [phone EXCEPT ![p] = [@ EXCEPT !.nonce = TRUE,
                         !.pc = IF phone[p].pc = "fetch" THEN "post" ELSE "issue"]]
        /\ UNCHANGED ebounds
     \/ /\ ~Allowed /\ UNCHANGED ebounds
        /\ Retry(p)
     \/ /\ elost < MaxLost /\ elost' = elost + 1 /\ UNCHANGED <<efaults, rolls>>
        /\ Retry(p)
  /\ UNCHANGED <<hnd, store, locks, ghost>>

(* The nonce's five minutes pass before the phone uses it. *)
NonceExpires(p) ==
  /\ phone[p].nonce /\ Faulty
  /\ phone' = [phone EXCEPT ![p].nonce = FALSE]
  /\ UNCHANGED <<hnd, store, locks, hits, ghost>>

(* POST /api/v1/enroll and POST /api/v1/issue: a handler starts. *)
FreeSlot(p) == IF hnd[<<p, 1>>].pc = "idle" THEN <<p, 1>> ELSE <<p, 2>>

PostEnroll(p) ==
  LET s == FreeSlot(p) IN
  /\ phone[p].pc = "post" /\ hnd[s].pc = "idle"
  /\ phone' = [phone EXCEPT ![p] = [@ EXCEPT !.pc = "waitE", !.nonce = FALSE]]
  /\ hnd' = [hnd EXCEPT ![s] = Begun("gate", None, 0, phone[p].nonce)]
  /\ UNCHANGED <<store, locks, hits, ghost, ebounds>>

PostIssue(p) ==
  LET s == FreeSlot(p) IN
  /\ phone[p].pc = "issue" /\ hnd[s].pc = "idle"
  /\ phone' = [phone EXCEPT ![p] = [@ EXCEPT !.pc = "waitI", !.nonce = FALSE,
                                           !.att = phone[p].att + 1]]
  /\ hnd' = [hnd EXCEPT ![s] = Begun("read", phone[p].name, phone[p].att + 1,
                                      phone[p].nonce)]
  /\ UNCHANGED <<store, locks, hits, ghost, ebounds>>

(* The slot whose answer the phone waits for. *)
Awaited(p, s) == s[1] = p /\ hnd[s].pc # "idle" /\ ~hnd[s].cut

(* postEnroll returns a network error as it is, which enrollRetryWait does not
   retry: a name may have been claimed for this phone. *)
LosesEnroll(p) ==
  phone' = [phone EXCEPT ![p] = [@ EXCEPT !.pc = "failed", !.tries = 0]]

(* The connection breaks, the client gives up on the answer, the handler's
   context is cancelled.  issueCerts reports a transport error, which is
   retried. *)
LoseAnswer(p, s) ==
  /\ elost < MaxLost /\ Awaited(p, s)
  /\ elost' = elost + 1 /\ UNCHANGED <<efaults, rolls>>
  /\ hnd' = [hnd EXCEPT ![s] = IF @.pc = "reply" THEN Idle ELSE [@ EXCEPT !.cut = TRUE]]
  /\ IF phone[p].pc = "waitE" THEN LosesEnroll(p) ELSE RetryIssue(p)
  /\ UNCHANGED <<store, locks, hits, ghost>>

(* The request's token stays in the lock with nobody to refresh or release it. *)
Abandon(s) == iss' = [n \in Names |-> IF iss[n] = s THEN Orphan ELSE iss[n]]

(* The node dies with the request: what it holds in Valkey and the store stays. *)
ServerDies(s) ==
  /\ hnd[s].pc # "idle" /\ Faulty
  /\ hnd' = [hnd EXCEPT ![s] = Idle]
  /\ Abandon(s)
  /\ slip' = IF hnd[s].pc = "note" THEN [slip EXCEPT ![hnd[s].name] = @ + 1] ELSE slip
  /\ IF hnd[s].cut THEN UNCHANGED phone
     ELSE IF phone[s[1]].pc = "waitE" THEN LosesEnroll(s[1]) ELSE RetryIssue(s[1])
  /\ UNCHANGED <<store, count, hits, issued, granted, behind>>

(* The client reads an answer.  A Phase 2 that fails leaves the phone its name
   and the identity it has (client/enroll.go:137-141, renew.go:12-30). *)
GetsName(p, n) ==
  phone' = [phone EXCEPT ![p] =
    IF @.left > 0
    THEN [@ EXCEPT !.name = n, !.tries = 0, !.nonce = TRUE, !.pc = "issue",
                   !.left = phone[p].left - 1]
    ELSE [@ EXCEPT !.name = n, !.tries = 0, !.pc = "rest"]]

GetsCerts(p, a) ==
  phone' = [phone EXCEPT ![p] = [@ EXCEPT !.cert = a, !.tries = 0, !.pc = "rest"]]

Refused(p) ==
  phone' = [phone EXCEPT ![p] = [@ EXCEPT !.tries = 0,
                           !.pc = IF phone[p].pc = "waitE" THEN "failed" ELSE "rest"]]

Reply(s) ==
  LET p == s[1]
      h == hnd[s]
  IN /\ h.pc = "reply"
     /\ hnd' = [hnd EXCEPT ![s] = Idle]
     /\ \/ h.cut /\ UNCHANGED phone
        \/ ~h.cut /\ h.res = "retry" /\ Retry(p)
        \/ ~h.cut /\ h.res = "fatal" /\ Refused(p)
        \/ /\ ~h.cut /\ h.res = "ok"
           /\ IF phone[p].pc = "waitE" THEN GetsName(p, h.name) ELSE GetsCerts(p, h.att)
     /\ UNCHANGED <<store, locks, hits, ghost, ebounds>>

(* A RENEW_NUDGE with its nonce reaches a phone that is not already renewing. *)
Nudge(p) ==
  /\ phone[p].pc = "rest" /\ phone[p].left > 0
  /\ phone' = [phone EXCEPT ![p] = [@ EXCEPT !.pc = "issue", !.nonce = TRUE,
                                           !.left = phone[p].left - 1]]
  /\ UNCHANGED <<hnd, store, locks, hits, ghost, ebounds>>

-----------------------------------------------------------------------------
(* POST /api/v1/enroll *)

Move(s, pc) == hnd' = [hnd EXCEPT ![s].pc = pc]
AnswerWith(s, res) ==
  hnd' = [hnd EXCEPT ![s] = [@ EXCEPT !.pc = "reply", !.res = res, !.live = FALSE]]

(* handleEnroll: the read-only test of the limit, then the nonce of Phase 2. *)
EnrollGate(s) ==
  /\ hnd[s].pc = "gate"
  /\ \/ Over /\ AnswerWith(s, "retry") /\ UNCHANGED ebounds
     \/ ~Over /\ Move(s, "admit") /\ UNCHANGED ebounds
     \/ ~Over /\ Faulty /\ AnswerWith(s, "retry")
  /\ UNCHANGED <<phone, store, locks, hits, ghost>>

(* Enroll: the limit, the single-use nonce, the attestation and the key binding. *)
EnrollAdmit(s) ==
  /\ hnd[s].pc = "admit"
  /\ Hit
  /\ \/ (~Allowed \/ ~hnd[s].live \/ hnd[s].cut) /\ AnswerWith(s, "retry")
     \/ Allowed /\ hnd[s].live /\ AnswerWith(s, "fatal")
     \/ Allowed /\ hnd[s].live
        /\ hnd' = [hnd EXCEPT ![s] = [@ EXCEPT !.pc = "lock", !.live = FALSE, !.tries = 1]]
  /\ UNCHANGED <<phone, store, locks, ghost, ebounds>>

(* The candidate is not to be had: claimName draws another, eight times. *)
NextCandidate(s) ==
  hnd' = [hnd EXCEPT ![s] =
    IF @.tries < ClaimTries
    THEN [@ EXCEPT !.pc = "lock", !.name = None, !.tries = hnd[s].tries + 1]
    ELSE [@ EXCEPT !.pc = "reply", !.name = None, !.res = "retry"]]

(* claimCandidate, one step per call: the lock, the read, the write.  A write
   that fails abandons the name; it may be lost, or land while the lock lasts. *)
ClaimLock(s) ==
  /\ hnd[s].pc = "lock"
  /\ \E n \in Names :
       \/ /\ ~claim[n]
          /\ claim' = [claim EXCEPT ![n] = TRUE]
          /\ hnd' = [hnd EXCEPT ![s] = [@ EXCEPT !.pc = "get", !.name = n]]
          /\ UNCHANGED ebounds
       \/ /\ claim[n] /\ NextCandidate(s) /\ UNCHANGED <<claim, ebounds>>
       \/ /\ IF hnd[s].cut THEN UNCHANGED ebounds ELSE Faulty
          /\ claim' \in {claim, [claim EXCEPT ![n] = TRUE]}
          /\ NextCandidate(s)
  /\ UNCHANGED <<phone, rec, zombie, locks, hits, ghost>>

ClaimGet(s) ==
  /\ hnd[s].pc = "get"
  /\ \/ rec[hnd[s].name] # None /\ NextCandidate(s) /\ UNCHANGED ebounds
     \/ rec[hnd[s].name] = None /\ Move(s, "put") /\ UNCHANGED ebounds
     \/ NextCandidate(s) /\ IF hnd[s].cut THEN UNCHANGED ebounds ELSE Faulty
  /\ UNCHANGED <<phone, store, locks, hits, ghost>>

ClaimPut(s) ==
  LET n == hnd[s].name
      r == Record(s[1], 0)
  IN /\ hnd[s].pc = "put"
     /\ \/ /\ rec' = [rec EXCEPT ![n] = r] /\ Move(s, "sign")
           /\ UNCHANGED <<zombie, ebounds>>
        \/ /\ IF hnd[s].cut THEN UNCHANGED ebounds ELSE Faulty
           /\ NextCandidate(s)
           /\ zombie' \in {zombie, zombie \cup {Landing(n, r)}}
           /\ UNCHANGED rec
     /\ UNCHANGED <<phone, claim, locks, hits, ghost>>

(* The bootstrap identity.  A failure to sign (a key of the wrong type, or the
   signer's own) rolls the claimed name back. *)
RollBack(s, res) == hnd' = [hnd EXCEPT ![s] = [@ EXCEPT !.pc = "undo", !.res = res]]

EnrollSign(s) ==
  /\ hnd[s].pc = "sign"
  /\ \/ /\ AnswerWith(s, "ok") /\ UNCHANGED ebounds
        /\ granted' = [granted EXCEPT ![hnd[s].name] = s[1]]
     \/ RollBack(s, "fatal") /\ UNCHANGED <<granted, ebounds>>
     \/ RollBack(s, "retry") /\ Faulty /\ UNCHANGED granted
  /\ UNCHANGED <<phone, store, locks, hits, issued, slip, behind>>

EnrollUndo(s) ==
  LET n == hnd[s].name
  IN /\ hnd[s].pc = "undo"
     /\ hnd' = [hnd EXCEPT ![s] = [@ EXCEPT !.pc = "reply", !.name = None]]
     /\ \/ rec' = [rec EXCEPT ![n] = None] /\ UNCHANGED <<zombie, ebounds>>
        \/ Faulty /\ zombie' = zombie \cup {Landing(n, None)} /\ UNCHANGED rec
     /\ UNCHANGED <<phone, claim, locks, hits, ghost>>

(* The claim lock lives --registry-claim-settle, which config.go makes longer
   than the deadline of the lock, the read and the write together: it is never
   gone while one of them, or a write that timed out, is still under way. *)
Claiming(n) == \E s \in Slots : hnd[s].name = n /\ hnd[s].pc \in {"get", "put"}

(* Mutant: the lock may be gone before the write it guards has ended. *)
SettledOnceRead(n) == \A s \in Slots : ~(hnd[s].name = n /\ hnd[s].pc = "get")

ClaimSettled(n) == ~Claiming(n) /\ \A z \in zombie : z.name = n => z.rec = None

ClaimLapses(n) ==
  /\ claim[n] /\ ClaimSettled(n)
  /\ claim' = [claim EXCEPT ![n] = FALSE]
  /\ UNCHANGED <<phone, hnd, rec, zombie, locks, hits, ghost, ebounds>>

(* A write nobody waits for any more lands, or dies. *)
Lands(z) ==
  /\ zombie' = zombie \ {z}
  /\ rec' \in {rec, [rec EXCEPT ![z.name] = z.rec]}
  /\ UNCHANGED <<phone, hnd, claim, locks, hits, ghost, ebounds>>

-----------------------------------------------------------------------------
(* POST /api/v1/issue *)

(* Issue up to the lock: the nonce, the attestation, the certificate request,
   and the name's record, whose absence is a refusal too.  A cancelled request
   fails on its next call. *)
IssueRead(s) ==
  LET h == hnd[s]
  IN /\ h.pc = "read"
     /\ \/ (~h.live \/ h.cut) /\ AnswerWith(s, "retry") /\ UNCHANGED ebounds
        \/ h.live /\ AnswerWith(s, "fatal") /\ UNCHANGED ebounds
        \/ h.live /\ Faulty /\ AnswerWith(s, "retry")
        \/ h.live /\ rec[h.name] # None /\ UNCHANGED ebounds
           /\ hnd' = [hnd EXCEPT ![s] = [@ EXCEPT !.pc = "begin", !.live = FALSE]]
     /\ UNCHANGED <<phone, store, locks, hits, ghost>>

(* IssuanceBegin: take the lock, then compare the counter with the cap. *)
IssuanceBegin(s) ==
  LET n == hnd[s].name
  IN /\ hnd[s].pc = "begin"
     /\ \/ iss[n] # None /\ AnswerWith(s, "retry") /\ UNCHANGED <<iss, ebounds>>
        \/ iss[n] = None /\ Move(s, "count") /\ UNCHANGED ebounds
           /\ iss' = [iss EXCEPT ![n] = s]
        \/ /\ IF hnd[s].cut THEN UNCHANGED ebounds ELSE Faulty
           /\ AnswerWith(s, "retry")
           /\ iss' \in {iss, [iss EXCEPT ![n] = IF @ = None THEN Orphan ELSE @]}
     /\ UNCHANGED <<phone, store, count, hits, ghost>>

Leave(s, res) == hnd' = [hnd EXCEPT ![s] = [@ EXCEPT !.pc = "free", !.res = res]]

OverCap(s) == Leave(s, "retry")

IssuanceCount(s) ==
  LET n == hnd[s].name
  IN /\ hnd[s].pc = "count"
     /\ \/ count[n] >= IssuePerWeek /\ OverCap(s) /\ UNCHANGED ebounds
        \/ count[n] < IssuePerWeek /\ Move(s, "order") /\ UNCHANGED ebounds
        \/ Leave(s, "retry") /\ IF hnd[s].cut THEN UNCHANGED ebounds ELSE Faulty
     /\ UNCHANGED <<phone, store, locks, hits, ghost>>

(* SignIdentity, then Obtain or Renew.  A cancelled order usually fails, but its
   certificate may already be there. *)
Order(s) ==
  /\ hnd[s].pc = "order"
  /\ \/ \E res \in {"retry", "fatal"} : Leave(s, res) /\ UNCHANGED issued
     \/ /\ Move(s, "note")
        /\ issued' = [issued EXCEPT ![hnd[s].name] = @ + 1]
  /\ UNCHANGED <<phone, store, locks, hits, slip, granted, behind, ebounds>>

(* Mutant: a success is not counted. *)
RecordUncounted(s) ==
  /\ hnd[s].pc = "note" /\ Move(s, "write")
  /\ UNCHANGED <<phone, store, locks, hits, ghost, ebounds>>

(* IssuanceRecord, detached from the request; its failure is not fatal. *)
IssuanceRecord(s) ==
  LET n == hnd[s].name
  IN /\ hnd[s].pc = "note"
     /\ Move(s, "write")
     /\ \/ /\ count' = [count EXCEPT ![n] = @ + 1]
           /\ UNCHANGED <<slip, ebounds>>
        \/ /\ Faulty /\ UNCHANGED count
           /\ slip' = [slip EXCEPT ![n] = @ + 1]
     /\ UNCHANGED <<phone, store, iss, hits, issued, granted, behind>>

(* Mutant: the certificate is handed out and never recorded. *)
RecordForgotten(s) ==
  /\ hnd[s].pc = "write" /\ Leave(s, "ok")
  /\ UNCHANGED <<phone, store, locks, hits, ghost, ebounds>>

(* recordCert, detached too, unless the phone has stopped waiting: the record
   is read again and written back with the new certificate, last writer wins. *)
RecordCert(s) ==
  LET h == hnd[s]
      n == h.name
  IN /\ h.pc = "write"
     /\ Leave(s, "ok")
     /\ \/ h.cut /\ UNCHANGED <<rec, zombie, behind, ebounds>>
        \/ /\ ~h.cut
           /\ rec' = [rec EXCEPT ![n].cert = h.att]
           /\ UNCHANGED <<zombie, behind, ebounds>>
        \/ /\ ~h.cut /\ Faulty
           /\ behind' = behind \cup {n}
           /\ zombie' \in {zombie, zombie \cup {Landing(n, Record(rec[n].owner, h.att))}}
           /\ UNCHANGED rec
     /\ UNCHANGED <<phone, claim, locks, hits, issued, slip, granted>>

(* releaseIssLock: read the lock; if it is still this order's, delete it. *)
ReleaseGet(s) ==
  /\ hnd[s].pc = "free"
  /\ \/ iss[hnd[s].name] = s /\ Move(s, "del") /\ UNCHANGED <<iss, ebounds>>
     \/ iss[hnd[s].name] # s /\ Move(s, "reply") /\ UNCHANGED <<iss, ebounds>>
     \/ Faulty /\ Move(s, "reply") /\ Abandon(s)
  /\ UNCHANGED <<phone, store, count, hits, ghost>>

ReleaseDel(s) ==
  LET n == hnd[s].name
  IN /\ hnd[s].pc = "del"
     /\ Move(s, "reply")
     /\ \/ iss' = [iss EXCEPT ![n] = None] /\ UNCHANGED ebounds
        \/ Faulty /\ Abandon(s)
     /\ UNCHANGED <<phone, store, count, hits, ghost>>

(* The lock's fifteen seconds pass: always once nobody refreshes it, and by a
   fault (three missed beats) while its order is under way. *)
Held(n) == \E s \in Slots : hnd[s].name = n
                            /\ hnd[s].pc \in {"count", "order", "note", "write", "free", "del"}
                            /\ iss[n] = s

IssLapses(n) ==
  /\ iss[n] # None
  /\ iss' = [iss EXCEPT ![n] = None]
  /\ IF Held(n) THEN Faulty /\ slip' = [slip EXCEPT ![n] = @ + 1]
                     /\ behind' = behind \cup {n}
                ELSE UNCHANGED <<ebounds, slip, behind>>
  /\ UNCHANGED <<phone, hnd, store, count, hits, issued, granted>>

-----------------------------------------------------------------------------
ClientStep ==
  \E p \in Phones :
    \/ FetchNonce(p) \/ NonceExpires(p) \/ Nudge(p) \/ PostEnroll(p) \/ PostIssue(p)
    \/ \E s \in Slots : LoseAnswer(p, s)

ServerStep ==
  \E s \in Slots :
    \/ EnrollGate(s) \/ EnrollAdmit(s) \/ ClaimLock(s) \/ ClaimGet(s) \/ ClaimPut(s)
    \/ EnrollSign(s) \/ EnrollUndo(s)
    \/ IssueRead(s) \/ IssuanceBegin(s) \/ IssuanceCount(s) \/ Order(s)
    \/ IssuanceRecord(s) \/ RecordCert(s) \/ ReleaseGet(s) \/ ReleaseDel(s)
    \/ Reply(s) \/ ServerDies(s)

Passing ==
  \/ RateRolls
  \/ \E n \in Names : WeekRolls(n) \/ ClaimLapses(n) \/ IssLapses(n)
  \/ \E z \in zombie : Lands(z)

EnrolNext == ClientStep \/ ServerStep \/ Passing

-----------------------------------------------------------------------------
(* Type invariant of the enrolment state. *)
EnrolTypeOK ==
  /\ phone \in [Phones -> Client] /\ hnd \in [Slots -> Request]
  /\ claim \in [Names -> BOOLEAN]
  /\ rec \in [Names -> Records \cup {None}]
  /\ zombie \subseteq [name : Names, rec : Records \cup {None}]
  /\ iss \in [Names -> Slots \cup {Orphan, None}]
  /\ count \in [Names -> Nat] /\ issued \in [Names -> Nat] /\ slip \in [Names -> Nat]
  /\ granted \in [Names -> Phones \cup {None}] /\ behind \subseteq Names
  /\ hits \in 0..EnrollLimit + 1

(* A phone that was given a name keeps it: its record is in the object store   *)
(* and is the phone's own.  No other claim, no rollback (enroll.go:205-211)    *)
(* and no claim write that timed out and landed late (enroll.go:484-491) ever  *)
(* replaces or removes it, so no two phones have one name.                     *)
NameKept ==
  \A p \in Phones : phone[p].name # None =>
    /\ rec[phone[p].name] # None
    /\ rec[phone[p].name].owner = p

(* The reference client never asks for a second name once the server may have  *)
(* answered with a first (client/enroll.go:137-141, issue_retry.go:44-58): at   *)
(* most one enrolment of a phone is ever answered with a name.                 *)
OneNamePerPhone ==
  \A n, m \in Names : granted[n] # None /\ granted[n] = granted[m] => n = m

(* A name gets at most IssuePerWeek certificates in a window, plus one for     *)
(* each lapse of a lock whose order was still under way and each issuance that *)
(* could not be counted (limit/issuance.go:32-59, enroll.go:353-359), however  *)
(* the retries of its phone overlap.                                           *)
WeeklyCap ==
  \A n \in Names : issued[n] <= IssuePerWeek + slip[n]

(* The registry is never behind the phone: the certificate a phone holds, or a *)
(* later one, is in its record, unless a write of that record failed or its    *)
(* lock lapsed (enroll.go:361-366, 502-531).  Leaving a cancelled request      *)
(* unrecorded is safe because its answer reaches nobody.                       *)
RecordCurrent ==
  \A p \in Phones : phone[p].cert # 0 /\ phone[p].name \notin behind =>
    rec[phone[p].name].cert >= phone[p].cert

(* Every way out of Issue frees the issuance lock (limit/issuance.go:40-55,    *)
(* enroll.go:300-306), the phone's giving up included: a lock that no call     *)
(* failed to release belongs to a request that has not answered yet, so none   *)
(* is left behind to refuse the next one.                                      *)
LockFreed ==
  \A n \in Names :
    iss[n] \in Slots => hnd[iss[n]].pc \notin {"idle", "reply"}
=============================================================================
