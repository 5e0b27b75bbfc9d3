--------------------------- MODULE ReservedCert ----------------------------
(***************************************************************************)
(* The certificate of a reserved host, which every node serves             *)
(* (internal/server/reserved.go, the lock and the shared copy in           *)
(* internal/acme/challenge_store.go).  A node adopts the copy the nodes    *)
(* share in Valkey, or orders one under a lock and shares it.  A           *)
(* certificate is its expiry, counted in renewal periods: number k is due  *)
(* in period k-1 and expired in period k; 0 is none.                       *)
(***************************************************************************)
EXTENDS Focus, Integers, FiniteSets

CONSTANTS
  Servers,
  Unlocked, Abandoned,  \* the lock is free; the lock's owner is gone
  MaxPeriods,           \* bound on the passing of time
  MaxCertFaults         \* bound on failures, crashes and restarts

ASSUME ReservedCertAssumption ==
  Unlocked \notin Servers /\ Abandoned \notin Servers /\ Unlocked # Abandoned

VARIABLES
  period,    \* the time
  selfLock,  \* Valkey: who holds the issuance lock
  shared,    \* Valkey: the shared certificate
  disk,      \* the nodes' cached certificates
  cur,       \* the certificates the nodes serve
  rc,        \* where the nodes' run loops are
  locked,    \* the nodes whose issue holds the lock
  certFaults

rvars == <<period, selfLock, shared, disk, cur, rc, locked, certFaults>>

Due(k) == k <= period + 1
Expired(k) == k <= period

ReservedCertInit ==
  /\ period = 0 /\ selfLock = Unlocked /\ shared = 0 /\ certFaults = 0
  /\ disk = [n \in Servers |-> 0]
  /\ cur = [n \in Servers |-> 0]
  /\ rc = [n \in Servers |-> "load"] /\ locked = {}

CertFault == certFaults < MaxCertFaults /\ certFaults' = certFaults + 1

(* Time passes; Valkey drops the shared copy when it expires. *)
NextPeriod ==
  /\ period < MaxPeriods
  /\ period' = period + 1
  /\ shared' = IF shared <= period + 1 THEN 0 ELSE shared
  /\ UNCHANGED <<selfLock, disk, cur, rc, locked, certFaults>>

(* The lock of a node that is gone, or that gave up its order, expires.  The
   lock outlives everything a live owner does: 10 minutes for an order of at
   most 5. *)
LockLapses ==
  /\ selfLock = Abandoned /\ selfLock' = Unlocked
  /\ UNCHANGED <<period, shared, disk, cur, rc, locked, certFaults>>

At(n, pc) == rc' = [rc EXCEPT ![n] = pc]

(* rh.store and persist: the certificate served, and the file, replaced by one
   rename. *)
Store(n, k) == cur' = [cur EXCEPT ![n] = k] /\ disk' = [disk EXCEPT ![n] = k]

(* adoptShared's tests on the copy it read. *)
Adoptable(n, requireNotDue) ==
  /\ shared # 0 /\ ~Expired(shared)
  /\ cur[n] # 0 => shared > cur[n]
  /\ requireNotDue => ~Due(shared)

(* loadCache: the cached file if it has not expired, then the shared copy if it
   lasts longer. *)
LoadCache(n) ==
  LET k == IF Expired(disk[n]) THEN 0 ELSE disk[n]
  IN /\ rc[n] = "load"
     /\ \/ /\ shared > k /\ Store(n, shared)
           /\ UNCHANGED certFaults
        \/ /\ (shared <= k /\ UNCHANGED certFaults) \/ CertFault
           /\ cur' = [cur EXCEPT ![n] = k] /\ UNCHANGED disk
     /\ At(n, "check")
     /\ UNCHANGED <<period, selfLock, shared, locked>>

(* maybeRenew's test: no certificate, or one that shouldRenew calls due. *)
Wants(n, k) == k = 0 \/ Due(k)

(* maybeRenew: adopt the shared copy, then order if the certificate is due.  A
   failed read of the copy is no copy, and a failed shouldRenew ends the turn. *)
MaybeRenew(n) ==
  /\ rc[n] = "check"
  /\ \/ /\ IF Adoptable(n, FALSE) THEN Store(n, shared) ELSE UNCHANGED <<cur, disk>>
        /\ At(n, IF Wants(n, cur'[n]) THEN "acquire" ELSE "sleep")
        /\ UNCHANGED certFaults
     \/ /\ CertFault
        /\ \E pc \in {IF Wants(n, cur[n]) THEN "acquire" ELSE "sleep", "sleep"} : At(n, pc)
        /\ UNCHANGED <<cur, disk>>
  /\ UNCHANGED <<period, selfLock, shared, locked>>

(* run: the timer. *)
Wake(n) ==
  /\ rc[n] = "sleep"
  /\ At(n, "check")
  /\ UNCHANGED <<period, selfLock, shared, disk, cur, locked, certFaults>>

(* acquire: SETNX every 2 seconds for up to 5 minutes.  On an error the order is
   made without the lock, which may have been set. *)
Acquire(n) ==
  /\ rc[n] = "acquire"
  /\ \/ /\ selfLock = Unlocked /\ selfLock' = n
        /\ At(n, "locked") /\ locked' = locked \cup {n} /\ UNCHANGED certFaults
     \/ /\ selfLock # Unlocked /\ UNCHANGED <<selfLock, locked, certFaults>>
        /\ At(n, "sleep")
     \/ /\ CertFault
        /\ selfLock' \in {selfLock, IF selfLock = Unlocked THEN Abandoned ELSE selfLock}
        /\ At(n, "order") /\ UNCHANGED locked
  /\ UNCHANGED <<period, shared, disk, cur>>

(* LockSelf's unlock, deleteIfValue: it deletes the lock only while it is still
   the node's.  It is skipped without one, and its failure leaves the lock. *)
Unlock(n) ==
  /\ locked' = locked \ {n}
  /\ \/ /\ n \in locked
        /\ selfLock' = IF selfLock = n THEN Unlocked ELSE selfLock
        /\ UNCHANGED certFaults
     \/ n \in locked /\ CertFault /\ selfLock' = Abandoned
     \/ n \notin locked /\ UNCHANGED <<selfLock, certFaults>>

(* Mutant: the shared copy is not looked at again under the lock. *)
OrdersAtOnce(n) ==
  /\ rc[n] = "locked"
  /\ At(n, "order")
  /\ UNCHANGED <<cur, disk, selfLock, locked, certFaults, period, shared>>

(* issue, under the lock: another node may have shared one meanwhile.  A failed
   read, or a failed shouldRenew on the copy, orders. *)
Recheck(n) ==
  /\ rc[n] = "locked"
  /\ \/ /\ Adoptable(n, TRUE) /\ Store(n, shared)
        /\ At(n, "sleep") /\ Unlock(n)
     \/ /\ (~Adoptable(n, TRUE) /\ UNCHANGED certFaults) \/ CertFault
        /\ At(n, "order")
        /\ UNCHANGED <<cur, disk, selfLock, locked>>
  /\ UNCHANGED <<period, shared>>

(* obtain succeeds: the certificate is served, cached and then shared.  It lasts
   one or two periods past this one, as the certificate authority has it. *)
Obtained(n) ==
  /\ rc[n] = "order"
  /\ \E k \in {period + 2, period + 3} : Store(n, k)
  /\ At(n, "publish")
  /\ UNCHANGED <<period, selfLock, shared, locked, certFaults>>

(* obtain fails, or its result is unreadable: the lock is released; at the
   node's own time limit it is left to expire, as the order may still go on. *)
ObtainFails(n) ==
  /\ rc[n] = "order" /\ CertFault
  /\ selfLock' = IF selfLock # n THEN selfLock ELSE Unlocked
  /\ At(n, "sleep") /\ locked' = locked \ {n}
  /\ UNCHANGED <<period, shared, disk, cur>>

ObtainAbandoned(n) ==
  /\ rc[n] = "order" /\ CertFault
  /\ selfLock' = IF selfLock # n THEN selfLock ELSE Abandoned
  /\ At(n, "sleep") /\ locked' = locked \ {n}
  /\ UNCHANGED <<period, shared, disk, cur>>

(* publish: PutSelfCert refuses an expired one, and may fail. *)
Publish(n) ==
  /\ rc[n] = "publish"
  /\ \/ /\ shared' = IF Expired(cur[n]) THEN shared ELSE cur[n]
        /\ UNCHANGED certFaults
     \/ CertFault /\ UNCHANGED shared
  /\ At(n, "release")
  /\ UNCHANGED <<period, selfLock, disk, cur, locked>>

(* issue's deferred release. *)
Release(n) ==
  /\ rc[n] = "release"
  /\ Unlock(n)
  /\ At(n, "sleep")
  /\ UNCHANGED <<period, shared, disk, cur>>

(* The process crashes, or is stopped and started again: a stop releases the
   lock on its way out, a crash leaves it. *)
Restart(n) ==
  /\ rc[n] # "load" /\ CertFault
  /\ cur' = [cur EXCEPT ![n] = 0]
  /\ selfLock' \in IF selfLock = n THEN {Unlocked, Abandoned} ELSE {selfLock}
  /\ At(n, "load") /\ locked' = locked \ {n}
  /\ UNCHANGED <<period, shared, disk>>

ServerStep(n) ==
  \/ LoadCache(n) \/ MaybeRenew(n) \/ Wake(n) \/ Acquire(n) \/ Recheck(n)
  \/ Obtained(n) \/ Publish(n) \/ Release(n)

ReservedCertNext ==
  \/ NextPeriod \/ LockLapses
  \/ \E n \in Servers : ServerStep(n) \/ ObtainFails(n) \/ ObtainAbandoned(n) \/ Restart(n)

(* Timers fire, calls return, the lock's TTL runs out. *)
ReservedCertFairness ==
  /\ WF_rvars(focus = "cert" /\ LockLapses)
  /\ \A n \in Servers : WF_rvars(focus = "cert" /\ ServerStep(n))

-----------------------------------------------------------------------------
(* Type invariant. *)
ReservedCertTypeOK ==
  /\ period \in Nat /\ certFaults \in Nat
  /\ selfLock \in Servers \cup {Unlocked, Abandoned}
  /\ shared \in Nat /\ cur \in [Servers -> Nat] /\ disk \in [Servers -> Nat]
  /\ rc \in [Servers -> {"load", "check", "sleep", "acquire", "locked", "order", "publish",
                          "release"}]
  /\ locked \subseteq Servers

(* As long as nothing fails, no certificate is ordered while some node already *)
(* has one that is not due: the lock is held until the new one is shared, and  *)
(* the next owner looks at the shared copy again before it orders.             *)
NoNeedlessOrder ==
  certFaults = 0 =>
    \A n, m \in Servers : rc[n] = "order" => Due(cur[m])

(* A node under a lock is the lock's owner, so two nodes never order under it. *)
LockOwned == \A n \in locked : selfLock = n

(* Once the failures stop, every node ends up serving a certificate that has   *)
(* not expired, also after an abandoned order left the lock behind.            *)
CertsCurrent == focus = "cert" => \A n \in Servers : ~Expired(cur[n])
=============================================================================
