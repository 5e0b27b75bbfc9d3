---------------------------- MODULE Attestation ----------------------------
(***************************************************************************)
(* What an attestation is verified against (internal/attest): the root     *)
(* pool and the revocation list, fetched again and again from Google       *)
(* (refreshers.go).  Verify (verify.go) reads each where it needs it.  One *)
(* device key is followed, which Google may revoke.  Time is in ticks.     *)
(* The allowlist of app signers is the module Signers.                     *)
(***************************************************************************)
EXTENDS Integers

CONSTANTS
  Requests,      \* verifications
  MaxStale,      \* --attest-max-stale, in ticks
  MaxClock       \* bound on time

ASSUME AttestationAssumption == MaxStale \in Nat /\ MaxClock \in Nat

VARIABLES
  now,
  revokedAt,     \* when Google lists the key; Never
  roots,         \* RootSet.pool is not empty
  snap,          \* StatusList.snap: whether the key is listed, and when fetched
  fetch,         \* a fetch of the list in progress: what it read
  vf             \* the verifications: pc and their clock

tvs == <<now, revokedAt, roots, snap, fetch, vf>>

Never == MaxClock + MaxStale + 1
NoSnap == [listed |-> TRUE, at |-> -1]
NoFetch == [listed |-> FALSE, on |-> FALSE]

(* NewRootSet and NewStatusList may fail and leave nothing. *)
AttestationInit ==
  /\ now = 0 /\ revokedAt = Never
  /\ roots = FALSE /\ snap = NoSnap /\ fetch = NoFetch
  /\ vf = [r \in Requests |-> [pc |-> "new", now |-> 0]]

NextTick ==
  /\ now < MaxClock /\ ~fetch.on /\ now' = now + 1
  /\ UNCHANGED <<revokedAt, roots, snap, fetch, vf>>

(* External: Google lists the key as revoked. *)
Revoke ==
  /\ revokedAt = Never /\ revokedAt' = now
  /\ UNCHANGED <<now, roots, snap, fetch, vf>>

(* RootSet.Refresh: a pool is replaced by one fetched whole and never emptied. *)
FetchRoots ==
  /\ roots' = TRUE
  /\ UNCHANGED <<now, revokedAt, snap, fetch, vf>>

(* StatusList.Refresh: the list is read from Google... *)
FetchStatus ==
  /\ ~fetch.on
  /\ fetch' = [listed |-> revokedAt <= now, on |-> TRUE]
  /\ UNCHANGED <<now, revokedAt, roots, snap, vf>>

(* Mutant: a failed fetch keeps the list and renews its time. *)
FetchFailsFresh == snap' = [snap EXCEPT !.at = now]

(* A failed fetch keeps the list and the time of the fetch it came from. *)
FetchFails == UNCHANGED snap

(* ...and stored with the time the fetch ended, or the fetch fails.  A fetch
   takes less than a tick, which is far below MaxStale. *)
StoreStatus ==
  /\ fetch.on
  /\ snap' = [listed |-> fetch.listed, at |-> now] \/ FetchFails
  /\ fetch' = NoFetch
  /\ UNCHANGED <<now, revokedAt, roots, vf>>

VerifyAt(r, pc) ==
  /\ vf' = [vf EXCEPT ![r].pc = pc]
  /\ UNCHANGED <<now, revokedAt, roots, snap, fetch>>

(* Verify takes the time it is called at. *)
BeginVerify(r) ==
  /\ vf[r].pc = "new"
  /\ vf' = [vf EXCEPT ![r] = [pc |-> "chain", now |-> now]]
  /\ UNCHANGED <<now, revokedAt, roots, snap, fetch>>

(* (1)-(6): the chain against the root pool; the challenge, the signer, and what
   the device says of itself, each of which may refuse. *)
CheckChain(r) ==
  /\ vf[r].pc = "chain"
  /\ \/ roots /\ VerifyAt(r, "stale")
     \/ VerifyAt(r, "refused")

(* (7) the list's age, then the list: two loads, between which it may change. *)
CheckStale(r) ==
  /\ vf[r].pc = "stale"
  /\ VerifyAt(r, IF snap.at < 0 \/ vf[r].now - snap.at > MaxStale THEN "refused" ELSE "revoked")

CheckRevoked(r) ==
  /\ vf[r].pc = "revoked"
  /\ VerifyAt(r, IF snap.listed THEN "refused" ELSE "accepted")

AttestationNext ==
  \/ NextTick \/ Revoke \/ FetchRoots \/ FetchStatus \/ StoreStatus
  \/ \E r \in Requests : BeginVerify(r) \/ CheckChain(r) \/ CheckStale(r) \/ CheckRevoked(r)

-----------------------------------------------------------------------------
(* Type invariant. *)
AttestationTypeOK ==
  /\ now \in 0..MaxClock /\ revokedAt \in 0..Never /\ roots \in BOOLEAN
  /\ snap \in [listed : BOOLEAN, at : -1..MaxClock]
  /\ fetch \in [listed : BOOLEAN, on : BOOLEAN]
  /\ vf \in [Requests -> [pc : {"new", "chain", "stale", "revoked", "accepted", "refused"},
                           now : 0..MaxClock]]

(* A key is not accepted any more once it has been on Google's list for longer *)
(* than --attest-max-stale, whether fetches fail or replace the list in the    *)
(* middle of a verification.                                                   *)
RevokedRefused ==
  \A r \in Requests : vf[r].pc = "accepted" => revokedAt >= vf[r].now - MaxStale
=============================================================================
