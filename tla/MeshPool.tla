------------------------------ MODULE MeshPool -------------------------------
(***************************************************************************)
(* The mesh client's pools (internal/mesh/client.go): one pool of HTTP/2   *)
(* connections per peer node, made at the first call to the peer, shared   *)
(* by the calls to it, and closed by a janitor when nobody has used it for *)
(* a while.  A call holds the pool it got until it returns; the janitor    *)
(* looks at the pools between the steps of the calls.                      *)
(***************************************************************************)
EXTENDS Integers, FiniteSets

CONSTANTS
  Remotes,   \* peers
  Callers,   \* goroutines calling them
  MaxPools   \* bound on the pools made

ASSUME MeshPoolAssumption == IsFiniteSet(Callers) /\ MaxPools \in Nat

VARIABLES
  pools,     \* pools[p]: the number of p's pool, or 0
  poolsMade, \* pools made so far
  stale,     \* pools whose last use is longer ago than reapAfter
  active,    \* active[g]: calls that have counted themselves in pool g
  call       \* call[c]: the pool that c's call runs on, or 0

pvars == <<pools, poolsMade, stale, active, call>>

MeshPoolInit ==
  /\ pools = [p \in Remotes |-> 0] /\ poolsMade = 0
  /\ stale = {}
  /\ active = [g \in 1..MaxPools |-> 0]
  /\ call = [c \in Callers |-> 0]

(* pool, the start of Control: find or make the pool, note the use and count the
   call, all under the client's lock. *)
BeginCall(c, p) ==
  LET g == IF pools[p] = 0 THEN poolsMade + 1 ELSE pools[p]
  IN  /\ call[c] = 0 /\ g <= MaxPools
      /\ pools' = [pools EXCEPT ![p] = g]
      /\ poolsMade' = IF pools[p] = 0 THEN poolsMade + 1 ELSE poolsMade
      /\ stale' = stale \ {g}
      /\ active' = [active EXCEPT ![g] = @ + 1]
      /\ call' = [call EXCEPT ![c] = g]

(* Control returns, with an answer, an error or at its time limit. *)
EndCall(c) ==
  /\ call[c] # 0
  /\ active' = [active EXCEPT ![call[c]] = @ - 1]
  /\ call' = [call EXCEPT ![c] = 0]
  /\ UNCHANGED <<pools, poolsMade, stale>>

(* A pool's last use is longer ago than reapAfter, also that of a running call. *)
Ages(p) ==
  /\ pools[p] \notin {0} \cup stale /\ stale' = stale \cup {pools[p]}
  /\ UNCHANGED <<pools, poolsMade, active, call>>

(* Mutant: a pool is closed when its last use is long ago. *)
ReapableByAge(p) == pools[p] \in stale

Reapable(p) == pools[p] \in stale /\ active[pools[p]] = 0

(* Run's ticker: close and forget every pool that is long unused. *)
Reap ==
  /\ \E p \in Remotes : Reapable(p)
  /\ pools' = [p \in Remotes |-> IF Reapable(p) THEN 0 ELSE pools[p]]
  /\ UNCHANGED <<poolsMade, stale, active, call>>

MeshPoolNext ==
  \/ \E c \in Callers : (\E p \in Remotes : BeginCall(c, p)) \/ EndCall(c)
  \/ (\E p \in Remotes : Ages(p)) \/ Reap

-----------------------------------------------------------------------------
(* Type invariant. *)
MeshPoolTypeOK ==
  /\ pools \in [Remotes -> 0..MaxPools] /\ poolsMade \in 0..MaxPools /\ stale \subseteq 1..poolsMade
  /\ active \in [1..MaxPools -> Nat]
  /\ call \in [Callers -> 0..MaxPools]

(* The janitor never closes a pool under a running call, however long the call *)
(* takes, so the next call to the same peer shares its connections.            *)
InUseKept == \A c \in Callers : call[c] # 0 => \E p \in Remotes : pools[p] = call[c]
=============================================================================
