----------------------------- MODULE NodeList ------------------------------
(***************************************************************************)
(* The list of live nodes in Valkey (internal/router/nodes.go), kept by    *)
(* every node's heartbeat (internal/server/schedulers.go heartbeatNode):   *)
(* a key per node with a TTL, and the set of the nodes' ids.  Whoever      *)
(* reads the list removes the ids whose key is gone.                       *)
(***************************************************************************)
EXTENDS Focus, Integers, FiniteSets

CONSTANTS
  Peers,         \* the nodes
  Listers,       \* readers of the list
  MaxLapses      \* bound on keys that expire under a live node, and lost calls

VARIABLES
  keys,      \* Valkey: the nodes with a node:{id} key
  ids,       \* Valkey: the set of ids
  hb,        \* the nodes: off, on, or between the calls of a heartbeat
  ls,        \* the readers: pc, the ids read and the ids found gone
  lapses

nvars == <<keys, ids, hb, ls, lapses>>

NoList == [pc |-> "rest", got |-> {}, gone |-> {}]

NodeListInit ==
  /\ keys = {} /\ ids = {}
  /\ hb = [n \in Peers |-> "on"]
  /\ ls = [l \in Listers |-> NoList]
  /\ lapses = 0

Lapse == lapses < MaxLapses /\ lapses' = lapses + 1

(* RegisterNode, at the start and on every tick: SET... *)
SetKey(n) ==
  /\ hb[n] = "on"
  /\ keys' = keys \cup {n}
  /\ hb' = [hb EXCEPT ![n] = "sadd"]
  /\ UNCHANGED <<ids, ls, lapses>>

(* ...then SADD, in one pipeline that other calls can come between. *)
AddId(n) ==
  /\ hb[n] = "sadd"
  /\ ids' = ids \cup {n}
  /\ hb' = [hb EXCEPT ![n] = "on"]
  /\ UNCHANGED <<keys, ls, lapses>>

(* The heartbeat's calls fail, from some point on; the next tick tries again. *)
HeartbeatFails(n) ==
  /\ hb[n] = "sadd" /\ Lapse
  /\ hb' = [hb EXCEPT ![n] = "on"]
  /\ UNCHANGED <<keys, ids, ls>>

(* A key expires: of a node that is gone, or that missed three heartbeats. *)
KeyExpires(n) ==
  /\ n \in keys
  /\ \/ hb[n] = "off" /\ UNCHANGED lapses
     \/ hb[n] # "off" /\ Lapse
  /\ keys' = keys \ {n}
  /\ UNCHANGED <<ids, hb, ls>>

(* A crash: the key and the id stay behind. *)
Crash(n) ==
  /\ hb[n] # "off" /\ Lapse
  /\ hb' = [hb EXCEPT ![n] = "off"]
  /\ UNCHANGED <<keys, ids, ls>>

(* DeregisterNode, at the end of a shutdown, after the heartbeat has returned. *)
Deregister(n) ==
  /\ hb[n] = "on"
  /\ hb' = [hb EXCEPT ![n] = "off"]
  /\ keys' = keys \ {n} /\ ids' = ids \ {n}
  /\ UNCHANGED <<ls, lapses>>

(* LiveNodes: SMEMBERS; an empty list is an answer. *)
ReadIds(l) ==
  /\ ls[l].pc = "rest" /\ ids # {}
  /\ ls' = [ls EXCEPT ![l] = [pc |-> "mget", got |-> ids, gone |-> {}]]
  /\ UNCHANGED <<keys, ids, hb, lapses>>

(* MGET of their keys. *)
ReadKeys(l) ==
  LET gone == ls[l].got \ keys
  IN /\ ls[l].pc = "mget"
     /\ ls' = [ls EXCEPT ![l] = IF gone = {} THEN NoList ELSE [pc |-> "srem", got |-> {}, gone |-> gone]]
     /\ UNCHANGED <<keys, ids, hb, lapses>>

(* SREM of the ids without a key, which may be back by now. *)
DropIds(l) ==
  /\ ls[l].pc = "srem"
  /\ \/ ids' = ids \ ls[l].gone /\ UNCHANGED lapses
     \/ Lapse /\ UNCHANGED ids
  /\ ls' = [ls EXCEPT ![l] = NoList]
  /\ UNCHANGED <<keys, hb>>

NodeListNext ==
  \/ \E n \in Peers : \/ SetKey(n) \/ AddId(n) \/ HeartbeatFails(n)
                      \/ KeyExpires(n) \/ Crash(n) \/ Deregister(n)
  \/ \E l \in Listers : ReadIds(l) \/ ReadKeys(l) \/ DropIds(l)

(* A live node's heartbeat ticks, a dead one's key expires, and calls return. *)
NodeListFairness ==
  /\ \A n \in Peers : /\ WF_nvars(focus = "nodes" /\ (SetKey(n) \/ AddId(n)))
                      /\ WF_nvars(focus = "nodes" /\ hb[n] = "off" /\ KeyExpires(n))
  /\ \A l \in Listers : WF_nvars(focus = "nodes" /\ (ReadIds(l) \/ ReadKeys(l) \/ DropIds(l)))

-----------------------------------------------------------------------------
(* Type invariant. *)
NodeListTypeOK ==
  /\ keys \subseteq Peers /\ ids \subseteq Peers
  /\ hb \in [Peers -> {"off", "on", "sadd"}]
  /\ ls \in [Listers -> [pc : {"rest", "mget", "srem"}, got : SUBSET Peers, gone : SUBSET Peers]]

(* The list settles on the live nodes: one whose id a reader removes while it  *)
(* comes back is in the list again after its next heartbeat, and one that is   *)
(* gone leaves it, by its own call or by a reader's.                           *)
ListSettled ==
  focus = "nodes" =>
    \A n \in Peers : IF hb[n] = "off" THEN n \notin keys \cup ids ELSE n \in keys \cap ids
=============================================================================
