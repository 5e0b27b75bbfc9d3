----------------------------- MODULE StreamSlots -----------------------------
(***************************************************************************)
(* The stream cap of one tunnel across the entry nodes: the sorted set     *)
(* conc:{name} in Valkey (internal/limit/concurrency.go), admission and    *)
(* eviction in handleTunnel (internal/edge/bridge.go) and the search for a *)
(* slot on other nodes (remoteSlots in internal/server/serve.go).          *)
(*                                                                         *)
(* A member of the set is a stream's token, here the stream itself.  The   *)
(* commands of AcquireStream's plain pipeline are steps of their own: other *)
(* clients' commands may run between them.  How idle a stream is is        *)
(* abstracted to whether it is protected; among the evictable ones any may *)
(* be the least active.                                                    *)
(***************************************************************************)
EXTENDS Naturals, FiniteSets

CONSTANTS Nodes, Streams, NoNode, NoStream,
          Entries,       \* the nodes each stream's client may connect to
          MaxN,          \* --limit-concurrent
          SlotRetries,   \* rounds of evictAndAcquire
          MaxAsks,       \* slotFreeConcurrency: remote searches per node
          MaxFaults,     \* Valkey or mesh calls that fail
          Crashable      \* the nodes that may crash

ASSUME SlotsAssumption ==
  /\ IsFiniteSet(Streams) /\ NoStream \notin Streams /\ NoNode \notin Nodes
  /\ MaxN \in Nat /\ SlotRetries \in Nat /\ MaxAsks \in Nat /\ MaxFaults \in Nat
  /\ Crashable \subseteq Nodes /\ Entries \in [Streams -> SUBSET Nodes]

VARIABLES
  zset,      \* conc:{name}
  pc, home,  \* where handleTunnel of each stream stands, and on which node
  round,     \* evictAndAcquire's rounds so far
  offers,    \* the nodes that answered slot-candidate, still to be asked
  victim,    \* the stream whose slot a newcomer (or a node for it) is freeing
  granted,   \* AcquireStream granted the slot (false: admitted on an error)
  released,  \* slotOnce of the stream has fired
  evicted,   \* activeStream.evicted
  busy,      \* the stream's traffic protects it from eviction
  up, faults

vars == <<zset, pc, home, round, offers, victim, granted, released, evicted, busy,
          up, faults>>
search == <<round, offers, victim>>

PCs == {"new", "add", "count", "undo", "evict", "offer", "free", "opening",
        "spliced", "ending", "closing", "refused", "done", "crashed"}

TypeOK ==
  /\ zset \subseteq Streams
  /\ pc \in [Streams -> PCs]
  /\ home \in [Streams -> Nodes \cup {NoNode}]
  /\ round \in [Streams -> 0..SlotRetries]
  /\ offers \in [Streams -> SUBSET Nodes]
  /\ victim \in [Streams -> Streams \cup {NoStream}]
  /\ granted \in [Streams -> BOOLEAN]
  /\ released \in [Streams -> BOOLEAN]
  /\ evicted \in [Streams -> BOOLEAN]
  /\ busy \in [Streams -> BOOLEAN]
  /\ up \in [Nodes -> BOOLEAN]
  /\ faults \in 0..MaxFaults

Init ==
  /\ zset = {}
  /\ pc = [s \in Streams |-> "new"]
  /\ home = [s \in Streams |-> NoNode]
  /\ round = [s \in Streams |-> 0]
  /\ offers = [s \in Streams |-> {}]
  /\ victim = [s \in Streams |-> NoStream]
  /\ granted = [s \in Streams |-> FALSE]
  /\ released = [s \in Streams |-> FALSE]
  /\ evicted = [s \in Streams |-> FALSE]
  /\ busy = [s \in Streams |-> FALSE]
  /\ up = [n \in Nodes |-> TRUE]
  /\ faults = MaxFaults

Goto(s, l) == pc' = [pc EXCEPT ![s] = l]
Fault == faults > 0 /\ faults' = faults - 1

(* leastActive's candidates on a node: tracked from the dial-back until the
   handler's defers run. *)
Evictable(n) == {v \in Streams : /\ home[v] = n /\ pc[v] \in {"spliced", "ending"}
                                 /\ ~evicted[v] /\ ~busy[v]}

-----------------------------------------------------------------------------
(* AcquireStream *)

Arrive(s, n) ==
  /\ pc[s] = "new" /\ n \in Entries[s] /\ up[n]
  /\ home' = [home EXCEPT ![s] = n]
  /\ Goto(s, "add")
  /\ UNCHANGED <<zset, search, granted, released, evicted, busy, up, faults>>

(* ZADD; the pruning of expired members is Expire. *)
Add(s) ==
  /\ pc[s] = "add"
  /\ zset' = zset \cup {s}
  /\ Goto(s, "count")
  /\ UNCHANGED <<home, search, granted, released, evicted, busy, up, faults>>

(* Mutant of Count: the newcomer is not counted. *)
CountOthers(s) ==
  /\ pc[s] = "count"
  /\ \/ Cardinality(zset \ {s}) <= MaxN /\ Goto(s, "opening")
        /\ granted' = [granted EXCEPT ![s] = TRUE]
     \/ Cardinality(zset \ {s}) > MaxN /\ Goto(s, "undo") /\ UNCHANGED granted
  /\ UNCHANGED <<zset, home, search, released, evicted, busy, up, faults>>

(* ZCARD, the newcomer's own member included. *)
Count(s) ==
  /\ pc[s] = "count"
  /\ \/ /\ Cardinality(zset) <= MaxN
        /\ granted' = [granted EXCEPT ![s] = TRUE]
        /\ Goto(s, "opening")
     \/ Cardinality(zset) > MaxN /\ Goto(s, "undo") /\ UNCHANGED granted
  /\ UNCHANGED <<zset, home, search, released, evicted, busy, up, faults>>

(* Over the cap: ZREM of the newcomer's own member; its failure is only logged. *)
Undo(s) ==
  /\ pc[s] = "undo" /\ Goto(s, "evict")
  /\ \/ zset' = zset \ {s} /\ UNCHANGED faults
     \/ Fault /\ UNCHANGED zset
  /\ UNCHANGED <<home, search, granted, released, evicted, busy, up>>

(* The pipeline fails, before or after its ZADD: the stream is admitted. *)
AcquireError(s) ==
  /\ pc[s] \in {"add", "count"} /\ Fault
  /\ Goto(s, "opening")
  /\ UNCHANGED <<zset, home, search, granted, released, evicted, busy, up>>

-----------------------------------------------------------------------------
(* evictAndAcquire *)

(* evictLeastActive picks a victim of this node: CAS of evicted, cancel. *)
EvictLocal(s) ==
  /\ pc[s] = "evict" /\ round[s] < SlotRetries
  /\ \E v \in Evictable(home[s]) :
       /\ evicted' = [evicted EXCEPT ![v] = TRUE]
       /\ victim' = [victim EXCEPT ![s] = v]
  /\ Goto(s, "free")
  /\ UNCHANGED <<zset, home, round, offers, granted, released, busy, up, faults>>

(* The inflight slots of a node's remoteSlots: until the free-slot call ends. *)
Searching(n) ==
  {t \in Streams : /\ home[t] = n
                   /\ \/ pc[t] = "offer"
                      \/ pc[t] = "free" /\ home[victim[t]] # n}

(* FreeRemoteSlot: no local victim; every other node is asked for a candidate,
   and some of those that have one answer in time. *)
AskNodes(s) ==
  /\ pc[s] = "evict" /\ round[s] < SlotRetries
  /\ Evictable(home[s]) = {}
  /\ Cardinality(Searching(home[s])) < MaxAsks
  /\ \E answered \in SUBSET {n \in Nodes \ {home[s]} : up[n] /\ Evictable(n) # {}} :
       offers' = [offers EXCEPT ![s] = answered]
  /\ Goto(s, "offer")
  /\ UNCHANGED <<zset, home, round, victim, granted, released, evicted, busy, up, faults>>

(* Mutant of FreeSlot: a node with nothing left to evict is asked again. *)
FreeSlotAgain(s) ==
  /\ pc[s] = "offer"
  /\ \E n \in offers[s], v \in Streams :
       /\ up[n] /\ v \in Evictable(n)
       /\ evicted' = [evicted EXCEPT ![v] = TRUE]
       /\ victim' = [victim EXCEPT ![s] = v]
  /\ offers' = [offers EXCEPT ![s] = {}]
  /\ Goto(s, "free")
  /\ UNCHANGED <<zset, home, round, granted, released, busy, up, faults>>

(* free-slot on a node: it evicts its least active stream of the moment, which
   need not be the one it offered; none left: the next offer. *)
FreeSlot(s) ==
  /\ pc[s] = "offer"
  /\ \E n \in offers[s] :
       /\ up[n]
       /\ \/ /\ \E v \in Evictable(n) :
                  /\ evicted' = [evicted EXCEPT ![v] = TRUE]
                  /\ victim' = [victim EXCEPT ![s] = v]
             /\ offers' = [offers EXCEPT ![s] = {}]
             /\ Goto(s, "free")
          \/ /\ Evictable(n) = {}
             /\ offers' = [offers EXCEPT ![s] = @ \ {n}]
             /\ UNCHANGED <<evicted, victim, pc>>
  /\ UNCHANGED <<zset, home, round, granted, released, busy, up, faults>>

(* The free-slot call fails, the node being down or not; the node may have
   evicted all the same.  AcquireStream is tried again either way. *)
FreeSlotError(s) ==
  /\ pc[s] = "offer"
  /\ \E n \in offers[s] :
       \/ ~up[n] /\ UNCHANGED <<evicted, faults>>
       \/ Fault /\ UNCHANGED evicted
       \/ Fault /\ \E v \in Evictable(n) : evicted' = [evicted EXCEPT ![v] = TRUE]
  /\ offers' = [offers EXCEPT ![s] = {}]
  /\ round' = [round EXCEPT ![s] = @ + 1]
  /\ Goto(s, "add")
  /\ UNCHANGED <<zset, home, victim, granted, released, busy, up>>

(* releaseSlot: ZREM unless slotOnce has fired; if it fails the member expires. *)
ReleaseSlot(v) ==
  /\ released' = [released EXCEPT ![v] = TRUE]
  /\ \/ zset' = (IF released[v] THEN zset ELSE zset \ {v}) /\ UNCHANGED faults
     \/ ~released[v] /\ Fault /\ UNCHANGED zset

(* The victim's node releases its slot, or has crashed before it could; then
   AcquireStream is tried again. *)
FreeVictim(s) ==
  /\ pc[s] = "free"
  /\ \/ up[home[victim[s]]] /\ ReleaseSlot(victim[s])
     \/ ~up[home[victim[s]]] /\ UNCHANGED <<zset, released, faults>>
  /\ victim' = [victim EXCEPT ![s] = NoStream]
  /\ round' = [round EXCEPT ![s] = @ + 1]
  /\ Goto(s, "add")
  /\ UNCHANGED <<home, offers, granted, evicted, busy, up>>

(* stream-cap: nothing to evict, the rounds or the 2 s are used up, or too
   many searches run already. *)
Refuse(s) ==
  /\ \/ pc[s] = "evict"
     \/ pc[s] = "offer" /\ offers[s] = {}
  /\ Goto(s, "refused")
  /\ UNCHANGED <<zset, home, search, granted, released, evicted, busy, up, faults>>

-----------------------------------------------------------------------------
(* The admitted stream *)

(* openFar: the phone has dialled back and the stream is tracked, or not. *)
Opened(s) ==
  /\ pc[s] = "opening"
  /\ \E l \in {"spliced", "closing"} : Goto(s, l)
  /\ UNCHANGED <<zset, home, search, granted, released, evicted, busy, up, faults>>

(* Mutant of Charge: ZADD without XX. *)
ChargeAdds(s) ==
  /\ pc[s] = "spliced"
  /\ busy' = [busy EXCEPT ![s] = ~@]
  /\ zset' = zset \cup {s}
  /\ UNCHANGED <<pc, home, search, granted, released, evicted, up, faults>>

(* pacedCopy charges a chunk: Charge refreshes the member's score, and only
   if it is there (ZADD XX); the rate that protects the stream changes.  The
   charge of an evicted stream may already be on its way. *)
Charge(s) ==
  /\ pc[s] = "spliced"
  /\ busy' = [busy EXCEPT ![s] = ~@]
  /\ UNCHANGED <<zset, pc, home, search, granted, released, evicted, up, faults>>

(* splice returns: either side closed, a policy hit, or cancelled. *)
SpliceEnds(s) ==
  /\ pc[s] = "spliced" /\ Goto(s, "ending")
  /\ UNCHANGED <<zset, home, search, granted, released, evicted, busy, up, faults>>

(* The deferred untrackStream. *)
Untrack(s) ==
  /\ pc[s] = "ending" /\ Goto(s, "closing")
  /\ UNCHANGED <<zset, home, search, granted, released, evicted, busy, up, faults>>

(* The deferred releaseSlot. *)
Release(s) ==
  /\ pc[s] = "closing" /\ Goto(s, "done")
  /\ ReleaseSlot(s)
  /\ UNCHANGED <<home, search, granted, evicted, busy, up>>

(* A member nobody refreshes expires: 3 x --limit-conn-idle is longer than a
   live stream may stay without traffic. *)
Expire(m) ==
  /\ m \in zset /\ pc[m] \in {"refused", "done", "crashed"}
  /\ zset' = zset \ {m}
  /\ UNCHANGED <<pc, home, search, granted, released, evicted, busy, up, faults>>

Crash(n) ==
  LET dead == {s \in Streams : home[s] = n /\ pc[s] \notin {"refused", "done"}} IN
  /\ n \in Crashable /\ up[n]
  /\ up' = [up EXCEPT ![n] = FALSE]
  /\ pc' = [s \in Streams |-> IF s \in dead THEN "crashed" ELSE pc[s]]
  /\ victim' = [s \in Streams |-> IF s \in dead THEN NoStream ELSE victim[s]]
  /\ offers' = [s \in Streams |-> IF s \in dead THEN {} ELSE offers[s]]
  /\ UNCHANGED <<zset, home, round, granted, released, evicted, busy, faults>>

-----------------------------------------------------------------------------
Admission(s) ==
  \/ Add(s) \/ Count(s) \/ Undo(s) \/ EvictLocal(s) \/ AskNodes(s) \/ FreeSlot(s)
  \/ FreeVictim(s) \/ Refuse(s) \/ Opened(s)

Next ==
  \/ \E s \in Streams :
       \/ Admission(s) \/ AcquireError(s) \/ FreeSlotError(s)
       \/ Charge(s) \/ SpliceEnds(s) \/ Untrack(s) \/ Release(s) \/ Expire(s)
       \/ \E n \in Nodes : Arrive(s, n)
  \/ \E n \in Nodes : Crash(n)

Spec == Init /\ [][Next]_vars

(* What the goroutine of handleTunnel does by itself. *)
Handler(s) ==
  \/ Admission(s) \/ FreeSlotError(s) \/ Untrack(s) \/ Release(s)
  \/ evicted[s] /\ SpliceEnds(s)

(* Goroutines run, and an evicted stream's splice returns; whether traffic
   flows or an unevicted stream ends is up to its peers. *)
LiveSpec ==
  /\ Spec
  /\ \A s \in Streams : WF_vars(Handler(s)) /\ WF_vars(Expire(s))

-----------------------------------------------------------------------------
(* The streams that were granted a slot and have not given it back. *)
Holding == {s \in Streams : /\ granted[s] /\ ~released[s]
                            /\ pc[s] \in {"opening", "spliced", "ending", "closing"}}

(* Across all nodes, no more streams hold a granted slot than the cap allows,
   however acquisitions, evictions and releases interleave and whatever
   fails: each newcomer adds itself before it counts. *)
CapHolds == Cardinality(Holding) <= MaxN

(* Unless a call failed, a stream that was refused or has ended leaves no
   member behind: not the refused newcomer, not an evicted stream whose last
   chunks are charged after its slot was freed for another. *)
SlotReturned ==
  faults = MaxFaults =>
    \A s \in Streams : pc[s] \in {"evict", "refused", "done"} => s \notin zset

(* Nobody's slot is freed behind its back: a stream that was granted one and
   has not released it is still counted. *)
HolderCounted == Holding \subseteq zset

(* In the end every admission is decided and every evicted stream has ended,
   and slots that a crash or a failed call left behind have come back. *)
SlotsSettle ==
  <>[](\A s \in Streams :
         /\ pc[s] \in {"new", "spliced", "refused", "done", "crashed"}
         /\ pc[s] # "spliced" \/ evicted[s] => s \notin zset)
=============================================================================
