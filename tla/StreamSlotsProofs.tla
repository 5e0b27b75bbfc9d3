-------------------------- MODULE StreamSlotsProofs --------------------------
(***************************************************************************)
(* The stream cap for every set of streams and nodes, every cap and any    *)
(* number of failing calls and crashing nodes.  The cap alone is not       *)
(* inductive: what keeps it is that holders are members of the set, that a *)
(* newcomer is a member while it counts, and that whoever frees a slot     *)
(* frees that of a stream already past its admission.                      *)
(***************************************************************************)
EXTENDS StreamSlots, FiniteSetTheorems, TLAPS

Entering == {"new", "add", "count", "undo", "evict", "offer", "free"}
Tracked == {"spliced", "ending", "closing", "done", "crashed"}

SlotTypes ==
  /\ zset \subseteq Streams
  /\ pc \in [Streams -> PCs]
  /\ victim \in [Streams -> Streams \cup {NoStream}]
  /\ granted \in [Streams -> BOOLEAN]
  /\ released \in [Streams -> BOOLEAN]

StreamInv(d) ==
  /\ pc[d] \in Entering => ~granted[d]
  /\ pc[d] = "count" => d \in zset
  /\ pc[d] = "free" => victim[d] \in Streams /\ pc[victim[d]] \in Tracked
  /\ granted[d] /\ ~released[d] /\ pc[d] \in {"opening", "spliced", "ending", "closing"}
       => d \in zset

SlotInv == SlotTypes /\ (\A d \in Streams : StreamInv(d)) /\ CapHolds

(* Fewer holders than before, or holders within a set of at most MaxN members,
   respect the cap. *)
LEMMA FewerHolders ==
  ASSUME NEW A, NEW B, A \subseteq B, B \subseteq Streams,
         Cardinality(B) <= MaxN
  PROVE  Cardinality(A) <= MaxN
<1>1. IsFiniteSet(B)
  BY Zenon, FS_Subset, SlotsAssumption
<1>2. IsFiniteSet(A) /\ Cardinality(A) <= Cardinality(B)
  BY Zenon, <1>1, FS_Subset
<1>3. Cardinality(A) \in Nat /\ Cardinality(B) \in Nat
  BY Zenon, <1>1, <1>2, FS_CardinalityType
<1> QED BY <1>2, <1>3, SlotsAssumption

LEMMA HoldersOf ==
  ASSUME SlotTypes, \A d \in Streams : StreamInv(d)
  PROVE  Holding \subseteq zset
BY Zenon DEF Holding, StreamInv

LEMMA SlotInitial == Init => SlotInv
<1> SUFFICES ASSUME Init PROVE SlotInv
  OBVIOUS
<1>1. SlotTypes
  BY Zenon DEF Init, SlotTypes, PCs
<1>2. \A d \in Streams : StreamInv(d)
  BY Zenon DEF Init, StreamInv
<1>3. Holding = {}
  BY Zenon DEF Init, Holding
<1>4. CapHolds
  BY <1>3, FS_EmptySet, SlotsAssumption DEF CapHolds
<1> QED BY Zenon, <1>1, <1>2, <1>4 DEF SlotInv

(* Steps of a stream's handler before it is admitted. *)
LEMMA EnteringStep ==
  ASSUME SlotInv, NEW s \in Streams,
         \/ (\E n \in Nodes : Arrive(s, n)) \/ Add(s) \/ Undo(s) \/ AcquireError(s) \/ EvictLocal(s)
         \/ AskNodes(s) \/ FreeSlot(s) \/ FreeSlotError(s) \/ Refuse(s)
  PROVE  SlotTypes' /\ (\A d \in Streams : StreamInv(d)') /\ Holding' \subseteq Holding
<1> USE DEF SlotInv
<1>1. SlotTypes'
  BY DEF SlotTypes, PCs, Goto, Arrive, Add, Undo, AcquireError, EvictLocal, AskNodes,
         FreeSlot, FreeSlotError, Refuse, search, Evictable
<1>2. ASSUME NEW d \in Streams PROVE StreamInv(d)'
  BY DEF SlotTypes, PCs, StreamInv, Entering, Tracked, Goto, Arrive, Add, Undo,
         AcquireError, EvictLocal, AskNodes, FreeSlot, FreeSlotError, Refuse, search,
         Evictable
<1>3. Holding' \subseteq Holding
  BY DEF SlotTypes, PCs, StreamInv, Entering, Holding, Goto, Arrive, Add, Undo,
         AcquireError, EvictLocal, AskNodes, FreeSlot, FreeSlotError, Refuse, search
<1> QED BY Zenon, <1>1, <1>2, <1>3

(* Steps of an admitted stream, the freeing of a victim and expiry. *)
LEMMA AdmittedStep ==
  ASSUME SlotInv, NEW s \in Streams,
         \/ Opened(s) \/ Charge(s) \/ SpliceEnds(s) \/ Untrack(s) \/ Release(s)
         \/ FreeVictim(s) \/ Expire(s)
  PROVE  SlotTypes' /\ (\A d \in Streams : StreamInv(d)') /\ Holding' \subseteq Holding
<1> USE DEF SlotInv
<1>1. SlotTypes'
  <2>1. zset' \subseteq Streams /\ granted' = granted
    BY Zenon DEF SlotTypes, Opened, Charge, SpliceEnds, Untrack, Release, ReleaseSlot,
           FreeVictim, Expire
  <2>2. pc' \in [Streams -> PCs]
    BY ZenonT(30) DEF SlotTypes, PCs, Goto, Opened, Charge, SpliceEnds, Untrack, Release,
           FreeVictim, Expire
  <2>3. victim' \in [Streams -> Streams \cup {NoStream}]
    BY Zenon DEF SlotTypes, Opened, Charge, SpliceEnds, Untrack, Release, FreeVictim,
           Expire, search
  <2>4. released' \in [Streams -> BOOLEAN]
    BY Zenon DEF SlotTypes, Opened, Charge, SpliceEnds, Untrack, Release, ReleaseSlot,
           FreeVictim, Expire
  <2> QED BY Zenon, <2>1, <2>2, <2>3, <2>4 DEF SlotTypes
<1>2. ASSUME NEW d \in Streams PROVE StreamInv(d)'
  BY DEF SlotTypes, PCs, StreamInv, Entering, Tracked, Goto, Opened, Charge, SpliceEnds,
         Untrack, Release, ReleaseSlot, FreeVictim, Expire, search
<1>3. Holding' \subseteq Holding
  BY DEF SlotTypes, PCs, StreamInv, Entering, Holding, Goto, Opened, Charge, SpliceEnds,
         Untrack, Release, ReleaseSlot, FreeVictim, Expire, search
<1> QED BY Zenon, <1>1, <1>2, <1>3

(* A crash ends the node's streams and leaves their members behind. *)
LEMMA CrashStep ==
  ASSUME SlotInv, NEW n \in Nodes, Crash(n)
  PROVE  SlotTypes' /\ (\A d \in Streams : StreamInv(d)') /\ Holding' \subseteq Holding
<1> USE DEF SlotInv
<1>1. SlotTypes'
  BY Zenon DEF SlotTypes, PCs, Crash
<1>2. ASSUME NEW d \in Streams PROVE StreamInv(d)'
  BY Zenon DEF SlotTypes, PCs, StreamInv, Entering, Tracked, Crash
<1>3. Holding' \subseteq Holding
  BY Zenon DEF SlotTypes, Holding, Crash
<1> QED BY Zenon, <1>1, <1>2, <1>3

(* The one step that adds a holder. *)
LEMMA CountStep ==
  ASSUME SlotInv, NEW s \in Streams, Count(s)
  PROVE  SlotInv'
<1> USE DEF SlotInv
<1>1. SlotTypes'
  BY Zenon DEF SlotTypes, PCs, Goto, Count, search
<1>2. \A d \in Streams : StreamInv(d)'
  BY DEF SlotTypes, PCs, StreamInv, Entering, Tracked, Goto, Count, search
<1>3. CASE Cardinality(zset) <= MaxN
  <2>1. zset' = zset
    BY Zenon DEF Count
  <2>2. Holding' \subseteq zset
    BY Zenon, <1>1, <1>2, <2>1 DEF Holding, StreamInv
  <2> QED BY Zenon, <1>1, <1>2, <1>3, <2>2, FewerHolders DEF SlotTypes, CapHolds
<1>4. CASE ~(Cardinality(zset) <= MaxN)
  <2>1. Holding' \subseteq Holding
    BY <1>4 DEF SlotTypes, PCs, StreamInv, Holding, Goto, Count
  <2> QED BY Zenon, <1>1, <1>2, <2>1, FewerHolders DEF Holding, CapHolds
<1> QED BY Zenon, <1>3, <1>4

LEMMA SlotInductive == SlotInv /\ [Next]_vars => SlotInv'
<1> SUFFICES ASSUME SlotInv, [Next]_vars PROVE SlotInv'
  OBVIOUS
<1>1. ASSUME Holding' \subseteq Holding PROVE CapHolds'
  BY Zenon, <1>1, FewerHolders DEF SlotInv, CapHolds, Holding
<1>2. ASSUME NEW s \in Streams, Count(s) PROVE SlotInv'
  BY Zenon, <1>2, CountStep
<1>3. ASSUME NEW s \in Streams,
             \/ (\E n \in Nodes : Arrive(s, n)) \/ Add(s) \/ Undo(s) \/ AcquireError(s) \/ EvictLocal(s)
             \/ AskNodes(s) \/ FreeSlot(s) \/ FreeSlotError(s) \/ Refuse(s)
      PROVE  SlotInv'
  BY Zenon, <1>1, <1>3, EnteringStep DEF SlotInv
<1>4. ASSUME NEW s \in Streams,
             \/ Opened(s) \/ Charge(s) \/ SpliceEnds(s) \/ Untrack(s) \/ Release(s)
             \/ FreeVictim(s) \/ Expire(s)
      PROVE  SlotInv'
  BY Zenon, <1>1, <1>4, AdmittedStep DEF SlotInv
<1>5. ASSUME NEW n \in Nodes, Crash(n) PROVE SlotInv'
  BY Zenon, <1>1, <1>5, CrashStep DEF SlotInv
<1>6. CASE UNCHANGED vars
  BY Zenon, <1>6 DEF vars, SlotInv, SlotTypes, StreamInv, CapHolds, Holding
<1> QED BY Zenon, <1>2, <1>3, <1>4, <1>5, <1>6 DEF Next, Admission

(* Across all nodes a tunnel never has more granted, unreleased slots than
   --limit-concurrent, and every holder is still a member of conc:{name}:
   AcquireStream's add-then-count order, the evictor's release and the
   deferred one never over-admit. *)
THEOREM CapAlwaysHolds == Spec => [](CapHolds /\ HolderCounted)
<1>1. SlotInv => CapHolds /\ HolderCounted
  BY Zenon, HoldersOf DEF SlotInv, HolderCounted
<1> QED BY <1>1, SlotInitial, SlotInductive, PTL DEF Spec

Member == {"count", "undo", "opening", "spliced", "ending", "closing", "crashed"}

(* While no call has failed: who may be a member, and that a released slot
   is gone for good. *)
ReturnInv ==
  /\ faults \in Nat /\ faults <= MaxFaults
  /\ \A d \in Streams :
       /\ pc[d] \in Entering \cup {"opening", "refused"} => ~released[d]
       /\ faults = MaxFaults /\ d \in zset => pc[d] \in Member /\ ~released[d]

LEMMA ReturnInductive == SlotInv /\ ReturnInv /\ [Next]_vars => ReturnInv'
<1> SUFFICES ASSUME SlotInv, ReturnInv, [Next]_vars PROVE ReturnInv'
  OBVIOUS
<1> USE SlotsAssumption DEF SlotInv, SlotTypes, PCs, ReturnInv, Entering, Member, Goto, Fault
<1>1. ASSUME NEW s \in Streams,
             \/ (\E n \in Nodes : Arrive(s, n)) \/ Add(s) \/ Count(s) \/ EvictLocal(s)
             \/ AskNodes(s) \/ FreeSlot(s) \/ Refuse(s)
      PROVE  ReturnInv'
  BY <1>1 DEF Arrive, Add, Count, EvictLocal, AskNodes, FreeSlot, Refuse, search
<1>2. ASSUME NEW s \in Streams, Undo(s) \/ AcquireError(s) \/ FreeSlotError(s)
      PROVE  ReturnInv'
  BY <1>2 DEF Undo, AcquireError, FreeSlotError, search
<1>3. ASSUME NEW s \in Streams, Opened(s) \/ Charge(s) \/ SpliceEnds(s) \/ Untrack(s) \/ Expire(s)
      PROVE  ReturnInv'
  BY <1>3 DEF Opened, Charge, SpliceEnds, Untrack, Expire, search
<1>4. ASSUME NEW s \in Streams, Release(s) PROVE ReturnInv'
  BY <1>4 DEF Release, ReleaseSlot, search
<1>5. ASSUME NEW s \in Streams, FreeVictim(s) PROVE ReturnInv'
  <2>1. victim[s] \in Streams /\ pc[victim[s]] \in Tracked
    BY Zenon, <1>5 DEF FreeVictim, StreamInv
  <2> QED BY <1>5, <2>1 DEF FreeVictim, ReleaseSlot, Tracked
<1>6. ASSUME NEW n \in Nodes, Crash(n) PROVE ReturnInv'
  BY Zenon, <1>6 DEF Crash
<1>7. CASE UNCHANGED vars
  BY Zenon, <1>7 DEF vars
<1> QED BY Zenon, <1>1, <1>2, <1>3, <1>4, <1>5, <1>6, <1>7 DEF Next, Admission

(* As long as no call has failed, a refused newcomer and a stream that ended
   leave no member of conc:{name} behind, whoever of the handler and its
   evictor released the slot and whatever was charged in between. *)
THEOREM SlotsComeBack == Spec => []SlotReturned
<1>1. Init => ReturnInv
  BY SlotsAssumption DEF Init, ReturnInv, Entering, Member
<1>2. ReturnInv => SlotReturned
  BY Zenon DEF ReturnInv, SlotReturned, Member
<1> QED BY <1>1, <1>2, SlotInitial, SlotInductive, ReturnInductive, PTL DEF Spec
=============================================================================
