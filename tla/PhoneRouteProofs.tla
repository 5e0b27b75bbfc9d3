-------------------------- MODULE PhoneRouteProofs --------------------------
(***************************************************************************)
(* For any number of nodes and connections and whatever fails or crashes.  *)
(* Five invariants, each inductive given the ones before it:               *)
(*                                                                         *)
(*   Typed    the types; a connection that arrived has a node and an id;   *)
(*   MapInv   the stripe mutex, the map and CloseAll: the handler between  *)
(*            its bind and its insert holds the mutex, an open connection  *)
(*            is in its node's map, and CloseAll has it or register will;  *)
(*   OwnerInv the order of a node's binds is that of its map inserts;      *)
(*   LockInv  the locked sections exclude each other, so what a section    *)
(*            has read is still true when it writes;                       *)
(*   PhaseInv a heartbeat runs within its connection's handler.            *)
(*                                                                         *)
(* LockInv needs the lock to outlive its sections, OwnerInv and PhaseInv   *)
(* that connIDs do not collide, the refinement of RouteOwner both; the     *)
(* rest neither.                                                           *)
(***************************************************************************)
EXTENDS PhoneRoute, TLAPS

(* A connection that has arrived has a node and a connID. *)
Identified(c) == IF hpc[c] = "new" THEN home[c] = NoNode
                                   ELSE /\ home[c] \in Nodes /\ cid[c] \in Conns
                                        /\ DistinctIds => cid[c] = c

Typed == TypeOK /\ \A c \in Conns : Identified(c)

-----------------------------------------------------------------------------
(* The processes of two connections are distinct and none is NoProc. *)
LEMMA PairFacts ==
  ASSUME NEW c \in Conns, NEW d \in Conns
  PROVE  /\ <<c, "h">> \in Procs /\ <<c, "b">> \in Procs
         /\ <<d, "h">> \in Procs /\ <<d, "b">> \in Procs
         /\ <<d, "h">> # NoProc /\ <<d, "b">> # NoProc /\ d # NoConn
         /\ <<c, "h">> # <<d, "b">> /\ <<d, "h">> # <<c, "b">>
         /\ c # d => <<c, "h">> # <<d, "h">> /\ <<c, "b">> # <<d, "b">>
BY ConstantsAssumption DEF Procs

(* A fault uses up one of those left. *)
LEMMA FaultSpent ==
  ASSUME faults \in 0..MaxFaults, faults > 0, faults' = faults - 1
  PROVE  faults' \in 0..MaxFaults
BY ConstantsAssumption

(* Every step of a connection's handler or heartbeat loop, every failure and
   every close keeps the types. *)
LEMMA ConnStepTypes ==
  ASSUME Typed, NEW c \in Conns,
         Handler(c) \/ Heartbeat(c) \/ Fault(c) \/ CloseConn(c) \/ TeardownStart(c)
  PROVE  Typed'
<1> USE DEF valkey, key, ids, manager
<1>a. TypeOK /\ Identified(c)
  BY Zenon DEF Typed
<1>1. ASSUME LockStripe(c) PROVE TypeOK'
  BY Zenon, <1>a, <1>1
  DEF LockStripe, TypeOK, HandlerPCs, HeartbeatPCs
<1>2. ASSUME BindAcquire(c) PROVE TypeOK'
  BY Zenon, <1>a, <1>2, PairFacts
  DEF BindAcquire, AcquireAndRead, TypeOK, HandlerPCs, HeartbeatPCs
<1>3. ASSUME BindWrite(c) PROVE TypeOK'
  BY Zenon, <1>a, <1>3
  DEF BindWrite, BindHSet, EndSection, TypeOK, HandlerPCs, HeartbeatPCs
<1>4. ASSUME BindCollides(c) PROVE TypeOK'
  <2>1. /\ rel' \in [Procs -> {"no", "get", "del"}]
        /\ seen' \in [Procs -> Conns \cup {NoConn}]
    BY Zenon, <1>a, <1>4 DEF BindCollides, EndSection, TypeOK
  <2>2. /\ attempt' \in [Conns -> 0..2]
        /\ cid' \in [Conns -> Conns \cup {NoConn}]
        /\ hpc' \in [Conns -> HandlerPCs]
    BY <1>a, <1>4 DEF BindCollides, Minted, TypeOK, HandlerPCs
  <2>3. QED
    BY Zenon, <1>a, <1>4, <2>1, <2>2 DEF BindCollides, TypeOK
<1>5. ASSUME Refuse503(c) PROVE TypeOK'
  BY Zenon, <1>a, <1>5
  DEF Refuse503, TypeOK, HandlerPCs, HeartbeatPCs
<1>6. ASSUME Insert(c) PROVE TypeOK'
  BY Zenon, <1>a, <1>6
  DEF Insert, TypeOK, Identified, HandlerPCs, HeartbeatPCs
<1>7. ASSUME Registered(c) PROVE TypeOK'
  BY Zenon, <1>a, <1>7
  DEF Registered, TypeOK, HandlerPCs, HeartbeatPCs
<1>8. ASSUME TeardownRemove(c) PROVE TypeOK'
  BY Zenon, <1>a, <1>8
  DEF TeardownRemove, RemoveFromMap, HbDone, TypeOK, HandlerPCs, HeartbeatPCs
<1>9. ASSUME UnbindAcquire(c) PROVE TypeOK'
  BY Zenon, <1>a, <1>9, PairFacts
  DEF UnbindAcquire, AcquireAndRead, TypeOK, HandlerPCs, HeartbeatPCs
<1>10. ASSUME UnbindDel(c) PROVE TypeOK'
  BY Zenon, <1>a, <1>10
  DEF UnbindDel, KeyGone, EndSection, TypeOK, HandlerPCs, HeartbeatPCs
<1>11. ASSUME Finish(c) PROVE TypeOK'
  BY Zenon, <1>a, <1>11
  DEF Finish, TypeOK, HandlerPCs, HeartbeatPCs
<1>12. ASSUME HeartbeatRead(c) PROVE TypeOK'
  BY <1>a, <1>12, ZenonT(60)
  DEF HeartbeatRead, TypeOK, HandlerPCs, HeartbeatPCs
<1>13. ASSUME HeartbeatRefresh(c) PROVE TypeOK'
  BY Zenon, <1>a, <1>13
  DEF HeartbeatRefresh, TypeOK, HandlerPCs, HeartbeatPCs
<1>14. ASSUME HealAcquire(c) PROVE TypeOK'
  BY Zenon, <1>a, <1>14, PairFacts
  DEF HealAcquire, AcquireAndRead, TypeOK, HandlerPCs, HeartbeatPCs
<1>15. ASSUME HealWrite(c) PROVE TypeOK'
  BY ZenonT(30), <1>a, <1>15, PairFacts
  DEF HealWrite, BindHSet, EndSection, TypeOK, Identified, HandlerPCs, HeartbeatPCs
<1>16. ASSUME HeartbeatExit(c) PROVE TypeOK'
  <2>1. /\ rel' \in [Procs -> {"no", "get", "del"}]
        /\ seen' \in [Procs -> Conns \cup {NoConn}]
    BY ZenonT(30), <1>a, <1>16 DEF HeartbeatExit, EndSection, TypeOK
  <2>2. bpc' \in [Conns -> HeartbeatPCs]
    BY Zenon, <1>a, <1>16 DEF HeartbeatExit, TypeOK, HeartbeatPCs
  <2>3. QED
    BY Zenon, <1>a, <1>16, <2>1, <2>2 DEF HeartbeatExit, TypeOK
<1>17. ASSUME BindFails(c) PROVE TypeOK'
  <2>1. /\ rel' \in [Procs -> {"no", "get", "del"}]
        /\ seen' \in [Procs -> Conns \cup {NoConn}]
    BY Zenon, <1>a, <1>17 DEF BindFails, AcquireFails, EndSection, TypeOK
  <2>2. faults' \in 0..MaxFaults
    BY Zenon, <1>a, <1>17, FaultSpent DEF BindFails, AcquireFails, TypeOK
  <2>3. hpc' \in [Conns -> HandlerPCs]
    BY Zenon, <1>a, <1>17 DEF BindFails, AcquireFails, TypeOK, HandlerPCs
  <2>4. route' \in Conns \cup {NoConn} /\ bytesOnly' \in BOOLEAN /\ viaHeal' \in BOOLEAN
    <3>1. CASE UNCHANGED key
      BY Zenon, <3>1, <1>a DEF TypeOK
    <3>2. CASE BindHSet(c, FALSE)
      BY Zenon, <3>2, <1>a DEF BindHSet, TypeOK
    <3> QED BY Zenon, <3>1, <3>2, <1>17 DEF BindFails
  <2>5. lock' \in Procs \cup {NoProc}
    BY Zenon, <1>a, <1>17, PairFacts DEF BindFails, AcquireFails, TypeOK
  <2>6. QED
    BY Zenon, <1>a, <1>17, <2>1, <2>2, <2>3, <2>4, <2>5 DEF BindFails, AcquireFails, TypeOK
<1>18. ASSUME Abandon(c) PROVE TypeOK'
  <2>1. faults' \in 0..MaxFaults
    BY Zenon, <1>a, <1>18, FaultSpent DEF Abandon, TypeOK
  <2>2. QED
    BY Zenon, <1>a, <1>18, <2>1
    DEF Abandon, RemoveFromMap, TypeOK, HandlerPCs, HeartbeatPCs
<1>19. ASSUME UnbindFails(c) PROVE TypeOK'
  <2>1. faults' \in 0..MaxFaults
    BY Zenon, <1>a, <1>19, FaultSpent DEF UnbindFails, AcquireFails, TypeOK
  <2>2. lock' \in Procs \cup {NoProc}
    BY Zenon, <1>a, <1>19, PairFacts DEF UnbindFails, AcquireFails, TypeOK
  <2>3. /\ rel' \in [Procs -> {"no", "get", "del"}]
        /\ seen' \in [Procs -> Conns \cup {NoConn}]
    BY Zenon, <1>a, <1>19 DEF UnbindFails, AcquireFails, EndSection, TypeOK
  <2>4. QED
    BY Zenon, <1>a, <1>19, <2>1, <2>2, <2>3
    DEF UnbindFails, TypeOK, HandlerPCs, HeartbeatPCs
<1>20. ASSUME HeartbeatFails(c) PROVE TypeOK'
  <2>1. /\ rel' \in [Procs -> {"no", "get", "del"}]
        /\ seen' \in [Procs -> Conns \cup {NoConn}]
    BY Zenon, <1>a, <1>20 DEF HeartbeatFails, AcquireFails, EndSection, TypeOK
  <2>2. faults' \in 0..MaxFaults /\ bpc' \in [Conns -> HeartbeatPCs]
    BY Zenon, <1>a, <1>20, FaultSpent DEF HeartbeatFails, AcquireFails, TypeOK, HeartbeatPCs
  <2>3. lock' \in Procs \cup {NoProc}
    BY Zenon, <1>a, <1>20, PairFacts DEF HeartbeatFails, AcquireFails, TypeOK
  <2>4. QED
    BY Zenon, <1>a, <1>20, <2>1, <2>2, <2>3 DEF HeartbeatFails, TypeOK
<1>21. ASSUME CloseConn(c) PROVE TypeOK'
  BY Zenon, <1>a, <1>21
  DEF CloseConn, OpenConn, TypeOK, HandlerPCs, HeartbeatPCs
<1>22. ASSUME TeardownStart(c) PROVE TypeOK'
  BY Zenon, <1>a, <1>22
  DEF TeardownStart, TypeOK, HandlerPCs, HeartbeatPCs
<1>23. TypeOK'
  BY Zenon, <1>1, <1>2, <1>3, <1>4, <1>5, <1>6, <1>7, <1>8, <1>9, <1>10, <1>11, <1>12, <1>13, <1>14,
     <1>15, <1>16, <1>17, <1>18, <1>19, <1>20, <1>21, <1>22
  DEF Handler, Heartbeat, Fault
<1>24. ASSUME NEW d \in Conns PROVE Identified(d)'
  <2>1. Identified(d) /\ hpc \in [Conns -> HandlerPCs] /\ cid \in [Conns -> Conns \cup {NoConn}]
    BY Zenon DEF Typed, TypeOK
  <2>2. CASE BindCollides(c)
    BY <2>1, <2>2 DEF BindCollides, Minted, Identified
  <2>3. CASE ~BindCollides(c)
    <3>1. /\ home' = home /\ cid' = cid
          /\ d # c => hpc'[d] = hpc[d]
          /\ (hpc[c] # "new" /\ hpc'[c] # "new") \/ hpc'[c] = hpc[c]
      BY Zenon, <2>1, <2>3 DEF LockStripe, BindAcquire, BindWrite, BindCollides, Refuse503, Insert,
         Registered, TeardownRemove, UnbindAcquire, UnbindDel, Finish, HeartbeatRead,
         HeartbeatRefresh, HealAcquire, HealWrite, HeartbeatExit, BindFails, Abandon,
         UnbindFails, HeartbeatFails, CloseConn, TeardownStart,
         Handler, Heartbeat, Fault
    <3> QED BY Zenon, <2>1, <3>1 DEF Identified
  <2> QED BY Zenon, <2>2, <2>3
<1> QED BY Zenon, <1>23, <1>24 DEF Typed

(* An arrival, the release of the lock and the steps of Valkey and of a whole
   node keep the types. *)
LEMMA OtherStepTypes ==
  ASSUME Typed,
         \/ RouteExpires \/ LockExpires \/ AddTraffic
         \/ \E c \in Conns, n \in Nodes : Arrive(c, n)
         \/ \E p \in Procs : Release(p) \/ ReleaseFails(p)
         \/ \E n \in Nodes : \/ CloseAllBegin(n) \/ CloseAllVictim(n)
                             \/ StartDrain(n) \/ Crash(n)
  PROVE  Typed'
<1> USE DEF valkey, key, ids, manager
<1>a. TypeOK
  BY Zenon DEF Typed
<1>1. CASE RouteExpires
  <2>1. outages' \in 0..MaxOutages
    BY <1>a, <1>1, ConstantsAssumption DEF RouteExpires, TypeOK
  <2>2. TypeOK'
    BY Zenon, <1>a, <1>1, <2>1 DEF RouteExpires, KeyGone, TypeOK
  <2> QED BY Zenon, <1>1, <2>2 DEF RouteExpires, Typed, Identified
<1>2. CASE LockExpires
  <2>1. TypeOK'
    BY Zenon, <1>a, <1>2, FaultSpent DEF LockExpires, TypeOK
  <2> QED BY Zenon, <1>2, <2>1 DEF LockExpires, Typed, Identified
<1>3. CASE AddTraffic
  BY Zenon, <1>a, <1>3 DEF AddTraffic, TypeOK, Typed, Identified
<1>4. ASSUME NEW c \in Conns, NEW n \in Nodes, Arrive(c, n) PROVE Typed'
  <2>1. TypeOK'
    BY <1>a, <1>4 DEF Arrive, Minted, TypeOK, HandlerPCs
  <2>2. ASSUME NEW d \in Conns PROVE Identified(d)'
    BY <1>a, <1>4 DEF Arrive, Minted, TypeOK, Typed, Identified
  <2> QED BY Zenon, <2>1, <2>2 DEF Typed
<1>5. ASSUME NEW p \in Procs, Release(p) \/ ReleaseFails(p) PROVE Typed'
  <2>1. TypeOK'
    BY <1>a, <1>5, FaultSpent DEF Release, ReleaseGet, ReleaseDel, ReleaseFails, TypeOK
  <2> QED BY ZenonT(30), <1>5, <2>1
       DEF Release, ReleaseGet, ReleaseDel, ReleaseFails, Typed, Identified
<1>6. ASSUME NEW n \in Nodes, CloseAllBegin(n) \/ CloseAllVictim(n) \/ StartDrain(n)
      PROVE Typed'
  <2>1. TypeOK'
    BY <1>a, <1>6, ZenonT(60) DEF CloseAllBegin, CloseAllVictim, StartDrain, TypeOK
  <2> QED BY Zenon, <1>6, <2>1 DEF CloseAllBegin, CloseAllVictim, StartDrain, Typed, Identified
<1>7. ASSUME NEW n \in Nodes, Crash(n) PROVE Typed'
  <2>1. TypeOK'
    BY Zenon, <1>a, <1>7 DEF Crash, TypeOK, HandlerPCs, HeartbeatPCs
  <2>2. ASSUME NEW d \in Conns PROVE Identified(d)'
    <3>1. hpc'[d] = (IF home[d] = n THEN "done" ELSE hpc[d]) /\ home' = home /\ cid' = cid
      BY Zenon, <1>7 DEF Crash
    <3> QED BY Zenon, <3>1, ConstantsAssumption DEF Typed, Identified
  <2> QED BY Zenon, <2>1, <2>2 DEF Typed
<1> QED BY Zenon, <1>1, <1>2, <1>3, <1>4, <1>5, <1>6, <1>7

LEMMA TypedAlways == Spec => []Typed
<1>1. ASSUME Init PROVE Typed
  <2> USE <1>1
  <2>1. faults \in 0..MaxFaults /\ outages \in 0..MaxOutages
    BY ConstantsAssumption DEF Init
  <2>2. /\ hpc \in [Conns -> HandlerPCs] /\ bpc \in [Conns -> HeartbeatPCs]
        /\ rel \in [Procs -> {"no", "get", "del"}] /\ attempt \in [Conns -> 0..2]
    BY DEF Init, HandlerPCs, HeartbeatPCs
  <2>3. /\ route \in Conns \cup {NoConn} /\ lock \in Procs \cup {NoProc}
        /\ home \in [Conns -> Nodes \cup {NoNode}]
        /\ cid \in [Conns -> Conns \cup {NoConn}]
        /\ seen \in [Procs -> Conns \cup {NoConn}]
    BY Zenon DEF Init
  <2>4. /\ conns \in [Nodes -> Conns \cup {NoConn}]
        /\ bindMu \in [Nodes -> Conns \cup {NoConn}]
        /\ victim \in [Nodes -> Conns \cup {NoConn}]
    BY Zenon DEF Init
  <2>5. /\ closed \in [Conns -> BOOLEAN] /\ late \in [Conns -> BOOLEAN]
        /\ closeAll \in [Nodes -> BOOLEAN] /\ draining \in [Nodes -> BOOLEAN]
        /\ up \in [Nodes -> BOOLEAN]
    BY Zenon DEF Init
  <2>6. bytesOnly \in BOOLEAN /\ viaHeal \in BOOLEAN
    BY Zenon DEF Init
  <2>7. \A c \in Conns : Identified(c)
    BY Zenon DEF Init, Identified
  <2> QED BY Zenon, <2>1, <2>2, <2>3, <2>4, <2>5, <2>6, <2>7 DEF TypeOK, Typed
<1>2. Typed /\ Next => Typed'
  BY Zenon, ConnStepTypes, OtherStepTypes DEF Next
<1>3. Typed /\ UNCHANGED vars => Typed'
  BY Zenon DEF vars, valkey, key, ids, manager, Typed, TypeOK, Identified
<1> QED BY <1>1, <1>2, <1>3, PTL DEF Spec

-----------------------------------------------------------------------------
RouteTypes ==
  /\ route \in Conns \cup {NoConn}
  /\ hpc \in [Conns -> HandlerPCs] /\ bpc \in [Conns -> HeartbeatPCs]

(* What a connection does, its handler, its heartbeat and its end, moves no
   other connection's program counters and no connection's node. *)
ConnStep(c) == Handler(c) \/ Heartbeat(c) \/ Fault(c) \/ CloseConn(c) \/ TeardownStart(c)

LEMMA OthersStay ==
  ASSUME RouteTypes, NEW c \in Conns, ConnStep(c)
  PROVE  /\ \A d \in Conns : d # c => hpc'[d] = hpc[d] /\ bpc'[d] = bpc[d]
         /\ home' = home /\ outages' = outages
<1> USE DEF valkey, key, ids, manager
<1>1. CASE LockStripe(c) \/ BindAcquire(c) \/ BindWrite(c) \/ BindCollides(c) \/ Refuse503(c)
  BY Zenon, <1>1 DEF RouteTypes, LockStripe, BindAcquire, BindWrite, BindCollides, Refuse503
<1>2. CASE \/ Insert(c) \/ Registered(c) \/ TeardownRemove(c) \/ UnbindAcquire(c)
           \/ UnbindDel(c) \/ Finish(c)
  BY Zenon, <1>2 DEF RouteTypes, Insert, Registered, TeardownRemove, UnbindAcquire, UnbindDel,
     Finish
<1>3. CASE Heartbeat(c)
  BY Zenon, <1>3 DEF RouteTypes, Heartbeat, HeartbeatRead, HeartbeatRefresh, HealAcquire,
     HealWrite, HeartbeatExit
<1>4. CASE Fault(c)
  BY Zenon, <1>4 DEF RouteTypes, Fault, BindFails, Abandon, UnbindFails, HeartbeatFails
<1>5. CASE CloseConn(c) \/ TeardownStart(c)
  BY Zenon, <1>5 DEF RouteTypes, CloseConn, TeardownStart
<1> QED BY Zenon, <1>1, <1>2, <1>3, <1>4, <1>5 DEF ConnStep, Handler

-----------------------------------------------------------------------------
(* The map.  A handler from its bind to its return from register holds its
   node's stripe mutex; the map names connections that are registered and not
   yet removed; an open one is in the map; and once CloseAll has run, one that
   is still open is the connection CloseAll is about to close or one that
   register will. *)
MapTypes ==
  /\ home \in [Conns -> Nodes \cup {NoNode}] /\ hpc \in [Conns -> HandlerPCs]
  /\ closed \in [Conns -> BOOLEAN] /\ late \in [Conns -> BOOLEAN]
  /\ conns \in [Nodes -> Conns \cup {NoConn}] /\ bindMu \in [Nodes -> Conns \cup {NoConn}]
  /\ victim \in [Nodes -> Conns \cup {NoConn}] /\ closeAll \in [Nodes -> BOOLEAN]

MapConn(c) ==
  /\ hpc[c] \in {"bind", "bindHeld", "insert", "late", "failed"} => bindMu[home[c]] = c
  /\ hpc[c] = "late" => conns[home[c]] = c
  /\ hpc[c] = "run" /\ ~closed[c] => conns[home[c]] = c
  /\ hpc[c] \in {"tdWait", "unbind", "unbindHeld"} => closed[c]
  /\ hpc[c] \in {"late", "run"} /\ ~closed[c] /\ closeAll[home[c]] =>
       victim[home[c]] = c \/ (hpc[c] = "late" /\ late[c])

MapInv ==
  /\ \A c \in Conns : MapConn(c)
  /\ \A n \in Nodes, c \in Conns : conns[n] = c =>
       home[c] = n /\ hpc[c] \in {"late", "run", "tdWait"}

mapVars == <<home, hpc, closed, conns, bindMu, late, closeAll, victim>>

(* Steps that move one handler inside the map's categories and nothing else. *)
LEMMA MapBindSteps ==
  ASSUME Typed, MapInv, NEW c \in Conns,
         \/ BindAcquire(c) \/ BindWrite(c) \/ BindCollides(c) \/ BindFails(c)
         \/ UnbindAcquire(c) \/ UnbindDel(c) \/ UnbindFails(c) \/ UNCHANGED mapVars
  PROVE  MapInv'
<1> USE DEF valkey, key, ids, manager
<1>1. UNCHANGED <<home, closed, conns, bindMu, late, closeAll, victim>>
  BY Zenon DEF BindAcquire, BindWrite, BindCollides, BindFails, UnbindAcquire, UnbindDel,
         UnbindFails, mapVars
<1>2. hpc \in [Conns -> HandlerPCs]
  BY Zenon DEF Typed, TypeOK
<1>3. /\ \A d \in Conns \ {c} : hpc'[d] = hpc[d]
      /\ \/ hpc'[c] = hpc[c]
         \/ hpc[c] \in {"bind", "bindHeld"} /\ hpc'[c] \in {"bind", "bindHeld", "insert", "failed"}
         \/ hpc[c] \in {"unbind", "unbindHeld"} /\ hpc'[c] \in {"unbindHeld", "finish"}
  BY ZenonT(30), <1>2 DEF BindAcquire, BindWrite, BindCollides, BindFails, UnbindAcquire, UnbindDel,
              UnbindFails, mapVars
<1>4. ASSUME NEW d \in Conns PROVE MapConn(d)'
  <2>1. MapConn(d)
    BY Zenon DEF MapInv
  <2>2. CASE hpc'[d] = hpc[d]
    BY Zenon, <1>1, <2>1, <2>2 DEF MapConn
  <2>3. CASE hpc'[d] # hpc[d]
    BY Zenon, <1>1, <1>3, <2>1, <2>3 DEF MapConn
  <2> QED BY Zenon, <2>2, <2>3
<1>5. ASSUME NEW n \in Nodes, NEW d \in Conns, conns'[n] = d
      PROVE  home'[d] = n /\ hpc'[d] \in {"late", "run", "tdWait"}
  BY <1>1, <1>3, <1>5 DEF MapInv
<1> QED BY Zenon, <1>4, <1>5 DEF MapInv

(* The registration of a connection. *)
LEMMA MapRegisterSteps ==
  ASSUME Typed, MapInv, NEW c \in Conns,
         LockStripe(c) \/ Refuse503(c) \/ Insert(c) \/ Registered(c) \/ Abandon(c)
  PROVE  MapInv'
<1> USE DEF valkey, key, ids, manager
<1>a. MapTypes /\ MapConn(c) /\ Identified(c) /\ c # NoConn
  BY ConstantsAssumption DEF Typed, TypeOK, MapTypes, MapInv
<1>b. hpc[c] # "new" /\ home[c] \in Nodes /\ UNCHANGED <<home, closeAll, victim>>
  BY Zenon, <1>a DEF LockStripe, Refuse503, Insert, Registered, Abandon, Identified
<1>c. \A d \in Conns \ {c} : hpc'[d] = hpc[d]
  BY Zenon, <1>a DEF LockStripe, Refuse503, Insert, Registered, Abandon, MapTypes
<1>1. ASSUME NEW d \in Conns PROVE MapConn(d)'
  <2>1. MapConn(d) /\ Identified(d)
    BY ZenonT(30) DEF MapInv, Typed
  <2>2. CASE LockStripe(c)
    BY <1>a, <1>b, <2>1, <2>2, ConstantsAssumption DEF LockStripe, MapConn, Identified, MapTypes
  <2>3. CASE Refuse503(c)
    BY <1>a, <1>b, <2>1, <2>3 DEF Refuse503, MapConn, Identified, MapTypes
  <2>4. CASE Insert(c)
    <3>1. /\ closed'[d] <=> (closed[d] \/ d = conns[home[c]])
          /\ conns'[home[c]] = c /\ \A n \in Nodes \ {home[c]} : conns'[n] = conns[n]
          /\ bindMu' = bindMu /\ hpc'[c] = "late" /\ hpc[c] = "insert"
      BY Zenon, <1>a, <1>b, <2>4 DEF Insert, MapTypes
    <3>2. late'[c] <=> closeAll[home[c]]
      BY Zenon, <1>a, <1>b, <2>4 DEF Insert, MapTypes
    <3>3. d # c => (late'[d] <=> late[d])
      BY Zenon, <1>a, <1>b, <2>4 DEF Insert, MapTypes
    <3>4. CASE d = c
      BY Zenon, <1>a, <1>b, <3>1, <3>2, <3>4 DEF MapConn
    <3>5. CASE d # c
      <4>1. hpc'[d] = hpc[d] /\ home'[d] = home[d] /\ closeAll' = closeAll /\ victim' = victim
        BY Zenon, <1>b, <1>c, <3>5
      <4>2. CASE home[d] # home[c]
        <5>1. hpc[d] # "new" => conns'[home[d]] = conns[home[d]]
          BY Zenon, <2>1, <3>1, <4>2 DEF Identified
        <5> QED BY Zenon, <2>1, <3>1, <3>3, <3>5, <4>1, <5>1 DEF MapConn
      <4>3. CASE home[d] = home[c]
        <5>1. bindMu[home[c]] = c
          BY Zenon, <1>a, <3>1 DEF MapConn
        <5>2. hpc[d] \notin {"bind", "bindHeld", "insert", "late", "failed"}
          BY Zenon, <2>1, <3>5, <4>3, <5>1 DEF MapConn
        <5> QED BY Zenon, <2>1, <3>1, <4>1, <4>3, <5>2 DEF MapConn
      <4> QED BY Zenon, <4>2, <4>3
    <3> QED BY Zenon, <3>4, <3>5
  <2>5. CASE Registered(c)
    BY <1>a, <1>b, <2>1, <2>5 DEF Registered, MapConn, Identified, MapTypes
  <2>6. CASE Abandon(c)
    BY <1>a, <1>b, <2>1, <2>6 DEF Abandon, RemoveFromMap, MapConn, Identified, MapTypes
  <2> QED BY Zenon, <2>2, <2>3, <2>4, <2>5, <2>6
<1>2. ASSUME NEW n \in Nodes, NEW d \in Conns, conns'[n] = d
      PROVE  home'[d] = n /\ hpc'[d] \in {"late", "run", "tdWait"}
  <2>1. conns[n] = d => home[d] = n /\ hpc[d] \in {"late", "run", "tdWait"}
    BY Zenon DEF MapInv
  <2>2. CASE LockStripe(c) \/ Refuse503(c)
    <3>1. conns' = conns /\ hpc[c] \in {"stripe", "failed"}
      BY Zenon, <2>2 DEF LockStripe, Refuse503
    <3> QED BY Zenon, <1>b, <1>c, <1>2, <2>1, <3>1
  <2>3. CASE Insert(c)
    <3>1. conns'[n] = (IF n = home[c] THEN c ELSE conns[n]) /\ hpc'[c] = "late" /\ hpc[c] = "insert"
      BY Zenon, <1>a, <1>b, <2>3 DEF Insert, MapTypes
    <3> QED BY Zenon, <1>b, <1>c, <1>2, <2>1, <3>1
  <2>4. CASE Registered(c)
    <3>1. conns' = conns /\ hpc'[c] = "run"
      BY Zenon, <1>a, <2>4 DEF Registered, MapTypes
    <3> QED BY Zenon, <1>b, <1>c, <1>2, <2>1, <3>1
  <2>5. CASE Abandon(c)
    <3>1. conns'[n] = (IF n = home[c] /\ conns[n] = c THEN NoConn ELSE conns[n])
      BY Zenon, <1>a, <1>b, <2>5 DEF Abandon, RemoveFromMap, MapTypes
    <3> QED BY Zenon, <1>b, <1>c, <1>2, <2>1, <3>1, ConstantsAssumption
  <2> QED BY Zenon, <2>2, <2>3, <2>4, <2>5
<1> QED BY Zenon, <1>1, <1>2 DEF MapInv

(* Its end. *)
LEMMA MapLeaveSteps ==
  ASSUME Typed, MapInv, NEW c \in Conns,
         CloseConn(c) \/ TeardownStart(c) \/ TeardownRemove(c) \/ Finish(c) \/ HeartbeatRead(c)
  PROVE  MapInv'
<1> USE DEF valkey, key, ids, manager
<1>a. MapTypes /\ MapConn(c) /\ Identified(c) /\ c # NoConn
  BY ZenonT(30), ConstantsAssumption DEF Typed, TypeOK, MapTypes, MapInv
<1>b. UNCHANGED <<home, closeAll, victim, late>>
  BY ZenonT(30) DEF CloseConn, TeardownStart, TeardownRemove, Finish, HeartbeatRead
<1>c. /\ \A d \in Conns \ {c} : hpc'[d] = hpc[d]
      /\ \/ hpc'[c] = hpc[c] \/ (hpc[c] = "run" /\ hpc'[c] = "tdWait")
         \/ (hpc[c] = "tdWait" /\ hpc'[c] = "unbind") \/ (hpc[c] = "finish" /\ hpc'[c] = "done")
  BY Zenon, <1>a DEF CloseConn, TeardownStart, TeardownRemove, Finish, HeartbeatRead, MapTypes
<1>d. closed' \in [Conns -> BOOLEAN] /\ \A d \in Conns : closed[d] => closed'[d]
  BY ZenonT(30), <1>a DEF CloseConn, TeardownStart, TeardownRemove, Finish, HeartbeatRead, MapTypes
<1>1. ASSUME NEW d \in Conns PROVE MapConn(d)'
  <2>1. MapConn(d) /\ Identified(d)
    BY Zenon DEF MapInv, Typed
  <2>2. CASE CloseConn(c) \/ HeartbeatRead(c)
    <3>1. UNCHANGED <<hpc, conns, bindMu>>
      BY Zenon, <2>2 DEF CloseConn, HeartbeatRead
    <3> QED BY Zenon, <1>b, <1>d, <2>1, <3>1 DEF MapConn
  <2>3. CASE TeardownStart(c)
    BY Zenon, <1>a, <1>b, <2>1, <2>3 DEF TeardownStart, MapConn, MapTypes
  <2>4. CASE TeardownRemove(c)
    BY <1>a, <1>b, <2>1, <2>4 DEF TeardownRemove, RemoveFromMap, MapConn, Identified, MapTypes
  <2>5. CASE Finish(c)
    BY <1>a, <1>b, <2>1, <2>5 DEF Finish, MapConn, Identified, MapTypes
  <2> QED BY Zenon, <2>2, <2>3, <2>4, <2>5
<1>2. ASSUME NEW n \in Nodes, NEW d \in Conns, conns'[n] = d
      PROVE  home'[d] = n /\ hpc'[d] \in {"late", "run", "tdWait"}
  <2>1. conns[n] = d => home[d] = n /\ hpc[d] \in {"late", "run", "tdWait"}
    BY Zenon DEF MapInv
  <2>2. CASE TeardownRemove(c)
    <3>1. home[c] \in Nodes
      BY Zenon, <1>a, <2>2 DEF TeardownRemove, Identified
    <3>2. conns'[n] = (IF n = home[c] /\ conns[n] = c THEN NoConn ELSE conns[n])
      BY Zenon, <1>a, <2>2, <3>1 DEF TeardownRemove, RemoveFromMap, MapTypes
    <3> QED BY Zenon, <1>b, <1>c, <1>2, <2>1, <3>2, ConstantsAssumption
  <2>3. CASE CloseConn(c) \/ TeardownStart(c) \/ Finish(c) \/ HeartbeatRead(c)
    <3>1. conns' = conns /\ (hpc'[c] = hpc[c] \/ hpc'[c] = "tdWait" \/ hpc[c] = "finish")
      BY Zenon, <1>a, <2>3 DEF CloseConn, TeardownStart, Finish, HeartbeatRead, MapTypes
    <3> QED BY ZenonT(30), <1>b, <1>c, <1>2, <2>1, <3>1
  <2> QED BY ZenonT(30), <2>2, <2>3
<1> QED BY Zenon, <1>1, <1>2 DEF MapInv

(* Arrivals, CloseAll and a crash. *)
LEMMA MapNodeSteps ==
  ASSUME Typed, MapInv,
         \/ \E c \in Conns, n \in Nodes : Arrive(c, n)
         \/ \E n \in Nodes : CloseAllBegin(n) \/ CloseAllVictim(n) \/ Crash(n)
  PROVE  MapInv'
<1> USE DEF valkey, key, ids, manager
<1>a. MapTypes
  BY Zenon DEF Typed, TypeOK, MapTypes
<1>1. ASSUME NEW c \in Conns, NEW n \in Nodes, Arrive(c, n) PROVE MapInv'
  <2>1. ASSUME NEW d \in Conns PROVE MapConn(d)'
    BY <1>a, <1>1 DEF Arrive, MapInv, MapConn, MapTypes
  <2>2. ASSUME NEW m \in Nodes, NEW d \in Conns, conns'[m] = d
        PROVE  home'[d] = m /\ hpc'[d] \in {"late", "run", "tdWait"}
    BY Zenon, <1>a, <1>1, <2>2 DEF Arrive, MapInv, MapTypes
  <2> QED BY ZenonT(30), <2>1, <2>2 DEF MapInv
<1>2. ASSUME NEW n \in Nodes, CloseAllBegin(n) PROVE MapInv'
  <2>1. ASSUME NEW d \in Conns PROVE MapConn(d)'
    BY <1>a, <1>2 DEF CloseAllBegin, MapInv, MapConn, MapTypes
  <2> QED BY ZenonT(30), <1>2, <2>1 DEF CloseAllBegin, MapInv
<1>3. ASSUME NEW n \in Nodes, CloseAllVictim(n) PROVE MapInv'
  <2>0. victim[n] \in Conns /\ closed' \in [Conns -> BOOLEAN] /\ closed'[victim[n]]
        /\ \A d \in Conns : closed[d] => closed'[d]
    BY Zenon, <1>a, <1>3 DEF CloseAllVictim, MapTypes
  <2>1. ASSUME NEW d \in Conns PROVE MapConn(d)'
    <3>1. MapConn(d)
      BY Zenon DEF MapInv
    <3> QED BY <1>a, <1>3, <2>0, <3>1 DEF CloseAllVictim, MapConn, MapTypes
  <2> QED BY ZenonT(30), <1>3, <2>1 DEF CloseAllVictim, MapInv
<1>4. ASSUME NEW n \in Nodes, Crash(n) PROVE MapInv'
  <2>a. \A d \in Conns : hpc'[d] = (IF home[d] = n THEN "done" ELSE hpc[d])
    BY Zenon, <1>4 DEF Crash
  <2>b. \A d \in Conns : home[d] # n => (closed'[d] <=> closed[d]) /\ (late'[d] <=> late[d])
    BY ZenonT(30), <1>a, <1>4 DEF Crash, MapTypes
  <2>c. conns'[n] = NoConn /\ \A m \in Nodes \ {n} : conns'[m] = conns[m]
    BY <1>a, <1>4 DEF Crash, MapTypes
  <2>d. \A m \in Nodes \ {n} : bindMu'[m] = bindMu[m] /\ victim'[m] = victim[m]
    BY <1>a, <1>4 DEF Crash, MapTypes
  <2>e. home' = home /\ \A m \in Nodes : closeAll'[m] => closeAll[m]
    BY Zenon, <1>a, <1>4 DEF Crash, MapTypes
  <2>1. ASSUME NEW d \in Conns PROVE MapConn(d)'
    <3>1. MapConn(d) /\ Identified(d)
      BY Zenon DEF MapInv, Typed
    <3>2. CASE home[d] = n
      BY Zenon, <2>a, <3>2, <2>e DEF MapConn
    <3>3. CASE home[d] # n /\ hpc[d] # "new"
      BY ZenonT(30), <2>a, <2>b, <2>c, <2>d, <2>e, <3>1, <3>3 DEF MapConn, Identified
    <3>4. CASE hpc[d] = "new"
      BY Zenon, <2>a, <2>e, <3>1, <3>4 DEF MapConn, Identified
    <3> QED BY Zenon, <3>2, <3>3, <3>4
  <2>2. ASSUME NEW m \in Nodes, NEW d \in Conns, conns'[m] = d
        PROVE  home'[d] = m /\ hpc'[d] \in {"late", "run", "tdWait"}
    BY <2>a, <2>c, <2>e, <2>2, ConstantsAssumption DEF MapInv
  <2> QED BY Zenon, <2>1, <2>2 DEF MapInv
<1> QED BY Zenon, <1>1, <1>2, <1>3, <1>4

LEMMA MapInvAlways == Spec => []MapInv
<1>1. Init => MapInv
  BY ConstantsAssumption DEF Init, MapInv, MapConn
<1>2. ASSUME Typed, MapInv, Next PROVE MapInv'
  <2> USE DEF valkey, key, ids, manager
  <2>1. CASE RouteExpires \/ LockExpires \/ AddTraffic \/ \E n \in Nodes : StartDrain(n)
    <3>1. UNCHANGED mapVars
      BY Zenon, <2>1 DEF RouteExpires, LockExpires, AddTraffic, StartDrain, mapVars
    <3> QED BY Zenon, <1>2, <3>1 DEF MapInv, MapConn, mapVars
  <2>2. CASE \E p \in Procs : Release(p) \/ ReleaseFails(p)
    <3>1. UNCHANGED mapVars
      BY Zenon, <2>2 DEF Release, ReleaseGet, ReleaseDel, ReleaseFails, mapVars
    <3> QED BY Zenon, <1>2, <3>1 DEF MapInv, MapConn, mapVars
  <2>3. ASSUME NEW c \in Conns,
               HeartbeatRefresh(c) \/ HealAcquire(c) \/ HealWrite(c) \/ HeartbeatExit(c)
               \/ HeartbeatFails(c)
        PROVE  MapInv'
    <3>1. UNCHANGED mapVars
      BY Zenon, <2>3 DEF HeartbeatRefresh, HealAcquire, HealWrite, HeartbeatExit, HeartbeatFails, mapVars
    <3> QED BY ZenonT(30), <1>2, <3>1 DEF MapInv, MapConn, mapVars
  <2>4. ASSUME NEW c \in Conns,
               Handler(c) \/ Heartbeat(c) \/ Fault(c) \/ CloseConn(c) \/ TeardownStart(c)
        PROVE  MapInv'
    BY Zenon, <1>2, <2>3, <2>4, MapBindSteps, MapRegisterSteps, MapLeaveSteps
       DEF Handler, Heartbeat, Fault
  <2> QED BY Zenon, <1>2, <2>1, <2>2, <2>4, MapNodeSteps DEF Next
<1>3. MapInv /\ UNCHANGED vars => MapInv'
  BY DEF vars, manager, ids, MapInv, MapConn
<1> QED BY <1>1, <1>2, <1>3, TypedAlways, PTL DEF Spec

(* For any number of nodes and connections, connIDs that collide and a lock that
   runs out under its holder included: an open connection is the one its node's
   map names, so whatever closes connections through the map reaches it. *)
THEOREM OpenConnsAreMapped == Spec => []OpenConnInMap
<1>1. MapInv => OpenConnInMap
  BY Zenon DEF MapInv, MapConn, OpenConnInMap, OpenConn
<1> QED BY <1>1, MapInvAlways, PTL

(* CloseAll misses no registration in progress: once it has closed what it found,
   no connection of the node is open or will be. *)
THEOREM CloseAllIsFinal == Spec => []CloseAllSticks
<1>1. Typed /\ MapInv => CloseAllSticks
  BY ConstantsAssumption DEF Typed, TypeOK, MapInv, MapConn, CloseAllSticks, OpenConn
<1> QED BY <1>1, TypedAlways, MapInvAlways, PTL

-----------------------------------------------------------------------------
(* The binds of a node.  Latest(w): w's bind is the node's last, as far as its
   map goes.  Past(c): c is registered.  A registered connection that is not the
   latest of its node owns the route only through a self-heal. *)
OwnerTypes ==
  /\ hpc \in [Conns -> HandlerPCs] /\ home \in [Conns -> Nodes \cup {NoNode}]
  /\ conns \in [Nodes -> Conns \cup {NoConn}]

Latest(w) == hpc[w] = "insert" \/ conns[home[w]] = w
Past(c)   == hpc[c] \in {"run", "tdWait", "unbind", "unbindHeld"}

OwnerInv ==
  \A w, c \in Conns :
    /\ w # c /\ home[w] \in Nodes /\ home[c] = home[w]
    /\ Latest(w) /\ Past(c) /\ route = c
    => viaHeal

(* Steps after which nobody newly is the latest or registered, and the route is
   the old one or none. *)
LEMMA OwnerQuietSteps ==
  ASSUME OwnerInv, home' = home,
         route' = NoConn \/ (route' = route /\ viaHeal' = viaHeal),
         \A d \in Conns : /\ home[d] \in Nodes /\ Latest(d)' => Latest(d)
                          /\ Past(d)' => Past(d)
  PROVE  OwnerInv'
BY ConstantsAssumption DEF OwnerInv

(* A bind's write makes its connection the latest; a self-heal's is marked. *)
LEMMA OwnerWriteSteps ==
  ASSUME DistinctIds, Typed, OwnerInv, NEW c \in Conns,
         BindWrite(c) \/ BindFails(c) \/ HealWrite(c)
  PROVE  OwnerInv'
<1> USE DEF valkey, key, ids, manager
<1>a. OwnerTypes /\ Identified(c)
  BY Zenon DEF Typed, TypeOK, OwnerTypes
<1>b. home' = home /\ conns' = conns
  BY Zenon DEF BindWrite, BindFails, HealWrite
<1>1. CASE HealWrite(c)
  <2>1. hpc' = hpc /\ (viaHeal' \/ UNCHANGED <<route, viaHeal>>)
    BY Zenon, <1>1 DEF HealWrite, BindHSet
  <2> QED BY <1>b, <2>1 DEF OwnerInv, Latest, Past
<1>2. CASE BindWrite(c) \/ BindFails(c)
  <2>1. /\ \A d \in Conns : d # c => hpc'[d] = hpc[d]
        /\ hpc'[c] \in {"insert", "failed"}
        /\ hpc'[c] = "insert" => route' = cid[c]
        /\ route' = cid[c] \/ UNCHANGED <<route, viaHeal>>
    BY ZenonT(30), <1>a, <1>2 DEF BindWrite, BindFails, BindHSet, OwnerTypes
  <2>2. cid[c] = c
    BY Zenon, <1>a, <1>2 DEF BindWrite, BindFails, Identified
  <2>3. ASSUME NEW w \in Conns, NEW d \in Conns, w # d, home[w] \in Nodes, home[d] = home[w],
               Latest(w)', Past(d)', route' = d
        PROVE  viaHeal'
    <3>1. d # c /\ Past(d)
      BY Zenon, <2>1, <2>3 DEF Past
    <3>2. w # c \/ hpc'[c] = "failed"
      BY Zenon, <2>1, <2>2, <2>3, <3>1
    <3>3. Latest(w)
      BY Zenon, <1>b, <2>1, <2>3, <3>2 DEF Latest
    <3> QED BY <2>1, <2>2, <2>3, <3>1, <3>3 DEF OwnerInv
  <2> QED BY Zenon, <1>b, <2>3 DEF OwnerInv
<1> QED BY Zenon, <1>1, <1>2

(* A connection that becomes registered is still the latest: it holds the
   stripe mutex, and the map names it. *)
LEMMA OwnerRegisterSteps ==
  ASSUME Typed, MapInv, OwnerInv, NEW c \in Conns, Registered(c) \/ Abandon(c)
  PROVE  OwnerInv'
<1> USE DEF valkey, key, ids, manager
<1>a. OwnerTypes /\ Identified(c) /\ MapConn(c)
  BY Zenon DEF Typed, TypeOK, OwnerTypes, MapInv
<1>1. /\ hpc[c] = "late" /\ home' = home /\ UNCHANGED <<route, viaHeal>>
      /\ \A d \in Conns : d # c => hpc'[d] = hpc[d]
      /\ hpc'[c] # "insert"
  BY Zenon, <1>a DEF Registered, Abandon, OwnerTypes
<1>2. home[c] \in Nodes /\ conns[home[c]] = c /\ bindMu[home[c]] = c
  BY Zenon, <1>a, <1>1 DEF Identified, MapConn
<1>3. /\ conns'[home[c]] \in {c, NoConn}
      /\ \A n \in Nodes : n # home[c] => conns'[n] = conns[n]
  BY Zenon, <1>a, <1>2 DEF Registered, Abandon, RemoveFromMap, OwnerTypes
<1>4. ASSUME NEW w \in Conns, NEW d \in Conns, w # d, home[w] \in Nodes, home[d] = home[w],
             Latest(w)', Past(d)', route' = d
      PROVE  viaHeal'
  <2>1. MapConn(w)
    BY Zenon DEF MapInv
  <2>2. CASE home[w] = home[c]
    <3>1. w # c => hpc[w] # "insert"
      BY Zenon, <1>2, <2>1, <2>2 DEF MapConn
    <3>2. w = c
      BY <1>1, <1>3, <1>4, <2>2, <3>1, ConstantsAssumption DEF Latest
    <3>3. Past(d) /\ Latest(w)
      BY Zenon, <1>1, <1>2, <1>4, <3>2 DEF Past, Latest
    <3> QED BY ZenonT(30), <1>1, <1>4, <3>3 DEF OwnerInv
  <2>3. CASE home[w] # home[c]
    <3>1. Past(d) /\ Latest(w)
      BY ZenonT(30), <1>1, <1>3, <1>4, <2>3 DEF Past, Latest
    <3> QED BY Zenon, <1>1, <1>4, <3>1 DEF OwnerInv
  <2> QED BY Zenon, <2>2, <2>3
<1> QED BY ZenonT(30), <1>1, <1>4 DEF OwnerInv

(* Every other step of a connection. *)
LEMMA OwnerConnSteps ==
  ASSUME Typed, OwnerInv, NEW c \in Conns,
         \/ LockStripe(c) \/ BindAcquire(c) \/ BindCollides(c) \/ Refuse503(c) \/ Insert(c)
         \/ TeardownRemove(c) \/ UnbindAcquire(c) \/ UnbindDel(c) \/ Finish(c)
         \/ HeartbeatRead(c) \/ HeartbeatRefresh(c) \/ HealAcquire(c) \/ HeartbeatExit(c)
         \/ UnbindFails(c) \/ HeartbeatFails(c) \/ CloseConn(c) \/ TeardownStart(c)
  PROVE  OwnerInv'
<1> USE DEF valkey, key, ids, manager
<1>a. OwnerTypes /\ Identified(c)
  BY Zenon DEF Typed, TypeOK, OwnerTypes
<1>1. home' = home /\ (route' = NoConn \/ (route' = route /\ viaHeal' = viaHeal))
  BY ZenonT(30) DEF LockStripe, BindAcquire, BindCollides, Refuse503, Insert, TeardownRemove,
     UnbindAcquire, UnbindDel, KeyGone, Finish, HeartbeatRead, HeartbeatRefresh, HealAcquire,
     HeartbeatExit, UnbindFails, HeartbeatFails, CloseConn, TeardownStart
<1>2. /\ \A d \in Conns : d # c => hpc'[d] = hpc[d]
      /\ hpc'[c] # "insert" \/ hpc'[c] = hpc[c]
      /\ Past(c)' => Past(c)
  BY ZenonT(30), <1>a DEF LockStripe, BindAcquire, BindCollides, Refuse503, Insert, TeardownRemove,
     UnbindAcquire, UnbindDel, Finish, HeartbeatRead, HeartbeatRefresh, HealAcquire,
     HeartbeatExit, UnbindFails, HeartbeatFails, CloseConn, TeardownStart, OwnerTypes, Past
<1>3. ASSUME NEW d \in Conns, home[d] \in Nodes, conns'[home[d]] = d PROVE Latest(d)
  <2>1. CASE Insert(c)
    <3>1. home[c] \in Nodes /\ hpc[c] = "insert"
      BY ZenonT(30), <1>a, <2>1 DEF Insert, Identified
    <3>2. conns'[home[d]] = (IF home[d] = home[c] THEN c ELSE conns[home[d]])
      BY ZenonT(30), <1>a, <1>3, <2>1, <3>1 DEF Insert, OwnerTypes
    <3> QED BY ZenonT(30), <1>3, <3>1, <3>2 DEF Latest
  <2>2. CASE TeardownRemove(c)
    <3>1. home[c] \in Nodes
      BY ZenonT(30), <1>a, <2>2 DEF TeardownRemove, Identified
    <3>2. conns'[home[d]] \in {conns[home[d]], NoConn}
      BY Zenon, <1>a, <1>3, <2>2, <3>1 DEF TeardownRemove, RemoveFromMap, OwnerTypes
    <3> QED BY ZenonT(30), <1>3, <3>2, ConstantsAssumption DEF Latest
  <2>3. CASE ~(Insert(c) \/ TeardownRemove(c))
    <3>1. conns' = conns
      BY ZenonT(30), <2>3 DEF LockStripe, BindAcquire, BindCollides, Refuse503, UnbindAcquire, UnbindDel,
         Finish, HeartbeatRead, HeartbeatRefresh, HealAcquire, HeartbeatExit, UnbindFails,
         HeartbeatFails, CloseConn, TeardownStart
    <3> QED BY Zenon, <1>3, <3>1 DEF Latest
  <2> QED BY Zenon, <2>1, <2>2, <2>3
<1>4. ASSUME NEW d \in Conns
      PROVE  (home[d] \in Nodes /\ Latest(d)' => Latest(d)) /\ (Past(d)' => Past(d))
  BY Zenon, <1>1, <1>2, <1>3 DEF Latest, Past
<1> QED BY Zenon, <1>1, <1>4, OwnerQuietSteps

LEMMA OwnerInvAlways ==
  ASSUME DistinctIds
  PROVE  Spec => []OwnerInv
<1>1. Init => OwnerInv
  BY ConstantsAssumption DEF Init, OwnerInv
<1>2. ASSUME Typed, MapInv, OwnerInv, Next PROVE OwnerInv'
  <2> USE DEF valkey, key, ids, manager
  <2>a. OwnerTypes
    BY Zenon, <1>2 DEF Typed, TypeOK, OwnerTypes
  <2>1. CASE UNCHANGED <<route, viaHeal, home, hpc, conns>>
    BY Zenon, <1>2, <2>1 DEF OwnerInv, Latest, Past
  <2>2. CASE RouteExpires
    BY Zenon, <1>2, <2>2, OwnerQuietSteps DEF RouteExpires, KeyGone, Latest, Past
  <2>3. CASE LockExpires \/ AddTraffic
    BY Zenon, <2>1, <2>3 DEF LockExpires, AddTraffic
  <2>4. CASE \E p \in Procs : Release(p) \/ ReleaseFails(p)
    BY Zenon, <2>1, <2>4 DEF Release, ReleaseGet, ReleaseDel, ReleaseFails
  <2>5. CASE \E n \in Nodes : CloseAllBegin(n) \/ CloseAllVictim(n) \/ StartDrain(n)
    BY ZenonT(30), <2>1, <2>5 DEF CloseAllBegin, CloseAllVictim, StartDrain
  <2>6. ASSUME NEW c \in Conns, NEW n \in Nodes, Arrive(c, n) PROVE OwnerInv'
    <3>1. /\ hpc[c] = "new" /\ hpc'[c] = "stripe" /\ home'[c] = n
          /\ \A d \in Conns : d # c => hpc'[d] = hpc[d] /\ home'[d] = home[d]
          /\ UNCHANGED <<route, viaHeal, conns>>
      BY Zenon, <2>6, <2>a DEF Arrive, OwnerTypes
    <3>2. \A m \in Nodes : conns[m] # c
      BY ZenonT(30), <1>2, <3>1 DEF MapInv
    <3>3. ~Latest(c)' /\ ~Past(c)'
      BY ZenonT(30), <3>1, <3>2 DEF Latest, Past
    <3>4. ASSUME NEW d \in Conns, d # c PROVE (Latest(d)' <=> Latest(d)) /\ (Past(d)' <=> Past(d))
      BY Zenon, <3>1, <3>4 DEF Latest, Past
    <3> QED BY ZenonT(30), <1>2, <3>1, <3>3, <3>4 DEF OwnerInv
  <2>7. ASSUME NEW n \in Nodes, Crash(n) PROVE OwnerInv'
    <3>1. UNCHANGED <<route, viaHeal, home>>
      BY ZenonT(30), <2>7 DEF Crash
    <3>2. ASSUME NEW d \in Conns
          PROVE  (home[d] \in Nodes /\ Latest(d)' => Latest(d)) /\ (Past(d)' => Past(d))
      <4>1. hpc'[d] \in {"done", hpc[d]}
        BY ZenonT(30), <2>7 DEF Crash
      <4>2. home[d] \in Nodes => conns'[home[d]] \in {NoConn, conns[home[d]]}
        BY ZenonT(30), <2>7, <2>a DEF Crash, OwnerTypes
      <4> QED BY Zenon, <3>1, <4>1, <4>2, ConstantsAssumption DEF Latest, Past
    <3> QED BY Zenon, <1>2, <3>1, <3>2, OwnerQuietSteps
  <2>8. ASSUME NEW c \in Conns,
               Handler(c) \/ Heartbeat(c) \/ Fault(c) \/ CloseConn(c) \/ TeardownStart(c)
        PROVE  OwnerInv'
    BY ZenonT(30), <1>2, <2>8, OwnerWriteSteps, OwnerRegisterSteps, OwnerConnSteps
       DEF Handler, Heartbeat, Fault
  <2> QED BY Zenon, <1>2, <2>2, <2>3, <2>4, <2>5, <2>6, <2>7, <2>8 DEF Next
<1>3. OwnerInv /\ UNCHANGED vars => OwnerInv'
  BY DEF vars, valkey, key, ids, manager, OwnerInv, Latest, Past
<1> QED BY <1>1, <1>2, <1>3, TypedAlways, MapInvAlways, PTL DEF Spec

(* The stripe mutex keeps the binds of a node and their map inserts in one
   order, a lock that runs out under its holder included: a connection that is
   not its node's local winner owns the route only if it is closed already and
   re-bound it through a self-heal. *)
THEOREM WinnerOwns ==
  ASSUME DistinctIds
  PROVE  Spec => []LocalWinnerOwns
<1>1. ASSUME Typed, MapInv, OwnerInv, NEW w \in Conns, NEW c \in Conns, Shadowed(w, c)
      PROVE  viaHeal /\ closed[c]
  <2>1. Identified(w) /\ Identified(c) /\ MapConn(c)
    BY Zenon, <1>1 DEF Typed, MapInv
  <2>2. home[w] \in Nodes /\ cid[c] = c
    BY Zenon, <1>1, <2>1 DEF Shadowed, OpenConn, Identified
  <2>3. closed[c]
    BY ZenonT(30), <1>1, <2>1 DEF Shadowed, MapConn
  <2>4. viaHeal
    BY Zenon, <1>1, <2>2 DEF Shadowed, OwnerInv, Latest, Past
  <2> QED BY Zenon, <2>3, <2>4
<1>2. Typed /\ MapInv /\ OwnerInv => LocalWinnerOwns
  BY Zenon, <1>1 DEF LocalWinnerOwns
<1> QED BY <1>2, TypedAlways, MapInvAlways, OwnerInvAlways, PTL

-----------------------------------------------------------------------------
(* The lock.  A process of c inside a locked section, or releasing, holds the
   lock; and while a section runs the route is what it has read, or has expired. *)
LockTypes ==
  /\ route \in Conns \cup {NoConn} /\ lock \in Procs \cup {NoProc}
  /\ hpc \in [Conns -> HandlerPCs] /\ bpc \in [Conns -> HeartbeatPCs]
  /\ seen \in [Procs -> Conns \cup {NoConn}] /\ rel \in [Procs -> {"no", "get", "del"}]

HoldsLock(c) ==
  /\ hpc[c] \in {"bindHeld", "unbindHeld"} =>
       lock = <<c, "h">> /\ rel[<<c, "h">>] = "no"
  /\ bpc[c] = "healHeld" => lock = <<c, "b">> /\ rel[<<c, "b">>] = "no"
  /\ rel[<<c, "h">>] # "no" => lock = <<c, "h">>
  /\ rel[<<c, "b">>] # "no" => lock = <<c, "b">>

SectionRead(c) ==
  /\ hpc[c] \in {"bindHeld", "unbindHeld"} => route \in {seen[<<c, "h">>], NoConn}
  /\ bpc[c] = "healHeld" => route \in {seen[<<c, "b">>], NoConn}

LockInv == \A c \in Conns : HoldsLock(c) /\ SectionRead(c)

(* Steps that leave the route, the lock and the reads alone and start no section. *)
LEMMA LockQuietSteps ==
  ASSUME LockInv, UNCHANGED <<route, lock, rel, seen>>,
         \A d \in Conns : /\ hpc'[d] \in {"bindHeld", "unbindHeld"} => hpc'[d] = hpc[d]
                          /\ bpc'[d] = "healHeld" => bpc[d] = "healHeld"
  PROVE  LockInv'
BY Zenon DEF LockInv, HoldsLock, SectionRead

(* A section starts. *)
LEMMA LockAcquireSteps ==
  ASSUME Typed, LockInv, NEW c \in Conns,
         BindAcquire(c) \/ UnbindAcquire(c) \/ HealAcquire(c)
  PROVE  LockInv'
<1> USE DEF valkey, key, ids, manager
<1>a. LockTypes
  BY Zenon DEF Typed, TypeOK, LockTypes
<1>1. ASSUME NEW d \in Conns PROVE HoldsLock(d)' /\ SectionRead(d)'
  <2>1. HoldsLock(d) /\ SectionRead(d)
    BY Zenon DEF LockInv
  <2>2. CASE BindAcquire(c)
    BY Zenon, <1>a, <2>1, <2>2, PairFacts
       DEF BindAcquire, AcquireAndRead, LockTypes, HoldsLock, SectionRead
  <2>3. CASE UnbindAcquire(c)
    BY Zenon, <1>a, <2>1, <2>3, PairFacts
       DEF UnbindAcquire, AcquireAndRead, LockTypes, HoldsLock, SectionRead
  <2>4. CASE HealAcquire(c)
    BY Zenon, <1>a, <2>1, <2>4, PairFacts
       DEF HealAcquire, AcquireAndRead, LockTypes, HoldsLock, SectionRead
  <2> QED BY Zenon, <2>2, <2>3, <2>4
<1> QED BY Zenon, <1>1 DEF LockInv

(* A section ends, with or without its write; or the lock is not obtained. *)
LEMMA LockEndSteps ==
  ASSUME Typed, LockInv, NEW c \in Conns,
         \/ BindWrite(c) \/ BindCollides(c) \/ UnbindDel(c) \/ HealWrite(c)
         \/ HeartbeatExit(c) \/ BindFails(c) \/ UnbindFails(c) \/ HeartbeatFails(c)
  PROVE  LockInv'
<1> USE DEF valkey, key, ids, manager
<1>a. LockTypes /\ HoldsLock(c)
  BY Zenon DEF Typed, TypeOK, LockTypes, LockInv
<1>1. ASSUME NEW d \in Conns PROVE HoldsLock(d)' /\ SectionRead(d)'
  <2>1. HoldsLock(d) /\ SectionRead(d)
    BY Zenon DEF LockInv
  <2> USE DEF EndSection, LockTypes, HoldsLock, SectionRead
  <2>2. CASE BindWrite(c)
    BY Zenon, <1>a, <2>1, <2>2, PairFacts DEF BindWrite, BindHSet
  <2>3. CASE BindCollides(c)
    BY Zenon, <1>a, <2>1, <2>3, PairFacts DEF BindCollides
  <2>4. CASE UnbindDel(c)
    BY Zenon, <1>a, <2>1, <2>4, PairFacts DEF UnbindDel, KeyGone
  <2>5. CASE HealWrite(c)
    BY Zenon, <1>a, <2>1, <2>5, PairFacts DEF HealWrite, BindHSet
  <2>6. CASE HeartbeatExit(c)
    BY ZenonT(30), <1>a, <2>1, <2>6, PairFacts DEF HeartbeatExit
  <2>7. CASE BindFails(c)
    BY <1>a, <2>1, <2>7, PairFacts DEF BindFails, AcquireFails, BindHSet
  <2>8. CASE UnbindFails(c)
    BY ZenonT(30), <1>a, <2>1, <2>8, PairFacts DEF UnbindFails, AcquireFails
  <2>9. CASE HeartbeatFails(c)
    BY Zenon, <1>a, <2>1, <2>9, PairFacts DEF HeartbeatFails, AcquireFails
  <2> QED BY Zenon, <2>2, <2>3, <2>4, <2>5, <2>6, <2>7, <2>8, <2>9
<1> QED BY Zenon, <1>1 DEF LockInv

(* Valkey's expirations, the release of the lock and a crash. *)
LEMMA LockOtherSteps ==
  ASSUME ~MidSectionExpiry, Typed, LockInv,
         \/ RouteExpires \/ LockExpires
         \/ \E p \in Procs : Release(p) \/ ReleaseFails(p)
         \/ \E n \in Nodes : Crash(n)
  PROVE  LockInv'
<1> USE DEF valkey, key, ids, manager
<1>a. LockTypes
  BY Zenon DEF Typed, TypeOK, LockTypes
<1>1. CASE RouteExpires
  BY Zenon, <1>1 DEF RouteExpires, KeyGone, LockInv, HoldsLock, SectionRead
<1>2. CASE LockExpires
  <2>0. lock \in Procs /\ ~InSection(lock) /\ lock' = NoProc
    BY Zenon, <1>a, <1>2 DEF LockExpires, LockTypes
  <2>1. ASSUME NEW d \in Conns PROVE HoldsLock(d)' /\ SectionRead(d)'
    <3>1. HoldsLock(d) /\ SectionRead(d)
      BY Zenon DEF LockInv
    <3>2. lock # <<d, "h">> \/ (hpc[d] \notin {"bindHeld", "unbindHeld"} /\ rel[<<d, "h">>] = "no")
      BY <2>0 DEF InSection
    <3>3. lock # <<d, "b">> \/ (bpc[d] # "healHeld" /\ rel[<<d, "b">>] = "no")
      BY <2>0 DEF InSection
    <3> QED BY Zenon, <1>2, <2>0, <3>1, <3>2, <3>3, PairFacts
         DEF LockExpires, HoldsLock, SectionRead
  <2> QED BY Zenon, <2>1 DEF LockInv
<1>3. ASSUME NEW p \in Procs, Release(p) \/ ReleaseFails(p) PROVE LockInv'
  <2>0. PICK c \in Conns : p = <<c, "h">> \/ p = <<c, "b">>
    BY DEF Procs
  <2>c. HoldsLock(c)
    BY Zenon DEF LockInv
  <2>1. ASSUME NEW d \in Conns PROVE HoldsLock(d)' /\ SectionRead(d)'
    <3>1. HoldsLock(d) /\ SectionRead(d)
      BY Zenon DEF LockInv
    <3> USE DEF LockTypes, HoldsLock, SectionRead
    <3>2. CASE ReleaseGet(p)
      BY Zenon, <1>a, <2>0, <3>1, <3>2, PairFacts DEF ReleaseGet
    <3>3. CASE ReleaseDel(p)
      BY Zenon, <1>a, <2>0, <2>c, <3>1, <3>3, PairFacts DEF ReleaseDel
    <3>4. CASE ReleaseFails(p)
      BY Zenon, <1>a, <2>0, <3>1, <3>4, PairFacts DEF ReleaseFails
    <3> QED BY Zenon, <1>3, <3>2, <3>3, <3>4 DEF Release
  <2> QED BY Zenon, <2>1 DEF LockInv
<1>4. ASSUME NEW n \in Nodes, Crash(n) PROVE LockInv'
  <2>1. ASSUME NEW d \in Conns PROVE HoldsLock(d)' /\ SectionRead(d)'
    <3>1. HoldsLock(d) /\ SectionRead(d)
      BY Zenon DEF LockInv
    <3>2. hpc'[d] = (IF home[d] = n THEN "done" ELSE hpc[d])
          /\ bpc'[d] = (IF home[d] = n THEN "exit" ELSE bpc[d])
      BY ZenonT(30), <1>4 DEF Crash
    <3>3. /\ rel'[<<d, "h">>] = (IF home[d] = n THEN "no" ELSE rel[<<d, "h">>])
          /\ rel'[<<d, "b">>] = (IF home[d] = n THEN "no" ELSE rel[<<d, "b">>])
          /\ seen'[<<d, "h">>] = (IF home[d] = n THEN NoConn ELSE seen[<<d, "h">>])
          /\ seen'[<<d, "b">>] = (IF home[d] = n THEN NoConn ELSE seen[<<d, "b">>])
      BY ZenonT(30), <1>4, PairFacts DEF Crash
    <3>4. route' = route /\ lock' = lock
      BY Zenon, <1>4 DEF Crash
    <3> QED BY Zenon, <3>1, <3>2, <3>3, <3>4 DEF HoldsLock, SectionRead
  <2> QED BY Zenon, <2>1 DEF LockInv
<1> QED BY Zenon, <1>1, <1>2, <1>3, <1>4

LEMMA LockInvAlways ==
  ASSUME ~MidSectionExpiry
  PROVE  Spec => []LockInv
<1>1. Init => LockInv
  BY ZenonT(30), PairFacts DEF Init, LockInv, HoldsLock, SectionRead
<1>2. ASSUME Typed, LockInv, Next PROVE LockInv'
  <2> USE DEF valkey, key, ids, manager
  <2>a. hpc \in [Conns -> HandlerPCs] /\ bpc \in [Conns -> HeartbeatPCs]
    BY Zenon, <1>2 DEF Typed, TypeOK
  <2>1. CASE AddTraffic \/ \E n \in Nodes : CloseAllBegin(n) \/ CloseAllVictim(n) \/ StartDrain(n)
    BY Zenon, <1>2, <2>1, LockQuietSteps DEF AddTraffic, CloseAllBegin, CloseAllVictim, StartDrain
  <2>2. ASSUME NEW c \in Conns,
               \/ LockStripe(c) \/ Refuse503(c) \/ Insert(c) \/ Registered(c)
               \/ TeardownRemove(c) \/ Finish(c) \/ HeartbeatRead(c) \/ HeartbeatRefresh(c)
               \/ Abandon(c) \/ CloseConn(c) \/ TeardownStart(c)
               \/ \E n \in Nodes : Arrive(c, n)
        PROVE  LockInv'
    <3>1. UNCHANGED <<route, lock, rel, seen>>
      BY Zenon, <2>2 DEF LockStripe, Refuse503, Insert, Registered, TeardownRemove, Finish, Arrive,
         HeartbeatRead, HeartbeatRefresh, Abandon, CloseConn, TeardownStart
    <3>2. ASSUME NEW d \in Conns
          PROVE  /\ hpc'[d] \in {"bindHeld", "unbindHeld"} => hpc'[d] = hpc[d]
                 /\ bpc'[d] = "healHeld" => bpc[d] = "healHeld"
      BY ZenonT(30), <2>2, <2>a DEF LockStripe, Refuse503, Insert, Registered, TeardownRemove, Finish, Arrive,
         HeartbeatRead, HeartbeatRefresh, Abandon, CloseConn, TeardownStart
    <3> QED BY Zenon, <1>2, <3>1, <3>2, LockQuietSteps
  <2>3. ASSUME NEW c \in Conns,
               Handler(c) \/ Heartbeat(c) \/ Fault(c) \/ CloseConn(c) \/ TeardownStart(c)
        PROVE  LockInv'
    BY Zenon, <1>2, <2>2, <2>3, LockAcquireSteps, LockEndSteps DEF Handler, Heartbeat, Fault
  <2> QED BY Zenon, <1>2, <2>1, <2>2, <2>3, LockOtherSteps DEF Next
<1>3. LockInv /\ UNCHANGED vars => LockInv'
  BY Zenon DEF vars, valkey, key, LockInv, HoldsLock, SectionRead
<1> QED BY <1>1, <1>2, <1>3, TypedAlways, PTL DEF Spec

(* What the locked sections read stays true until they write, connIDs that
   collide included: the lock of router/lock.go serialises them. *)
THEOREM ReadsStayTrue ==
  ASSUME ~MidSectionExpiry
  PROVE  Spec => []ReadStaysTrue
<1>1. Typed /\ LockInv => ReadStaysTrue
  BY Zenon DEF LockInv, SectionRead, ReadStaysTrue, ReadTrue
<1> QED BY <1>1, TypedAlways, LockInvAlways, PTL

(* A successful bind changes the stored connID, whatever ids were drawn: the
   compare in BindRoute, made under the lock, is with the connID it replaces. *)
THEOREM BindsChangeOwner ==
  ASSUME ~MidSectionExpiry
  PROVE  Spec => BindChangesOwner
<1> USE DEF valkey, key, ids, manager
<1>1. ASSUME Typed, LockInv, Next, NEW c \in Conns, hpc[c] = "bindHeld", hpc'[c] = "insert"
      PROVE  route' # route
  <2>a. RouteTypes /\ Identified(c) /\ SectionRead(c) /\ c # NoConn
    BY Zenon, <1>1, ConstantsAssumption DEF Typed, TypeOK, RouteTypes, LockInv
  <2>1. BindWrite(c)
    <3>1. ASSUME NEW d \in Conns, ConnStep(d) PROVE BindWrite(c)
      <4>1. d = c
        BY Zenon, <1>1, <2>a, <3>1, OthersStay
      <4> QED BY ZenonT(30), <1>1, <2>a, <3>1, <4>1 DEF ConnStep, Handler, Heartbeat, Fault, LockStripe,
           BindAcquire, BindWrite, BindCollides, Refuse503, Insert, Registered, TeardownRemove,
           UnbindAcquire, UnbindDel, Finish, HeartbeatRead, HeartbeatRefresh, HealAcquire,
           HealWrite, HeartbeatExit, BindFails, Abandon, UnbindFails, HeartbeatFails, CloseConn,
           TeardownStart, RouteTypes
    <3>2. hpc' # hpc
      BY Zenon, <1>1
    <3>3. ~\E d \in Conns, n \in Nodes : Arrive(d, n)
      BY Zenon, <1>1, <2>a DEF Arrive, RouteTypes
    <3>4. ~\E n \in Nodes : Crash(n)
      BY <1>1 DEF Crash
    <3> QED BY Zenon, <1>1, <3>1, <3>2, <3>3, <3>4 DEF Next, ConnStep, RouteExpires, LockExpires,
         AddTraffic, Release, ReleaseGet, ReleaseDel, ReleaseFails, CloseAllBegin, CloseAllVictim, StartDrain
  <2> QED BY Zenon, <1>1, <2>1, <2>a, ConstantsAssumption
       DEF BindWrite, BindHSet, Identified, SectionRead
<1>2. Typed /\ LockInv /\ [Next]_vars =>
        [\A c \in Conns : hpc[c] = "bindHeld" /\ hpc'[c] = "insert" => route' # route]_vars
  BY Zenon, <1>1
<1> QED BY <1>2, TypedAlways, LockInvAlways, PTL DEF Spec, BindChangesOwner

-----------------------------------------------------------------------------

(* The phases.  c's heartbeat loop lives inside the handler's run, and, connIDs
   being distinct, the route can name c only after its bind. *)
Phases(c) ==
  /\ hpc[c] \in {"run", "tdWait"} => bpc[c] # "off"
  /\ bpc[c] \notin {"off", "exit"} => hpc[c] \in {"run", "tdWait"}
  /\ route = c => hpc[c] \notin {"new", "stripe", "bind", "bindHeld"}

PhaseInv == \A c \in Conns : Phases(c)

LEMMA PhaseConnSteps ==
  ASSUME DistinctIds, Typed, PhaseInv, NEW c \in Conns,
         Handler(c) \/ Heartbeat(c) \/ Fault(c) \/ CloseConn(c) \/ TeardownStart(c)
  PROVE  PhaseInv'
<1> USE DEF valkey, key, ids, manager
<1>a. RouteTypes /\ Phases(c) /\ Identified(c)
  BY Zenon DEF Typed, TypeOK, RouteTypes, PhaseInv
<1>1. route' \in {route, c, NoConn}
      /\ (route' = c /\ route # c => hpc'[c] \notin {"new", "stripe", "bind", "bindHeld"})
  <2>1. CASE BindWrite(c)
    BY Zenon, <1>a, <2>1 DEF BindWrite, BindHSet, Identified, RouteTypes
  <2>2. CASE BindFails(c)
    BY Zenon, <1>a, <2>2 DEF BindFails, BindHSet, Identified, RouteTypes
  <2>3. CASE HealWrite(c)
    BY Zenon, <1>a, <2>3 DEF HealWrite, BindHSet, Identified, RouteTypes, Phases
  <2>4. CASE UnbindDel(c)
    BY Zenon, <2>4, ConstantsAssumption DEF UnbindDel, KeyGone
  <2>5. CASE ~(BindWrite(c) \/ BindFails(c) \/ HealWrite(c) \/ UnbindDel(c))
    BY Zenon, <2>5 DEF Handler, Heartbeat, Fault, LockStripe, BindAcquire, BindCollides, Refuse503,
       Insert, Registered, TeardownRemove, UnbindAcquire, Finish, HeartbeatRead,
       HeartbeatRefresh, HealAcquire, HeartbeatExit, Abandon, UnbindFails, HeartbeatFails,
       CloseConn, TeardownStart
  <2> QED BY Zenon, <2>1, <2>2, <2>3, <2>4, <2>5
<1>2. ASSUME NEW d \in Conns PROVE Phases(d)'
  <2>1. Phases(d) /\ d # NoConn
    BY Zenon, ConstantsAssumption DEF PhaseInv
  <2>2. CASE d # c
    <3>1. hpc'[d] = hpc[d] /\ bpc'[d] = bpc[d]
      BY Zenon, <1>a, <2>2, OthersStay DEF ConnStep
    <3> QED BY Zenon, <1>1, <2>1, <2>2, <3>1 DEF Phases
  <2>3. CASE d = c
    <3>1. hpc[c] \notin {"new", "stripe", "bind", "bindHeld"}
            => hpc'[c] \notin {"new", "stripe", "bind", "bindHeld"}
      BY ZenonT(30), <1>a DEF Handler, Heartbeat, Fault, LockStripe, BindAcquire, BindWrite,
         BindCollides, Refuse503, Insert, Registered, TeardownRemove, UnbindAcquire, UnbindDel,
         Finish, HeartbeatRead, HeartbeatRefresh, HealAcquire, HealWrite, HeartbeatExit,
         BindFails, Abandon, UnbindFails, HeartbeatFails, CloseConn, TeardownStart, RouteTypes
    <3>2. /\ hpc'[c] \in {"run", "tdWait"} => bpc'[c] # "off"
          /\ bpc'[c] \notin {"off", "exit"} => hpc'[c] \in {"run", "tdWait"}
      <4>1. CASE Handler(c) \/ CloseConn(c) \/ TeardownStart(c)
        BY ZenonT(30), <1>a, <4>1 DEF Handler, LockStripe, BindAcquire, BindWrite, BindCollides, Refuse503,
           Insert, Registered, TeardownRemove, HbDone, UnbindAcquire, UnbindDel, Finish,
           CloseConn, TeardownStart, RouteTypes, Phases
      <4>2. CASE Heartbeat(c)
        BY Zenon, <1>a, <4>2 DEF Heartbeat, HeartbeatRead, HeartbeatRefresh, HealAcquire, HealWrite,
           HeartbeatExit, RouteTypes, Phases
      <4>3. CASE Fault(c)
        BY ZenonT(30), <1>a, <4>3 DEF Fault, BindFails, Abandon, UnbindFails, HeartbeatFails, RouteTypes, Phases
      <4> QED BY Zenon, <4>1, <4>2, <4>3
    <3> QED BY Zenon, <1>1, <2>1, <2>3, <3>1, <3>2 DEF Phases
  <2> QED BY Zenon, <2>2, <2>3
<1> QED BY Zenon, <1>2 DEF PhaseInv

LEMMA PhaseInvAlways ==
  ASSUME DistinctIds
  PROVE  Spec => []PhaseInv
<1>1. Init => PhaseInv
  BY ConstantsAssumption DEF Init, PhaseInv, Phases
<1>2. ASSUME Typed, PhaseInv, Next PROVE PhaseInv'
  <2> USE DEF valkey, key, ids, manager
  <2>1. CASE RouteExpires
    BY Zenon, <1>2, <2>1, ConstantsAssumption DEF RouteExpires, KeyGone, PhaseInv, Phases
  <2>2. CASE UNCHANGED <<route, hpc, bpc>>
    BY Zenon, <1>2, <2>2 DEF PhaseInv, Phases
  <2>3. CASE LockExpires \/ AddTraffic
    BY Zenon, <2>2, <2>3 DEF LockExpires, AddTraffic
  <2>4. CASE \E p \in Procs : Release(p) \/ ReleaseFails(p)
    BY Zenon, <2>2, <2>4 DEF Release, ReleaseGet, ReleaseDel, ReleaseFails
  <2>5. CASE \E n \in Nodes : CloseAllBegin(n) \/ CloseAllVictim(n) \/ StartDrain(n)
    BY Zenon, <2>2, <2>5 DEF CloseAllBegin, CloseAllVictim, StartDrain
  <2>6. ASSUME NEW c \in Conns, NEW n \in Nodes, Arrive(c, n) PROVE PhaseInv'
    <3>1. ASSUME NEW d \in Conns PROVE Phases(d)'
      BY Zenon, <1>2, <2>6 DEF Arrive, Typed, TypeOK, PhaseInv, Phases
    <3> QED BY Zenon, <3>1 DEF PhaseInv
  <2>7. ASSUME NEW n \in Nodes, Crash(n) PROVE PhaseInv'
    BY ZenonT(30), <1>2, <2>7 DEF Crash, PhaseInv, Phases
  <2> QED BY Zenon, <1>2, <2>1, <2>3, <2>4, <2>5, <2>6, <2>7, PhaseConnSteps DEF Next
<1>3. PhaseInv /\ UNCHANGED vars => PhaseInv'
  BY Zenon DEF vars, valkey, key, PhaseInv, Phases
<1> QED BY <1>1, <1>2, <1>3, TypedAlways, PTL DEF Spec


(* What a step of the refinement rests on. *)
ConnInv(c) == Identified(c) /\ Phases(c) /\ SectionRead(c)
RouteInv   == RouteTypes /\ \A c \in Conns : ConnInv(c)

LEMMA RouteInvAlways ==
  ASSUME ~MidSectionExpiry, DistinctIds
  PROVE  Spec => []RouteInv
<1>1. Typed /\ LockInv /\ PhaseInv => RouteInv
  BY Zenon DEF Typed, TypeOK, RouteTypes, LockInv, PhaseInv, RouteInv, ConnInv
<1> QED BY <1>1, TypedAlways, LockInvAlways, PhaseInvAlways, PTL

(* A step that moves no connection but c, and c along the stages of RouteOwner,
   and leaves the route alone is a step of RouteOwner or a stutter. *)
LifeMoves(c) ==
  \/ Life(c)' = Life(c)
  \/ Life(c) = "out" /\ Life(c)' = "taking"
  \/ Life(c) = "taking" /\ Life(c)' = "open"
  \/ Life(c) \in {"taking", "open"} /\ Life(c)' = "leaving"
  \/ Life(c) \in {"taking", "leaving"} /\ Life(c)' = "gone"

QuietMove(c) ==
  LifeMoves(c) /\ \A d \in Conns : d # c => hpc'[d] = hpc[d] /\ bpc'[d] = bpc[d]

LEMMA LivesStep ==
  ASSUME NEW c \in Conns, \A d \in Conns : d # c => hpc'[d] = hpc[d] /\ bpc'[d] = bpc[d]
  PROVE  lives' = [lives EXCEPT ![c] = Life(c)'] /\ lives[c] = Life(c)
<1>1. ASSUME NEW d \in Conns, d # c PROVE Life(d)' = Life(d)
  BY Zenon, <1>1 DEF Life
<1> QED BY Zenon, <1>1 DEF lives

LEMMA QuietStep ==
  ASSUME NEW c \in Conns, QuietMove(c), route' = route, outages' = outages
  PROVE  [Abstract!Next]_(Abstract!absVars)
<1>1. lives' = [lives EXCEPT ![c] = Life(c)'] /\ lives[c] = Life(c)
  BY Zenon, LivesStep DEF QuietMove
<1>2. CASE Life(c)' = Life(c)
  <2>1. lives' = lives
    BY Zenon, <1>1, <1>2 DEF lives
  <2> QED BY Zenon, <2>1 DEF Abstract!absVars
<1>3. CASE Life(c)' # Life(c)
  BY Zenon, <1>1, <1>3 DEF QuietMove, LifeMoves, Abstract!Next, Abstract!Proceed
<1> QED BY Zenon, <1>2, <1>3

(* The steps of a connection that leave the route alone. *)
LEMMA QuietActions ==
  ASSUME RouteInv, NEW c \in Conns,
         \/ LockStripe(c) \/ BindAcquire(c) \/ BindCollides(c) \/ Refuse503(c)
         \/ Insert(c) \/ Registered(c) \/ TeardownRemove(c) \/ UnbindAcquire(c)
         \/ Finish(c) \/ HeartbeatRead(c) \/ HeartbeatRefresh(c) \/ HealAcquire(c)
         \/ HeartbeatExit(c) \/ Abandon(c) \/ UnbindFails(c) \/ HeartbeatFails(c)
         \/ CloseConn(c) \/ TeardownStart(c)
  PROVE  [Abstract!Next]_(Abstract!absVars)
<1> USE DEF valkey, key, ids, manager
<1>a. RouteTypes /\ Phases(c)
  BY Zenon DEF RouteInv, ConnInv
<1>b. SUFFICES LifeMoves(c) /\ route' = route
  BY Zenon, <1>a, OthersStay, QuietStep DEF QuietMove, ConnStep, Handler, Heartbeat, Fault
<1>1. CASE LockStripe(c)
  BY Zenon, <1>a, <1>1 DEF LockStripe, LifeMoves, Life, RouteTypes, Phases
<1>2. CASE BindAcquire(c)
  BY Zenon, <1>a, <1>2 DEF BindAcquire, AcquireAndRead, LifeMoves, Life, RouteTypes, Phases
<1>3. CASE BindCollides(c)
  BY Zenon, <1>a, <1>3 DEF BindCollides, LifeMoves, Life, RouteTypes, Phases
<1>4. CASE Refuse503(c)
  BY Zenon, <1>a, <1>4 DEF Refuse503, LifeMoves, Life, RouteTypes, Phases
<1>5. CASE Insert(c)
  BY Zenon, <1>a, <1>5 DEF Insert, LifeMoves, Life, RouteTypes, Phases
<1>6. CASE Registered(c)
  BY Zenon, <1>a, <1>6 DEF Registered, LifeMoves, Life, RouteTypes, Phases
<1>7. CASE TeardownRemove(c)
  BY Zenon, <1>a, <1>7 DEF TeardownRemove, HbDone, LifeMoves, Life, RouteTypes, Phases
<1>8. CASE UnbindAcquire(c)
  BY Zenon, <1>a, <1>8 DEF UnbindAcquire, AcquireAndRead, LifeMoves, Life, RouteTypes, Phases
<1>9. CASE Finish(c)
  BY Zenon, <1>a, <1>9 DEF Finish, LifeMoves, Life, RouteTypes, Phases
<1>10. CASE HeartbeatRead(c)
  BY Zenon, <1>a, <1>10 DEF HeartbeatRead, LifeMoves, Life, RouteTypes, Phases
<1>11. CASE HeartbeatRefresh(c)
  BY Zenon, <1>a, <1>11 DEF HeartbeatRefresh, LifeMoves, Life, RouteTypes, Phases
<1>12. CASE HealAcquire(c)
  BY Zenon, <1>a, <1>12 DEF HealAcquire, AcquireAndRead, LifeMoves, Life, RouteTypes, Phases
<1>13. CASE HeartbeatExit(c)
  BY Zenon, <1>a, <1>13 DEF HeartbeatExit, LifeMoves, Life, RouteTypes, Phases
<1>14. CASE Abandon(c)
  BY Zenon, <1>a, <1>14 DEF Abandon, LifeMoves, Life, RouteTypes, Phases
<1>15. CASE UnbindFails(c)
  BY Zenon, <1>a, <1>15 DEF UnbindFails, AcquireFails, LifeMoves, Life, RouteTypes, Phases
<1>16. CASE HeartbeatFails(c)
  BY Zenon, <1>a, <1>16 DEF HeartbeatFails, AcquireFails, LifeMoves, Life, RouteTypes, Phases
<1>17. CASE CloseConn(c)
  BY Zenon, <1>a, <1>17 DEF CloseConn, LifeMoves, Life, RouteTypes, Phases
<1>18. CASE TeardownStart(c)
  BY Zenon, <1>a, <1>18 DEF TeardownStart, LifeMoves, Life, RouteTypes, Phases
<1> QED BY Zenon, <1>1, <1>2, <1>3, <1>4, <1>5, <1>6, <1>7, <1>8, <1>9, <1>10, <1>11, <1>12, <1>13,
           <1>14, <1>15, <1>16, <1>17, <1>18

(* The steps that write or delete the route, or lose it, are steps of RouteOwner. *)
LEMMA RouteActions ==
  ASSUME DistinctIds, RouteInv,
         \/ RouteExpires
         \/ \E c \in Conns : \/ BindWrite(c) \/ BindFails(c) \/ UnbindDel(c) \/ HealWrite(c)
         \/ \E n \in Nodes : Crash(n)
  PROVE  [Abstract!Next]_(Abstract!absVars)
<1> USE DEF valkey, key, ids, manager
<1>a. RouteTypes
  BY Zenon DEF RouteInv
<1>1. CASE RouteExpires
  <2>1. lives' = lives /\ route' = NoConn
    BY <1>1 DEF RouteExpires, KeyGone, lives, Life
  <2>2. CASE route = NoConn
    BY Zenon, <1>1, <2>1, <2>2 DEF RouteExpires, Abstract!absVars
  <2>3. CASE route # NoConn
    <3>1. route \in Conns /\ ConnInv(route)
      BY Zenon, <1>a, <2>3 DEF RouteInv, RouteTypes
    <3>2. lives[route] = Life(route)
      BY Zenon, <3>1 DEF lives
    <3>3. ~Refreshing(route) => Life(route) \in {"leaving", "gone"}
      BY Zenon, <1>1, <1>a, <3>1 DEF RouteExpires, Binding, Refreshing, ConnInv, Phases, Life,
         RouteTypes, HandlerPCs
    <3>4. (\A c \in Owners : ~Refreshing(c)) => ~Refreshing(route)
      BY Zenon, <3>1 DEF Owners, ConnInv, Identified, Phases
    <3> QED BY Zenon, <1>1, <2>1, <2>3, <3>1, <3>2, <3>3, <3>4
         DEF RouteExpires, Abstract!Next, Abstract!Lapse
  <2> QED BY Zenon, <2>2, <2>3
<1>2. ASSUME NEW c \in Conns, BindWrite(c) \/ BindFails(c) \/ UnbindDel(c) \/ HealWrite(c)
      PROVE [Abstract!Next]_(Abstract!absVars)
  <2>0. ConnInv(c)
    BY Zenon DEF RouteInv
  <2>1. (\A d \in Conns : d # c => hpc'[d] = hpc[d] /\ bpc'[d] = bpc[d]) /\ outages' = outages
    BY Zenon, <1>2, <1>a, OthersStay DEF ConnStep, Handler, Heartbeat, Fault
  <2>2. lives' = [lives EXCEPT ![c] = Life(c)'] /\ lives[c] = Life(c)
    BY Zenon, <2>1, LivesStep
  <2>4. CASE BindWrite(c)
    <3>1. Life(c) = "taking" /\ Life(c)' = "taking" /\ route' = c
      BY Zenon, <1>a, <2>0, <2>4 DEF BindWrite, BindHSet, Life, RouteTypes, ConnInv, Identified
    <3>2. lives' = lives
      BY ZenonT(30), <2>2, <3>1 DEF lives
    <3> QED BY Zenon, <2>1, <2>2, <3>1, <3>2 DEF Abstract!Next, Abstract!Take
  <2>5. CASE BindFails(c)
    <3>1. Life(c) = "taking" /\ Life(c)' = "leaving" /\ route' \in {c, route}
      BY Zenon, <1>a, <2>0, <2>5 DEF BindFails, AcquireFails, BindHSet, Life, RouteTypes, ConnInv, Identified
    <3>2. CASE route' = route
      BY Zenon, <2>1, <3>1, <3>2, QuietStep DEF QuietMove, LifeMoves
    <3>3. CASE route' = c
      BY Zenon, <2>1, <2>2, <3>1, <3>3 DEF Abstract!Next, Abstract!Take
    <3> QED BY Zenon, <3>1, <3>2, <3>3
  <2>6. CASE UnbindDel(c)
    <3>1. Life(c) = "leaving" /\ Life(c)' = "leaving"
      BY Zenon, <1>a, <2>6 DEF UnbindDel, Life, RouteTypes
    <3>2. route' = route \/ (route = c /\ route' = NoConn)
      BY Zenon, <1>a, <2>0, <2>6 DEF UnbindDel, KeyGone, ConnInv, Identified, SectionRead
    <3>3. lives' = lives
      BY Zenon, <2>2, <3>1 DEF lives
    <3> QED BY Zenon, <2>1, <2>2, <3>1, <3>2, <3>3 DEF Abstract!Next, Abstract!Withdraw,
         Abstract!absVars
  <2>7. CASE HealWrite(c)
    <3>1. Life(c) = "open" /\ Life(c)' = "open"
      BY Zenon, <1>a, <2>0, <2>7 DEF HealWrite, Life, RouteTypes, ConnInv, Phases
    <3>2. route' = route \/ (route = NoConn /\ route' = c)
      BY Zenon, <1>a, <2>0, <2>7 DEF HealWrite, BindHSet, ConnInv, Identified, Phases, SectionRead
    <3>3. lives' = lives
      BY Zenon, <2>2, <3>1 DEF lives
    <3> QED BY Zenon, <2>1, <2>2, <3>1, <3>2, <3>3 DEF Abstract!Next, Abstract!Restore,
         Abstract!absVars
  <2> QED BY Zenon, <1>2, <2>4, <2>5, <2>6, <2>7
<1>3. ASSUME NEW n \in Nodes, Crash(n) PROVE [Abstract!Next]_(Abstract!absVars)
  <2> DEFINE dead == {c \in Conns : home[c] = n}
  <2>1. ASSUME NEW d \in Conns
        PROVE  Life(d)' = IF d \in dead THEN "gone" ELSE Life(d)
    <3>1. /\ d \in dead => hpc'[d] = "done"
          /\ d \notin dead => hpc'[d] = hpc[d] /\ bpc'[d] = bpc[d]
      BY Zenon, <1>3 DEF Crash
    <3> HIDE DEF dead
    <3>2. CASE d \in dead
      <4>1. Life(d)' = "gone"
        BY Zenon, <3>1, <3>2 DEF Life
      <4> QED BY Zenon, <3>2, <4>1
    <3>3. CASE d \notin dead
      <4>1. Life(d)' = Life(d)
        BY Zenon, <3>1, <3>3 DEF Life
      <4> QED BY Zenon, <3>3, <4>1
    <3> QED BY Zenon, <3>2, <3>3
  <2>2. lives' = [d \in Conns |-> IF d \in dead THEN "gone" ELSE lives[d]]
    BY Zenon, <2>1 DEF lives
  <2>3. dead \in SUBSET Conns /\ route' = route /\ outages' = outages
    BY Zenon, <1>3 DEF Crash
  <2> QED BY Zenon, <2>2, <2>3 DEF Abstract!Next, Abstract!Die
<1> QED BY Zenon, <1>1, <1>2, <1>3

(* The locked sections, the heartbeat handshake and the compare-before-delete
   of internal/router and internal/phoneconn implement RouteOwner, for every
   number of nodes and connections and whatever fails or crashes. *)
THEOREM Refinement ==
  ASSUME ~MidSectionExpiry, DistinctIds
  PROVE  Spec => ImplementsRouteOwner
<1>1. Init => Abstract!Init
  BY DEF Init, Abstract!Init, lives, Life
<1>2. RouteInv /\ [Next]_vars => [Abstract!Next]_(Abstract!absVars)
  <2> SUFFICES ASSUME RouteInv, [Next]_vars PROVE [Abstract!Next]_(Abstract!absVars)
    OBVIOUS
  <2> USE DEF valkey, key, ids, manager
  <2>1. CASE UNCHANGED <<route, hpc, bpc, outages>>
    <3>1. lives' = lives
      BY <2>1 DEF lives, Life
    <3> QED BY Zenon, <2>1, <3>1 DEF Abstract!absVars
  <2>2. CASE UNCHANGED vars
    BY Zenon, <2>1, <2>2 DEF vars
  <2>3. CASE LockExpires \/ AddTraffic
    BY Zenon, <2>1, <2>3 DEF LockExpires, AddTraffic
  <2>4. ASSUME NEW p \in Procs, Release(p) \/ ReleaseFails(p)
        PROVE UNCHANGED <<route, hpc, bpc, outages>>
    BY Zenon, <2>4 DEF Release, ReleaseGet, ReleaseDel, ReleaseFails
  <2>5. ASSUME NEW n \in Nodes, CloseAllBegin(n) \/ CloseAllVictim(n) \/ StartDrain(n)
        PROVE UNCHANGED <<route, hpc, bpc, outages>>
    BY Zenon, <2>5 DEF CloseAllBegin, CloseAllVictim, StartDrain
  <2>6. ASSUME NEW c \in Conns, NEW n \in Nodes, Arrive(c, n)
        PROVE [Abstract!Next]_(Abstract!absVars)
    <3>1. QuietMove(c) /\ route' = route /\ outages' = outages
      BY Zenon, <2>6 DEF Arrive, QuietMove, LifeMoves, Life, RouteInv, RouteTypes
    <3> QED BY Zenon, <3>1, QuietStep
  <2>7. ASSUME NEW c \in Conns,
               Handler(c) \/ Heartbeat(c) \/ Fault(c) \/ CloseConn(c) \/ TeardownStart(c)
        PROVE [Abstract!Next]_(Abstract!absVars)
    BY Zenon, <2>7, QuietActions, RouteActions DEF Handler, Heartbeat, Fault
  <2> QED BY Zenon, <2>1, <2>2, <2>3, <2>4, <2>5, <2>6, <2>7, RouteActions DEF Next
<1> QED BY <1>1, <1>2, RouteInvAlways, PTL DEF Spec, ImplementsRouteOwner, Abstract!Spec

=============================================================================
