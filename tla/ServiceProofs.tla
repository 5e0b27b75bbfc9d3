---------------------------- MODULE ServiceProofs ----------------------------
(***************************************************************************)
(* What the steps of the node's own services preserve, for every number of *)
(* nodes, calls and senders and every bound on time and failures: the      *)
(* mesh pools, the shutdown and the reserved host's certificate.  Each has *)
(* an inductive invariant of its own; NodeTasksProofs draws the theorems   *)
(* about NodeTasks from them.                                              *)
(***************************************************************************)
EXTENDS MeshPool, Shutdown, ReservedCert, FiniteSetTheorems, TLAPS

-----------------------------------------------------------------------------
(* The mesh pools.  A pool's counter is the number of its running calls, so one
   that the janitor finds at zero has none. *)
Running(g) == {c \in Callers : call[c] = g}

MeshPoolInv ==
  /\ MeshPoolTypeOK /\ InUseKept
  /\ \A p \in Remotes : pools[p] <= poolsMade
  /\ \A g \in 1..MaxPools : active[g] = Cardinality(Running(g))

LEMMA RunningFinite ==
  ASSUME NEW g
  PROVE  IsFiniteSet(Running(g)) /\ Cardinality(Running(g)) \in Nat
BY Zenon, MeshPoolAssumption, FS_Subset, FS_CardinalityType DEF Running

LEMMA MeshPoolSteps ==
  ASSUME MeshPoolInv, MeshPoolNext
  PROVE  MeshPoolInv'
<1>a. MeshPoolTypeOK /\ MaxPools \in Nat
  BY Zenon, MeshPoolAssumption DEF MeshPoolInv
<1>1. ASSUME NEW c \in Callers, NEW p \in Remotes, BeginCall(c, p) PROVE MeshPoolInv'
  <2> DEFINE g == IF pools[p] = 0 THEN poolsMade + 1 ELSE pools[p]
  <2>1. /\ g \in 1..MaxPools /\ call[c] = 0 /\ call' = [call EXCEPT ![c] = g]
        /\ active' = [active EXCEPT ![g] = @ + 1]
        /\ pools' = [pools EXCEPT ![p] = g] /\ (pools[p] # 0 => g = pools[p])
    BY <1>1, <1>a DEF BeginCall, MeshPoolTypeOK
  <2>2. /\ poolsMade' \in 0..MaxPools /\ poolsMade' >= poolsMade /\ stale' \subseteq stale
        /\ g <= poolsMade'
    BY <1>1, <1>a DEF BeginCall, MeshPoolInv, MeshPoolTypeOK
  <2> HIDE DEF g
  <2>3. MeshPoolTypeOK'
    BY <1>a, <2>1, <2>2 DEF MeshPoolTypeOK
  <2>4. InUseKept'
    <3> SUFFICES ASSUME NEW d \in Callers, call'[d] # 0
                 PROVE  \E q \in Remotes : pools'[q] = call'[d]
      BY Zenon DEF InUseKept
    <3>1. CASE d = c
      BY Zenon, <1>a, <2>1, <3>1 DEF MeshPoolTypeOK
    <3>2. CASE d # c
      <4>1. call'[d] = call[d] /\ call[d] # 0
        BY Zenon, <1>a, <2>1, <3>2 DEF MeshPoolTypeOK
      <4>2. PICK q \in Remotes : pools[q] = call[d]
        BY Zenon, <4>1 DEF MeshPoolInv, InUseKept
      <4>3. pools'[q] = pools[q]
        BY Zenon, <1>a, <2>1, <4>1, <4>2 DEF MeshPoolTypeOK
      <4> QED BY Zenon, <4>1, <4>2, <4>3
    <3> QED BY Zenon, <3>1, <3>2
  <2>5. ASSUME NEW h \in 1..MaxPools PROVE active'[h] = Cardinality(Running(h)')
    <3>1. active[h] = Cardinality(Running(h))
      BY Zenon DEF MeshPoolInv
    <3>2. CASE h = g
      <4>1. Running(h)' = Running(h) \cup {c} /\ c \notin Running(h)
        BY <1>a, <2>1, <3>2 DEF Running, MeshPoolTypeOK
      <4>2. active'[h] = active[h] + 1
        BY Zenon, <1>a, <2>1, <3>2 DEF MeshPoolTypeOK
      <4> QED BY ZenonT(30), <3>1, <4>1, <4>2, RunningFinite, FS_AddElement
    <3>3. CASE h # g
      <4>1. Running(h)' = Running(h)
        BY <1>a, <2>1, <3>3 DEF Running, MeshPoolTypeOK
      <4>2. active'[h] = active[h]
        BY Zenon, <1>a, <2>1, <3>3 DEF MeshPoolTypeOK
      <4> QED BY Zenon, <3>1, <4>1, <4>2
    <3> QED BY Zenon, <3>2, <3>3
  <2>6. \A q \in Remotes : pools'[q] <= poolsMade'
    BY <1>a, <2>1, <2>2 DEF MeshPoolInv, MeshPoolTypeOK
  <2> QED BY Zenon, <2>3, <2>4, <2>5, <2>6 DEF MeshPoolInv
<1>2. ASSUME NEW c \in Callers, EndCall(c) PROVE MeshPoolInv'
  <2> DEFINE g == call[c]
  <2>1. /\ g \in 1..MaxPools /\ call' = [call EXCEPT ![c] = 0]
        /\ active' = [active EXCEPT ![g] = @ - 1] /\ UNCHANGED <<pools, poolsMade, stale>>
    BY <1>2, <1>a DEF EndCall, MeshPoolTypeOK
  <2>2. c \in Running(g)
    BY Zenon DEF Running
  <2> HIDE DEF g
  <2>3. ASSUME NEW h \in 1..MaxPools PROVE active'[h] = Cardinality(Running(h)')
    <3>1. active[h] = Cardinality(Running(h))
      BY Zenon DEF MeshPoolInv
    <3>2. CASE h = g
      <4>1. Running(h)' = Running(h) \ {c}
        BY <1>a, <2>1, <3>2 DEF Running, MeshPoolTypeOK
      <4>2. active'[h] = active[h] - 1
        BY Zenon, <1>a, <2>1, <3>2 DEF MeshPoolTypeOK
      <4> QED BY Zenon, <2>2, <3>1, <3>2, <4>1, <4>2, RunningFinite, FS_RemoveElement
    <3>3. CASE h # g
      <4>1. Running(h)' = Running(h)
        BY <1>a, <2>1, <2>2, <3>3 DEF Running, MeshPoolTypeOK
      <4>2. active'[h] = active[h]
        BY Zenon, <1>a, <2>1, <3>3 DEF MeshPoolTypeOK
      <4> QED BY Zenon, <3>1, <4>1, <4>2
    <3> QED BY Zenon, <3>2, <3>3
  <2>4. active' \in [1..MaxPools -> Nat]
    <3>1. DOMAIN active' = 1..MaxPools /\ active' = [h \in 1..MaxPools |-> active'[h]]
      BY Zenon, <1>a, <2>1 DEF MeshPoolTypeOK
    <3>2. \A h \in 1..MaxPools : Cardinality(Running(h)') \in Nat
      BY Zenon, MeshPoolAssumption, FS_Subset, FS_CardinalityType DEF Running
    <3> QED BY Zenon, <2>3, <3>1, <3>2
  <2>5. MeshPoolTypeOK'
    BY <1>a, <2>1, <2>4 DEF MeshPoolTypeOK
  <2>6. InUseKept'
    BY Zenon, <1>a, <2>1 DEF MeshPoolInv, InUseKept, MeshPoolTypeOK
  <2> QED BY Zenon, <2>1, <2>3, <2>5, <2>6 DEF MeshPoolInv
<1>3. ASSUME NEW p \in Remotes, Ages(p) PROVE MeshPoolInv'
  <2>1. pools[p] \in 1..poolsMade
    BY <1>3, <1>a DEF Ages, MeshPoolInv, MeshPoolTypeOK
  <2>2. UNCHANGED <<pools, poolsMade, active, call>> /\ stale' = stale \cup {pools[p]}
    BY Zenon, <1>3 DEF Ages
  <2>3. MeshPoolTypeOK'
    BY ZenonT(30), <2>1, <2>2, <1>a DEF MeshPoolTypeOK
  <2> QED BY Zenon, <2>2, <2>3 DEF MeshPoolInv, InUseKept, Running
<1>4. CASE Reap
  <2>1. MeshPoolTypeOK'
    BY <1>4, <1>a DEF Reap, MeshPoolTypeOK
  <2>2. ASSUME NEW c \in Callers, call'[c] # 0 PROVE \E p \in Remotes : pools'[p] = call'[c]
    <3>1. call' = call /\ active' = active
      BY Zenon, <1>4 DEF Reap
    <3>2. PICK p \in Remotes : pools[p] = call[c]
      BY Zenon, <2>2, <3>1 DEF MeshPoolInv, InUseKept
    <3>3. call[c] \in 1..MaxPools /\ c \in Running(call[c])
      BY <2>2, <3>1, <1>a DEF MeshPoolTypeOK, Running
    <3>4. active[call[c]] # 0
      BY Zenon, <3>3, RunningFinite, FS_EmptySet DEF MeshPoolInv
    <3> QED BY Zenon, <1>4, <3>1, <3>2, <3>4 DEF Reap, Reapable
  <2>3. \A p \in Remotes : pools'[p] <= poolsMade'
    BY <1>4, <1>a DEF Reap, MeshPoolInv, MeshPoolTypeOK
  <2> QED BY Zenon, <1>4, <2>1, <2>2, <2>3 DEF Reap, MeshPoolInv, InUseKept, Running
<1> QED BY Zenon, <1>1, <1>2, <1>3, <1>4 DEF MeshPoolNext

LEMMA MeshPoolInitial == MeshPoolInit => MeshPoolInv
<1> SUFFICES ASSUME MeshPoolInit PROVE MeshPoolInv
  OBVIOUS
<1>1. ASSUME NEW g \in 1..MaxPools PROVE Running(g) = {}
  BY DEF MeshPoolInit, Running
<1>2. MeshPoolTypeOK /\ InUseKept /\ \A p \in Remotes : pools[p] <= poolsMade
  BY MeshPoolAssumption DEF MeshPoolInit, MeshPoolTypeOK, InUseKept
<1>3. \A g \in 1..MaxPools : active[g] = 0
  BY Zenon DEF MeshPoolInit
<1> QED BY Zenon, <1>1, <1>2, <1>3, FS_EmptySet DEF MeshPoolInv

LEMMA MeshPoolKept == MeshPoolInv /\ [MeshPoolNext]_pvars => MeshPoolInv'
<1>1. MeshPoolInv /\ UNCHANGED pvars => MeshPoolInv'
  BY Zenon DEF pvars, MeshPoolInv, MeshPoolTypeOK, InUseKept, Running
<1> QED BY Zenon, <1>1, MeshPoolSteps

-----------------------------------------------------------------------------
(* The shutdown.  Run's position says who is gone: the tasks after their group
   was waited for, and, within the grace time, the handlers and the public
   connections after their servers were; a flush has the counted bytes in hand
   only while it writes. *)
LateRun == {"logs", "take", "flush", "leave", "quiet", "exit"}

BytesInv ==
  /\ BytesKept
  /\ sinkFaults = 0 => agg + taken + saved = made
  /\ taken # 0 => flusher = "write" \/ run = "flush"

StoppedInv ==
  /\ serving <=> run = "serve"
  /\ run \in LateRun => flusher = "off" /\ heart = "off"
  /\ logClosed => run \in LateRun
  /\ draining => run \in {"quiet", "exit"}
  /\ run = "exit" => draining
  /\ EvictorQuiet /\ StaysUnlisted

GraceInv ==
  ~graceOver =>
    /\ run \in {"edge", "group"} \cup LateRun => NoOne(Handlers \cup Issues)
    /\ run \in {"group"} \cup LateRun => NoOne(Splices)
    /\ lost = 0
    /\ run \in LateRun \ {"logs"} => queue = 0 /\ logClosed
    /\ sinkFaults = 0 /\ run \in {"flush", "leave", "quiet", "exit"} => agg = 0
    /\ sinkFaults = 0 /\ run \in {"leave", "quiet", "exit"} => taken = 0

ShutdownInv == ShutdownTypeOK /\ BytesInv /\ StoppedInv /\ GraceInv

(* The steps of the connections, the tasks and the log beside Run. *)
LEMMA BesideRun ==
  ASSUME ShutdownInv,
         \/ \E s \in Splices : Count(s) \/ SpliceEnds(s)
         \/ \E h \in Handlers : PhoneEnds(h) \/ Tells(h)
         \/ \E i \in Issues : IssueEnds(i)
         \/ SenderEnds \/ SaveEvent \/ FlushTick \/ FlushWrite \/ HeartTick \/ HeartWrite
  PROVE  ShutdownInv'
<1> USE DEF ShutdownInv, RunVars, LogVars, ByteVars, NodeVars, EvictVars
<1>1. ASSUME NEW s \in Splices, Count(s) PROVE ShutdownInv'
  <2>1. ShutdownTypeOK' /\ BytesInv'
    BY <1>1 DEF Count, ShutdownTypeOK, BytesInv, BytesKept
  <2>2. StoppedInv'
    BY Zenon, <1>1 DEF Count, StoppedInv, EvictorQuiet, StaysUnlisted
  <2>3. GraceInv'
    BY Zenon, <1>1 DEF Count, GraceInv, NoOne, LateRun
  <2> QED BY Zenon, <2>1, <2>2, <2>3
<1>2. ASSUME NEW s \in Splices, SpliceEnds(s) PROVE ShutdownInv'
  <2>1. ShutdownTypeOK' /\ BytesInv'
    BY <1>2 DEF SpliceEnds, LogEvent, ShutdownTypeOK, BytesInv, BytesKept, Everyone
  <2>2. StoppedInv'
    BY Zenon, <1>2 DEF SpliceEnds, LogEvent, StoppedInv, EvictorQuiet, StaysUnlisted
  <2>3. GraceInv'
    BY Zenon, <1>2
    DEF SpliceEnds, LogEvent, StoppedInv, GraceInv, NoOne, LateRun, ShutdownTypeOK, Everyone
  <2> QED BY Zenon, <2>1, <2>2, <2>3
<1>3. ASSUME NEW h \in Handlers, PhoneEnds(h) PROVE ShutdownInv'
  <2>1. ShutdownTypeOK' /\ BytesInv'
    BY <1>3 DEF PhoneEnds, LogEvent, ShutdownTypeOK, BytesInv, BytesKept, Everyone
  <2>2. StoppedInv'
    BY Zenon, <1>3 DEF PhoneEnds, LogEvent, StoppedInv, EvictorQuiet, StaysUnlisted
  <2>3. GraceInv'
    BY Zenon, <1>3
    DEF PhoneEnds, LogEvent, StoppedInv, GraceInv, NoOne, LateRun, ShutdownTypeOK, Everyone
  <2> QED BY Zenon, <2>1, <2>2, <2>3
<1>4. ASSUME NEW h \in Handlers, Tells(h) PROVE ShutdownInv'
  <2>1. ShutdownTypeOK' /\ BytesInv'
    BY <1>4 DEF Tells, ShutdownTypeOK, BytesInv, BytesKept, Everyone
  <2>2. StoppedInv'
    BY Zenon, <1>4 DEF Tells, StoppedInv, EvictorQuiet, StaysUnlisted
  <2>3. GraceInv'
    BY Zenon, <1>4 DEF Tells, GraceInv, NoOne, LateRun, ShutdownTypeOK, Everyone
  <2> QED BY Zenon, <2>1, <2>2, <2>3
<1>5. ASSUME NEW i \in Issues, IssueEnds(i) PROVE ShutdownInv'
  <2>1. ShutdownTypeOK' /\ BytesInv'
    BY Zenon, <1>5 DEF IssueEnds, ShutdownTypeOK, BytesInv, BytesKept, Everyone
  <2>2. StoppedInv'
    BY Zenon, <1>5 DEF IssueEnds, StoppedInv, EvictorQuiet, StaysUnlisted
  <2>3. GraceInv'
    BY Zenon, <1>5 DEF IssueEnds, GraceInv, NoOne, LateRun, ShutdownTypeOK, Everyone
  <2> QED BY Zenon, <2>1, <2>2, <2>3
<1>6. CASE SenderEnds
  <2>1. ShutdownTypeOK' /\ BytesInv'
    BY <1>6 DEF SenderEnds, ShutdownTypeOK, BytesInv, BytesKept
  <2>2. StoppedInv' /\ GraceInv'
    BY <1>6 DEF SenderEnds, StoppedInv, EvictorQuiet, StaysUnlisted, GraceInv, NoOne
  <2> QED BY Zenon, <2>1, <2>2
<1>7. CASE SaveEvent
  <2>1. ShutdownTypeOK' /\ BytesInv'
    BY <1>7 DEF SaveEvent, ShutdownTypeOK, BytesInv, BytesKept
  <2>2. StoppedInv' /\ GraceInv'
    BY <1>7
    DEF SaveEvent, StoppedInv, EvictorQuiet, StaysUnlisted, GraceInv, NoOne, ShutdownTypeOK
  <2> QED BY Zenon, <2>1, <2>2
<1>8. CASE FlushTick
  <2>1. ShutdownTypeOK' /\ BytesInv'
    BY <1>8 DEF FlushTick, TakeBytes, ShutdownTypeOK, BytesInv, BytesKept, StoppedInv, LateRun
  <2>2. StoppedInv' /\ GraceInv'
    BY Zenon, <1>8
    DEF FlushTick, TakeBytes, StoppedInv, EvictorQuiet, StaysUnlisted, GraceInv, NoOne, LateRun
  <2> QED BY Zenon, <2>1, <2>2
<1>9. CASE FlushWrite
  <2>1. ShutdownTypeOK' /\ BytesInv'
    BY <1>9 DEF FlushWrite, WriteBytes, SinkFault, Requeue, ShutdownTypeOK, BytesInv, BytesKept
  <2>2. StoppedInv' /\ GraceInv'
    BY Zenon, <1>9
    DEF FlushWrite, WriteBytes, SinkFault, Requeue, StoppedInv, EvictorQuiet, StaysUnlisted,
       GraceInv, NoOne, LateRun, ShutdownTypeOK
  <2> QED BY Zenon, <2>1, <2>2
<1>10. CASE HeartTick
  <2>1. ShutdownTypeOK' /\ BytesInv'
    BY Zenon, <1>10 DEF HeartTick, ShutdownTypeOK, BytesInv, BytesKept
  <2>2. StoppedInv' /\ GraceInv'
    BY Zenon, <1>10 DEF HeartTick, StoppedInv, EvictorQuiet, StaysUnlisted, GraceInv, NoOne, LateRun
  <2> QED BY Zenon, <2>1, <2>2
<1>11. CASE HeartWrite
  <2>1. ShutdownTypeOK' /\ BytesInv'
    BY Zenon, <1>11 DEF HeartWrite, ShutdownTypeOK, BytesInv, BytesKept
  <2>2. StoppedInv' /\ GraceInv'
    BY Zenon, <1>11 DEF HeartWrite, StoppedInv, EvictorQuiet, StaysUnlisted, GraceInv, NoOne, LateRun
  <2> QED BY Zenon, <2>1, <2>2
<1> QED BY Zenon, <1>1, <1>2, <1>3, <1>4, <1>5, <1>6, <1>7, <1>8, <1>9, <1>10, <1>11

(* Run's own steps. *)
LEMMA RunSteps ==
  ASSUME ShutdownInv, StopServing \/ GraceEnds \/ Sequence
  PROVE  ShutdownInv'
<1> USE DEF ShutdownInv, RunVars, LogVars, ByteVars, NodeVars, EvictVars, To
<1>1. CASE StopServing
  <2>1. ShutdownTypeOK' /\ BytesInv'
    BY Zenon, <1>1 DEF StopServing, ShutdownTypeOK, BytesInv, BytesKept
  <2>2. StoppedInv' /\ GraceInv'
    BY Zenon, <1>1 DEF StopServing, StoppedInv, EvictorQuiet, StaysUnlisted, GraceInv, NoOne, LateRun
  <2> QED BY Zenon, <2>1, <2>2
<1>2. CASE GraceEnds
  <2>1. ShutdownTypeOK' /\ BytesInv'
    BY Zenon, <1>2 DEF GraceEnds, ShutdownTypeOK, BytesInv, BytesKept
  <2>2. StoppedInv' /\ GraceInv'
    BY Zenon, <1>2 DEF GraceEnds, StoppedInv, EvictorQuiet, StaysUnlisted, GraceInv
  <2> QED BY Zenon, <2>1, <2>2
<1>3. CASE ShutServers \/ WaitEdge \/ WaitGroup
  <2>1. ShutdownTypeOK' /\ BytesInv'
    BY Zenon, <1>3 DEF ShutServers, WaitEdge, WaitGroup, ShutdownTypeOK, BytesInv, BytesKept
  <2>2. StoppedInv'
    BY <1>3 DEF ShutServers, WaitEdge, WaitGroup, StoppedInv, EvictorQuiet, StaysUnlisted, LateRun
  <2>3. GraceInv'
    BY Zenon, <1>3 DEF ShutServers, WaitEdge, WaitGroup, Joined, GraceInv, NoOne, LateRun
  <2> QED BY Zenon, <2>1, <2>2, <2>3
<1>4. CASE CloseLog \/ DrainLog
  <2>1. ShutdownTypeOK' /\ BytesInv'
    BY Zenon, <1>4 DEF CloseLog, DrainLog, ShutdownTypeOK, BytesInv, BytesKept
  <2>2. StoppedInv'
    BY <1>4 DEF CloseLog, DrainLog, StoppedInv, EvictorQuiet, StaysUnlisted, LateRun
  <2>3. GraceInv'
    BY Zenon, <1>4 DEF CloseLog, DrainLog, GraceInv, NoOne, LateRun
  <2> QED BY Zenon, <2>1, <2>2, <2>3
<1>5. CASE FinalTake
  <2>1. ShutdownTypeOK' /\ BytesInv'
    BY <1>5 DEF FinalTake, TakeBytes, ShutdownTypeOK, BytesInv, BytesKept, StoppedInv, LateRun
  <2>2. StoppedInv' /\ GraceInv'
    BY Zenon, <1>5
    DEF FinalTake, TakeBytes, StoppedInv, EvictorQuiet, StaysUnlisted, GraceInv, NoOne, LateRun
  <2> QED BY Zenon, <2>1, <2>2
<1>6. CASE FinalWrite
  <2>1. ShutdownTypeOK' /\ BytesInv'
    BY <1>6 DEF FinalWrite, WriteBytes, SinkFault, Requeue, ShutdownTypeOK, BytesInv, BytesKept
  <2>2. StoppedInv' /\ GraceInv'
    BY <1>6
    DEF FinalWrite, WriteBytes, SinkFault, Requeue, StoppedInv, EvictorQuiet, StaysUnlisted,
       GraceInv, NoOne, LateRun, ShutdownTypeOK
  <2> QED BY Zenon, <2>1, <2>2
<1>7. CASE Leave
  <2>1. ShutdownTypeOK' /\ BytesInv'
    <3>1. {serving, graceOver, logClosed, listed, draining}' \subseteq BOOLEAN
      BY <1>7, Zenon DEF Leave, ShutdownTypeOK
    <3> QED BY <1>7, <3>1 DEF Leave, SinkFault, ShutdownTypeOK, BytesInv, BytesKept
  <2>2. StoppedInv' /\ GraceInv'
    BY <1>7
    DEF Leave, SinkFault, StoppedInv, EvictorQuiet, StaysUnlisted, GraceInv, NoOne, LateRun,
       ShutdownTypeOK
  <2> QED BY Zenon, <2>1, <2>2
<1>8. CASE StartQuiet \/ EndQuiet
  <2>1. ShutdownTypeOK' /\ BytesInv'
    BY ZenonT(30), <1>8 DEF StartQuiet, EndQuiet, ShutdownTypeOK, BytesInv, BytesKept
  <2>2. StoppedInv'
    BY <1>8 DEF StartQuiet, EndQuiet, StoppedInv, EvictorQuiet, StaysUnlisted, LateRun
  <2>3. GraceInv'
    BY Zenon, <1>8 DEF StartQuiet, EndQuiet, GraceInv, NoOne, LateRun
  <2> QED BY Zenon, <2>1, <2>2, <2>3
<1> QED BY Zenon, <1>1, <1>2, <1>3, <1>4, <1>5, <1>6, <1>7, <1>8 DEF Sequence

LEMMA ShutdownInitial == ShutdownInit => ShutdownInv
<1> SUFFICES ASSUME ShutdownInit PROVE ShutdownInv
  OBVIOUS
<1>1. ShutdownTypeOK
  <2>1. {serving, graceOver, logClosed, listed, draining} \subseteq BOOLEAN
    BY Zenon DEF ShutdownInit
  <2> QED BY <2>1 DEF ShutdownInit, ShutdownTypeOK
<1>2. BytesInv
  BY DEF ShutdownInit, BytesInv, BytesKept
<1>3. StoppedInv
  BY Zenon DEF ShutdownInit, StoppedInv, LateRun, EvictorQuiet, StaysUnlisted
<1>4. GraceInv
  BY Zenon DEF ShutdownInit, GraceInv, LateRun
<1> QED BY Zenon, <1>1, <1>2, <1>3, <1>4 DEF ShutdownInv

LEMMA ShutdownKept == ShutdownInv /\ [ShutdownNext]_svars => ShutdownInv'
<1>1. ShutdownInv /\ UNCHANGED svars => ShutdownInv'
  BY DEF svars, ShutdownInv, ShutdownTypeOK, BytesInv, BytesKept, StoppedInv, EvictorQuiet,
     StaysUnlisted, GraceInv, NoOne
<1>2. ShutdownInv /\ ShutdownNext => ShutdownInv'
  BY Zenon, BesideRun, RunSteps DEF ShutdownNext
<1> QED BY Zenon, <1>1, <1>2

-----------------------------------------------------------------------------
(* The reserved host's certificate.  While nothing fails, a certificate that is
   not due is the shared one or is about to be shared by the lock's owner. *)
Calm ==
  /\ \A n \in Servers : rc[n] \in {"locked", "order", "publish", "release"} => n \in locked
  /\ \A n \in Servers : rc[n] # "publish" /\ ~Due(cur[n]) => shared >= cur[n]
  /\ \A n \in Servers : rc[n] \in {"order", "publish"} => Due(shared)
  /\ \A n, m \in Servers : rc[n] = "order" => Due(cur[m])
  /\ \A n, m \in Servers : rc[n] = "publish" /\ m # n => Due(cur[m])
  /\ \A n \in Servers : rc[n] \in {"acquire", "locked"} => Due(cur[n])
  /\ \A n \in Servers : rc[n] = "load" => cur[n] = 0 /\ disk[n] = 0

ReservedCertInv == ReservedCertTypeOK /\ LockOwned /\ (certFaults = 0 => Calm)

(* What one node's step does to the loops of the others: nothing. *)
LEMMA CertStepTypes ==
  ASSUME ReservedCertTypeOK, NEW n \in Servers,
         ServerStep(n) \/ ObtainFails(n) \/ ObtainAbandoned(n) \/ Restart(n)
  PROVE  /\ ReservedCertTypeOK' /\ period' = period
         /\ \A m \in Servers : m # n => rc'[m] = rc[m] /\ cur'[m] = cur[m] /\ disk'[m] = disk[m]
         /\ locked \ {n} = locked' \ {n}
         /\ certFaults' >= certFaults
<1> USE DEF ReservedCertTypeOK, CertFault, At, Store
<1>1. CASE LoadCache(n)
  BY <1>1 DEF LoadCache
<1>2. CASE MaybeRenew(n)
  <2>1. /\ cur' \in [Servers -> Nat] /\ disk' \in [Servers -> Nat]
        /\ \A m \in Servers : m # n => cur'[m] = cur[m] /\ disk'[m] = disk[m]
    BY ZenonT(30), <1>2 DEF MaybeRenew
  <2>2. \E pc \in {"acquire", "sleep"} : At(n, pc)
    BY Zenon, <1>2 DEF MaybeRenew
  <2>3. (UNCHANGED certFaults \/ CertFault) /\ UNCHANGED <<period, selfLock, shared, locked>>
    BY <1>2, Zenon DEF MaybeRenew
  <2> QED BY <2>1, <2>2, <2>3
<1>3. CASE Wake(n)
  BY <1>3 DEF Wake
<1>4. CASE Acquire(n)
  BY <1>4 DEF Acquire
<1>5. CASE Recheck(n)
  <2>1. CASE Store(n, shared) /\ At(n, "sleep") /\ Unlock(n)
    BY <1>5, <2>1 DEF Recheck, Unlock
  <2>2. CASE At(n, "order") /\ UNCHANGED <<cur, disk, selfLock, locked>>
    <3>1. UNCHANGED certFaults \/ CertFault
      BY <1>5, Zenon DEF Recheck, Unlock
    <3> QED BY <1>5, <2>2, <3>1 DEF Recheck
  <2> QED BY Zenon, <1>5, <2>1, <2>2 DEF Recheck
<1>6. CASE Obtained(n)
  BY <1>6 DEF Obtained
<1>7. CASE Publish(n)
  BY <1>7 DEF Publish
<1>8. CASE Release(n)
  BY <1>8 DEF Release, Unlock
<1>9. CASE ObtainFails(n) \/ ObtainAbandoned(n)
  BY <1>9 DEF ObtainFails, ObtainAbandoned
<1>10. CASE Restart(n)
  BY <1>10 DEF Restart
<1> QED BY Zenon, <1>1, <1>2, <1>3, <1>4, <1>5, <1>6, <1>7, <1>8, <1>9, <1>10 DEF ServerStep

(* The lock is its owner's until the owner lets go of it. *)
LEMMA LockStaysOwned ==
  ASSUME ReservedCertTypeOK, LockOwned, NEW n \in Servers,
         ServerStep(n) \/ ObtainFails(n) \/ ObtainAbandoned(n) \/ Restart(n)
  PROVE  LockOwned'
<1>1. locked \ {n} = locked' \ {n} /\ locked \subseteq Servers /\ locked' \subseteq Servers
  BY Zenon, CertStepTypes DEF ReservedCertTypeOK
<1>2. n \in locked' => selfLock' = n
  <2> USE DEF LockOwned
  <2>1. CASE LoadCache(n) \/ MaybeRenew(n) \/ Wake(n)
    BY Zenon, <2>1 DEF LoadCache, MaybeRenew, Wake
  <2>2. CASE Acquire(n)
    BY <2>2, ReservedCertAssumption DEF Acquire
  <2>3. CASE Recheck(n)
    BY ZenonT(30), <2>3 DEF Recheck, Unlock
  <2>4. CASE Obtained(n) \/ Publish(n) \/ Release(n)
    BY Zenon, <2>4 DEF Obtained, Publish, Release, Unlock
  <2>5. CASE ObtainFails(n) \/ ObtainAbandoned(n) \/ Restart(n)
    BY Zenon, <2>5 DEF ObtainFails, ObtainAbandoned, Restart
  <2> QED BY Zenon, <2>1, <2>2, <2>3, <2>4, <2>5 DEF ServerStep
<1>3. \A m \in Servers : m # n /\ selfLock = m => selfLock' = m
  <2> USE ReservedCertAssumption DEF LockOwned
  <2>1. CASE LoadCache(n) \/ MaybeRenew(n) \/ Wake(n) \/ Obtained(n) \/ Publish(n)
    BY Zenon, <2>1 DEF LoadCache, MaybeRenew, Wake, Obtained, Publish
  <2>2. CASE Acquire(n)
    BY Zenon, <2>2 DEF Acquire
  <2>3. CASE Recheck(n) \/ Release(n)
    BY ZenonT(30), <2>3 DEF Recheck, Release, Unlock
  <2>4. CASE ObtainFails(n) \/ ObtainAbandoned(n) \/ Restart(n)
    BY Zenon, <2>4 DEF ObtainFails, ObtainAbandoned, Restart
  <2> QED BY Zenon, <2>1, <2>2, <2>3, <2>4 DEF ServerStep
<1> QED BY Zenon, <1>1, <1>2, <1>3 DEF LockOwned

(* The steps of a node that can be taken without a failure keep Calm. *)
LEMMA CalmKept ==
  ASSUME ReservedCertTypeOK, LockOwned, Calm, certFaults = 0, NEW n \in Servers, ServerStep(n),
         certFaults' = 0
  PROVE  Calm'
<1>a. /\ ReservedCertTypeOK' /\ period' = period
      /\ \A m \in Servers : m # n => rc'[m] = rc[m] /\ cur'[m] = cur[m] /\ disk'[m] = disk[m]
      /\ \A m \in Servers : m # n => (m \in locked' <=> m \in locked)
  BY Zenon, CertStepTypes
<1>b. ~CertFault
  BY DEF CertFault
<1> USE DEF Due
<1>1. CASE LoadCache(n)
  <2>1. /\ shared' = shared /\ rc'[n] = "check"
        /\ cur'[n] \in {0, shared}
    BY Zenon, <1>1, <1>b DEF LoadCache, Store, At, Calm, Expired, ReservedCertTypeOK
  <2> QED BY <1>a, <2>1 DEF Calm, ReservedCertTypeOK
<1>2. CASE MaybeRenew(n)
  <2>1. /\ shared' = shared /\ rc[n] = "check"
        /\ cur'[n] \in {cur[n], shared} /\ rc'[n] \in {"acquire", "sleep"}
        /\ rc'[n] = "acquire" => cur'[n] = 0 \/ Due(cur'[n])
    BY Zenon, <1>2, <1>b DEF MaybeRenew, Store, At, Wants, ReservedCertTypeOK
  <2> QED BY <1>a, <2>1 DEF Calm, ReservedCertTypeOK
<1>3. CASE Wake(n)
  <2>1. /\ shared' = shared /\ rc[n] = "sleep" /\ rc'[n] = "check"
        /\ cur'[n] = cur[n]
    BY Zenon, <1>3 DEF Wake, At, ReservedCertTypeOK
  <2> QED BY <1>a, <2>1 DEF Calm, ReservedCertTypeOK
<1>4. CASE Acquire(n)
  <2>1. /\ shared' = shared /\ rc[n] = "acquire" /\ cur'[n] = cur[n]
        /\ rc'[n] = "sleep" \/ (rc'[n] = "locked" /\ n \in locked')
    BY Zenon, <1>4, <1>b DEF Acquire, At, ReservedCertTypeOK
  <2> QED BY <1>a, <2>1 DEF Calm, ReservedCertTypeOK
<1>5. CASE Recheck(n)
  <2>1. CASE Adoptable(n, TRUE) /\ Store(n, shared) /\ At(n, "sleep")
    <3>1. shared' = shared /\ rc'[n] = "sleep" /\ cur'[n] = shared
      BY Zenon, <1>5, <2>1 DEF Recheck, Store, At, ReservedCertTypeOK
    <3> QED BY <1>a, <3>1 DEF Calm, ReservedCertTypeOK
  <2>2. CASE ~Adoptable(n, TRUE) /\ At(n, "order") /\ UNCHANGED <<cur, locked>>
    <3>1. shared' = shared /\ rc'[n] = "order" /\ locked' = locked /\ cur' = cur
          /\ rc[n] = "locked"
      BY Zenon, <1>5, <2>2 DEF Recheck, At, ReservedCertTypeOK
    <3>2. Due(cur[n]) /\ Due(shared)
      BY <2>2, <3>1 DEF Adoptable, Expired, Calm, ReservedCertTypeOK
    <3>3. \A m \in Servers : m # n => rc[m] \notin {"order", "publish"}
      BY Zenon, <3>1 DEF Calm, LockOwned
    <3>4. \A m \in Servers : Due(cur[m])
      BY <3>1, <3>2, <3>3 DEF Calm, ReservedCertTypeOK
    <3> QED BY Zenon, <1>a, <3>1, <3>2, <3>3, <3>4 DEF Calm, ReservedCertTypeOK
  <2> QED BY Zenon, <1>5, <1>b, <2>1, <2>2 DEF Recheck
<1>6. CASE Obtained(n)
  <2>1. shared' = shared /\ rc[n] = "order" /\ rc'[n] = "publish" /\ locked' = locked
    BY Zenon, <1>6 DEF Obtained, At, ReservedCertTypeOK
  <2>2. \A m \in Servers : m # n => rc[m] \notin {"order", "publish"}
    BY Zenon, <2>1 DEF Calm, LockOwned
  <2> QED BY ZenonT(30), <1>a, <2>1, <2>2 DEF Calm, ReservedCertTypeOK
<1>7. CASE Publish(n)
  <2>1. /\ rc[n] = "publish" /\ rc'[n] = "release" /\ locked' = locked
        /\ cur'[n] = cur[n] /\ shared' = IF Expired(cur[n]) THEN shared ELSE cur[n]
    BY Zenon, <1>7, <1>b DEF Publish, At, ReservedCertTypeOK
  <2>2. \A m \in Servers : m # n => rc[m] \notin {"order", "publish"}
    BY Zenon, <2>1 DEF Calm, LockOwned
  <2> QED BY <1>a, <2>1, <2>2 DEF Calm, ReservedCertTypeOK, Expired
<1>8. CASE Release(n)
  <2>1. /\ shared' = shared /\ rc[n] = "release" /\ rc'[n] = "sleep"
        /\ cur'[n] = cur[n]
    BY Zenon, <1>8 DEF Release, At, ReservedCertTypeOK
  <2> QED BY <1>a, <2>1 DEF Calm, ReservedCertTypeOK
<1> QED BY Zenon, <1>1, <1>2, <1>3, <1>4, <1>5, <1>6, <1>7, <1>8 DEF ServerStep

LEMMA ReservedCertSteps ==
  ASSUME ReservedCertInv, ReservedCertNext
  PROVE  ReservedCertInv'
<1> USE DEF ReservedCertInv
<1>1. CASE NextPeriod
  BY <1>1 DEF NextPeriod, ReservedCertTypeOK, LockOwned, Calm, Due
<1>2. CASE LockLapses
  BY Zenon, <1>2, ReservedCertAssumption DEF LockLapses, ReservedCertTypeOK, LockOwned, Calm, Due
<1>3. ASSUME NEW n \in Servers, ServerStep(n) \/ ObtainFails(n) \/ ObtainAbandoned(n) \/ Restart(n)
      PROVE  ReservedCertInv'
  <2>1. ReservedCertTypeOK' /\ LockOwned' /\ certFaults' >= certFaults
    BY Zenon, <1>3, CertStepTypes, LockStaysOwned
  <2>2. CASE ServerStep(n)
    BY <2>1, <2>2, CalmKept DEF ReservedCertTypeOK
  <2>3. CASE ObtainFails(n) \/ ObtainAbandoned(n) \/ Restart(n)
    <3>1. certFaults' # 0
      BY <2>3 DEF ObtainFails, ObtainAbandoned, Restart, CertFault, ReservedCertTypeOK
    <3> QED BY Zenon, <2>1, <3>1
  <2> QED BY Zenon, <1>3, <2>2, <2>3
<1> QED BY Zenon, <1>1, <1>2, <1>3 DEF ReservedCertNext

LEMMA ReservedCertInitial == ReservedCertInit => ReservedCertInv
BY DEF ReservedCertInit, ReservedCertInv, ReservedCertTypeOK, LockOwned, Calm, Due

LEMMA ReservedCertKept == ReservedCertInv /\ [ReservedCertNext]_rvars => ReservedCertInv'
<1>1. ReservedCertInv /\ UNCHANGED rvars => ReservedCertInv'
  BY Zenon DEF rvars, ReservedCertInv, ReservedCertTypeOK, LockOwned, Calm, Due
<1> QED BY Zenon, <1>1, ReservedCertSteps
=============================================================================
