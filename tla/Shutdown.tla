----------------------------- MODULE Shutdown ------------------------------
(***************************************************************************)
(* The end of a node (internal/server/server.go Run, from the select on):  *)
(* what runs while the node serves, what it leaves to be saved, and the    *)
(* order in which Run stops, joins and flushes all of it.  Phone handlers  *)
(* and splices end with an event for the connection log; splices count     *)
(* bytes in the recorder (internal/metrics/recorder.go), which a flusher   *)
(* saves; a phone that leaves makes the splice evictor                     *)
(* (internal/server/serve.go spliceEvictor) tell the other nodes; the      *)
(* heartbeat keeps the node listed.  The connection log's own spool is     *)
(* the module Spool, the draining before this the module Drain.            *)
(***************************************************************************)
EXTENDS Focus, Integers, FiniteSets

CONSTANTS
  Handlers,      \* phone control connections
  Splices,       \* public connections
  Issues,        \* certificate requests, which no stop interrupts
  MaxBytes,      \* bound on the bytes the splices count
  MaxSinkFaults  \* bound on failed writes

VARIABLES
  run,        \* where Run is
  serving,    \* the serving context is not cancelled
  graceOver,  \* --shutdown-grace has passed
  at,         \* the handlers: "on", or how far their end is, or "off"
  made,       \* history: bytes counted
  queue,      \* events waiting in the connection log; closed by Drain
  logClosed,
  logged,     \* events saved
  lost,       \* events that came after the log was closed
  agg,        \* recorder: bytes not yet taken by a flush
  taken,      \* recorder: bytes a flush has taken and not saved
  flusher,    \* "wait", "write" or "off"
  saved,      \* bytes saved
  heart,      \* the heartbeat: "wait", "write" or "off"
  listed,     \* the node is in the node list
  draining,   \* spliceEvictor.draining
  senders,    \* broadcasts running: their wait group
  sinkFaults

svars == <<run, serving, graceOver, at, made, queue, logClosed, logged, lost, agg, taken,
           flusher, saved, heart, listed, draining, senders, sinkFaults>>

Everyone == Handlers \cup Splices \cup Issues

ShutdownInit ==
  /\ run = "serve" /\ serving = TRUE /\ graceOver = FALSE
  /\ at = [h \in Everyone |-> "on"]
  /\ made = 0
  /\ queue = 0 /\ logClosed = FALSE /\ logged = 0 /\ lost = 0
  /\ agg = 0 /\ taken = 0 /\ flusher = "wait" /\ saved = 0
  /\ heart = "wait" /\ listed = TRUE
  /\ draining = FALSE /\ senders = 0 /\ sinkFaults = 0

SinkFault == sinkFaults < MaxSinkFaults /\ sinkFaults' = sinkFaults + 1

LogVars == <<queue, logClosed, logged, lost>>
ByteVars == <<agg, taken, flusher, saved>>
NodeVars == <<heart, listed>>
EvictVars == <<draining, senders>>
RunVars == <<run, serving, graceOver>>

(* accum: pacedCopy counts what it forwards. *)
Count(s) ==
  /\ at[s] = "on" /\ made < MaxBytes
  /\ made' = made + 1
  /\ agg' = agg + 1
  /\ UNCHANGED <<RunVars, at, LogVars, taken, flusher, saved, NodeVars, EvictVars, sinkFaults>>

(* ConnLogSpool: an event is queued, or dropped once the log is closed. *)
LogEvent ==
  /\ queue' = IF logClosed THEN queue ELSE queue + 1
  /\ lost' = IF logClosed THEN lost + 1 ELSE lost
  /\ UNCHANGED <<logClosed, logged>>

(* A splice returns with its end event: by itself, or because the serving context
   is cancelled. *)
SpliceEnds(s) ==
  /\ at[s] = "on" /\ at' = [at EXCEPT ![s] = "off"]
  /\ LogEvent
  /\ UNCHANGED <<RunVars, made, ByteVars, NodeVars, EvictVars, sinkFaults>>

(* A control handler's teardown: the end event, then PhoneConnClosed.  The phone
   leaves, or CloseAll has closed the connection. *)
PhoneEnds(h) ==
  /\ at[h] = "on" /\ at' = [at EXCEPT ![h] = "ended"]
  /\ LogEvent
  /\ UNCHANGED <<RunVars, made, ByteVars, NodeVars, EvictVars, sinkFaults>>

(* PhoneConnClosed: a broadcast is started unless the evictor drains. *)
Tells(h) ==
  /\ at[h] = "ended" /\ at' = [at EXCEPT ![h] = "off"]
  /\ senders' = IF draining THEN senders ELSE senders + 1
  /\ UNCHANGED <<RunVars, made, LogVars, ByteVars, NodeVars, draining, sinkFaults>>

(* An issuance ends when it ends. *)
IssueEnds(i) ==
  /\ at[i] = "on" /\ at' = [at EXCEPT ![i] = "off"]
  /\ UNCHANGED <<RunVars, made, LogVars, ByteVars, NodeVars, EvictVars, sinkFaults>>

(* A broadcast ends, after its calls, at its time limit or cancelled. *)
SenderEnds ==
  /\ senders > 0 /\ senders' = senders - 1
  /\ UNCHANGED <<RunVars, at, made, LogVars, ByteVars, NodeVars, draining, sinkFaults>>

(* The connection log's writer and uploader, see Spool. *)
SaveEvent ==
  /\ queue > 0 /\ queue' = queue - 1 /\ logged' = logged + 1
  /\ UNCHANGED <<RunVars, at, made, logClosed, lost, ByteVars, NodeVars, EvictVars, sinkFaults>>

(* flush: take what was counted... *)
TakeBytes == taken' = agg /\ agg' = 0

(* ...and on a failed write add it back to what was counted meanwhile. *)
Requeue == agg' = agg + taken

(* AddTraffic: saved, or a failed write, which may have been saved all the same. *)
WriteBytes ==
  /\ taken' = 0
  /\ \/ saved' = saved + taken /\ UNCHANGED <<agg, sinkFaults>>
     \/ SinkFault /\ Requeue /\ saved' \in {saved, saved + taken}

(* RunFlusher: its ticker, its write, and its return without a last flush. *)
FlushTick ==
  /\ flusher = "wait"
  /\ \/ agg > 0 /\ TakeBytes /\ flusher' = "write"
     \/ ~serving /\ flusher' = "off" /\ UNCHANGED <<agg, taken>>
  /\ UNCHANGED <<RunVars, at, made, LogVars, saved, NodeVars, EvictVars, sinkFaults>>

FlushWrite ==
  /\ flusher = "write" /\ flusher' = "wait"
  /\ WriteBytes
  /\ UNCHANGED <<RunVars, at, made, LogVars, NodeVars, EvictVars>>

(* heartbeatNode: its ticker and its write, which puts the node in the list. *)
HeartTick ==
  /\ heart = "wait"
  /\ heart' \in {"write"} \cup (IF serving THEN {} ELSE {"off"})
  /\ UNCHANGED <<RunVars, at, made, LogVars, ByteVars, listed, EvictVars, sinkFaults>>

HeartWrite ==
  /\ heart = "write" /\ heart' = "wait"
  /\ listed' = TRUE
  /\ UNCHANGED <<RunVars, at, made, LogVars, ByteVars, EvictVars, sinkFaults>>

-----------------------------------------------------------------------------
(* Run.  Each wait ends with what it waits for or with the grace time. *)

To(pc) == run' = pc
NoOne(who) == \A h \in who : at[h] = "off"

(* Mutant: the wait does not look at the grace time. *)
JoinedOnly(who) == NoOne(who)

Joined(who) == NoOne(who) \/ graceOver

(* The drain is over, or a task of the node failed. *)
StopServing ==
  /\ run = "serve" /\ To("servers")
  /\ serving' = FALSE
  /\ UNCHANGED <<graceOver, at, made, LogVars, ByteVars, NodeVars, EvictVars, sinkFaults>>

(* The grace time runs from then on. *)
GraceEnds ==
  /\ run \notin {"serve", "exit"} /\ ~graceOver /\ graceOver' = TRUE
  /\ UNCHANGED <<run, serving, at, made, LogVars, ByteVars, NodeVars, EvictVars, sinkFaults>>

(* The listeners are closed and CloseAll has told the phone handlers to end; the
   servers' Shutdown waits for their handlers. *)
ShutServers ==
  /\ run = "servers" /\ Joined(Handlers \cup Issues) /\ To("edge")
  /\ UNCHANGED <<serving, graceOver, at, made, LogVars, ByteVars, NodeVars, EvictVars, sinkFaults>>

(* Mutant: the public handlers are not waited for. *)
WaitNoEdge ==
  /\ run = "edge" /\ To("group")
  /\ UNCHANGED <<serving, graceOver, at, made, LogVars, ByteVars, NodeVars, EvictVars, sinkFaults>>

(* Edge.Wait and the plain listener's Wait. *)
WaitEdge ==
  /\ run = "edge" /\ Joined(Splices) /\ To("group")
  /\ UNCHANGED <<serving, graceOver, at, made, LogVars, ByteVars, NodeVars, EvictVars, sinkFaults>>

(* g.Wait: the tasks, without a time limit. *)
WaitGroup ==
  /\ run = "group" /\ flusher = "off" /\ heart = "off" /\ To("logs")
  /\ UNCHANGED <<serving, graceOver, at, made, LogVars, ByteVars, NodeVars, EvictVars, sinkFaults>>

(* connLogs.Drain closes the log, then waits until its queue is empty. *)
CloseLog ==
  /\ run = "logs" /\ ~logClosed /\ logClosed' = TRUE
  /\ UNCHANGED <<RunVars, at, made, queue, logged, lost, ByteVars, NodeVars, EvictVars, sinkFaults>>

DrainLog ==
  /\ run = "logs" /\ logClosed /\ (queue = 0 \/ graceOver) /\ To("take")
  /\ UNCHANGED <<serving, graceOver, at, made, LogVars, ByteVars, NodeVars, EvictVars, sinkFaults>>

(* FinalFlush. *)
FinalTake ==
  /\ run = "take" /\ To("flush")
  /\ TakeBytes
  /\ UNCHANGED <<serving, graceOver, at, made, LogVars, flusher, saved, NodeVars, EvictVars, sinkFaults>>

FinalWrite ==
  /\ run = "flush" /\ To("leave")
  /\ WriteBytes
  /\ UNCHANGED <<serving, graceOver, at, made, LogVars, flusher, NodeVars, EvictVars>>

(* DeregisterNode; on an error the entry is left to expire. *)
Leave ==
  /\ run = "leave" /\ To("quiet")
  /\ \/ listed' = FALSE /\ UNCHANGED sinkFaults
     \/ SinkFault /\ UNCHANGED listed
  /\ UNCHANGED <<serving, graceOver, at, made, LogVars, ByteVars, heart, EvictVars>>

(* The evictor's Drain: no more broadcasts, then wait for the ones that run; at
   the end of the grace time they are cancelled, and waited for all the same. *)
StartQuiet ==
  /\ run = "quiet" /\ ~draining /\ draining' = TRUE
  /\ UNCHANGED <<RunVars, at, made, LogVars, ByteVars, NodeVars, senders, sinkFaults>>

EndQuiet ==
  /\ run = "quiet" /\ draining /\ senders = 0 /\ To("exit")
  /\ UNCHANGED <<serving, graceOver, at, made, LogVars, ByteVars, NodeVars, EvictVars, sinkFaults>>

Sequence ==
  \/ ShutServers \/ WaitEdge \/ WaitGroup \/ CloseLog \/ DrainLog \/ FinalTake \/ FinalWrite
  \/ Leave \/ StartQuiet \/ EndQuiet

ShutdownNext ==
  \/ StopServing \/ GraceEnds \/ Sequence
  \/ \E s \in Splices : Count(s) \/ SpliceEnds(s)
  \/ \E h \in Handlers : PhoneEnds(h) \/ Tells(h)
  \/ \E i \in Issues : IssueEnds(i)
  \/ SenderEnds \/ SaveEvent \/ FlushTick \/ FlushWrite \/ HeartTick \/ HeartWrite

(* Run goes on, the grace time passes, the tasks and broadcasts notice that they
   are cancelled: select takes any case that is ready, so a ticker does not keep
   it from the cancelled context for ever.  Nothing
   ends an issuance, a splice or a teardown.  Only the heartbeat goes round: the
   other steps happen a few times each. *)
ShutdownFairness ==
  /\ WF_svars(focus = "shutdown" /\ (Sequence \/ GraceEnds \/ SenderEnds \/ FlushWrite
                      \/ (~serving /\ FlushTick /\ flusher' = "off")))
  /\ WF_svars(focus = "shutdown" /\ HeartWrite)
  /\ SF_svars(focus = "shutdown" /\ ~serving /\ HeartTick /\ heart' = "off")

-----------------------------------------------------------------------------
(* Type invariant. *)
ShutdownTypeOK ==
  /\ run \in {"serve", "servers", "edge", "group", "logs", "take", "flush", "leave", "quiet", "exit"}
  /\ {made, queue, logged, lost, agg, taken, saved, senders, sinkFaults} \subseteq Nat
  /\ {serving, graceOver, logClosed, listed, draining} \subseteq BOOLEAN
  /\ at \in [Everyone -> {"on", "ended", "off"}]
  /\ flusher \in {"wait", "write", "off"} /\ heart \in {"wait", "write", "off"}

(* No byte a splice counted is dropped by a flush, although splices count on   *)
(* while one writes and its write may fail: it is still to be taken, taken, or *)
(* saved (twice, if a write failed after it was done).                         *)
BytesKept == agg + taken + saved >= made

(* A shutdown within its grace time, and without failed writes, leaves nothing *)
(* behind: every event is in the log and every byte is saved exactly once,     *)
(* because each flush comes after the last of those it saves for.              *)
EndsClean ==
  run = "exit" /\ ~graceOver /\ sinkFaults = 0 =>
    lost = 0 /\ queue = 0 /\ saved = made

(* A node that has removed itself from the node list is not put back by a      *)
(* heartbeat that was still writing.                                           *)
StaysUnlisted == run \in {"quiet", "exit"} => ~listed \/ sinkFaults > 0

(* No broadcast runs when Run returns, not even for a phone whose teardown     *)
(* outlived the grace time: Run's caller closes what it would use.             *)
EvictorQuiet == run = "exit" => senders = 0

(* The shutdown comes to its end although an issuance, a splice or a phone's   *)
(* teardown may never do.                                                      *)
ShutdownEnded == ~serving => run = "exit"
=============================================================================
