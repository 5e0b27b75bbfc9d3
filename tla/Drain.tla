-------------------------------- MODULE Drain --------------------------------
(***************************************************************************)
(* The planned shutdown of one node: drainer.run (internal/server/drain.go) *)
(* against control connections that are being registered (serveControl and *)
(* Manager in internal/phoneconn) and issue requests (serveIssue).         *)
(*                                                                         *)
(* Each connection is of a tunnel of its own.  sendMove runs in the drainer *)
(* ("d": StartDrain, RetryMoves) and in the connection's handler ("h"); its *)
(* push into the send buffer and its write of moveDue are separate steps.  *)
(* The MOVE's address list is abstracted to whether there is one.          *)
(***************************************************************************)
EXTENDS Integers, Sequences

CONSTANTS Conns, Issues,
          Buffer,      \* capacity of conn.send
          MaxOpens,    \* OPEN frames queued during the drain
          MaxFaults    \* MOVE frames that cannot be built

ASSUME DrainAssumption == Buffer \in Nat \ {0} /\ MaxOpens \in Nat /\ MaxFaults \in Nat

VARIABLES
  dpc,       \* where drainer.run stands
  targets,   \* did LiveNodes name another node?
  addrs,     \* Manager.moveAddrs is not empty
  draining,  \* Manager.draining
  todo,      \* connections StartDrain or RetryMoves still has to go through
  cpc,       \* where each serveControl stands
  inMap,     \* Manager.conns
  closed,    \* conn.closed
  send,      \* conn.send
  due,       \* conn.moveDue
  pend,      \* what sendMove is about to store in moveDue, for "d" and "h"
  told,      \* a MOVE was written to the phone
  closeAll,  \* Manager.closeAllReason is set
  ipc,       \* where each serveIssue stands
  issuing,   \* Handler.issuing
  opens, faults

phones == <<cpc, inMap, closed, send, due, pend, told, opens>>
drainer == <<dpc, targets, addrs, draining, todo, closeAll>>
drainVars == <<drainer, phones, ipc, issuing, faults>>

DrainPCs == {"serving", "list", "addrs", "flag", "snap", "moves", "phones", "edge",
             "issues", "wait", "finished", "expired", "stopped"}
ConnPCs == {"new", "binding", "bound", "check", "running", "gone"}
IssuePCs == {"new", "counted", "issuing", "done"}
Senders == {"d", "h"}

DrainTypeOK ==
  /\ dpc \in DrainPCs
  /\ targets \in BOOLEAN /\ addrs \in BOOLEAN /\ draining \in BOOLEAN
  /\ todo \subseteq Conns /\ closeAll \in BOOLEAN
  /\ cpc \in [Conns -> ConnPCs]
  /\ inMap \subseteq Conns
  /\ closed \in [Conns -> BOOLEAN]
  /\ send \in [Conns -> Seq({"open", "move"})]
  /\ \A c \in Conns : Len(send[c]) <= Buffer
  /\ due \in [Conns -> BOOLEAN]
  /\ pend \in [Conns \X Senders -> {"none", "clear", "set"}]
  /\ told \in [Conns -> BOOLEAN]
  /\ ipc \in [Issues -> IssuePCs]
  /\ issuing \in Nat
  /\ opens \in 0..MaxOpens /\ faults \in 0..MaxFaults

DrainInit ==
  /\ dpc = "serving" /\ targets = FALSE /\ addrs = FALSE /\ draining = FALSE
  /\ todo = {} /\ closeAll = FALSE
  /\ cpc = [c \in Conns |-> "new"]
  /\ inMap = {}
  /\ closed = [c \in Conns |-> FALSE]
  /\ send = [c \in Conns |-> << >>]
  /\ due = [c \in Conns |-> FALSE]
  /\ pend = [p \in Conns \X Senders |-> "none"]
  /\ told = [c \in Conns |-> FALSE]
  /\ ipc = [i \in Issues |-> "new"]
  /\ issuing = 0
  /\ opens = MaxOpens /\ faults = MaxFaults

Full(c) == Len(send[c]) = Buffer

-----------------------------------------------------------------------------
(* sendMove *)

(* Nothing for a closed connection or without a target; otherwise the MOVE
   goes into the buffer, or the buffer is full, or the frame cannot be built. *)
SendMove(c, who) ==
  \/ /\ closed[c] \/ ~addrs
     /\ UNCHANGED <<send, pend, faults>>
  \/ /\ ~closed[c] /\ addrs /\ ~Full(c)
     /\ send' = [send EXCEPT ![c] = Append(@, "move")]
     /\ pend' = [pend EXCEPT ![<<c, who>>] = "clear"]
     /\ UNCHANGED faults
  \/ /\ ~closed[c] /\ addrs
     /\ \/ Full(c) /\ UNCHANGED faults
        \/ faults > 0 /\ faults' = faults - 1
     /\ pend' = [pend EXCEPT ![<<c, who>>] = "set"]
     /\ UNCHANGED send

(* The write of moveDue that ends a sendMove. *)
StoreDue(c, who) ==
  /\ pend[<<c, who>>] # "none"
  /\ due' = [due EXCEPT ![c] = (pend[<<c, who>>] = "set")]
  /\ pend' = [pend EXCEPT ![<<c, who>>] = "none"]
  /\ UNCHANGED <<drainer, cpc, inMap, closed, send, told, opens, ipc, issuing, faults>>

Idle(who) == \A c \in Conns : pend[<<c, who>>] = "none"

-----------------------------------------------------------------------------
(* serveControl *)

(* The first Draining check; then a pre-bind slot, a conn and register. *)
Arrive(c) ==
  /\ cpc[c] = "new"
  /\ cpc' = [cpc EXCEPT ![c] = IF draining THEN "gone" ELSE "binding"]
  /\ UNCHANGED <<drainer, inMap, closed, send, due, pend, told, opens, ipc, issuing, faults>>

(* register: the route is bound and the conn inserted, closed at once if
   CloseAll has run; or the bind failed. *)
Bind(c) ==
  /\ cpc[c] = "binding"
  /\ \/ /\ inMap' = inMap \cup {c}
        /\ closed' = [closed EXCEPT ![c] = closeAll]
        /\ cpc' = [cpc EXCEPT ![c] = "bound"]
     \/ cpc' = [cpc EXCEPT ![c] = "gone"] /\ UNCHANGED <<inMap, closed>>
  /\ UNCHANGED <<drainer, send, due, pend, told, opens, ipc, issuing, faults>>

(* Mutant of CheckAgain: no second check after the bind. *)
CheckNoMore(c) ==
  /\ cpc[c] = "bound"
  /\ cpc' = [cpc EXCEPT ![c] = "running"]
  /\ UNCHANGED <<drainer, inMap, closed, send, due, pend, told, opens, ipc, issuing, faults>>

(* The second Draining check, after the bind. *)
CheckAgain(c) ==
  /\ cpc[c] = "bound"
  /\ cpc' = [cpc EXCEPT ![c] = IF draining THEN "check" ELSE "running"]
  /\ UNCHANGED <<drainer, inMap, closed, send, due, pend, told, opens, ipc, issuing, faults>>

MoveLatecomer(c) ==
  /\ cpc[c] = "check"
  /\ SendMove(c, "h")
  /\ cpc' = [cpc EXCEPT ![c] = "running"]
  /\ UNCHANGED <<drainer, inMap, closed, due, told, opens, ipc, issuing>>

(* runControl writes the next frame. *)
Write(c) ==
  /\ cpc[c] = "running" /\ ~closed[c] /\ pend[<<c, "h">>] = "none" /\ send[c] # << >>
  /\ told' = [told EXCEPT ![c] = @ \/ Head(send[c]) = "move"]
  /\ send' = [send EXCEPT ![c] = Tail(@)]
  /\ UNCHANGED <<drainer, cpc, inMap, closed, due, pend, opens, ipc, issuing, faults>>

(* SendOpen: waits for room. *)
SendOpen(c) ==
  /\ c \in inMap /\ ~closed[c] /\ ~Full(c) /\ opens > 0
  /\ opens' = opens - 1
  /\ send' = [send EXCEPT ![c] = Append(@, "open")]
  /\ UNCHANGED <<drainer, cpc, inMap, closed, due, pend, told, ipc, issuing, faults>>

(* The phone hangs up, moved or not; the handler returns and tears down. *)
HangUp(c) ==
  /\ cpc[c] = "running" /\ ~closed[c]
  /\ closed' = [closed EXCEPT ![c] = TRUE]
  /\ UNCHANGED <<drainer, cpc, inMap, send, due, pend, told, opens, ipc, issuing, faults>>

Teardown(c) ==
  /\ cpc[c] = "running" /\ closed[c] /\ pend[<<c, "h">>] = "none"
  /\ inMap' = inMap \ {c}
  /\ cpc' = [cpc EXCEPT ![c] = "gone"]
  /\ UNCHANGED <<drainer, closed, send, due, pend, told, opens, ipc, issuing, faults>>

-----------------------------------------------------------------------------
(* serveIssue *)

(* A request counts before it looks at the flag. *)
CountIssue(i) ==
  /\ ipc[i] = "new"
  /\ issuing' = issuing + 1
  /\ ipc' = [ipc EXCEPT ![i] = "counted"]
  /\ UNCHANGED <<drainer, phones, faults>>

(* Mutants of CheckIssue: a drain refuses nothing; a refusal is uncounted by
   hand and by the deferred decrement. *)
CheckIssueBlind(i) ==
  /\ ipc[i] = "counted"
  /\ ipc' = [ipc EXCEPT ![i] = "issuing"]
  /\ UNCHANGED <<drainer, phones, issuing, faults>>

(* The Draining check: refused with 503, or on to onIssue. *)
CheckIssue(i) ==
  /\ ipc[i] = "counted"
  /\ \/ draining /\ ipc' = [ipc EXCEPT ![i] = "done"] /\ issuing' = issuing - 1
     \/ ~draining /\ ipc' = [ipc EXCEPT ![i] = "issuing"] /\ UNCHANGED issuing
  /\ UNCHANGED <<drainer, phones, faults>>

IssueEnds(i) ==
  /\ ipc[i] = "issuing"
  /\ ipc' = [ipc EXCEPT ![i] = "done"]
  /\ issuing' = issuing - 1
  /\ UNCHANGED <<drainer, phones, faults>>

-----------------------------------------------------------------------------
(* drainer.run *)

(* SIGTERM, the predrain wait, then moveTargets. *)
Stop ==
  /\ dpc = "serving" /\ dpc' = "list"
  /\ UNCHANGED <<targets, addrs, draining, todo, closeAll, phones, ipc, issuing, faults>>

MoveTargets ==
  /\ dpc = "list" /\ dpc' = "addrs"
  /\ targets' \in BOOLEAN
  /\ UNCHANGED <<addrs, draining, todo, closeAll, phones, ipc, issuing, faults>>

(* StartDrain stores the addresses before it raises the flag. *)
SetAddrs ==
  /\ dpc = "addrs" /\ dpc' = "flag"
  /\ addrs' = targets
  /\ UNCHANGED <<targets, draining, todo, closeAll, phones, ipc, issuing, faults>>

SetDraining ==
  /\ dpc = "flag"
  /\ draining' = TRUE
  /\ dpc' = IF targets THEN "snap" ELSE "phones"
  /\ UNCHANGED <<targets, addrs, todo, closeAll, phones, ipc, issuing, faults>>

Snapshot ==
  /\ dpc = "snap" /\ dpc' = "moves"
  /\ todo' = inMap
  /\ UNCHANGED <<targets, addrs, draining, closeAll, phones, ipc, issuing, faults>>

MoveOne(c) ==
  /\ dpc = "moves" /\ c \in todo /\ Idle("d")
  /\ SendMove(c, "d")
  /\ todo' = todo \ {c}
  /\ UNCHANGED <<dpc, targets, addrs, draining, closeAll, cpc, inMap, closed, due, told,
                 opens, ipc, issuing>>

AllMoved ==
  /\ dpc = "moves" /\ todo = {} /\ Idle("d")
  /\ dpc' = "phones"
  /\ UNCHANGED <<targets, addrs, draining, todo, closeAll, phones, ipc, issuing, faults>>

(* The three counters are read one after the other; LiveConns skips closed
   connections.  The edge goes on accepting public connections meanwhile, so
   Edge.Handling may say anything. *)
ReadPhones ==
  /\ dpc = "phones"
  /\ dpc' = IF \A c \in inMap : closed[c] THEN "edge" ELSE "wait"
  /\ UNCHANGED <<targets, addrs, draining, todo, closeAll, phones, ipc, issuing, faults>>

ReadEdge ==
  /\ dpc = "edge" /\ dpc' \in {"wait", "issues"}
  /\ UNCHANGED <<targets, addrs, draining, todo, closeAll, phones, ipc, issuing, faults>>

ReadIssues ==
  /\ dpc = "issues" /\ dpc' = IF issuing = 0 THEN "finished" ELSE "wait"
  /\ UNCHANGED <<targets, addrs, draining, todo, closeAll, phones, ipc, issuing, faults>>

(* Mutant of RetryMoves: the tick only polls the counters. *)
RetryNothing ==
  /\ dpc = "wait" /\ dpc' = "moves"
  /\ UNCHANGED <<targets, addrs, draining, todo, closeAll, phones, ipc, issuing, faults>>

(* The tick: RetryMoves goes through the connections with moveDue. *)
RetryMoves ==
  /\ dpc = "wait" /\ dpc' = "moves"
  /\ todo' = {c \in inMap : due[c]}
  /\ UNCHANGED <<targets, addrs, draining, closeAll, phones, ipc, issuing, faults>>

(* The deadline ends the wait; a server of the node that fails ends it too,
   also in the predrain wait. *)
Expire ==
  /\ dpc \in {"list", "wait"} /\ dpc' = "expired"
  /\ UNCHANGED <<targets, addrs, draining, todo, closeAll, phones, ipc, issuing, faults>>

(* Run stops serving and CloseAll closes what the map holds. *)
StopServing ==
  /\ dpc \in {"finished", "expired"} /\ dpc' = "stopped"
  /\ closeAll' = TRUE
  /\ closed' = [c \in Conns |-> closed[c] \/ c \in inMap]
  /\ UNCHANGED <<targets, addrs, draining, todo, cpc, inMap, send, due, pend, told, opens,
                 ipc, issuing, faults>>

-----------------------------------------------------------------------------
Control(c) ==
  \/ Bind(c) \/ CheckAgain(c) \/ MoveLatecomer(c) \/ Write(c) \/ Teardown(c)
  \/ StoreDue(c, "h")

DrainStep ==
  \/ MoveTargets \/ SetAddrs \/ SetDraining \/ Snapshot \/ AllMoved
  \/ ReadPhones \/ ReadEdge \/ ReadIssues \/ RetryMoves \/ StopServing
  \/ \E c \in Conns : MoveOne(c) \/ StoreDue(c, "d")

DrainNext ==
  \/ DrainStep \/ Stop \/ Expire
  \/ \E c \in Conns : Control(c) \/ Arrive(c) \/ SendOpen(c) \/ HangUp(c)
  \/ \E i \in Issues : CountIssue(i) \/ CheckIssue(i) \/ IssueEnds(i)

DrainSpec == DrainInit /\ [][DrainNext]_drainVars

(* The drainer and the handlers run, and phones read their control stream;
   whether phones hang up, requests come or the deadline passes is open. *)
DrainLiveSpec ==
  /\ DrainSpec
  /\ WF_drainVars(DrainStep)
  /\ \A c \in Conns : WF_drainVars(Control(c))
  /\ \A i \in Issues : WF_drainVars(CheckIssue(i) \/ IssueEnds(i))

-----------------------------------------------------------------------------
HasMove(c) == \E k \in 1..Len(send[c]) : send[c][k] = "move"

(* Once StartDrain is through, no open connection that is served without a
   MOVE has been forgotten: its MOVE is written, queued, marked due or being
   sent, also when it was bound while the drain started. *)
MoveNotLost ==
  dpc \in {"phones", "edge", "issues", "wait"} /\ targets =>
    \A c \in inMap : cpc[c] = "running" /\ ~closed[c] =>
      told[c] \/ HasMove(c) \/ due[c] \/ pend[<<c, "h">>] = "set"

(* A drain that ends before its deadline cuts no certificate issuance: none
   is running, and none that was let in can start after the last look at the
   counter. *)
NoIssueCut == dpc = "finished" => \A i \in Issues : ipc[i] # "issuing"

(* Every open phone connection of a draining node is told to move, even if its
   send buffer was full or the MOVE could not be built at first. *)
AllTold ==
  <>[](draining /\ addrs =>
         \A c \in Conns : cpc[c] = "running" => told[c] \/ closed[c])
=============================================================================
