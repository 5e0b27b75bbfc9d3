------------------------------- MODULE Splice -------------------------------
(***************************************************************************)
(* Public streams on an entry node and the phone connections they were     *)
(* opened through.                                                         *)
(*                                                                         *)
(* internal/edge/bridge.go handleTunnel looks a tunnel's route up, opens   *)
(* the far side through the phone's control connection, registers the      *)
(* stream, and splices: two copiers, one watcher and the handler itself    *)
(* share the two sockets, a context and a write-once close reason.  When   *)
(* a phone's control connection closes, its node ends the streams opened   *)
(* through it, here and by broadcast (internal/server/serve.go             *)
(* spliceEvictor); a node that crashes tells nobody, and the watcher's     *)
(* route check (parentGone) is the fallback.                               *)
(*                                                                         *)
(* One tunnel; its control connections are numbered in the order they      *)
(* bind the route.  The streams are all on one entry node.  Stream slots   *)
(* are modelled in StreamSlots, the route protocol in PhoneRoute, the      *)
(* dial-back rendezvous in DialBack.                                       *)
(***************************************************************************)
EXTENDS Integers, FiniteSets

CONSTANTS
  Nodes,      \* the nodes phones connect to
  Entry,      \* the node the streams are on
  Streams,    \* the public streams
  MaxConns,   \* bound: control connections of the phone
  MaxShocks,  \* bound: what ends a stream from outside (a peer closing, a quota, an eviction, a ban, a stop)
  MaxFaults   \* bound: crashes, lost broadcasts and lost routes

ASSUME SpliceAssumption ==
  Entry \in Nodes /\ MaxConns \in Nat \ {0} /\ {MaxShocks, MaxFaults} \subseteq Nat

VARIABLES
  conn,      \* the control connections: st, node
  route,     \* the connection the route names, 0 when there is none
  alive,     \* the nodes that have not crashed
  reg,       \* the nodes in the node registry
  str,       \* the streams
  evict,     \* eviction work under way: a hook to run, a broadcast to send, a message to the entry node
  stopped,   \* the entry node's serving context is cancelled
  lapsed,    \* history: the route was lost while its connection was open
  shocks, faults

vars == <<conn, route, alive, reg, str, evict, stopped, lapsed, shocks, faults>>
phones == <<conn, route, alive, reg, evict>>

Conns == 1..MaxConns
NoConn == [st |-> "none", node |-> Entry]
Idle == [pc |-> "new", via |-> 0, tried |-> FALSE, cli |-> "up", far |-> "none",
         up |-> "run", down |-> "run", watch |-> "run", ctx |-> FALSE, cut |-> FALSE,
         flags |-> {}, reason |-> "none"]
Work(st, c, why) == [st |-> st, c |-> c, why |-> why]
Reasons == {"client-close", "phone-close", "ban-evict", "quota-exhausted", "idle-timeout",
            "evicted", "server-shutdown", "admin-terminate", "error"}

Init ==
  /\ conn = [c \in Conns |-> NoConn]
  /\ route = 0
  /\ alive = Nodes /\ reg = Nodes
  /\ str = [s \in Streams |-> Idle]
  /\ evict = {}
  /\ stopped = FALSE /\ lapsed = FALSE /\ shocks = 0 /\ faults = 0

Fault == faults < MaxFaults /\ faults' = faults + 1
Shock == shocks < MaxShocks /\ shocks' = shocks + 1

-----------------------------------------------------------------------------
(* The phone's control connections *)

(* The phone connects, to any node that takes connections, and the route names
   the new connection.  The one it replaces may still be open (MOVE, reconnect). *)
Connect(n) ==
  /\ n \in alive /\ (n = Entry => ~stopped)
  /\ \E c \in Conns :
       /\ conn[c].st = "none" /\ \A d \in Conns : d < c => conn[d].st # "none"
       /\ conn' = [conn EXCEPT ![c] = [st |-> "open", node |-> n]]
       /\ route' = c
  /\ UNCHANGED <<alive, reg, str, evict, stopped, lapsed, shocks, faults>>

(* A connection closes, or a ban closes it: its own route is removed and the
   hook is due. *)
Close(c, why) ==
  /\ conn[c].st = "open" /\ conn[c].node \in alive
  /\ IF why = "ban-evict" THEN Shock ELSE UNCHANGED shocks
  /\ conn' = [conn EXCEPT ![c].st = "closed"]
  /\ route' = IF route = c THEN 0 ELSE route
  /\ evict' = evict \cup {Work("hook", c, why)}
  /\ UNCHANGED <<alive, reg, str, stopped, lapsed, faults>>

(* A node dies: its connections with it, its route and its registration until
   they expire, and the eviction work it had not sent. *)
Crash(n) ==
  /\ n \in alive \ {Entry} /\ Fault
  /\ alive' = alive \ {n}
  /\ conn' = [c \in Conns |-> IF conn[c].node = n /\ conn[c].st = "open"
                              THEN [conn[c] EXCEPT !.st = "closed"] ELSE conn[c]]
  /\ evict' = {w \in evict : w.st = "msg" \/ conn[w.c].node # n}
  /\ UNCHANGED <<route, reg, str, stopped, lapsed, shocks>>

(* Valkey drops what nobody refreshes; by a fault, the route of a live connection. *)
RouteLapses ==
  /\ route # 0
  /\ IF conn[route].st = "closed" THEN UNCHANGED <<lapsed, shocks, faults>>
                                  ELSE Fault /\ lapsed' = TRUE
  /\ route' = 0
  /\ UNCHANGED <<conn, alive, reg, str, evict, stopped, shocks>>

NodeLapses(n) ==
  /\ n \in reg \ alive
  /\ reg' = reg \ {n}
  /\ UNCHANGED <<conn, route, alive, str, evict, stopped, lapsed, shocks, faults>>

-----------------------------------------------------------------------------
(* Ending streams from outside *)

Tracked(s) == str[s].pc = "splice"

(* The flag is stored first, the context cancelled second. *)
Mark(S, f) == str' = [s \in Streams |->
  IF s \in S THEN [str[s] EXCEPT !.flags = @ \cup {f}, !.cut = TRUE] ELSE str[s]]

Cancel(s) ==
  /\ str[s].cut
  /\ str' = [str EXCEPT ![s].cut = FALSE, ![s].ctx = TRUE]
  /\ UNCHANGED <<phones, stopped, lapsed, shocks, faults>>

(* evictLeastActive: another stream of a saturated tunnel takes this one's place. *)
EvictLeast(s) ==
  /\ Tracked(s) /\ "evicted" \notin str[s].flags
  /\ Mark({s}, "evicted")
  /\ Shock /\ UNCHANGED <<phones, stopped, lapsed, faults>>

(* EvictTunnelStreams: an administrator terminates the tunnel. *)
EvictTunnelStreams ==
  /\ \E s \in Streams : Tracked(s) /\ "admin-terminate" \notin str[s].flags
  /\ Mark({s \in Streams : Tracked(s)}, "admin-terminate")
  /\ Shock /\ UNCHANGED <<phones, stopped, lapsed, faults>>

(* EvictConnStreams: the streams opened through one connection, those that are
   registered at this moment. *)
EvictConnStreams(c, why) == Mark({s \in Streams : Tracked(s) /\ str[s].via = c}, why)

-----------------------------------------------------------------------------
(* The splice evictor of the node whose connection closed *)

(* PhoneConnClosed: the node's own streams, then a sender for the others (its
   Drain is modelled in Shutdown). *)
PhoneConnClosed(w) ==
  LET n == conn[w.c].node
  IN /\ w \in evict /\ w.st = "hook"
     /\ IF n = Entry THEN EvictConnStreams(w.c, w.why) ELSE UNCHANGED str
     /\ evict' = (evict \ {w}) \cup {Work("send", w.c, w.why)}
     /\ UNCHANGED <<conn, route, alive, reg, stopped, lapsed, shocks, faults>>

(* The sender: a slot and the list of live nodes, then one message per node.  It
   may give up on either, and the message may be lost. *)
Broadcast(w) ==
  /\ w \in evict /\ w.st = "send"
  /\ \/ /\ evict' = (evict \ {w}) \cup IF conn[w.c].node = Entry THEN {} ELSE {Work("msg", w.c, w.why)}
        /\ UNCHANGED faults
     \/ Fault /\ evict' = evict \ {w}
  /\ UNCHANGED <<conn, route, alive, reg, str, stopped, lapsed, shocks>>

(* serveControl on the entry node answers "evict". *)
Deliver(w) ==
  /\ w \in evict /\ w.st = "msg"
  /\ evict' = evict \ {w}
  /\ EvictConnStreams(w.c, w.why)
  /\ UNCHANGED <<conn, route, alive, reg, stopped, lapsed, shocks, faults>>

-----------------------------------------------------------------------------
(* handleTunnel up to the splice *)

Gone == [Idle EXCEPT !.pc = "gone"]

Lookup(s) ==
  /\ str[s].pc = "new" /\ ~stopped
  /\ str' = [str EXCEPT ![s] = IF route = 0 THEN Gone
                               ELSE [@ EXCEPT !.pc = "open", !.via = route]]
  /\ UNCHANGED <<phones, stopped, lapsed, shocks, faults>>

(* openFar: the phone's dial-back arrives while the connection's OPEN got through... *)
Opened(s) ==
  /\ str[s].pc = "open" /\ ~stopped /\ conn[str[s].via].st = "open"
  /\ str' = [str EXCEPT ![s].pc = "reached", ![s].far = "up"]
  /\ UNCHANGED <<phones, stopped, lapsed, shocks, faults>>

(* ... or it does not; one fresh look-up, one retry if the route has changed. *)
OpenFails(s) ==
  /\ str[s].pc = "open"
  /\ str' = [str EXCEPT ![s] =
       IF ~@.tried /\ ~stopped /\ route \notin {0, @.via}
       THEN [@ EXCEPT !.via = route, !.tried = TRUE] ELSE Gone]
  /\ UNCHANGED <<phones, stopped, lapsed, shocks, faults>>

(* trackStream: from here on the evictors see the stream. *)
TrackStream(s) ==
  /\ str[s].pc = "reached"
  /\ str' = [str EXCEPT ![s].pc = "splice", ![s].ctx = stopped]
  /\ UNCHANGED <<phones, stopped, lapsed, shocks, faults>>

-----------------------------------------------------------------------------
(* splice: the two peers, two copiers, the watcher, the handler *)

ClientCloses(s) ==
  /\ Tracked(s) /\ str[s].cli = "up"
  /\ str' = [str EXCEPT ![s].cli = "peer"]
  /\ Shock /\ UNCHANGED <<phones, stopped, lapsed, faults>>

PhoneCloses(s) ==
  /\ Tracked(s) /\ str[s].far = "up"
  /\ str' = [str EXCEPT ![s].far = "peer"]
  /\ Shock /\ UNCHANGED <<phones, stopped, lapsed, faults>>

SetReason(r, why) == IF r.reason = "none" THEN [r EXCEPT !.reason = why] ELSE r
Shut(x) == IF x = "up" THEN "shut" ELSE x
CloseBoth(r) == [r EXCEPT !.cli = Shut(@), !.far = Shut(@)]

(* pacedCopy returns: its source ended, its destination failed, or the quota is
   spent.  A side this node closed itself looks the same as one its peer closed. *)
CopyUp(s) ==
  LET r == str[s]
  IN /\ Tracked(s) /\ r.up = "run"
     /\ \E why \in {"client-close", "error", "quota-exhausted"} :
          /\ why = "client-close" => r.cli # "up"
          /\ why = "error" => r.far # "up"
          /\ IF why = "quota-exhausted" THEN Shock ELSE UNCHANGED shocks
          /\ str' = [str EXCEPT ![s] = [SetReason(@, why) EXCEPT !.up = "stop"]]
     /\ UNCHANGED <<phones, stopped, lapsed, faults>>

CopyDown(s) ==
  LET r == str[s]
  IN /\ Tracked(s) /\ r.down = "run"
     /\ \E why \in {"phone-close", "error", "quota-exhausted"} :
          /\ why = "phone-close" => r.far # "up"
          /\ why = "error" => r.cli # "up"
          /\ IF why = "quota-exhausted" THEN Shock ELSE UNCHANGED shocks
          /\ str' = [str EXCEPT ![s] = [SetReason(@, why) EXCEPT !.down = "stop"]]
     /\ UNCHANGED <<phones, stopped, lapsed, faults>>

(* The reason a cancelled context stands for, in the order the watcher asks. *)
CtxReason(r) ==
  CASE "ban-evict" \in r.flags -> "ban-evict"
    [] "ban-evict" \notin r.flags /\ "admin-terminate" \in r.flags -> "admin-terminate"
    [] r.flags \cap {"ban-evict", "admin-terminate"} = {} /\ "phone-close" \in r.flags /\ ~stopped
         -> "phone-close"
    [] OTHER -> IF "evicted" \in r.flags THEN "evicted" ELSE "server-shutdown"

(* Mutant: it closes first and leaves the naming to the others. *)
ClosesFirst(r, why) == [CloseBoth(r) EXCEPT !.watch = "close"]

(* The watcher names its reason first and closes the sockets second. *)
WatchStops(r, why) == [SetReason(r, why) EXCEPT !.watch = "close"]

WatchCtx(s) ==
  /\ Tracked(s) /\ str[s].watch = "run" /\ str[s].ctx
  /\ str' = [str EXCEPT ![s] = WatchStops(@, CtxReason(@))]
  /\ UNCHANGED <<phones, stopped, lapsed, shocks, faults>>

(* A tick finds the stream idle or below the minimum rate; one name stands for
   both reasons. *)
WatchIdle(s) ==
  /\ Tracked(s) /\ str[s].watch = "run"
  /\ str' = [str EXCEPT ![s] = WatchStops(@, "idle-timeout")]
  /\ Shock /\ UNCHANGED <<phones, stopped, lapsed, faults>>

NodeGone(n) == n \notin reg

(* Mutant: a missing route says nothing. *)
RouteMissingIgnored(r) == route \notin {0, r.via} /\ NodeGone(conn[r.via].node)

(* parentGone, in one step: the route is gone, or names another connection while
   this stream's node is no longer registered.  Under a cancelled context the
   look-ups fail and the stream is kept for the context's own case. *)
ParentGone(r) == route = 0 \/ (route # r.via /\ NodeGone(conn[r.via].node))

WatchRoute(s) ==
  /\ Tracked(s) /\ str[s].watch = "run" /\ ~str[s].ctx /\ ParentGone(str[s])
  /\ str' = [str EXCEPT ![s] = WatchStops(@, "phone-close")]
  /\ UNCHANGED <<phones, stopped, lapsed, shocks, faults>>

WatchCloses(s) ==
  /\ Tracked(s) /\ str[s].watch = "close"
  /\ str' = [str EXCEPT ![s] = [CloseBoth(@) EXCEPT !.watch = "exit"]]
  /\ UNCHANGED <<phones, stopped, lapsed, shocks, faults>>

(* The handler: when one copier is done it closes both sides... *)
FirstDone(s) ==
  LET r == str[s]
  IN /\ Tracked(s) /\ "stop" \in {r.up, r.down} /\ CloseBoth(r) # r
     /\ str' = [str EXCEPT ![s] = CloseBoth(@)]
     /\ UNCHANGED <<phones, stopped, lapsed, shocks, faults>>

(* ... and returns when both copiers and then the watcher have ended; the
   deferred clean-up unregisters the stream and logs its end. *)
Finished(r) == r.up = "stop" /\ r.down = "stop" /\ r.watch \in {"run", "exit"}

Ended(r) == [r EXCEPT !.pc = "end", !.cut = FALSE, !.ctx = FALSE, !.tried = FALSE,
                      !.flags = @ \cap {r.reason}, !.watch = IF @ = "run" THEN "exit" ELSE @]

Returns(s) ==
  /\ Tracked(s) /\ Finished(str[s])
  /\ str' = [str EXCEPT ![s] = Ended(@)]
  /\ UNCHANGED <<phones, stopped, lapsed, shocks, faults>>

(* The shutdown cancels the serving context, and every stream's with it. *)
Stop ==
  /\ ~stopped /\ stopped' = TRUE
  /\ str' = [s \in Streams |-> IF Tracked(s) THEN [str[s] EXCEPT !.ctx = TRUE] ELSE str[s]]
  /\ Shock /\ UNCHANGED <<phones, lapsed, faults>>

-----------------------------------------------------------------------------
Handler(s) ==
  \/ Lookup(s) \/ Opened(s) \/ OpenFails(s) \/ TrackStream(s)
  \/ CopyUp(s) \/ CopyDown(s) \/ FirstDone(s) \/ Returns(s)
  \/ WatchCtx(s) \/ WatchRoute(s) \/ WatchCloses(s) \/ Cancel(s)

Next ==
  \/ \E n \in Nodes : Connect(n) \/ Crash(n) \/ NodeLapses(n)
  \/ \E c \in Conns, why \in {"phone-close", "ban-evict"} : Close(c, why)
  \/ \E w \in evict : PhoneConnClosed(w) \/ Broadcast(w) \/ Deliver(w)
  \/ RouteLapses \/ EvictTunnelStreams \/ Stop
  \/ \E s \in Streams : Handler(s) \/ EvictLeast(s) \/ ClientCloses(s) \/ PhoneCloses(s) \/ WatchIdle(s)

Spec == Init /\ [][Next]_vars

(* Goroutines run, the dial-back wait has a deadline, the watcher ticks, Valkey
   keys expire, and the senders' calls have a deadline.  Nothing makes a peer
   close, a quota run out or a phone reconnect. *)
LiveSpec ==
  /\ Spec
  /\ \A s \in Streams :
       /\ WF_vars(Lookup(s)) /\ WF_vars(OpenFails(s)) /\ WF_vars(TrackStream(s))
       /\ WF_vars(str[s].cli # "up" /\ CopyUp(s)) /\ WF_vars(str[s].far # "up" /\ CopyDown(s))
       /\ WF_vars(FirstDone(s)) /\ WF_vars(Returns(s)) /\ WF_vars(Cancel(s))
       /\ WF_vars(WatchCtx(s)) /\ WF_vars(WatchRoute(s)) /\ WF_vars(WatchCloses(s))
  /\ \A n \in Nodes : WF_vars(NodeLapses(n))
  /\ WF_vars(route # 0 /\ conn[route].st = "closed" /\ RouteLapses)
  /\ WF_vars(\E w \in evict : PhoneConnClosed(w) \/ Broadcast(w) \/ Deliver(w))

-----------------------------------------------------------------------------
(* Type invariant of the splice state. *)
TypeOK ==
  /\ \A c \in Conns : conn[c].st \in {"none", "open", "closed"} /\ conn[c].node \in Nodes
  /\ route \in 0..MaxConns
  /\ alive \subseteq Nodes /\ reg \subseteq Nodes
  /\ \A s \in Streams :
       /\ str[s].pc \in {"new", "open", "reached", "splice", "end", "gone"}
       /\ str[s].reason \in Reasons \cup {"none"}
       /\ str[s].via = 0 => str[s].pc \in {"new", "gone"}
       /\ str[s].pc = "end" => str[s].reason # "none"

(* The close reason in the connection log is what happened (bridge.go:353-476): *)
(* a side is said to have closed only if it did, and not because this node shut  *)
(* the socket; "phone-close" otherwise needs the stream's own connection or one  *)
(* that replaced it to be gone, so a stream whose phone merely moved is kept; a  *)
(* ban, a termination, an eviction or a shutdown is named only if there was one. *)
ReasonHonest ==
  \A s \in Streams :
    LET r == str[s]
    IN r.pc = "end" =>
         /\ r.reason = "client-close" => r.cli = "peer"
         /\ r.reason = "error" => "peer" \in {r.cli, r.far}
         /\ r.reason = "phone-close" =>
              r.far = "peer" \/ lapsed \/ \E c \in r.via..MaxConns : conn[c].st = "closed"
         /\ r.reason \in {"ban-evict", "admin-terminate", "evicted"} => r.reason \in r.flags
         /\ r.reason = "server-shutdown" => stopped

(* Nothing writes a stream's counters or reason after splice has returned       *)
(* (bridge.go:469-475): both copiers and the watcher have ended by then.         *)
NoWriterLeft ==
  \A s \in Streams : str[s].pc = "end" =>
    str[s].up = "stop" /\ str[s].down = "stop" /\ str[s].watch = "exit"

(* A stream whose end is due ends.  A tunnel whose phone stays away keeps no     *)
(* stream (bridge.go:478-496), whether its connection closed, its node crashed,  *)
(* or the eviction was lost or came before the stream was registered; and once   *)
(* the serving context is cancelled every handler returns, so that the shutdown's *)
(* wait for them ends by itself (edge.go:117-129).                               *)
StreamsEnd ==
  /\ <>[](route = 0) => <>[](\A s \in Streams : ~Tracked(s))
  /\ stopped ~> \A s \in Streams : str[s].pc \in {"new", "end", "gone"}

(* docs/PROTOCOL.md:208: "When the control connection closes (for any reason),  *)
(* every splice opened through it ends, on every node".                          *)
EndsWithItsConnection ==
  \A s \in Streams : (Tracked(s) /\ conn[str[s].via].st = "closed") ~> ~Tracked(s)
=============================================================================
