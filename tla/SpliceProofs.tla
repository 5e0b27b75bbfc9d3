---------------------------- MODULE SpliceProofs ----------------------------
(***************************************************************************)
(* Why the reason a stream's end is logged with is what happened, for every *)
(* set of nodes and streams and any number of connections and faults.      *)
(*                                                                         *)
(* The argument needs, besides the reasons themselves: that a socket this  *)
(* node has shut implies a reason already named, so the write-once reason  *)
(* never records the node's own closing as the peer's; that a flag, and    *)
(* any eviction still under way, belongs to a connection that is closed;   *)
(* that the route names the newest connection, so that an absent route     *)
(* (unless Valkey lost it) means the newest one has closed; and that a     *)
(* cancelled context has a flag or the shutdown behind it.                 *)
(***************************************************************************)
EXTENDS Splice, TLAPS

Causes == {"phone-close", "ban-evict"}
Flags == Causes \cup {"admin-terminate", "evicted"}

Stream ==
  [pc : {"new", "open", "reached", "splice", "end", "gone"}, via : 0..MaxConns,
   tried : BOOLEAN, cli : {"up", "peer", "shut"}, far : {"none", "up", "peer", "shut"},
   up : {"run", "stop"}, down : {"run", "stop"}, watch : {"run", "close", "exit"},
   ctx : BOOLEAN, cut : BOOLEAN, flags : SUBSET Flags, reason : Reasons \cup {"none"}]

Types ==
  /\ conn \in [Conns -> [st : {"none", "open", "closed"}, node : Nodes]]
  /\ route \in 0..MaxConns
  /\ alive \subseteq reg /\ reg \subseteq Nodes
  /\ str \in [Streams -> Stream]
  /\ evict \subseteq [st : {"hook", "send", "msg"}, c : Conns, why : Causes]
  /\ stopped \in BOOLEAN /\ lapsed \in BOOLEAN

(* The control connections and the route. *)
PhoneInv ==
  /\ \A c \in Conns : conn[c].st = "open" => conn[c].node \in alive
  /\ \A c, d \in Conns : c < d /\ conn[c].st = "none" => conn[d].st = "none"
  /\ route # 0 => conn[route].st # "none" /\ \A d \in Conns : route < d => conn[d].st = "none"
  /\ route = 0 /\ ~lapsed =>
       \A c \in Conns : conn[c].st # "none" => \E d \in c..MaxConns : conn[d].st = "closed"
  /\ \A w \in evict : conn[w.c].st = "closed"

(* What ReasonHonest says of a stream that has ended, of any stream. *)
Honest(r) ==
  /\ r.reason = "client-close" => r.cli = "peer"
  /\ r.reason = "error" => "peer" \in {r.cli, r.far}
  /\ r.reason = "phone-close" =>
       r.far = "peer" \/ lapsed \/ \E c \in r.via..MaxConns : conn[c].st = "closed"
  /\ r.reason \in {"ban-evict", "admin-terminate", "evicted"} => r.reason \in r.flags
  /\ r.reason = "server-shutdown" => stopped

StreamInv(r) ==
  /\ r.pc \in {"open", "reached", "splice", "end"} => r.via # 0 /\ conn[r.via].st # "none"
  /\ r.pc \notin {"splice", "end"} => r.flags = {} /\ ~r.ctx /\ ~r.cut /\ r.reason = "none"
  /\ r.pc \in {"reached", "splice", "end"} => r.far # "none"
  /\ r.reason = "none" =>
       r.cli # "shut" /\ r.far # "shut" /\ r.up = "run" /\ r.down = "run" /\ r.watch = "run"
  /\ "phone-close" \in r.flags => r.via # 0 /\ conn[r.via].st = "closed"
  /\ r.cut => r.flags # {}
  /\ r.ctx => stopped \/ r.flags # {}
  /\ r.pc = "end" => r.up = "stop" /\ r.down = "stop" /\ r.watch = "exit"
  /\ Honest(r)

SpliceInv == Types /\ PhoneInv /\ \A s \in Streams : StreamInv(str[s])

LEMMA SpliceInitial == Init => SpliceInv
<1> SUFFICES ASSUME Init PROVE SpliceInv
  OBVIOUS
<1>1. Idle \in Stream
  BY SpliceAssumption DEF Idle, Stream
<1>2. Types
  <2>1. conn \in [Conns -> [st : {"none", "open", "closed"}, node : Nodes]]
    BY Zenon, SpliceAssumption DEF Init, NoConn
  <2>2. route \in 0..MaxConns
    BY SpliceAssumption DEF Init
  <2>3. str \in [Streams -> Stream]
    BY Zenon, <1>1 DEF Init
  <2> QED BY Zenon, <2>1, <2>2, <2>3 DEF Init, Types
<1>3. PhoneInv
  BY Zenon, SpliceAssumption DEF Init, PhoneInv, NoConn, Conns
<1>4. StreamInv(Idle)
  BY Zenon DEF StreamInv, Honest, Idle
<1> QED BY Zenon, <1>2, <1>3, <1>4 DEF Init, SpliceInv

-----------------------------------------------------------------------------
(* A stream keeps its invariant while connections only open and close and the
   shutdown and the loss of the route are only ever recorded. *)
LEMMA StreamKept ==
  ASSUME Types, NEW r \in Stream, StreamInv(r),
         \A c \in Conns : conn[c].st # "none" => conn'[c].st # "none",
         \A c \in Conns : conn[c].st = "closed" => conn'[c].st = "closed",
         stopped => stopped', lapsed => lapsed'
  PROVE  StreamInv(r)'
<1> r.via \in 0..MaxConns /\ MaxConns \in Nat
  BY Zenon, SpliceAssumption DEF Stream
<1>1. r.reason # "none" => r.via # 0
  BY Zenon DEF StreamInv, Stream
<1>2. Honest(r)'
  <2>1. ASSUME NEW c \in r.via..MaxConns, conn[c].st = "closed", r.via # 0
        PROVE  conn'[c].st = "closed"
    BY <2>1 DEF Conns
  <2> QED BY Zenon, <1>1, <2>1 DEF Honest, StreamInv
<1> QED BY <1>2 DEF StreamInv, Conns

(* A step of one stream, all else as before. *)
LEMMA OneStream ==
  ASSUME SpliceInv, NEW s \in Streams, NEW r \in Stream, StreamInv(r),
         str' = [str EXCEPT ![s] = r], UNCHANGED <<phones, lapsed>>,
         stopped' = stopped
  PROVE  SpliceInv'
<1> USE DEF SpliceInv
<1>1. Types' /\ PhoneInv'
  BY Zenon DEF Types, PhoneInv, phones
<1>2. ASSUME NEW d \in Streams PROVE StreamInv(str[d])'
  <2>1. str'[d] \in {r, str[d]} /\ str[d] \in Stream
    BY Zenon DEF Types
  <2>2. StreamInv(str'[d])
    BY Zenon, <2>1
  <2> QED BY ZenonT(30), <2>2 DEF StreamInv, Honest, phones
<1> QED BY Zenon, <1>1, <1>2

(* Streams as they were, connections and the route one step on. *)
LEMMA StreamsKept ==
  ASSUME SpliceInv, UNCHANGED <<str, stopped>>, lapsed => lapsed',
         \A c \in Conns : conn[c].st # "none" => conn'[c].st # "none",
         \A c \in Conns : conn[c].st = "closed" => conn'[c].st = "closed"
  PROVE  \A s \in Streams : StreamInv(str[s])'
<1> TAKE s \in Streams
<1>1. Types /\ str[s] \in Stream /\ StreamInv(str[s])
  BY Zenon DEF SpliceInv, Types
<1>2. PICK r : r = str[s]
  OBVIOUS
<1>3. StreamInv(r)'
  BY Zenon, <1>1, <1>2, StreamKept
<1> QED BY <1>2, <1>3 DEF StreamInv, Honest

-----------------------------------------------------------------------------
(* The phone's connections. *)
LEMMA ConnectStep ==
  ASSUME SpliceInv, NEW n \in Nodes, Connect(n)
  PROVE  SpliceInv'
<1> USE SpliceAssumption DEF SpliceInv, Conns
<1>1. PICK c \in Conns :
        /\ conn[c].st = "none" /\ \A d \in Conns : d < c => conn[d].st # "none"
        /\ conn' = [conn EXCEPT ![c] = [st |-> "open", node |-> n]]
        /\ route' = c
  BY Zenon DEF Connect
<1>2. UNCHANGED <<alive, reg, str, evict, stopped, lapsed>> /\ n \in alive
  BY Zenon DEF Connect
<1>3. Types'
  BY <1>1, <1>2 DEF Types
<1>4. conn'[c].st = "open" /\ \A d \in Conns \ {c} : conn'[d] = conn[d]
  BY Zenon, <1>1 DEF Types
<1>5. PhoneInv'
  <2>1. \A d \in Conns : conn'[d].st = "open" => conn'[d].node \in alive'
    BY Zenon, <1>1, <1>2 DEF Types, PhoneInv
  <2>2. \A d \in Conns : c < d => conn[d].st = "none"
    BY Zenon, <1>1 DEF PhoneInv
  <2>3. \A d, e \in Conns : d < e /\ conn'[d].st = "none" => conn'[e].st = "none"
    BY <1>1, <1>4, <2>2 DEF PhoneInv
  <2>4. \A w \in evict' : conn'[w.c].st = "closed"
    BY Zenon, <1>1, <1>2, <1>4 DEF PhoneInv, Types
  <2>5. \A d \in Conns : route' < d => conn'[d].st = "none"
    BY Zenon, <1>1, <1>4, <2>2
  <2>6. route' # 0 /\ conn'[route'].st # "none"
    BY <1>1, <1>4
  <2> QED BY Zenon, <2>1, <2>3, <2>4, <2>5, <2>6 DEF PhoneInv
<1>6. \A s \in Streams : StreamInv(str[s])'
  BY Zenon, <1>1, <1>2, <1>4, StreamsKept
<1> QED BY Zenon, <1>3, <1>5, <1>6

LEMMA CloseStep ==
  ASSUME SpliceInv, NEW c \in Conns, NEW why \in Causes, Close(c, why)
  PROVE  SpliceInv'
<1> USE SpliceAssumption DEF SpliceInv
<1>1. UNCHANGED <<alive, reg, str, stopped, lapsed>>
  BY Zenon DEF Close
<1>2. /\ conn' \in [Conns -> [st : {"none", "open", "closed"}, node : Nodes]]
      /\ conn'[c].st = "closed" /\ \A d \in Conns \ {c} : conn'[d] = conn[d]
  BY Zenon DEF Close, Types
<1>3. Types'
  BY <1>1, <1>2 DEF Close, Types, Work
<1>4. PhoneInv'
  <2>1. \A d \in Conns : conn'[d].st = "open" => conn'[d].node \in alive'
    BY Zenon, <1>1, <1>2 DEF PhoneInv
  <2>2. \A d \in Conns : /\ conn'[d].st = "none" <=> conn[d].st = "none"
                         /\ conn[d].st = "closed" => conn'[d].st = "closed"
    BY Zenon, <1>2 DEF Close
  <2>3. \A w \in evict' : conn'[w.c].st = "closed"
    BY <1>2 DEF Close, PhoneInv, Types, Work
  <2>4. CASE route = c
    <3>1. \A d \in Conns : conn'[d].st # "none" => c \in d..MaxConns
      BY <2>2, <2>4 DEF PhoneInv, Conns
    <3> QED BY <1>2, <2>1, <2>2, <2>3, <2>4, <3>1 DEF Close, PhoneInv
  <2>5. CASE route # c
    <3>1. route' = route
      BY Zenon, <2>5 DEF Close
    <3>2. route = 0 /\ ~lapsed =>
            \A d \in Conns : conn'[d].st # "none" => \E e \in d..MaxConns : conn'[e].st = "closed"
      BY <2>2 DEF PhoneInv, Conns
    <3>3. route # 0 => route \in Conns
      BY DEF Types, Conns
    <3> QED BY <1>1, <2>1, <2>2, <2>3, <3>1, <3>2, <3>3 DEF PhoneInv
  <2> QED BY Zenon, <2>4, <2>5
<1>5. \A s \in Streams : StreamInv(str[s])'
  BY Zenon, <1>1, <1>2, StreamsKept
<1> QED BY Zenon, <1>3, <1>4, <1>5

LEMMA CrashStep ==
  ASSUME SpliceInv, NEW n \in Nodes, Crash(n)
  PROVE  SpliceInv'
<1> USE SpliceAssumption DEF SpliceInv
<1>1. UNCHANGED <<route, reg, str, stopped, lapsed>> /\ alive' = alive \ {n}
  BY Zenon DEF Crash
<1>2. /\ conn' \in [Conns -> [st : {"none", "open", "closed"}, node : Nodes]]
      /\ \A d \in Conns : /\ conn'[d].st = "none" <=> conn[d].st = "none"
                          /\ conn[d].st = "closed" => conn'[d].st = "closed"
                          /\ conn'[d].st = "open" => conn[d].st = "open" /\ conn[d].node # n
                          /\ conn'[d].node = conn[d].node
  BY Zenon DEF Crash, Types
<1>3. Types'
  BY Zenon, <1>1, <1>2 DEF Crash, Types
<1>4. PhoneInv'
  <2>1. \A d \in Conns : conn'[d].st = "open" => conn'[d].node \in alive'
    BY <1>1, <1>2 DEF PhoneInv
  <2>2. \A w \in evict' : conn'[w.c].st = "closed"
    BY ZenonT(30), <1>2 DEF Crash, PhoneInv, Types
  <2>3. route = 0 /\ ~lapsed =>
          \A d \in Conns : conn'[d].st # "none" => \E e \in d..MaxConns : conn'[e].st = "closed"
    BY <1>2 DEF PhoneInv, Conns
  <2>4. route # 0 => route \in Conns
    BY DEF Types, Conns
  <2> QED BY ZenonT(30), <1>1, <1>2, <2>1, <2>2, <2>3, <2>4 DEF PhoneInv
<1>5. \A s \in Streams : StreamInv(str[s])'
  BY Zenon, <1>1, <1>2, StreamsKept
<1> QED BY Zenon, <1>3, <1>4, <1>5

(* The registry's and the route's keys run out. *)
LEMMA LapseSteps ==
  ASSUME SpliceInv, RouteLapses \/ \E n \in Nodes : NodeLapses(n)
  PROVE  SpliceInv'
<1> USE SpliceAssumption DEF SpliceInv
<1>1. UNCHANGED <<conn, alive, str, evict, stopped>> /\ lapsed' \in BOOLEAN /\ (lapsed => lapsed')
  BY Zenon DEF RouteLapses, NodeLapses, Types
<1>2. Types'
  BY <1>1 DEF RouteLapses, NodeLapses, Types
<1>3. PhoneInv'
  <2>1. CASE RouteLapses
    <3>1. route \in Conns /\ route' = 0
      BY <2>1 DEF RouteLapses, Types, Conns
    <3>2. \A c \in Conns : conn[c].st # "none" => route \in c..MaxConns
      BY <3>1 DEF PhoneInv, Conns
    <3>3. ~lapsed' => conn[route].st = "closed"
      BY Zenon, <2>1 DEF RouteLapses
    <3> QED BY Zenon, <1>1, <3>1, <3>2, <3>3 DEF PhoneInv
  <2>2. CASE \E n \in Nodes : NodeLapses(n)
    BY Zenon, <1>1, <2>2 DEF PhoneInv, NodeLapses
  <2> QED BY Zenon, <2>1, <2>2
<1>4. \A s \in Streams : StreamInv(str[s])'
  BY Zenon, <1>1, StreamsKept
<1> QED BY Zenon, <1>2, <1>3, <1>4

-----------------------------------------------------------------------------
(* Marking streams: a flag for each, its reason to be found in it later. *)
LEMMA MarkKeeps ==
  ASSUME SpliceInv, NEW S \in SUBSET Streams, NEW f \in Flags,
         \A s \in S : str[s].pc = "splice",
         f = "phone-close" => \A s \in S : conn[str[s].via].st = "closed",
         Mark(S, f), UNCHANGED <<conn, stopped, lapsed>>
  PROVE  str' \in [Streams -> Stream] /\ \A s \in Streams : StreamInv(str[s])'
<1> USE DEF SpliceInv
<1>1. str' \in [Streams -> Stream]
  <2>1. ASSUME NEW r \in Stream
        PROVE  [r EXCEPT !.flags = @ \cup {f}, !.cut = TRUE] \in Stream
    BY ZenonT(30) DEF Stream
  <2> QED BY Zenon, <2>1 DEF Mark, Types
<1>2. ASSUME NEW s \in Streams PROVE StreamInv(str[s])'
  <2>1. str[s] \in Stream /\ StreamInv(str[s])
    BY Zenon DEF Types
  <2>2. CASE s \notin S
    <3>1. str'[s] = str[s]
      BY Zenon, <2>2 DEF Mark
    <3> QED BY <2>1, <3>1 DEF StreamInv, Honest
  <2>3. CASE s \in S
    <3>1. str'[s] = [str[s] EXCEPT !.flags = @ \cup {f}, !.cut = TRUE]
      BY Zenon, <2>3 DEF Mark
    <3>2. /\ str'[s].flags = str[s].flags \cup {f}
          /\ str'[s].pc = "splice" /\ str'[s].via = str[s].via
          /\ str'[s].cli = str[s].cli /\ str'[s].far = str[s].far
          /\ str'[s].up = str[s].up /\ str'[s].down = str[s].down
          /\ str'[s].watch = str[s].watch /\ str'[s].ctx = str[s].ctx
          /\ str'[s].reason = str[s].reason
      BY ZenonT(30), <2>1, <2>3, <3>1 DEF Stream
    <3>3. Honest(str[s])'
      BY <2>1, <3>2 DEF StreamInv, Honest
    <3> QED BY Zenon, <2>1, <2>3, <3>2, <3>3 DEF StreamInv
  <2> QED BY Zenon, <2>2, <2>3
<1> QED BY Zenon, <1>1, <1>2

LEMMA EvictSteps ==
  ASSUME SpliceInv, EvictTunnelStreams \/ \E s \in Streams : EvictLeast(s)
  PROVE  SpliceInv'
<1> USE DEF SpliceInv
<1>1. UNCHANGED <<phones, stopped, lapsed>>
  BY Zenon DEF EvictTunnelStreams, EvictLeast
<1>2. str' \in [Streams -> Stream] /\ \A s \in Streams : StreamInv(str[s])'
  <2>1. CASE EvictTunnelStreams
    <3>1. Mark({s \in Streams : Tracked(s)}, "admin-terminate")
      BY Zenon, <2>1 DEF EvictTunnelStreams
    <3>2. "admin-terminate" \in Flags /\ {s \in Streams : Tracked(s)} \in SUBSET Streams
      BY Zenon DEF Flags
    <3>3. \A s \in {s \in Streams : Tracked(s)} : str[s].pc = "splice"
      BY Zenon DEF Tracked
    <3> QED BY Zenon, <1>1, <3>1, <3>2, <3>3, MarkKeeps DEF phones
  <2>2. ASSUME NEW s \in Streams, EvictLeast(s)
        PROVE  str' \in [Streams -> Stream] /\ \A d \in Streams : StreamInv(str[d])'
    <3>1. Mark({s}, "evicted") /\ str[s].pc = "splice" /\ "evicted" \in Flags
      BY Zenon, <2>2 DEF EvictLeast, Tracked, Flags
    <3> QED BY <1>1, <3>1, MarkKeeps DEF phones
  <2> QED BY Zenon, <2>1, <2>2
<1>3. Types' /\ PhoneInv'
  BY Zenon, <1>1, <1>2 DEF Types, PhoneInv, phones
<1> QED BY Zenon, <1>2, <1>3

(* A connection's eviction, wherever it has got to. *)
LEMMA EvictorSteps ==
  ASSUME SpliceInv, NEW w \in evict, PhoneConnClosed(w) \/ Broadcast(w) \/ Deliver(w)
  PROVE  SpliceInv'
<1> USE DEF SpliceInv
<1>1. UNCHANGED <<conn, route, alive, reg, stopped, lapsed>>
  BY Zenon DEF PhoneConnClosed, Broadcast, Deliver
<1>2. w.c \in Conns /\ w.why \in Causes /\ conn[w.c].st = "closed"
  BY Zenon DEF Types, PhoneInv
<1>3. /\ evict' \subseteq [st : {"hook", "send", "msg"}, c : Conns, why : Causes]
      /\ \A v \in evict' : conn[v.c].st = "closed"
  BY <1>2 DEF PhoneConnClosed, Broadcast, Deliver, Types, PhoneInv, Work
<1>4. str' \in [Streams -> Stream] /\ \A s \in Streams : StreamInv(str[s])'
  <2>1. CASE UNCHANGED str
    BY Zenon, <1>1, <2>1, StreamsKept DEF Types
  <2>2. CASE EvictConnStreams(w.c, w.why)
    <3> DEFINE S == {s \in Streams : Tracked(s) /\ str[s].via = w.c}
    <3>1. Mark(S, w.why) /\ S \in SUBSET Streams /\ w.why \in Flags
      BY Zenon, <1>2, <2>2 DEF EvictConnStreams, Flags
    <3>2. \A s \in S : str[s].pc = "splice" /\ conn[str[s].via].st = "closed"
      BY Zenon, <1>2 DEF Tracked
    <3> QED BY Zenon, <1>1, <3>1, <3>2, MarkKeeps
  <2> QED BY Zenon, <2>1, <2>2 DEF PhoneConnClosed, Broadcast, Deliver
<1>5. Types' /\ PhoneInv'
  BY Zenon, <1>1, <1>3, <1>4 DEF Types, PhoneInv
<1> QED BY Zenon, <1>4, <1>5

-----------------------------------------------------------------------------
(* handleTunnel up to the splice. *)
LEMMA OpenSteps ==
  ASSUME SpliceInv, NEW s \in Streams,
         Lookup(s) \/ Opened(s) \/ OpenFails(s) \/ TrackStream(s)
  PROVE  SpliceInv'
<1> USE SpliceAssumption DEF SpliceInv
<1>1. UNCHANGED <<phones, lapsed>> /\ stopped' = stopped
  BY Zenon DEF Lookup, Opened, OpenFails, TrackStream
<1>2. str[s] \in Stream /\ StreamInv(str[s]) /\ str \in [Streams -> Stream]
  BY Zenon DEF Types
<1>3. Gone \in Stream /\ StreamInv(Gone)
  <2>1. Idle \in Stream
    BY DEF Idle, Stream
  <2>2. Gone \in Stream
    BY Zenon, <2>1 DEF Gone, Stream
  <2>3. /\ Gone.pc = "gone" /\ Gone.flags = {} /\ ~Gone.ctx /\ ~Gone.cut /\ Gone.reason = "none"
        /\ Gone.cli = "up" /\ Gone.far = "none" /\ Gone.up = "run" /\ Gone.down = "run"
        /\ Gone.watch = "run"
    BY Zenon DEF Gone, Idle
  <2> QED BY Zenon, <2>2, <2>3 DEF StreamInv, Honest
<1>4. route # 0 => route \in Conns /\ conn[route].st # "none"
  BY DEF PhoneInv, Types, Conns
<1>5. CASE str' = [str EXCEPT ![s] = Gone]
  BY Zenon, <1>1, <1>3, <1>5, OneStream
<1>6. CASE /\ str[s].pc = "new" /\ route # 0
           /\ str' = [str EXCEPT ![s] = [str[s] EXCEPT !.pc = "open", !.via = route]]
  <2> DEFINE r == [str[s] EXCEPT !.pc = "open", !.via = route]
  <2>1. r \in Stream
    BY Zenon, <1>2 DEF Stream, Types
  <2>2. StreamInv(r)
    BY <1>2, <1>4, <1>6 DEF StreamInv, Honest, Stream
  <2> QED BY Zenon, <1>1, <1>6, <2>1, <2>2, OneStream
<1>7. CASE /\ str[s].pc = "open" /\ route # 0
           /\ str' = [str EXCEPT ![s] = [str[s] EXCEPT !.via = route, !.tried = TRUE]]
  <2> DEFINE r == [str[s] EXCEPT !.via = route, !.tried = TRUE]
  <2>1. r \in Stream
    BY Zenon, <1>2 DEF Stream, Types
  <2>2. StreamInv(r)
    BY ZenonT(30), <1>2, <1>4, <1>7 DEF StreamInv, Honest, Stream
  <2> QED BY Zenon, <1>1, <1>7, <2>1, <2>2, OneStream
<1>8. CASE Opened(s)
  <2> DEFINE r == [str[s] EXCEPT !.pc = "reached", !.far = "up"]
  <2>1. str[s].pc = "open" /\ str' = [str EXCEPT ![s] = r]
    BY Zenon, <1>2, <1>8 DEF Opened
  <2>2. r \in Stream
    BY Zenon, <1>2 DEF Stream
  <2>3. StreamInv(r)
    BY <1>2, <2>1 DEF StreamInv, Honest, Stream
  <2> QED BY Zenon, <1>1, <2>1, <2>2, <2>3, OneStream
<1>9. CASE TrackStream(s)
  <2> DEFINE r == [str[s] EXCEPT !.pc = "splice", !.ctx = stopped]
  <2>1. str[s].pc = "reached" /\ str' = [str EXCEPT ![s] = r]
    BY Zenon, <1>2, <1>9 DEF TrackStream
  <2>2. r \in Stream
    BY Zenon, <1>2 DEF Stream, Types
  <2>3. StreamInv(r)
    BY <1>2, <2>1 DEF StreamInv, Honest, Stream
  <2> QED BY Zenon, <1>1, <2>1, <2>2, <2>3, OneStream
<1> QED BY Zenon, <1>2, <1>5, <1>6, <1>7, <1>8, <1>9 DEF Lookup, OpenFails

(* Naming a reason, the first one to count: what is named has happened. *)
LEMMA ReasonNamed ==
  ASSUME Types, NEW r \in Stream, StreamInv(r), r.pc = "splice", NEW why \in Reasons,
         r.reason = "none" => Honest([r EXCEPT !.reason = why])
  PROVE  /\ SetReason(r, why) \in Stream /\ Honest(SetReason(r, why))
         /\ SetReason(r, why).reason # "none"
         /\ SetReason(r, why) = [r EXCEPT !.reason = SetReason(r, why).reason]
<1>1. CASE r.reason = "none"
  BY Zenon, <1>1 DEF SetReason, Stream, Reasons
<1>2. CASE r.reason # "none"
  BY <1>2 DEF SetReason, Stream, StreamInv
<1> QED BY Zenon, <1>1, <1>2

(* The copiers. *)
LEMMA CopySteps ==
  ASSUME SpliceInv, NEW s \in Streams, CopyUp(s) \/ CopyDown(s)
  PROVE  SpliceInv'
<1> USE SpliceAssumption DEF SpliceInv
<1>1. UNCHANGED <<phones, lapsed>> /\ stopped' = stopped
  BY Zenon DEF CopyUp, CopyDown
<1>2. /\ str[s] \in Stream /\ StreamInv(str[s]) /\ str \in [Streams -> Stream]
      /\ str[s].pc = "splice" /\ Types
  BY Zenon DEF Types, CopyUp, CopyDown, Tracked
<1>3. PICK why \in {"client-close", "phone-close", "error", "quota-exhausted"} :
        /\ why = "client-close" => str[s].cli # "up"
        /\ why = "phone-close" => str[s].far # "up"
        /\ why = "error" => str[s].cli # "up" \/ str[s].far # "up"
        /\ \/ str' = [str EXCEPT ![s] = [SetReason(str[s], why) EXCEPT !.up = "stop"]]
           \/ str' = [str EXCEPT ![s] = [SetReason(str[s], why) EXCEPT !.down = "stop"]]
  <2>1. CASE CopyUp(s)
    BY Zenon, <2>1 DEF CopyUp
  <2>2. CASE CopyDown(s)
    BY Zenon, <2>2 DEF CopyDown
  <2> QED BY Zenon, <2>1, <2>2
<1>4. why \in Reasons
  BY Zenon DEF Reasons
<1>5. str[s].reason = "none" => Honest([str[s] EXCEPT !.reason = why])
  BY Zenon, <1>2, <1>3 DEF Honest, StreamInv, Stream
<1> DEFINE q == SetReason(str[s], why)
           u == [q EXCEPT !.up = "stop"]
           d == [q EXCEPT !.down = "stop"]
<1>6. q \in Stream /\ Honest(q) /\ q.reason # "none" /\ q = [str[s] EXCEPT !.reason = q.reason]
  BY Zenon, <1>2, <1>4, <1>5, ReasonNamed
<1>7. str' = [str EXCEPT ![s] = u] \/ str' = [str EXCEPT ![s] = d]
  BY Zenon, <1>3
<1> HIDE DEF q
<1>8. u \in Stream /\ d \in Stream
  BY Zenon, <1>6 DEF Stream
<1>9. StreamInv(u) /\ StreamInv(d)
  BY <1>2, <1>6 DEF StreamInv, Honest, Stream
<1> HIDE DEF u, d
<1> QED BY Zenon, <1>1, <1>7, <1>8, <1>9, OneStream

(* A peer closes, or the context of a marked stream is cancelled. *)
LEMMA PeerSteps ==
  ASSUME SpliceInv, NEW s \in Streams, ClientCloses(s) \/ PhoneCloses(s) \/ Cancel(s)
  PROVE  SpliceInv'
<1> USE DEF SpliceInv
<1>1. UNCHANGED <<phones, lapsed>> /\ stopped' = stopped
  BY Zenon DEF ClientCloses, PhoneCloses, Cancel
<1>2. str[s] \in Stream /\ StreamInv(str[s]) /\ str \in [Streams -> Stream]
  BY Zenon DEF Types
<1>3. CASE ClientCloses(s)
  <2> DEFINE r == [str[s] EXCEPT !.cli = "peer"]
  <2>1. str' = [str EXCEPT ![s] = r] /\ str[s].cli = "up"
    BY Zenon, <1>2, <1>3 DEF ClientCloses
  <2>2. r \in Stream
    BY Zenon, <1>2 DEF Stream
  <2>3. StreamInv(r)
    BY <1>2, <2>1 DEF StreamInv, Honest, Stream
  <2> QED BY Zenon, <1>1, <2>1, <2>2, <2>3, OneStream
<1>4. CASE PhoneCloses(s)
  <2> DEFINE r == [str[s] EXCEPT !.far = "peer"]
  <2>1. str' = [str EXCEPT ![s] = r] /\ str[s].far = "up"
    BY Zenon, <1>2, <1>4 DEF PhoneCloses
  <2>2. r \in Stream
    BY Zenon, <1>2 DEF Stream
  <2>3. StreamInv(r)
    BY <1>2, <2>1 DEF StreamInv, Honest, Stream
  <2> QED BY Zenon, <1>1, <2>1, <2>2, <2>3, OneStream
<1>5. CASE Cancel(s)
  <2> DEFINE r == [str[s] EXCEPT !.cut = FALSE, !.ctx = TRUE]
  <2>1. str' = [str EXCEPT ![s] = r] /\ str[s].cut
    BY Zenon, <1>2, <1>5 DEF Cancel
  <2>2. r \in Stream
    BY Zenon, <1>2 DEF Stream
  <2>3. StreamInv(r)
    BY <1>2, <2>1 DEF StreamInv, Honest, Stream
  <2> QED BY Zenon, <1>1, <2>1, <2>2, <2>3, OneStream
<1> QED BY Zenon, <1>3, <1>4, <1>5

(* The watcher names a reason that has happened. *)
LEMMA WatcherNames ==
  ASSUME SpliceInv, NEW s \in Streams, str[s].pc = "splice", NEW why \in Reasons,
         str[s].reason = "none" => Honest([str[s] EXCEPT !.reason = why]),
         str' = [str EXCEPT ![s] = WatchStops(str[s], why)],
         UNCHANGED <<phones, lapsed>>, stopped' = stopped
  PROVE  SpliceInv'
<1>1. Types /\ str[s] \in Stream /\ StreamInv(str[s])
  BY Zenon DEF SpliceInv, Types
<1> DEFINE q == SetReason(str[s], why)
           r == [q EXCEPT !.watch = "close"]
<1>2. q \in Stream /\ Honest(q) /\ q.reason # "none" /\ q = [str[s] EXCEPT !.reason = q.reason]
  BY Zenon, <1>1, ReasonNamed
<1>3. str' = [str EXCEPT ![s] = r]
  BY Zenon DEF WatchStops
<1> HIDE DEF q
<1>4. r \in Stream
  BY Zenon, <1>2 DEF Stream
<1>5. StreamInv(r)
  BY <1>1, <1>2 DEF StreamInv, Honest, Stream
<1> HIDE DEF r
<1> QED BY Zenon, <1>3, <1>4, <1>5, OneStream

(* A cancelled context stands for a flag that was stored, or for the shutdown. *)
LEMMA CtxReasonTrue ==
  ASSUME Types, NEW r \in Stream, StreamInv(r), r.ctx
  PROVE  /\ CtxReason(r) \in {"ban-evict", "admin-terminate", "phone-close", "evicted", "server-shutdown"}
         /\ CtxReason(r) # "server-shutdown" => CtxReason(r) \in r.flags
         /\ CtxReason(r) = "server-shutdown" => stopped
<1>1. r.flags \subseteq Flags /\ (stopped \/ r.flags # {})
  BY Zenon DEF Stream, StreamInv
<1>2. CASE "ban-evict" \in r.flags
  BY Zenon, <1>2 DEF CtxReason
<1>3. CASE "ban-evict" \notin r.flags /\ "admin-terminate" \in r.flags
  BY Zenon, <1>3 DEF CtxReason
<1>4. CASE /\ "ban-evict" \notin r.flags /\ "admin-terminate" \notin r.flags
           /\ "phone-close" \in r.flags /\ ~stopped
  BY Zenon, <1>4 DEF CtxReason
<1>5. CASE /\ "ban-evict" \notin r.flags /\ "admin-terminate" \notin r.flags
           /\ ~("phone-close" \in r.flags /\ ~stopped)
  <2>1. CtxReason(r) = IF "evicted" \in r.flags THEN "evicted" ELSE "server-shutdown"
    BY Zenon, <1>5 DEF CtxReason
  <2>2. "evicted" \notin r.flags => stopped
    BY Zenon, <1>1, <1>5 DEF Flags, Causes
  <2> QED BY Zenon, <2>1, <2>2
<1> QED BY Zenon, <1>2, <1>3, <1>4, <1>5

(* parentGone is right, unless Valkey lost the route: the stream's connection or
   one that took its place has closed. *)
LEMMA ParentGoneTrue ==
  ASSUME Types, PhoneInv, NEW r \in Stream, StreamInv(r), r.pc = "splice", ParentGone(r)
  PROVE  lapsed \/ \E c \in r.via..MaxConns : conn[c].st = "closed"
<1>1. r.via \in Conns /\ conn[r.via].st # "none"
  BY SpliceAssumption DEF StreamInv, Stream, Conns
<1>2. CASE route = 0
  BY Zenon, <1>1, <1>2 DEF PhoneInv
<1>3. CASE NodeGone(conn[r.via].node)
  <2>1. conn[r.via].st = "closed"
    BY Zenon, <1>1, <1>3 DEF NodeGone, PhoneInv, Types
  <2>2. r.via \in r.via..MaxConns
    BY <1>1, SpliceAssumption DEF Conns
  <2> QED BY Zenon, <2>1, <2>2
<1> QED BY Zenon, <1>2, <1>3 DEF ParentGone

LEMMA WatchSteps ==
  ASSUME SpliceInv, NEW s \in Streams, WatchCtx(s) \/ WatchIdle(s) \/ WatchRoute(s)
  PROVE  SpliceInv'
<1>1. UNCHANGED <<phones, lapsed>> /\ stopped' = stopped
  BY Zenon DEF WatchCtx, WatchIdle, WatchRoute
<1>2. /\ str[s] \in Stream /\ StreamInv(str[s]) /\ str[s].pc = "splice" /\ Types /\ PhoneInv
      /\ str[s].via \in Conns
  BY SpliceAssumption
     DEF SpliceInv, Types, WatchCtx, WatchIdle, WatchRoute, Tracked, StreamInv, Stream, Conns
<1>3. CASE WatchCtx(s)
  <2> DEFINE why == CtxReason(str[s])
  <2>1. /\ why \in {"ban-evict", "admin-terminate", "phone-close", "evicted", "server-shutdown"}
        /\ why # "server-shutdown" => why \in str[s].flags
        /\ why = "server-shutdown" => stopped
    BY Zenon, <1>2, <1>3, CtxReasonTrue DEF WatchCtx
  <2>2. str' = [str EXCEPT ![s] = WatchStops(str[s], why)]
    BY Zenon, <1>3 DEF WatchCtx
  <2> HIDE DEF why
  <2>3. why = "phone-close" => \E c \in str[s].via..MaxConns : conn[c].st = "closed"
    <3>1. str[s].via \in str[s].via..MaxConns
      BY <1>2, SpliceAssumption DEF Conns
    <3> QED BY Zenon, <1>2, <2>1, <3>1 DEF StreamInv
  <2>4. Honest([str[s] EXCEPT !.reason = why]) /\ why \in Reasons
    BY Zenon, <1>2, <2>1, <2>3 DEF Honest, Stream, Reasons
  <2> QED BY Zenon, <1>1, <1>2, <2>2, <2>4, WatcherNames
<1>4. CASE WatchIdle(s)
  <2>1. Honest([str[s] EXCEPT !.reason = "idle-timeout"]) /\ "idle-timeout" \in Reasons
    BY Zenon, <1>2 DEF Honest, Stream, Reasons
  <2> QED BY Zenon, <1>1, <1>2, <1>4, <2>1, WatcherNames DEF WatchIdle
<1>5. CASE WatchRoute(s)
  <2>1. lapsed \/ \E c \in str[s].via..MaxConns : conn[c].st = "closed"
    BY Zenon, <1>2, <1>5, ParentGoneTrue DEF WatchRoute
  <2>2. Honest([str[s] EXCEPT !.reason = "phone-close"]) /\ "phone-close" \in Reasons
    BY Zenon, <1>2, <2>1 DEF Honest, Stream, Reasons
  <2> QED BY Zenon, <1>1, <1>2, <1>5, <2>2, WatcherNames DEF WatchRoute
<1> QED BY Zenon, <1>3, <1>4, <1>5

(* The sockets are closed, and the handler returns. *)
LEMMA EndSteps ==
  ASSUME SpliceInv, NEW s \in Streams, WatchCloses(s) \/ FirstDone(s) \/ Returns(s)
  PROVE  SpliceInv'
<1> USE DEF SpliceInv
<1>1. UNCHANGED <<phones, lapsed>> /\ stopped' = stopped
  BY Zenon DEF WatchCloses, FirstDone, Returns
<1>2. /\ str[s] \in Stream /\ StreamInv(str[s]) /\ str \in [Streams -> Stream]
      /\ str[s].pc = "splice"
  BY Zenon DEF Types, WatchCloses, FirstDone, Returns, Tracked
<1> DEFINE q == CloseBoth(str[s])
<1>3. /\ q \in Stream
      /\ q.pc = str[s].pc /\ q.via = str[s].via /\ q.flags = str[s].flags
      /\ q.ctx = str[s].ctx /\ q.cut = str[s].cut /\ q.reason = str[s].reason
      /\ str[s].cli = "peer" => q.cli = "peer"
      /\ str[s].far = "peer" => q.far = "peer"
      /\ str[s].far # "none" => q.far # "none"
  BY ZenonT(30), <1>2 DEF CloseBoth, Shut, Stream
<1> HIDE DEF q
<1>4. CASE WatchCloses(s)
  <2> DEFINE r == [q EXCEPT !.watch = "exit"]
  <2>1. str' = [str EXCEPT ![s] = r] /\ str[s].watch = "close"
    BY Zenon, <1>2, <1>4 DEF WatchCloses, q
  <2>2. r \in Stream
    BY <1>3 DEF Stream
  <2>3. str[s].reason # "none"
    BY Zenon, <1>2, <2>1 DEF StreamInv
  <2>4. /\ r.pc = str[s].pc /\ r.via = str[s].via /\ r.flags = str[s].flags
        /\ r.ctx = str[s].ctx /\ r.cut = str[s].cut /\ r.reason = str[s].reason
        /\ str[s].cli = "peer" => r.cli = "peer"
        /\ str[s].far = "peer" => r.far = "peer"
        /\ str[s].far # "none" => r.far # "none"
    BY Zenon, <1>3 DEF Stream
  <2> HIDE DEF r
  <2>5. Honest(r)
    BY Zenon, <1>2, <2>4 DEF StreamInv, Honest
  <2>6. StreamInv(r)
    BY Zenon, <1>2, <2>3, <2>4, <2>5 DEF StreamInv
  <2> QED BY Zenon, <1>1, <2>1, <2>2, <2>6, OneStream
<1>5. CASE FirstDone(s)
  <2>1. str' = [str EXCEPT ![s] = q] /\ "stop" \in {str[s].up, str[s].down}
    BY Zenon, <1>2, <1>5 DEF FirstDone, q
  <2>2. str[s].reason # "none"
    BY Zenon, <1>2, <2>1 DEF StreamInv
  <2>3. Honest(q)
    BY Zenon, <1>2, <1>3 DEF StreamInv, Honest
  <2>4. StreamInv(q)
    BY Zenon, <1>2, <1>3, <2>2, <2>3 DEF StreamInv
  <2> QED BY ZenonT(30), <1>1, <1>3, <2>1, <2>4, OneStream
<1>6. CASE Returns(s)
  <2> DEFINE r == Ended(str[s])
  <2>1. str' = [str EXCEPT ![s] = r] /\ Finished(str[s])
    BY Zenon, <1>2, <1>6 DEF Returns
  <2>2. r \in Stream
    BY ZenonT(30), <1>2 DEF Stream, Ended
  <2>3. str[s].reason # "none"
    BY Zenon, <1>2, <2>1 DEF StreamInv, Finished
  <2>4. /\ r.pc = "end" /\ r.via = str[s].via /\ r.flags = str[s].flags \cap {str[s].reason}
        /\ ~r.ctx /\ ~r.cut /\ r.reason = str[s].reason /\ r.cli = str[s].cli
        /\ r.far = str[s].far /\ r.up = "stop" /\ r.down = "stop" /\ r.watch = "exit"
    BY Zenon, <1>2, <2>1 DEF Stream, Finished, Ended
  <2> HIDE DEF r
  <2>5. Honest(r)
    BY <1>2, <2>4 DEF StreamInv, Honest
  <2>6. StreamInv(r)
    BY Zenon, <1>2, <2>3, <2>4, <2>5 DEF StreamInv
  <2> QED BY Zenon, <1>1, <2>1, <2>2, <2>6, OneStream
<1> QED BY Zenon, <1>4, <1>5, <1>6

(* The shutdown. *)
LEMMA StopStep ==
  ASSUME SpliceInv, Stop
  PROVE  SpliceInv'
<1> USE DEF SpliceInv
<1>1. UNCHANGED <<phones, lapsed>> /\ stopped'
  BY Zenon DEF Stop
<1>2. str' \in [Streams -> Stream]
  <2>1. ASSUME NEW r \in Stream PROVE [r EXCEPT !.ctx = TRUE] \in Stream
    BY Zenon DEF Stream
  <2> QED BY Zenon, <2>1 DEF Stop, Types
<1>3. ASSUME NEW s \in Streams PROVE StreamInv(str[s])'
  <2>1. str[s] \in Stream /\ StreamInv(str[s])
    BY Zenon DEF Types
  <2>2. str'[s] = str[s] \/ (str[s].pc = "splice" /\ str'[s] = [str[s] EXCEPT !.ctx = TRUE])
    BY Zenon DEF Stop, Tracked
  <2>3. Honest(str[s])'
    BY <1>1, <2>1, <2>2 DEF StreamInv, Honest, Stream, phones
  <2> QED BY <1>1, <2>1, <2>2, <2>3 DEF StreamInv, Stream, phones
<1>4. Types' /\ PhoneInv'
  BY <1>1, <1>2 DEF Types, PhoneInv, phones, Stop
<1> QED BY Zenon, <1>3, <1>4

-----------------------------------------------------------------------------
LEMMA SpliceStepsKeep == SpliceInv /\ [Next]_vars => SpliceInv'
<1> SUFFICES ASSUME SpliceInv, [Next]_vars PROVE SpliceInv'
  OBVIOUS
<1>1. CASE \E n \in Nodes : Connect(n) \/ Crash(n)
  BY Zenon, <1>1, ConnectStep, CrashStep
<1>2. CASE \E c \in Conns, why \in Causes : Close(c, why)
  BY Zenon, <1>2, CloseStep
<1>3. CASE RouteLapses \/ \E n \in Nodes : NodeLapses(n)
  BY Zenon, <1>3, LapseSteps
<1>4. CASE \E w \in evict : PhoneConnClosed(w) \/ Broadcast(w) \/ Deliver(w)
  BY Zenon, <1>4, EvictorSteps
<1>5. CASE EvictTunnelStreams \/ \E s \in Streams : EvictLeast(s)
  BY Zenon, <1>5, EvictSteps
<1>6. CASE Stop
  BY Zenon, <1>6, StopStep
<1>7. CASE \E s \in Streams : Lookup(s) \/ Opened(s) \/ OpenFails(s) \/ TrackStream(s)
  BY Zenon, <1>7, OpenSteps
<1>8. CASE \E s \in Streams :
             CopyUp(s) \/ CopyDown(s) \/ ClientCloses(s) \/ PhoneCloses(s) \/ Cancel(s)
  BY Zenon, <1>8, CopySteps, PeerSteps
<1>9. CASE \E s \in Streams : WatchCtx(s) \/ WatchIdle(s) \/ WatchRoute(s)
  BY Zenon, <1>9, WatchSteps
<1>10. CASE \E s \in Streams : WatchCloses(s) \/ FirstDone(s) \/ Returns(s)
  BY Zenon, <1>10, EndSteps
<1>11. CASE UNCHANGED vars
  <2>1. Types' /\ PhoneInv'
    BY Zenon, <1>11 DEF vars, SpliceInv, Types, PhoneInv
  <2>2. ASSUME NEW s \in Streams PROVE StreamInv(str[s])'
    <3>1. StreamInv(str[s]) /\ UNCHANGED <<str, conn, route, alive, reg, evict, lapsed, stopped>>
      BY Zenon, <1>11 DEF vars, SpliceInv
    <3> QED BY <3>1 DEF StreamInv, Honest
  <2> QED BY Zenon, <2>1, <2>2 DEF SpliceInv
<1> QED BY Zenon, <1>1, <1>2, <1>3, <1>4, <1>5, <1>6, <1>7, <1>8, <1>9, <1>10, <1>11
     DEF Next, Handler, Causes

(* Every variable of the splice state keeps its type. *)
THEOREM SpliceTypes == Spec => []TypeOK
<1>1. SpliceInv => TypeOK
  BY Zenon DEF SpliceInv, Types, Stream, StreamInv, TypeOK
<1> QED BY <1>1, SpliceInitial, SpliceStepsKeep, PTL DEF Spec

(* Every stream that has ended is logged with a reason that happened: a peer's
   closing is never this node's own, "phone-close" without the phone closing the
   stream needs a closed connection no older than the stream's, and an eviction,
   a ban, a termination or a shutdown is named only if there was one. *)
THEOREM ReasonsAreHonest == Spec => []ReasonHonest
<1>1. SpliceInv => ReasonHonest
  BY Zenon DEF SpliceInv, StreamInv, Honest, ReasonHonest
<1> QED BY <1>1, SpliceInitial, SpliceStepsKeep, PTL DEF Spec

(* When handleTunnel returns, both copiers and the watcher have returned too:
   nothing can write the stream's counters or its reason any more. *)
THEOREM NoWriterRemains == Spec => []NoWriterLeft
<1>1. SpliceInv => NoWriterLeft
  BY Zenon DEF SpliceInv, StreamInv, NoWriterLeft
<1> QED BY <1>1, SpliceInitial, SpliceStepsKeep, PTL DEF Spec
=============================================================================
