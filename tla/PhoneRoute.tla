----------------------------- MODULE PhoneRoute -----------------------------
(***************************************************************************)
(* The phone control connections of ONE tunnel name on several nodes       *)
(* (internal/phoneconn) and the route they keep in Valkey                  *)
(* (internal/router).                                                      *)
(*                                                                         *)
(* Each connection c has two goroutines: its handler <<c, "h">>            *)
(* (serveControl, register, runControl, teardown) and its heartbeat loop   *)
(* <<c, "b">>.  Every Valkey command is a step of its own, so a value read *)
(* may be stale when it is used.  A connID is drawn from the set Conns: each *)
(* connection draws its own name when DistinctIds is set, any name when     *)
(* collisions are of interest.  One tunnel name is enough: names share only *)
(* the striped bind mutex.                                                  *)
(***************************************************************************)
EXTENDS Naturals

CONSTANTS Nodes, Conns,
          NoConn, NoNode, NoProc,
          MaxFaults,          \* commands that fail, or a lock that expires early
          MaxOutages,         \* whole TTLs during which the owner cannot refresh
          MidSectionExpiry,   \* may the 5 s lock run out under a live holder?
          DistinctIds,        \* do random connIDs never collide?
          Crashable, Drainable, Stoppable   \* the nodes that may crash, drain, shut down

ASSUME ConstantsAssumption ==
  /\ NoConn \notin Conns /\ NoNode \notin Nodes
  /\ NoProc \notin Conns \X {"h", "b"}
  /\ MaxFaults \in Nat /\ MaxOutages \in Nat
  /\ MidSectionExpiry \in BOOLEAN /\ DistinctIds \in BOOLEAN
  /\ Crashable \subseteq Nodes /\ Drainable \subseteq Nodes /\ Stoppable \subseteq Nodes

VARIABLES
  route,      \* Valkey: the connID stored under tunnel:{name}, or NoConn
  bytesOnly,  \* Valkey: without a route, the key still exists with byte counters
  viaHeal,    \* history: the route was last written by a self-heal
  lock,       \* Valkey: the process whose token is stored under lock:{name}
  home,       \* the node a connection arrived at
  cid,        \* conn.connID
  attempt,    \* register's bind attempts so far
  hpc, bpc,   \* where each handler and each heartbeat loop stands
  seen,       \* the owner a process read inside its locked section
  rel,        \* a process's deferred release of the lock: "get", "del" or "no"
  closed,     \* conn.closed (its context is cancelled)
  conns,      \* Manager.conns[name] of each node
  bindMu,     \* the node's stripe mutex: the connection holding it
  late,       \* closeAllReason as register saw it when it inserted the conn
  closeAll,   \* Manager.closeAllReason has been set
  victim,     \* the connection CloseAll is about to close
  draining,   \* Manager.draining
  up,         \* the node's process is alive
  faults, outages

key     == <<route, bytesOnly, viaHeal>>
valkey  == <<key, lock>>
manager == <<conns, bindMu, late, closeAll, victim, draining, up>>
ids     == <<home, cid, attempt>>
vars    == <<valkey, ids, hpc, bpc, seen, rel, closed, manager, faults, outages>>

Procs == Conns \X {"h", "b"}

HandlerPCs == {"new", "stripe", "bind", "bindHeld", "insert", "late", "run",
               "tdWait", "unbind", "unbindHeld", "finish", "failed", "done"}
HeartbeatPCs == {"off", "tick", "refresh", "heal", "healHeld", "exit"}

(* Is the process between taking the lock and finishing its release? *)
InSection(p) == \/ p[2] = "h" /\ hpc[p[1]] \in {"bindHeld", "unbindHeld"}
                \/ p[2] = "b" /\ bpc[p[1]] = "healHeld"
                \/ rel[p] # "no"

(* A connection between its bind and its map insert; one whose heartbeat runs. *)
Binding(c)    == hpc[c] \in {"insert", "late"}
Refreshing(c) == bpc[c] \notin {"off", "exit"}

Owners == {c \in Conns : cid[c] = route}

(* mustConnID: a random id. *)
Minted(c) == IF DistinctIds THEN {c} ELSE Conns

OpenConn(c) == hpc[c] = "run" /\ ~closed[c]

Init ==
  /\ route = NoConn /\ bytesOnly = FALSE /\ viaHeal = FALSE /\ lock = NoProc
  /\ home = [c \in Conns |-> NoNode]
  /\ cid = [c \in Conns |-> NoConn]
  /\ attempt = [c \in Conns |-> 0]
  /\ hpc = [c \in Conns |-> "new"]
  /\ bpc = [c \in Conns |-> "off"]
  /\ seen = [p \in Procs |-> NoConn]
  /\ rel = [p \in Procs |-> "no"]
  /\ closed = [c \in Conns |-> FALSE]
  /\ conns = [n \in Nodes |-> NoConn]
  /\ bindMu = [n \in Nodes |-> NoConn]
  /\ late = [c \in Conns |-> FALSE]
  /\ closeAll = [n \in Nodes |-> FALSE]
  /\ victim = [n \in Nodes |-> NoConn]
  /\ draining = [n \in Nodes |-> FALSE]
  /\ up = [n \in Nodes |-> TRUE]
  /\ faults = MaxFaults /\ outages = MaxOutages

-----------------------------------------------------------------------------
(* Valkey *)

(* The key tunnel:{name} is deleted or expires. *)
KeyGone == route' = NoConn /\ bytesOnly' = FALSE /\ viaHeal' = FALSE

(* The TTL of tunnel:{name} runs out.  It is far longer than the code between
   a bind and the map insert, and the route of a connection whose heartbeat
   runs lapses only in an outage. *)
RouteExpires ==
  /\ \A c \in Conns : ~Binding(c)
  /\ \/ /\ route # NoConn
        /\ \/ (\A c \in Owners : ~Refreshing(c)) /\ UNCHANGED outages
           \/ outages > 0 /\ outages' = outages - 1
     \/ route = NoConn /\ bytesOnly /\ UNCHANGED outages
  /\ KeyGone
  /\ UNCHANGED <<lock, ids, hpc, bpc, seen, rel, closed, manager, faults>>

(* lock:{name} expires: its holder is gone or failed to release it, or, when
   MidSectionExpiry is set, its holder was stalled for the lock's 5 s. *)
LockExpires ==
  /\ lock # NoProc
  /\ \/ ~InSection(lock) /\ UNCHANGED faults
     \/ /\ MidSectionExpiry /\ InSection(lock)
        /\ faults > 0 /\ faults' = faults - 1
  /\ lock' = NoProc
  /\ UNCHANGED <<key, ids, hpc, bpc, seen, rel, closed, manager, outages>>

(* AddTraffic on a name without a route: HINCRBY creates a byte-only key. *)
AddTraffic ==
  /\ route = NoConn /\ ~bytesOnly
  /\ bytesOnly' = TRUE
  /\ UNCHANGED <<route, viaHeal, lock, ids, hpc, bpc, seen, rel, closed, manager, faults, outages>>

(* acquire: SET NX of lock:{name}, then the section's first read. *)
AcquireAndRead(p) ==
  /\ lock = NoProc /\ rel[p] = "no"
  /\ lock' = p
  /\ seen' = [seen EXCEPT ![p] = route]

(* acquire fails; its SET may have been applied, and the lock is left to expire. *)
AcquireFails(p) ==
  /\ rel[p] = "no"
  /\ \/ lock = NoProc /\ lock' = p
     \/ UNCHANGED lock
  /\ UNCHANGED <<rel, seen>>

(* bindHSet: the route fields and a fresh TTL. *)
BindHSet(c, heal) == route' = cid[c] /\ bytesOnly' = FALSE /\ viaHeal' = heal

(* The end of a withLock section: what was read goes out of scope and the
   deferred release starts. *)
EndSection(p) == /\ rel' = [rel EXCEPT ![p] = "get"]
                 /\ seen' = [seen EXCEPT ![p] = NoConn]

(* release: GET the lock and compare the token; then DEL it. *)
ReleaseGet(p) ==
  /\ rel[p] = "get"
  /\ rel' = [rel EXCEPT ![p] = IF lock = p THEN "del" ELSE "no"]
  /\ UNCHANGED <<valkey, ids, hpc, bpc, seen, closed, manager, faults, outages>>

ReleaseDel(p) ==
  /\ rel[p] = "del"
  /\ rel' = [rel EXCEPT ![p] = "no"]
  /\ lock' = NoProc
  /\ UNCHANGED <<key, ids, hpc, bpc, seen, closed, manager, faults, outages>>

(* Either command of release fails: the lock is left to expire. *)
ReleaseFails(p) ==
  /\ rel[p] # "no" /\ faults > 0
  /\ rel' = [rel EXCEPT ![p] = "no"]
  /\ faults' = faults - 1
  /\ UNCHANGED <<valkey, ids, hpc, bpc, seen, closed, manager, outages>>

-----------------------------------------------------------------------------
(* The handler: serveControl, register, teardown *)

(* serveControl: refused while draining; otherwise a conn with a fresh id
   waits for the node's stripe mutex. *)
Arrive(c, n) ==
  /\ hpc[c] = "new" /\ up[n] /\ ~draining[n]
  /\ home' = [home EXCEPT ![c] = n]
  /\ \E i \in Minted(c) : cid' = [cid EXCEPT ![c] = i]
  /\ hpc' = [hpc EXCEPT ![c] = "stripe"]
  /\ UNCHANGED <<valkey, attempt, bpc, seen, rel, closed, manager, faults, outages>>

(* Mutant of LockStripe: the bind does not wait for the stripe mutex. *)
LockStripeAnyway(c) ==
  /\ hpc[c] = "stripe"
  /\ bindMu' = [bindMu EXCEPT ![home[c]] = c]
  /\ hpc' = [hpc EXCEPT ![c] = "bind"]
  /\ UNCHANGED <<valkey, ids, bpc, seen, rel, closed, conns, late, closeAll,
                 victim, draining, up, faults, outages>>

LockStripe(c) ==
  /\ hpc[c] = "stripe" /\ bindMu[home[c]] = NoConn
  /\ bindMu' = [bindMu EXCEPT ![home[c]] = c]
  /\ hpc' = [hpc EXCEPT ![c] = "bind"]
  /\ UNCHANGED <<valkey, ids, bpc, seen, rel, closed, conns, late, closeAll,
                 victim, draining, up, faults, outages>>

(* BindRoute takes lock:{name} and reads the stored connID. *)
BindAcquire(c) ==
  /\ hpc[c] = "bind" /\ AcquireAndRead(<<c, "h">>)
  /\ hpc' = [hpc EXCEPT ![c] = "bindHeld"]
  /\ UNCHANGED <<key, ids, bpc, rel, closed, manager, faults, outages>>

(* BindRoute writes the route, unless the stored connID is its own: then
   register draws a new one, twice at most. *)
BindWrite(c) ==
  /\ hpc[c] = "bindHeld" /\ seen[<<c, "h">>] # cid[c]
  /\ BindHSet(c, FALSE)
  /\ hpc' = [hpc EXCEPT ![c] = "insert"]
  /\ EndSection(<<c, "h">>)
  /\ UNCHANGED <<lock, ids, bpc, closed, manager, faults, outages>>

BindCollides(c) ==
  /\ hpc[c] = "bindHeld" /\ seen[<<c, "h">>] = cid[c]
  /\ EndSection(<<c, "h">>)
  /\ IF attempt[c] >= 2
     THEN hpc' = [hpc EXCEPT ![c] = "failed"] /\ UNCHANGED <<cid, attempt>>
     ELSE /\ hpc' = [hpc EXCEPT ![c] = "bind"]
          /\ \E i \in Minted(c) : cid' = [cid EXCEPT ![c] = i]
          /\ attempt' = [attempt EXCEPT ![c] = @ + 1]
  /\ UNCHANGED <<valkey, home, bpc, closed, manager, faults, outages>>

(* BindRoute fails: contended lock, Valkey error or the phone hung up.  The
   write of a failed command may still have been applied. *)
BindFails(c) ==
  /\ faults > 0 /\ faults' = faults - 1
  /\ \/ /\ hpc[c] = "bind" /\ AcquireFails(<<c, "h">>)
        /\ UNCHANGED key
     \/ /\ hpc[c] = "bindHeld" /\ EndSection(<<c, "h">>)
        /\ UNCHANGED lock
        /\ \/ seen[<<c, "h">>] # cid[c] /\ BindHSet(c, FALSE)
           \/ UNCHANGED key
  /\ hpc' = [hpc EXCEPT ![c] = "failed"]
  /\ UNCHANGED <<ids, bpc, closed, manager, outages>>

(* register returned an error: the stripe is unlocked, the phone told to retry. *)
Refuse503(c) ==
  /\ hpc[c] = "failed" /\ rel[<<c, "h">>] = "no"
  /\ hpc' = [hpc EXCEPT ![c] = "done"]
  /\ bindMu' = [bindMu EXCEPT ![home[c]] = NoConn]
  /\ UNCHANGED <<valkey, ids, bpc, seen, rel, closed, conns, late, closeAll,
                 victim, draining, up, faults, outages>>

(* Mutant of Insert: closeAllReason is not looked at. *)
InsertBlindly(c) ==
  /\ hpc[c] = "insert" /\ rel[<<c, "h">>] = "no"
  /\ closed' = [d \in Conns |-> closed[d] \/ d = conns[home[c]]]
  /\ conns' = [conns EXCEPT ![home[c]] = c]
  /\ hpc' = [hpc EXCEPT ![c] = "late"]
  /\ UNCHANGED <<valkey, ids, bpc, seen, rel, bindMu, late, closeAll, victim,
                 draining, up, faults, outages>>

(* Under Manager.mu: the old local connection is superseded, c inserted and
   closeAllReason read. *)
Insert(c) ==
  /\ hpc[c] = "insert" /\ rel[<<c, "h">>] = "no"
  /\ LET n == home[c] IN
       /\ closed' = [d \in Conns |-> closed[d] \/ d = conns[n]]
       /\ conns' = [conns EXCEPT ![n] = c]
       /\ late' = [late EXCEPT ![c] = closeAll[n]]
  /\ hpc' = [hpc EXCEPT ![c] = "late"]
  /\ UNCHANGED <<valkey, ids, bpc, seen, rel, bindMu, closeAll, victim, draining,
                 up, faults, outages>>

(* register closes a latecomer, logs the start and unlocks the stripe;
   serveControl starts the heartbeat loop and runs the control stream. *)
Registered(c) ==
  /\ hpc[c] = "late"
  /\ closed' = [closed EXCEPT ![c] = @ \/ late[c]]
  /\ bindMu' = [bindMu EXCEPT ![home[c]] = NoConn]
  /\ hpc' = [hpc EXCEPT ![c] = "run"]
  /\ late' = [late EXCEPT ![c] = FALSE]
  /\ bpc' = [bpc EXCEPT ![c] = "tick"]
  /\ UNCHANGED <<valkey, ids, seen, rel, conns, closeAll, victim, draining,
                 up, faults, outages>>

(* Mutant of RemoveFromMap: the entry is deleted whoever it names. *)
RemoveAnyone(c) == conns' = [conns EXCEPT ![home[c]] = NoConn]

(* The part of teardown and abandon that runs under Manager.mu. *)
RemoveFromMap(c) ==
  conns' = [conns EXCEPT ![home[c]] = IF @ = c THEN NoConn ELSE @]

(* A recorder or log panic inside register: abandon closes the connection,
   drops it from the map and unbinds, still under the stripe mutex. *)
Abandon(c) ==
  /\ hpc[c] = "late" /\ faults > 0 /\ faults' = faults - 1
  /\ closed' = [closed EXCEPT ![c] = TRUE]
  /\ late' = [late EXCEPT ![c] = FALSE]
  /\ RemoveFromMap(c)
  /\ hpc' = [hpc EXCEPT ![c] = "unbind"]
  /\ UNCHANGED <<valkey, ids, bpc, seen, rel, bindMu, closeAll, victim,
                 draining, up, outages>>

(* conn.close by anyone who can reach a running connection: the phone hangs
   up or falls silent, its certificate expires, a ban or an operator closes it. *)
CloseConn(c) ==
  /\ OpenConn(c)
  /\ closed' = [closed EXCEPT ![c] = TRUE]
  /\ UNCHANGED <<valkey, ids, hpc, bpc, seen, rel, manager, faults, outages>>

(* runControl returns (context done, or a write to the phone failed) and
   teardown closes the connection. *)
TeardownStart(c) ==
  /\ hpc[c] = "run"
  /\ closed' = [closed EXCEPT ![c] = TRUE]
  /\ hpc' = [hpc EXCEPT ![c] = "tdWait"]
  /\ UNCHANGED <<valkey, ids, bpc, seen, rel, manager, faults, outages>>

(* Mutant of HbDone: teardown does not wait for the heartbeat loop. *)
HbNotAwaited(c) == bpc[c] # "off"

(* teardown waits for hbDone before it leaves the map and unbinds. *)
HbDone(c) == bpc[c] = "exit" /\ rel[<<c, "b">>] = "no"

TeardownRemove(c) ==
  /\ hpc[c] = "tdWait" /\ HbDone(c)
  /\ RemoveFromMap(c)
  /\ hpc' = [hpc EXCEPT ![c] = "unbind"]
  /\ UNCHANGED <<valkey, ids, bpc, seen, rel, closed, bindMu, late, closeAll,
                 victim, draining, up, faults, outages>>

(* Mutant of UnbindAcquire: the connID is read without the lock. *)
UnbindReadsUnlocked(c) ==
  /\ hpc[c] = "unbind" /\ rel[<<c, "h">>] = "no"
  /\ seen' = [seen EXCEPT ![<<c, "h">>] = route]
  /\ hpc' = [hpc EXCEPT ![c] = "unbindHeld"]
  /\ UNCHANGED <<valkey, ids, bpc, rel, closed, manager, faults, outages>>

(* UnbindRoute takes lock:{name} and reads the stored connID. *)
UnbindAcquire(c) ==
  /\ hpc[c] = "unbind" /\ AcquireAndRead(<<c, "h">>)
  /\ hpc' = [hpc EXCEPT ![c] = "unbindHeld"]
  /\ UNCHANGED <<key, ids, bpc, rel, closed, manager, faults, outages>>

(* Unbind deletes the key only if the connID it read was its own. *)
UnbindDel(c) ==
  /\ hpc[c] = "unbindHeld"
  /\ IF seen[<<c, "h">>] = cid[c]
     THEN KeyGone
     ELSE UNCHANGED key
  /\ hpc' = [hpc EXCEPT ![c] = "finish"]
  /\ EndSection(<<c, "h">>)
  /\ UNCHANGED <<lock, ids, bpc, closed, manager, faults, outages>>

(* Unbind fails or runs into the 10 s teardown bound: it is only logged.  A DEL
   that was applied all the same is UnbindDel. *)
UnbindFails(c) ==
  /\ faults > 0 /\ faults' = faults - 1
  /\ \/ hpc[c] = "unbind" /\ AcquireFails(<<c, "h">>)
     \/ hpc[c] = "unbindHeld" /\ EndSection(<<c, "h">>) /\ UNCHANGED lock
  /\ hpc' = [hpc EXCEPT ![c] = "finish"]
  /\ UNCHANGED <<key, ids, bpc, closed, manager, outages>>

(* The end event, the metrics and the PhoneConnClosed hook; register's
   deferred unlock if this was abandon. *)
Finish(c) ==
  /\ hpc[c] = "finish" /\ rel[<<c, "h">>] = "no"
  /\ hpc' = [hpc EXCEPT ![c] = "done"]
  /\ bindMu' = [bindMu EXCEPT ![home[c]] = IF @ = c THEN NoConn ELSE @]
  /\ UNCHANGED <<valkey, ids, bpc, seen, rel, closed, conns, late, closeAll,
                 victim, draining, up, faults, outages>>

-----------------------------------------------------------------------------
(* heartbeatLoop *)

(* Mutants of HeartbeatRead: a superseded connection is not closed; the loop
   returns without closing hbDone. *)
HeartbeatReadStaysOpen(c) ==
  /\ bpc[c] = "tick" /\ rel[<<c, "b">>] = "no" /\ ~closed[c]
  /\ bpc' = [bpc EXCEPT ![c] = CASE route = NoConn -> "heal"
                                 [] route = cid[c] -> "refresh"
                                 [] OTHER -> "exit"]
  /\ UNCHANGED <<valkey, ids, hpc, seen, rel, closed, manager, faults, outages>>

HeartbeatReadNotDone(c) ==
  /\ bpc[c] = "tick" /\ rel[<<c, "b">>] = "no" /\ ~closed[c]
  /\ bpc' = [bpc EXCEPT ![c] = CASE route = NoConn -> "heal"
                                 [] route = cid[c] -> "refresh"
                                 [] OTHER -> "off"]
  /\ closed' = [closed EXCEPT ![c] = route \notin {NoConn, cid[c]}]
  /\ UNCHANGED <<valkey, ids, hpc, seen, rel, manager, faults, outages>>

(* Heartbeat's HGET: missing, superseded or still the owner. *)
HeartbeatRead(c) ==
  /\ bpc[c] = "tick" /\ rel[<<c, "b">>] = "no" /\ ~closed[c]
  /\ \/ /\ route = NoConn
        /\ bpc' = [bpc EXCEPT ![c] = "heal"] /\ UNCHANGED closed
     \/ /\ route = cid[c]
        /\ bpc' = [bpc EXCEPT ![c] = "refresh"] /\ UNCHANGED closed
     \/ /\ route \notin {NoConn, cid[c]}
        /\ bpc' = [bpc EXCEPT ![c] = "exit"]
        /\ closed' = [closed EXCEPT ![c] = ~draining[home[c]]]
  /\ UNCHANGED <<valkey, ids, hpc, seen, rel, manager, faults, outages>>

(* Heartbeat's PEXPIRE: it finds the key (whoever owns it by now) or not. *)
HeartbeatRefresh(c) ==
  /\ bpc[c] = "refresh" /\ ~closed[c]
  /\ bpc' = [bpc EXCEPT ![c] = IF route = NoConn /\ ~bytesOnly THEN "heal" ELSE "tick"]
  /\ UNCHANGED <<valkey, ids, hpc, seen, rel, closed, manager, faults, outages>>

(* BindRouteIfAbsentOrOwner takes the lock and reads node and connID. *)
HealAcquire(c) ==
  /\ bpc[c] = "heal" /\ ~closed[c] /\ AcquireAndRead(<<c, "b">>)
  /\ bpc' = [bpc EXCEPT ![c] = "healHeld"]
  /\ UNCHANGED <<key, ids, hpc, rel, closed, manager, faults, outages>>

HealWrite(c) ==
  /\ bpc[c] = "healHeld"
  /\ IF seen[<<c, "b">>] \in {NoConn, cid[c]} THEN BindHSet(c, TRUE)
                                              ELSE UNCHANGED key
  /\ bpc' = [bpc EXCEPT ![c] = "tick"]
  /\ EndSection(<<c, "b">>)
  /\ UNCHANGED <<lock, ids, hpc, closed, manager, faults, outages>>

(* A Valkey error or a contended lock: the loop goes on with the next tick.  A
   HSET that was applied all the same is HealWrite. *)
HeartbeatFails(c) ==
  /\ faults > 0 /\ faults' = faults - 1
  /\ \/ bpc[c] = "refresh" /\ UNCHANGED <<lock, rel, seen>>
     \/ bpc[c] = "heal" /\ AcquireFails(<<c, "b">>)
     \/ bpc[c] = "healHeld" /\ EndSection(<<c, "b">>) /\ UNCHANGED lock
  /\ bpc' = [bpc EXCEPT ![c] = "tick"]
  /\ UNCHANGED <<key, ids, hpc, closed, manager, outages>>

(* The connection's context is cancelled: pending commands fail, the loop exits. *)
HeartbeatExit(c) ==
  /\ closed[c] /\ rel[<<c, "b">>] = "no"
  /\ \/ bpc[c] \in {"tick", "refresh", "heal"} /\ UNCHANGED <<rel, seen>>
     \/ bpc[c] = "healHeld" /\ EndSection(<<c, "b">>)
  /\ bpc' = [bpc EXCEPT ![c] = "exit"]
  /\ UNCHANGED <<valkey, ids, hpc, closed, manager, faults, outages>>

-----------------------------------------------------------------------------
(* Node-wide operations *)

(* CloseAll: set closeAllReason and collect the connections under
   Manager.mu, then close them one by one. *)
CloseAllBegin(n) ==
  /\ n \in Stoppable /\ up[n] /\ ~closeAll[n]
  /\ closeAll' = [closeAll EXCEPT ![n] = TRUE]
  /\ victim' = [victim EXCEPT ![n] = conns[n]]
  /\ UNCHANGED <<valkey, ids, hpc, bpc, seen, rel, closed, conns, bindMu, late,
                 draining, up, faults, outages>>

CloseAllVictim(n) ==
  /\ victim[n] # NoConn
  /\ closed' = [closed EXCEPT ![victim[n]] = TRUE]
  /\ victim' = [victim EXCEPT ![n] = NoConn]
  /\ UNCHANGED <<valkey, ids, hpc, bpc, seen, rel, conns, bindMu, late, closeAll,
                 draining, up, faults, outages>>

StartDrain(n) ==
  /\ n \in Drainable /\ up[n] /\ ~draining[n]
  /\ draining' = [draining EXCEPT ![n] = TRUE]
  /\ UNCHANGED <<valkey, ids, hpc, bpc, seen, rel, closed, conns, bindMu, late,
                 closeAll, victim, up, faults, outages>>

(* The node's process dies; what it stored in Valkey stays there. *)
Crash(n) ==
  LET dead == {c \in Conns : home[c] = n} IN
  /\ n \in Crashable /\ up[n]
  /\ up' = [up EXCEPT ![n] = FALSE]
  /\ hpc' = [c \in Conns |-> IF c \in dead THEN "done" ELSE hpc[c]]
  /\ bpc' = [c \in Conns |-> IF c \in dead THEN "exit" ELSE bpc[c]]
  /\ closed' = [c \in Conns |-> closed[c] \/ c \in dead]
  /\ rel' = [p \in Procs |-> IF p[1] \in dead THEN "no" ELSE rel[p]]
  /\ seen' = [p \in Procs |-> IF p[1] \in dead THEN NoConn ELSE seen[p]]
  /\ late' = [c \in Conns |-> late[c] /\ c \notin dead]
  /\ conns' = [conns EXCEPT ![n] = NoConn]
  /\ bindMu' = [bindMu EXCEPT ![n] = NoConn]
  /\ victim' = [victim EXCEPT ![n] = NoConn]
  /\ UNCHANGED <<valkey, ids, closeAll, draining, faults, outages>>

-----------------------------------------------------------------------------
Handler(c) ==
  \/ LockStripe(c) \/ BindAcquire(c) \/ BindWrite(c) \/ BindCollides(c)
  \/ Refuse503(c) \/ Insert(c) \/ Registered(c)
  \/ TeardownRemove(c) \/ UnbindAcquire(c) \/ UnbindDel(c) \/ Finish(c)

Heartbeat(c) ==
  \/ HeartbeatRead(c) \/ HeartbeatRefresh(c) \/ HealAcquire(c) \/ HealWrite(c)
  \/ HeartbeatExit(c)

Release(p) == ReleaseGet(p) \/ ReleaseDel(p)

Fault(c) == BindFails(c) \/ Abandon(c) \/ UnbindFails(c) \/ HeartbeatFails(c)

Next ==
  \/ RouteExpires \/ LockExpires \/ AddTraffic
  \/ \E c \in Conns : \/ Handler(c) \/ Heartbeat(c) \/ Fault(c)
                      \/ CloseConn(c) \/ TeardownStart(c)
                      \/ \E n \in Nodes : Arrive(c, n)
  \/ \E p \in Procs : Release(p) \/ ReleaseFails(p)
  \/ \E n \in Nodes : \/ CloseAllBegin(n) \/ CloseAllVictim(n)
                      \/ StartDrain(n) \/ Crash(n)

Spec == Init /\ [][Next]_vars

(* The steps each goroutine owes: a connection whose context is cancelled
   leaves runControl; arrivals, closes and faults are nobody's duty. *)
HandlerStep(c)   == \/ Handler(c) \/ Release(<<c, "h">>)
                    \/ closed[c] /\ TeardownStart(c)
HeartbeatStep(c) == Heartbeat(c) \/ Release(<<c, "b">>)

(* Goroutines that can run do run, and Valkey expires what nobody refreshes. *)
Fairness ==
  /\ \A c \in Conns : WF_vars(HandlerStep(c)) /\ WF_vars(HeartbeatStep(c))
  /\ WF_vars(LockExpires /\ UNCHANGED faults)
  /\ WF_vars(RouteExpires /\ UNCHANGED outages)

LiveSpec == Spec /\ Fairness

-----------------------------------------------------------------------------
TypeOK ==
  /\ route \in Conns \cup {NoConn} /\ bytesOnly \in BOOLEAN /\ viaHeal \in BOOLEAN
  /\ lock \in Procs \cup {NoProc}
  /\ home \in [Conns -> Nodes \cup {NoNode}]
  /\ cid \in [Conns -> Conns \cup {NoConn}]
  /\ attempt \in [Conns -> 0..2]
  /\ hpc \in [Conns -> HandlerPCs]
  /\ bpc \in [Conns -> HeartbeatPCs]
  /\ seen \in [Procs -> Conns \cup {NoConn}]
  /\ rel \in [Procs -> {"no", "get", "del"}]
  /\ closed \in [Conns -> BOOLEAN]
  /\ conns \in [Nodes -> Conns \cup {NoConn}]
  /\ bindMu \in [Nodes -> Conns \cup {NoConn}]
  /\ late \in [Conns -> BOOLEAN]
  /\ closeAll \in [Nodes -> BOOLEAN]
  /\ victim \in [Nodes -> Conns \cup {NoConn}]
  /\ draining \in [Nodes -> BOOLEAN]
  /\ up \in [Nodes -> BOOLEAN]
  /\ faults \in 0..MaxFaults /\ outages \in 0..MaxOutages

(* An open connection is the one its node's Manager would find: SendOpen,
   CloseAll, EvictBanned and the operator's terminate all go through the map,
   so a connection that is open outside it could never be closed.  The
   teardown of a superseded connection must not drop its successor. *)
OpenConnInMap == \A c \in Conns : OpenConn(c) => conns[home[c]] = c

(* While no bind is running on its node, an open connection is shadowed by
   the route of another connection registered on the same node. *)
Shadowed(w, c) ==
  /\ OpenConn(w) /\ conns[home[w]] = w /\ bindMu[home[w]] = NoConn
  /\ c # w /\ home[c] = home[w] /\ hpc[c] \in {"run", "tdWait", "unbind", "unbindHeld"}
  /\ route = cid[c]

(* The stripe mutex puts the binds of a node and their map inserts in one
   order: the Valkey owner differs from the local winner only after a
   superseded connection, not yet closed, has re-bound a missing route. *)
LocalWinnerOwns == \A w, c \in Conns : Shadowed(w, c) => viaHeal /\ closed[c]

(* CloseAll against a registration in progress: once CloseAll has gone
   through its victims, no connection of the node is open or will be. *)
CloseAllSticks ==
  \A c \in Conns :
    /\ home[c] \in Nodes /\ closeAll[home[c]] /\ victim[home[c]] = NoConn
    => /\ ~OpenConn(c)
       /\ hpc[c] = "late" => closed[c] \/ late[c]

(* A bind never stores the connID it replaces, so the previous owner's next
   heartbeat can tell that it was superseded. *)
BindChangesOwner ==
  [][\A c \in Conns : hpc[c] = "bindHeld" /\ hpc'[c] = "insert" => route' # route]_vars

(* What c's locked section read is still true, unless the key has expired. *)
ReadTrue(c) ==
  /\ hpc[c] = "unbindHeld" /\ seen[<<c, "h">>] = cid[c] => route \in {cid[c], NoConn}
  /\ bpc[c] = "healHeld" /\ seen[<<c, "b">>] = NoConn => route = NoConn
  /\ bpc[c] = "healHeld" /\ seen[<<c, "b">>] = cid[c] => route \in {cid[c], NoConn}

(* Unless the lock runs out under its holder, a teardown about to delete the
   route deletes its own or nothing, and a self-heal about to write finds its
   own route or none: no bind came between the read and the write. *)
ReadStaysTrue == \A c \in Conns : ReadTrue(c)

(* What RouteOwner calls the stages of a connection. *)
Life(c) ==
  CASE hpc[c] = "new" -> "out"
    [] hpc[c] \in {"stripe", "bind", "bindHeld", "insert", "late"} -> "taking"
    [] hpc[c] \in {"run", "tdWait"} -> IF bpc[c] = "exit" THEN "leaving" ELSE "open"
    [] hpc[c] \in {"failed", "unbind", "unbindHeld", "finish"} -> "leaving"
    [] hpc[c] = "done" -> "gone"

lives == [c \in Conns |-> Life(c)]

Abstract == INSTANCE RouteOwner WITH owner <- route, life <- lives

(* The locked sections and the heartbeat handshake implement RouteOwner: a
   stale teardown never deletes the route of a newer connection, a self-heal
   never overwrites one, and neither touches the route after its connection
   has left. *)
ImplementsRouteOwner == Abstract!Spec

(* Superseded connections close and lost routes come back: in the end every
   open connection of a node that is not draining owns the route, so there
   is at most one of them and public clients reach it. *)
Converges ==
  <>[](\A c \in Conns : OpenConn(c) /\ ~draining[home[c]] => route = cid[c])

(* No teardown is left hanging: in the end every closed connection has been
   torn down and the route names no connection that is gone. *)
TeardownCompletes ==
  <>[](\A c \in Conns :
         /\ hpc[c] \notin {"tdWait", "unbind", "unbindHeld", "finish"}
         /\ closed[c] => hpc[c] # "run"
         /\ route = cid[c] => hpc[c] # "done")
=============================================================================
