----------------------------- MODULE Admission -----------------------------
(***************************************************************************)
(* Admission of public connections on a node: the TLS port                 *)
(* (internal/edge/accept.go, edge.go) and the plain HTTP port              *)
(* (internal/server/acmehttp.go guardedListener) share one --max-clients   *)
(* counter.  A slot is taken on admission and given back exactly once, by  *)
(* the handler, or, for a connection handed to one of the node's own       *)
(* HTTP servers, by the connection's Close.                                *)
(***************************************************************************)
EXTENDS Focus, Integers, FiniteSets

CONSTANTS
  TLSConns, HTTPConns,  \* the connections to either port
  MaxClients,           \* --max-clients
  QueueCap              \* room in a reserved host's listener (64)

ASSUME AdmissionAssumption ==
  IsFiniteSet(TLSConns) /\ IsFiniteSet(HTTPConns) /\ MaxClients \in Nat

VARIABLES
  clients,    \* Edge.clients
  adm,        \* the connections: where each one is
  shut        \* the serving context is cancelled and the listeners are closed

avars == <<clients, adm, shut>>

Publics == TLSConns \cup HTTPConns
Queued == {c \in Publics : adm[c] = "queued"}

AdmissionInit ==
  /\ clients = 0
  /\ adm = [c \in Publics |-> "new"]
  /\ shut = FALSE

Go(c, at) == adm' = [adm EXCEPT ![c] = at]

(* The accept loops: one goroutine per connection. *)
Accept(c) ==
  /\ adm[c] = "new" /\ ~shut
  /\ Go(c, "check")
  /\ UNCHANGED <<clients, shut>>

(* The source address, the ban list and the address's rate, in that order; a
   refusal closes the connection.  The counter is not touched yet. *)
Refuse(c) ==
  /\ adm[c] = "check"
  /\ Go(c, "closed")
  /\ UNCHANGED <<clients, shut>>

(* admit: raise the counter first and look at the result. *)
Add(c) ==
  /\ adm[c] = "check"
  /\ clients' = clients + 1
  /\ Go(c, IF clients + 1 > MaxClients THEN "sub" ELSE IF c \in TLSConns THEN "peek" ELSE "hand")
  /\ UNCHANGED shut

(* admit, over the ceiling: lower the counter again and refuse. *)
Sub(c) ==
  /\ adm[c] = "sub"
  /\ clients' = clients - 1
  /\ Go(c, "closed")
  /\ UNCHANGED shut

(* handleConn, TLS port: the ClientHello is read and decides who gets the
   connection; a bad or late one is refused. *)
Peek(c) ==
  /\ adm[c] = "peek"
  /\ \E to \in {"push", "acme", "tunnel", "over"} : Go(c, to)
  /\ UNCHANGED <<clients, shut>>

(* serveACMEChallenge or handleTunnel has returned, or the peek failed: the
   deferred release, in the handler. *)
HandlerEnds(c) ==
  /\ adm[c] \in {"acme", "tunnel", "over"}
  /\ clients' = clients - 1
  /\ Go(c, "closed")
  /\ UNCHANGED shut

(* Mutant: the handler gives the slot back as well. *)
PushReleases(c) ==
  /\ adm[c] = "push" /\ Cardinality(Queued) < QueueCap
  /\ Go(c, "queued")
  /\ clients' = clients - 1
  /\ UNCHANGED shut

(* chanListener.push: there is room in the queue. *)
PushRoom(c) ==
  /\ adm[c] = "push" /\ Cardinality(Queued) < QueueCap
  /\ Go(c, "queued")
  /\ UNCHANGED <<clients, shut>>

(* push: into the queue, or, once the listener is closed, close the connection,
   which gives the slot back.  With both possible select takes either. *)
Push(c) ==
  \/ PushRoom(c)
  \/ /\ adm[c] = "push" /\ shut
     /\ clients' = clients - 1
     /\ Go(c, "closed")
     /\ UNCHANGED shut

(* check, HTTP port: to the server's Accept, or closed with the listener. *)
Hand(c) ==
  /\ adm[c] = "hand"
  /\ \/ Go(c, "served") /\ UNCHANGED clients
     \/ shut /\ Go(c, "closed") /\ clients' = clients - 1
  /\ UNCHANGED shut

(* The reserved host's HTTP server takes a connection from its listener.  Both
   are ready after Close, so one may still be taken then. *)
TakeQueued(c) ==
  /\ adm[c] = "queued"
  /\ Go(c, "served")
  /\ UNCHANGED <<clients, shut>>

(* heldConn.Close, slotConn.Close: the slot goes with the connection, once. *)
CloseServed(c) ==
  /\ adm[c] = "served"
  /\ clients' = clients - 1
  /\ Go(c, "closed")
  /\ UNCHANGED shut

(* The serving context is cancelled: Edge.Serve closes the TLS port and the
   reserved hosts' listeners, the shutdown closes the HTTP port's. *)
CloseListeners ==
  /\ ~shut /\ shut' = TRUE
  /\ UNCHANGED <<clients, adm>>

ConnStep(c) ==
  \/ Accept(c) \/ Refuse(c) \/ Add(c) \/ Sub(c) \/ Peek(c) \/ HandlerEnds(c)
  \/ Push(c) \/ Hand(c) \/ TakeQueued(c) \/ CloseServed(c)

AdmissionNext == CloseListeners \/ \E c \in Publics : ConnStep(c)

(* A handler runs on: the peek and the challenge have a deadline, and the
   cancelled context ends a splice.  Nobody has to take from a listener.  A
   connection takes a few steps, so fairness to all of them together is enough. *)
AdmissionFairness ==
  WF_avars(focus = "admission" /\ \E c \in Publics :
    Refuse(c) \/ Add(c) \/ Sub(c) \/ Peek(c) \/ Push(c) \/ (shut /\ (HandlerEnds(c) \/ Hand(c))))

-----------------------------------------------------------------------------
Holding == {c \in Publics :
  adm[c] \in {"sub", "peek", "push", "queued", "served", "acme", "tunnel", "over", "hand"}}
Handling == {"check", "sub", "peek", "push", "acme", "tunnel", "over", "hand"}

(* Type invariant. *)
AdmissionTypeOK ==
  /\ clients \in Int /\ shut \in BOOLEAN
  /\ adm \in [Publics -> Handling \cup {"new", "queued", "served", "closed"}]

(* The counter is exactly the connections that hold a slot: none leaks, and    *)
(* none is given back twice when the slot moves to the connection.             *)
SlotsExact == clients = Cardinality(Holding)

(* No more connections are admitted at once than --max-clients, on both ports  *)
(* together, however their admissions interleave.                              *)
ClientsCapped == Cardinality({c \in Holding : adm[c] # "sub"}) <= MaxClients

(* The shutdown's wait for the handlers ends (edge.go Wait, acmehttp.go Wait): *)
(* none is stuck behind a full listener that nobody takes from any more.       *)
HandlersEnded == shut => \A c \in Publics : adm[c] \notin Handling
=============================================================================
