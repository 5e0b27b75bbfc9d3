------------------------------ MODULE DialBack ------------------------------
(***************************************************************************)
(* The rendezvous of a public stream with the data connection its phone    *)
(* opens, on one entry node: DialBacks.Await and its deferred abandon      *)
(* (internal/phoneconn/dialback.go) called by edge.openFar, at most twice  *)
(* per stream and with the same token, against serveDialBack of the phone's *)
(* connections.                                                            *)
(*                                                                         *)
(* A waiter is a pair <<s, k>>: stream s, attempt k.  An attempt sends at   *)
(* most one OPEN, and the phone dials once per OPEN, so the data connection *)
(* of that OPEN has the same name <<s, k>>; it carries only the token, that *)
(* is s, and may meet the waiter of the other attempt.                      *)
(***************************************************************************)
EXTENDS Naturals

CONSTANT Streams

Attempts == 1..2
Waiters  == Streams \X Attempts

VARIABLES
  spc,      \* where handleTunnel of each stream stands
  att,      \* its attempt, 0 before the first
  got,      \* the data connection its select received (an attempt's number, or 0)
  waiting,  \* DialBacks.waiting[token]: the attempt whose waiter is registered, or 0
  box,      \* each waiter's channel of capacity 1: a data connection, or 0
  opened,   \* the OPENs queued on the phone's control connection
  data       \* where serveDialBack of each data connection stands

dialVars == <<spc, att, got, waiting, box, opened, data>>

StreamPCs == {"new", "open", "select", "delete", "drain", "failed", "splice", "ended"}
DialPCs   == {"none", "arrived", "upgrade", "deliver", "delivered", "closed"}

DialTypeOK ==
  /\ spc \in [Streams -> StreamPCs]
  /\ att \in [Streams -> 0..2]
  /\ got \in [Streams -> 0..2]
  /\ waiting \in [Streams -> 0..2]
  /\ box \in [Waiters -> 0..2]
  /\ opened \in SUBSET Waiters
  /\ data \in [Waiters -> DialPCs]

DialInit ==
  /\ spc = [s \in Streams |-> "new"]
  /\ att = [s \in Streams |-> 0]
  /\ got = [s \in Streams |-> 0]
  /\ waiting = [s \in Streams |-> 0]
  /\ box = [w \in Waiters |-> 0]
  /\ opened = {}
  /\ data = [w \in Waiters |-> "none"]

(* The current waiter of a stream. *)
Waiter(s) == <<s, att[s]>>

-----------------------------------------------------------------------------
(* handleTunnel, openFar and Await *)

(* Await registers a waiter under the token, unless one is registered. *)
Register(s, k) ==
  /\ att' = [att EXCEPT ![s] = k]
  /\ IF waiting[s] # 0
     THEN spc' = [spc EXCEPT ![s] = "ended"] /\ UNCHANGED waiting
     ELSE /\ spc' = [spc EXCEPT ![s] = "open"]
          /\ waiting' = [waiting EXCEPT ![s] = k]

FirstOpen(s) ==
  /\ spc[s] = "new" /\ Register(s, 1)
  /\ UNCHANGED <<got, box, opened, data>>

(* openAdapter.Open: SendOpen queues the frame, here or on the owner node. *)
OpenSent(s) ==
  /\ spc[s] = "open"
  /\ opened' = opened \cup {Waiter(s)}
  /\ spc' = [spc EXCEPT ![s] = "select"]
  /\ UNCHANGED <<att, got, waiting, box, data>>

(* No such connection, a full send buffer or a mesh error; when only the
   answer of the mesh call was lost, the OPEN is on its way all the same. *)
OpenFails(s) ==
  /\ spc[s] = "open"
  /\ opened' \in {opened, opened \cup {Waiter(s)}}
  /\ spc' = [spc EXCEPT ![s] = "delete"]
  /\ UNCHANGED <<att, got, waiting, box, data>>

(* The select of Await: the data connection, or the timeout, or either of
   them when both are ready. *)
Receive(s) ==
  /\ spc[s] = "select" /\ box[Waiter(s)] # 0
  /\ got' = [got EXCEPT ![s] = box[Waiter(s)]]
  /\ box' = [box EXCEPT ![Waiter(s)] = 0]
  /\ spc' = [spc EXCEPT ![s] = "delete"]
  /\ UNCHANGED <<att, waiting, opened, data>>

Timeout(s) ==
  /\ spc[s] = "select"
  /\ spc' = [spc EXCEPT ![s] = "delete"]
  /\ UNCHANGED <<att, got, waiting, box, opened, data>>

(* Mutant of AbandonDelete: the waiter stays registered. *)
AbandonForgets(s) ==
  /\ spc[s] = "delete"
  /\ spc' = [spc EXCEPT ![s] = "drain"]
  /\ UNCHANGED <<att, got, waiting, box, opened, data>>

(* The deferred abandon: under the mutex the waiter goes, if it is still its
   own; then the channel is drained and what was in it closed. *)
AbandonDelete(s) ==
  /\ spc[s] = "delete"
  /\ waiting' = [waiting EXCEPT ![s] = IF @ = att[s] THEN 0 ELSE @]
  /\ spc' = [spc EXCEPT ![s] = "drain"]
  /\ UNCHANGED <<att, got, box, opened, data>>

(* Mutant of AbandonDrain: the channel is not looked at. *)
AbandonNoDrain(s) ==
  /\ spc[s] = "drain"
  /\ spc' = [spc EXCEPT ![s] = IF got[s] # 0 THEN "splice" ELSE "failed"]
  /\ UNCHANGED <<att, got, waiting, box, opened, data>>

AbandonDrain(s) ==
  /\ spc[s] = "drain"
  /\ data' = [d \in Waiters |-> IF d = <<s, box[Waiter(s)]>> THEN "closed" ELSE data[d]]
  /\ box' = [box EXCEPT ![Waiter(s)] = 0]
  /\ spc' = [spc EXCEPT ![s] = IF got[s] # 0 THEN "splice" ELSE "failed"]
  /\ UNCHANGED <<att, got, waiting, opened>>

(* The fresh LookupRoute names another connection: one more attempt, once.  It
   names the same one, fails or finds nothing: the client is refused. *)
Retry(s) ==
  /\ spc[s] = "failed" /\ att[s] = 1 /\ Register(s, att[s] + 1)
  /\ UNCHANGED <<got, box, opened, data>>

Refuse(s) ==
  /\ spc[s] = "failed"
  /\ spc' = [spc EXCEPT ![s] = "ended"]
  /\ UNCHANGED <<att, got, waiting, box, opened, data>>

(* splice returns and handleTunnel closes the far side. *)
SpliceEnds(s) ==
  /\ spc[s] = "splice"
  /\ data' = [data EXCEPT ![<<s, got[s]>>] = "closed"]
  /\ got' = [got EXCEPT ![s] = 0]
  /\ spc' = [spc EXCEPT ![s] = "ended"]
  /\ UNCHANGED <<att, waiting, box, opened>>

-----------------------------------------------------------------------------
(* The phone (handleOpen) and serveDialBack *)

PhoneDials(d) ==
  /\ d \in opened /\ data[d] = "none"
  /\ data' = [data EXCEPT ![d] = "arrived"]
  /\ UNCHANGED <<spc, att, got, waiting, box, opened>>

(* expects: 404 when nobody waits for the token. *)
Expects(d) ==
  /\ data[d] = "arrived"
  /\ data' = [data EXCEPT ![d] = IF waiting[d[1]] # 0 THEN "upgrade" ELSE "closed"]
  /\ UNCHANGED <<spc, att, got, waiting, box, opened>>

(* Hijack and the 101 answer, which may fail. *)
Upgrade(d) ==
  /\ data[d] = "upgrade"
  /\ \E to \in {"deliver", "closed"} : data' = [data EXCEPT ![d] = to]
  /\ UNCHANGED <<spc, att, got, waiting, box, opened>>

(* The mutex is held while the connection is pushed into the channel. *)
Push(d, k) ==
  /\ box[<<d[1], k>>] = 0
  /\ box' = [box EXCEPT ![<<d[1], k>>] = d[2]]
  /\ data' = [data EXCEPT ![d] = "delivered"]

(* Mutant of Deliver: the waiter is not deleted. *)
DeliverKeepsWaiter(d) ==
  /\ data[d] = "deliver"
  /\ LET k == waiting[d[1]] IN
       IF k = 0 THEN data' = [data EXCEPT ![d] = "closed"] /\ UNCHANGED box
                ELSE Push(d, k)
  /\ UNCHANGED <<spc, att, got, waiting, opened>>

(* deliver looks the token up again: the waiter may be gone, or be the one of
   the second attempt. *)
Deliver(d) ==
  /\ data[d] = "deliver"
  /\ LET k == waiting[d[1]] IN
       IF k = 0
       THEN data' = [data EXCEPT ![d] = "closed"] /\ UNCHANGED <<waiting, box>>
       ELSE Push(d, k) /\ waiting' = [waiting EXCEPT ![d[1]] = 0]
  /\ UNCHANGED <<spc, att, got, opened>>

-----------------------------------------------------------------------------
StreamStep(s) ==
  \/ FirstOpen(s) \/ OpenSent(s) \/ OpenFails(s) \/ Receive(s) \/ Timeout(s)
  \/ AbandonDelete(s) \/ AbandonDrain(s) \/ Retry(s) \/ Refuse(s) \/ SpliceEnds(s)

DialStep(d) == Expects(d) \/ Upgrade(d) \/ Deliver(d)

DialNext == \/ \E s \in Streams : StreamStep(s)
        \/ \E d \in Waiters : PhoneDials(d) \/ DialStep(d)

DialSpec == DialInit /\ [][DialNext]_dialVars

(* Goroutines run, waits time out and public connections end; whether the
   phone ever dials is up to the phone. *)
DialLiveSpec == /\ DialSpec
            /\ \A s \in Streams : WF_dialVars(StreamStep(s))
            /\ \A d \in Waiters : WF_dialVars(DialStep(d))

-----------------------------------------------------------------------------
InBox(d, k) == box[<<d[1], k>>] = d[2]
Draining(s, k) == att[s] = k /\ spc[s] \in {"open", "select", "delete", "drain"}

(* Every connection handed over has exactly one owner: the channel of a waiter
   that is still to be received from or drained, or the stream that received
   it.  Whatever the order of timeout, abandon and deliver, none is left open
   in a channel nobody will read. *)
DeliveredIsOwned ==
  \A d \in Waiters : data[d] = "delivered" =>
    \/ \E k \in Attempts : InBox(d, k) /\ Draining(d[1], k)
    \/ got[d[1]] = d[2] /\ spc[d[1]] \in {"delete", "drain", "splice"}

(* deliver pushes while it holds the mutex of all waiters, so it must never
   find the channel full: a registered waiter's channel is empty. *)
DeliverNeverBlocks ==
  \A s \in Streams : waiting[s] # 0 => box[<<s, waiting[s]>>] = 0

(* Two dial-backs of one token, from the two attempts, never both hold the
   public stream: at most one is handed over at a time. *)
OneDataConn ==
  \A s \in Streams :
    ~(data[<<s, 1>>] = "delivered" /\ data[<<s, 2>>] = "delivered")

(* Every public stream ends, and so does every data connection the phone
   opened for it. *)
AllEnds ==
  <>[](/\ \A s \in Streams : spc[s] = "ended"
       /\ \A d \in Waiters : data[d] \in {"none", "closed"})
=============================================================================
