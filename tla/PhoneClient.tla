---------------------------- MODULE PhoneClient -----------------------------
(***************************************************************************)
(* The phone's control client (client/control.go): Run opens a control     *)
(* connection and serves it; a MOVE frame makes it open another one, at    *)
(* the addresses of the frame or, when none answers, at its own address,   *)
(* while the old connection goes on until the node closes it.  Each        *)
(* connection has a goroutine, the pump, which reads its frames, hands a   *)
(* MOVE to Run through a channel with room for one, and ends with the      *)
(* connection.  Close is called after Run has returned.                    *)
(***************************************************************************)
EXTENDS Focus, Integers, FiniteSets

CONSTANTS
  MaxLinks,    \* bound on the control connections
  MaxTargets   \* usable addresses in a MOVE

VARIABLES
  step,       \* Run: "dial", "wait", "sleep", "done", then "closing" and "closed"
  target,     \* what it dials: "first", a "move" address or the "fallback"
  left,       \* addresses of the MOVE still to be tried
  link,       \* the connection it waits on
  open,       \* connections whose pump runs
  over,       \* connections whose pump has returned
  inbox,      \* inbox[k]: the MOVE in k's channel, its number of addresses, or -1
  farEnd,     \* history: connections that the node, the network or silence ended
  cancelled,  \* the context of Run
  stopped     \* the client's own context, life

Links == 1..MaxLinks   \* in the order they are opened
NoLink == 0

cvars == <<step, target, left, link, open, over, inbox, farEnd, cancelled, stopped>>

PhoneClientInit ==
  /\ step = "dial" /\ target = "first" /\ left = 0 /\ link = NoLink
  /\ open = {} /\ over = {} /\ inbox = [k \in Links |-> -1]
  /\ farEnd = {} /\ cancelled = FALSE /\ stopped = FALSE

(* serveConn, the request is answered with 200: start the pump and wait. *)
Connected(k) ==
  /\ step = "dial" /\ ~cancelled /\ k = Cardinality(open \cup over) + 1
  /\ step' = "wait" /\ link' = k /\ open' = open \cup {k}
  /\ UNCHANGED <<target, left, over, inbox, farEnd, cancelled, stopped>>

(* serveConn returns unopened: refused, unreachable, silent or cancelled.  move
   goes to the next address and then to the fallback, unless it is cancelled. *)
DialFails ==
  /\ step = "dial"
  /\ IF target # "move" \/ cancelled
       THEN step' = "done" /\ UNCHANGED <<target, left>>
       ELSE /\ target' = IF left > 0 THEN "move" ELSE "fallback"
            /\ left' = IF left > 0 THEN left - 1 ELSE 0
            /\ UNCHANGED step
  /\ UNCHANGED <<link, open, over, inbox, farEnd, cancelled, stopped>>

(* pump reads a MOVE with n usable addresses (move drops the malformed ones); it is
   ignored when the channel is full. *)
PumpMove(k, n) ==
  /\ k \in open /\ inbox[k] = -1
  /\ inbox' = [inbox EXCEPT ![k] = n]
  /\ UNCHANGED <<step, target, left, link, open, over, farEnd, cancelled, stopped>>

PumpReturns(k) == open' = open \ {k} /\ over' = over \cup {k}

(* The node closes the connection, it breaks, or the watchdog drops it. *)
FarEnds(k) ==
  /\ k \in open /\ PumpReturns(k) /\ farEnd' = farEnd \cup {k}
  /\ UNCHANGED <<step, target, left, link, inbox, cancelled, stopped>>

(* A connection's context hangs off Run's, and off the client's through AfterFunc. *)
Cut == cancelled \/ stopped

CutEnds(k) ==
  /\ Cut /\ k \in open /\ PumpReturns(k)
  /\ UNCHANGED <<step, target, left, link, inbox, farEnd, cancelled, stopped>>

(* move: the addresses in their order; at once, except after the fallback. *)
Follow(n) ==
  /\ target' = IF n > 0 THEN "move" ELSE "fallback"
  /\ left' = IF n > 0 THEN n - 1 ELSE 0
  /\ step' = IF target = "fallback" THEN "sleep" ELSE "dial"

(* The MOVE is taken from the channel: by the select, or by the second one that
   finds it there after the pump has ended. *)
TakeMove ==
  /\ step = "wait" /\ inbox[link] >= 0
  /\ Follow(inbox[link])
  /\ inbox' = [inbox EXCEPT ![link] = -1]
  /\ UNCHANGED <<link, open, over, farEnd, cancelled, stopped>>

(* The pump's error, and no MOVE in the channel: Run returns it. *)
SeesEnd ==
  /\ step = "wait" /\ link \in over /\ inbox[link] = -1
  /\ step' = "done"
  /\ UNCHANGED <<target, left, link, open, over, inbox, farEnd, cancelled, stopped>>

(* moveFallbackWait is over, or Run is cancelled in it. *)
Wakes ==
  /\ step = "sleep"
  /\ step' \in {"dial"} \cup (IF cancelled THEN {"done"} ELSE {})
  /\ UNCHANGED <<target, left, link, open, over, inbox, farEnd, cancelled, stopped>>

CancelRun ==
  /\ step \in {"dial", "wait", "sleep"} /\ ~cancelled /\ cancelled' = TRUE
  /\ UNCHANGED <<step, target, left, link, open, over, inbox, farEnd, stopped>>

(* Close: cancel the client's context, then wait for the pumps. *)
Close ==
  /\ step = "done" /\ step' = "closing" /\ stopped' = TRUE
  /\ UNCHANGED <<target, left, link, open, over, inbox, farEnd, cancelled>>

CloseReturns ==
  /\ step = "closing" /\ open = {} /\ step' = "closed"
  /\ UNCHANGED <<target, left, link, open, over, inbox, farEnd, cancelled, stopped>>

PhoneClientNext ==
  \/ \E k \in Links : Connected(k) \/ FarEnds(k) \/ CutEnds(k) \/ \E n \in 0..MaxTargets : PumpMove(k, n)
  \/ DialFails \/ TakeMove \/ SeesEnd \/ Wakes \/ CancelRun \/ Close \/ CloseReturns

(* A cancelled context ends the pumps, dials and waits that hang off it. *)
PhoneClientFairness ==
  /\ WF_cvars(focus = "client" /\ \E k \in Links : CutEnds(k))
  /\ WF_cvars(focus = "client" /\ ((cancelled /\ (DialFails \/ Wakes)) \/ TakeMove \/ SeesEnd \/ CloseReturns))

-----------------------------------------------------------------------------
(* Type invariant. *)
PhoneClientTypeOK ==
  /\ step \in {"dial", "wait", "sleep", "done", "closing", "closed"}
  /\ target \in {"first", "move", "fallback"} /\ left \in 0..MaxTargets
  /\ link \in Links \cup {NoLink} /\ open \cup over \subseteq Links /\ open \cap over = {}
  /\ inbox \in [Links -> -1..MaxTargets]

(* A cancelled Run returns, and Close returns although moved-away connections  *)
(* were left open by Run.                                                      *)
ClientEnded ==
  /\ cancelled => step \in {"done", "closing", "closed"}
  /\ step # "closing"
=============================================================================
