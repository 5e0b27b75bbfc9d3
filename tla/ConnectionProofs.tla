-------------------------- MODULE ConnectionProofs --------------------------
(***************************************************************************)
(* The two kinds of connection of a phone, for any number of them: its     *)
(* control connections, which a planned shutdown moves to other nodes, and *)
(* its data connections, which find the stream that waits for them.        *)
(***************************************************************************)
EXTENDS Drain, DialBack, FiniteSetTheorems, TLAPS

-----------------------------------------------------------------------------
(***************************************************************************)
(* The planned shutdown for every set of connections and issue requests    *)
(* and every buffer size.  Neither property is inductive by itself.        *)
(*                                                                         *)
(* NoIssueCut rests on the counter being exact (as many as the requests    *)
(* between their increment and their deferred decrement) and on the flag   *)
(* being up from the end of StartDrain on, so that a request that counts   *)
(* after the last look at the counter is refused.                          *)
(*                                                                         *)
(* MoveNotLost rests on what each half of sendMove leaves behind: a        *)
(* connection the drainer has gone through, or that was bound after the    *)
(* flag went up, has its MOVE written, queued, or recorded as owed; and a  *)
(* sendMove that is about to clear moveDue has put its MOVE in the buffer. *)
(***************************************************************************)

(* The requests that Handler.issuing counts. *)
InFlight == {i \in Issues : ipc[i] \in {"counted", "issuing"}}

(* The drainer is past StartDrain's first store, past its second. *)
Raised == {"snap", "moves", "phones", "edge", "issues", "wait", "finished"}
Listed == Raised \cup {"flag"}

Owed(c) ==
  told[c] \/ HasMove(c) \/ due[c] \/ pend[<<c, "h">>] = "set" \/ pend[<<c, "d">>] = "set"

ConnInv(c) ==
  /\ \A who \in Senders : pend[<<c, who>>] = "clear" => told[c] \/ HasMove(c)
  /\ pend[<<c, "d">>] # "none" => dpc = "moves"
  /\ dpc \in Raised \ {"snap", "finished"} /\ targets /\ c \in inMap
       /\ cpc[c] = "running" /\ ~closed[c]
     => Owed(c) \/ (dpc = "moves" /\ c \in todo)

DrainerInv ==
  /\ dpc \in Raised => draining
  /\ dpc \in Listed => addrs = targets

IssueInv ==
  /\ IsFiniteSet(InFlight)
  /\ issuing = Cardinality(InFlight)
  /\ NoIssueCut

DrainInv ==
  /\ DrainTypeOK /\ DrainerInv /\ IssueInv
  /\ \A c \in Conns : ConnInv(c)

-----------------------------------------------------------------------------
(* A buffer's MOVE survives an append and leaves at its head. *)
LEMMA MoveQueued ==
  ASSUME NEW s \in Seq({"open", "move"}), NEW f \in {"open", "move"}
  PROVE  /\ Append(s, f) \in Seq({"open", "move"}) /\ Len(Append(s, f)) = Len(s) + 1
         /\ (f = "move" \/ \E k \in 1..Len(s) : s[k] = "move")
              => \E k \in 1..Len(Append(s, f)) : Append(s, f)[k] = "move"
<1>1. Append(s, f)[Len(s) + 1] = f /\ Len(s) + 1 \in 1..Len(Append(s, f))
  OBVIOUS
<1>2. \A k \in 1..Len(s) : Append(s, f)[k] = s[k] /\ k \in 1..Len(Append(s, f))
  OBVIOUS
<1> QED BY <1>1, <1>2

LEMMA MoveLeaves ==
  ASSUME NEW s \in Seq({"open", "move"}), s # << >>,
         \E k \in 1..Len(s) : s[k] = "move"
  PROVE  Head(s) = "move" \/ \E k \in 1..Len(Tail(s)) : Tail(s)[k] = "move"
<1>1. PICK k \in 1..Len(s) : s[k] = "move"
  OBVIOUS
<1>2. CASE k = 1
  BY <1>1, <1>2
<1>3. CASE k # 1
  <2>1. k - 1 \in 1..Len(Tail(s)) /\ Tail(s)[k - 1] = s[k]
    BY <1>3
  <2> QED BY Zenon, <2>1, <1>1
<1> QED BY Zenon, <1>2, <1>3

LEMMA DrainInitial == DrainInit => DrainInv
<1> SUFFICES ASSUME DrainInit PROVE DrainInv
  OBVIOUS
<1>0. \A c \in Conns : send[c] = << >>
  BY Zenon DEF DrainInit
<1>1. DrainTypeOK
  <2>1. send \in [Conns -> Seq({"open", "move"})] /\ \A c \in Conns : Len(send[c]) <= Buffer
    BY <1>0, DrainAssumption DEF DrainInit
  <2>2. opens \in 0..MaxOpens /\ faults \in 0..MaxFaults
    BY DrainAssumption DEF DrainInit
  <2>3. pend \in [Conns \X Senders -> {"none", "clear", "set"}]
    BY Zenon DEF DrainInit
  <2> QED BY Zenon, <2>1, <2>2, <2>3 DEF DrainInit, DrainTypeOK, DrainPCs, ConnPCs, IssuePCs
<1>2. DrainerInv
  BY Zenon DEF DrainInit, DrainerInv, Raised, Listed
<1>3. InFlight = {}
  BY Zenon DEF DrainInit, InFlight
<1>4. IssueInv
  BY Zenon, <1>3, FS_EmptySet DEF DrainInit, IssueInv, NoIssueCut
<1>5. \A c \in Conns : ConnInv(c)
  BY Zenon DEF DrainInit, ConnInv, Raised, Senders
<1> QED BY Zenon, <1>1, <1>2, <1>4, <1>5 DEF DrainInv

-----------------------------------------------------------------------------
(* The steps of serveIssue. *)
LEMMA IssueSteps ==
  ASSUME DrainInv, NEW i \in Issues, CountIssue(i) \/ CheckIssue(i) \/ IssueEnds(i)
  PROVE  DrainInv'
<1> USE DEF DrainInv
<1>1. UNCHANGED <<drainer, phones, faults>>
  BY Zenon DEF CountIssue, CheckIssue, IssueEnds
<1>2. InFlight \in SUBSET Issues /\ issuing \in Nat
  BY Zenon DEF InFlight, DrainTypeOK
<1>3. IsFiniteSet(InFlight') /\ issuing' = Cardinality(InFlight')
  <2>1. CASE CountIssue(i)
    <3>1. InFlight' = InFlight \cup {i} /\ i \notin InFlight
      BY Zenon, <2>1 DEF CountIssue, InFlight, DrainTypeOK
    <3> QED BY Zenon, <2>1, <3>1, FS_AddElement DEF CountIssue, IssueInv
  <2>2. CASE IssueEnds(i) \/ (CheckIssue(i) /\ draining)
    <3>1. InFlight' = InFlight \ {i} /\ i \in InFlight /\ issuing' = issuing - 1
      BY Zenon, <2>2 DEF CheckIssue, IssueEnds, InFlight, DrainTypeOK
    <3> QED BY Zenon, <3>1, FS_RemoveElement DEF IssueInv
  <2>3. CASE CheckIssue(i) /\ ~draining
    <3>1. InFlight' = InFlight /\ issuing' = issuing
      BY Zenon, <2>3 DEF CheckIssue, InFlight, DrainTypeOK
    <3> QED BY Zenon, <3>1 DEF IssueInv
  <2> QED BY Zenon, <2>1, <2>2, <2>3
<1>4. issuing' \in Nat
  BY Zenon, <1>3, FS_CardinalityType
<1>5. DrainTypeOK'
  BY Zenon, <1>1, <1>4 DEF DrainTypeOK, IssuePCs, CountIssue, CheckIssue, IssueEnds, drainer, phones
<1>6. NoIssueCut'
  BY Zenon, <1>1 DEF CountIssue, CheckIssue, IssueEnds, DrainTypeOK, IssueInv, NoIssueCut, DrainerInv,
              Raised, drainer
<1>7. DrainerInv' /\ \A c \in Conns : ConnInv(c)'
  BY Zenon, <1>1 DEF DrainerInv, ConnInv, Owed, HasMove, drainer, phones
<1> QED BY Zenon, <1>3, <1>5, <1>6, <1>7 DEF IssueInv

(* The steps of drainer.run that touch no connection. *)
LEMMA DrainerSteps ==
  ASSUME DrainInv,
         \/ Stop \/ MoveTargets \/ SetAddrs \/ SetDraining \/ Snapshot \/ AllMoved
         \/ ReadPhones \/ ReadEdge \/ ReadIssues \/ RetryMoves \/ Expire
  PROVE  DrainInv'
<1> USE DEF DrainInv
<1>1. UNCHANGED <<phones, ipc, issuing, faults, closeAll>>
  BY Zenon DEF Stop, MoveTargets, SetAddrs, SetDraining, Snapshot, AllMoved, ReadPhones, ReadEdge,
         ReadIssues, RetryMoves, Expire
<1>2. DrainTypeOK'
  BY ZenonT(30), <1>1
     DEF DrainTypeOK, DrainPCs, phones, Stop, MoveTargets, SetAddrs, SetDraining, Snapshot,
         AllMoved, ReadPhones, ReadEdge, ReadIssues, RetryMoves, Expire
<1>3. DrainerInv'
  BY Zenon DEF DrainerInv, Raised, Listed, Stop, MoveTargets, SetAddrs, SetDraining, Snapshot,
         AllMoved, ReadPhones, ReadEdge, ReadIssues, RetryMoves, Expire
<1>4. InFlight' = InFlight
  BY Zenon, <1>1 DEF InFlight
<1>5. NoIssueCut'
  <2>1. CASE ReadIssues /\ issuing = 0
    <3>1. InFlight = {}
      BY ZenonT(30), <2>1, FS_EmptySet DEF IssueInv
    <3> QED BY Zenon, <3>1, <1>1 DEF InFlight, NoIssueCut
  <2>2. CASE ~(ReadIssues /\ issuing = 0)
    <3>1. dpc' # "finished"
      BY Zenon, <2>2 DEF Stop, MoveTargets, SetAddrs, SetDraining, Snapshot, AllMoved, ReadPhones,
                  ReadEdge, ReadIssues, RetryMoves, Expire
    <3> QED BY Zenon, <3>1 DEF NoIssueCut
  <2> QED BY Zenon, <2>1, <2>2
<1>6. ASSUME NEW c \in Conns PROVE ConnInv(c)'
  <2>1. Owed(c)' = Owed(c) /\ HasMove(c)' = HasMove(c)
    BY Zenon, <1>1 DEF Owed, HasMove, phones
  <2>2. \/ dpc' \in {"list", "addrs", "flag", "snap", "expired", "finished"}
        \/ dpc' = "phones" /\ dpc = "flag" /\ ~targets'
        \/ dpc' = "phones" /\ dpc = "moves" /\ todo = {} /\ targets' = targets
        \/ dpc' = "moves" /\ dpc = "snap" /\ todo' = inMap
        \/ dpc' \in {"moves", "edge", "issues", "wait"} /\ dpc \in {"wait", "phones", "edge", "issues"}
           /\ targets' = targets
    BY Zenon DEF Stop, MoveTargets, SetAddrs, SetDraining, Snapshot, AllMoved, ReadPhones, ReadEdge,
           ReadIssues, RetryMoves, Expire
  <2>3. dpc # "moves" \/ Idle("d")
    BY Zenon DEF Stop, MoveTargets, SetAddrs, SetDraining, Snapshot, AllMoved, ReadPhones, ReadEdge,
                 ReadIssues, RetryMoves, Expire
  <2>4. pend'[<<c, "d">>] = "none"
    BY Zenon, <1>1, <2>3 DEF ConnInv, Idle, phones
  <2>5. UNCHANGED <<inMap, cpc, closed, told, pend>>
    BY Zenon, <1>1 DEF phones
  <2> QED BY <2>1, <2>2, <2>4, <2>5 DEF ConnInv, Raised
<1> QED BY Zenon, <1>1, <1>2, <1>3, <1>4, <1>5, <1>6 DEF IssueInv

-----------------------------------------------------------------------------
(* What sendMove does: for an open connection with a target the MOVE is in the
   buffer and the flag about to be cleared, or the flag is about to be set; no
   MOVE is taken out of any buffer. *)
LEMMA SendMoveResult ==
  ASSUME DrainTypeOK, NEW c \in Conns, NEW who \in Senders, SendMove(c, who)
  PROVE  /\ send' \in [Conns -> Seq({"open", "move"})]
         /\ \A d \in Conns : Len(send'[d]) <= Buffer
         /\ pend' \in [Conns \X Senders -> {"none", "clear", "set"}]
         /\ faults' \in 0..MaxFaults
         /\ \A d \in Conns : HasMove(d) => HasMove(d)'
         /\ \A d \in Conns, w \in Senders :
              <<d, w>> # <<c, who>> => pend'[<<d, w>>] = pend[<<d, w>>]
         /\ ~closed[c] /\ addrs =>
              \/ pend'[<<c, who>>] = "clear" /\ HasMove(c)'
              \/ pend'[<<c, who>>] = "set"
         /\ closed[c] \/ ~addrs => pend' = pend
<1> USE DEF DrainTypeOK
<1>1. CASE closed[c] \/ ~addrs
  BY Zenon, <1>1 DEF SendMove, HasMove
<1>2. CASE /\ ~closed[c] /\ addrs /\ ~Full(c)
           /\ send' = [send EXCEPT ![c] = Append(@, "move")]
           /\ pend' = [pend EXCEPT ![<<c, who>>] = "clear"]
           /\ UNCHANGED faults
  <2>1. send[c] \in Seq({"open", "move"}) /\ Len(send[c]) \in Nat
    OBVIOUS
  <2>2. /\ send'[c] = Append(send[c], "move") /\ \A d \in Conns \ {c} : send'[d] = send[d]
        /\ send' \in [Conns -> Seq({"open", "move"})]
    BY Zenon, <1>2, <2>1, MoveQueued
  <2>3. \A d \in Conns : Len(send'[d]) <= Buffer
    BY <1>2, <2>1, <2>2, MoveQueued, DrainAssumption DEF Full
  <2>4. HasMove(c)'
    BY <2>1, <2>2, MoveQueued DEF HasMove
  <2>5. \A d \in Conns : HasMove(d) => HasMove(d)'
    BY Zenon, <2>2, <2>4 DEF HasMove
  <2> QED BY Zenon, <1>2, <2>2, <2>3, <2>4, <2>5
<1>3. CASE /\ ~closed[c] /\ addrs
           /\ \/ Full(c) /\ UNCHANGED faults
              \/ faults > 0 /\ faults' = faults - 1
           /\ pend' = [pend EXCEPT ![<<c, who>>] = "set"]
           /\ UNCHANGED send
  BY <1>3, DrainAssumption DEF HasMove
<1> QED BY Zenon, <1>1, <1>2, <1>3 DEF SendMove

(* The drainer's sendMove for one connection of its list. *)
LEMMA MoveOneStep ==
  ASSUME DrainInv, NEW c \in Conns, MoveOne(c)
  PROVE  DrainInv'
<1> USE DEF DrainInv
<1> "d" \in Senders
  BY Zenon DEF Senders
<1>1. SendMove(c, "d")
  BY Zenon DEF MoveOne
<1>2. DrainTypeOK'
  BY Zenon, <1>1, SendMoveResult DEF MoveOne, DrainTypeOK
<1>3. DrainerInv' /\ IssueInv'
  BY Zenon DEF MoveOne, DrainerInv, IssueInv, NoIssueCut, InFlight
<1>4. ASSUME NEW d \in Conns PROVE ConnInv(d)'
  <2>1. \A w \in Senders : <<d, w>> # <<c, "d">> => pend'[<<d, w>>] = pend[<<d, w>>]
    BY Zenon, <1>1, SendMoveResult
  <2>2. HasMove(d) => HasMove(d)'
    BY Zenon, <1>1, SendMoveResult
  <2>3. CASE d = c /\ ~closed[c] /\ addrs
    BY Zenon, <1>1, <2>1, <2>2, <2>3, SendMoveResult DEF MoveOne, ConnInv, Owed, Senders, DrainTypeOK
  <2>4. CASE ~(d = c /\ ~closed[c] /\ addrs)
    BY ZenonT(30), <1>1, <2>1, <2>2, <2>4, SendMoveResult
       DEF MoveOne, ConnInv, Owed, Senders, DrainTypeOK, DrainerInv, Raised, Listed
  <2> QED BY Zenon, <2>3, <2>4
<1> QED BY Zenon, <1>2, <1>3, <1>4

(* The handler's sendMove for a connection bound after the flag went up. *)
LEMMA MoveLatecomerStep ==
  ASSUME DrainInv, NEW c \in Conns, MoveLatecomer(c)
  PROVE  DrainInv'
<1> USE DEF DrainInv
<1> "h" \in Senders
  BY Zenon DEF Senders
<1>1. SendMove(c, "h")
  BY Zenon DEF MoveLatecomer
<1>2. DrainTypeOK'
  BY Zenon, <1>1, SendMoveResult DEF MoveLatecomer, DrainTypeOK, drainer, ConnPCs
<1>3. DrainerInv' /\ IssueInv'
  BY Zenon DEF MoveLatecomer, DrainerInv, IssueInv, NoIssueCut, InFlight, drainer
<1>4. ASSUME NEW d \in Conns PROVE ConnInv(d)'
  <2>1. \A w \in Senders : <<d, w>> # <<c, "h">> => pend'[<<d, w>>] = pend[<<d, w>>]
    BY Zenon, <1>1, SendMoveResult
  <2>2. HasMove(d) => HasMove(d)'
    BY Zenon, <1>1, SendMoveResult
  <2>3. CASE d = c /\ ~closed[c] /\ addrs
    BY Zenon, <1>1, <2>1, <2>2, <2>3, SendMoveResult
       DEF MoveLatecomer, ConnInv, Owed, Senders, DrainTypeOK, drainer
  <2>4. CASE ~(d = c /\ ~closed[c] /\ addrs)
    BY <1>1, <2>1, <2>2, <2>4, SendMoveResult
       DEF MoveLatecomer, ConnInv, Owed, Senders, DrainTypeOK, DrainerInv, Raised, Listed, drainer
  <2> QED BY Zenon, <2>3, <2>4
<1> QED BY Zenon, <1>2, <1>3, <1>4

(* The write of moveDue that ends either of them. *)
LEMMA StoreDueStep ==
  ASSUME DrainInv, NEW c \in Conns, NEW who \in Senders, StoreDue(c, who)
  PROVE  DrainInv'
<1> USE DEF DrainInv
<1>1. DrainTypeOK'
  BY Zenon DEF StoreDue, DrainTypeOK, drainer
<1>2. DrainerInv' /\ IssueInv'
  BY Zenon DEF StoreDue, DrainerInv, IssueInv, NoIssueCut, InFlight, drainer
<1>3. ASSUME NEW d \in Conns PROVE ConnInv(d)'
  <2>1. HasMove(d)' = HasMove(d)
    BY Zenon DEF StoreDue, HasMove
  <2> QED BY Zenon, <2>1 DEF StoreDue, ConnInv, Owed, Senders, DrainTypeOK, drainer
<1> QED BY Zenon, <1>1, <1>2, <1>3

(* The other steps of a control connection: registration, the two checks and
   the end, which leave every buffer alone. *)
LEMMA ServeSteps ==
  ASSUME DrainInv, NEW c \in Conns,
         Arrive(c) \/ Bind(c) \/ CheckAgain(c) \/ HangUp(c) \/ Teardown(c)
  PROVE  DrainInv'
<1> USE DEF DrainInv
<1>1. UNCHANGED <<dpc, targets, addrs, draining, todo, closeAll, send, due, pend, told, opens,
                  ipc, issuing, faults>>
  BY Zenon DEF Arrive, Bind, CheckAgain, HangUp, Teardown, drainer
<1>2. DrainTypeOK'
  <2>1. cpc' \in [Conns -> ConnPCs]
    BY Zenon DEF Arrive, Bind, CheckAgain, HangUp, Teardown, DrainTypeOK, ConnPCs
  <2>2. closed' \in [Conns -> BOOLEAN] /\ inMap' \subseteq Conns
    BY ZenonT(30) DEF Arrive, Bind, CheckAgain, HangUp, Teardown, DrainTypeOK
  <2> QED BY Zenon, <1>1, <2>1, <2>2 DEF DrainTypeOK
<1>3. DrainerInv' /\ IssueInv'
  BY Zenon, <1>1 DEF DrainerInv, IssueInv, NoIssueCut, InFlight
<1>4. ASSUME NEW d \in Conns PROVE ConnInv(d)'
  <2>1. HasMove(d)' = HasMove(d) /\ Owed(d)' = Owed(d)
    BY Zenon, <1>1 DEF HasMove, Owed
  <2>2. CASE d # c
    BY Zenon, <1>1, <2>1, <2>2
       DEF Arrive, Bind, CheckAgain, HangUp, Teardown, DrainTypeOK, drainer, ConnInv
  <2>3. CASE d = c
    BY Zenon, <1>1, <2>1, <2>3 DEF Arrive, Bind, CheckAgain, HangUp, Teardown, DrainTypeOK, drainer,
              ConnInv, DrainerInv, Raised
  <2> QED BY Zenon, <2>2, <2>3
<1> QED BY Zenon, <1>2, <1>3, <1>4

(* CloseAll, after the drain. *)
LEMMA StopServingStep ==
  ASSUME DrainInv, StopServing
  PROVE  DrainInv'
<1> USE DEF DrainInv
<1>1. DrainTypeOK'
  BY Zenon DEF StopServing, DrainTypeOK, DrainPCs
<1>2. DrainerInv' /\ IssueInv'
  BY Zenon DEF StopServing, DrainerInv, Raised, Listed, IssueInv, NoIssueCut, InFlight
<1>3. ASSUME NEW d \in Conns PROVE ConnInv(d)'
  BY Zenon DEF StopServing, ConnInv, Raised, HasMove
<1> QED BY Zenon, <1>1, <1>2, <1>3

(* runControl writes a frame. *)
LEMMA WriteStep ==
  ASSUME DrainInv, NEW c \in Conns, Write(c)
  PROVE  DrainInv'
<1> USE DEF DrainInv
<1>0. /\ send[c] \in Seq({"open", "move"}) /\ send[c] # << >>
      /\ send'[c] = Tail(send[c]) /\ \A d \in Conns \ {c} : send'[d] = send[d]
      /\ send' \in [Conns -> Seq({"open", "move"})]
  BY DEF Write, DrainTypeOK
<1>1. ASSUME NEW d \in Conns PROVE Len(send'[d]) <= Buffer
  <2>1. Len(Tail(send[c])) <= Len(send[c]) /\ Len(Tail(send[c])) \in Nat
    BY <1>0
  <2>2. Len(send[c]) \in Nat /\ Len(send[c]) <= Buffer /\ Len(send[d]) <= Buffer
    BY <1>0 DEF DrainTypeOK
  <2> QED BY <1>0, <2>1, <2>2, DrainAssumption
<1>2. DrainTypeOK'
  BY Zenon, <1>0, <1>1 DEF Write, DrainTypeOK, drainer
<1>3. DrainerInv' /\ IssueInv'
  BY ZenonT(30) DEF Write, DrainerInv, IssueInv, NoIssueCut, InFlight, drainer
<1>4. ASSUME NEW d \in Conns, told[d] \/ HasMove(d) PROVE told'[d] \/ HasMove(d)'
  <2>1. CASE told[d]
    BY Zenon, <2>1 DEF Write, DrainTypeOK
  <2>2. CASE d = c /\ HasMove(c)
    <3>1. \/ Head(send[c]) = "move"
          \/ \E k \in 1..Len(Tail(send[c])) : Tail(send[c])[k] = "move"
      BY Zenon, <1>0, <2>2, MoveLeaves DEF HasMove
    <3>2. CASE Head(send[c]) = "move"
      BY Zenon, <2>2, <3>2 DEF Write, DrainTypeOK
    <3>3. CASE \E k \in 1..Len(Tail(send[c])) : Tail(send[c])[k] = "move"
      BY Zenon, <1>0, <2>2, <3>3 DEF HasMove
    <3> QED BY Zenon, <3>1, <3>2, <3>3
  <2>3. CASE d # c /\ HasMove(d)
    BY Zenon, <1>0, <2>3 DEF HasMove
  <2> QED BY Zenon, <1>4, <2>1, <2>2, <2>3
<1>5. ASSUME NEW d \in Conns PROVE ConnInv(d)'
  BY Zenon, <1>4 DEF Write, ConnInv, Owed, drainer
<1> QED BY Zenon, <1>2, <1>3, <1>5

LEMMA SendOpenStep ==
  ASSUME DrainInv, NEW c \in Conns, SendOpen(c)
  PROVE  DrainInv'
<1> USE DEF DrainInv
<1>0. send[c] \in Seq({"open", "move"}) /\ Len(send[c]) \in Nat /\ Len(send[c]) < Buffer
  BY DrainAssumption DEF SendOpen, DrainTypeOK, Full
<1>1. /\ send'[c] = Append(send[c], "open") /\ \A d \in Conns \ {c} : send'[d] = send[d]
      /\ send' \in [Conns -> Seq({"open", "move"})]
  BY Zenon, <1>0, MoveQueued DEF SendOpen, DrainTypeOK
<1>2. Len(Append(send[c], "open")) = Len(send[c]) + 1
  BY Zenon, <1>0, MoveQueued
<1>3. ASSUME NEW d \in Conns PROVE Len(send'[d]) <= Buffer
  <2>1. CASE d = c
    <3>1. Len(send'[d]) = Len(send[c]) + 1
      BY Zenon, <1>1, <1>2, <2>1
    <3> QED BY <1>0, <3>1, DrainAssumption
  <2>2. CASE d # c
    BY Zenon, <1>1, <2>2 DEF DrainTypeOK
  <2> QED BY Zenon, <2>1, <2>2
<1>4. DrainTypeOK'
  BY <1>1, <1>3, DrainAssumption DEF SendOpen, DrainTypeOK, drainer
<1>5. DrainerInv' /\ IssueInv'
  BY Zenon DEF SendOpen, DrainerInv, IssueInv, NoIssueCut, InFlight, drainer
<1>6. ASSUME NEW d \in Conns, HasMove(d) PROVE HasMove(d)'
  <2>1. CASE d = c
    <3>1. \E k \in 1..Len(Append(send[c], "open")) : Append(send[c], "open")[k] = "move"
      BY Zenon, <1>0, <1>6, <2>1, MoveQueued DEF HasMove
    <3> QED BY Zenon, <1>1, <2>1, <3>1 DEF HasMove
  <2>2. CASE d # c
    BY Zenon, <1>1, <1>6, <2>2 DEF HasMove
  <2> QED BY Zenon, <2>1, <2>2
<1>7. ASSUME NEW d \in Conns PROVE ConnInv(d)'
  BY Zenon, <1>6 DEF SendOpen, ConnInv, Owed, drainer
<1> QED BY Zenon, <1>4, <1>5, <1>7

-----------------------------------------------------------------------------
LEMMA DrainStepsKeep == DrainInv /\ [DrainNext]_drainVars => DrainInv'
<1> SUFFICES ASSUME DrainInv, [DrainNext]_drainVars PROVE DrainInv'
  OBVIOUS
<1>1. CASE \E i \in Issues : CountIssue(i) \/ CheckIssue(i) \/ IssueEnds(i)
  BY Zenon, <1>1, IssueSteps
<1>2. CASE \/ Stop \/ MoveTargets \/ SetAddrs \/ SetDraining \/ Snapshot \/ AllMoved
           \/ ReadPhones \/ ReadEdge \/ ReadIssues \/ RetryMoves \/ Expire
  BY Zenon, <1>2, DrainerSteps
<1>3. CASE \E c \in Conns : Arrive(c) \/ Bind(c) \/ CheckAgain(c) \/ HangUp(c) \/ Teardown(c)
  BY Zenon, <1>3, ServeSteps
<1>7. CASE StopServing
  BY Zenon, <1>7, StopServingStep
<1>4. CASE \E c \in Conns : MoveOne(c) \/ MoveLatecomer(c) \/ Write(c) \/ SendOpen(c)
  BY Zenon, <1>4, MoveOneStep, MoveLatecomerStep, WriteStep, SendOpenStep
<1>5. CASE \E c \in Conns : StoreDue(c, "d") \/ StoreDue(c, "h")
  BY Zenon, <1>5, StoreDueStep DEF Senders
<1>6. CASE UNCHANGED drainVars
  <2>1. UNCHANGED <<drainer, phones, ipc, issuing, faults>>
    BY Zenon, <1>6 DEF drainVars
  <2>2. DrainTypeOK'
    BY Zenon, <2>1 DEF DrainInv, DrainTypeOK, drainer, phones
  <2>3. DrainerInv' /\ IssueInv'
    BY Zenon, <2>1 DEF DrainInv, DrainerInv, IssueInv, NoIssueCut, InFlight, drainer
  <2>4. \A c \in Conns : ConnInv(c)'
    BY Zenon, <2>1 DEF DrainInv, ConnInv, Owed, HasMove, drainer, phones
  <2> QED BY Zenon, <2>2, <2>3, <2>4 DEF DrainInv
<1> QED BY Zenon, <1>1, <1>2, <1>3, <1>4, <1>5, <1>6, <1>7 DEF DrainNext, DrainStep, Control

(* Every variable of the shutdown keeps its type; no send buffer overflows. *)
THEOREM DrainTypes == DrainSpec => []DrainTypeOK
<1>1. DrainInv => DrainTypeOK
  BY Zenon DEF DrainInv
<1> QED BY <1>1, DrainInitial, DrainStepsKeep, PTL DEF DrainSpec

(* Once StartDrain is through, every open served connection of the map has its
   MOVE written, queued, marked due or being sent, whatever the order in which
   connections are bound, buffers fill and the drainer goes through its list. *)
THEOREM NoMoveLost == DrainSpec => []MoveNotLost
<1>1. DrainInv => MoveNotLost
  BY Zenon DEF DrainInv, ConnInv, Owed, MoveNotLost, Raised, DrainTypeOK
<1> QED BY <1>1, DrainInitial, DrainStepsKeep, PTL DEF DrainSpec

(* A drain that finishes before its deadline leaves no certificate issuance
   running, and none can start after its last look at the counter. *)
THEOREM IssuesFinish == DrainSpec => []NoIssueCut
<1>1. DrainInv => NoIssueCut
  BY Zenon DEF DrainInv, IssueInv
<1> QED BY <1>1, DrainInitial, DrainStepsKeep, PTL DEF DrainSpec

-----------------------------------------------------------------------------
(***************************************************************************)
(* For any number of streams: no data connection is lost between deliver   *)
(* and abandon, deliver never blocks on a full channel while it holds the  *)
(* mutex, and a stream never has two data connections.  The inductive      *)
(* invariant speaks of one stream at a time: streams share nothing but the *)
(* map of waiters, and each has its own token.                             *)
(***************************************************************************)

StreamInv(s) ==
  (* a waiter is registered only during its own Await, with an empty channel *)
  /\ waiting[s] # 0 =>
       /\ waiting[s] = att[s] /\ spc[s] \in {"open", "select", "delete"}
       /\ got[s] = 0 /\ \A k \in Attempts : box[<<s, k>>] = 0
  (* a full channel is the current waiter's, and nothing was received *)
  /\ \A k \in Attempts : box[<<s, k>>] # 0 =>
       /\ k = att[s] /\ spc[s] \in {"open", "select", "delete", "drain"}
       /\ got[s] = 0 /\ data[<<s, box[<<s, k>>]>>] = "delivered"
  /\ got[s] # 0 =>
       spc[s] \in {"delete", "drain", "splice"} /\ data[<<s, got[s]>>] = "delivered"
  /\ spc[s] = "splice" => got[s] # 0
  /\ spc[s] \in {"open", "select", "delete", "drain", "failed", "splice"} => att[s] \in Attempts
  (* a connection handed over is in the current channel or received *)
  /\ \A k \in Attempts : data[<<s, k>>] = "delivered" =>
       got[s] = k \/ (att[s] \in Attempts /\ box[<<s, att[s]>>] = k)

DialInv == DialTypeOK /\ \A s \in Streams : StreamInv(s)

(* Waiters are pairs of a stream and an attempt. *)
LEMMA WaiterFacts ==
  /\ Attempts = {1, 2}
  /\ \A s \in Streams : <<s, 1>> \in Waiters /\ <<s, 2>> \in Waiters
  /\ \A d \in Waiters : \E s \in Streams : d = <<s, 1>> \/ d = <<s, 2>>
BY DEF Waiters, Attempts

(* What a channel holds is a data connection of its token. *)
LEMMA BoxFacts ==
  ASSUME DialTypeOK, NEW t \in Streams, NEW k \in Attempts, box[<<t, k>>] # 0
  PROVE  box[<<t, k>>] \in Attempts
<1>1. <<t, k>> \in Waiters
  BY Zenon DEF Waiters
<1>2. box[<<t, k>>] \in 0..2
  BY Zenon, <1>1 DEF DialTypeOK
<1> QED BY <1>2 DEF Attempts

LEMMA DialInitial == DialInit => DialInv
<1>1. DialInit => DialTypeOK
  BY WaiterFacts DEF DialInit, DialTypeOK, StreamPCs, DialPCs
<1>2. ASSUME DialInit, NEW t \in Streams PROVE StreamInv(t)
  BY Zenon, <1>2, WaiterFacts DEF DialInit, StreamInv
<1> QED BY Zenon, <1>1, <1>2 DEF DialInv

(* A step of a stream changes no other stream's share of the state. *)
LEMMA StreamStepInv ==
  ASSUME DialInv, NEW s \in Streams, StreamStep(s)
  PROVE  DialInv'
<1>a. DialTypeOK /\ StreamInv(s)
  BY Zenon DEF DialInv
<1>b. SUFFICES DialTypeOK' /\ \A t \in Streams : StreamInv(t)'
  BY Zenon DEF DialInv
<1>1. CASE FirstOpen(s)
  <2>1. DialTypeOK'
    BY <1>a, <1>1, WaiterFacts DEF FirstOpen, Register, DialTypeOK, StreamInv, StreamPCs, DialPCs
  <2>2. ASSUME NEW t \in Streams PROVE StreamInv(t)'
    <3>1. StreamInv(t)
      BY Zenon DEF DialInv
    <3>2. UNCHANGED <<got, box, data>>
      BY Zenon, <1>1 DEF FirstOpen
    <3>3. CASE t # s
      <4>1. spc'[t] = spc[t] /\ att'[t] = att[t] /\ waiting'[t] = waiting[t]
        BY Zenon, <1>a, <1>1, <3>3 DEF FirstOpen, Register, DialTypeOK
      <4> QED BY Zenon, <3>1, <3>2, <4>1 DEF StreamInv
    <3>4. CASE t = s
      <4>1. /\ waiting[s] = 0 /\ got[s] = 0 /\ \A k \in Attempts : box[<<s, k>>] = 0
            /\ \A k \in Attempts : data[<<s, k>>] # "delivered"
        BY <1>a, <1>1, WaiterFacts DEF FirstOpen, StreamInv
      <4>2. spc'[s] = "open" /\ att'[s] = 1 /\ waiting'[s] = 1
        BY <1>a, <1>1, <4>1 DEF FirstOpen, Register, DialTypeOK
      <4> QED BY Zenon, <3>2, <3>4, <4>1, <4>2, WaiterFacts DEF StreamInv
    <3> QED BY Zenon, <3>3, <3>4
  <2> QED BY Zenon, <2>1, <2>2
<1>2. CASE OpenSent(s)
  <2>1. DialTypeOK'
    BY <1>a, <1>2, WaiterFacts DEF OpenSent, Waiter, DialTypeOK, StreamInv, StreamPCs, DialPCs
  <2>2. ASSUME NEW t \in Streams PROVE StreamInv(t)'
    <3>1. StreamInv(t)
      BY Zenon DEF DialInv
    <3> QED BY Zenon, <1>a, <1>2, <3>1, WaiterFacts DEF OpenSent, Waiter, DialTypeOK, StreamInv
  <2> QED BY Zenon, <2>1, <2>2
<1>3. CASE OpenFails(s)
  <2>1. DialTypeOK'
    BY <1>a, <1>3, WaiterFacts DEF OpenFails, Waiter, DialTypeOK, StreamInv, StreamPCs, DialPCs
  <2>2. ASSUME NEW t \in Streams PROVE StreamInv(t)'
    <3>1. StreamInv(t)
      BY Zenon DEF DialInv
    <3> QED BY Zenon, <1>a, <1>3, <3>1, WaiterFacts DEF OpenFails, Waiter, DialTypeOK, StreamInv
  <2> QED BY Zenon, <2>1, <2>2
<1>4. CASE Receive(s)
  <2>1. DialTypeOK'
    BY Zenon, <1>a, <1>4, WaiterFacts DEF Receive, Waiter, DialTypeOK, StreamInv, StreamPCs, DialPCs
  <2>2. ASSUME NEW t \in Streams PROVE StreamInv(t)'
    <3>1. StreamInv(t)
      BY Zenon DEF DialInv
    <3>2. CASE t # s
      <4>1. \A k \in Attempts : box'[<<t, k>>] = box[<<t, k>>]
        BY Zenon, <1>a, <1>4, <3>2, WaiterFacts DEF Receive, Waiter, DialTypeOK
      <4>2. spc'[t] = spc[t] /\ got'[t] = got[t] /\ UNCHANGED <<att, waiting, data>>
        BY Zenon, <1>a, <1>4, <3>2 DEF Receive, DialTypeOK
      <4> QED BY ZenonT(30), <3>1, <4>1, <4>2 DEF StreamInv
    <3>3. CASE t = s
      <4>1. att[s] \in Attempts /\ spc[s] = "select" /\ box[<<s, att[s]>>] # 0
        BY Zenon, <1>a, <1>4 DEF Receive, Waiter, StreamInv
      <4>2. data[<<s, box[<<s, att[s]>>]>>] = "delivered" /\ box[<<s, att[s]>>] \in Attempts
        BY Zenon, <1>a, <4>1, BoxFacts DEF StreamInv
      <4>3. \A k \in Attempts : box'[<<s, k>>] = 0
        BY Zenon, <1>a, <1>4, <4>1, WaiterFacts DEF Receive, Waiter, DialTypeOK, StreamInv
      <4>4. /\ spc'[s] = "delete" /\ got'[s] = box[<<s, att[s]>>]
            /\ UNCHANGED <<att, waiting, data>>
        BY Zenon, <1>a, <1>4 DEF Receive, Waiter, DialTypeOK
      <4>5. \A k \in Attempts : data[<<s, k>>] = "delivered" => k = box[<<s, att[s]>>]
        BY <1>a, <4>1 DEF StreamInv, Attempts
      <4>6. waiting[s] = 0
        BY Zenon, <1>a, <4>1 DEF StreamInv
      <4> QED BY Zenon, <3>3, <4>1, <4>2, <4>3, <4>4, <4>5, <4>6 DEF StreamInv
    <3> QED BY Zenon, <3>2, <3>3
  <2> QED BY Zenon, <2>1, <2>2
<1>5. CASE Timeout(s)
  <2>1. DialTypeOK'
    BY Zenon, <1>a, <1>5, WaiterFacts DEF Timeout, DialTypeOK, StreamInv, StreamPCs, DialPCs
  <2>2. ASSUME NEW t \in Streams PROVE StreamInv(t)'
    <3>1. StreamInv(t)
      BY Zenon DEF DialInv
    <3> QED BY Zenon, <1>a, <1>5, <3>1, WaiterFacts DEF Timeout, DialTypeOK, StreamInv
  <2> QED BY Zenon, <2>1, <2>2
<1>6. CASE AbandonDelete(s)
  <2>1. DialTypeOK'
    BY <1>a, <1>6, WaiterFacts DEF AbandonDelete, DialTypeOK, StreamInv, StreamPCs, DialPCs
  <2>2. ASSUME NEW t \in Streams PROVE StreamInv(t)'
    <3>1. StreamInv(t)
      BY Zenon DEF DialInv
    <3> QED BY <1>a, <1>6, <3>1, WaiterFacts DEF AbandonDelete, DialTypeOK, StreamInv
  <2> QED BY Zenon, <2>1, <2>2
<1>7. CASE AbandonDrain(s)
  <2>1. DialTypeOK'
    BY ZenonT(30), <1>a, <1>7, WaiterFacts DEF AbandonDrain, Waiter, DialTypeOK, StreamInv, StreamPCs, DialPCs
  <2>2. ASSUME NEW t \in Streams PROVE StreamInv(t)'
    <3>1. StreamInv(t)
      BY Zenon DEF DialInv
    <3>2. CASE t # s
      <4>1. \A k \in Attempts : box'[<<t, k>>] = box[<<t, k>>] /\ data'[<<t, k>>] = data[<<t, k>>]
        BY Zenon, <1>a, <1>7, <3>2, WaiterFacts DEF AbandonDrain, Waiter, DialTypeOK
      <4>2. data[<<t, got[t]>>] = "delivered" /\ got[t] # 0 => data'[<<t, got[t]>>] = "delivered"
        BY <1>a, <4>1, WaiterFacts DEF DialTypeOK
      <4>3. \A k \in Attempts : box[<<t, k>>] # 0 => box[<<t, k>>] \in Attempts
        BY Zenon, <1>a, BoxFacts
      <4>4. spc'[t] = spc[t] /\ UNCHANGED <<att, got, waiting>>
        BY Zenon, <1>a, <1>7, <3>2 DEF AbandonDrain, DialTypeOK
      <4> QED BY <3>1, <4>1, <4>2, <4>3, <4>4 DEF StreamInv
    <3>3. CASE t = s
      <4>1. /\ \A k \in Attempts : box'[<<s, k>>] = 0
            /\ \A k \in Attempts : data'[<<s, k>>] =
                 IF k = box[<<s, att[s]>>] THEN "closed" ELSE data[<<s, k>>]
        BY Zenon, <1>a, <1>7, WaiterFacts DEF AbandonDrain, Waiter, DialTypeOK, StreamInv
      <4>2. got[s] # 0 => box[<<s, att[s]>>] = 0 /\ got[s] \in Attempts
        BY <1>a, <1>7, WaiterFacts DEF AbandonDrain, DialTypeOK, StreamInv
      <4>3. got[s] = 0 \/ data'[<<s, got[s]>>] = "delivered"
        BY ZenonT(30), <1>a, <4>1, <4>2, WaiterFacts DEF StreamInv
      <4> QED BY <1>a, <1>7, <3>3, <4>1, <4>2, <4>3 DEF AbandonDrain, DialTypeOK, StreamInv
    <3> QED BY Zenon, <3>2, <3>3
  <2> QED BY Zenon, <2>1, <2>2
<1>8. CASE Retry(s)
  <2>1. DialTypeOK'
    <3>1. 2 \in 0..2 /\ att[s] + 1 = 2
      BY <1>8 DEF Retry
    <3>2. att' = [att EXCEPT ![s] = 2]
          /\ (waiting' = waiting \/ waiting' = [waiting EXCEPT ![s] = 2])
          /\ (spc' = [spc EXCEPT ![s] = "open"] \/ spc' = [spc EXCEPT ![s] = "ended"])
      BY Zenon, <1>8, <3>1 DEF Retry, Register
    <3> QED BY Zenon, <1>a, <1>8, <3>1, <3>2 DEF Retry, DialTypeOK, StreamPCs
  <2>2. ASSUME NEW t \in Streams PROVE StreamInv(t)'
    <3>1. StreamInv(t)
      BY Zenon DEF DialInv
    <3>2. UNCHANGED <<got, box, data>>
      BY Zenon, <1>8 DEF Retry
    <3>3. CASE t # s
      <4>1. spc'[t] = spc[t] /\ att'[t] = att[t] /\ waiting'[t] = waiting[t]
        BY Zenon, <1>a, <1>8, <3>3 DEF Retry, Register, DialTypeOK
      <4> QED BY Zenon, <3>1, <3>2, <4>1 DEF StreamInv
    <3>4. CASE t = s
      <4>1. /\ waiting[s] = 0 /\ got[s] = 0 /\ \A k \in Attempts : box[<<s, k>>] = 0
            /\ \A k \in Attempts : data[<<s, k>>] # "delivered"
        BY <1>a, <1>8, WaiterFacts DEF Retry, StreamInv
      <4>2. spc'[s] = "open" /\ att'[s] = 2 /\ waiting'[s] = 2
        BY <1>a, <1>8, <4>1 DEF Retry, Register, DialTypeOK
      <4> QED BY Zenon, <3>2, <3>4, <4>1, <4>2, WaiterFacts DEF StreamInv
    <3> QED BY Zenon, <3>3, <3>4
  <2> QED BY Zenon, <2>1, <2>2
<1>9. CASE Refuse(s)
  <2>1. DialTypeOK'
    BY Zenon, <1>a, <1>9, WaiterFacts DEF Refuse, DialTypeOK, StreamInv, StreamPCs, DialPCs
  <2>2. ASSUME NEW t \in Streams PROVE StreamInv(t)'
    <3>1. StreamInv(t)
      BY Zenon DEF DialInv
    <3> QED BY Zenon, <1>a, <1>9, <3>1, WaiterFacts DEF Refuse, DialTypeOK, StreamInv
  <2> QED BY Zenon, <2>1, <2>2
<1>10. CASE SpliceEnds(s)
  <2>1. DialTypeOK'
    BY Zenon, <1>a, <1>10, WaiterFacts DEF SpliceEnds, DialTypeOK, StreamInv, StreamPCs, DialPCs
  <2>2. ASSUME NEW t \in Streams PROVE StreamInv(t)'
    <3>1. StreamInv(t)
      BY Zenon DEF DialInv
    <3> QED BY <1>a, <1>10, <3>1, WaiterFacts DEF SpliceEnds, DialTypeOK, StreamInv
  <2> QED BY Zenon, <2>1, <2>2
<1> QED BY Zenon, <1>1, <1>2, <1>3, <1>4, <1>5, <1>6, <1>7, <1>8, <1>9, <1>10 DEF StreamStep

(* So does a step of a data connection: it concerns the stream of its token. *)
LEMMA DialStepInv ==
  ASSUME DialInv, NEW d \in Waiters, PhoneDials(d) \/ DialStep(d)
  PROVE  DialInv'
<1>0. PICK s \in Streams : d = <<s, 1>> \/ d = <<s, 2>>
  BY Zenon, WaiterFacts
<1>a. DialTypeOK /\ StreamInv(s) /\ d[1] = s /\ d[2] \in {1, 2} /\ d = <<s, d[2]>>
  BY <1>0 DEF DialInv
<1>b. SUFFICES DialTypeOK' /\ \A t \in Streams : StreamInv(t)'
  BY Zenon DEF DialInv
<1>1. CASE PhoneDials(d)
  <2>1. DialTypeOK'
    BY Zenon, <1>a, <1>1, WaiterFacts DEF PhoneDials, DialTypeOK, StreamInv, DialPCs
  <2>2. ASSUME NEW t \in Streams PROVE StreamInv(t)'
    <3>1. StreamInv(t)
      BY Zenon DEF DialInv
    <3> QED BY <1>a, <1>1, <3>1, WaiterFacts DEF PhoneDials, DialTypeOK, StreamInv
  <2> QED BY Zenon, <2>1, <2>2
<1>2. CASE Expects(d)
  <2>1. DialTypeOK'
    BY Zenon, <1>a, <1>2, WaiterFacts DEF Expects, DialTypeOK, StreamInv, DialPCs
  <2>2. ASSUME NEW t \in Streams PROVE StreamInv(t)'
    <3>1. StreamInv(t)
      BY Zenon DEF DialInv
    <3> QED BY <1>a, <1>2, <3>1, WaiterFacts DEF Expects, DialTypeOK, StreamInv
  <2> QED BY Zenon, <2>1, <2>2
<1>3. CASE Upgrade(d)
  <2>1. DialTypeOK'
    BY <1>a, <1>3, WaiterFacts DEF Upgrade, DialTypeOK, StreamInv, DialPCs
  <2>2. ASSUME NEW t \in Streams PROVE StreamInv(t)'
    <3>1. StreamInv(t)
      BY Zenon DEF DialInv
    <3> QED BY <1>a, <1>3, <3>1, WaiterFacts DEF Upgrade, DialTypeOK, StreamInv
  <2> QED BY Zenon, <2>1, <2>2
<1>4. CASE Deliver(d) /\ waiting[s] = 0
  <2>1. DialTypeOK'
    BY Zenon, <1>a, <1>4 DEF Deliver, DialTypeOK, DialPCs
  <2>2. ASSUME NEW t \in Streams PROVE StreamInv(t)'
    <3>1. StreamInv(t)
      BY Zenon DEF DialInv
    <3> QED BY <1>a, <1>4, <3>1, WaiterFacts DEF Deliver, DialTypeOK, StreamInv
  <2> QED BY Zenon, <2>1, <2>2
<1>5. CASE Deliver(d) /\ waiting[s] # 0
  <2>0. /\ att[s] \in Attempts /\ waiting[s] = att[s] /\ got[s] = 0
        /\ spc[s] \in {"open", "select", "delete"}
        /\ \A k \in Attempts : box[<<s, k>>] = 0
    BY ZenonT(30), <1>a, <1>5 DEF StreamInv
  <2>1. /\ box' = [box EXCEPT ![<<s, att[s]>>] = d[2]]
        /\ data' = [data EXCEPT ![d] = "delivered"]
        /\ waiting' = [waiting EXCEPT ![s] = 0]
        /\ UNCHANGED <<spc, att, got, opened>>
    BY Zenon, <1>a, <1>5, <2>0 DEF Deliver, Push
  <2>2. <<s, att[s]>> \in Waiters
    BY ZenonT(30), <2>0, WaiterFacts
  <2>3. DialTypeOK'
    BY <1>a, <2>1, <2>2 DEF DialTypeOK, DialPCs
  <2>4. ASSUME NEW t \in Streams, t # s PROVE StreamInv(t)'
    <3>1. StreamInv(t)
      BY Zenon DEF DialInv
    <3>2. \A k \in Attempts : box'[<<t, k>>] = box[<<t, k>>] /\ data'[<<t, k>>] = data[<<t, k>>]
      BY <1>a, <2>1, <2>2, <2>4, WaiterFacts DEF DialTypeOK
    <3>3. got[t] # 0 => data'[<<t, got[t]>>] = data[<<t, got[t]>>]
      BY <1>a, <3>2, WaiterFacts DEF DialTypeOK
    <3>4. \A k \in Attempts : box[<<t, k>>] # 0 => box[<<t, k>>] \in Attempts
      BY Zenon, <1>a, BoxFacts
    <3> QED BY <1>a, <2>1, <2>4, <3>1, <3>2, <3>3, <3>4 DEF DialTypeOK, StreamInv
  <2>5. StreamInv(s)'
    <3>1. \A k \in Attempts : /\ box'[<<s, k>>] = IF k = att[s] THEN d[2] ELSE 0
                              /\ data'[<<s, k>>] = IF k = d[2] THEN "delivered" ELSE data[<<s, k>>]
      <4> TAKE k \in Attempts
      <4>1. <<s, k>> \in Waiters /\ (<<s, k>> = d <=> k = d[2])
            /\ (<<s, k>> = <<s, att[s]>> <=> k = att[s])
        BY <1>a DEF Waiters
      <4> QED BY Zenon, <1>a, <2>0, <2>1, <4>1 DEF DialTypeOK
    <3>2. d[2] \in Attempts /\ data'[<<s, d[2]>>] = "delivered"
      BY Zenon, <1>a, <3>1, WaiterFacts
    <3>3. \A k \in Attempts : data[<<s, k>>] # "delivered"
      BY <1>a, <2>0, WaiterFacts DEF StreamInv
    <3> QED BY <1>a, <2>0, <2>1, <3>1, <3>2, <3>3, WaiterFacts DEF DialTypeOK, StreamInv
  <2> QED BY Zenon, <2>3, <2>4, <2>5
<1> QED BY Zenon, <1>1, <1>2, <1>3, <1>4, <1>5 DEF DialStep

LEMMA DialAlways == DialSpec => []DialInv
<1>1. DialInv /\ [DialNext]_dialVars => DialInv'
  <2>1. DialInv /\ DialNext => DialInv'
    BY Zenon, StreamStepInv, DialStepInv DEF DialNext
  <2>2. DialInv /\ UNCHANGED dialVars => DialInv'
    BY DEF dialVars, DialInv, DialTypeOK, StreamInv
  <2> QED BY Zenon, <2>1, <2>2
<1> QED BY DialInitial, <1>1, PTL DEF DialSpec

(* No data connection handed over is left without an owner, for any number of
   streams: deliver and abandon of dialback.go race safely. *)
THEOREM NothingOrphaned == DialSpec => []DeliveredIsOwned
<1>1. DialInv => DeliveredIsOwned
  <2> SUFFICES ASSUME DialInv, NEW d \in Waiters, data[d] = "delivered"
               PROVE  \/ \E k \in Attempts : InBox(d, k) /\ Draining(d[1], k)
                      \/ got[d[1]] = d[2] /\ spc[d[1]] \in {"delete", "drain", "splice"}
    BY Zenon DEF DeliveredIsOwned
  <2>1. PICK s \in Streams : d = <<s, 1>> \/ d = <<s, 2>>
    BY Zenon, WaiterFacts
  <2>2. StreamInv(s) /\ DialTypeOK
    BY Zenon DEF DialInv
  <2> QED BY <2>1, <2>2, WaiterFacts DEF StreamInv, InBox, Draining
<1> QED BY <1>1, DialAlways, PTL

(* deliver never blocks on a channel while it holds the mutex, and the two
   attempts of a stream never both get a connection. *)
THEOREM DeliverSafe == DialSpec => [](DeliverNeverBlocks /\ OneDataConn)
<1>1. DialInv => DeliverNeverBlocks /\ OneDataConn
  <2>1. DialInv => DeliverNeverBlocks
    <3> SUFFICES ASSUME DialInv, NEW s \in Streams, waiting[s] # 0
                 PROVE  box[<<s, waiting[s]>>] = 0
      BY Zenon DEF DeliverNeverBlocks
    <3>1. StreamInv(s) /\ waiting[s] \in Attempts
      BY WaiterFacts DEF DialInv, DialTypeOK
    <3> QED BY Zenon, <3>1 DEF StreamInv
  <2>2. DialInv => OneDataConn
    <3> SUFFICES ASSUME DialInv, NEW s \in Streams, data[<<s, 1>>] = "delivered",
                        data[<<s, 2>>] = "delivered"
                 PROVE  FALSE
      BY Zenon DEF OneDataConn
    <3>1. StreamInv(s)
      BY Zenon DEF DialInv
    <3>2. \A k \in Attempts : box[<<s, k>>] # 0 => got[s] = 0
      BY Zenon, <3>1 DEF StreamInv
    <3> QED BY <3>1, <3>2, WaiterFacts DEF StreamInv
  <2> QED BY Zenon, <2>1, <2>2
<1> QED BY <1>1, DialAlways, PTL
=============================================================================
