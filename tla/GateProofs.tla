----------------------------- MODULE GateProofs ------------------------------
(***************************************************************************)
(* What the steps of the tasks that let someone in or keep someone out     *)
(* preserve, for every number of connections, requests and streams and     *)
(* every bound on time and failures: the slots of the client ports, the    *)
(* traffic windows, the attestation of keys and the reload of the bans.    *)
(* Each task has an inductive invariant of its own; NodeTasksProofs draws  *)
(* the theorems about NodeTasks from them.                                 *)
(***************************************************************************)
EXTENDS Admission, Traffic, Attestation, BanWatch, FiniteSetTheorems, TLAPS

-----------------------------------------------------------------------------
(* Admission.  The counter is exact, which makes a count that is within the
   ceiling after the increment a count of connections that all hold a slot. *)
Admitted == {c \in Holding : adm[c] # "sub"}

AdmissionInv == AdmissionTypeOK /\ SlotsExact /\ ClientsCapped

LEMMA HoldingFinite ==
  IsFiniteSet(Holding) /\ IsFiniteSet(Admitted) /\ Cardinality(Admitted) <= Cardinality(Holding)
<1>1. IsFiniteSet(Publics)
  BY Zenon, AdmissionAssumption, FS_Union DEF Publics
<1>2. IsFiniteSet(Holding)
  BY Zenon, <1>1, FS_Subset DEF Holding
<1> QED BY Zenon, <1>2, FS_Subset DEF Admitted

(* A connection takes a slot, gives one back, or moves with or without it. *)
LEMMA SlotMoves ==
  ASSUME AdmissionTypeOK, AdmissionTypeOK', NEW c \in Publics,
         \A d \in Publics : d # c => adm'[d] = adm[d]
  PROVE  /\ c \notin Holding /\ c \in Holding' => Cardinality(Holding') = Cardinality(Holding) + 1
         /\ c \in Holding /\ c \notin Holding' => Cardinality(Holding') = Cardinality(Holding) - 1
         /\ (c \in Holding <=> c \in Holding') => Cardinality(Holding') = Cardinality(Holding)
         /\ (c \in Admitted' => c \in Admitted) => Cardinality(Admitted') <= Cardinality(Admitted)
<1>1. ASSUME c \notin Holding, c \in Holding' PROVE Cardinality(Holding') = Cardinality(Holding) + 1
  <2>1. Holding' = Holding \cup {c}
    BY Zenon, <1>1 DEF Holding
  <2> QED BY Zenon, <1>1, <2>1, HoldingFinite, FS_AddElement
<1>2. ASSUME c \in Holding, c \notin Holding' PROVE Cardinality(Holding') = Cardinality(Holding) - 1
  <2>1. Holding' = Holding \ {c}
    BY Zenon, <1>2 DEF Holding
  <2> QED BY Zenon, <1>2, <2>1, HoldingFinite, FS_RemoveElement
<1>3. (c \in Holding <=> c \in Holding') => Holding' = Holding
  BY Zenon DEF Holding
<1>4. ASSUME c \in Admitted' => c \in Admitted PROVE Cardinality(Admitted') <= Cardinality(Admitted)
  <2>1. Admitted' \in SUBSET Admitted
    BY Zenon, <1>4 DEF Admitted, Holding
  <2> QED BY Zenon, <2>1, HoldingFinite, FS_Subset
<1> QED BY Zenon, <1>1, <1>2, <1>3, <1>4

LEMMA AdmissionSteps ==
  ASSUME AdmissionInv, AdmissionNext
  PROVE  AdmissionInv'
<1> USE DEF Go
<1>a. AdmissionTypeOK /\ clients = Cardinality(Holding) /\ Cardinality(Admitted) <= MaxClients
  BY Zenon DEF AdmissionInv, SlotsExact, ClientsCapped, Admitted
<1>1. CASE CloseListeners
  BY Zenon, <1>1, <1>a
  DEF CloseListeners, AdmissionInv, AdmissionTypeOK, SlotsExact, ClientsCapped, Holding
<1>2. ASSUME NEW c \in Publics, ConnStep(c) PROVE AdmissionInv'
  <2>1. AdmissionTypeOK'
    BY <1>2, <1>a DEF ConnStep, Accept, Refuse, Add, Sub, Peek, HandlerEnds, Push, PushRoom, Hand,
       TakeQueued, CloseServed, AdmissionTypeOK, Handling
  <2>2. \A d \in Publics : d # c => adm'[d] = adm[d]
    BY Zenon, <1>2, <1>a DEF ConnStep, Accept, Refuse, Add, Sub, Peek, HandlerEnds, Push, PushRoom, Hand,
       TakeQueued, CloseServed, AdmissionTypeOK
  <2>3. /\ Cardinality(Holding) \in Nat /\ Cardinality(Holding') \in Nat
        /\ Cardinality(Admitted) \in Nat /\ Cardinality(Admitted') \in Nat
        /\ Cardinality(Admitted') <= Cardinality(Holding')
    <3>1. IsFiniteSet(Holding') /\ Admitted' \in SUBSET Holding'
      BY ZenonT(30), AdmissionAssumption, FS_Union, FS_Subset DEF Publics, Holding, Admitted
    <3>2. IsFiniteSet(Admitted') /\ Cardinality(Admitted') <= Cardinality(Holding')
      BY Zenon, <3>1, FS_Subset
    <3> QED BY Zenon, <3>1, <3>2, HoldingFinite, FS_CardinalityType
  <2>4. CASE Accept(c) \/ Refuse(c) \/ Peek(c) \/ TakeQueued(c) \/ PushRoom(c)
             \/ (Hand(c) /\ adm'[c] = "served")
    <3>1. /\ clients' = clients
          /\ c \in Holding <=> c \in Holding'
          /\ c \in Admitted' => c \in Admitted
      BY Zenon, <2>4, <1>a
      DEF Accept, Refuse, Peek, TakeQueued, PushRoom, Hand, AdmissionTypeOK, Holding, Admitted
    <3> QED BY <1>a, <2>1, <2>2, <2>3, <3>1, SlotMoves, AdmissionAssumption
         DEF AdmissionInv, SlotsExact, ClientsCapped, Admitted
  <2>5. CASE \/ Sub(c) \/ HandlerEnds(c) \/ CloseServed(c)
             \/ (Push(c) \/ Hand(c)) /\ adm'[c] = "closed"
    <3>1. /\ clients' = clients - 1 /\ c \in Holding /\ c \notin Holding' /\ c \notin Admitted'
      BY Zenon, <2>5, <1>a
      DEF Sub, HandlerEnds, CloseServed, Push, PushRoom, Hand, AdmissionTypeOK, Holding,
          Admitted
    <3> QED BY <1>a, <2>1, <2>2, <2>3, <3>1, SlotMoves, AdmissionAssumption
         DEF AdmissionInv, SlotsExact, ClientsCapped, Admitted
  <2>6. CASE Add(c)
    <3>1. clients' = clients + 1 /\ c \notin Holding /\ c \in Holding'
      BY Zenon, <2>6, <1>a DEF Add, AdmissionTypeOK, Holding
    <3>2. Cardinality(Holding') = Cardinality(Holding) + 1
      BY Zenon, <1>a, <2>1, <2>2, <3>1, SlotMoves
    <3>3. CASE clients + 1 > MaxClients
      <4>1. c \notin Admitted'
        BY Zenon, <2>6, <3>3, <1>a DEF Add, AdmissionTypeOK, Admitted
      <4> QED BY <1>a, <2>1, <2>2, <2>3, <3>1, <3>2, <4>1, SlotMoves, AdmissionAssumption
           DEF AdmissionInv, SlotsExact, ClientsCapped, Admitted
    <3>4. CASE ~(clients + 1 > MaxClients)
      BY <1>a, <2>1, <2>3, <3>1, <3>2, <3>4, AdmissionAssumption
         DEF AdmissionInv, AdmissionTypeOK, SlotsExact, ClientsCapped, Admitted
    <3> QED BY Zenon, <3>3, <3>4
  <2>7. Push(c) => PushRoom(c) \/ adm'[c] = "closed"
    BY Zenon, <1>a DEF Push, AdmissionTypeOK
  <2>8. Hand(c) => adm'[c] \in {"served", "closed"}
    BY Zenon, <1>a DEF Hand, AdmissionTypeOK
  <2> QED BY Zenon, <1>2, <2>4, <2>5, <2>6, <2>7, <2>8 DEF ConnStep
<1> QED BY Zenon, <1>1, <1>2 DEF AdmissionNext

LEMMA AdmissionInitial == AdmissionInit => AdmissionInv
<1> SUFFICES ASSUME AdmissionInit PROVE AdmissionInv
  OBVIOUS
<1>1. AdmissionTypeOK
  <2>1. shut \in BOOLEAN
    BY Zenon DEF AdmissionInit
  <2> QED BY <2>1 DEF AdmissionInit, AdmissionTypeOK
<1>2. Holding = {} /\ Admitted = {}
  BY Zenon DEF AdmissionInit, Holding, Admitted
<1> QED BY <1>1, <1>2, FS_EmptySet, AdmissionAssumption
     DEF AdmissionInit, AdmissionInv, SlotsExact, ClientsCapped, Admitted

LEMMA AdmissionKept == AdmissionInv /\ [AdmissionNext]_avars => AdmissionInv'
<1>1. AdmissionInv /\ UNCHANGED avars => AdmissionInv'
  BY Zenon DEF avars, AdmissionInv, AdmissionTypeOK, SlotsExact, ClientsCapped, Holding
<1> QED BY Zenon, <1>1, AdmissionSteps

-----------------------------------------------------------------------------
(* The traffic windows.  A killed stream waits for the end of a window that is
   the current one and is over its cap, until that moment has come. *)
TrafficInv ==
  /\ TrafficTypeOK
  /\ \A c \in Copiers : cp[c].st = "dead" /\ clock < cp[c].until =>
       \/ cp[c].until = DayReset(clock) /\ day > DayCap
       \/ cp[c].until = WeekReset(clock) /\ week > WeekCap

(* Which window a moment is in, and that the next moment before the window's
   end is in the same one. *)
LEMMA Quotient ==
  ASSUME NEW t \in Nat, NEW d \in Nat \ {0}
  PROVE  t \div d \in Nat /\ (t \div d) * d <= t /\ t < ((t \div d) + 1) * d
OBVIOUS

LEMMA QuotientUnique ==
  ASSUME NEW q \in Nat, NEW r \in Nat, NEW t \in Nat, NEW d \in Nat \ {0},
         q * d <= t, t < (r + 1) * d
  PROVE  q <= r
OBVIOUS

LEMMA SameWindow ==
  ASSUME NEW t \in Nat, NEW u \in Nat, NEW d \in Nat \ {0}, t <= u, u < ((t \div d) + 1) * d
  PROVE  u \div d = t \div d
<1>1. t \div d <= u \div d
  BY Quotient, QuotientUnique
<1>2. u \div d <= t \div d
  BY Zenon, Quotient, QuotientUnique
<1> QED BY <1>1, <1>2, Quotient

LEMMA WindowsNest ==
  ASSUME NEW t \in Nat
  PROVE  /\ DayOf(t) \in Nat /\ WeekOf(t) \in Nat /\ DayReset(t) \in Nat /\ WeekReset(t) \in Nat
         /\ DayReset(t) > t
         /\ DayOf(t + 1) = DayOf(t) => WeekOf(t + 1) = WeekOf(t)
         /\ t + 1 < DayReset(t) => DayOf(t + 1) = DayOf(t)
         /\ t + 1 < WeekReset(t) => WeekOf(t + 1) = WeekOf(t)
<1>a. Day \in Nat \ {0} /\ Week \in Nat \ {0}
  BY Zenon, TrafficAssumption
<1>1. DayOf(t) \in Nat /\ DayOf(t + 1) \in Nat /\ WeekOf(t) \in Nat
  BY <1>a, Quotient DEF DayOf, WeekOf
<1>2. DayReset(t) \in Nat /\ WeekReset(t) \in Nat /\ DayReset(t) > t
  BY <1>a, <1>1, Quotient DEF DayReset, WeekReset, DayOf
<1>3. ASSUME t + 1 < DayReset(t) PROVE DayOf(t + 1) = DayOf(t)
  <2>1. t + 1 < ((t \div Day) + 1) * Day
    BY Zenon, <1>3 DEF DayReset, DayOf
  <2>2. \A u \in Nat : t <= u /\ u < ((t \div Day) + 1) * Day => u \div Day = t \div Day
    BY Zenon, <1>a, SameWindow
  <2> QED BY <2>1, <2>2 DEF DayOf
<1>4. ASSUME t + 1 < WeekReset(t) PROVE WeekOf(t + 1) = WeekOf(t)
  <2>1. DayOf(t) <= DayOf(t + 1)
    BY <1>a, Quotient, QuotientUnique DEF DayOf
  <2>2. DayOf(t + 1) * Day <= t + 1
    BY <1>a, Quotient DEF DayOf
  <2> DEFINE e == (WeekOf(t) + 1) * Week
  <2>3. e \in Nat /\ WeekReset(t) = e * Day
    BY <1>a, <1>1 DEF WeekReset
  <2>4. DayOf(t + 1) * Day < e * Day
    BY <1>a, <1>1, <1>4, <2>2, <2>3
  <2> HIDE DEF e
  <2>5. DayOf(t + 1) < e
    BY <1>a, <1>1, <2>3, <2>4
  <2> QED BY ZenonT(30), <1>a, <1>1, <2>1, <2>5, SameWindow DEF e, WeekOf
<1> QED BY Zenon, <1>1, <1>2, <1>3, <1>4 DEF WeekOf

(* Charge holds no chunk to a moment that has no type, and kills a stream only
   for a window that its chunk takes over the cap. *)
LEMMA VerdictRight ==
  ASSUME NEW t \in Nat, NEW b \in Nat, NEW d \in Nat, NEW w \in Nat
  PROVE  /\ Verdict(t, b, d, w).act \in {"idle", "hold", "dead"}
         /\ Verdict(t, b, d, w).until \in Nat
         /\ Verdict(t, b, d, w).act = "dead" =>
              \/ Verdict(t, b, d, w).until = DayReset(t) /\ d > DayCap
              \/ Verdict(t, b, d, w).until = WeekReset(t) /\ w > WeekCap
<1>1. DayReset(t) \in Nat /\ WeekReset(t) \in Nat
  BY Zenon, WindowsNest
<1>2. HoldUntil(t, b > BwRate, d > DayCap, w > WeekCap) \in Nat
  BY <1>1 DEF HoldUntil, TMax
<1> QED BY Zenon, <1>1, <1>2 DEF Verdict

LEMMA TrafficSteps ==
  ASSUME TrafficInv, TrafficNext
  PROVE  TrafficInv'
<1>a. /\ TrafficTypeOK /\ clock \in Nat /\ bw \in Nat /\ day \in Nat /\ week \in Nat
      /\ DayCap \in Nat /\ WeekCap \in Nat /\ \A size \in Chunks : size \in Nat
  BY TrafficAssumption DEF TrafficInv, TrafficTypeOK
<1>1. CASE NextSecond
  <2>1. clock' = clock + 1 /\ cp' = cp
    BY Zenon, <1>1 DEF NextSecond
  <2>2. TrafficTypeOK'
    <3>1. /\ day' = (IF DayOf(clock + 1) = DayOf(clock) THEN day ELSE 0) /\ bw' = 0
          /\ week' = (IF WeekOf(clock + 1) = WeekOf(clock) THEN week ELSE 0)
          /\ clock' \in 0..MaxTime
      BY <1>1, <1>a, TrafficAssumption DEF NextSecond, TrafficTypeOK
    <3>2. day' \in Nat /\ week' \in Nat /\ day' <= week'
      BY <1>a, <3>1, WindowsNest DEF TrafficTypeOK
    <3> QED BY <1>a, <2>1, <3>1, <3>2 DEF TrafficTypeOK
  <2>3. ASSUME NEW c \in Copiers, cp'[c].st = "dead", clock' < cp'[c].until
        PROVE  \/ cp'[c].until = DayReset(clock') /\ day' > DayCap
               \/ cp'[c].until = WeekReset(clock') /\ week' > WeekCap
    <3>1. \/ cp[c].until = DayReset(clock) /\ day > DayCap
          \/ cp[c].until = WeekReset(clock) /\ week > WeekCap
      BY <1>a, <2>1, <2>3 DEF TrafficInv, TrafficTypeOK
    <3>2. CASE cp[c].until = DayReset(clock) /\ day > DayCap
      <4>1. DayOf(clock + 1) = DayOf(clock)
        BY Zenon, <1>a, <2>1, <2>3, <3>2, WindowsNest
      <4> QED BY Zenon, <1>1, <2>1, <3>2, <4>1 DEF NextSecond, DayReset
    <3>3. CASE cp[c].until = WeekReset(clock) /\ week > WeekCap
      <4>1. WeekOf(clock + 1) = WeekOf(clock)
        BY Zenon, <1>a, <2>1, <2>3, <3>3, WindowsNest
      <4> QED BY Zenon, <1>1, <2>1, <3>3, <4>1 DEF NextSecond, WeekReset
    <3> QED BY Zenon, <3>1, <3>2, <3>3
  <2> QED BY Zenon, <2>2, <2>3 DEF TrafficInv
<1>2. ASSUME NEW c \in Copiers, Resume(c) \/ Teardown(c) \/ Admit(c) PROVE TrafficInv'
  <2>1. UNCHANGED <<clock, bw, day, week>> /\ cp'[c].st \in {"idle", "ended"}
        /\ \A d \in Copiers : d # c => cp'[d] = cp[d]
    BY <1>2, <1>a DEF Resume, Teardown, Admit, Idle, TrafficTypeOK
  <2>2. TrafficTypeOK'
    <3>1. \E st \in {"idle", "ended"} :
            cp' = [cp EXCEPT ![c] = [st |-> st, size |-> 0, at |-> 0, until |-> 0]]
      BY Zenon, <1>2 DEF Resume, Teardown, Admit, Idle
    <3>2. 0 \in 0..MaxTime
      BY TrafficAssumption
    <3> QED BY <1>a, <2>1, <3>1, <3>2 DEF TrafficTypeOK
  <2> QED BY Zenon, <2>1, <2>2 DEF TrafficInv
<1>3. ASSUME NEW c \in Copiers, NEW size \in Chunks, Charge(c, size) PROVE TrafficInv'
  <2> DEFINE v == Verdict(clock, bw + size, day + size, week + size)
  <2>1. /\ clock' = clock /\ bw' = bw + size /\ day' = day + size /\ week' = week + size
        /\ \/ cp' = cp
           \/ /\ v.act # "idle"
              /\ cp' = [cp EXCEPT ![c] =
                          [st |-> v.act, size |-> size, at |-> clock, until |-> v.until]]
    BY Zenon, <1>3 DEF Charge, Counted
  <2>2. /\ v.act \in {"idle", "hold", "dead"} /\ v.until \in Nat
        /\ v.act = "dead" => \/ v.until = DayReset(clock) /\ day' > DayCap
                             \/ v.until = WeekReset(clock) /\ week' > WeekCap
    <3>1. bw + size \in Nat /\ day + size \in Nat /\ week + size \in Nat
      BY <1>a
    <3>2. /\ v.act \in {"idle", "hold", "dead"} /\ v.until \in Nat
          /\ v.act = "dead" => \/ v.until = DayReset(clock) /\ day + size > DayCap
                               \/ v.until = WeekReset(clock) /\ week + size > WeekCap
      BY Zenon, <1>a, <3>1, VerdictRight
    <3> QED BY Zenon, <2>1, <3>2
  <2> HIDE DEF v
  <2>3. TrafficTypeOK'
    BY <1>a, <2>1, <2>2 DEF TrafficTypeOK
  <2>4. \A d \in Copiers : cp'[d].st = "dead" /\ clock' < cp'[d].until =>
          \/ cp'[d].until = DayReset(clock') /\ day' > DayCap
          \/ cp'[d].until = WeekReset(clock') /\ week' > WeekCap
    <3> SUFFICES ASSUME NEW d \in Copiers, cp'[d].st = "dead", clock' < cp'[d].until
                 PROVE  \/ cp'[d].until = DayReset(clock') /\ day' > DayCap
                        \/ cp'[d].until = WeekReset(clock') /\ week' > WeekCap
      OBVIOUS
    <3>1. CASE cp'[d] = cp[d]
      <4>1. \/ cp[d].until = DayReset(clock) /\ day > DayCap
            \/ cp[d].until = WeekReset(clock) /\ week > WeekCap
        BY Zenon, <2>1, <3>1 DEF TrafficInv
      <4>2. day' >= day /\ week' >= week
        BY <1>a, <2>1
      <4> QED BY <1>a, <2>1, <2>3, <3>1, <4>1, <4>2 DEF TrafficTypeOK
    <3>2. CASE cp'[d] # cp[d]
      <4>1. cp'[d].st = v.act /\ cp'[d].until = v.until
        BY <1>a, <2>1, <3>2 DEF TrafficTypeOK
      <4> QED BY Zenon, <2>1, <2>2, <4>1
    <3> QED BY Zenon, <3>1, <3>2
  <2> QED BY Zenon, <2>3, <2>4 DEF TrafficInv
<1>4. ASSUME NEW c \in Copiers, NEW size \in Chunks, ChargeFails(c, size) PROVE TrafficInv'
  <2>1. UNCHANGED <<clock, cp>> /\ (Counted(size) \/ UNCHANGED <<bw, day, week>>)
    BY ZenonT(30), <1>4 DEF ChargeFails
  <2>2. TrafficTypeOK' /\ day' >= day /\ week' >= week
    BY <1>a, <2>1 DEF Counted, TrafficTypeOK
  <2> QED BY <1>a, <2>1, <2>2 DEF TrafficInv, TrafficTypeOK
<1> QED BY Zenon, <1>1, <1>2, <1>3, <1>4 DEF TrafficNext

LEMMA TrafficInitial == TrafficInit => TrafficInv
BY TrafficAssumption DEF TrafficInit, TrafficInv, TrafficTypeOK, Idle

LEMMA TrafficKept == TrafficInv /\ [TrafficNext]_tvars => TrafficInv'
<1>1. TrafficInv /\ UNCHANGED tvars => TrafficInv'
  BY Zenon DEF tvars, TrafficInv, TrafficTypeOK
<1> QED BY Zenon, <1>1, TrafficSteps

(* Only a stream the gate admits leaves the dead, and the gate lets none in
   while the window that killed it is the current one. *)
LEMMA ReturnsLate ==
  ASSUME TrafficInv, [TrafficNext]_tvars, NEW c \in Copiers, cp[c].st = "dead", cp'[c].st = "idle"
  PROVE  clock >= cp[c].until
<1>1. TrafficTypeOK /\ clock \in Nat /\ day \in Nat /\ week \in Nat
      /\ DayCap \in Nat /\ WeekCap \in Nat /\ cp[c].until \in Nat
  BY TrafficAssumption DEF TrafficInv, TrafficTypeOK
<1>2. TrafficNext
  BY Zenon DEF tvars
<1>3. Admit(c)
  <2>1. ASSUME NEW d \in Copiers, Resume(d) \/ Teardown(d) \/ Admit(d) PROVE d = c
    BY Zenon, <1>1, <2>1 DEF Resume, Teardown, Admit, TrafficTypeOK
  <2>2. ~NextSecond
    BY ZenonT(30) DEF NextSecond
  <2>3. ASSUME NEW d \in Copiers, NEW size \in Chunks
        PROVE  ~Charge(d, size) /\ ~ChargeFails(d, size)
    BY ZenonT(30), <1>1 DEF Charge, ChargeFails, TrafficTypeOK
  <2> QED BY Zenon, <1>2, <2>1, <2>2, <2>3 DEF TrafficNext, Resume, Teardown
<1>4. ~(day >= DayCap \/ week >= WeekCap)
  BY Zenon, <1>3 DEF Admit, Exhausted
<1> QED BY <1>1, <1>4 DEF TrafficInv, TrafficTypeOK

-----------------------------------------------------------------------------
(* Attestation.  A list that does not name the key was fetched before the key
   was revoked, and the list a verification looks at is never older than the
   one whose age it tested. *)
AttestationInv ==
  /\ AttestationTypeOK
  /\ snap.at <= now
  /\ fetch.on /\ ~fetch.listed => revokedAt >= now
  /\ ~snap.listed => revokedAt >= snap.at
  /\ \A r \in Requests :
       /\ vf[r].now <= now
       /\ vf[r].pc = "revoked" => snap.at >= 0 /\ vf[r].now - snap.at <= MaxStale
       /\ vf[r].pc = "accepted" => revokedAt >= vf[r].now - MaxStale

LEMMA AttestationSteps ==
  ASSUME AttestationInv, AttestationNext
  PROVE  AttestationInv'
<1> USE AttestationAssumption DEF AttestationInv, AttestationTypeOK, Never
<1>1. CASE NextTick
  BY <1>1 DEF NextTick
<1>2. CASE Revoke
  BY <1>2 DEF Revoke
<1>3. CASE FetchRoots
  BY Zenon, <1>3 DEF FetchRoots
<1>4. CASE FetchStatus
  <2> DEFINE b == revokedAt <= now
  <2>0. b \in BOOLEAN /\ fetch' = [listed |-> b, on |-> TRUE] /\ (~b => revokedAt >= now)
    BY <1>4 DEF FetchStatus
  <2> HIDE DEF b
  <2>1. fetch' \in [listed : BOOLEAN, on : BOOLEAN] /\ fetch'.listed = b
    BY Zenon, <2>0
  <2>2. ~fetch'.listed => revokedAt >= now
    BY <2>0, <2>1, Zenon
  <2>3. UNCHANGED <<now, revokedAt, roots, snap, vf>>
    BY Zenon, <1>4 DEF FetchStatus
  <2> QED BY Zenon, <2>1, <2>2, <2>3
<1>5. CASE StoreStatus
  BY <1>5 DEF StoreStatus, FetchFails, NoFetch
<1>6. ASSUME NEW r \in Requests, BeginVerify(r) \/ CheckChain(r) \/ CheckStale(r) \/ CheckRevoked(r)
      PROVE  AttestationInv'
  <2>1. UNCHANGED <<now, revokedAt, roots, snap, fetch>>
        /\ \A q \in Requests : q # r => vf'[q] = vf[q]
    BY Zenon, <1>6 DEF BeginVerify, CheckChain, CheckStale, CheckRevoked, VerifyAt
  <2>2. CASE BeginVerify(r)
    BY <2>1, <2>2 DEF BeginVerify
  <2>3. CASE CheckChain(r)
    BY <2>1, <2>3 DEF CheckChain, VerifyAt
  <2>4. CASE CheckStale(r)
    BY <2>1, <2>4 DEF CheckStale, VerifyAt
  <2>5. CASE CheckRevoked(r)
    BY <2>1, <2>5 DEF CheckRevoked, VerifyAt
  <2> QED BY ZenonT(30), <1>6, <2>2, <2>3, <2>4, <2>5
<1> QED BY ZenonT(30), <1>1, <1>2, <1>3, <1>4, <1>5, <1>6 DEF AttestationNext

LEMMA AttestationInitial == AttestationInit => AttestationInv
<1> SUFFICES ASSUME AttestationInit PROVE AttestationInv
  OBVIOUS
<1>1. AttestationTypeOK
  <2>1. roots \in BOOLEAN
    BY Zenon DEF AttestationInit
  <2> QED BY <2>1, AttestationAssumption DEF AttestationInit, AttestationTypeOK, Never, NoSnap, NoFetch
<1> QED BY <1>1, AttestationAssumption DEF AttestationInit, AttestationInv, Never, NoSnap, NoFetch

LEMMA AttestationKept == AttestationInv /\ [AttestationNext]_tvs => AttestationInv'
<1>1. AttestationInv /\ UNCHANGED tvs => AttestationInv'
  BY ZenonT(30) DEF tvs, AttestationInv, AttestationTypeOK
<1> QED BY Zenon, <1>1, AttestationSteps

-----------------------------------------------------------------------------
(* The reload of the bans.  A positive stamp belongs to one content, so a file
   that still has the stamp of the first look has not changed since: what was
   read of it is what it said when the first look was complete.  The second look
   settles the ban file first and the country database as it commits. *)
Reading == {"read", "readcsv", "again", "againcsv"}

StampsInv ==
  /\ \A p \in Paths : file[p].stamp <= writes /\ wt.cur[p] <= writes
  /\ wt.pc \in Reading \cup {"statcsv"} => \A p \in Paths : wt.cur[p] >= 0
  /\ wt.pc = "againcsv" => wt.after["bans"] >= 0 /\ wt.after["bans"] <= writes
  /\ wt.booting => \A p \in Paths : lastLoad[p] < 0

Held(p) == wt.cur[p] > 0 /\ file[p].stamp = wt.cur[p]

ReadInv ==
  /\ wt.pc \in Reading => \A p \in Paths : Held(p) => cut[p] = file[p]
  /\ wt.pc = "readcsv" => wt.snap.names
  /\ wt.pc \in Reading \ {"read"} /\ Held("bans") =>
       (wt.snap.names <=> file["bans"].says = "bans")
  /\ wt.pc \in {"again", "againcsv"} /\ Held("csv") =>
       (wt.snap.country <=> wt.snap.names /\ file["csv"].says = "rows")
  /\ wt.pc = "againcsv" /\ wt.cur["bans"] > 0 /\ wt.after["bans"] = wt.cur["bans"] =>
       (wt.snap.names <=> cut["bans"].says = "bans") /\ cut["bans"].stamp = wt.cur["bans"]

BanWatchInv == BanWatchTypeOK /\ StampsInv /\ ReadInv

(* The files change beside the watcher, with a new stamp or none. *)
LEMMA WriteKeeps ==
  ASSUME BanWatchInv, NEW p \in Paths, Write(p)
  PROVE  BanWatchInv'
<1>1. PICK f \in {Missing} \cup [stamp : {writes + 1}, says : Says(p)] :
        file' = [file EXCEPT ![p] = f]
  BY ZenonT(30) DEF Write
<1>2. /\ f \in [stamp : Nat, says : {"nothing", "bans", "none", "rows", "bad"}]
      /\ f.stamp = 0 \/ f.stamp = writes + 1
  BY DEF Missing, Says, BanWatchInv, BanWatchTypeOK, Contents, Ticks
<1>3. writes' = writes + 1 /\ UNCHANGED <<live, lastLoad, wt, ph, banFaults, cut>>
  BY Zenon DEF Write
<1>4. BanWatchTypeOK'
  BY <1>1, <1>2, <1>3 DEF BanWatchInv, BanWatchTypeOK, Contents, Ticks
<1>5. \A q \in Paths : q # p => file'[q] = file[q]
  BY Zenon, <1>1 DEF BanWatchInv, BanWatchTypeOK, Contents, Ticks
<1>6. file'[p] = f
  BY Zenon, <1>1 DEF BanWatchInv, BanWatchTypeOK, Contents, Ticks
<1>7. StampsInv'
  <2>1. wt.after["bans"] \in Int /\ \A q \in Paths : wt.cur[q] \in Int /\ file[q].stamp \in Nat
    BY Zenon DEF BanWatchInv, BanWatchTypeOK, Contents, Ticks, Paths
  <2>2. writes \in Nat
    BY Zenon DEF BanWatchInv, BanWatchTypeOK
  <2> QED BY <1>2, <1>3, <1>5, <1>6, <2>1, <2>2 DEF BanWatchInv, StampsInv
<1>8. ~Held(p)' /\ \A q \in Paths : q # p => (Held(q)' <=> Held(q))
  BY <1>2, <1>3, <1>5, <1>6 DEF BanWatchInv, BanWatchTypeOK, Contents, Ticks, StampsInv, Held
<1>9. ReadInv'
  BY ZenonT(30), <1>3, <1>5, <1>8 DEF BanWatchInv, ReadInv, Paths
<1> QED BY Zenon, <1>4, <1>7, <1>9 DEF BanWatchInv

(* A tick that ends, by a commit or without one, leaves nothing to relate. *)
LEMMA RestKeeps ==
  ASSUME BanWatchInv, BanWatchTypeOK', UNCHANGED <<file, writes>>,
         wt'.pc \in {"idle", "evict"}, wt'.cur = NoLoad, ~wt'.booting
  PROVE  BanWatchInv'
BY DEF BanWatchInv, BanWatchTypeOK, Contents, Ticks, StampsInv, ReadInv, Reading, NoLoad

LEMMA AtRestTypes ==
  /\ AtRest \in Ticks /\ AtRest.pc = "idle" /\ AtRest.cur = NoLoad /\ ~AtRest.booting
  /\ \A pc \in {"stat", "evict"} :
       LET r == [AtRest EXCEPT !.pc = pc]
       IN  r \in Ticks /\ r.pc = pc /\ r.cur = NoLoad /\ ~r.booting
  /\ NoLoad \in [Paths -> Int] /\ NoCut \in Contents
  /\ Nothing \in [names : BOOLEAN, country : BOOLEAN]
<1>1. NoLoad \in [Paths -> Int]
  BY DEF NoLoad
<1>2. Nothing \in [names : BOOLEAN, country : BOOLEAN]
  BY Zenon DEF Nothing
<1>3. NoCut \in Contents
  BY Zenon DEF NoCut, Missing, Contents
<1>4. AtRest \in Ticks /\ AtRest.pc = "idle" /\ AtRest.cur = NoLoad /\ AtRest.booting = FALSE
  BY <1>1, <1>2 DEF AtRest, Ticks
<1>5. ASSUME NEW pc \in {"stat", "evict"}
      PROVE  LET r == [AtRest EXCEPT !.pc = pc]
             IN  r \in Ticks /\ r.pc = pc /\ r.cur = NoLoad /\ r.booting = FALSE
  <2> DEFINE r == [AtRest EXCEPT !.pc = pc]
  <2>1. r.pc = pc /\ r.cur = AtRest.cur /\ r.booting = AtRest.booting /\ r \in Ticks
    BY Zenon, <1>4 DEF Ticks
  <2> QED BY Zenon, <1>4, <2>1
<1> QED BY Zenon, <1>1, <1>2, <1>3, <1>4, <1>5

(* The first look. *)
LEMMA FirstLookKeeps ==
  ASSUME BanWatchInv, BanTick \/ StatBans \/ StatCSV
  PROVE  BanWatchInv'
<1>a. BanWatchTypeOK /\ UNCHANGED <<file, writes, ph, live, lastLoad>>
  BY Zenon DEF BanTick, StatBans, StatCSV, OnlyTick, BanWatchInv
<1>b. banFaults' \in Nat
  BY <1>a DEF BanTick, StatBans, StatCSV, Stat, BanFault, BanWatchTypeOK, Contents, Ticks
<1>1. CASE BanTick
  <2>1. wt' = [wt EXCEPT !.pc = "stat"] /\ cut' = cut
    BY Zenon, <1>1 DEF BanTick
  <2>2. /\ wt'.pc = "stat" /\ wt'.cur = wt.cur /\ wt'.booting = wt.booting
        /\ BanWatchTypeOK'
    BY Zenon, <1>a, <1>b, <2>1 DEF BanWatchTypeOK, Contents, Ticks
  <2> QED BY Zenon, <1>a, <2>1, <2>2 DEF BanWatchInv, StampsInv, ReadInv, Reading
<1>2. CASE StatBans
  <2>1. PICK s \in {0, file["bans"].stamp} :
          wt' = [wt EXCEPT !.pc = "statcsv", !.cur = [NotSeen EXCEPT !["bans"] = s]]
    BY Zenon, <1>2 DEF StatBans
  <2>2. s \in Nat /\ s <= writes
    BY <1>a, <2>1 DEF BanWatchTypeOK, Contents, Ticks, BanWatchInv, StampsInv, Paths
  <2> DEFINE seen == [NotSeen EXCEPT !["bans"] = s]
  <2>3. seen \in [Paths -> Int] /\ \A p \in Paths : seen[p] >= 0 /\ seen[p] <= writes
    <3>1. \A p \in Paths : seen[p] = IF p = "bans" THEN s ELSE 0
      BY Zenon DEF NotSeen
    <3>2. seen = [p \in Paths |-> seen[p]] /\ writes \in Nat
      BY Zenon, <1>a DEF NotSeen, BanWatchTypeOK
    <3> HIDE DEF seen
    <3>3. \A p \in Paths : seen[p] \in Int /\ seen[p] >= 0 /\ seen[p] <= writes
      BY <2>2, <3>1, <3>2
    <3> QED BY Zenon, <3>2, <3>3
  <2>4. wt' = [wt EXCEPT !.pc = "statcsv", !.cur = seen] /\ cut' = cut
    BY Zenon, <1>2, <2>1 DEF StatBans
  <2> HIDE DEF seen
  <2>5. /\ wt'.pc = "statcsv" /\ wt'.cur = seen /\ wt'.booting = wt.booting
        /\ BanWatchTypeOK'
    BY Zenon, <1>a, <1>b, <2>3, <2>4 DEF BanWatchTypeOK, Contents, Ticks
  <2> QED BY Zenon, <1>a, <2>3, <2>5 DEF BanWatchInv, StampsInv, ReadInv, Reading
<1>3. CASE StatCSV
  <2>1. PICK s \in {0, file["csv"].stamp} :
          LET seen == [wt.cur EXCEPT !["csv"] = s]
          IN  IF seen = lastLoad \/ Vanished(seen)
              THEN wt' = AtRest /\ UNCHANGED cut
              ELSE wt' = [wt EXCEPT !.cur = seen, !.tries = 3, !.pc = "read"] /\ cut' = file
    BY ZenonT(30), <1>3 DEF StatCSV
  <2>2. s \in Nat /\ s <= writes /\ wt.pc = "statcsv"
    BY <1>a, <1>3, <2>1
    DEF BanWatchTypeOK, Contents, Ticks, BanWatchInv, StampsInv, Paths, StatCSV
  <2> DEFINE seen == [wt.cur EXCEPT !["csv"] = s]
  <2>3. seen \in [Paths -> Int] /\ \A p \in Paths : seen[p] >= 0 /\ seen[p] <= writes
    <3>1. wt.cur \in [Paths -> Int] /\ \A p \in Paths : wt.cur[p] >= 0 /\ wt.cur[p] <= writes
      BY Zenon, <1>a, <2>2 DEF BanWatchTypeOK, Ticks, BanWatchInv, StampsInv
    <3>2. \A p \in Paths : seen[p] = IF p = "csv" THEN s ELSE wt.cur[p]
      BY Zenon, <3>1
    <3>3. seen = [p \in Paths |-> seen[p]]
      BY Zenon, <3>1
    <3> HIDE DEF seen
    <3>4. \A p \in Paths : seen[p] \in Int /\ seen[p] >= 0 /\ seen[p] <= writes
      BY <2>2, <3>1, <3>2
    <3> QED BY Zenon, <3>3, <3>4
  <2>4. \/ wt' = AtRest /\ cut' = cut
        \/ wt' = [wt EXCEPT !.cur = seen, !.tries = 3, !.pc = "read"] /\ cut' = file
    BY Zenon, <2>1
  <2> HIDE DEF seen
  <2>5. CASE wt' = AtRest /\ cut' = cut
    <3>1. BanWatchTypeOK' /\ wt'.pc = "idle" /\ wt'.cur = NoLoad /\ ~wt'.booting
      BY Zenon, <1>a, <1>b, <2>5, AtRestTypes DEF BanWatchTypeOK
    <3> QED BY Zenon, <1>a, <3>1, RestKeeps
  <2>6. CASE wt' = [wt EXCEPT !.cur = seen, !.tries = 3, !.pc = "read"] /\ cut' = file
    <3>1. /\ wt'.pc = "read" /\ wt'.cur = seen /\ wt'.booting = wt.booting
          /\ BanWatchTypeOK'
      <4>1. wt \in Ticks
        BY Zenon, <1>a DEF BanWatchTypeOK
      <4>2. wt'.pc = "read" /\ wt'.cur = seen /\ wt'.booting = wt.booting
        BY Zenon, <2>6, <4>1 DEF Ticks
      <4>3. wt' \in Ticks
        <5> DEFINE tries == 3
        <5>1. tries \in Int /\ wt' = [wt EXCEPT !.cur = seen, !.tries = tries, !.pc = "read"]
          BY <2>6
        <5> HIDE DEF tries
        <5> QED BY Zenon, <2>3, <4>1, <5>1 DEF Ticks
      <4> QED BY Zenon, <1>a, <1>b, <2>6, <4>2, <4>3 DEF BanWatchTypeOK
    <3> QED BY Zenon, <1>a, <2>3, <2>6, <3>1 DEF BanWatchInv, StampsInv, ReadInv, Reading
  <2> QED BY Zenon, <2>4, <2>5, <2>6
<1> QED BY Zenon, <1>1, <1>2, <1>3

(* A load given up. *)
LEMMA GiveUpKeeps ==
  ASSUME BanWatchInv, OnlyTick, GiveUp, banFaults' \in Nat
  PROVE  BanWatchInv'
<1>1. BanWatchTypeOK' /\ wt'.pc = "idle" /\ wt'.cur = NoLoad /\ ~wt'.booting
  BY Zenon, AtRestTypes DEF OnlyTick, GiveUp, BanWatchInv, BanWatchTypeOK
<1> QED BY Zenon, <1>1, RestKeeps DEF OnlyTick

(* The build. *)
LEMMA BuildKeeps ==
  ASSUME BanWatchInv, ReadBans \/ ReadCSV
  PROVE  BanWatchInv'
<1>a. BanWatchTypeOK /\ OnlyTick /\ UNCHANGED <<file, writes, ph, live>>
  BY Zenon DEF ReadBans, ReadCSV, OnlyTick, BanWatchInv
<1>b. banFaults' \in Nat
  BY <1>a DEF ReadBans, ReadCSV, BanFault, BanWatchTypeOK, Contents, Ticks
<1>0. CASE GiveUp
  BY Zenon, <1>a, <1>b, <1>0, GiveUpKeeps
<1>1. CASE ReadBans /\ ~GiveUp
  <2> DEFINE b == file["bans"].says = "bans"
             got == [Nothing EXCEPT !.names = b]
  <2>1. /\ wt' = [wt EXCEPT !.snap = got, !.pc = IF b THEN "readcsv" ELSE "again"]
        /\ wt.pc = "read" /\ UNCHANGED <<lastLoad, cut>>
    BY Zenon, <1>1 DEF ReadBans
  <2>2. b \in BOOLEAN
    OBVIOUS
  <2> HIDE DEF b
  <2>3. got \in [names : BOOLEAN, country : BOOLEAN] /\ got.names = b /\ got.country = FALSE
    BY Zenon, <2>2 DEF Nothing
  <2> HIDE DEF got
  <2>4. /\ wt'.pc = (IF b THEN "readcsv" ELSE "again") /\ wt'.snap = got /\ wt'.cur = wt.cur
        /\ wt'.booting = wt.booting /\ BanWatchTypeOK'
    <3>1. wt \in Ticks
      BY Zenon, <1>a DEF BanWatchTypeOK
    <3>2. /\ wt'.pc = (IF b THEN "readcsv" ELSE "again") /\ wt'.snap = got /\ wt'.cur = wt.cur
          /\ wt'.booting = wt.booting
      BY Zenon, <2>1, <2>2, <3>1 DEF Ticks
    <3>3. wt' \in Ticks
      BY Zenon, <2>1, <2>3, <3>1 DEF Ticks
    <3>4. UNCHANGED <<lastLoad, cut>>
      BY Zenon, <2>1
    <3>5. BanWatchTypeOK'
      BY Zenon, <1>a, <1>b, <3>3, <3>4 DEF BanWatchTypeOK
    <3> QED BY Zenon, <3>2, <3>5
  <2>5. StampsInv'
    BY <1>a, <2>1, <2>4 DEF BanWatchInv, StampsInv, Reading
  <2>6. ReadInv'
    BY <1>a, <2>1, <2>3, <2>4 DEF BanWatchInv, ReadInv, Reading, Held, b
  <2> QED BY Zenon, <2>4, <2>5, <2>6 DEF BanWatchInv
<1>2. CASE ReadCSV /\ ~GiveUp
  <2> DEFINE b == file["csv"].says = "rows"
             got == [wt.snap EXCEPT !.country = b]
  <2>1. /\ wt' = [wt EXCEPT !.snap = got, !.pc = "again"]
        /\ wt.pc = "readcsv" /\ UNCHANGED <<lastLoad, cut>>
    BY Zenon, <1>2 DEF ReadCSV
  <2>2. b \in BOOLEAN /\ got \in [names : BOOLEAN, country : BOOLEAN]
        /\ got.names = wt.snap.names /\ (got.country <=> b)
    BY Zenon, <1>a DEF BanWatchTypeOK, Contents, Ticks
  <2> HIDE DEF got
  <2>4. /\ wt'.pc = "again" /\ wt'.snap = got /\ wt'.cur = wt.cur
        /\ wt'.booting = wt.booting /\ BanWatchTypeOK'
    <3>1. wt \in Ticks
      BY Zenon, <1>a DEF BanWatchTypeOK
    <3>2. wt'.pc = "again" /\ wt'.snap = got /\ wt'.cur = wt.cur /\ wt'.booting = wt.booting
      BY Zenon, <2>1, <3>1 DEF Ticks
    <3>3. wt' \in Ticks
      BY Zenon, <2>1, <2>2, <3>1 DEF Ticks
    <3>4. UNCHANGED <<lastLoad, cut>>
      BY Zenon, <2>1
    <3>5. BanWatchTypeOK'
      BY Zenon, <1>a, <1>b, <3>3, <3>4 DEF BanWatchTypeOK
    <3> QED BY Zenon, <3>2, <3>5
  <2>5. StampsInv'
    BY Zenon, <1>a, <2>1, <2>4 DEF BanWatchInv, StampsInv, Reading
  <2>6. ReadInv'
    BY <1>a, <2>1, <2>2, <2>4 DEF BanWatchInv, ReadInv, Reading, Held
  <2> QED BY Zenon, <2>4, <2>5, <2>6 DEF BanWatchInv
<1> QED BY Zenon, <1>0, <1>1, <1>2

(* The second look and the commit. *)
LEMMA SecondLookKeeps ==
  ASSUME BanWatchInv, LoadInitial \/ AgainBans \/ AgainCSV \/ Evict
  PROVE  BanWatchInv'
<1>a. BanWatchTypeOK /\ UNCHANGED <<file, writes>>
  BY Zenon DEF LoadInitial, AgainBans, AgainCSV, Evict, OnlyTick, BanWatchInv
<1>b. banFaults' \in Nat
  BY <1>a
  DEF LoadInitial, AgainBans, AgainCSV, Evict, Stat, BanFault, BanWatchTypeOK, Contents, Ticks
<1>1. CASE LoadInitial
  <2>1. /\ wt' = AtRest /\ cut' = NoCut /\ live' = wt.snap /\ lastLoad' = wt.cur /\ ph' = ph
    BY Zenon, <1>1 DEF LoadInitial, Commit
  <2>2. wt.snap \in [names : BOOLEAN, country : BOOLEAN] /\ wt.cur \in [Paths -> Int]
    BY Zenon, <1>a DEF BanWatchTypeOK, Ticks
  <2>3. BanWatchTypeOK' /\ wt'.pc = "idle" /\ wt'.cur = NoLoad /\ ~wt'.booting
    BY Zenon, <1>a, <1>b, <2>1, <2>2, AtRestTypes DEF BanWatchTypeOK
  <2> QED BY Zenon, <1>a, <2>3, RestKeeps
<1>2. CASE AgainBans
  <2>1. PICK s \in {0, file["bans"].stamp} :
          wt' = [wt EXCEPT !.pc = "againcsv", !.after = [NotSeen EXCEPT !["bans"] = s]]
    BY Zenon, <1>2 DEF AgainBans
  <2>2. s \in Nat
    BY <1>a, <2>1 DEF BanWatchTypeOK, Contents, Ticks, Paths
  <2> DEFINE after == [NotSeen EXCEPT !["bans"] = s]
  <2>3. after \in [Paths -> Int] /\ after["bans"] = s
    BY <2>2 DEF NotSeen, Paths
  <2>4. /\ wt' = [wt EXCEPT !.pc = "againcsv", !.after = after] /\ wt.pc = "again"
        /\ UNCHANGED <<ph, live, lastLoad, cut>>
    BY Zenon, <1>2, <2>1 DEF AgainBans, OnlyTick
  <2> HIDE DEF after
  <2>5. /\ wt'.pc = "againcsv" /\ wt'.after = after /\ wt'.cur = wt.cur /\ wt'.snap = wt.snap
        /\ wt'.booting = wt.booting /\ BanWatchTypeOK'
    BY Zenon, <1>a, <1>b, <2>3, <2>4 DEF BanWatchTypeOK, Contents, Ticks
  <2>6. StampsInv'
    <3>1. s <= writes
      BY <1>a, <2>1 DEF BanWatchInv, BanWatchTypeOK, StampsInv, Paths
    <3> QED BY <1>a, <2>2, <2>3, <2>4, <2>5, <3>1 DEF BanWatchInv, StampsInv, Reading
  <2>7. wt.cur["bans"] > 0 /\ s = wt.cur["bans"] => Held("bans")
    BY <2>1 DEF Held
  <2>8. ReadInv'
    BY Zenon, <1>a, <2>3, <2>4, <2>5, <2>7 DEF BanWatchInv, ReadInv, Reading, Held, Paths
  <2> QED BY Zenon, <2>5, <2>6, <2>8 DEF BanWatchInv
<1>3. CASE AgainCSV
  <2>1. PICK s \in {0, file["csv"].stamp} :
          LET after == [wt.after EXCEPT !["csv"] = s]
          IN  \/ wt' = AtRest /\ cut' = NoCut /\ UNCHANGED <<live, lastLoad>>
              \/ wt' = [AtRest EXCEPT !.pc = "evict"] /\ cut' = NoCut /\ Commit
              \/ /\ wt' = [wt EXCEPT !.pc = "read", !.cur = after, !.tries = @ - 1,
                                     !.after = NoLoad, !.snap = Nothing]
                 /\ cut' = file /\ UNCHANGED <<live, lastLoad>>
    BY Zenon, <1>3 DEF AgainCSV
  <2>2. s \in Nat /\ s <= writes /\ wt.pc = "againcsv" /\ ph' = ph
    BY <1>a, <1>3, <2>1
    DEF BanWatchTypeOK, Contents, Ticks, BanWatchInv, StampsInv, Paths, AgainCSV
  <2> DEFINE after == [wt.after EXCEPT !["csv"] = s]
  <2>3. CASE wt' = AtRest /\ cut' = NoCut /\ UNCHANGED <<live, lastLoad>>
    <3>1. BanWatchTypeOK' /\ wt'.pc = "idle" /\ wt'.cur = NoLoad /\ ~wt'.booting
      BY Zenon, <1>a, <1>b, <2>2, <2>3, AtRestTypes DEF BanWatchTypeOK
    <3> QED BY Zenon, <1>a, <3>1, RestKeeps
  <2>4. CASE wt' = [AtRest EXCEPT !.pc = "evict"] /\ cut' = NoCut /\ Commit
    <3>1. wt' \in Ticks /\ wt'.pc = "evict" /\ wt'.cur = NoLoad /\ ~wt'.booting
      BY Zenon, <2>4, AtRestTypes
    <3>2. live' \in [names : BOOLEAN, country : BOOLEAN] /\ lastLoad' \in [Paths -> Int]
      BY Zenon, <1>a, <2>4 DEF BanWatchTypeOK, Ticks, Commit
    <3>3. BanWatchTypeOK'
      BY Zenon, <1>a, <1>b, <2>2, <2>4, <3>1, <3>2, AtRestTypes DEF BanWatchTypeOK
    <3> QED BY Zenon, <1>a, <3>1, <3>3, RestKeeps
  <2>5. CASE /\ wt' = [wt EXCEPT !.pc = "read", !.cur = after, !.tries = @ - 1,
                                 !.after = NoLoad, !.snap = Nothing]
             /\ cut' = file /\ UNCHANGED <<live, lastLoad>>
    <3>1. after \in [Paths -> Int] /\ \A p \in Paths : after[p] >= 0 /\ after[p] <= writes
      <4>1. wt.after \in [Paths -> Int] /\ wt.after["bans"] >= 0 /\ wt.after["bans"] <= writes
        BY Zenon, <1>a, <2>2 DEF BanWatchTypeOK, Ticks, BanWatchInv, StampsInv
      <4>2. \A p \in Paths : after[p] = IF p = "csv" THEN s ELSE wt.after[p]
        BY Zenon, <4>1
      <4> QED BY <2>2, <4>1, <4>2 DEF Paths
    <3> HIDE DEF after
    <3>2. /\ wt'.pc = "read" /\ wt'.cur = after /\ wt'.booting = wt.booting
          /\ BanWatchTypeOK'
      <4>1. wt \in Ticks
        BY Zenon, <1>a DEF BanWatchTypeOK
      <4>2. wt'.pc = "read" /\ wt'.cur = after /\ wt'.booting = wt.booting
        BY Zenon, <2>5, <4>1 DEF Ticks
      <4>3. wt' \in Ticks
        <5> DEFINE tries == wt.tries - 1
        <5>1. tries \in Int
          BY <4>1 DEF Ticks
        <5>2. wt' = [wt EXCEPT !.pc = "read", !.cur = after, !.tries = tries, !.after = NoLoad,
                               !.snap = Nothing]
          BY Zenon, <2>5
        <5> HIDE DEF tries
        <5> QED BY Zenon, <3>1, <4>1, <5>1, <5>2, AtRestTypes DEF Ticks
      <4> QED BY Zenon, <1>a, <1>b, <2>2, <2>5, <4>2, <4>3 DEF BanWatchTypeOK
    <3> QED BY Zenon, <1>a, <2>5, <3>1, <3>2 DEF BanWatchInv, StampsInv, ReadInv, Reading
  <2> QED BY Zenon, <2>1, <2>3, <2>4, <2>5
<1>4. CASE Evict
  <2>1. /\ wt' = AtRest /\ UNCHANGED <<live, lastLoad, cut>>
        /\ ph' \in [Phones -> {"down", "checked", "up", "late"}]
    BY Zenon, <1>4, <1>a DEF Evict, BanWatchTypeOK, Contents, Ticks
  <2>2. BanWatchTypeOK' /\ wt'.pc = "idle" /\ wt'.cur = NoLoad /\ ~wt'.booting
    BY Zenon, <1>a, <1>b, <2>1, AtRestTypes DEF BanWatchTypeOK
  <2> QED BY Zenon, <1>a, <2>2, RestKeeps
<1> QED BY Zenon, <1>1, <1>2, <1>3, <1>4

LEMMA BanWatchSteps ==
  ASSUME BanWatchInv, BanWatchNext
  PROVE  BanWatchInv'
<1>1. CASE BanWatcher
  BY Zenon, <1>1, FirstLookKeeps, BuildKeeps, SecondLookKeeps DEF BanWatcher
<1>2. CASE \E p \in Paths : Write(p)
  BY ZenonT(30), <1>2, WriteKeeps
<1>3. ASSUME NEW c \in Phones, Connect(c) \/ Register(c) PROVE BanWatchInv'
  <2>1. UNCHANGED <<file, writes, live, lastLoad, wt, banFaults, cut>>
        /\ ph' \in [Phones -> {"down", "checked", "up", "late"}]
    BY Zenon, <1>3 DEF Connect, Register, BanWatchInv, BanWatchTypeOK, Contents, Ticks
  <2> QED BY <2>1 DEF BanWatchInv, BanWatchTypeOK, Contents, Ticks, StampsInv, ReadInv, Held
<1> QED BY Zenon, <1>1, <1>2, <1>3 DEF BanWatchNext

LEMMA BanWatchInitial == BanWatchInit => BanWatchInv
<1> SUFFICES ASSUME BanWatchInit PROVE BanWatchInv
  OBVIOUS
<1>1. BanWatchTypeOK /\ wt.pc = "stat" /\ wt.cur = NoLoad
  <2>1. wt \in Ticks /\ wt.pc = "stat" /\ wt.cur = NoLoad
    BY Zenon, AtRestTypes DEF BanWatchInit, AtRest, Ticks
  <2>2. file \in Contents /\ lastLoad \in [Paths -> Int] /\ live = Nothing /\ cut = NoCut
    BY Zenon, AtRestTypes DEF BanWatchInit, Contents, Missing
  <2> QED BY Zenon, <2>1, <2>2, AtRestTypes DEF BanWatchInit, BanWatchTypeOK
<1> QED BY <1>1 DEF BanWatchInit, BanWatchInv, StampsInv, ReadInv, Reading, NoLoad, Missing

LEMMA BanWatchKept == BanWatchInv /\ [BanWatchNext]_bvars => BanWatchInv'
<1>1. BanWatchInv /\ UNCHANGED bvars => BanWatchInv'
  <2>1. BanWatchTypeOK /\ UNCHANGED bvars => BanWatchTypeOK'
    BY Zenon DEF bvars, BanWatchTypeOK
  <2>2. StampsInv /\ UNCHANGED bvars => StampsInv'
    BY Zenon DEF bvars, StampsInv
  <2>3. ReadInv /\ UNCHANGED bvars => ReadInv'
    BY Zenon DEF bvars, ReadInv, Held, Reading
  <2> QED BY Zenon, <2>1, <2>2, <2>3 DEF BanWatchInv
<1> QED BY Zenon, <1>1, BanWatchSteps

(* What is banned changes with the startup load, or as a second look confirms the
   first; then the ban file, and the country database if it was there, are the
   ones of the first look's end. *)
LEMMA CommitIsOfOneInstant ==
  ASSUME BanWatchInv, [BanWatchNext]_bvars, live' # live
  PROVE  \/ wt.booting /\ \A p \in Paths : lastLoad[p] < 0
         \/ /\ live' = wt.snap /\ ~Vanished(wt.cur)
            /\ \A p \in Paths : wt.cur[p] >= 0
            /\ wt.cur["bans"] > 0 => (wt.snap.names <=> cut["bans"].says = "bans")
                                      /\ cut["bans"].stamp = wt.cur["bans"]
            /\ wt.cur["csv"] > 0 => (wt.snap.country <=> wt.snap.names /\ cut["csv"].says = "rows")
                                     /\ cut["csv"].stamp = wt.cur["csv"]
<1>1. BanWatchNext
  BY Zenon DEF bvars
<1>2. LoadInitial \/ AgainCSV
  BY Zenon, <1>1 DEF BanWatchNext, BanWatcher, Write, BanTick, StatBans, StatCSV, ReadBans, ReadCSV,
     AgainBans, Evict, Connect, Register, OnlyTick
<1>3. CASE LoadInitial
  BY Zenon, <1>3 DEF LoadInitial, BanWatchInv, StampsInv
<1>4. CASE AgainCSV
  <2> DEFINE after(s) == [wt.after EXCEPT !["csv"] = s]
  <2>1. PICK s \in {0, file["csv"].stamp} :
          ~Vanished(after(s)) /\ wt.cur = after(s) /\ live' = wt.snap /\ wt.pc = "againcsv"
    BY Zenon, <1>4 DEF AgainCSV, Stable, Commit
  <2>2. wt.after["bans"] = wt.cur["bans"] /\ wt.cur["csv"] = s
    BY Zenon, <2>1 DEF BanWatchInv, BanWatchTypeOK, Contents, Ticks, Paths
  <2>3. wt.cur["csv"] > 0 => Held("csv")
    BY <2>1, <2>2 DEF Held
  <2> QED BY Zenon, <2>1, <2>2, <2>3 DEF BanWatchInv, StampsInv, ReadInv, Reading, Held, Paths
<1> QED BY Zenon, <1>2, <1>3, <1>4
LEMMA ReloadStep ==
  ASSUME BanWatchInv, [BanWatchNext]_bvars, ~wt.booting, live' # live, wt.cur["bans"] > 0
  PROVE  /\ live'.names = BansOf(cut).names
         /\ wt.cur["csv"] > 0 => live' = BansOf(cut)
<1>1. /\ live' = wt.snap /\ (wt.snap.names <=> cut["bans"].says = "bans")
      /\ wt.cur["csv"] > 0 => (wt.snap.country <=> wt.snap.names /\ cut["csv"].says = "rows")
  BY Zenon, CommitIsOfOneInstant
<1>2. wt.snap \in [names : BOOLEAN, country : BOOLEAN]
  BY Zenon DEF BanWatchInv, BanWatchTypeOK, Contents, Ticks
<1> QED BY Zenon, <1>1, <1>2 DEF BansOf

LEMMA DeletionStep ==
  ASSUME BanWatchInv, [BanWatchNext]_bvars
  PROVE  /\ live.names /\ ~live'.names /\ lastLoad["bans"] > 0 => cut["bans"].stamp > 0
         /\ live.country /\ ~live'.country /\ lastLoad["csv"] > 0
              => cut["bans"].says = "none" \/ cut["csv"].stamp > 0
<1> SUFFICES ASSUME live' # live, \E p \in Paths : lastLoad[p] > 0
             PROVE  \A p \in Paths : lastLoad[p] > 0 => cut[p].stamp > 0
  BY Zenon DEF Paths
<1>1. ~Vanished(wt.cur) /\ \A p \in Paths : wt.cur[p] >= 0 /\ wt.cur[p] \in Int
                           /\ (wt.cur[p] > 0 => cut[p].stamp = wt.cur[p])
  BY CommitIsOfOneInstant DEF Paths, BanWatchInv, BanWatchTypeOK, Contents, Ticks
<1> QED BY <1>1 DEF Vanished, Required
=============================================================================
