-------------------------- MODULE NodeTasksProofs ---------------------------
(***************************************************************************)
(* The tasks beside the tunnels, for every number of connections, nodes,   *)
(* calls and requests and every bound on time and failures.  A behaviour   *)
(* of NodeTasks follows one task, so each task has an invariant of its own *)
(* that its steps keep and that the steps of the others cannot touch.      *)
(***************************************************************************)
EXTENDS NodeTasks, GateProofs, ServiceProofs, TLAPS

(* A step is a step of one task or leaves that task's variables alone. *)
LEMMA TaskSteps ==
  ASSUME [Next]_vars
  PROVE  /\ AdmissionNext \/ UNCHANGED avars
         /\ TrafficNext \/ UNCHANGED tvars
         /\ ReservedCertNext \/ UNCHANGED rvars
         /\ BanWatchNext \/ UNCHANGED bvars
         /\ AttestationNext \/ UNCHANGED tvs
         /\ SignersNext \/ UNCHANGED gvars
         /\ NodeListNext \/ UNCHANGED nvars
         /\ MeshPoolNext \/ UNCHANGED pvars
         /\ ShutdownNext \/ UNCHANGED svars
         /\ PhoneClientNext \/ UNCHANGED cvars
<1>1. CASE UNCHANGED vars
  BY SMTT(30), <1>1 DEF vars
<1>2. CASE Next
  BY Zenon, <1>2 DEF Next, Only, Others
<1> QED BY <1>1, <1>2

LEMMA AdmissionAlways == Spec => []AdmissionInv
<1>1. Init => AdmissionInv
  BY AdmissionInitial DEF Init
<1>2. AdmissionInv /\ [Next]_vars => AdmissionInv'
  BY AdmissionKept, TaskSteps
<1> QED BY <1>1, <1>2, PTL DEF Spec

(* The one counter of both ports is exact and no more connections hold a slot
   than --max-clients, however the admissions of the two ports, the hand-overs
   to the node's own servers and the shutdown interleave. *)
THEOREM ClientSlots == Spec => [](SlotsExact /\ ClientsCapped)
<1>1. AdmissionInv => SlotsExact /\ ClientsCapped
  BY SMTT(30) DEF AdmissionInv
<1> QED BY <1>1, AdmissionAlways, PTL

LEMMA AttestationAlways == Spec => []AttestationInv
<1>1. Init => AttestationInv
  BY AttestationInitial DEF Init
<1>2. AttestationInv /\ [Next]_vars => AttestationInv'
  BY AttestationKept, TaskSteps
<1> QED BY <1>1, <1>2, PTL DEF Spec

(* A verification accepts no key that has been on Google's list for longer than
   --attest-max-stale, whatever fetches fail and whenever the list is replaced
   between the test of its age and the look-up. *)
THEOREM RevokedAreRefused == Spec => []RevokedRefused
<1>1. AttestationInv => RevokedRefused
  BY DEF AttestationInv, RevokedRefused
<1> QED BY <1>1, AttestationAlways, PTL

LEMMA MeshPoolAlways == Spec => []MeshPoolInv
<1>1. Init => MeshPoolInv
  BY MeshPoolInitial DEF Init
<1>2. MeshPoolInv /\ [Next]_vars => MeshPoolInv'
  BY MeshPoolKept, TaskSteps
<1> QED BY <1>1, <1>2, PTL DEF Spec

(* The janitor of the mesh client's pools closes none under a running call. *)
THEOREM PoolsInUseKept == Spec => []InUseKept
<1>1. MeshPoolInv => InUseKept
  BY DEF MeshPoolInv
<1> QED BY <1>1, MeshPoolAlways, PTL

LEMMA ShutdownAlways == Spec => []ShutdownInv
<1>1. Init => ShutdownInv
  BY ShutdownInitial DEF Init
<1>2. ShutdownInv /\ [Next]_vars => ShutdownInv'
  BY ShutdownKept, TaskSteps
<1> QED BY <1>1, <1>2, PTL DEF Spec

(* A shutdown that stays within its grace time and meets no failed write loses no
   event and saves every counted byte once. *)
THEOREM ShutdownEndsClean == Spec => []EndsClean
<1>1. ShutdownInv => EndsClean
  BY DEF ShutdownInv, ShutdownTypeOK, BytesInv, GraceInv, LateRun, EndsClean
<1> QED BY <1>1, ShutdownAlways, PTL

(* Whatever fails and whenever the grace time ends: no flush drops a counted
   byte, no late heartbeat lists the node again, and no broadcast outlives Run. *)
THEOREM ShutdownAlwaysTidy == Spec => [](BytesKept /\ StaysUnlisted /\ EvictorQuiet)
<1>1. ShutdownInv => BytesKept /\ StaysUnlisted /\ EvictorQuiet
  BY DEF ShutdownInv, BytesInv, StoppedInv
<1> QED BY <1>1, ShutdownAlways, PTL

LEMMA ReservedCertAlways == Spec => []ReservedCertInv
<1>1. Init => ReservedCertInv
  BY ReservedCertInitial DEF Init
<1>2. ReservedCertInv /\ [Next]_vars => ReservedCertInv'
  BY SMTT(30), ReservedCertKept, TaskSteps
<1> QED BY <1>1, <1>2, PTL DEF Spec

(* As long as nothing fails no node orders a certificate while some node has one
   that is not due. *)
THEOREM OrdersAreNeeded == Spec => []NoNeedlessOrder
<1>1. ReservedCertInv => NoNeedlessOrder
  BY DEF ReservedCertInv, Calm, NoNeedlessOrder
<1> QED BY <1>1, ReservedCertAlways, PTL

(* Whatever fails, at most one node orders under the lock: the lock is that
   node's until it lets go of it. *)
THEOREM OneOrderUnderLock == Spec => []LockOwned
<1>1. ReservedCertInv => LockOwned
  BY DEF ReservedCertInv
<1> QED BY <1>1, ReservedCertAlways, PTL

LEMMA BanWatchAlways == Spec => []BanWatchInv
<1>1. Init => BanWatchInv
  BY BanWatchInitial DEF Init
<1>2. BanWatchInv /\ [Next]_vars => BanWatchInv'
  BY BanWatchKept, TaskSteps
<1> QED BY <1>1, <1>2, PTL DEF Spec

(* A reload puts the bans of the files at one instant in force, whatever another
   program writes between its reads. *)
THEOREM ReloadsAreOfOneInstant == Spec => BansOfOneInstant
<1>1. BanWatchInv /\ [Next]_vars =>
        [~wt.booting /\ live' # live /\ wt.cur["bans"] > 0 =>
           /\ live'.names = BansOf(cut).names
           /\ wt.cur["csv"] > 0 => live' = BansOf(cut)]_bvars
  BY ReloadStep, TaskSteps
<1> QED BY <1>1, BanWatchAlways, PTL DEF Spec, BansOfOneInstant

(* A deleted file lifts no ban, however its deletion falls into a reload. *)
THEOREM DeletionsLiftNothing == Spec => DeletionLiftsNothing
<1>1. BanWatchInv /\ [Next]_vars =>
        [/\ live.names /\ ~live'.names /\ lastLoad["bans"] > 0 => cut["bans"].stamp > 0
         /\ live.country /\ ~live'.country /\ lastLoad["csv"] > 0
              => cut["bans"].says = "none" \/ cut["csv"].stamp > 0]_bvars
  BY DeletionStep, TaskSteps
<1> QED BY <1>1, BanWatchAlways, PTL DEF Spec, DeletionLiftsNothing

LEMMA TrafficAlways == Spec => []TrafficInv
<1>1. Init => TrafficInv
  BY TrafficInitial DEF Init
<1>2. TrafficInv /\ [Next]_vars => TrafficInv'
  BY TrafficKept, TaskSteps
<1> QED BY <1>1, <1>2, PTL DEF Spec

(* The windows nest: the second's counter never exceeds the day's, nor the day's
   the week's, for every length of a day and a week. *)
THEOREM CountersNest == Spec => [](bw <= day /\ day <= week)
<1>1. TrafficInv => bw <= day /\ day <= week
  BY DEF TrafficInv, TrafficTypeOK
<1> QED BY <1>1, TrafficAlways, PTL

(* A stream killed over a spent day or week is not let in again before that day
   or week is over: the gate of new streams sees the window the charge saw. *)
THEOREM KilledStaysOutUntilReset == Spec => KilledStaysOut
<1>1. TrafficInv /\ [Next]_vars =>
        [\A c \in Copiers : cp[c].st = "dead" /\ cp'[c].st = "idle" => clock >= cp[c].until]_tvars
  BY Zenon, ReturnsLate, TaskSteps
<1> QED BY <1>1, TrafficAlways, PTL DEF Spec, KilledStaysOut
=============================================================================
