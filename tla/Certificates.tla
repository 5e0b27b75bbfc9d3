---------------------------- MODULE Certificates ----------------------------
(***************************************************************************)
(* How a phone's certificate comes about, and what is told of the phones   *)
(* that are refused: Enrolment, the requests of the phones and their       *)
(* locks; AcmeOrder, the chain that a request's order runs through;        *)
(* CapLog, the log of refusals; RefusedApps, the daily report of refused   *)
(* enrolments.  Enrolment's Order stands for a whole run of the chain,     *)
(* which it sees only through its result, the chain uses none of           *)
(* Enrolment's state, and the log and the report only take in refusals,    *)
(* which may come at any time.  A behaviour therefore follows one of the   *)
(* four while the others stay in an initial state.                         *)
(***************************************************************************)
EXTENDS Focus, AcmeOrder, Enrolment, RefusedApps, CapLog

vars == <<focus, ovars, evars, jvars, lvars>>

One(S) == {CHOOSE x \in S : TRUE}

Init ==
  /\ \/ focus = "order" /\ OrderInit(Chains) /\ EnrolInit(One(Scenes))
     \/ focus = "enrol" /\ OrderInit(One(Chains)) /\ EnrolInit(Scenes)
     \/ focus \in {"report", "log"} /\ OrderInit(One(Chains)) /\ EnrolInit(One(Scenes))
  /\ RefusedAppsInit /\ CapLogInit

Next ==
  /\ UNCHANGED focus
  /\ \/ focus = "order" /\ UNCHANGED <<evars, jvars, lvars>> /\ OrderNext
     \/ focus = "enrol" /\ UNCHANGED <<ovars, jvars, lvars>> /\ EnrolNext
     \/ focus = "report" /\ UNCHANGED <<ovars, evars, lvars>> /\ RefusedAppsNext
     \/ focus = "log" /\ UNCHANGED <<ovars, evars, jvars>> /\ CapLogNext

Spec == Init /\ [][Next]_vars

-----------------------------------------------------------------------------
(* Type invariant of the parts. *)
TypeOK ==
  /\ focus \in {"order", "enrol", "report", "log"}
  /\ OrderTypeOK /\ EnrolTypeOK /\ RefusedAppsTypeOK /\ CapLogTypeOK
=============================================================================
