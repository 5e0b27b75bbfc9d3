----------------------------- MODULE NodeTasks ------------------------------
(***************************************************************************)
(* The tasks that a node, and a phone, run beside the tunnels themselves,  *)
(* put together as internal/server/server.go Run starts them.  They share  *)
(* no state with each other that their modules model, and no property      *)
(* relates two of them, so their interleavings with each other are left    *)
(* out: a behaviour picks one task and follows it, while the others stay   *)
(* in their initial states.                                                *)
(***************************************************************************)
EXTENDS Admission, Traffic, ReservedCert, BanWatch, Attestation, Signers, NodeList, MeshPool,
        Shutdown, PhoneClient

vars == <<focus, avars, tvars, rvars, bvars, tvs, gvars, nvars, pvars, svars, cvars>>

Tasks == {"admission", "traffic", "cert", "ban", "attest", "signers", "nodes", "mesh",
          "shutdown", "client"}

Init ==
  /\ focus \in Tasks
  /\ AdmissionInit /\ TrafficInit /\ ReservedCertInit /\ BanWatchInit /\ AttestationInit
  /\ SignersInit /\ NodeListInit /\ MeshPoolInit /\ ShutdownInit /\ PhoneClientInit

Others(task) ==
  /\ task # "admission" => UNCHANGED avars
  /\ task # "traffic" => UNCHANGED tvars
  /\ task # "cert" => UNCHANGED rvars
  /\ task # "ban" => UNCHANGED bvars
  /\ task # "attest" => UNCHANGED tvs
  /\ task # "signers" => UNCHANGED gvars
  /\ task # "nodes" => UNCHANGED nvars
  /\ task # "mesh" => UNCHANGED pvars
  /\ task # "shutdown" => UNCHANGED svars
  /\ task # "client" => UNCHANGED cvars

Only(task) == focus = task /\ UNCHANGED focus /\ Others(task)

Next ==
  \/ Only("admission") /\ AdmissionNext
  \/ Only("traffic") /\ TrafficNext
  \/ Only("cert") /\ ReservedCertNext
  \/ Only("ban") /\ BanWatchNext
  \/ Only("attest") /\ AttestationNext
  \/ Only("signers") /\ SignersNext
  \/ Only("nodes") /\ NodeListNext
  \/ Only("mesh") /\ MeshPoolNext
  \/ Only("shutdown") /\ ShutdownNext
  \/ Only("client") /\ PhoneClientNext

(* Each task's own fairness, in the behaviours that follow it. *)
Fairness ==
  /\ AdmissionFairness /\ ReservedCertFairness /\ BanWatchFairness
  /\ SignersFairness /\ NodeListFairness
  /\ ShutdownFairness /\ PhoneClientFairness

Spec == Init /\ [][Next]_vars /\ Fairness

-----------------------------------------------------------------------------
(* Whatever has to stop does: the handlers of a node whose listeners are       *)
(* closed, although nobody takes from them any more (edge.go Wait); Run, although *)
(* an issuance, a splice or a teardown may never end (server.go Run); the      *)
(* phone's Run and Close, although connections were left open (control.go).    *)
TasksEnd == <>[](HandlersEnded /\ ShutdownEnded /\ ClientEnded)

(* Once the failures and edits stop, a node's copies agree with what they are  *)
(* copies of: the reserved hosts' certificate, the bans and the phones they    *)
(* close, the signers and the list of nodes.                                   *)
TasksSettle ==
  <>[](/\ CertsCurrent /\ BansCurrent /\ BannedPhonesLeft
       /\ SignersCurrent /\ ListSettled)

(* Type invariant of all tasks; for the traffic it includes that the windows
   nest. *)
TypeOK ==
  /\ focus \in Tasks
  /\ AdmissionTypeOK /\ TrafficTypeOK /\ ReservedCertTypeOK /\ BanWatchTypeOK
  /\ AttestationTypeOK /\ SignersTypeOK /\ NodeListTypeOK /\ MeshPoolTypeOK
  /\ ShutdownTypeOK /\ PhoneClientTypeOK
=============================================================================
