--------------------------- MODULE MCCertificates ---------------------------
(* Certificates for TLC.  Two runs of the chain, one of them a renewal, over   *)
(* one account or two.  For the enrolment either two phones compete for two    *)
(* names, or one phone enrols, gets its first certificate and renews it.       *)
EXTENDS Certificates

CONSTANTS p1, p2

MCChains == {<<"LE">>, <<"LE", "GTS">>}
MCCap == [b \in Buckets |-> IF b \in {"leOrders", "leName"} THEN 1 ELSE 2]
MCRefill == [b \in Buckets |-> IF b = "gtsRequests" THEN 1 ELSE 2]
MCScenes == {[start |-> {p1, p2}, issue |-> {}], [start |-> {p1}, issue |-> {p1}]}

(* Three refused attempts of three apps, from one address; the first is of the *)
(* app that a report of a single day shows second.                             *)
MCAppOf == <<2, 1, 3>>
MCSrcOf == <<1, 1, 1>>

Symmetry == Permutations(Names)
=============================================================================
