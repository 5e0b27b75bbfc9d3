----------------------------- MODULE RouteOwner -----------------------------
(***************************************************************************)
(* What the routing table promises about one tunnel name: who may change   *)
(* the owner stored under tunnel:{name}, when, and from which owner.  A    *)
(* phone connection that is registering takes the route from anybody; an   *)
(* open connection that restores a lost route only fills an empty one; a   *)
(* connection that leaves removes nobody but itself; the route of an open  *)
(* connection lapses only when Valkey cannot be reached for a whole TTL.   *)
(*                                                                         *)
(* PhoneRoute, with its lock, its read-then-write steps and its failures,  *)
(* implements this specification.                                          *)
(***************************************************************************)
EXTENDS Naturals

CONSTANTS Conns,        \* the phone connections, named by their connIDs
          NoConn,       \* no route
          MaxOutages    \* how many times Valkey is out of reach for a TTL

VARIABLES owner,        \* the connID a lookup returns, or NoConn
          life,         \* the stage of each connection's handler
          outages       \* outages still to come

absVars == <<owner, life, outages>>

Stages == {"out", "taking", "open", "leaving", "gone"}

Init == /\ owner = NoConn
        /\ life = [c \in Conns |-> "out"]
        /\ outages = MaxOutages

(* A handler moves on to its next stage, or ends early. *)
Proceed(c) == /\ \/ life[c] = "out"     /\ life' = [life EXCEPT ![c] = "taking"]
                 \/ life[c] = "taking"  /\ life' = [life EXCEPT ![c] = "open"]
                 \/ life[c] \in {"taking", "open"}
                                        /\ life' = [life EXCEPT ![c] = "leaving"]
                 \/ life[c] \in {"taking", "leaving"}
                                        /\ life' = [life EXCEPT ![c] = "gone"]
              /\ UNCHANGED <<owner, outages>>

(* A node dies with every connection it holds. *)
Die(S) == /\ life' = [c \in Conns |-> IF c \in S THEN "gone" ELSE life[c]]
          /\ UNCHANGED <<owner, outages>>

(* A connection that is registering takes the route: last writer wins.  It
   may give up in the same step, its write having been applied all the same. *)
Take(c) == /\ life[c] = "taking"
           /\ owner' = c
           /\ life' \in {life, [life EXCEPT ![c] = "leaving"]}
           /\ UNCHANGED outages

(* An open connection restores a route that is missing. *)
Restore(c) == /\ life[c] = "open" /\ owner = NoConn
              /\ owner' = c
              /\ UNCHANGED <<life, outages>>

(* A leaving connection withdraws the route it owns. *)
Withdraw(c) == /\ life[c] = "leaving" /\ owner = c
               /\ owner' = NoConn
               /\ UNCHANGED <<life, outages>>

(* The route's TTL runs out: nobody refreshes it, or the owner cannot. *)
Lapse == /\ owner \in Conns
         /\ owner' = NoConn
         /\ \/ life[owner] \in {"leaving", "gone"} /\ UNCHANGED outages
            \/ outages > 0 /\ outages' = outages - 1
         /\ UNCHANGED life

Next == \/ \E S \in SUBSET Conns : Die(S)
        \/ \E c \in Conns : Proceed(c) \/ Take(c) \/ Restore(c) \/ Withdraw(c)
        \/ Lapse

Spec == Init /\ [][Next]_absVars
=============================================================================
