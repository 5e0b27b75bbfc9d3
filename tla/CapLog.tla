------------------------------ MODULE CapLog -------------------------------
(***************************************************************************)
(* The log of refusals (internal/caplog): the first refusal of a tunnel    *)
(* for a reason in a window of a minute is logged at once, the others are  *)
(* counted, and a summary of a window with more than one is logged later:  *)
(* by the key's next refusal, by a refusal of another key, or by the flush *)
(* at shutdown.  Hit and Flush hold the mutex throughout.                  *)
(***************************************************************************)
EXTENDS Focus, Integers, Sequences, FiniteSets, FiniteSetsExt

CONSTANTS
  CapKeys,     \* tunnel and reason
  CapIPs,      \* client addresses
  NoIP,        \* a refusal without an address
  Window,      \* the window's length
  TrackedIPs,  \* maxTrackedIPs
  MaxHits, MaxMinutes    \* bounds on the refusals and on the time

ASSUME CapLogAssumption == {Window, TrackedIPs, MaxHits, MaxMinutes} \subseteq Nat /\ NoIP \notin CapIPs

VARIABLES
  minute,    \* the clock
  states,    \* key -> {}, or its window's count, addresses, whether they passed the cap, start
  flushed,   \* Flush has run
  refusals,  \* history: key -> refusals
  inLog,     \* history: key -> refusals that a line or a summary accounts for
  lines,     \* history: key -> when it was logged at once, since the flush
  came,      \* history: key -> addresses in the window
  ipsTrue    \* history: no summary gave a wrong number of addresses

lvars == <<minute, states, flushed, refusals, inLog, lines, came, ipsTrue>>

CapLogInit ==
  /\ minute = 0
  /\ states = [k \in CapKeys |-> {}]
  /\ flushed = FALSE
  /\ refusals = [k \in CapKeys |-> 0] /\ inLog = [k \in CapKeys |-> 0]
  /\ lines = [k \in CapKeys |-> <<>>]
  /\ came = [k \in CapKeys |-> {}]
  /\ ipsTrue = TRUE

Minute ==
  /\ minute < MaxMinutes
  /\ minute' = minute + 1
  /\ UNCHANGED <<states, flushed, refusals, inLog, lines, came, ipsTrue>>

NewWindow(ip) == [count |-> 1, ips |-> {ip} \ {NoIP}, capped |-> FALSE, start |-> minute]

(* A further refusal in the window; past the cap even a known address marks   *)
(* the number as a lower bound.                                               *)
CountHit(st, ip) ==
  LET room == Cardinality(st.ips) < TrackedIPs
  IN [st EXCEPT !.count = @ + 1,
                !.ips = IF ip # NoIP /\ room THEN @ \cup {ip} ELSE @,
                !.capped = @ \/ (ip # NoIP /\ ~room)]

(* Windows that are over, by key. *)
WindowOver(k) == \E st \in states[k] : minute - st.start >= Window

(* Mutant: two refusals are not worth a summary. *)
SummarisedFew(st) == IF st.count <= 2 THEN 0 ELSE st.count - 1

(* emitSummary: how many refusals it accounts for beside the first. *)
Summarised(st) == IF st.count <= 1 THEN 0 ELSE st.count - 1

(* sweep: the keys, other than the hit's, whose window is over. *)
Swept(k) == {other \in CapKeys \ {k} : WindowOver(other)}

Pending(k) == SumSet({Summarised(st) : st \in states[k]})

(* What the summaries of these windows say is right: the number of addresses,  *)
(* or a lower bound.                                                           *)
IpsRight(keys) ==
  \A k \in keys : \A st \in states[k] :
    st.count > 1 => IF st.capped THEN Cardinality(st.ips) <= Cardinality(came[k])
                                 ELSE Cardinality(st.ips) = Cardinality(came[k])

(* Hit: log, start a window or count, then sweep the other keys. *)
CapHit(k, ip) ==
  LET fresh == states[k] = {} \/ WindowOver(k)
      ended == Swept(k) \cup (IF WindowOver(k) THEN {k} ELSE {})
  IN /\ MapThenSumSet(LAMBDA other : refusals[other], CapKeys) < MaxHits
     /\ refusals' = [refusals EXCEPT ![k] = @ + 1]
     /\ states' = [other \in CapKeys |->
                     CASE other = k /\ fresh -> {NewWindow(ip)}
                       [] other = k /\ ~fresh -> {CountHit(st, ip) : st \in states[k]}
                       [] other \in Swept(k) -> {}
                       [] OTHER -> states[other]]
     /\ inLog' = [other \in CapKeys |->
                     inLog[other] + (IF other \in ended THEN Pending(other) ELSE 0)
                                   + (IF other = k /\ fresh THEN 1 ELSE 0)]
     /\ lines' = IF fresh THEN [lines EXCEPT ![k] = Append(@, minute)] ELSE lines
     /\ came' = [came EXCEPT ![k] = (IF fresh THEN {} ELSE @) \cup ({ip} \ {NoIP})]
     /\ ipsTrue' = (ipsTrue /\ IpsRight(ended))
     /\ UNCHANGED <<minute, flushed>>

(* Flush, once, at the end of a shutdown; a handler that outlived it may still hit. *)
CapFlush ==
  /\ ~flushed /\ flushed' = TRUE
  /\ states' = [k \in CapKeys |-> {}]
  /\ inLog' = [k \in CapKeys |-> inLog[k] + Pending(k)]
  /\ ipsTrue' = (ipsTrue /\ IpsRight(CapKeys))
  /\ lines' = [k \in CapKeys |-> <<>>]
  /\ UNCHANGED <<minute, refusals, came>>

CapLogNext ==
  \/ Minute
  \/ \E k \in CapKeys, ip \in CapIPs \cup {NoIP} : CapHit(k, ip)
  \/ CapFlush

-----------------------------------------------------------------------------
(* Type invariant. *)
CapLogTypeOK ==
  /\ minute \in 0..MaxMinutes
  /\ \A k \in CapKeys : /\ Cardinality(states[k]) <= 1
                        /\ \A st \in states[k] : st.count \in 1..MaxHits /\ st.start \in 0..minute

(* No refusal is lost: each was logged by itself, is part of a logged summary, *)
(* or is counted in a window whose summary is still to come; after the flush   *)
(* nothing of before is pending.                                               *)
RefusalsAccounted == \A k \in CapKeys : refusals[k] = inLog[k] + SumSet({st.count - 1 : st \in states[k]})

(* At most one line by itself per key and window, but for the flush: neither   *)
(* the refusals of other keys, which sweep the map, nor the key's own summary  *)
(* bring a second.                                                             *)
LinePerWindow ==
  \A k \in CapKeys : \A i \in 2..Len(lines[k]) : lines[k][i] - lines[k][i - 1] >= Window

(* A summary's number of addresses is exact, or marked as a lower bound: the   *)
(* cap on the addresses that are tracked never makes it wrong.                 *)
SummaryIpsTrue == ipsTrue
=============================================================================
