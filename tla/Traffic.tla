------------------------------ MODULE Traffic ------------------------------
(***************************************************************************)
(* The traffic windows of one tunnel in one direction                      *)
(* (internal/limit/limiter.go): every chunk a copier reads is charged to   *)
(* the counters of the current second, day and week in one round trip,     *)
(* and is then forwarded, held until a window ends, or dropped with its    *)
(* stream.  New streams are refused while a day or week is spent.  Time    *)
(* is in ticks of a second; a day and a week are a few of them.            *)
(***************************************************************************)
EXTENDS Integers

CONSTANTS
  Copiers,      \* the streams that share the counters
  Chunks,       \* the sizes a read can have
  BwRate, DayCap, WeekCap,
  Day, Week,    \* lengths, in seconds and in days (86400 and 7)
  MaxPacingWait,
  MaxTime,      \* bound on the clock
  MaxErrors     \* bound on the chunks let through by an error or a teardown

ASSUME TrafficAssumption ==
  /\ Chunks \subseteq Nat
  /\ {BwRate, DayCap, WeekCap, MaxPacingWait, MaxTime, MaxErrors} \subseteq Nat
  /\ {Day, Week} \subseteq Nat \ {0}

VARIABLES
  clock,     \* the current second
  bw, day, week,     \* the counters of the current windows
  cp,        \* the copiers: idle, or holding a charged chunk until a moment
  dayOut, weekOut,   \* history: bytes forwarded in the window they were charged to
  slack, errors      \* history: bytes let through by an error or a teardown, and how often

tvars == <<clock, bw, day, week, cp, dayOut, weekOut, slack, errors>>

Idle == [st |-> "idle", size |-> 0, at |-> 0, until |-> 0]
DayOf(t) == t \div Day
WeekOf(t) == DayOf(t) \div Week

TrafficInit ==
  /\ clock = 0 /\ bw = 0 /\ day = 0 /\ week = 0
  /\ cp = [c \in Copiers |-> Idle]
  /\ dayOut = 0 /\ weekOut = 0 /\ slack = 0 /\ errors = 0

(* The windows are aligned to the clock: a new one starts from nothing. *)
NextSecond ==
  /\ clock < MaxTime /\ \A c \in Copiers : cp[c].st = "hold" => cp[c].until > clock
  /\ clock' = clock + 1
  /\ bw' = 0
  /\ day' = IF DayOf(clock + 1) = DayOf(clock) THEN day ELSE 0
  /\ week' = IF WeekOf(clock + 1) = WeekOf(clock) THEN week ELSE 0
  /\ dayOut' = IF DayOf(clock + 1) = DayOf(clock) THEN dayOut ELSE 0
  /\ weekOut' = IF WeekOf(clock + 1) = WeekOf(clock) THEN weekOut ELSE 0
  /\ UNCHANGED <<cp, slack, errors>>

DayReset(t) == (DayOf(t) + 1) * Day
WeekReset(t) == (WeekOf(t) + 1) * Week * Day

TMax(a, b) == IF a > b THEN a ELSE b

(* Mutant: the wait is the second's, whichever window is over. *)
ShortestHold(t, overSec, overDay, overWeek) == IF overSec \/ overDay \/ overWeek THEN t + 1 ELSE t

(* The furthest of the windows that are over. *)
HoldUntil(t, overSec, overDay, overWeek) ==
  TMax(IF overSec THEN t + 1 ELSE t,
       TMax(IF overDay THEN DayReset(t) ELSE t, IF overWeek THEN WeekReset(t) ELSE t))

(* Charge's verdict on counters that already include the chunk.  A volume window
   that ends too late to wait for kills the stream, the week's first. *)
Verdict(t, b, d, w) ==
  LET far(reset) == reset - t > MaxPacingWait
      u == HoldUntil(t, b > BwRate, d > DayCap, w > WeekCap)
  IN CASE w > WeekCap /\ far(WeekReset(t)) -> [act |-> "dead", until |-> WeekReset(t)]
       [] ~(w > WeekCap /\ far(WeekReset(t))) /\ d > DayCap /\ far(DayReset(t))
            -> [act |-> "dead", until |-> DayReset(t)]
       [] OTHER -> [act |-> IF u > t THEN "hold" ELSE "idle", until |-> u]

Counted(size) == bw' = bw + size /\ day' = day + size /\ week' = week + size
Forwarded(size) == dayOut' = dayOut + size /\ weekOut' = weekOut + size

(* pacedCopy: a chunk is read and charged; it goes on at once, is held, or ends
   the stream. *)
Charge(c, size) ==
  LET v == Verdict(clock, bw + size, day + size, week + size)
  IN /\ cp[c].st = "idle"
     /\ Counted(size)
     /\ IF v.act = "idle"
        THEN Forwarded(size) /\ UNCHANGED cp
        ELSE /\ cp' = [cp EXCEPT ![c] = [st |-> v.act, size |-> size, at |-> clock, until |-> v.until]]
             /\ UNCHANGED <<dayOut, weekOut>>
     /\ UNCHANGED <<clock, slack, errors>>

(* Valkey fails, before or after it counted: the chunk is forwarded. *)
ChargeFails(c, size) ==
  /\ cp[c].st = "idle" /\ errors < MaxErrors
  /\ Counted(size) \/ UNCHANGED <<bw, day, week>>
  /\ Forwarded(size)
  /\ slack' = slack + size /\ errors' = errors + 1
  /\ UNCHANGED <<clock, cp>>

(* The wait is over: the chunk is written without being charged again. *)
Written(h) ==
  /\ dayOut' = IF DayOf(h.at) = DayOf(clock) THEN dayOut + h.size ELSE dayOut
  /\ weekOut' = IF WeekOf(h.at) = WeekOf(clock) THEN weekOut + h.size ELSE weekOut

Resume(c) ==
  /\ cp[c].st = "hold" /\ clock >= cp[c].until
  /\ cp' = [cp EXCEPT ![c] = Idle]
  /\ Written(cp[c])
  /\ UNCHANGED <<clock, bw, day, week, slack, errors>>

(* The stream's context ends during a wait: the chunk is written at once, if the
   far side is still open, and the copier stops on its next read. *)
Teardown(c) ==
  /\ cp[c].st = "hold" /\ errors < MaxErrors
  /\ cp' = [cp EXCEPT ![c] = [Idle EXCEPT !.st = "ended"]]
  /\ Written(cp[c])
  /\ slack' = slack + cp[c].size /\ errors' = errors + 1
  /\ UNCHANGED <<clock, bw, day, week>>

(* TrafficExhausted, the test new streams meet. *)
Exhausted(d, w) == d >= DayCap \/ w >= WeekCap

(* A new stream takes an old one's place if the gate lets it in. *)
Admit(c) ==
  /\ cp[c].st \in {"dead", "ended"} /\ ~Exhausted(day, week)
  /\ cp' = [cp EXCEPT ![c] = Idle]
  /\ UNCHANGED <<clock, bw, day, week, dayOut, weekOut, slack, errors>>

TrafficNext ==
  \/ NextSecond
  \/ \E c \in Copiers :
       \/ Resume(c) \/ Teardown(c) \/ Admit(c)
       \/ \E size \in Chunks : Charge(c, size) \/ ChargeFails(c, size)

-----------------------------------------------------------------------------
(* The windows nest: the second's counter never exceeds the day's, nor the     *)
(* day's the week's, because one pipeline raises all of them and a longer      *)
(* window never starts inside a shorter one (chargeKeys).                      *)
TrafficTypeOK ==
  /\ clock \in 0..MaxTime /\ {bw, day, week} \subseteq Nat /\ bw <= day /\ day <= week
  /\ cp \in [Copiers -> [st : {"idle", "hold", "dead", "ended"}, size : Nat, at : 0..MaxTime,
                          until : Nat]]

(* Within a day and within a week no more than the cap is forwarded of what    *)
(* was charged to it, however many streams share the counter, but for what an  *)
(* error or a teardown lets through: a chunk that takes a window over its cap  *)
(* is dropped, or held until that window is past.                              *)
CapsHold == dayOut <= DayCap + slack /\ weekOut <= WeekCap + slack

(* A stream killed because a window is spent is not admitted again before that *)
(* window ends: the gate and the charge read the same counters.                *)
KilledStaysOut ==
  [][\A c \in Copiers :
       cp[c].st = "dead" /\ cp'[c].st = "idle" => clock >= cp[c].until]_tvars
=============================================================================
