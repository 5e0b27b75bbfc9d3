----------------------------- MODULE BanWatch ------------------------------
(***************************************************************************)
(* The hot reload of the ban files (internal/ban/watch.go, engine.go) and  *)
(* what it does to the phones of a banned tunnel                           *)
(* (internal/phoneconn/manager.go EvictBanned).  There is one ban file,    *)
(* which may ban the tunnel and a country, and the country database the    *)
(* country is looked up in.  Another program writes both, in any order and *)
(* in the middle of a reload; every write changes the file's stamp (its    *)
(* modification time and size).                                            *)
(***************************************************************************)
EXTENDS Focus, Integers

CONSTANTS
  Phones,       \* connections of the tunnel's phone
  MaxWrites,    \* bound on the writes to the files
  MaxBanFaults  \* bound on failed reads

VARIABLES
  file,      \* the files: stamp (0 when missing) and what they say
  writes,    \* stamps handed out
  live,      \* Engine.current: what is banned
  lastLoad,  \* watcher.last: the stamps of the last load; NoLoad before one
  wt,        \* the watcher's tick: pc, the two sets of stamps, tries, snapshot
  ph,        \* the phone's connections
  banFaults,
  cut        \* history: the files when the stamps were complete

bvars == <<file, writes, live, lastLoad, wt, ph, banFaults, cut>>

Paths == {"bans", "csv"}
NoLoad == [p \in Paths |-> -1]
Missing == [stamp |-> 0, says |-> "nothing"]
NotSeen == [p \in Paths |-> 0]
Nothing == [names |-> FALSE, country |-> FALSE]

AtRest == [pc |-> "idle", booting |-> FALSE, cur |-> NoLoad, after |-> NoLoad, tries |-> 0, snap |-> Nothing]
NoCut == [p \in Paths |-> Missing]

(* What each file can say: bans or none; country ranges, or no readable row. *)
Says(p) == IF p = "bans" THEN {"bans", "none"} ELSE {"rows", "bad"}

(* Initial's load is the first tick's without its tests; booting marks it. *)
BanWatchInit ==
  /\ file = [p \in Paths |-> Missing] /\ writes = 0
  /\ live = Nothing /\ lastLoad = NoLoad
  /\ wt = [AtRest EXCEPT !.pc = "stat", !.booting = TRUE]
  /\ ph = [c \in Phones |-> "down"]
  /\ banFaults = 0 /\ cut = NoCut

(* External: a file is written, replaced or deleted. *)
Write(p) ==
  /\ writes < MaxWrites /\ writes' = writes + 1
  /\ \E f \in {Missing} \cup [stamp : {writes + 1}, says : Says(p)] :
       f # file[p] /\ file' = [file EXCEPT ![p] = f]
  /\ UNCHANGED <<live, lastLoad, wt, ph, banFaults, cut>>

BanFault == banFaults < MaxBanFaults /\ banFaults' = banFaults + 1
OnlyTick == UNCHANGED <<file, writes, ph, live>>

(* required: the files that existed at the last successful load. *)
Required == {p \in Paths : lastLoad[p] > 0}

(* vanished, on a complete set of stamps. *)
Vanished(stamps) == \E p \in Required : stamps[p] = 0

(* statePath: a file that cannot be looked at counts as missing. *)
Stat(p, s) ==
  \/ s = file[p].stamp /\ UNCHANGED banFaults
  \/ s = 0 /\ file[p].stamp # 0 /\ BanFault

(* The ticker. *)
BanTick ==
  /\ wt.pc = "idle"
  /\ wt' = [wt EXCEPT !.pc = "stat"]
  /\ OnlyTick /\ UNCHANGED <<lastLoad, banFaults, cut>>

(* fingerprint before the load: the files are looked at one after the other. *)
StatBans ==
  /\ wt.pc = "stat"
  /\ \E s \in {0, file["bans"].stamp} :
       /\ Stat("bans", s)
       /\ wt' = [wt EXCEPT !.pc = "statcsv", !.cur = [NotSeen EXCEPT !["bans"] = s]]
  /\ OnlyTick /\ UNCHANGED <<lastLoad, cut>>

(* A tick ends here if nothing changed since the last load, or if a file that
   was loaded is gone. *)
StatCSV ==
  /\ wt.pc = "statcsv"
  /\ \E s \in {0, file["csv"].stamp} :
       LET cur == [wt.cur EXCEPT !["csv"] = s]
       IN /\ Stat("csv", s)
          /\ IF cur = lastLoad \/ Vanished(cur)
             THEN wt' = AtRest /\ UNCHANGED cut
             ELSE wt' = [wt EXCEPT !.cur = cur, !.tries = 3, !.pc = "read"] /\ cut' = file
  /\ OnlyTick /\ UNCHANGED lastLoad

(* A load that fails leaves the bans and the baseline as they are; the next tick
   tries again. *)
GiveUp == wt' = AtRest /\ cut' = NoCut /\ UNCHANGED lastLoad

(* build, the ban file: a missing one bans nothing, unless it is required. *)
ReadBans ==
  /\ wt.pc = "read"
  /\ LET b == file["bans"].says = "bans"
     IN \/ BanFault /\ GiveUp
        \/ /\ UNCHANGED banFaults
           /\ IF file["bans"].stamp = 0 /\ "bans" \in Required
              THEN GiveUp
              ELSE /\ wt' = [wt EXCEPT !.snap = [Nothing EXCEPT !.names = b],
                                       !.pc = IF b THEN "readcsv" ELSE "again"]
                   /\ UNCHANGED <<lastLoad, cut>>
  /\ OnlyTick

(* build, the country database, read only for a country ban: a missing one drops
   the country unless it is required, and an unreadable one fails the build. *)
ReadCSV ==
  /\ wt.pc = "readcsv"
  /\ IF file["csv"].says = "bad" \/ (file["csv"].stamp = 0 /\ "csv" \in Required)
     THEN GiveUp
     ELSE /\ wt' = [wt EXCEPT !.snap.country = file["csv"].says = "rows", !.pc = "again"]
          /\ UNCHANGED <<lastLoad, cut>>
  /\ OnlyTick /\ UNCHANGED banFaults

(* commit: the snapshot goes live and the stamps become the baseline. *)
Commit ==
  /\ live' = wt.snap
  /\ lastLoad' = wt.cur

(* Initial commits what it read. *)
LoadInitial ==
  /\ wt.pc = "again" /\ wt.booting
  /\ Commit
  /\ wt' = AtRest /\ cut' = NoCut
  /\ UNCHANGED <<file, writes, ph, banFaults>>

(* fingerprint after the build, in a tick. *)
AgainBans ==
  /\ wt.pc = "again" /\ ~wt.booting
  /\ \E s \in {0, file["bans"].stamp} :
       /\ Stat("bans", s)
       /\ wt' = [wt EXCEPT !.pc = "againcsv", !.after = [NotSeen EXCEPT !["bans"] = s]]
  /\ OnlyTick /\ UNCHANGED <<lastLoad, cut>>

(* Mutant: the second look is taken for the first. *)
StableAlways(after) == TRUE

(* sameStates(cur, after). *)
Stable(after) == wt.cur = after

(* The end of the second look: a file that was loaded is gone; the stamps are the
   same, commit and reload; or build again, three times at most. *)
AgainCSV ==
  /\ wt.pc = "againcsv"
  /\ \E s \in {0, file["csv"].stamp} :
       LET after == [wt.after EXCEPT !["csv"] = s]
       IN /\ Stat("csv", s)
          /\ \/ /\ Vanished(after)
                /\ wt' = AtRest /\ cut' = NoCut
                /\ UNCHANGED <<live, lastLoad>>
             \/ /\ ~Vanished(after) /\ Stable(after)
                /\ Commit
                /\ wt' = [AtRest EXCEPT !.pc = "evict"] /\ cut' = NoCut
             \/ /\ ~Vanished(after) /\ ~Stable(after)
                /\ IF wt.tries = 1
                   THEN wt' = AtRest /\ cut' = NoCut
                   ELSE /\ wt' = [wt EXCEPT !.pc = "read", !.cur = after, !.tries = @ - 1,
                                            !.after = NoLoad, !.snap = Nothing]
                        /\ cut' = file
                /\ UNCHANGED <<live, lastLoad>>
  /\ UNCHANGED <<file, writes, ph>>

(* onReload, EvictBanned: close every registered connection of a banned tunnel. *)
Evict ==
  /\ wt.pc = "evict"
  /\ wt' = AtRest
  /\ ph' = [c \in Phones |-> IF live.names /\ ph[c] \in {"up", "late"} THEN "down" ELSE ph[c]]
  /\ UNCHANGED <<file, writes, live, lastLoad, banFaults, cut>>

(* ServeHTTP: the tunnel's name is matched when the phone connects... *)
Connect(c) ==
  /\ ph[c] = "down" /\ ~wt.booting
  /\ ~live.names
  /\ ph' = [ph EXCEPT ![c] = "checked"]
  /\ UNCHANGED <<file, writes, live, lastLoad, wt, banFaults, cut>>

(* ...and the connection is registered later.  "late" marks one registered after
   the reload that bans it has closed the others. *)
Register(c) ==
  /\ ph[c] = "checked"
  /\ ph' = [ph EXCEPT ![c] = IF live.names /\ wt.pc # "evict" THEN "late" ELSE "up"]
  /\ UNCHANGED <<file, writes, live, lastLoad, wt, banFaults, cut>>

BanWatcher ==
  \/ BanTick \/ StatBans \/ StatCSV \/ ReadBans \/ ReadCSV \/ LoadInitial
  \/ AgainBans \/ AgainCSV \/ Evict

BanWatchNext ==
  \/ BanWatcher
  \/ \E p \in Paths : Write(p)
  \/ \E c \in Phones : Connect(c) \/ Register(c)

(* The ticker ticks and reads return. *)
BanWatchFairness == WF_bvars(focus = "ban" /\ BanWatcher)

-----------------------------------------------------------------------------
(* The bans that files with these contents amount to. *)
BansOf(f) == [names |-> f["bans"].says = "bans",
              country |-> f["bans"].says = "bans" /\ f["csv"].says = "rows"]

Contents == [Paths -> [stamp : Nat, says : {"nothing", "bans", "none", "rows", "bad"}]]
Ticks == [pc : {"idle", "stat", "statcsv", "read", "readcsv", "again", "againcsv", "evict"},
          booting : BOOLEAN, cur : [Paths -> Int], after : [Paths -> Int], tries : Int,
          snap : [names : BOOLEAN, country : BOOLEAN]]

(* Type invariant. *)
BanWatchTypeOK ==
  /\ file \in Contents /\ cut \in Contents /\ writes \in Nat /\ banFaults \in Nat
  /\ live \in [names : BOOLEAN, country : BOOLEAN] /\ lastLoad \in [Paths -> Int] /\ wt \in Ticks
  /\ ph \in [Phones -> {"down", "checked", "up", "late"}]

(* A reload puts the bans of the files at one instant in force: it never mixes *)
(* one file from before another program's change with the other from after it. *)
(* The startup load has no such test; the first tick makes up for it.  A file  *)
(* that comes and goes within one load has no stamp to tell it by.             *)
BansOfOneInstant ==
  [][~wt.booting /\ live' # live /\ wt.cur["bans"] > 0 =>
       /\ live'.names = BansOf(cut).names
       /\ wt.cur["csv"] > 0 => live' = BansOf(cut)]_bvars

(* A deleted file lifts no ban: a file that was there at the last load must    *)
(* be there to lift one, however the deletion falls into the reload.           *)
DeletionLiftsNothing ==
  [][/\ live.names /\ ~live'.names /\ lastLoad["bans"] > 0 => cut["bans"].stamp > 0
     /\ live.country /\ ~live'.country /\ lastLoad["csv"] > 0
          => cut["bans"].says = "none" \/ cut["csv"].stamp > 0]_bvars

(* Once both files are there, stay as they are and can be read, the bans in    *)
(* force become theirs, also after failed loads.                               *)
BansCurrent ==
  \/ \E p \in Paths : file[p].stamp = 0
  \/ file["bans"].says = "bans" /\ file["csv"].says = "bad"
  \/ live = BansOf(file)

(* A reload that bans a tunnel closes the connections its phone had then.      *)
BannedPhonesLeft == live.names => \A c \in Phones : ph[c] # "up"
=============================================================================
