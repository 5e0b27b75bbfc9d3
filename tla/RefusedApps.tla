---------------------------- MODULE RefusedApps ----------------------------
(***************************************************************************)
(* The daily report of refused enrolments (infra/refused-apps).  Every     *)
(* node has a timer at its own time of the day; the first run of the day   *)
(* that succeeds sends the new attempts to a chat and files them in a      *)
(* permanent list in the records, so that later runs leave them alone.  No  *)
(* lock: the timers are half an hour apart and a run is killed after two   *)
(* minutes, so runs follow each other (install.sh, the service unit).      *)
(* A killed run is a run whose call in flight fails.                       *)
(***************************************************************************)
EXTENDS Focus, Integers, Sequences, FiniteSets, SequencesExt, FiniteSetsExt

CONSTANTS
  Refusals,      \* refused attempts, numbered by time, as their keys are ordered
  AppOf, SrcOf,  \* an attempt's app (with its signing key and version) and address
  HiddenApps,    \* apps left out of messages and dashboards
  Reporters,     \* nodes with the timer
  Retention,     \* days a refusal record stays in the bucket
  MaxDay,        \* bound on the days
  MaxJobFaults,  \* bound on the calls that fail
  HeadBlocks, HeadRunes, RowRunes,  \* what a table's head and a row take of a message
  IntroRunes, RoomRunes,            \* what the lead takes, and what every message leaves free
  LimBlocks, LimRunes               \* a message's limits

ASSUME RefusedAppsAssumption ==
  /\ Refusals \subseteq Nat /\ IsFiniteSet(Refusals)
  /\ {Retention, MaxDay, MaxJobFaults, HeadBlocks, HeadRunes, RowRunes, IntroRunes,
      RoomRunes, LimBlocks, LimRunes} \subseteq Nat

VARIABLES
  today,     \* the day
  due,       \* nodes whose timer has not fired today
  stored,    \* attempt -> the day its record was stored, 0 before
  records,   \* attempts whose record is in the bucket
  filed,     \* the list in the bucket: day of the last report, attempts
  job,       \* the run: pc, node, its copy of the list, keys to read, new attempts, messages, next message
  told,      \* history: messages that showed an attempt
  torn,      \* history: runs that sent a message and did not save the list
  dash,      \* node -> attempts in its dashboard file
  jfaults

jvars == <<today, due, stored, records, filed, job, told, torn, dash, jfaults>>

NoJob == [pc |-> "rest", node |-> {}, list |-> {}, keys |-> {}, fresh |-> {}, msgs |-> <<>>, next |-> 1]

RefusedAppsInit ==
  /\ today = 1 /\ due = Reporters
  /\ stored = [a \in Refusals |-> 0] /\ records = {}
  /\ filed = [last |-> 0, list |-> {}]
  /\ job = NoJob
  /\ told = [a \in Refusals |-> 0] /\ torn = 0
  /\ dash = [n \in Reporters |-> {}]
  /\ jfaults = 0

-----------------------------------------------------------------------------
(* The report's rows: one per day, app and address (groupByDay), a table per  *)
(* app, the tables in the order their apps first appear (byApp).              *)
Visible(list) == {a \in list : AppOf[a] \notin HiddenApps}

RowKey(a) == <<stored[a], AppOf[a], SrcOf[a]>>

Earlier(k, l) ==
  \/ k[1] < l[1]
  \/ k[1] = l[1] /\ k[2] < l[2]
  \/ k[1] = l[1] /\ k[2] = l[2] /\ k[3] < l[3]

Rows(fresh) ==
  LET keys == {RowKey(a) : a \in fresh}
      firstDay(k) == Min({l[1] : l \in {m \in keys : m[2] = k[2]}})
  IN SetToSortSeq(keys, LAMBDA k, l : IF k[2] = l[2] THEN Earlier(k, l)
                                     ELSE Earlier(<<firstDay(k), k[2], 0>>, <<firstDay(l), l[2], 0>>))

NewMessage(first) ==
  [rows |-> <<>>, blocks |-> 1, runes |-> RoomRunes + (IF first THEN IntroRunes ELSE 0)]

(* The message with a row more: under the app's table, or under a new head. *)
PutRow(msg, row) ==
  LET open == msg.rows # <<>> /\ Last(msg.rows)[2] = row[2]
  IN [rows |-> Append(msg.rows, row),
      blocks |-> msg.blocks + 1 + (IF open THEN 0 ELSE HeadBlocks),
      runes |-> msg.runes + RowRunes + (IF open THEN 0 ELSE HeadRunes)]

Within(msg) == msg.blocks <= LimBlocks /\ msg.runes <= LimRunes


(* pack, a row at a time: into the message if it fits or the message is empty, *)
(* else into a new one, where its table starts again.                          *)
PackRow(msgs, row) ==
  LET cur == Last(msgs)
      fits == Within(PutRow(cur, row)) \/ cur.rows = <<>>
  IN IF fits THEN Append(Front(msgs), PutRow(cur, row))
             ELSE Append(msgs, PutRow(NewMessage(FALSE), row))

Pack(rows) == FoldLeft(PackRow, <<NewMessage(TRUE)>>, rows)

-----------------------------------------------------------------------------
(* The world: an attempt is refused and its record stored (the enrolment      *)
(* handler); the bucket deletes old records; a day ends.                      *)
RecordStored(a) ==
  /\ stored[a] = 0 /\ \A b \in Refusals : b < a => stored[b] > 0
  /\ stored' = [stored EXCEPT ![a] = today]
  /\ records' = records \cup {a}
  /\ UNCHANGED <<today, due, filed, job, told, torn, dash, jfaults>>

RecordDeleted(a) ==
  /\ a \in records /\ stored[a] + Retention <= today
  /\ records' = records \ {a}
  /\ UNCHANGED <<today, due, stored, filed, job, told, torn, dash, jfaults>>

NextDay ==
  /\ job.pc = "rest" /\ today < MaxDay
  /\ today' = today + 1 /\ due' = Reporters
  /\ UNCHANGED <<stored, records, filed, job, told, torn, dash, jfaults>>

-----------------------------------------------------------------------------
(* A node's timer fires. *)
StartReport(n) ==
  /\ job.pc = "rest" /\ n \in due
  /\ due' = due \ {n}
  /\ job' = [NoJob EXCEPT !.pc = "load", !.node = {n}]
  /\ UNCHANGED <<today, stored, records, filed, told, torn, dash, jfaults>>

(* Load the list; today's report may be out already. *)
LoadList ==
  /\ job.pc = "load"
  /\ job' = IF filed.last = today THEN NoJob
            ELSE [job EXCEPT !.pc = "list", !.list = filed.list]
  /\ UNCHANGED <<today, due, stored, records, filed, told, torn, dash, jfaults>>

(* The revocation list, then the keys of the refusal records. *)
ListRecords ==
  /\ job.pc = "list"
  /\ job' = [job EXCEPT !.pc = "read", !.keys = records]
  /\ UNCHANGED <<today, due, stored, records, filed, told, torn, dash, jfaults>>

(* One record: gone since, known, or new; a hidden app's is kept and not shown. *)
ReadRecord ==
  /\ job.pc = "read" /\ job.keys # {}
  /\ LET a == Min(job.keys)
         new == a \in records /\ a \notin job.list
     IN job' = [job EXCEPT !.keys = @ \ {a},
                           !.list = IF new THEN @ \cup {a} ELSE @,
                           !.fresh = IF new THEN @ \cup Visible({a}) ELSE @]
  /\ UNCHANGED <<today, due, stored, records, filed, told, torn, dash, jfaults>>

Compose ==
  /\ job.pc = "read" /\ job.keys = {}
  /\ job' = [job EXCEPT !.pc = "send", !.msgs = Pack(Rows(job.fresh))]
  /\ UNCHANGED <<today, due, stored, records, filed, told, torn, dash, jfaults>>

Shows(a) == RowKey(a) \in ToSet(job.msgs[job.next].rows)

Tell == told' = [a \in Refusals |-> told[a] + IF a \in job.fresh /\ Shows(a) THEN 1 ELSE 0]

(* The next message.  An answer that asks to wait sent nothing, and Send tries *)
(* again: no step.                                                             *)
SendPart ==
  /\ job.pc = "send" /\ job.next <= Len(job.msgs)
  /\ Tell
  /\ job' = [job EXCEPT !.next = @ + 1]
  /\ UNCHANGED <<today, due, stored, records, filed, torn, dash, jfaults>>

(* After the last message: the list is saved, with the day... *)
SaveList ==
  /\ job.pc = "send" /\ job.next > Len(job.msgs)
  /\ filed' = [last |-> today, list |-> job.list]
  /\ job' = [job EXCEPT !.pc = "file"]
  /\ UNCHANGED <<today, due, stored, records, told, torn, dash, jfaults>>

(* ...then the dashboard file is replaced. *)
WriteDashboard ==
  /\ job.pc = "file"
  /\ dash' = [n \in Reporters |-> IF n \in job.node THEN Visible(job.list) ELSE dash[n]]
  /\ job' = NoJob
  /\ UNCHANGED <<today, due, stored, records, filed, told, torn, jfaults>>

(* Mutant: the report is saved although a message could not be sent. *)
CallFailsSaves ==
  /\ job.pc # "rest" /\ jfaults < MaxJobFaults
  /\ jfaults' = jfaults + 1
  /\ job' = NoJob
  /\ filed' = IF job.pc = "send" THEN [last |-> today, list |-> job.list] ELSE filed
  /\ UNCHANGED <<today, due, stored, records, told, torn, dash>>

(* The call in flight fails, or the run is killed: the run ends, says so in    *)
(* the chat, and leaves the rest to the next run.  A message or the list may   *)
(* have gone through all the same; a file that was not renamed is removed.     *)
CallFails ==
  /\ job.pc # "rest" /\ jfaults < MaxJobFaults
  /\ jfaults' = jfaults + 1
  /\ job' = NoJob
  /\ \/ UNCHANGED <<filed, told>>
        /\ torn' = torn + IF job.pc = "send" /\ job.next > 1 THEN 1 ELSE 0
     \/ /\ job.pc = "send" /\ job.next <= Len(job.msgs)
        /\ Tell /\ torn' = torn + 1 /\ UNCHANGED filed
     \/ /\ job.pc = "send" /\ job.next > Len(job.msgs)
        /\ filed' = [last |-> today, list |-> job.list]
        /\ UNCHANGED <<told, torn>>
  /\ UNCHANGED <<today, due, stored, records, dash>>

RefusedAppsNext ==
  \/ \E a \in Refusals : RecordStored(a) \/ RecordDeleted(a)
  \/ NextDay
  \/ \E n \in Reporters : StartReport(n)
  \/ LoadList \/ ListRecords \/ ReadRecord \/ Compose \/ SendPart \/ SaveList \/ WriteDashboard
  \/ CallFails

-----------------------------------------------------------------------------
(* Type invariant. *)
RefusedAppsTypeOK ==
  /\ today \in 1..MaxDay /\ due \subseteq Reporters
  /\ stored \in [Refusals -> 0..MaxDay] /\ records \subseteq Refusals
  /\ filed.last \in 0..today /\ filed.list \subseteq Refusals
  /\ job.pc \in {"rest", "load", "list", "read", "send", "file"}
  /\ job.fresh \subseteq job.list
  /\ job.next \in 1..(Len(job.msgs) + 1)

(* No attempt is filed unseen: what the saved list holds, so that no later run *)
(* reports it, was shown in a message that arrived, or its app is hidden.      *)
FiledWereTold == \A a \in Visible(filed.list) : told[a] >= 1

(* An attempt is shown again only by a run after one that sent messages and    *)
(* could not save the list.                                                    *)
ToldAgainOnlyAfterTorn == \A a \in Refusals : told[a] <= 1 + torn

(* A report leaves nothing behind: a record stored on an earlier day than the  *)
(* last report's is in the list, whatever run failed on the way.               *)
NothingSkipped == \A a \in records : stored[a] < filed.last => a \in filed.list

(* A dashboard shows attempts of the saved list only, and no hidden app: it is *)
(* written after the list is.                                                  *)
DashboardsFollow == \A n \in Reporters : dash[n] \subseteq Visible(filed.list)

Tables(rows) == {r[2] : r \in ToSet(rows)}

=============================================================================
