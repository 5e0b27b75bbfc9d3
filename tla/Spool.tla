-------------------------------- MODULE Spool --------------------------------
(***************************************************************************)
(* The connection-log spool of one node (internal/store/spool.go): entries *)
(* go through a bounded queue to a writer goroutine, which appends them to *)
(* the active file; finished files are uploaded by a second goroutine and  *)
(* removed.  The process may die at any step, and a new one recovers the   *)
(* directory; flock keeps a second process out meanwhile.                  *)
(*                                                                         *)
(* A file is named by the number of its opening (in the code a timestamp   *)
(* later than the one before, and an id of the process).  A line takes two *)
(* units, a torn one takes one.  Windows end at any time.  The kick that   *)
(* wakes the uploader is left out: its ticker may fire at any time.        *)
(***************************************************************************)
EXTENDS Integers, Sequences, SequencesExt, FiniteSetsExt

CONSTANTS MaxEvents,    \* entries that are logged
          QueueCap,     \* spoolQueue
          MaxFile,      \* spoolMaxFile
          MaxBytes,     \* spoolMaxBytes
          MaxFaults,    \* file operations and uploads that fail
          MaxStarts     \* how often the process is started

ASSUME SpoolAssumption ==
  \A n \in {MaxEvents, QueueCap, MaxFile, MaxBytes, MaxFaults, MaxStarts} : n \in Nat

Events  == 1..MaxEvents
NoEvent == 0
Torn    == 0

(* An entry opens at most one file. *)
Files == 1..MaxEvents

VARIABLES
  logged,    \* how many entries have been logged, numbered in this order
  queue,     \* ConnLogSpool.events
  closed,    \* the queue is closed
  abandon,   \* ConnLogSpool.abandon
  wpc, hand, \* where the writer stands, and the entry it is appending
  active, wsize,      \* activeFile: the file (0: none) and its size
  spooled,   \* ConnLogSpool.spooled
  last,      \* the last file opened
  part, ready, text,  \* the directory: .part files, ready files, what they hold
  upc, todo, clean,   \* where the uploader stands in its pass
  final,     \* the uploader has seen stopUp
  objs,      \* the object store: what was uploaded under each file's key
  dpc,       \* the process: down, recovering, serving, and Drain's two waits
  rtodo,     \* files recoverSpool still has to look at
  stopUp, expired, upStop,  \* stopUp closed, Drain's context over, upCtx cancelled
  base,      \* history: the last file opened before this start
  dropped,   \* history: entries reported through onDrop
  lost,      \* history: entries a crash caught before they reached a file
  uncounted, \* history: files recoverSpool left out of spooled
  faults, starts

disk     == <<part, ready, text>>
writer   == <<wpc, hand, active, wsize, last>>
uploader == <<upc, todo, clean, final, objs>>
process  == <<dpc, rtodo, stopUp, expired, upStop, base, starts, uncounted>>
history  == <<dropped, lost>>
vars == <<logged, queue, closed, abandon, writer, spooled, disk, uploader, process,
          history, faults>>

Size(c) == 2 * Len(c) - Cardinality({k \in 1..Len(c) : c[k] = Torn})
Running == dpc \in {"serving", "writer", "uploader"}
Fault == faults > 0 /\ faults' = faults - 1

TypeOK ==
  /\ logged \in 0..MaxEvents
  /\ queue \in Seq(Events) /\ Len(queue) <= QueueCap
  /\ closed \in BOOLEAN /\ abandon \in BOOLEAN
  /\ wpc \in {"run", "append", "write", "rotate", "done"}
  /\ hand \in Events \cup {NoEvent}
  /\ active \in Files \cup {0} /\ wsize \in Nat
  /\ spooled \in Int /\ last \in Files \cup {0}
  /\ part \subseteq Files /\ ready \subseteq Files /\ part \cap ready = {}
  /\ text \in [Files -> Seq(Events \cup {Torn})]
  /\ upc \in {"idle", "put", "remove", "account", "exit"}
  /\ todo \subseteq Files /\ clean \in BOOLEAN /\ final \in BOOLEAN
  /\ objs \in [Files -> Seq(Events \cup {Torn})]
  /\ dpc \in {"down", "recover", "serving", "writer", "uploader"}
  /\ rtodo \subseteq Files /\ stopUp \in BOOLEAN /\ upStop \in BOOLEAN
  /\ expired \in BOOLEAN /\ uncounted \subseteq Files
  /\ base \in Files \cup {0} /\ dropped \subseteq Events /\ lost \subseteq Events
  /\ faults \in 0..MaxFaults /\ starts \in 0..MaxStarts

Init ==
  /\ logged = 0 /\ queue = << >> /\ closed = FALSE /\ abandon = FALSE
  /\ wpc = "run" /\ hand = NoEvent /\ active = 0 /\ wsize = 0
  /\ spooled = 0 /\ last = 0
  /\ part = {} /\ ready = {} /\ text = [f \in Files |-> << >>]
  /\ upc = "idle" /\ todo = {} /\ clean = TRUE /\ final = FALSE
  /\ objs = [f \in Files |-> << >>]
  /\ dpc = "down" /\ rtodo = {} /\ stopUp = FALSE /\ expired = FALSE /\ upStop = FALSE
  /\ base = 0 /\ uncounted = {}
  /\ dropped = {} /\ lost = {} /\ faults = MaxFaults /\ starts = 0

-----------------------------------------------------------------------------

(* PutConnLog: a full or closed queue drops the new entry. *)
Put ==
  /\ Running /\ logged < MaxEvents
  /\ logged' = logged + 1
  /\ \/ /\ closed \/ Len(queue) = QueueCap
        /\ dropped' = dropped \cup {logged + 1} /\ UNCHANGED queue
     \/ /\ ~closed /\ Len(queue) < QueueCap
        /\ queue' = Append(queue, logged + 1) /\ UNCHANGED dropped
  /\ UNCHANGED <<closed, abandon, writer, spooled, disk, uploader, process, lost, faults>>

-----------------------------------------------------------------------------
(* The writer *)

Drop(e) == dropped' = dropped \cup {e} /\ hand' = NoEvent /\ wpc' = "run"

Take ==
  /\ Running /\ wpc = "run" /\ queue # << >>
  /\ queue' = Tail(queue)
  /\ \/ abandon /\ Drop(Head(queue))
     \/ ~abandon /\ hand' = Head(queue) /\ wpc' = "append" /\ UNCHANGED dropped
  /\ UNCHANGED <<logged, closed, abandon, active, wsize, last, spooled, disk, uploader,
                 process, lost, faults>>

(* rotate: an empty file is removed, another one is marked ready; if that
   fails it keeps its name until the next start. *)
Rotate ==
  /\ \/ part' = part \ {active} /\ UNCHANGED faults
        /\ ready' = IF wsize = 0 THEN ready ELSE ready \cup {active}
     \/ Fault /\ UNCHANGED <<part, ready>>
  /\ active' = 0 /\ wsize' = 0
  /\ UNCHANGED <<text, last>>

(* The active file's window is over, seen by the tick or by append. *)
WindowEnds ==
  /\ Running /\ wpc \in {"run", "append"} /\ active # 0
  /\ Rotate
  /\ UNCHANGED <<logged, queue, closed, abandon, wpc, hand, spooled, uploader, process, history>>

CapReached == spooled + 2 > MaxBytes

DropAtCap ==
  /\ Running /\ wpc = "append" /\ CapReached
  /\ Drop(hand)
  /\ UNCHANGED <<logged, queue, closed, abandon, active, wsize, last, spooled, disk,
                 uploader, process, lost, faults>>

(* open: a name later than every one before, or the file cannot be created. *)
OpenFile ==
  /\ Running /\ wpc = "append" /\ ~CapReached /\ active = 0
  /\ \/ /\ last' = last + 1 /\ active' = last + 1 /\ wsize' = 0
        /\ part' = part \cup {last + 1}
        /\ wpc' = "write"
        /\ UNCHANGED <<hand, dropped, faults>>
     \/ Fault /\ Drop(hand) /\ UNCHANGED <<last, active, wsize, part>>
  /\ UNCHANGED <<logged, queue, closed, abandon, spooled, ready, text, uploader, process, lost>>

UseActive ==
  /\ Running /\ wpc = "append" /\ ~CapReached /\ active # 0
  /\ wpc' = "write"
  /\ UNCHANGED <<logged, queue, closed, abandon, hand, active, wsize, last, spooled, disk,
                 uploader, process, history, faults>>

Write ==
  /\ Running /\ wpc = "write"
  /\ text' = [text EXCEPT ![active] = Append(@, hand)]
  /\ wsize' = wsize + 2 /\ spooled' = spooled + 2
  /\ wpc' = IF wsize + 2 >= MaxFile THEN "rotate" ELSE "run"
  /\ hand' = NoEvent
  /\ UNCHANGED <<logged, queue, closed, abandon, active, last, part, ready, uploader,
                 process, history, faults>>

WriteFailsUncounted ==
  /\ Running /\ wpc = "write" /\ Fault
  /\ dropped' = dropped \cup {hand} /\ hand' = NoEvent
  /\ wpc' = "rotate" /\ wsize' = wsize + 1
  /\ text' = [text EXCEPT ![active] = Append(@, Torn)]
  /\ UNCHANGED <<logged, queue, closed, abandon, active, last, spooled, part, ready,
                 uploader, process, lost>>

(* A failed write that left nothing or a part of the line: truncated back,
   or, when that fails, counted and the file finished early. *)
WriteFails ==
  /\ Running /\ wpc = "write" /\ Fault
  /\ dropped' = dropped \cup {hand} /\ hand' = NoEvent
  /\ \/ wpc' = "run" /\ UNCHANGED <<text, wsize, spooled>>
     \/ /\ wpc' = "rotate"
        /\ \E n \in {0, 1} :
             /\ text' = IF n = 0 THEN text ELSE [text EXCEPT ![active] = Append(@, Torn)]
             /\ wsize' = wsize + n /\ spooled' = spooled + n
  /\ UNCHANGED <<logged, queue, closed, abandon, active, last, part, ready, uploader,
                 process, lost>>

RotateNow ==
  /\ Running /\ wpc = "rotate"
  /\ Rotate /\ wpc' = "run"
  /\ UNCHANGED <<logged, queue, closed, abandon, hand, spooled, uploader, process, history>>

(* The closed queue is empty: a last rotate, then writerDone. *)
WriterEnds ==
  /\ Running /\ wpc = "run" /\ closed /\ queue = << >>
  /\ wpc' = "done"
  /\ \/ active # 0 /\ Rotate
     \/ active = 0 /\ UNCHANGED <<part, ready, text, active, wsize, last, faults>>
  /\ UNCHANGED <<logged, queue, closed, abandon, hand, spooled, uploader, process, history>>

-----------------------------------------------------------------------------
(* The uploader *)

(* Mutant of EndPass: the last passes go on after upCtx is cancelled. *)
EndPassWhenClean(ok) == upc' = IF final /\ ok THEN "exit" ELSE "idle"

(* A pass ends: after stopUp the uploader returns when the pass was clean or
   upCtx is cancelled. *)
EndPass(ok) == upc' = IF final /\ (ok \/ upStop) THEN "exit" ELSE "idle"

(* Go on with the files of the pass that are left. *)
NextFile(left, ok) ==
  /\ todo' = left /\ clean' = ok
  /\ IF left = {} THEN EndPass(ok) ELSE upc' = "put"

(* readyFiles, on a kick or a tick, or in the loop after stopUp. *)
ListReady ==
  /\ Running /\ upc = "idle"
  /\ \/ NextFile(ready, TRUE) /\ UNCHANGED faults
     \/ Fault /\ NextFile({}, FALSE)
  /\ UNCHANGED <<logged, queue, closed, abandon, writer, spooled, disk, final, objs,
                 process, history>>

SeeStop ==
  /\ Running /\ upc = "idle" /\ stopUp /\ ~final
  /\ final' = TRUE
  /\ UNCHANGED <<logged, queue, closed, abandon, writer, spooled, disk, upc, todo, clean,
                 objs, process, history, faults>>

(* uploadFile, oldest file first: the object is stored. *)
Upload ==
  /\ Running /\ upc = "put"
  /\ objs' = [objs EXCEPT ![Min(todo)] = text[Min(todo)]]
  /\ upc' = "remove"
  /\ UNCHANGED <<logged, queue, closed, abandon, writer, spooled, disk, todo, clean, final,
                 process, history, faults>>

(* The upload fails, or upCtx is cancelled, before or after the object was
   stored, and the pass ends; or the file cannot be read and is passed over. *)
UploadFails ==
  /\ Running /\ upc = "put"
  /\ \/ /\ (upStop /\ UNCHANGED faults) \/ Fault
        /\ objs' \in {objs, [objs EXCEPT ![Min(todo)] = text[Min(todo)]]}
        /\ NextFile({}, FALSE)
     \/ Fault /\ NextFile(todo \ {Min(todo)}, FALSE) /\ UNCHANGED objs
  /\ UNCHANGED <<logged, queue, closed, abandon, writer, spooled, disk, final, process, history>>

RemoveFile ==
  /\ Running /\ upc = "remove"
  /\ \/ /\ ready' = ready \ {Min(todo)} /\ upc' = "account"
        /\ UNCHANGED <<todo, clean, faults>>
     \/ Fault /\ NextFile(todo \ {Min(todo)}, FALSE) /\ UNCHANGED ready
  /\ UNCHANGED <<logged, queue, closed, abandon, writer, spooled, part, text, final, objs,
                 process, history>>

Account ==
  /\ Running /\ upc = "account"
  /\ spooled' = spooled - Size(text[Min(todo)])
  /\ NextFile(todo \ {Min(todo)}, clean)
  /\ UNCHANGED <<logged, queue, closed, abandon, writer, disk, final, objs, process,
                 history, faults>>

-----------------------------------------------------------------------------
(* Drain *)

DrainStart ==
  /\ dpc = "serving" /\ dpc' = "writer"
  /\ closed' = TRUE
  /\ UNCHANGED <<logged, queue, abandon, writer, spooled, disk, uploader, rtodo, stopUp,
                 expired, upStop, base, starts, uncounted, history, faults>>

(* The context of Drain ends: upCancel runs in a goroutine of its own, and
   Drain, if it still waits for the writer, makes it drop what is queued. *)
DrainExpires ==
  /\ dpc \in {"writer", "uploader"} /\ ~expired
  /\ expired' = TRUE
  /\ UNCHANGED <<logged, queue, closed, abandon, writer, spooled, disk, uploader, dpc, rtodo,
                 stopUp, upStop, base, starts, uncounted, history, faults>>

CancelUploads ==
  /\ dpc \in {"writer", "uploader"} /\ expired /\ ~upStop
  /\ upStop' = TRUE
  /\ UNCHANGED <<logged, queue, closed, abandon, writer, spooled, disk, uploader, dpc, rtodo,
                 stopUp, expired, base, starts, uncounted, history, faults>>

AbandonQueue ==
  /\ dpc = "writer" /\ expired /\ ~abandon
  /\ abandon' = TRUE
  /\ UNCHANGED <<logged, queue, closed, writer, spooled, disk, uploader, process, history, faults>>

StopUploader ==
  /\ dpc = "writer" /\ wpc = "done" /\ dpc' = "uploader"
  /\ stopUp' = TRUE
  /\ UNCHANGED <<logged, queue, closed, abandon, writer, spooled, disk, uploader, rtodo,
                 expired, upStop, base, starts, uncounted, history, faults>>

DrainReturns ==
  /\ dpc = "uploader" /\ upc = "exit" /\ dpc' = "down"
  /\ UNCHANGED <<logged, queue, closed, abandon, writer, spooled, disk, uploader, rtodo,
                 stopUp, expired, upStop, base, starts, uncounted, history, faults>>

-----------------------------------------------------------------------------
(* Crash and start *)

(* The process dies; the line it was writing may be in the file, whole or
   torn.  What has not reached a file is gone. *)
Crash ==
  /\ dpc # "down" /\ starts < MaxStarts /\ dpc' = "down"
  /\ \E line \in {<< >>} \cup IF wpc = "write" THEN {<<hand>>, <<Torn>>} ELSE {} :
       /\ text' = IF line = << >> THEN text ELSE [text EXCEPT ![active] = @ \o line]
       /\ lost' = lost \cup Range(queue) \cup ({hand} \ ({NoEvent} \cup Range(line)))
  /\ queue' = << >> /\ hand' = NoEvent
  /\ UNCHANGED <<logged, closed, abandon, wpc, active, wsize, last, spooled, part, ready,
                 uploader, rtodo, stopUp, expired, upStop, base, starts, uncounted, dropped,
                 faults>>

(* NewConnLogSpool: it gives up when it cannot list the directory. *)
Start ==
  /\ dpc = "down" /\ starts < MaxStarts
  /\ \/ dpc' = "recover" /\ UNCHANGED faults
     \/ dpc' = "down" /\ Fault
  /\ starts' = starts + 1
  /\ closed' = FALSE /\ abandon' = FALSE
  /\ wpc' = "run" /\ active' = 0 /\ wsize' = 0
  /\ spooled' = 0 /\ base' = last /\ uncounted' = {}
  /\ upc' = "idle" /\ todo' = {} /\ clean' = TRUE /\ final' = FALSE
  /\ rtodo' = part \cup ready
  /\ stopUp' = FALSE /\ expired' = FALSE /\ upStop' = FALSE
  /\ UNCHANGED <<logged, queue, hand, last, disk, objs, history>>

(* What recoverPart keeps: everything up to the last whole line. *)
Kept(c) == IF c # << >> /\ Last(c) = Torn THEN Front(c) ELSE c

(* Mutant of RecoverPart: a file that ends in a torn line is removed whole. *)
RecoverDropsTorn(f) ==
  \/ /\ Kept(text[f]) # text[f] \/ text[f] = << >>
     /\ part' = part \ {f} /\ UNCHANGED <<ready, text, spooled, faults>>
  \/ /\ Kept(text[f]) = text[f] /\ text[f] # << >>
     /\ part' = part \ {f} /\ ready' = ready \cup {f}
     /\ spooled' = spooled + Size(text[f]) /\ UNCHANGED <<text, faults>>

(* recoverPart: nothing left to keep is removed, otherwise the file is
   truncated and marked ready; what fails is tried again at the next start,
   truncated or not. *)
RecoverPart(f) ==
  \/ /\ Kept(text[f]) = << >> /\ part' = part \ {f}
     /\ UNCHANGED <<ready, text, spooled, faults>>
  \/ /\ Kept(text[f]) # << >>
     /\ text' = [text EXCEPT ![f] = Kept(@)]
     /\ part' = part \ {f} /\ ready' = ready \cup {f}
     /\ spooled' = spooled + Size(Kept(text[f])) /\ UNCHANGED faults
  \/ /\ Fault
     /\ text' \in {text, IF Kept(text[f]) = << >> THEN text ELSE [text EXCEPT ![f] = Kept(@)]}
     /\ UNCHANGED <<part, ready, spooled>>

(* A ready file is counted, unless its size cannot be read. *)
CountReady(f) ==
  \/ spooled' = spooled + Size(text[f]) /\ UNCHANGED <<uncounted, faults>>
  \/ Fault /\ uncounted' = uncounted \cup {f} /\ UNCHANGED spooled

RecoverFile(f) ==
  /\ dpc = "recover" /\ f \in rtodo
  /\ rtodo' = rtodo \ {f}
  /\ \/ f \in part /\ RecoverPart(f) /\ UNCHANGED uncounted
     \/ f \in ready /\ CountReady(f) /\ UNCHANGED disk
  /\ UNCHANGED <<logged, queue, closed, abandon, writer, uploader, dpc, stopUp, expired,
                 upStop, base, starts, history>>

Serve ==
  /\ dpc = "recover" /\ rtodo = {} /\ dpc' = "serving"
  /\ UNCHANGED <<logged, queue, closed, abandon, writer, spooled, disk, uploader, rtodo,
                 stopUp, expired, upStop, base, starts, uncounted, history, faults>>

-----------------------------------------------------------------------------
Writer == \/ Take \/ DropAtCap \/ OpenFile \/ UseActive \/ Write \/ WriteFails
          \/ RotateNow \/ WriterEnds

Uploader == ListReady \/ SeeStop \/ Upload \/ UploadFails \/ RemoveFile \/ Account

Drain == CancelUploads \/ AbandonQueue \/ StopUploader \/ DrainReturns

Recovery == Serve \/ \E f \in Files : RecoverFile(f)

Next == \/ Put \/ Writer \/ WindowEnds \/ Uploader \/ DrainStart \/ DrainExpires \/ Drain
        \/ Crash \/ Start \/ Recovery

Spec == Init /\ [][Next]_vars

(* The goroutines run, windows end, Drain's context ends and the process is
   started again; SF on SeeStop is Go's random choice among ready cases. *)
LiveSpec ==
  /\ Spec
  /\ WF_vars(Writer) /\ WF_vars(WindowEnds) /\ WF_vars(Uploader) /\ SF_vars(SeeStop)
  /\ WF_vars(DrainExpires) /\ WF_vars(Drain) /\ WF_vars(Start) /\ WF_vars(Recovery)

-----------------------------------------------------------------------------
OnDisk == part \cup ready

(* The files that hold, or held when they were uploaded, entry e. *)
Places(e) == {f \in Files : e \in Range(objs[f]) \/ (f \in OnDisk /\ e \in Range(text[f]))}

(* The log loses only what it reports, and reports only what it loses: every
   entry is still on its way, in exactly one file or object, reported as
   dropped, or was caught by a crash before it reached a file.  What a file
   holds survives crashes, restarts and failing operations. *)
EveryEntryAccounted ==
  \A e \in 1..logged :
    IF e \in dropped \cup lost THEN Places(e) = {}
    ELSE \/ e \in Range(queue) \cup {hand} /\ Places(e) = {}
         \/ Cardinality(Places(e)) = 1

(* A partial line never sits in the middle of a file, and a finished file is
   not empty. *)
TornOnlyLast ==
  \A f \in Files :
    /\ \A k \in 1..Len(text[f]) - 1 : text[f][k] # Torn
    /\ f \in ready => text[f] # << >>

Bytes(fs) == MapThenSumSet(LAMBDA f : Size(text[f]), fs)

(* What spooled is about: the ready files and the files this process has
   written, up to the file just removed. *)
Counted == ready \cup {f \in part : f > base}
             \cup (IF upc = "account" THEN {Min(todo)} ELSE {})

(* The byte count that decides when entries are dropped follows the directory
   through every failure of append, rotate and the uploader; it is off by the
   files whose size recoverSpool could not read, and by nothing else. *)
SpooledExact == Running => spooled = Bytes(Counted) - Bytes(uncounted)

(* spool.go:243 says of such a file that "it is still uploaded but not counted
   toward the directory size limit": the count is that of the other files. *)
UncountedOnlyLeftOut == Running => spooled = Bytes(Counted \ uncounted)

(* A Drain that returns before its uploads are cancelled leaves no finished
   file behind. *)
DrainDelivers ==
  [][DrainReturns /\ ~upStop => ready = {}]_vars

Stored(e)   == \E f \in Files : e \in Range(objs[f])
Stranded(e) == \E f \in part \ {active} : e \in Range(text[f])

(* In the end the process is down, so that no Drain hangs, or it serves, no
   finished file is left, and every entry was uploaded or reported as dropped,
   but for those that a crash caught and those whose file could not be renamed. *)
EntriesGetOut ==
  <>[](\/ dpc = "down"
       \/ /\ dpc = "serving" /\ ready = {}
          /\ \A e \in 1..logged : e \in dropped \cup lost \/ Stored(e) \/ Stranded(e))
=============================================================================
