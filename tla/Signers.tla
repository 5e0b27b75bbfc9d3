------------------------------ MODULE Signers -------------------------------
(***************************************************************************)
(* The allowlist of app signers (internal/attest/signers.go): a file that  *)
(* the operator edits at any time, and a watcher that reloads it when its  *)
(* modification time is not the one recorded.  One signer is followed.     *)
(***************************************************************************)
EXTENDS Focus, Integers

CONSTANTS
  Unread,        \* what a file says that is missing or does not parse
  MaxEdits       \* bound on the edits

ASSUME SignersAssumption == MaxEdits \in Nat

VARIABLES
  signerFile,    \* the file: its stamp and whether it lists the signer
  signers,       \* SignerAllowlist: its set and the stamp recorded for it
  reload         \* the watcher's tick: pc, the stamp and the content it read

gvars == <<signerFile, signers, reload>>

Resting == [pc |-> "rest", stamp |-> 0, says |-> FALSE]

(* LoadSignerAllowlist: a node does not start without a readable file. *)
SignersInit ==
  /\ signerFile = [stamp |-> 0, says |-> TRUE]
  /\ signers = [stamp |-> 0, says |-> TRUE]
  /\ reload = Resting

(* External: the operator edits the file; it may be gone for a while, or hold a
   line that does not parse. *)
Edit ==
  /\ signerFile.stamp < MaxEdits
  /\ signerFile' \in [stamp : {signerFile.stamp + 1}, says : BOOLEAN \cup {Unread}]
  /\ UNCHANGED <<signers, reload>>

(* Watch: the file's stamp is compared with the one recorded. *)
WatchSigners ==
  /\ reload.pc = "rest" /\ signerFile.stamp # signers.stamp
  /\ reload' = [reload EXCEPT !.pc = "stat"]
  /\ UNCHANGED <<signerFile, signers>>

(* reload looks at the stamp, then reads; a missing, unreadable or malformed file
   ends the reload and leaves what was loaded. *)
StatSigners ==
  /\ reload.pc = "stat"
  /\ reload' = [reload EXCEPT !.pc = "read", !.stamp = signerFile.stamp]
  /\ UNCHANGED <<signerFile, signers>>

ReadSigners ==
  /\ reload.pc = "read"
  /\ reload' = IF signerFile.says \in BOOLEAN
               THEN [reload EXCEPT !.pc = "store", !.says = signerFile.says]
               ELSE Resting
  /\ UNCHANGED <<signerFile, signers>>

(* Mutant: the stamp is looked at after the read. *)
StoreStamp ==
  /\ reload.pc = "store"
  /\ signers' = [stamp |-> signerFile.stamp, says |-> reload.says]
  /\ reload' = Resting
  /\ UNCHANGED signerFile

(* The set, and the stamp from before the read. *)
StoreSigners ==
  /\ reload.pc = "store"
  /\ signers' = [stamp |-> reload.stamp, says |-> reload.says]
  /\ reload' = Resting
  /\ UNCHANGED signerFile

SignerWatcher == WatchSigners \/ StatSigners \/ ReadSigners \/ StoreSigners

SignersNext == Edit \/ SignerWatcher

(* The watcher's ticker and its reads. *)
SignersFairness == WF_gvars(focus = "signers" /\ SignerWatcher)

-----------------------------------------------------------------------------
(* Type invariant. *)
SignersTypeOK ==
  /\ signerFile \in [stamp : 0..MaxEdits, says : BOOLEAN \cup {Unread}]
  /\ signers \in [stamp : 0..MaxEdits, says : BOOLEAN] /\ signers.stamp <= signerFile.stamp
  /\ reload \in [pc : {"rest", "stat", "read", "store"}, stamp : 0..MaxEdits, says : BOOLEAN]
  /\ reload.stamp <= signerFile.stamp

(* Once the signer file stays as it is and parses, its signers are the ones    *)
(* allowed: an edit during a reload is noticed by the next tick.               *)
SignersCurrent == signerFile.says \in BOOLEAN => signers.says = signerFile.says
=============================================================================
