----------------------------- MODULE ReceiptLog -----------------------------
(***************************************************************************)
(* backbone_receipts.jsonl as the threads of one backbone process write it *)
(* (append_receipt, _last_proof_root), over crashes and restarts.          *)
(*                                                                         *)
(* A line of the file is the pair of roots a reader sees in it.  A line    *)
(* that does not parse reads as Garbled: _last_proof_root answers the      *)
(* genesis root for it, and verify_receipts fails on it.  The proof root   *)
(* of a receipt (a SHA-256 over time, event and predecessor) is the number *)
(* of the append_receipt call that makes it: no two receipts share one.    *)
(*                                                                         *)
(* Assumed of the disk: what a successful fsync covered survives a crash;  *)
(* of what it did not cover, a crash keeps a prefix.  A line torn in the   *)
(* middle (a power loss, a short write on a full disk) costs one of        *)
(* MaxTears.                                                               *)
(***************************************************************************)
EXTENDS Naturals, Sequences, FiniteSets

CONSTANTS Thread,        \* main, heartbeat and mesh handler threads
          NoThread,      \* the lock's holder when it is free
          MaxAppends,    \* bound: calls of append_receipt
          MaxCrashes,    \* bound: crashes of the process or the machine
          MaxTears       \* bound: torn lines; 0 is a disk that never tears one

ASSUME ThreadAssumption == NoThread \notin Thread
ASSUME BoundsAssumption == /\ MaxAppends \in Nat
                           /\ MaxCrashes \in Nat
                           /\ MaxTears \in Nat

VARIABLES file,      \* the lines of RECEIPT_LOG
          sealed,    \* the last line ends with its newline
          synced,    \* how many lines fsync has covered
          lock,      \* holder of _RECEIPT_LOCK
          pc,        \* where each thread is in append_receipt
          rec,       \* the record each thread is building
          reported,  \* roots of the receipts whose append_receipt returned
          calls, crashes, tears   \* counters behind the bounds

vars == <<file, sealed, synced, lock, pc, rec, reported, calls, crashes, tears>>
counters == <<calls, crashes, tears>>

Genesis == 0
Roots == 1..MaxAppends
Line == [prev : 0..MaxAppends, root : 0..MaxAppends]
Garbled == [prev |-> Genesis, root |-> Genesis]
NoRecord == Garbled

(* _last_proof_root: an empty log and an unparsable last line both answer  *)
(* the genesis root.                                                       *)
Tip(f) == IF f = <<>> THEN Genesis ELSE f[Len(f)].root

(* Mode "a": the bytes land after the last byte of the file, so a line     *)
(* left without its newline swallows them and stops parsing.               *)
Put(line) == IF sealed THEN Append(file, line)
                       ELSE [file EXCEPT ![Len(file)] = Garbled]

TypeOK == /\ file \in Seq(Line)
          /\ sealed \in BOOLEAN
          /\ synced \in 0..Len(file)
          /\ lock \in Thread \cup {NoThread}
          /\ pc \in [Thread -> {"idle", "waiting", "locked", "linked",
                                "written", "synced", "reporting"}]
          /\ rec \in [Thread -> Line]
          /\ reported \subseteq Roots
          /\ calls \in 0..MaxAppends
          /\ crashes \in 0..MaxCrashes
          /\ tears \in 0..MaxTears

Init == /\ file = <<>> /\ sealed = TRUE /\ synced = 0
        /\ lock = NoThread
        /\ pc = [t \in Thread |-> "idle"]
        /\ rec = [t \in Thread |-> NoRecord]
        /\ reported = {}
        /\ calls = 0 /\ crashes = 0 /\ tears = 0

Goto(t, from, to) == pc[t] = from /\ pc' = [pc EXCEPT ![t] = to]

-----------------------------------------------------------------------------
(* The steps of append_receipt. *)

Call(t) == /\ calls < MaxAppends
           /\ Goto(t, "idle", "waiting")
           /\ calls' = calls + 1
           /\ rec' = [rec EXCEPT ![t] = [prev |-> Genesis, root |-> calls + 1]]
           /\ UNCHANGED <<file, sealed, synced, lock, reported, crashes, tears>>

(* Mutant: the tip is read and the line written without the lock. *)
AcquireUnlocked(t) == /\ Goto(t, "waiting", "locked")
                      /\ UNCHANGED <<file, sealed, synced, lock, rec, reported,
                                     counters>>

Acquire(t) == /\ lock = NoThread
              /\ Goto(t, "waiting", "locked")
              /\ lock' = t
              /\ UNCHANGED <<file, sealed, synced, rec, reported, counters>>

(* Mutant: the record links to the first line instead of the last. *)
ReadFirst(t) == /\ Goto(t, "locked", "linked")
                /\ rec' = [rec EXCEPT ![t].prev = IF file = <<>> THEN Genesis
                                                  ELSE file[1].root]
                /\ UNCHANGED <<file, sealed, synced, lock, reported, counters>>

ReadTip(t) == /\ Goto(t, "locked", "linked")
              /\ rec' = [rec EXCEPT ![t].prev = Tip(file)]
              /\ UNCHANGED <<file, sealed, synced, lock, reported, counters>>

(* Mutant: mode "w" instead of "a". *)
Overwrite(t) == /\ Goto(t, "linked", "written")
                /\ file' = <<rec[t]>>
                /\ sealed' = TRUE
                /\ UNCHANGED <<synced, lock, rec, reported, counters>>

Write(t) == /\ Goto(t, "linked", "written")
            /\ file' = Put(rec[t])
            /\ sealed' = TRUE
            /\ UNCHANGED <<synced, lock, rec, reported, counters>>

(* Mutant: no fsync before the lock is released. *)
NoFsync(t) == /\ Goto(t, "written", "synced")
              /\ UNCHANGED <<file, sealed, synced, lock, rec, reported, counters>>

Fsync(t) == /\ Goto(t, "written", "synced")
            /\ synced' = Len(file)
            /\ UNCHANGED <<file, sealed, lock, rec, reported, counters>>

Release(t) == /\ Goto(t, "synced", "reporting")
              /\ lock' = NoThread
              /\ UNCHANGED <<file, sealed, synced, rec, reported, counters>>

(* Mutant: the root returned is the previous one. *)
ReportPrevious(t) == /\ Goto(t, "reporting", "idle")
                     /\ reported' = reported \cup {rec[t].prev}
                     /\ UNCHANGED <<file, sealed, synced, lock, rec, counters>>

Report(t) == /\ Goto(t, "reporting", "idle")
             /\ reported' = reported \cup {rec[t].root}
             /\ UNCHANGED <<file, sealed, synced, lock, rec, counters>>

(* An OSError of the open, the write, the flush or the fsync leaves the    *)
(* with block: the lock is released and nothing is reported.  The line is  *)
(* absent, whole (the fsync failed), or torn after a short write: half a   *)
(* record, or a record without its newline.                                *)
Raise(t, from) == /\ Goto(t, from, "idle")
                  /\ lock' = NoThread
                  /\ UNCHANGED <<synced, rec, reported, calls, crashes>>

(* Mutant: acquire and release by hand, without try/finally. *)
FailsLocked(t) == /\ Goto(t, "linked", "idle")
                  /\ UNCHANGED <<file, sealed, synced, lock, rec, reported,
                                 counters>>

WriteFails(t) == /\ Raise(t, "linked")
                 /\ \/ UNCHANGED <<file, sealed, tears>>
                    \/ /\ tears < MaxTears
                       /\ \E part \in {Garbled, rec[t]} : file' = Put(part)
                       /\ sealed' = FALSE
                       /\ tears' = tears + 1

FsyncFails(t) == Raise(t, "written") /\ UNCHANGED <<file, sealed, tears>>

(* The process or the machine goes down and systemd starts it again: every *)
(* thread is gone, and so may be the end of the file behind the last fsync.*)
Crash == /\ crashes < MaxCrashes
         /\ crashes' = crashes + 1
         /\ \E k \in synced..Len(file) :
               \/ /\ file' = SubSeq(file, 1, k)
                  /\ sealed' = (k = Len(file) => sealed)
                  /\ UNCHANGED tears
               \/ /\ k < Len(file) /\ tears < MaxTears
                  /\ \E part \in {Garbled, file[k + 1]} :
                        file' = Append(SubSeq(file, 1, k), part)
                  /\ sealed' = FALSE
                  /\ tears' = tears + 1
         /\ lock' = NoThread
         /\ pc' = [t \in Thread |-> "idle"]
         /\ UNCHANGED <<synced, rec, reported, calls>>

Step(t) == \/ Acquire(t) \/ ReadTip(t) \/ Write(t) \/ Fsync(t)
           \/ Release(t) \/ Report(t) \/ WriteFails(t) \/ FsyncFails(t)

Next == Crash \/ \E t \in Thread : Call(t) \/ Step(t)

(* The operating system schedules every thread that is not blocked. *)
Fairness == \A t \in Thread : WF_vars(Step(t))

Spec == Init /\ [][Next]_vars
FairSpec == Spec /\ Fairness

-----------------------------------------------------------------------------
(* The chain as verify_receipts reads it: every line parses and links to   *)
(* the one before it, and neither RECEIPT_CHAIN_BREAK nor                  *)
(* RECEIPT_HASH_MISMATCH is raised.  Its refusals of an empty log, and of  *)
(* one that lacks the events of a whole session, are not about the chain,  *)
(* nor part of this.                                                       *)
Linked(f) ==
    \A i \in 1..Len(f) :
       f[i] # Garbled => f[i].prev = IF i = 1 THEN Genesis ELSE f[i - 1].root
ChainHolds(f) == Linked(f) /\ \A i \in 1..Len(f) : f[i] # Garbled

(* A line that an fsync covered is never changed, moved or dropped: not by *)
(* a later append that meets an unfinished line, not by a crash.           *)
SyncedLinesKept ==
    [][/\ synced <= Len(file')
       /\ \A i \in 1..synced : file'[i] = file[i]]_vars

(* No two threads, failed writes or crashes fork or break the proof chain, *)
(* and the damage of torn writes stays local: each tear garbles at most    *)
(* one line, and the chain resumes behind it from the genesis root.        *)
DamageContained ==
    /\ Linked(file)
    /\ Cardinality({i \in 1..Len(file) : file[i] = Garbled}) <= tears

(* A receipt reported to its caller may still be lost in a line that was   *)
(* torn before it: at most one receipt per tear, and to nothing else.      *)
LossBounded ==
    Cardinality({r \in reported : \A i \in 1..synced : file[i].root # r}) <= tears

(* No error path of append_receipt keeps the lock: the thread that holds   *)
(* it gives it back, so no failed write stops the other threads for good.  *)
LockReleased == \A t \in Thread : (lock = t) ~> (lock # t)

(* Up to the first torn line the log implements the proof chain. *)
Chain == INSTANCE ProofChain WITH Root <- Roots, chain <- file
ImplementsProofChain ==
    Chain!Init /\ [][tears' = 0 => [Chain!Next]_(Chain!vars)]_vars
=============================================================================
