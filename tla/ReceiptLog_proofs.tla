-------------------------- MODULE ReceiptLog_proofs --------------------------
(***************************************************************************)
(* Proofs about ReceiptLog, for any set of threads and any bounds.         *)
(*                                                                         *)
(* The argument: the lock is held by every thread between Acquire and      *)
(* Release (LockInv), so nobody else writes between a thread's ReadTip and *)
(* its Write; an unfinished line always lies behind the last fsync         *)
(* (TailInv), so a write never lands on a line that was covered.  On a     *)
(* disk that tears no line the roots of the calls under way are fresh and  *)
(* every linked record still links to the tip (ChainInv), so each write    *)
(* extends the chain.                                                      *)
(***************************************************************************)
EXTENDS ReceiptLog, SequenceTheorems, FiniteSetTheorems, TLAPS

Critical == {"locked", "linked", "written", "synced"}

LockInv == \A t \in Thread : pc[t] \in Critical => lock = t

TailInv == /\ ~sealed => synced < Len(file)
           /\ \A t \in Thread : pc[t] = "written" => sealed

RootInv == \A t \in Thread : pc[t] # "idle" => rec[t].root \in Roots

KeptInv == TypeOK /\ LockInv /\ TailInv /\ RootInv

(* The lines that a tear has garbled, or left for the next write to garble. *)
Scars == {i \in 1..Len(file) : file[i] = Garbled \/ (i = Len(file) /\ ~sealed)}

ScarInv == /\ Linked(file)
           /\ \A t \in Thread : pc[t] = "linked" => rec[t].prev = Tip(file)
           /\ Cardinality(Scars) <= tears

DamageInv == KeptInv /\ ScarInv

(* The receipts that were returned, or will be. *)
Held == reported \cup {rec[t].root : t \in {u \in Thread : pc[u] \in {"synced", "reporting"}}}

(* Those of a set that are not in the first n lines, and the lines of these *)
(* that a write has garbled and closed.                                     *)
Missing(S, n) == {r \in S : \A i \in 1..n : file[i].root # r}
Closed(n) == {i \in 1..n : file[i] = Garbled /\ (i < Len(file) \/ sealed)}

LossInv ==
    /\ Cardinality(Missing(Held, synced)) <= Cardinality(Closed(synced))
    /\ \A t \in Thread : pc[t] = "written" =>
          Cardinality(Missing(Held \cup {rec[t].root}, Len(file)))
             <= Cardinality(Closed(Len(file)))

WholeInv == DamageInv /\ LossInv

(* What a call under way knows of its record, up to the first torn line. *)
Pending == {"waiting", "locked", "linked"}

Covered(r, n) == \E i \in 1..n : file[i].root = r

FreshInv ==
    /\ \A i \in 1..Len(file) : file[i].root \in 1..calls
    /\ \A t \in Thread : pc[t] # "idle" => rec[t].root \in 1..calls
    /\ \A t \in Thread : pc[t] \in Pending =>
          \A i \in 1..Len(file) : file[i].root # rec[t].root
    /\ \A t, u \in Thread : t # u /\ pc[t] # "idle" /\ pc[u] # "idle" =>
          rec[t].root # rec[u].root

ChainInv ==
    /\ sealed /\ tears = 0
    /\ Linked(file)
    /\ \A t \in Thread : pc[t] = "linked" => rec[t].prev = Tip(file)
    /\ \A t \in Thread : pc[t] = "written" => Covered(rec[t].root, Len(file))
    /\ \A t \in Thread : pc[t] \in {"synced", "reporting"} =>
          Covered(rec[t].root, synced)
    /\ \A r \in reported : Covered(r, synced)

IntactInv == KeptInv /\ FreshInv /\ ChainInv

-----------------------------------------------------------------------------
(* What an append to the file yields: a longer file when its last line is *)
(* finished, the same number of lines when the bytes join that line.      *)
LEMMA PutLine ==
    ASSUME file \in Seq(Line), ~sealed => Len(file) > 0, NEW line \in Line
    PROVE  /\ Put(line) \in Seq(Line)
           /\ Len(Put(line)) = IF sealed THEN Len(file) + 1 ELSE Len(file)
           /\ \A i \in 1..Len(file) :
                 sealed \/ i # Len(file) => Put(line)[i] = file[i]
           /\ sealed => Put(line)[Len(file) + 1] = line
           /\ ~sealed => Put(line)[Len(file)] = Garbled
<1>1. Garbled \in Line
  BY BoundsAssumption DEF Garbled, Genesis, Line
<1>2. Len(file) \in Nat
  BY LenProperties
<1>3. CASE sealed
  BY <1>3, <1>2, AppendProperties DEF Put
<1>4. CASE ~sealed
  <2>1. Len(file) \in 1..Len(file)
    BY <1>4, <1>2
  <2>2. QED
    BY <1>4, <1>1, <2>1, ExceptSeq DEF Put
<1>5. QED
  BY <1>3, <1>4

(* A prefix of the file is a file. *)
LEMMA Prefix ==
    ASSUME file \in Seq(Line), NEW k \in 0..Len(file)
    PROVE  /\ SubSeq(file, 1, k) \in Seq(Line)
           /\ Len(SubSeq(file, 1, k)) = k
           /\ \A i \in 1..k : SubSeq(file, 1, k)[i] = file[i]
<1>1. Len(file) \in Nat
  BY LenProperties
<1>2. \A i \in 1..k : file[i] \in Line
  BY <1>1, ElementOfSeq
<1>3. k \in Int /\ 1 \in Int
  BY <1>1
<1>4. QED
  BY <1>2, <1>3, SubSeqProperties

(* The tip of a well-formed file is a root, the genesis root included. *)
LEMMA TipType == ASSUME file \in Seq(Line) PROVE Tip(file) \in 0..MaxAppends
<1>1. Len(file) \in Nat /\ (file # <<>> => Len(file) \in 1..Len(file))
  BY EmptySeq, LenProperties
<1>2. CASE file = <<>>
  BY <1>2, BoundsAssumption DEF Tip, Genesis
<1>3. CASE file # <<>>
  <2>1. file[Len(file)] \in Line
    BY <1>1, <1>3, ElementOfSeq
  <2>2. QED
    BY <1>3, <2>1 DEF Tip, Line
<1>4. QED
  BY <1>2, <1>3

-----------------------------------------------------------------------------
(* Each step keeps the types, the lock's discipline and the tail. *)

LEMMA KeptInit == Init => KeptInv
BY BoundsAssumption, EmptySeq
   DEF Init, KeptInv, TypeOK, LockInv, TailInv, RootInv, Critical, NoRecord, Garbled,
       Genesis, Line, Roots

LEMMA KeptCall == ASSUME KeptInv, NEW t \in Thread, Call(t) PROVE KeptInv'
<1>1. calls + 1 \in Roots
  BY BoundsAssumption DEF KeptInv, TypeOK, Call, Roots
<1>2. rec' \in [Thread -> Line]
  BY <1>1, BoundsAssumption DEF KeptInv, TypeOK, Call, Roots, Line, Genesis
<1>3. QED
  BY <1>1, <1>2, BoundsAssumption
     DEF KeptInv, TypeOK, LockInv, TailInv, RootInv, Critical, Call, Goto, Roots

LEMMA KeptAcquire ==
    ASSUME KeptInv, NEW t \in Thread, Acquire(t) PROVE KeptInv'
BY ThreadAssumption
   DEF KeptInv, TypeOK, LockInv, TailInv, RootInv, Critical, Acquire, Goto, counters

LEMMA KeptReadTip ==
    ASSUME KeptInv, NEW t \in Thread, ReadTip(t) PROVE KeptInv'
<1>1. rec' \in [Thread -> Line]
  BY TipType DEF KeptInv, TypeOK, ReadTip, Line
<1>2. QED
  BY <1>1 DEF KeptInv, TypeOK, LockInv, TailInv, RootInv, Critical, ReadTip, Goto,
              counters

LEMMA KeptWrite == ASSUME KeptInv, NEW t \in Thread, Write(t) PROVE KeptInv'
<1>1. /\ file' \in Seq(Line)
      /\ Len(file') >= Len(file)
      /\ Len(file) \in Nat
  BY PutLine, LenProperties DEF KeptInv, TypeOK, TailInv, Write
<1>2. QED
  BY <1>1, LenProperties
     DEF KeptInv, TypeOK, LockInv, TailInv, RootInv, Critical, Write, Goto, counters

LEMMA KeptFsync == ASSUME KeptInv, NEW t \in Thread, Fsync(t) PROVE KeptInv'
BY LenProperties
   DEF KeptInv, TypeOK, LockInv, TailInv, RootInv, Critical, Fsync, Goto, counters

LEMMA KeptRelease ==
    ASSUME KeptInv, NEW t \in Thread, Release(t) PROVE KeptInv'
BY DEF KeptInv, TypeOK, LockInv, TailInv, RootInv, Critical, Release, Goto, counters

LEMMA KeptReport == ASSUME KeptInv, NEW t \in Thread, Report(t) PROVE KeptInv'
BY DEF KeptInv, TypeOK, LockInv, TailInv, RootInv, Critical, Report, Goto, counters

LEMMA KeptRaise ==
    ASSUME KeptInv, NEW t \in Thread, NEW from \in Critical, Raise(t, from),
           TypeOK', TailInv'
    PROVE  KeptInv'
BY DEF KeptInv, TypeOK, LockInv, RootInv, Critical, Raise, Goto

LEMMA KeptWriteFails ==
    ASSUME KeptInv, NEW t \in Thread, WriteFails(t) PROVE KeptInv'
<1>1. lock = t /\ rec[t] \in Line /\ Garbled \in Line
  BY BoundsAssumption
     DEF KeptInv, TypeOK, LockInv, Critical, WriteFails, Raise, Goto, Garbled,
         Genesis, Line
<1>2. \A u \in Thread : pc'[u] # "written"
  BY <1>1 DEF KeptInv, TypeOK, LockInv, Critical, WriteFails, Raise, Goto
<1>3. CASE UNCHANGED <<file, sealed, tears>>
  <2>1. TypeOK' /\ TailInv'
    BY <1>2, <1>3 DEF KeptInv, TypeOK, TailInv, WriteFails, Raise, Goto
  <2>2. QED
    BY <2>1, KeptRaise DEF WriteFails, Critical
<1>4. CASE /\ tears < MaxTears
           /\ \E part \in {Garbled, rec[t]} : file' = Put(part)
           /\ sealed' = FALSE
           /\ tears' = tears + 1
  <2>1. PICK part \in Line : file' = Put(part)
    BY <1>1, <1>4
  <2>2. /\ file' \in Seq(Line) /\ synced < Len(file')
        /\ Len(file) \in Nat /\ Len(file') \in Nat
    BY <2>1, PutLine, LenProperties DEF KeptInv, TypeOK, TailInv
  <2>3. tears' \in 0..MaxTears
    BY <1>4, BoundsAssumption DEF KeptInv, TypeOK
  <2>4. TypeOK'
    <3>1. Raise(t, "linked")
      BY DEF WriteFails
    <3>2. sealed' \in BOOLEAN
      BY <1>4
    <3>3. synced' \in 0..Len(file')
      BY <2>2, <3>1 DEF KeptInv, TypeOK, Raise
    <3>4. QED
      BY <2>2, <2>3, <3>1, <3>2, <3>3 DEF KeptInv, TypeOK, Raise, Goto
  <2>5. TailInv'
    BY <1>2, <1>4, <2>2 DEF TailInv, WriteFails, Raise
  <2>6. QED
    BY <2>4, <2>5, KeptRaise DEF WriteFails, Critical
<1>5. QED
  BY <1>3, <1>4 DEF WriteFails

LEMMA KeptFsyncFails ==
    ASSUME KeptInv, NEW t \in Thread, FsyncFails(t) PROVE KeptInv'
<1>1. TypeOK' /\ TailInv'
  BY DEF KeptInv, TypeOK, TailInv, FsyncFails, Raise, Goto
<1>2. QED
  BY <1>1, KeptRaise DEF FsyncFails, Critical

LEMMA KeptCrash == ASSUME KeptInv, Crash PROVE KeptInv'
<1>1. Len(file) \in Nat /\ synced \in Nat /\ Garbled \in Line
  BY LenProperties, BoundsAssumption
     DEF KeptInv, TypeOK, Garbled, Genesis, Line
<1>2. /\ LockInv' /\ RootInv'
      /\ pc' \in [Thread -> {"idle", "waiting", "locked", "linked",
                             "written", "synced", "reporting"}]
      /\ \A t \in Thread : pc'[t] # "written"
  BY DEF LockInv, RootInv, Critical, Crash
<1>3. PICK k \in synced..Len(file) :
        \/ /\ file' = SubSeq(file, 1, k)
           /\ sealed' = (k = Len(file) => sealed)
           /\ UNCHANGED tears
        \/ /\ k < Len(file) /\ tears < MaxTears
           /\ \E part \in {Garbled, file[k + 1]} :
                 file' = Append(SubSeq(file, 1, k), part)
           /\ sealed' = FALSE
           /\ tears' = tears + 1
  BY DEF Crash
<1>4. k \in 0..Len(file)
  BY <1>1
<1>5. /\ file' \in Seq(Line) /\ synced \in 0..Len(file')
      /\ ~sealed' => synced < Len(file')
      /\ sealed' \in BOOLEAN /\ tears' \in 0..MaxTears
  <2>1. CASE /\ file' = SubSeq(file, 1, k)
             /\ sealed' = (k = Len(file) => sealed)
             /\ UNCHANGED tears
    <3>1. file' \in Seq(Line) /\ Len(file') = k
      BY <1>4, <2>1, Prefix DEF KeptInv, TypeOK
    <3>2. ~sealed' => k = Len(file) /\ ~sealed
      BY <2>1
    <3>3. sealed' \in BOOLEAN
      BY <2>1
    <3>4. QED
      BY <1>1, <1>4, <2>1, <3>1, <3>2, <3>3 DEF KeptInv, TypeOK, TailInv
  <2>2. CASE /\ k < Len(file) /\ tears < MaxTears
             /\ \E part \in {Garbled, file[k + 1]} :
                   file' = Append(SubSeq(file, 1, k), part)
             /\ sealed' = FALSE
             /\ tears' = tears + 1
    <3>1. file[k + 1] \in Line
      BY <1>1, <1>4, <2>2, ElementOfSeq DEF KeptInv, TypeOK
    <3>2. PICK part \in Line : file' = Append(SubSeq(file, 1, k), part)
      BY <1>1, <2>2, <3>1
    <3>3. SubSeq(file, 1, k) \in Seq(Line) /\ Len(SubSeq(file, 1, k)) = k
      BY <1>4, Prefix DEF KeptInv, TypeOK
    <3>4. file' \in Seq(Line) /\ Len(file') = k + 1
      BY <3>2, <3>3, AppendProperties
    <3>5. k \in synced..Len(file) /\ k \in Nat /\ synced < Len(file')
      BY <1>1, <1>3, <1>4, <3>4
    <3>6. tears' \in 0..MaxTears
      BY <2>2, BoundsAssumption DEF KeptInv, TypeOK
    <3>7. sealed' \in BOOLEAN
      BY <2>2
    <3>8. QED
      BY <1>1, <3>4, <3>5, <3>6, <3>7
  <2>3. QED
    BY <1>3, <2>1, <2>2
<1>6. crashes' \in 0..MaxCrashes
  BY BoundsAssumption DEF KeptInv, TypeOK, Crash
<1>7. TypeOK'
  BY <1>2, <1>5, <1>6 DEF KeptInv, TypeOK, Crash
<1>8. TailInv'
  BY <1>2, <1>5 DEF TailInv, Crash
<1>9. QED
  BY <1>2, <1>7, <1>8 DEF KeptInv

LEMMA KeptStep == KeptInv /\ [Next]_vars => KeptInv'
<1> SUFFICES ASSUME KeptInv, [Next]_vars PROVE KeptInv'
  OBVIOUS
<1>1. CASE Crash
  BY <1>1, KeptCrash
<1>2. ASSUME NEW t \in Thread, Call(t) \/ Step(t) PROVE KeptInv'
  BY <1>2, KeptCall, KeptAcquire, KeptReadTip, KeptWrite, KeptFsync,
     KeptRelease, KeptReport, KeptWriteFails, KeptFsyncFails DEF Step
<1>3. CASE UNCHANGED vars
  BY <1>3 DEF KeptInv, TypeOK, LockInv, TailInv, RootInv, vars
<1>4. QED
  BY <1>1, <1>2, <1>3 DEF Next

(* Every reachable state is well typed, whatever crashes and tears. *)
THEOREM TypeCorrect == Spec => []TypeOK
<1>1. KeptInv => TypeOK
  BY DEF KeptInv
<1>2. QED
  BY <1>1, KeptInit, KeptStep, PTL DEF Spec

(* No two threads are between the lock's acquisition and its release. *)
THEOREM OneWriter ==
    Spec => [](\A t, u \in Thread :
                  pc[t] \in Critical /\ pc[u] \in Critical => t = u)
<1>1. KeptInv => \A t, u \in Thread :
                    pc[t] \in Critical /\ pc[u] \in Critical => t = u
  BY DEF KeptInv, LockInv
<1>2. QED
  BY <1>1, KeptInit, KeptStep, PTL DEF Spec

-----------------------------------------------------------------------------
(* The lock always has a holder that is on its way to giving it back. *)

HeldInv == \A t \in Thread : lock = t <=> pc[t] \in Critical

(* How far the holder of the lock is in the with block *)
Passed == [locked |-> 0, linked |-> 1, written |-> 2, synced |-> 3]

(* The holder of the lock gives it back or goes one line on with each step *)
(* of its own, failed ones included, and nobody else's step moves it.      *)
HolderMovesOn ==
    \A t \in Thread : lock = t =>
       /\ Step(t) => lock' = NoThread \/ Passed[pc'[t]] = Passed[pc[t]] + 1
       /\ ~ Step(t) => lock' = NoThread \/ (lock' = t /\ pc'[t] = pc[t])

LEMMA HeldStep == KeptInv /\ HeldInv /\ [Next]_vars => HeldInv'
<1> SUFFICES ASSUME KeptInv, HeldInv, [Next]_vars PROVE HeldInv'
  OBVIOUS
<1>1. CASE Crash
  BY <1>1, ThreadAssumption DEF HeldInv, Crash, Critical
<1>2. ASSUME NEW t \in Thread, Call(t) PROVE HeldInv'
  BY <1>2 DEF KeptInv, TypeOK, HeldInv, Critical, Call, Goto
<1>3. ASSUME NEW t \in Thread, Acquire(t) PROVE HeldInv'
  BY <1>3, ThreadAssumption DEF KeptInv, TypeOK, HeldInv, Critical, Acquire, Goto
<1>4. ASSUME NEW t \in Thread, ReadTip(t) \/ Write(t) \/ Fsync(t) PROVE HeldInv'
  BY <1>4 DEF KeptInv, TypeOK, HeldInv, Critical, ReadTip, Write, Fsync, Goto
<1>5. ASSUME NEW t \in Thread, Release(t) \/ WriteFails(t) \/ FsyncFails(t)
      PROVE  HeldInv'
  <2>1. /\ lock = t /\ lock' = NoThread
        /\ \E p \in {"reporting", "idle"} : pc' = [pc EXCEPT ![t] = p]
    BY <1>5 DEF HeldInv, Critical, Release, WriteFails, FsyncFails, Raise, Goto
  <2>2. QED
    BY <2>1, ThreadAssumption DEF KeptInv, TypeOK, HeldInv, Critical
<1>6. ASSUME NEW t \in Thread, Report(t) PROVE HeldInv'
  BY <1>6 DEF KeptInv, TypeOK, HeldInv, Critical, Report, Goto
<1>7. CASE UNCHANGED vars
  BY <1>7 DEF HeldInv, vars
<1>8. QED
  BY <1>1, <1>2, <1>3, <1>4, <1>5, <1>6, <1>7 DEF Next, Step

LEMMA HolderStep == KeptInv /\ HeldInv /\ [Next]_vars => [HolderMovesOn]_vars
<1> SUFFICES ASSUME KeptInv, HeldInv, Next, NEW t \in Thread, lock = t
             PROVE  /\ Step(t) => \/ lock' = NoThread
                                  \/ Passed[pc'[t]] = Passed[pc[t]] + 1
                    /\ ~ Step(t) => \/ lock' = NoThread
                                    \/ lock' = t /\ pc'[t] = pc[t]
  BY DEF HolderMovesOn
<1>1. pc[t] \in Critical /\ t # NoThread /\ \A u \in Thread : pc[u] \in Critical => u = t
  BY ThreadAssumption DEF HeldInv
<1>2. Step(t) => \/ lock' = NoThread
                 \/ Passed[pc'[t]] = Passed[pc[t]] + 1
  BY <1>1 DEF KeptInv, TypeOK, Critical, Passed, Step, Acquire, ReadTip, Write, Fsync,
              Release, Report, WriteFails, FsyncFails, Raise, Goto
<1>3. CASE Crash
  BY <1>2, <1>3 DEF Crash
<1>4. ASSUME NEW u \in Thread, u # t, Call(u) \/ Step(u)
      PROVE  lock' = t /\ pc'[t] = pc[t]
  BY <1>1, <1>4 DEF KeptInv, TypeOK, Critical, Step, Call, Acquire, ReadTip, Write,
                    Fsync, Release, Report, WriteFails, FsyncFails, Raise, Goto
<1>5. ~ Call(t)
  BY <1>1 DEF Critical, Call, Goto
<1>6. QED
  BY <1>2, <1>3, <1>4, <1>5 DEF Next

(* No error path of append_receipt leaves the lock to a thread that is     *)
(* done with it: it is held exactly between its acquisition and release,   *)
(* and every step of the holder brings the release nearer.                 *)
THEOREM LockIsGivenBack == Spec => []HeldInv /\ [][HolderMovesOn]_vars
<1>1. Init => HeldInv
  BY ThreadAssumption DEF Init, HeldInv, Critical
<1>2. QED
  BY <1>1, KeptInit, KeptStep, HeldStep, HolderStep, PTL DEF Spec

-----------------------------------------------------------------------------
(* No step touches a line behind the last fsync. *)
SyncedKept == /\ synced <= Len(file')
              /\ \A i \in 1..synced : file'[i] = file[i]

LEMMA PutKeepsSynced ==
    ASSUME KeptInv, NEW line \in Line, file' = Put(line) PROVE SyncedKept
<1>1. /\ file \in Seq(Line) /\ Len(file) \in Nat /\ synced \in 0..Len(file)
      /\ ~sealed => synced < Len(file)
  BY LenProperties DEF KeptInv, TypeOK, TailInv
<1>2. /\ Len(file') = IF sealed THEN Len(file) + 1 ELSE Len(file)
      /\ \A i \in 1..Len(file) :
            sealed \/ i # Len(file) => file'[i] = file[i]
  BY <1>1, PutLine
<1>3. QED
  BY <1>1, <1>2 DEF SyncedKept

LEMMA CrashKeepsSynced == ASSUME KeptInv, Crash PROVE SyncedKept
<1>1. Len(file) \in Nat /\ synced \in 0..Len(file) /\ Garbled \in Line
  BY LenProperties, BoundsAssumption
     DEF KeptInv, TypeOK, Garbled, Genesis, Line
<1>2. PICK k \in synced..Len(file) :
         \/ file' = SubSeq(file, 1, k)
         \/ /\ k < Len(file)
            /\ \E part \in {Garbled, file[k + 1]} :
                  file' = Append(SubSeq(file, 1, k), part)
  BY DEF Crash
<1>3. k \in 0..Len(file) /\ k \in Nat
  BY <1>1
<1>4. /\ SubSeq(file, 1, k) \in Seq(Line) /\ Len(SubSeq(file, 1, k)) = k
      /\ \A i \in 1..k : SubSeq(file, 1, k)[i] = file[i]
  BY <1>3, Prefix DEF KeptInv, TypeOK
<1>5. CASE file' = SubSeq(file, 1, k)
  BY <1>1, <1>3, <1>4, <1>5 DEF SyncedKept
<1>6. CASE /\ k < Len(file)
           /\ \E part \in {Garbled, file[k + 1]} :
                 file' = Append(SubSeq(file, 1, k), part)
  <2>1. file[k + 1] \in Line
    BY <1>1, <1>3, <1>6, ElementOfSeq DEF KeptInv, TypeOK
  <2>2. PICK part \in Line : file' = Append(SubSeq(file, 1, k), part)
    BY <1>1, <1>6, <2>1
  <2>3. Len(file') = k + 1 /\ \A i \in 1..k : file'[i] = file[i]
    BY <1>4, <2>2, AppendProperties
  <2>4. QED
    BY <1>1, <1>3, <2>3 DEF SyncedKept
<1>7. QED
  BY <1>2, <1>5, <1>6

LEMMA StepKeepsSynced == KeptInv /\ [Next]_vars => [SyncedKept]_vars
<1> SUFFICES ASSUME KeptInv, Next PROVE SyncedKept
  BY DEF vars
<1>1. CASE UNCHANGED file
  BY <1>1, LenProperties DEF KeptInv, TypeOK, SyncedKept
<1>2. ASSUME NEW t \in Thread, Write(t) \/ WriteFails(t) PROVE SyncedKept
  <2>1. rec[t] \in Line /\ Garbled \in Line
    BY BoundsAssumption DEF KeptInv, TypeOK, Garbled, Genesis, Line
  <2>2. QED
    BY <1>1, <1>2, <2>1, PutKeepsSynced DEF Write, WriteFails
<1>3. CASE Crash
  BY <1>3, CrashKeepsSynced
<1>4. QED
  BY <1>1, <1>2, <1>3
     DEF Next, Step, Call, Acquire, ReadTip, Fsync, Release, Report, FsyncFails,
         Raise

(* Whatever is torn or lost, what an fsync covered stays as it is. *)
THEOREM SyncedLinesAreKept == Spec => SyncedLinesKept
<1>1. [SyncedKept]_vars =>
         [/\ synced <= Len(file')
          /\ \A i \in 1..synced : file'[i] = file[i]]_vars
  BY DEF SyncedKept
<1>2. QED
  BY <1>1, KeptInit, KeptStep, StepKeepsSynced, PTL DEF Spec, SyncedLinesKept

-----------------------------------------------------------------------------
(* Whatever is torn: one scar a tear, and the chain resumes behind it. *)

LEMMA ScarsFinite ==
    ASSUME KeptInv
    PROVE  IsFiniteSet(Scars) /\ Cardinality(Scars) \in Nat /\ tears \in Nat
<1>1. Len(file) \in Int /\ 1 \in Int
  BY LenProperties DEF KeptInv, TypeOK
<1>2. IsFiniteSet(1..Len(file)) /\ Scars \subseteq 1..Len(file)
  BY <1>1, FS_Interval DEF Scars
<1>3. IsFiniteSet(Scars)
  BY <1>2, FS_Subset
<1>4. QED
  BY <1>3, FS_CardinalityType DEF KeptInv, TypeOK

(* No more scars, or one more and a tear that made it. *)
LEMMA ScarsCounted ==
    ASSUME KeptInv, Cardinality(Scars) <= tears, NEW after, NEW i,
           \/ after \subseteq Scars /\ tears' = tears
           \/ after \subseteq Scars \cup {i} /\ tears' = tears + 1
    PROVE  Cardinality(after) <= tears'
<1>1. IsFiniteSet(Scars) /\ Cardinality(Scars) \in Nat /\ tears \in Nat
  BY ScarsFinite
<1>2. CASE after \subseteq Scars /\ tears' = tears
  <2>1. IsFiniteSet(after) /\ Cardinality(after) <= Cardinality(Scars)
    BY <1>1, <1>2, FS_Subset
  <2>2. Cardinality(after) \in Nat
    BY <2>1, FS_CardinalityType
  <2>3. QED
    BY <1>1, <1>2, <2>1, <2>2
<1>3. CASE after \subseteq Scars \cup {i} /\ tears' = tears + 1
  <2>1. /\ IsFiniteSet(Scars \cup {i})
        /\ Cardinality(Scars \cup {i}) =
              IF i \in Scars THEN Cardinality(Scars) ELSE Cardinality(Scars) + 1
    BY <1>1, FS_AddElement
  <2>2. /\ IsFiniteSet(after)
        /\ Cardinality(after) <= Cardinality(Scars \cup {i})
    BY <1>3, <2>1, FS_Subset
  <2>3. Cardinality(after) \in Nat
    BY <2>2, FS_CardinalityType
  <2>4. QED
    BY <1>1, <1>3, <2>1, <2>2, <2>3
<1>4. QED
  BY <1>2, <1>3

(* A record that links to the tip keeps the file linked, and so does half *)
(* of one.                                                                *)
LEMMA PutLinks ==
    ASSUME KeptInv, Linked(file), NEW line \in Line,
           line = Garbled \/ line.prev = Tip(file), file' = Put(line)
    PROVE  Linked(file)'
<1>1. /\ file \in Seq(Line) /\ Len(file) \in Nat
      /\ ~sealed => Len(file) > 0
  BY LenProperties DEF KeptInv, TypeOK, TailInv
<1>2. /\ Len(file') = IF sealed THEN Len(file) + 1 ELSE Len(file)
      /\ \A i \in 1..Len(file) :
            sealed \/ i # Len(file) => file'[i] = file[i]
      /\ sealed => file'[Len(file) + 1] = line
      /\ ~sealed => file'[Len(file)] = Garbled
  BY <1>1, PutLine
<1>3. Tip(file) = IF Len(file) = 0 THEN Genesis ELSE file[Len(file)].root
  BY <1>1, EmptySeq DEF Tip
<1>4. CASE sealed
  <2>1. /\ Len(file') = Len(file) + 1 /\ file'[Len(file) + 1] = line
        /\ \A i \in 1..Len(file) : file'[i] = file[i]
    BY <1>2, <1>4
  <2> SUFFICES ASSUME NEW i \in 1..Len(file'), file'[i] # Garbled
               PROVE  file'[i].prev = IF i = 1 THEN Genesis ELSE file'[i - 1].root
    BY DEF Linked
  <2>2. CASE i = Len(file) + 1
    BY <1>1, <1>3, <2>1, <2>2
  <2>3. CASE i \in 1..Len(file)
    <3>1. i # 1 => i - 1 \in 1..Len(file)
      BY <1>1, <2>3
    <3>2. QED
      BY <2>1, <2>3, <3>1 DEF Linked
  <2>4. QED
    BY <1>1, <2>1, <2>2, <2>3
<1>5. CASE ~sealed
  <2>1. /\ Len(file') = Len(file) /\ file'[Len(file)] = Garbled
        /\ \A i \in 1..Len(file) : i # Len(file) => file'[i] = file[i]
    BY <1>2, <1>5
  <2> SUFFICES ASSUME NEW i \in 1..Len(file'), file'[i] # Garbled
               PROVE  file'[i].prev = IF i = 1 THEN Genesis ELSE file'[i - 1].root
    BY DEF Linked
  <2>2. i \in 1..Len(file) /\ i # Len(file)
    BY <2>1
  <2>3. i # 1 => i - 1 \in 1..Len(file) /\ i - 1 # Len(file)
    BY <1>1, <2>2
  <2>4. QED
    BY <2>1, <2>2, <2>3 DEF Linked
<1>6. QED
  BY <1>4, <1>5

(* A linked record is written whole, or its bytes garble a scar. *)
LEMMA DamageWrite ==
    ASSUME DamageInv, NEW t \in Thread, Write(t) PROVE DamageInv'
<1>1. /\ file \in Seq(Line) /\ Len(file) \in Nat /\ rec[t] \in Line
      /\ ~sealed => Len(file) > 0
  BY LenProperties DEF DamageInv, KeptInv, TypeOK, TailInv
<1>2. /\ pc[t] = "linked" /\ rec[t].root \in Roots /\ rec[t].prev = Tip(file)
      /\ file' = Put(rec[t]) /\ sealed' /\ tears' = tears
  BY DEF DamageInv, ScarInv, KeptInv, RootInv, Write, Goto, counters
<1>3. Linked(file)'
  BY <1>1, <1>2, PutLinks DEF DamageInv, ScarInv
<1>4. \A u \in Thread : pc'[u] # "linked"
  BY <1>2 DEF DamageInv, KeptInv, TypeOK, LockInv, Critical, Write, Goto
<1>5. /\ Len(file') = IF sealed THEN Len(file) + 1 ELSE Len(file)
      /\ \A i \in 1..Len(file) :
            sealed \/ i # Len(file) => file'[i] = file[i]
      /\ sealed => file'[Len(file) + 1] = rec[t]
  BY <1>1, <1>2, PutLine
<1>6. rec[t] # Garbled
  BY <1>2 DEF Garbled, Genesis, Roots
<1>7. Scars' \subseteq Scars
  BY <1>1, <1>2, <1>5, <1>6 DEF Scars
<1>8. Cardinality(Scars') <= tears'
  BY <1>2, <1>7, ScarsCounted DEF DamageInv, ScarInv
<1>9. QED
  BY <1>3, <1>4, <1>8, KeptWrite DEF DamageInv, ScarInv

(* A write that fails leaves the file, or one more scar at its end. *)
LEMMA DamageWriteFails ==
    ASSUME DamageInv, NEW t \in Thread, WriteFails(t) PROVE DamageInv'
<1>1. /\ file \in Seq(Line) /\ Len(file) \in Nat /\ rec[t] \in Line
      /\ Garbled \in Line /\ rec[t].prev = Tip(file)
      /\ ~sealed => Len(file) > 0
  BY LenProperties, BoundsAssumption
     DEF DamageInv, ScarInv, KeptInv, TypeOK, TailInv, WriteFails, Raise, Goto,
         Garbled, Genesis, Line
<1>2. \A u \in Thread : pc'[u] # "linked"
  BY DEF DamageInv, KeptInv, TypeOK, LockInv, Critical, WriteFails, Raise, Goto
<1>3. CASE UNCHANGED <<file, sealed, tears>>
  BY <1>2, <1>3, KeptWriteFails DEF DamageInv, ScarInv, Linked, Scars
<1>4. CASE /\ \E part \in {Garbled, rec[t]} : file' = Put(part)
           /\ tears' = tears + 1
  <2>1. PICK part \in {Garbled, rec[t]} : file' = Put(part)
    BY <1>4
  <2>2. part \in Line /\ (part = Garbled \/ part.prev = Tip(file))
    BY <1>1
  <2>3. Linked(file)'
    BY <2>1, <2>2, PutLinks DEF DamageInv, ScarInv
  <2>4. /\ Len(file') = IF sealed THEN Len(file) + 1 ELSE Len(file)
        /\ \A i \in 1..Len(file) :
              sealed \/ i # Len(file) => file'[i] = file[i]
    BY <1>1, <2>1, <2>2, PutLine
  <2>5. Scars' \subseteq Scars \cup {Len(file')}
    BY <1>1, <2>4 DEF Scars
  <2>6. Cardinality(Scars') <= tears'
    BY <1>4, <2>5, ScarsCounted DEF DamageInv, ScarInv
  <2>7. QED
    BY <1>2, <2>3, <2>6, KeptWriteFails DEF DamageInv, ScarInv
<1>5. QED
  BY <1>3, <1>4 DEF WriteFails

(* What a crash leaves is a prefix of the file, or one with a scar at its *)
(* end.                                                                   *)
LEMMA DamageCrash == ASSUME DamageInv, Crash PROVE DamageInv'
<1>1. Len(file) \in Nat /\ synced \in 0..Len(file) /\ Garbled \in Line
  BY LenProperties, BoundsAssumption
     DEF DamageInv, KeptInv, TypeOK, Garbled, Genesis, Line
<1>2. PICK k \in synced..Len(file) :
         \/ /\ file' = SubSeq(file, 1, k)
            /\ sealed' = (k = Len(file) => sealed)
            /\ tears' = tears
         \/ /\ k < Len(file)
            /\ \E part \in {Garbled, file[k + 1]} :
                  file' = Append(SubSeq(file, 1, k), part)
            /\ tears' = tears + 1
  BY DEF Crash
<1>3. /\ k \in 0..Len(file) /\ k \in Nat
      /\ SubSeq(file, 1, k) \in Seq(Line) /\ Len(SubSeq(file, 1, k)) = k
      /\ \A i \in 1..k : SubSeq(file, 1, k)[i] = file[i]
  BY <1>1, Prefix DEF DamageInv, KeptInv, TypeOK
<1>4. CASE /\ file' = SubSeq(file, 1, k)
           /\ sealed' = (k = Len(file) => sealed)
           /\ tears' = tears
  <2>1. Len(file') = k /\ \A i \in 1..k : file'[i] = file[i]
    BY <1>3, <1>4
  <2>2. Linked(file)'
    <3>1. \A i \in 1..k : i \in 1..Len(file) /\ (i # 1 => i - 1 \in 1..k)
      BY <1>1, <1>3
    <3>2. QED
      BY <2>1, <3>1 DEF DamageInv, ScarInv, Linked
  <2>3. ~sealed' => k = Len(file) /\ ~sealed
    BY <1>4
  <2>4. Scars' \subseteq Scars
    BY <1>1, <1>3, <2>1, <2>3 DEF Scars
  <2>5. Cardinality(Scars') <= tears'
    BY <1>4, <2>4, ScarsCounted DEF DamageInv, ScarInv
  <2>6. QED
    BY <2>2, <2>5, KeptCrash DEF DamageInv, ScarInv, Crash
<1>5. CASE /\ k < Len(file)
           /\ \E part \in {Garbled, file[k + 1]} :
                 file' = Append(SubSeq(file, 1, k), part)
           /\ tears' = tears + 1
  <2>1. PICK part \in {Garbled, file[k + 1]} :
           file' = Append(SubSeq(file, 1, k), part)
    BY <1>5
  <2>2. part \in Line
    BY <1>1, <1>3, <1>5, ElementOfSeq DEF DamageInv, KeptInv, TypeOK
  <2>3. /\ Len(file') = k + 1 /\ file'[k + 1] = part
        /\ \A i \in 1..k : file'[i] = file[i]
    BY <1>3, <2>1, <2>2, AppendProperties
  <2>4. Linked(file)'
    <3>1. \A i \in 1..(k + 1) : /\ i \in 1..Len(file)
                                /\ i # 1 => i - 1 \in 1..k
                                /\ i # k + 1 => i \in 1..k
      BY <1>1, <1>3, <1>5
    <3>2. QED
      BY <2>3, <3>1 DEF DamageInv, ScarInv, Linked
  <2>5. Scars' \subseteq Scars \cup {k + 1}
    BY <1>1, <1>3, <1>5, <2>3 DEF Scars
  <2>6. Cardinality(Scars') <= tears'
    BY <1>5, <2>5, ScarsCounted DEF DamageInv, ScarInv
  <2>7. QED
    BY <2>4, <2>6, KeptCrash DEF DamageInv, ScarInv, Crash
<1>6. QED
  BY <1>2, <1>4, <1>5

LEMMA DamageReadTip ==
    ASSUME DamageInv, NEW t \in Thread, ReadTip(t) PROVE DamageInv'
<1>1. /\ UNCHANGED <<file, sealed, tears>> /\ rec'[t].prev = Tip(file)
      /\ \A u \in Thread : u # t => rec'[u] = rec[u] /\ pc'[u] = pc[u]
  BY DEF DamageInv, KeptInv, TypeOK, Line, ReadTip, Goto, counters
<1>2. QED
  BY <1>1, KeptReadTip DEF DamageInv, ScarInv, Linked, Scars, Tip

LEMMA DamageStep == DamageInv /\ [Next]_vars => DamageInv'
<1> SUFFICES ASSUME DamageInv, [Next]_vars PROVE DamageInv'
  OBVIOUS
<1>1. KeptInv'
  BY KeptStep DEF DamageInv
<1>2. ASSUME UNCHANGED <<file, sealed, tears>>,
             \A t \in Thread : pc'[t] = "linked" => pc[t] = "linked" /\ rec'[t] = rec[t]
      PROVE  DamageInv'
  BY <1>1, <1>2 DEF DamageInv, ScarInv, Linked, Scars, Tip
<1>3. ASSUME NEW t \in Thread,
             \/ Call(t) \/ Acquire(t) \/ Fsync(t) \/ Release(t) \/ Report(t)
             \/ FsyncFails(t)
      PROVE  DamageInv'
  <2>1. UNCHANGED <<file, sealed, tears>>
    BY <1>3 DEF Call, Acquire, Fsync, Release, Report, FsyncFails, Raise, counters
  <2>2. \A u \in Thread : pc'[u] = "linked" => pc[u] = "linked" /\ rec'[u] = rec[u]
    BY <1>3 DEF DamageInv, KeptInv, TypeOK, Call, Acquire, Fsync, Release, Report,
                FsyncFails, Raise, Goto, counters
  <2>3. QED
    BY <1>2, <2>1, <2>2
<1>4. CASE UNCHANGED vars
  BY <1>2, <1>4 DEF vars
<1>5. QED
  BY <1>3, <1>4, DamageReadTip, DamageWrite, DamageWriteFails, DamageCrash
     DEF Next, Step

LEMMA DamageInit == Init => DamageInv
<1> SUFFICES ASSUME Init PROVE ScarInv
  BY KeptInit DEF DamageInv
<1>1. Len(file) = 0 /\ Scars = {} /\ tears = 0
  BY EmptySeq DEF Init, Scars
<1>2. Cardinality(Scars) = 0
  BY <1>1, FS_EmptySet
<1>3. QED
  BY <1>1, <1>2 DEF Init, ScarInv, Linked

(* Whatever crashes and tears, the file is a chain but for one line a tear. *)
THEOREM DamageIsContained == Spec => []DamageContained
<1>1. DamageInv => DamageContained
  <2> SUFFICES ASSUME DamageInv PROVE DamageContained
    OBVIOUS
  <2> DEFINE Lost == {i \in 1..Len(file) : file[i] = Garbled}
  <2>1. Lost \subseteq Scars
    BY DEF Scars
  <2>2. IsFiniteSet(Scars) /\ Cardinality(Scars) \in Nat /\ tears \in Nat
    BY ScarsFinite DEF DamageInv
  <2>3. IsFiniteSet(Lost) /\ Cardinality(Lost) <= Cardinality(Scars)
    BY <2>1, <2>2, FS_Subset
  <2>4. Cardinality(Lost) \in Nat
    BY <2>3, FS_CardinalityType
  <2>5. Cardinality(Lost) <= tears
    BY <2>2, <2>3, <2>4 DEF DamageInv, ScarInv
  <2>6. QED
    BY <2>5 DEF DamageInv, ScarInv, DamageContained
<1>2. QED
  BY <1>1, DamageInit, DamageStep, PTL DEF Spec

(* Until a line is torn the release validator finds no line that does not  *)
(* parse and no break in the chain, whichever threads appended, whichever  *)
(* of their writes failed and however often the process crashed.           *)
THEOREM ChainNeverBreaks == Spec => [](tears = 0 => ChainHolds(file))
<1>1. DamageInv => (tears = 0 => ChainHolds(file))
  <2> SUFFICES ASSUME DamageInv, tears = 0, NEW i \in 1..Len(file)
               PROVE  file[i] # Garbled
    BY DEF DamageInv, ScarInv, ChainHolds
  <2>1. IsFiniteSet(Scars) /\ Cardinality(Scars) \in Nat
    BY ScarsFinite DEF DamageInv
  <2>2. Cardinality(Scars) = 0
    BY <2>1 DEF DamageInv, ScarInv
  <2>3. Scars = {}
    BY <2>1, <2>2, FS_EmptySet
  <2>4. QED
    BY <2>3 DEF Scars
<1>2. QED
  BY <1>1, DamageInit, DamageStep, PTL DEF Spec

-----------------------------------------------------------------------------
(* Whatever is torn: a receipt that was returned is lost only in a line    *)
(* that its own write garbled, and each such line takes one receipt.       *)

LEMMA Smaller ==
    ASSUME NEW S, NEW T, IsFiniteSet(S), T \subseteq S
    PROVE  /\ IsFiniteSet(T) /\ Cardinality(T) \in Nat /\ Cardinality(S) \in Nat
           /\ Cardinality(T) <= Cardinality(S)
BY FS_Subset, FS_CardinalityType

LEMMA LossFinite ==
    ASSUME KeptInv
    PROVE  /\ IsFiniteSet(Held) /\ Held \subseteq Roots
           /\ \A n \in Nat : IsFiniteSet(Closed(n))
<1>1. Held \subseteq Roots
  BY DEF Held, KeptInv, TypeOK, RootInv
<1>2. IsFiniteSet(Roots)
  BY BoundsAssumption, FS_Interval DEF Roots
<1>3. ASSUME NEW n \in Nat PROVE IsFiniteSet(Closed(n))
  <2>1. IsFiniteSet(1..n) /\ Closed(n) \subseteq 1..n
    BY FS_Interval DEF Closed
  <2>2. QED
    BY <2>1, Smaller
<1>4. QED
  BY <1>1, <1>2, <1>3, Smaller

(* As long as the fsynced lines stay and no receipt is newly held, no more *)
(* receipts are missing in them.                                           *)
LEMMA LossSynced ==
    ASSUME KeptInv, LossInv, KeptInv', SyncedKept, synced' = synced, Held' \subseteq Held
    PROVE  Cardinality(Missing(Held, synced)') <= Cardinality(Closed(synced)')
<1>1. /\ synced \in Nat /\ Len(file) \in Nat /\ Len(file') \in Nat
      /\ synced <= Len(file) /\ synced <= Len(file')
      /\ ~sealed' => synced < Len(file')
      /\ ~sealed => synced < Len(file)
  BY LenProperties DEF KeptInv, TypeOK, TailInv
<1>2. \A i \in 1..synced : file'[i] = file[i]
  BY DEF SyncedKept
<1>3. Missing(Held, synced)' \subseteq Missing(Held, synced)
  BY <1>2 DEF Missing
<1>4. Closed(synced)' = Closed(synced)
  BY <1>1, <1>2 DEF Closed
<1>5. IsFiniteSet(Missing(Held, synced)) /\ IsFiniteSet(Closed(synced))
  BY <1>1, LossFinite, Smaller DEF Missing
<1>6. /\ Cardinality(Missing(Held, synced)') \in Nat
      /\ Cardinality(Missing(Held, synced)) \in Nat
      /\ Cardinality(Missing(Held, synced)') <= Cardinality(Missing(Held, synced))
  BY <1>3, <1>5, Smaller
<1>7. Cardinality(Closed(synced)) \in Nat
  BY <1>5, FS_CardinalityType
<1>8. QED
  BY <1>4, <1>6, <1>7 DEF LossInv

(* The steps that leave the file alone and hold no further receipt. *)
LEMMA LossSame ==
    ASSUME KeptInv, LossInv, KeptInv', UNCHANGED <<file, sealed, synced>>,
           Held' \subseteq Held,
           \A t \in Thread :
              pc'[t] = "written" => pc[t] = "written" /\ rec'[t] = rec[t]
    PROVE  LossInv'
<1>1. SyncedKept
  BY LenProperties DEF SyncedKept, KeptInv, TypeOK
<1>2. Cardinality(Missing(Held, synced)') <= Cardinality(Closed(synced)')
  BY <1>1, LossSynced
<1>3. ASSUME NEW t \in Thread, pc'[t] = "written"
      PROVE  Cardinality(Missing(Held \cup {rec[t].root}, Len(file))')
                <= Cardinality(Closed(Len(file))')
  <2> DEFINE M == Missing(Held \cup {rec[t].root}, Len(file))
  <2>1. pc[t] = "written" /\ rec'[t] = rec[t] /\ Len(file) \in Nat
    BY <1>3, LenProperties DEF KeptInv, TypeOK
  <2>2. M' \subseteq M /\ Closed(Len(file))' = Closed(Len(file))
    BY <2>1 DEF Missing, Closed
  <2>3. IsFiniteSet(M) /\ IsFiniteSet(Closed(Len(file)))
    <3>1. IsFiniteSet(Held \cup {rec[t].root})
      BY LossFinite, FS_AddElement
    <3>2. M \subseteq Held \cup {rec[t].root}
      BY DEF Missing
    <3>3. IsFiniteSet(M)
      BY <3>1, <3>2, Smaller
    <3>4. QED
      BY <2>1, <3>3, LossFinite
  <2>4. Cardinality(M') \in Nat /\ Cardinality(M) \in Nat
        /\ Cardinality(M') <= Cardinality(M)
    <3> HIDE DEF M
    <3>1. QED
      BY <2>2, <2>3, Smaller
  <2>5. Cardinality(Closed(Len(file))) \in Nat
    BY <2>3, FS_CardinalityType
  <2>6. Cardinality(M) <= Cardinality(Closed(Len(file)))
    BY <2>1 DEF LossInv
  <2>7. QED
    BY <2>2, <2>4, <2>5, <2>6
<1>4. QED
  BY <1>2, <1>3 DEF LossInv

LEMMA LossFsync == ASSUME WholeInv, NEW t \in Thread, Fsync(t) PROVE LossInv'
<1> DEFINE M == Missing(Held \cup {rec[t].root}, Len(file))
<1>1. /\ pc[t] = "written" /\ pc'[t] = "synced" /\ synced' = Len(file)
      /\ \A u \in Thread : u # t => pc'[u] = pc[u]
      /\ UNCHANGED <<file, sealed, rec, reported>> /\ Len(file) \in Nat
  BY LenProperties DEF WholeInv, DamageInv, KeptInv, TypeOK, Fsync, Goto, counters
<1>2. \A u \in Thread : pc'[u] # "written"
  BY <1>1 DEF WholeInv, DamageInv, KeptInv, LockInv, Critical
<1>3. Held' \subseteq Held \cup {rec[t].root}
  BY <1>1 DEF Held
<1>4. Missing(Held, synced)' \subseteq M /\ Closed(synced)' = Closed(Len(file))
  BY <1>1, <1>3 DEF Missing, Closed
<1>5. IsFiniteSet(M) /\ IsFiniteSet(Closed(Len(file)))
  <2>1. IsFiniteSet(Held \cup {rec[t].root})
    BY LossFinite, FS_AddElement DEF WholeInv, DamageInv
  <2>2. M \subseteq Held \cup {rec[t].root}
    BY DEF Missing
  <2>3. IsFiniteSet(M)
    BY <2>1, <2>2, Smaller
  <2>4. QED
    BY <1>1, <2>3, LossFinite DEF WholeInv, DamageInv
<1>6. Cardinality(M) <= Cardinality(Closed(Len(file)))
  BY <1>1 DEF WholeInv, LossInv
<1>7. Cardinality(Missing(Held, synced)') <= Cardinality(Closed(synced)')
  <2> HIDE DEF M
  <2>1. /\ Cardinality(Missing(Held, synced)') \in Nat /\ Cardinality(M) \in Nat
        /\ Cardinality(Missing(Held, synced)') <= Cardinality(M)
    BY <1>4, <1>5, Smaller
  <2>2. Cardinality(Closed(Len(file))) \in Nat
    BY <1>5, FS_CardinalityType
  <2>3. QED
    BY <1>4, <1>6, <2>1, <2>2
<1>8. QED
  BY <1>2, <1>7 DEF LossInv

(* The write of a record adds no more to the missing receipts than to the *)
(* closed lines.                                                          *)
LEMMA LossWrite == ASSUME WholeInv, NEW t \in Thread, Write(t) PROVE LossInv'
<1> DEFINE M == Missing(Held, synced)
           C == Closed(synced)
           N == Missing(Held \cup {rec[t].root}, Len(file))'
           D == Closed(Len(file))'
<1>1. /\ file \in Seq(Line) /\ Len(file) \in Nat /\ synced \in Nat
      /\ synced <= Len(file) /\ rec[t] \in Line
      /\ ~sealed => synced < Len(file)
      /\ ~sealed => Len(file) > 0
  BY LenProperties DEF WholeInv, DamageInv, KeptInv, TypeOK, TailInv
<1>2. /\ pc[t] = "linked" /\ pc'[t] = "written"
      /\ \A u \in Thread : u # t => pc'[u] = pc[u]
      /\ UNCHANGED <<rec, synced, reported>>
  BY DEF WholeInv, DamageInv, KeptInv, TypeOK, Write, Goto, counters
<1>3. file' = Put(rec[t]) /\ sealed'
  BY DEF Write
<1>4. \A u \in Thread : pc'[u] = "written" => u = t
  BY <1>2 DEF WholeInv, DamageInv, KeptInv, LockInv, Critical
<1>5. Held' = Held
  BY <1>2 DEF Held
<1>6. SyncedKept
  BY <1>1, <1>3, PutKeepsSynced DEF WholeInv, DamageInv
<1>7. Cardinality(Missing(Held, synced)') <= Cardinality(Closed(synced)')
  BY <1>2, <1>5, <1>6, KeptWrite, LossSynced DEF WholeInv, DamageInv
<1>8. /\ Len(file') = IF sealed THEN Len(file) + 1 ELSE Len(file)
      /\ \A i \in 1..Len(file) :
            sealed \/ i # Len(file) => file'[i] = file[i]
      /\ sealed => file'[Len(file) + 1] = rec[t]
      /\ ~sealed => file'[Len(file)] = Garbled
  BY <1>1, <1>3, PutLine
<1>9. \A i \in 1..synced : i \in 1..Len(file) /\ i \in 1..Len(file')
                           /\ file'[i] = file[i]
  BY <1>1, <1>8
<1>10. IsFiniteSet(M) /\ IsFiniteSet(C) /\ IsFiniteSet(D)
  <2>1. M \subseteq Held
    BY DEF Missing
  <2>2. IsFiniteSet(M)
    BY <2>1, LossFinite, Smaller DEF WholeInv, DamageInv
  <2>3. IsFiniteSet(C)
    BY <1>1, LossFinite DEF WholeInv, DamageInv
  <2>4. Len(file') \in Nat /\ D \subseteq 1..Len(file')
    BY <1>1, <1>8 DEF Closed
  <2>5. IsFiniteSet(1..Len(file'))
    BY <2>4, FS_Interval
  <2>6. IsFiniteSet(D)
    BY <2>4, <2>5, Smaller
  <2>7. QED
    BY <2>2, <2>3, <2>6
<1>11. Cardinality(M) <= Cardinality(C)
  BY DEF WholeInv, LossInv
<1>12. /\ Cardinality(M) \in Nat /\ Cardinality(C) \in Nat /\ Cardinality(D) \in Nat
  BY <1>10, FS_CardinalityType
<1>13. C \subseteq D
  <2> SUFFICES ASSUME NEW i \in C PROVE i \in D
    OBVIOUS
  <2>1. i \in 1..synced /\ file[i] = Garbled
    BY DEF Closed
  <2>2. i \in 1..Len(file') /\ file'[i] = Garbled
    BY <1>9, <2>1
  <2>3. QED
    BY <1>3, <2>2 DEF Closed
<1>14. N \subseteq M \cup {rec[t].root}
  <2> SUFFICES ASSUME NEW r \in N, r # rec[t].root PROVE r \in M
    OBVIOUS
  <2>1. r \in Held /\ \A i \in 1..Len(file') : file'[i].root # r
    BY <1>2, <1>5 DEF Missing
  <2>2. QED
    BY <1>9, <2>1 DEF Missing
<1>15. Cardinality(N) <= Cardinality(D)
  <2>1. CASE sealed
    <3>1. Len(file) + 1 \in 1..Len(file') /\ file'[Len(file) + 1] = rec[t]
      BY <1>1, <1>8, <2>1
    <3>2. rec[t].root \notin N
      BY <1>2, <3>1 DEF Missing
    <3>3. N \subseteq M
      BY <1>14, <3>2
    <3> HIDE DEF M, C, N, D
    <3>4. Cardinality(N) \in Nat /\ Cardinality(N) <= Cardinality(M)
      BY <1>10, <3>3, Smaller
    <3>5. Cardinality(C) <= Cardinality(D)
      BY <1>10, <1>13, Smaller
    <3>6. QED
      BY <1>11, <1>12, <3>4, <3>5
  <2>2. CASE ~sealed
    <3>1. Len(file) \in 1..Len(file') /\ file'[Len(file)] = Garbled
      BY <1>1, <1>8, <2>2
    <3>2. Len(file) \in D
      BY <1>3, <3>1 DEF Closed
    <3>3. Len(file) \notin C
      BY <1>1, <2>2 DEF Closed
    <3> HIDE DEF M, C, N, D
    <3>4. /\ IsFiniteSet(M \cup {rec[t].root})
          /\ \/ Cardinality(M \cup {rec[t].root}) = Cardinality(M)
             \/ Cardinality(M \cup {rec[t].root}) = Cardinality(M) + 1
      BY <1>10, FS_AddElement
    <3>5. Cardinality(C \cup {Len(file)}) = Cardinality(C) + 1
      BY <1>10, <3>3, FS_AddElement
    <3>6. Cardinality(N) \in Nat
          /\ Cardinality(N) <= Cardinality(M \cup {rec[t].root})
      BY <1>14, <3>4, Smaller
    <3>7. Cardinality(C \cup {Len(file)}) <= Cardinality(D)
      <4>1. C \cup {Len(file)} \subseteq D
        BY <1>13, <3>2
      <4>2. QED
        BY <1>10, <4>1, Smaller
    <3>8. QED
      BY <1>11, <1>12, <3>4, <3>5, <3>6, <3>7
  <2>3. QED
    BY <2>1, <2>2
<1>16. QED
  BY <1>4, <1>7, <1>15 DEF LossInv

LEMMA LossStep == WholeInv /\ [Next]_vars => WholeInv'
<1> SUFFICES ASSUME WholeInv, [Next]_vars PROVE LossInv'
  BY DamageStep DEF WholeInv
<1>1. KeptInv /\ KeptInv' /\ LossInv
  BY KeptStep DEF WholeInv, DamageInv
<1>2. CASE Crash
  <2>1. SyncedKept
    BY <1>1, <1>2, CrashKeepsSynced
  <2>2. /\ synced' = synced /\ Held' \subseteq Held
        /\ \A t \in Thread : pc'[t] # "written"
    BY <1>2 DEF Crash, Held
  <2>3. QED
    BY <1>1, <2>1, <2>2, LossSynced DEF LossInv
<1>3. ASSUME NEW t \in Thread, WriteFails(t) PROVE LossInv'
  <2>1. SyncedKept
    <3>1. rec[t] \in Line /\ Garbled \in Line
      BY <1>1, BoundsAssumption DEF KeptInv, TypeOK, Garbled, Genesis, Line
    <3>2. CASE file' = file
      BY <1>1, <3>2, LenProperties DEF KeptInv, TypeOK, SyncedKept
    <3>3. QED
      BY <1>1, <1>3, <3>1, <3>2, PutKeepsSynced DEF WriteFails
  <2>2. synced' = synced /\ Held' \subseteq Held
    BY <1>1, <1>3 DEF KeptInv, TypeOK, WriteFails, Raise, Goto, Held
  <2>3. \A u \in Thread : pc'[u] # "written"
    BY <1>1, <1>3 DEF KeptInv, TypeOK, LockInv, Critical, WriteFails, Raise, Goto
  <2>4. QED
    BY <1>1, <2>1, <2>2, <2>3, LossSynced DEF LossInv
<1>4. ASSUME NEW t \in Thread,
             \/ Call(t) \/ Acquire(t) \/ ReadTip(t) \/ Release(t) \/ Report(t)
             \/ FsyncFails(t)
      PROVE  LossInv'
  <2>1. /\ UNCHANGED <<file, sealed, synced>>
        /\ \A u \in Thread : u # t => pc'[u] = pc[u] /\ rec'[u] = rec[u]
        /\ pc'[t] # "written"
    BY <1>1, <1>4 DEF KeptInv, TypeOK, Call, Acquire, ReadTip, Release, Report,
                      FsyncFails, Raise, Goto, counters
  <2>2. Held' \subseteq Held
    <3>1. CASE Call(t) \/ Acquire(t) \/ ReadTip(t) \/ FsyncFails(t)
      <4>1. reported' = reported /\ pc'[t] \notin {"synced", "reporting"}
        BY <1>1, <3>1 DEF KeptInv, TypeOK, Call, Acquire, ReadTip, FsyncFails,
                          Raise, Goto, counters
      <4>2. QED
        BY <2>1, <4>1 DEF Held
    <3>2. CASE Release(t) \/ Report(t)
      <4>1. /\ pc[t] \in {"synced", "reporting"} /\ rec' = rec
            /\ reported' \subseteq reported \cup {rec[t].root}
        BY <3>2 DEF Release, Report, Goto, counters
      <4>2. QED
        BY <2>1, <4>1 DEF Held
    <3>3. QED
      BY <1>4, <3>1, <3>2
  <2>3. QED
    BY <1>1, <2>1, <2>2, LossSame
<1>5. CASE UNCHANGED vars
  <2>1. UNCHANGED <<file, sealed, synced, pc, rec, reported>>
    BY <1>5 DEF vars
  <2>2. QED
    BY <1>1, <2>1, LossSame DEF Held
<1>6. QED
  BY <1>2, <1>3, <1>4, <1>5, LossFsync, LossWrite DEF Next, Step

LEMMA LossInit == Init => WholeInv
<1> SUFFICES ASSUME Init PROVE LossInv
  BY DamageInit DEF WholeInv
<1>1. Held = {} /\ synced = 0 /\ \A t \in Thread : pc[t] # "written"
  BY DEF Init, Held
<1>2. Missing(Held, synced) = {} /\ Closed(synced) = {}
  BY <1>1 DEF Missing, Closed
<1>3. QED
  BY <1>1, <1>2, FS_EmptySet DEF LossInv

(* Whatever crashes and tears, at most one returned receipt a tear is lost. *)
THEOREM LossIsBounded == Spec => []LossBounded
<1>1. WholeInv => LossBounded
  <2> SUFFICES ASSUME WholeInv PROVE LossBounded
    OBVIOUS
  <2> DEFINE Lost == {r \in reported : \A i \in 1..synced : file[i].root # r}
             M == Missing(Held, synced)
             C == Closed(synced)
  <2>1. KeptInv /\ synced \in Nat /\ Len(file) \in Nat /\ synced <= Len(file)
    BY LenProperties DEF WholeInv, DamageInv, KeptInv, TypeOK
  <2>2. Lost \subseteq M /\ M \subseteq Held
    BY DEF Missing, Held
  <2>3. C \subseteq Scars
    BY <2>1 DEF Closed, Scars
  <2>4. Cardinality(M) <= Cardinality(C) /\ Cardinality(Scars) <= tears
    BY DEF WholeInv, LossInv, DamageInv, ScarInv
  <2>5. IsFiniteSet(Scars) /\ tears \in Nat /\ IsFiniteSet(Held)
    BY <2>1, ScarsFinite, LossFinite
  <2>6. Cardinality(Lost) <= tears
    <3> HIDE DEF Lost, M, C
    <3>1. IsFiniteSet(M) /\ Cardinality(M) \in Nat
      BY <2>2, <2>5, Smaller
    <3>2. Cardinality(Lost) \in Nat /\ Cardinality(Lost) <= Cardinality(M)
      BY <2>2, <3>1, Smaller
    <3>3. /\ Cardinality(C) \in Nat /\ Cardinality(Scars) \in Nat
          /\ Cardinality(C) <= Cardinality(Scars)
      BY <2>3, <2>5, Smaller
    <3>4. QED
      BY <2>4, <2>5, <3>1, <3>2, <3>3
  <2>7. QED
    BY <2>6 DEF LossBounded
<1>2. QED
  BY <1>1, LossInit, LossStep, PTL DEF Spec

-----------------------------------------------------------------------------
(* Up to the first torn line the chain never breaks. *)

(* The types of the file and of the records, before the first tear. *)
LEMMA IntactFile ==
    ASSUME IntactInv
    PROVE  /\ file \in Seq(Line) /\ Len(file) \in Nat /\ synced \in 0..Len(file)
           /\ \A i \in 1..Len(file) : file[i] \in Line
           /\ \A t \in Thread : rec[t] \in Line
BY LenProperties, ElementOfSeq DEF IntactInv, KeptInv, TypeOK

LEMMA IntactInit == Init => IntactInv
<1> SUFFICES ASSUME Init PROVE FreshInv /\ ChainInv
  BY KeptInit DEF IntactInv
<1>1. Len(file) = 0
  BY EmptySeq DEF Init
<1>2. QED
  BY <1>1 DEF Init, FreshInv, ChainInv, Linked, Pending

LEMMA IntactCall == ASSUME IntactInv, NEW t \in Thread, Call(t) PROVE IntactInv'
<1>1. calls \in Nat /\ calls' = calls + 1 /\ file' = file /\ synced' = synced
  BY BoundsAssumption DEF IntactInv, KeptInv, TypeOK, Call
<1>2. /\ pc' = [pc EXCEPT ![t] = "waiting"] /\ pc[t] = "idle"
      /\ rec'[t].root = calls + 1
      /\ \A u \in Thread : u # t => rec'[u] = rec[u] /\ pc'[u] = pc[u]
      /\ pc'[t] = "waiting"
  BY DEF IntactInv, KeptInv, TypeOK, Call, Goto
<1>3. FreshInv'
  BY <1>1, <1>2, IntactFile DEF IntactInv, FreshInv, Pending
<1>4. ChainInv'
  BY <1>1, <1>2 DEF IntactInv, ChainInv, Covered, Linked, Tip, Call
<1>5. QED
  BY <1>3, <1>4, KeptCall DEF IntactInv

LEMMA IntactReadTip ==
    ASSUME IntactInv, NEW t \in Thread, ReadTip(t) PROVE IntactInv'
<1>1. /\ pc[t] = "locked" /\ pc'[t] = "linked"
      /\ \A u \in Thread : u # t => rec'[u] = rec[u] /\ pc'[u] = pc[u]
      /\ rec'[t].prev = Tip(file) /\ \A u \in Thread : rec'[u].root = rec[u].root
      /\ UNCHANGED <<file, sealed, synced, reported, calls, tears>>
  BY DEF IntactInv, KeptInv, TypeOK, Line, ReadTip, Goto, counters
<1>2. FreshInv'
  BY <1>1 DEF IntactInv, FreshInv, Pending
<1>3. ChainInv'
  BY <1>1 DEF IntactInv, ChainInv, Covered, Linked, Tip
<1>4. QED
  BY <1>2, <1>3, KeptReadTip DEF IntactInv

(* Appending a record that links to the tip keeps the file linked. *)
LEMMA AppendLinks ==
    ASSUME file \in Seq(Line), Linked(file), NEW line \in Line,
           line.prev = Tip(file), file' = Append(file, line)
    PROVE  Linked(file)'
<1>1. /\ Len(file) \in Nat /\ Len(file') = Len(file) + 1
      /\ \A i \in 1..Len(file) : file'[i] = file[i]
      /\ file'[Len(file) + 1] = line
  BY LenProperties, AppendProperties
<1>2. Tip(file) = IF Len(file) = 0 THEN Genesis ELSE file[Len(file)].root
  BY EmptySeq DEF Tip
<1>3. QED
  BY <1>1, <1>2 DEF Linked, Genesis

LEMMA IntactWrite ==
    ASSUME IntactInv, NEW t \in Thread, Write(t) PROVE IntactInv'
<1>1. file' = Append(file, rec[t])
  BY DEF IntactInv, ChainInv, Write, Put
<1>2. /\ Len(file) \in Nat /\ Len(file') = Len(file) + 1
      /\ \A i \in 1..Len(file) : file'[i] = file[i]
      /\ file'[Len(file) + 1] = rec[t]
  BY <1>1, IntactFile, AppendProperties
<1>3. /\ pc[t] = "linked" /\ pc'[t] = "written"
      /\ \A u \in Thread : u # t => pc'[u] = pc[u]
      /\ sealed'
      /\ UNCHANGED <<rec, synced, reported, calls, tears>>
  BY DEF IntactInv, KeptInv, TypeOK, Write, Goto, counters
<1>4. \A u \in Thread : pc[u] \in {"linked", "written"} => u = t
  BY <1>3 DEF IntactInv, KeptInv, LockInv, Critical
<1>5. FreshInv'
  <2>1. \A i \in 1..Len(file') : file'[i].root \in 1..calls'
    BY <1>2, <1>3 DEF IntactInv, FreshInv
  <2>2. \A u \in Thread : pc'[u] \in Pending =>
           \A i \in 1..Len(file') : file'[i].root # rec'[u].root
    BY <1>2, <1>3 DEF IntactInv, FreshInv, Pending
  <2>3. QED
    BY <1>3, <2>1, <2>2 DEF IntactInv, FreshInv
<1>6. ChainInv'
  <2>1. Linked(file)'
    BY <1>1, <1>3, AppendLinks, IntactFile DEF IntactInv, ChainInv
  <2>2. \A r, n : n \in 0..Len(file) /\ Covered(r, n) => Covered(r, n)'
    BY <1>2 DEF Covered
  <2>3. Covered(rec[t].root, Len(file))'
    BY <1>2, <1>3 DEF Covered
  <2>4. \A u \in Thread : pc'[u] = "linked" => FALSE
    BY <1>3, <1>4
  <2>5. \A u \in Thread : pc'[u] = "written" => u = t
    BY <1>3, <1>4
  <2>6. \A r : Covered(r, synced) => Covered(r, synced)'
    BY <1>3, <2>2, IntactFile
  <2>7. QED
    BY <1>3, <2>1, <2>3, <2>4, <2>5, <2>6 DEF IntactInv, ChainInv
<1>7. QED
  BY <1>5, <1>6, KeptWrite DEF IntactInv

LEMMA IntactAcquire ==
    ASSUME IntactInv, NEW t \in Thread, Acquire(t) PROVE IntactInv'
<1>1. /\ pc[t] = "waiting" /\ pc'[t] = "locked"
      /\ \A u \in Thread : u # t => pc'[u] = pc[u]
      /\ UNCHANGED <<file, sealed, synced, rec, reported, calls, tears>>
  BY DEF IntactInv, KeptInv, TypeOK, Acquire, Goto, counters
<1>2. FreshInv'
  BY <1>1 DEF IntactInv, FreshInv, Pending
<1>3. ChainInv'
  BY <1>1 DEF IntactInv, ChainInv, Covered, Linked, Tip
<1>4. QED
  BY <1>2, <1>3, KeptAcquire DEF IntactInv

LEMMA IntactFsync ==
    ASSUME IntactInv, NEW t \in Thread, Fsync(t) PROVE IntactInv'
<1>1. /\ pc[t] = "written" /\ pc'[t] = "synced" /\ synced' = Len(file)
      /\ \A u \in Thread : u # t => pc'[u] = pc[u]
      /\ UNCHANGED <<file, sealed, rec, reported, calls, tears>>
  BY DEF IntactInv, KeptInv, TypeOK, Fsync, Goto, counters
<1>2. FreshInv'
  BY <1>1 DEF IntactInv, FreshInv, Pending
<1>3. \A r : Covered(r, synced) => Covered(r, synced)'
  BY <1>1, IntactFile DEF Covered
<1>4. Covered(rec[t].root, synced)'
  BY <1>1 DEF IntactInv, ChainInv, Covered
<1>5. ChainInv'
  <2>1. \A u \in Thread : pc'[u] = "written" => Covered(rec[u].root, Len(file))'
    BY <1>1 DEF IntactInv, ChainInv, Covered
  <2>2. \A u \in Thread : pc'[u] \in {"synced", "reporting"} =>
           Covered(rec[u].root, synced)'
    BY <1>1, <1>3, <1>4 DEF IntactInv, ChainInv
  <2>3. \A r \in reported' : Covered(r, synced)'
    BY <1>1, <1>3 DEF IntactInv, ChainInv
  <2>4. /\ sealed' /\ tears' = 0 /\ Linked(file)'
        /\ \A u \in Thread : pc'[u] = "linked" => rec'[u].prev = Tip(file)'
    BY <1>1 DEF IntactInv, ChainInv, Linked, Tip
  <2>5. QED
    BY <2>1, <2>2, <2>3, <2>4 DEF ChainInv
<1>6. QED
  BY <1>2, <1>5, KeptFsync DEF IntactInv

LEMMA IntactRelease ==
    ASSUME IntactInv, NEW t \in Thread, Release(t) PROVE IntactInv'
<1>1. /\ pc[t] = "synced" /\ pc'[t] = "reporting"
      /\ \A u \in Thread : u # t => pc'[u] = pc[u]
      /\ UNCHANGED <<file, sealed, synced, rec, reported, calls, tears>>
  BY DEF IntactInv, KeptInv, TypeOK, Release, Goto, counters
<1>2. FreshInv'
  BY <1>1 DEF IntactInv, FreshInv, Pending
<1>3. ChainInv'
  BY <1>1 DEF IntactInv, ChainInv, Covered, Linked, Tip
<1>4. QED
  BY <1>2, <1>3, KeptRelease DEF IntactInv

LEMMA IntactReport ==
    ASSUME IntactInv, NEW t \in Thread, Report(t) PROVE IntactInv'
<1>1. /\ pc[t] = "reporting" /\ pc'[t] = "idle"
      /\ \A u \in Thread : u # t => pc'[u] = pc[u]
      /\ reported' = reported \cup {rec[t].root}
      /\ UNCHANGED <<file, sealed, synced, rec, calls, tears>>
  BY DEF IntactInv, KeptInv, TypeOK, Report, Goto, counters
<1>2. FreshInv'
  BY <1>1 DEF IntactInv, FreshInv, Pending
<1>3. ChainInv'
  BY <1>1 DEF IntactInv, ChainInv, Covered, Linked, Tip
<1>4. QED
  BY <1>2, <1>3, KeptReport DEF IntactInv

(* An error return only sends its thread back: without a tear the file is *)
(* as it was.                                                             *)
LEMMA IntactRaise ==
    ASSUME tears' = 0, IntactInv, NEW t \in Thread,
           WriteFails(t) \/ FsyncFails(t)
    PROVE  IntactInv'
<1>1. tears' # tears + 1
  BY DEF IntactInv, ChainInv
<1>2. /\ pc'[t] = "idle"
      /\ \A u \in Thread : u # t => pc'[u] = pc[u]
      /\ UNCHANGED <<file, sealed, synced, rec, reported, calls, tears>>
  BY <1>1 DEF IntactInv, KeptInv, TypeOK, WriteFails, FsyncFails, Raise, Goto
<1>3. FreshInv'
  BY <1>2 DEF IntactInv, FreshInv, Pending
<1>4. ChainInv'
  BY <1>2 DEF IntactInv, ChainInv, Covered, Linked, Tip
<1>5. QED
  BY <1>3, <1>4, KeptWriteFails, KeptFsyncFails DEF IntactInv

(* A crash that tears no line leaves a prefix that holds at least what    *)
(* was synced.                                                            *)
LEMMA IntactCrashFile ==
    ASSUME tears' = 0, IntactInv, Crash
    PROVE  /\ UNCHANGED <<synced, reported, rec, calls, tears>> /\ sealed'
           /\ \A t \in Thread : pc'[t] = "idle"
           /\ \E k \in synced..Len(file) :
                 /\ file' = SubSeq(file, 1, k) /\ Len(file') = k
                 /\ \A i \in 1..k : file'[i] = file[i]
<1>1. sealed /\ tears' # tears + 1
  BY DEF IntactInv, ChainInv
<1>2. PICK k \in synced..Len(file) :
         file' = SubSeq(file, 1, k) /\ sealed' /\ tears' = tears
  BY <1>1 DEF Crash
<1>3. k \in 0..Len(file)
  BY IntactFile
<1>4. Len(file') = k /\ \A i \in 1..k : file'[i] = file[i]
  BY <1>2, <1>3, IntactFile, Prefix
<1>5. QED
  BY <1>2, <1>4 DEF Crash

LEMMA IntactCrash ==
    ASSUME tears' = 0, IntactInv, Crash PROVE IntactInv'
<1>1. PICK k \in synced..Len(file) :
         Len(file') = k /\ \A i \in 1..k : file'[i] = file[i]
  BY IntactCrashFile
<1>2. k \in Nat /\ k <= Len(file) /\ synced <= k /\ Len(file) \in Nat
      /\ synced \in Nat
  BY IntactFile
<1>3. FreshInv'
  BY <1>1, <1>2, IntactCrashFile DEF IntactInv, FreshInv, Pending
<1>4. Linked(file)'
  <2>1. \A i \in 1..k : i \in 1..Len(file) /\ (i # 1 => i - 1 \in 1..k)
    BY <1>2
  <2>2. QED
    BY <1>1, <2>1 DEF IntactInv, ChainInv, Linked
<1>5. \A r \in reported : Covered(r, synced)'
  BY <1>1, <1>2, IntactCrashFile DEF IntactInv, ChainInv, Covered
<1>6. ChainInv'
  <2>1. sealed' /\ tears' = 0 /\ reported' = reported
        /\ \A t \in Thread : pc'[t] = "idle"
    BY IntactCrashFile DEF IntactInv, ChainInv
  <2>2. QED
    BY <1>4, <1>5, <2>1 DEF ChainInv
<1>7. QED
  BY <1>3, <1>6, KeptCrash DEF IntactInv

LEMMA IntactStep == tears' = 0 /\ IntactInv /\ [Next]_vars => IntactInv'
<1> SUFFICES ASSUME tears' = 0, IntactInv, [Next]_vars PROVE IntactInv'
  OBVIOUS
<1>1. CASE Crash
  BY <1>1, IntactCrash
<1>2. ASSUME NEW t \in Thread, Call(t) \/ Step(t) PROVE IntactInv'
  BY <1>2, IntactCall, IntactAcquire, IntactReadTip, IntactWrite, IntactFsync,
     IntactRelease, IntactReport, IntactRaise DEF Step
<1>3. CASE UNCHANGED vars
  <2>0. UNCHANGED <<file, sealed, synced, pc, rec, reported, calls, tears>>
    BY <1>3 DEF vars
  <2>1. FreshInv' /\ ChainInv'
    BY <2>0 DEF IntactInv, FreshInv, ChainInv, Covered, Linked, Tip, Pending
  <2>2. QED
    BY <1>3, <2>1, KeptStep DEF IntactInv
<1>4. QED
  BY <1>1, <1>2, <1>3 DEF Next

(* What holds up to the first tear, as an invariant of every behaviour. *)
UntornInv == KeptInv /\ (tears = 0 => IntactInv)

LEMMA UntornInit == Init => UntornInv
BY KeptInit, IntactInit DEF UntornInv

(* A line once torn is never forgotten. *)
LEMMA TearsGrow == KeptInv /\ [Next]_vars /\ tears' = 0 => tears = 0
<1> SUFFICES ASSUME KeptInv, [Next]_vars, tears' = 0 PROVE tears = 0
  OBVIOUS
<1>1. tears \in Nat
  BY DEF KeptInv, TypeOK
<1>2. tears' = tears \/ tears' = tears + 1
  BY DEF Next, Step, vars, counters, Call, Acquire, ReadTip, Write, Fsync, Release,
         Report, WriteFails, FsyncFails, Raise, Crash
<1>3. QED
  BY <1>1, <1>2

LEMMA UntornStep == UntornInv /\ [Next]_vars => UntornInv'
BY KeptStep, TearsGrow, IntactStep DEF UntornInv

(* Until a line is torn no crash takes back a receipt that was returned. *)
THEOREM ReportedReceiptsAreDurable ==
    Spec => [](tears = 0 => \A r \in reported : Covered(r, synced))
<1>1. UntornInv => (tears = 0 => \A r \in reported : Covered(r, synced))
  BY DEF UntornInv, IntactInv, ChainInv
<1>2. QED
  BY <1>1, UntornInit, UntornStep, PTL DEF Spec

-----------------------------------------------------------------------------
(* Up to the first tear each step of the log is a step of the proof chain. *)

LEMMA WriteExtends ==
    ASSUME IntactInv, NEW t \in Thread, Write(t)
    PROVE  \E r \in Roots : Chain!Extend(r)
<1>1. /\ file' = Append(file, rec[t]) /\ reported' = reported
      /\ pc[t] = "linked"
  BY DEF IntactInv, ChainInv, Write, Put, Goto
<1>2. rec[t].root \in Roots /\ rec[t].root \notin Chain!RootsOf(file)
  BY <1>1 DEF IntactInv, FreshInv, Pending, KeptInv, RootInv, Chain!RootsOf
<1>3. rec[t] = [prev |-> Chain!TipOf(file), root |-> rec[t].root]
  <2>1. rec[t].prev = Chain!TipOf(file)
    BY <1>1 DEF IntactInv, ChainInv, Tip, Chain!TipOf
  <2>2. QED
    BY <2>1, IntactFile DEF Line
<1>4. QED
  BY <1>1, <1>2, <1>3 DEF Chain!Extend

LEMMA ReportReports ==
    ASSUME IntactInv, NEW t \in Thread, Report(t)
    PROVE  \E r \in Roots : Chain!Report(r)
<1>1. /\ reported' = reported \cup {rec[t].root} /\ file' = file
      /\ pc[t] = "reporting"
  BY DEF Report, Goto
<1>2. rec[t].root \in Roots /\ Covered(rec[t].root, synced)
  BY <1>1 DEF IntactInv, ChainInv, KeptInv, RootInv
<1>3. rec[t].root \in Chain!RootsOf(file)
  BY <1>2, IntactFile DEF Covered, Chain!RootsOf
<1>4. QED
  BY <1>1, <1>2, <1>3 DEF Chain!Report

LEMMA CrashLoses ==
    ASSUME tears' = 0, IntactInv, Crash
    PROVE  \E k \in 0..Len(file) : Chain!Lose(k)
<1>1. PICK k \in synced..Len(file) :
         /\ file' = SubSeq(file, 1, k) /\ Len(file') = k
         /\ \A i \in 1..k : file'[i] = file[i]
  BY IntactCrashFile
<1>2. k \in 0..Len(file) /\ \A i \in 1..synced : i \in 1..k
  BY IntactFile
<1>3. reported \subseteq Chain!RootsOf(file')
  BY <1>1, <1>2 DEF IntactInv, ChainInv, Covered, Chain!RootsOf
<1>4. QED
  BY <1>1, <1>2, <1>3, IntactCrashFile DEF Chain!Lose

LEMMA StepRefines ==
    tears' = 0 /\ IntactInv /\ [Next]_vars => [Chain!Next]_(Chain!vars)
<1> SUFFICES ASSUME tears' = 0, IntactInv, Next
             PROVE  Chain!Next \/ UNCHANGED <<file, reported>>
  BY DEF vars, Chain!vars
<1>1. CASE Crash
  BY <1>1, CrashLoses DEF Chain!Next
<1>2. ASSUME NEW t \in Thread, Write(t) PROVE Chain!Next
  BY <1>2, WriteExtends DEF Chain!Next
<1>3. ASSUME NEW t \in Thread, Report(t) PROVE Chain!Next
  BY <1>3, ReportReports DEF Chain!Next
<1>4. ASSUME NEW t \in Thread, WriteFails(t) PROVE UNCHANGED <<file, reported>>
  BY <1>4 DEF IntactInv, ChainInv, WriteFails, Raise
<1>5. QED
  BY <1>1, <1>2, <1>3, <1>4
     DEF Next, Step, Call, Acquire, ReadTip, Fsync, Release, FsyncFails, Raise

(* Until a line is torn the receipt log implements the proof chain. *)
THEOREM LogImplementsChain == Spec => ImplementsProofChain
<1>1. Init => Chain!Init
  BY DEF Init, Chain!Init
<1>2. UntornInv /\ [Next]_vars =>
         [tears' = 0 => [Chain!Next]_(Chain!vars)]_vars
  BY TearsGrow, StepRefines DEF UntornInv
<1>3. QED
  BY <1>1, <1>2, UntornInit, UntornStep, PTL DEF Spec, ImplementsProofChain
=============================================================================
