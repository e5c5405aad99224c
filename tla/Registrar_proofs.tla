-------------------------- MODULE Registrar_proofs --------------------------
(***************************************************************************)
(* Proofs about Registrar, for any set of processes, names and bounds.     *)
(*                                                                         *)
(* The argument: between BEGIN IMMEDIATE and the commit a process holds    *)
(* the write lock (LockInv), so no other commit comes between its check    *)
(* and its own commit, and what the check found still holds (CheckInv).    *)
(* Hence each commit is an atomic call, no serial is taken back, and       *)
(* nothing is unregistered.  What a job has committed so far stays         *)
(* (ProgressInv, KeptInv), and is found as long as no zone is registered   *)
(* under the record's own name, the only one closer to it than its own.    *)
(***************************************************************************)
EXTENDS Registrar, SequenceTheorems, WellFoundedInduction, TLAPS

LockInv == \A c \in Client : stage[c] \in {"open", "checked"} => writer = c

CheckInv == \A c \in Client : stage[c] = "checked" => ~ Raises(At(c), db)

SafeInv == TypeOK /\ LockInv /\ CheckInv

-----------------------------------------------------------------------------
(* Every job is a sequence of calls, and has a first one. *)
LEMMA JobType ==
    ASSUME now \in 1..MaxHour, NEW j \in Jobs
    PROVE  j \in Seq(Call) /\ 1 \in 1..Len(j)
<1>1. InitDb \in Call
  BY DEF InitDb, Call
<1>2. \A n \in Name, ip \in Addr : Domain(n, ip) \in Call
  BY DEF Domain, Call
<1>3. \A n \in Name, s \in 1..MaxSerial : Zone(n, s) \in Call
  BY DEF Zone, Call
<1>4. \A z, n \in Name, t \in Type, v \in Addr \cup Name :
         Upsert(z, n, t, v) \in Call
  BY DEF Upsert, Call, Record
<1>5. "A" \in Type /\ "NS" \in Type
  BY DEF Type
<1>6. SeedSerial(now) \in 1..MaxSerial /\ DefaultSerial(now) \in 1..MaxSerial
  BY SerialAssumption
<1>7. ASSUME NEW node \in Node, NEW ip \in NodeAddr,
             j = SeedJob(node, ip, SeedSerial(now))
      PROVE  j \in Seq(Call) /\ 1 \in 1..Len(j)
  BY <1>1, <1>3, <1>4, <1>5, <1>6, <1>7, NameAssumption, AddrAssumption
     DEF SeedJob
<1>8. CASE j = SelfTestJob
  BY <1>1, <1>3, <1>4, <1>5, <1>8, NameAssumption, SerialAssumption,
     DbAssumption DEF SelfTestJob
<1>9. ASSUME NEW d \in SectorDomain, NEW ip \in SectorAddr, NEW s \in 1..MaxSerial,
             j = SectorJob(d, ip, s)
      PROVE  j \in Seq(Call) /\ 1 \in 1..Len(j)
  BY <1>1, <1>2, <1>3, <1>4, <1>5, <1>9, NameAssumption, AddrAssumption
     DEF SectorJob
<1>10. QED
  BY <1>6, <1>7, <1>8, <1>9, SerialAssumption DEF Jobs

(* What a call does to a well-typed database. *)
LEMMA ApplyType ==
    ASSUME NEW d \in Database, NEW call \in Call, ~ Raises(call, d)
    PROVE  /\ Apply(call, d) \in Database
           /\ \A n \in Name : Apply(call, d).serial[n] >= d.serial[n]
<1>1. /\ d.serial \in [Name -> 0..MaxSerial]
      /\ d.route \in [Name -> Addr \cup {NoAddr}]
      /\ d.records \subseteq Record
      /\ d = [serial |-> d.serial, route |-> d.route, records |-> d.records]
  BY DEF Database
<1>2. CASE call.op = "init"
  <2>1. Apply(call, d) = WithDefaults(d)
    BY <1>2 DEF Apply
  <2>2. WithDefaults(d).route \in [Name -> Addr \cup {NoAddr}]
    BY <1>1, DbAssumption DEF WithDefaults
  <2>3. /\ WithDefaults(d).serial = d.serial
        /\ WithDefaults(d).records = d.records
        /\ WithDefaults(d) = [serial |-> d.serial,
                              route |-> WithDefaults(d).route,
                              records |-> d.records]
    BY <1>1 DEF WithDefaults
  <2>4. QED
    BY <1>1, <2>1, <2>2, <2>3, DbAssumption DEF Database
<1>3. CASE call.op = "domain"
  <2>1. call.name \in Name /\ call.ip \in Addr
    BY <1>3 DEF Call, InitDb
  <2>2. Apply(call, d) = [d EXCEPT !.route[call.name] = call.ip]
    BY <1>3 DEF Apply
  <2>3. QED
    BY <1>1, <2>1, <2>2, DbAssumption DEF Database
<1>4. CASE call.op = "zone"
  <2>1. /\ call.name \in Name /\ call.serial \in 1..MaxSerial
        /\ ~ (call.serial < d.serial[call.name])
    BY <1>4 DEF Call, InitDb, Raises
  <2>2. Apply(call, d) = [d EXCEPT !.serial[call.name] = call.serial]
    BY <1>4 DEF Apply
  <2>3. QED
    BY <1>1, <2>1, <2>2, DbAssumption DEF Database
<1>5. CASE call.op = "record"
  <2>1. call.row \in Record
    BY <1>5 DEF Call, InitDb
  <2>2. Apply(call, d) = [d EXCEPT !.records = d.records \cup {call.row}]
    BY <1>5 DEF Apply
  <2>3. QED
    BY <1>1, <2>1, <2>2, DbAssumption DEF Database
<1>6. QED
  BY <1>2, <1>3, <1>4, <1>5 DEF Call, InitDb

-----------------------------------------------------------------------------
LEMMA SafeInit == Init => SafeInv
<1> SUFFICES ASSUME Init PROVE SafeInv
  OBVIOUS
<1>1. db \in Database
  BY DbAssumption DEF Init, EmptyDb, Database
<1>2. <<>> \in Seq(Call)
  BY EmptySeq
<1>3. QED
  BY <1>1, <1>2, BoundsAssumption
     DEF Init, SafeInv, TypeOK, LockInv, CheckInv, Stages

LEMMA SafeHour == ASSUME SafeInv, Hour PROVE SafeInv'
BY BoundsAssumption
   DEF SafeInv, TypeOK, LockInv, CheckInv, Hour, At

LEMMA SafeStart == ASSUME SafeInv, NEW c \in Client, Start(c) PROVE SafeInv'
<1>1. PICK j \in Jobs : job' = [job EXCEPT ![c] = j]
  BY DEF Start
<1>2. j \in Seq(Call) /\ 1 \in 1..Len(j)
  BY <1>1, JobType DEF SafeInv, TypeOK
<1>3. /\ stage' = [stage EXCEPT ![c] = "ready"] /\ pos' = [pos EXCEPT ![c] = 1]
      /\ started' \in 0..MaxJobs
      /\ UNCHANGED <<db, writer, now, done>>
  BY BoundsAssumption DEF SafeInv, TypeOK, Start
<1>4. TypeOK'
  BY <1>1, <1>2, <1>3 DEF SafeInv, TypeOK, Stages
<1>5. LockInv' /\ CheckInv'
  BY <1>1, <1>3 DEF SafeInv, TypeOK, LockInv, CheckInv, At
<1>6. QED
  BY <1>4, <1>5 DEF SafeInv

LEMMA SafeBegin == ASSUME SafeInv, NEW c \in Client, Begin(c) PROVE SafeInv'
<1>1. TypeOK'
  BY DEF SafeInv, TypeOK, Begin, Stages
<1>2. LockInv'
  BY ClientAssumption DEF SafeInv, TypeOK, LockInv, Begin
<1>3. CheckInv'
  BY DEF SafeInv, TypeOK, CheckInv, Begin, At
<1>4. QED
  BY <1>1, <1>2, <1>3 DEF SafeInv

LEMMA SafeCheck == ASSUME SafeInv, NEW c \in Client, Check(c) PROVE SafeInv'
<1>1. TypeOK'
  BY DEF SafeInv, TypeOK, Check, Stages
<1>2. LockInv'
  BY DEF SafeInv, TypeOK, LockInv, Check
<1>3. CheckInv'
  BY DEF SafeInv, TypeOK, CheckInv, Check, At
<1>4. QED
  BY <1>1, <1>2, <1>3 DEF SafeInv

(* The process that commits is the only one past its check. *)
LEMMA CommitAlone ==
    ASSUME SafeInv, NEW c \in Client, Commit(c)
    PROVE  /\ writer = c /\ At(c) \in Call /\ ~ Raises(At(c), db)
           /\ \A u \in Client : stage[u] = "checked" => u = c
<1>1. stage[c] = "checked"
  BY DEF Commit
<1>2. pos[c] \in 1..Len(job[c]) /\ job[c] \in Seq(Call)
  BY <1>1 DEF SafeInv, TypeOK
<1>3. At(c) \in Call
  BY <1>2, ElementOfSeq DEF At
<1>4. QED
  BY <1>1, <1>3 DEF SafeInv, LockInv, CheckInv

LEMMA SafeCommit == ASSUME SafeInv, NEW c \in Client, Commit(c) PROVE SafeInv'
<1>1. db' \in Database
  BY CommitAlone, ApplyType DEF SafeInv, TypeOK, Commit
<1>2. writer' = NoClient
  BY CommitAlone DEF Commit, Unlock
<1>3. stage'[c] \in {"idle", "ready"}
      /\ \A u \in Client : u # c => stage'[u] = stage[u]
  BY DEF SafeInv, TypeOK, Commit, EndJob
<1>4. TypeOK'
  <2>1. CASE pos[c] = Len(job[c])
    <3>1. EndJob(c) /\ done' = done \cup {job[c]} /\ UNCHANGED <<now, started>>
      BY <2>1 DEF Commit
    <3>2. <<>> \in Seq(Call)
      BY EmptySeq
    <3>3. QED
      BY <1>1, <1>2, <3>1, <3>2 DEF SafeInv, TypeOK, EndJob, Stages
  <2>2. CASE pos[c] # Len(job[c])
    <3>1. /\ stage' = [stage EXCEPT ![c] = "ready"]
          /\ pos' = [pos EXCEPT ![c] = pos[c] + 1]
          /\ UNCHANGED <<job, done, now, started>>
      BY <2>2 DEF SafeInv, TypeOK, Commit
    <3>2. pos[c] + 1 \in 1..Len(job[c])
      BY <2>2, LenProperties DEF SafeInv, TypeOK, Commit
    <3>3. QED
      BY <1>1, <1>2, <3>1, <3>2 DEF SafeInv, TypeOK, Stages
  <2>3. QED
    BY <2>1, <2>2
<1>5. \A u \in Client : stage'[u] \notin {"open", "checked"}
  BY <1>3, CommitAlone DEF SafeInv, LockInv
<1>6. LockInv' /\ CheckInv'
  BY <1>5 DEF LockInv, CheckInv
<1>7. QED
  BY <1>4, <1>6 DEF SafeInv

(* Leaving a job from any stage: the lock is free or somebody else's. *)
LEMMA SafeEnd ==
    ASSUME SafeInv, NEW c \in Client, EndJob(c), Unlock(c),
           UNCHANGED <<db, now, started, done>>
    PROVE  SafeInv'
<1>1. <<>> \in Seq(Call)
  BY EmptySeq
<1>2. TypeOK'
  BY <1>1 DEF SafeInv, TypeOK, EndJob, Unlock, Stages
<1>3. LockInv'
  BY DEF SafeInv, TypeOK, LockInv, EndJob, Unlock
<1>4. CheckInv'
  BY DEF SafeInv, TypeOK, CheckInv, EndJob, At
<1>5. QED
  BY <1>2, <1>3, <1>4 DEF SafeInv

LEMMA SafeStep == SafeInv /\ [Next]_vars => SafeInv'
<1> SUFFICES ASSUME SafeInv, [Next]_vars PROVE SafeInv'
  OBVIOUS
<1>1. ASSUME NEW c \in Client, CheckFails(c) \/ Abandon(c) PROVE SafeInv'
  BY <1>1, SafeEnd DEF CheckFails, Abandon
<1>2. CASE UNCHANGED vars
  BY <1>2 DEF SafeInv, TypeOK, LockInv, CheckInv, At, vars
<1>3. QED
  BY <1>1, <1>2, SafeHour, SafeStart, SafeBegin, SafeCheck, SafeCommit
     DEF Next, Transact

(* The registrar's state keeps its types. *)
THEOREM TypeCorrect == Spec => []TypeOK
<1>1. SafeInv => TypeOK
  BY DEF SafeInv
<1>2. QED
  BY <1>1, SafeInit, SafeStep, PTL DEF Spec

-----------------------------------------------------------------------------
(* The write lock is held by a process that is in a transaction, and by no *)
(* other: none leaves its job with the lock.                               *)
HeldInv == \A c \in Client : writer = c <=> stage[c] \in {"open", "checked"}

(* The steps a job may still take: three for each of its calls, less those *)
(* of the transaction that is under way.                                   *)
StepsOf == [ready |-> 3, open |-> 2, checked |-> 1]
Left(c) == IF stage[c] = "idle" THEN 0
           ELSE 3 * (Len(job[c]) - pos[c]) + StepsOf[stage[c]]

(* A step of a process in a job takes the job nearer to its end, and no    *)
(* step of another touches it.                                             *)
JobsMoveOn ==
    \A c \in Client : stage[c] # "idle" =>
       /\ Left(c) \in Nat
       /\ Transact(c) \/ Abandon(c) => Left(c)' < Left(c)
       /\ ~ (Transact(c) \/ Abandon(c)) => Left(c)' = Left(c)

LEMMA HeldStep == SafeInv /\ HeldInv /\ [Next]_vars => HeldInv'
<1> SUFFICES ASSUME SafeInv, HeldInv, [Next]_vars PROVE HeldInv'
  OBVIOUS
<1>1. ASSUME NEW c \in Client, EndJob(c), Unlock(c) PROVE HeldInv'
  BY <1>1, ClientAssumption DEF SafeInv, TypeOK, HeldInv, EndJob, Unlock
<1>2. ASSUME NEW c \in Client, Commit(c) PROVE HeldInv'
  <2>1. writer = c /\ writer' = NoClient
    BY <1>2, CommitAlone DEF Commit, Unlock
  <2>2. \A u \in Client : stage'[u] \notin {"open", "checked"}
    BY <1>2, <2>1 DEF SafeInv, TypeOK, HeldInv, Commit, EndJob
  <2>3. QED
    BY <2>1, <2>2, ClientAssumption DEF HeldInv
<1>3. ASSUME NEW c \in Client, Start(c) \/ Begin(c) \/ Check(c) PROVE HeldInv'
  BY <1>3, ClientAssumption DEF SafeInv, TypeOK, HeldInv, Start, Begin, Check
<1>4. CASE Hour \/ UNCHANGED vars
  BY <1>4 DEF HeldInv, Hour, vars
<1>5. QED
  BY <1>1, <1>2, <1>3, <1>4 DEF Next, Transact, CheckFails, Abandon

LEMMA LeftType ==
    ASSUME SafeInv, NEW c \in Client, stage[c] # "idle"
    PROVE  /\ pos[c] \in Nat /\ Len(job[c]) \in Nat /\ pos[c] <= Len(job[c])
           /\ Left(c) \in Nat /\ Left(c) >= 1
<1>1. stage[c] \in {"ready", "open", "checked"} /\ pos[c] \in 1..Len(job[c])
      /\ Len(job[c]) \in Nat
  BY LenProperties DEF SafeInv, TypeOK, Stages
<1>2. StepsOf[stage[c]] \in 1..3
  BY <1>1 DEF StepsOf
<1>3. QED
  BY <1>1, <1>2 DEF Left

LEMMA JobsAdvance == SafeInv /\ [Next]_vars => [JobsMoveOn]_vars
<1> SUFFICES ASSUME SafeInv, Next, NEW c \in Client, stage[c] # "idle"
             PROVE  /\ Left(c) \in Nat
                    /\ Transact(c) \/ Abandon(c) => Left(c)' < Left(c)
                    /\ ~ (Transact(c) \/ Abandon(c)) => Left(c)' = Left(c)
  BY DEF JobsMoveOn
<1>1. /\ pos[c] \in Nat /\ Len(job[c]) \in Nat /\ pos[c] <= Len(job[c])
      /\ Left(c) \in Nat /\ Left(c) >= 1
  BY LeftType
<1>2. ASSUME EndJob(c) PROVE Left(c)' < Left(c)
  <2>1. stage'[c] = "idle"
    BY <1>2 DEF SafeInv, TypeOK, EndJob
  <2>2. Left(c)' = 0
    BY <2>1 DEF Left
  <2>3. QED
    BY <1>1, <2>2
<1>3. ASSUME Begin(c) \/ Check(c) PROVE Left(c)' < Left(c)
  <2>1. /\ \/ stage[c] = "ready" /\ stage'[c] = "open"
           \/ stage[c] = "open" /\ stage'[c] = "checked"
        /\ job'[c] = job[c] /\ pos'[c] = pos[c]
    BY <1>3 DEF SafeInv, TypeOK, Begin, Check
  <2> DEFINE n == Len(job[c]) - pos[c]
  <2>2. n \in Int
    BY <1>1
  <2>3. \/ Left(c) = 3 * n + 3 /\ Left(c)' = 3 * n + 2
        \/ Left(c) = 3 * n + 2 /\ Left(c)' = 3 * n + 1
    BY <2>1 DEF Left, StepsOf
  <2> HIDE DEF n
  <2>4. QED
    BY <2>2, <2>3
<1>4. ASSUME Commit(c) PROVE Left(c)' < Left(c)
  <2>1. CASE pos[c] = Len(job[c])
    BY <1>2, <1>4, <2>1 DEF Commit
  <2>2. CASE pos[c] # Len(job[c])
    <3>1. /\ stage[c] = "checked" /\ stage'[c] = "ready"
          /\ job'[c] = job[c] /\ pos'[c] = pos[c] + 1
      BY <1>4, <2>2 DEF SafeInv, TypeOK, Commit
    <3>2. Left(c) = 3 * (Len(job[c]) - pos[c]) + 1
      BY <3>1 DEF Left, StepsOf
    <3>3. Left(c)' = 3 * (Len(job[c]) - (pos[c] + 1)) + 3
      BY <3>1 DEF Left, StepsOf
    <3>4. QED
      BY <1>1, <3>2, <3>3
  <2>3. QED
    BY <2>1, <2>2
<1>5. ASSUME ~ (Transact(c) \/ Abandon(c)) PROVE Left(c)' = Left(c)
  <2>1. ~ Start(c)
    BY DEF Start
  <2>2. /\ stage'[c] = stage[c] /\ job'[c] = job[c] /\ pos'[c] = pos[c]
    BY <1>5, <2>1 DEF SafeInv, TypeOK, Next, Hour, Transact, Start, Begin, Check, Commit,
                      CheckFails, Abandon, EndJob
  <2>3. QED
    BY <2>2 DEF Left
<1>6. QED
  BY <1>1, <1>2, <1>3, <1>4, <1>5 DEF Transact, CheckFails, Abandon

(* A process that writes the database gives its lock back: it holds it in  *)
(* a transaction only, and of the transactions of a job each has three     *)
(* steps and none is ever started over.                                    *)
THEOREM JobsEnd == Spec => []HeldInv /\ [][JobsMoveOn]_vars
<1>1. Init => HeldInv
  BY ClientAssumption DEF Init, HeldInv
<1>2. QED
  BY <1>1, SafeInit, SafeStep, HeldStep, JobsAdvance, PTL DEF Spec

-----------------------------------------------------------------------------
(* Only a commit changes the tables. *)
LEMMA OnlyCommits ==
    ASSUME Next PROVE db' = db \/ \E c \in Client : Commit(c)
BY DEF Next, Transact, Hour, Start, Begin, Check, CheckFails, Abandon

LEMMA StepKeepsSerials ==
    SafeInv /\ [Next]_vars =>
       [\A n \in Name : db'.serial[n] >= db.serial[n]]_vars
<1> SUFFICES ASSUME SafeInv, Next, NEW n \in Name
             PROVE  db'.serial[n] >= db.serial[n]
  BY DEF vars
<1>1. CASE db' = db
  BY <1>1 DEF SafeInv, TypeOK, Database
<1>2. ASSUME NEW c \in Client, Commit(c)
      PROVE  db'.serial[n] >= db.serial[n]
  BY <1>2, CommitAlone, ApplyType DEF SafeInv, TypeOK, Commit
<1>3. QED
  BY <1>1, <1>2, OnlyCommits

(* No interleaving of registrar processes takes a zone serial back. *)
THEOREM SerialsNeverRegress == Spec => SerialNeverRegresses
BY SafeInit, SafeStep, StepKeepsSerials, PTL DEF Spec, SerialNeverRegresses

(* The abstract registrar's calls are these. *)
LEMMA SameCalls ==
    ASSUME NEW call, NEW d
    PROVE  /\ Atomic!Call = Call
           /\ Atomic!Raises(call, d) <=> Raises(call, d)
           /\ Atomic!Apply(call, d) = Apply(call, d)
<1>1. Atomic!Call = Call
  BY DEF Atomic!Call, Call, Atomic!InitDb, InitDb, Atomic!Record, Record,
         Atomic!Type, Type
<1>2. Atomic!Raises(call, d) <=> Raises(call, d)
  BY DEF Atomic!Raises, Raises
<1>3. Atomic!WithDefaults(d) = WithDefaults(d)
  BY DEF Atomic!WithDefaults, WithDefaults
<1>4. Atomic!Apply(call, d) = Apply(call, d)
  BY <1>3 DEF Atomic!Apply, Apply
<1>5. QED
  BY <1>1, <1>2, <1>4

LEMMA StepIsAtomic == SafeInv /\ [Next]_vars => [Atomic!Next]_db
<1> SUFFICES ASSUME SafeInv, Next, db' # db PROVE Atomic!Next
  BY DEF vars
<1>1. PICK c \in Client : Commit(c)
  BY OnlyCommits
<1>2. db' = Apply(At(c), db)
  BY <1>1 DEF Commit
<1>3. Atomic!Serve(At(c))
  BY <1>1, <1>2, CommitAlone, SameCalls DEF Atomic!Serve
<1>4. At(c) \in Atomic!Call
  BY <1>1, CommitAlone, SameCalls
<1>5. QED
  BY <1>3, <1>4 DEF Atomic!Next

(* The transactions implement atomic calls. *)
THEOREM TransactionsAreAtomic == Spec => ImplementsAtomicRegistrar
<1>1. Init => Atomic!Init
  BY DEF Init, Atomic!Init, EmptyDb, Atomic!EmptyDb
<1>2. QED
  BY <1>1, SafeInit, SafeStep, StepIsAtomic, PTL
     DEF Spec, ImplementsAtomicRegistrar, Atomic!Spec

-----------------------------------------------------------------------------
(* The longest enclosing zone *)

Label == UNION {{n[i] : i \in DOMAIN n} : n \in Name}

(* A domain name is a sequence of labels, of one at least. *)
NamesAreSequences == Name \subseteq Seq(Label) \ {NoZone}

Zones(d, q) == {z \in ZoneCandidates(q) \cap Name : d.serial[z] > 0}

LEMMA Suffix ==
    ASSUME NEW S, NEW q \in Seq(S), NEW i \in 1..Len(q)
    PROVE  Len(SubSeq(q, i, Len(q))) = Len(q) - i + 1
<1>1. Len(q) \in Nat /\ \A j \in 1..Len(q) : q[j] \in S
  BY LenProperties, ElementOfSeq
<1>2. \A j \in i..Len(q) : q[j] \in S
  BY <1>1
<1>3. Len(SubSeq(q, i, Len(q))) = IF i <= Len(q) THEN Len(q) - i + 1 ELSE 0
  BY <1>1, <1>2, SubSeqProperties
<1>4. QED
  BY <1>1, <1>3

(* A set of naturals that is not empty has a least one. *)
LEMMA Least ==
    ASSUME NEW T, T \subseteq Nat, T # {}
    PROVE  \E i \in T : \A j \in T : i <= j
<1>1. PICK i \in T : \A j \in T : ~ (<<j, i>> \in OpToRel(<, Nat))
  BY NatLessThanWellFounded, WFMin
<1>2. \A j \in T : ~ (j < i)
  BY <1>1, Zenon DEF OpToRel
<1>3. QED
  BY <1>2

LEMMA Longest ==
    ASSUME NamesAreSequences, NEW q \in Name,
           NEW S, S \subseteq ZoneCandidates(q), S # {}
    PROVE  \E z \in S : \A y \in S : Len(y) <= Len(z)
<1> DEFINE T == {i \in 1..Len(q) : SubSeq(q, i, Len(q)) \in S}
<1>1. q \in Seq(Label) /\ Len(q) \in Nat
  BY LenProperties DEF NamesAreSequences
<1>2. T \subseteq Nat /\ T # {}
  <2>1. PICK y \in S : TRUE
    OBVIOUS
  <2>2. PICK i \in 1..Len(q) : y = SubSeq(q, i, Len(q))
    BY DEF ZoneCandidates
  <2>3. i \in T
    BY <2>1, <2>2
  <2>4. T \subseteq Nat
    BY <1>1
  <2> QED BY <2>3, <2>4
<1>3. PICK i \in T : \A j \in T : i <= j
  <2> HIDE DEF T
  <2> QED BY <1>2, Least
<1>4. \A y \in S : \E j \in T : y = SubSeq(q, j, Len(q))
  BY DEF ZoneCandidates
<1>5. \A j \in T : Len(SubSeq(q, j, Len(q))) = Len(q) - j + 1
  BY <1>1, Suffix
<1>6. ASSUME NEW y \in S PROVE Len(y) <= Len(SubSeq(q, i, Len(q)))
  <2>1. PICK j \in T : y = SubSeq(q, j, Len(q))
    BY <1>4
  <2>2. i <= j /\ i \in Nat /\ j \in Nat
    BY <1>2, <1>3
  <2>3. Len(y) = Len(q) - j + 1 /\ Len(SubSeq(q, i, Len(q))) = Len(q) - i + 1
    BY <1>5, <2>1
  <2>4. QED
    BY <1>1, <2>2, <2>3
<1>7. QED
  BY <1>6

(* Two suffixes of a name that are of one length are one. *)
LEMMA SameLength ==
    ASSUME NamesAreSequences, NEW q \in Name, NEW y \in ZoneCandidates(q),
           NEW z \in ZoneCandidates(q), Len(y) = Len(z)
    PROVE  y = z
<1>1. q \in Seq(Label) /\ Len(q) \in Nat
  BY LenProperties DEF NamesAreSequences
<1>2. PICK i \in 1..Len(q) : y = SubSeq(q, i, Len(q))
  BY DEF ZoneCandidates
<1>3. PICK j \in 1..Len(q) : z = SubSeq(q, j, Len(q))
  BY DEF ZoneCandidates
<1>4. Len(y) = Len(q) - i + 1 /\ Len(z) = Len(q) - j + 1
  BY <1>1, <1>2, <1>3, Suffix
<1>5. QED
  BY <1>1, <1>2, <1>3, <1>4

LEMMA Candidate ==
    ASSUME NamesAreSequences, NEW q \in Name, NEW z \in ZoneCandidates(q)
    PROVE  z # NoZone /\ Len(z) \in Nat
<1>1. q \in Seq(Label) /\ Len(q) \in Nat
  BY LenProperties DEF NamesAreSequences
<1>2. PICK i \in 1..Len(q) : z = SubSeq(q, i, Len(q))
  BY DEF ZoneCandidates
<1>3. Len(z) = Len(q) - i + 1
  BY <1>1, <1>2, Suffix
<1>4. Len(z) \in Nat /\ Len(z) # 0
  BY <1>1, <1>3
<1>5. Len(NoZone) = 0
  BY EmptySeq DEF NoZone
<1>6. QED
  BY <1>4, <1>5

LEMMA FindZoneFacts ==
    ASSUME NamesAreSequences, NEW d, NEW q \in Name
    PROVE  \/ FindZone(d, q) = NoZone /\ Zones(d, q) = {}
           \/ /\ FindZone(d, q) \in Zones(d, q) /\ FindZone(d, q) # NoZone
              /\ \A y \in Zones(d, q) : Len(y) <= Len(FindZone(d, q))
<1>1. CASE Zones(d, q) = {}
  BY <1>1 DEF FindZone, Zones
<1>2. CASE Zones(d, q) # {}
  <2>1. Zones(d, q) \subseteq ZoneCandidates(q)
    BY DEF Zones
  <2>2. \E z \in Zones(d, q) : \A y \in Zones(d, q) : Len(y) <= Len(z)
    BY <1>2, <2>1, Longest
  <2>3. FindZone(d, q) = CHOOSE z \in Zones(d, q) :
                            \A y \in Zones(d, q) : Len(y) <= Len(z)
    BY <1>2 DEF FindZone, Zones
  <2>4. /\ FindZone(d, q) \in Zones(d, q)
        /\ \A y \in Zones(d, q) : Len(y) <= Len(FindZone(d, q))
    BY <2>2, <2>3
  <2>5. QED
    BY <2>1, <2>4, Candidate
<1>3. QED
  BY <1>1, <1>2

LEMMA FindZoneType ==
    ASSUME NamesAreSequences, NEW d, NEW q \in Name
    PROVE  FindZone(d, q) \in Name \cup {NoZone}
BY FindZoneFacts DEF Zones

LEMMA FindZoneIs ==
    ASSUME NamesAreSequences, NEW d, NEW q \in Name, NEW z \in Zones(d, q),
           \A y \in Zones(d, q) : Len(y) <= Len(z)
    PROVE  FindZone(d, q) = z
<1>1. /\ FindZone(d, q) \in Zones(d, q)
      /\ Len(z) <= Len(FindZone(d, q)) /\ Len(FindZone(d, q)) <= Len(z)
  BY FindZoneFacts
<1>2. z \in ZoneCandidates(q) /\ FindZone(d, q) \in ZoneCandidates(q)
  BY <1>1 DEF Zones
<1>3. Len(z) \in Nat /\ Len(FindZone(d, q)) \in Nat
  BY <1>2, Candidate
<1>4. QED
  BY <1>1, <1>2, <1>3, SameLength

-----------------------------------------------------------------------------
(* What a commit does to the tables *)

(* The three kinds of change a call makes *)
LEMMA ApplyCases ==
    ASSUME NEW d \in Database, NEW call \in Call, ~ Raises(call, d)
    PROVE  \/ /\ call.op \in {"init", "domain"}
              /\ Apply(call, d).serial = d.serial
              /\ Apply(call, d).records = d.records
              /\ \A n \in Name : d.route[n] # NoAddr => Apply(call, d).route[n] # NoAddr
              /\ call.op = "domain" => Apply(call, d).route[call.name] # NoAddr
           \/ /\ call.op = "zone" /\ call.name \in Name
              /\ Apply(call, d).route = d.route
              /\ Apply(call, d).records = d.records
              /\ \A n \in Name : Apply(call, d).serial[n] =
                                    IF n = call.name THEN call.serial ELSE d.serial[n]
           \/ /\ call.op = "record" /\ call.row \in Record
              /\ Apply(call, d).route = d.route
              /\ Apply(call, d).serial = d.serial
              /\ Apply(call, d).records = d.records \cup {call.row}
              /\ d.serial[call.row.zone] > 0
<1>1. /\ d.serial \in [Name -> 0..MaxSerial]
      /\ d.route \in [Name -> Addr \cup {NoAddr}]
      /\ d = [serial |-> d.serial, route |-> d.route, records |-> d.records]
  BY DEF Database
<1>2. CASE call = InitDb
  <2>1. call.op = "init" /\ Apply(call, d) = WithDefaults(d)
    BY <1>2 DEF InitDb, Apply
  <2>2. QED
    BY <1>1, <2>1, DbAssumption DEF WithDefaults
<1>3. CASE call.op = "domain" /\ call.name \in Name /\ call.ip \in Addr
  <2>1. Apply(call, d) = [d EXCEPT !.route[call.name] = call.ip]
    BY <1>3 DEF Apply
  <2>2. QED
    BY <1>1, <1>3, <2>1, DbAssumption
<1>4. CASE call.op = "zone" /\ call.name \in Name
  <2>1. Apply(call, d) = [d EXCEPT !.serial[call.name] = call.serial]
    BY <1>4 DEF Apply
  <2>2. QED
    BY <1>1, <1>4, <2>1
<1>5. CASE call.op = "record" /\ call.row \in Record
  <2>1. Apply(call, d) = [d EXCEPT !.records = d.records \cup {call.row}]
    BY <1>5 DEF Apply
  <2>2. d.serial[call.row.zone] \in Nat /\ d.serial[call.row.zone] # 0
    BY <1>1, <1>5, DbAssumption DEF Raises, Record
  <2>3. QED
    BY <1>1, <1>5, <2>1, <2>2
<1>6. QED
  BY <1>2, <1>3, <1>4, <1>5 DEF Call

LEMMA CommitCases ==
    ASSUME SafeInv, Next, db' # db
    PROVE  \E c \in Client :
              /\ Commit(c) /\ stage[c] = "checked" /\ writer = c
              /\ At(c) \in Call /\ ~ Raises(At(c), db) /\ db' = Apply(At(c), db)
              /\ db \in Database
<1>1. PICK c \in Client : Commit(c)
  BY OnlyCommits
<1>2. db \in Database
  BY DEF SafeInv, TypeOK
<1>3. QED
  BY <1>1, <1>2, CommitAlone DEF Commit

(* Nothing is unregistered. *)
LEMMA TablesGrow ==
    ASSUME SafeInv, Next
    PROVE  /\ \A n \in Name : db.route[n] # NoAddr => db'.route[n] # NoAddr
           /\ db.records \subseteq db'.records
           /\ \A n \in Name : db.serial[n] > 0 => db'.serial[n] > 0
<1>1. CASE db' = db
  BY <1>1
<1>2. CASE db' # db
  <2>1. PICK c \in Client : /\ At(c) \in Call /\ ~ Raises(At(c), db)
                            /\ db' = Apply(At(c), db) /\ db \in Database
    BY <1>2, CommitCases
  <2>2. /\ \A n \in Name : db.route[n] # NoAddr => db'.route[n] # NoAddr
        /\ db.records \subseteq db'.records
    BY <2>1, ApplyCases
  <2>3. db' \in Database /\ \A n \in Name : db'.serial[n] >= db.serial[n]
    BY <2>1, ApplyType
  <2>4. \A n \in Name : db.serial[n] \in Nat /\ db'.serial[n] \in Nat
    BY <2>1, <2>3, DbAssumption DEF Database
  <2>5. QED
    BY <2>2, <2>3, <2>4
<1>3. QED
  BY <1>1, <1>2

(* Of the calls only register_domain changes a route that is there. *)
LEMMA OnlyDomainReroutes ==
    ASSUME NEW d \in Database, NEW call \in Call, ~ Raises(call, d), NEW n \in Name,
           d.route[n] # NoAddr, Apply(call, d).route[n] # d.route[n]
    PROVE  call = Domain(n, Apply(call, d).route[n])
<1>1. /\ d.route \in [Name -> Addr \cup {NoAddr}]
      /\ d = [serial |-> d.serial, route |-> d.route, records |-> d.records]
  BY DEF Database
<1>2. CASE call = InitDb
  <2>1. Apply(call, d).route[n] = d.route[n]
    BY <1>1, <1>2 DEF InitDb, Apply, WithDefaults
  <2>2. QED
    BY <2>1
<1>3. ASSUME NEW m \in Name, NEW ip \in Addr, call = Domain(m, ip)
      PROVE  call = Domain(n, Apply(call, d).route[n])
  <2>1. Apply(call, d).route = [d.route EXCEPT ![m] = ip]
    BY <1>1, <1>3 DEF Domain, Apply
  <2>2. n = m /\ Apply(call, d).route[n] = ip
    BY <1>1, <2>1
  <2>3. QED
    BY <1>3, <2>2
<1>4. CASE call.op \in {"zone", "record"}
  <2>1. Apply(call, d).route = d.route
    BY <1>1, <1>4, ApplyCases
  <2>2. QED
    BY <2>1
<1>5. QED
  BY <1>2, <1>3, <1>4 DEF Call, InitDb, Domain

(* A route that is there changes only by register_domain: no start of a    *)
(* node, whose init_registrar_db knows defaults, takes it back to one.     *)
THEOREM RoutesAreKept == Spec => RoutesKept
<1>1. SafeInv /\ [Next]_vars =>
         [\A n \in Name : db.route[n] # NoAddr /\ db'.route[n] # db.route[n] =>
            \E c \in Client : stage[c] = "checked" /\
                              At(c) = Domain(n, db'.route[n])]_vars
  <2> SUFFICES ASSUME SafeInv, Next, NEW n \in Name, db.route[n] # NoAddr,
                      db'.route[n] # db.route[n]
               PROVE  \E c \in Client : stage[c] = "checked" /\
                                        At(c) = Domain(n, db'.route[n])
    OBVIOUS
  <2>1. PICK c \in Client : /\ stage[c] = "checked" /\ At(c) \in Call
                            /\ ~ Raises(At(c), db) /\ db' = Apply(At(c), db)
                            /\ db \in Database
    BY CommitCases
  <2>2. QED
    BY <2>1, OnlyDomainReroutes
<1>2. QED
  BY <1>1, SafeInit, SafeStep, PTL DEF Spec, RoutesKept

-----------------------------------------------------------------------------
(* What has been registered reads back *)

(* The records of the jobs are of their zone or of a host in it: no zone   *)
(* but the one of its own name is closer to a record than its own.         *)
InItsZone(r) == r.name = r.zone \/ \E label : r.name = Sub(label, r.zone)

Fits(j) == \A i \in 1..Len(j) : j[i].op = "record" => InItsZone(j[i].row)

Kept(call, d) == /\ call.op = "zone" => d.serial[call.name] >= call.serial
                 /\ call.op = "record" => call.row \in d.records

ProgressInv == \A c \in Client :
                  stage[c] # "idle" => /\ Fits(job[c])
                                       /\ \A i \in 1..(pos[c] - 1) : Kept(job[c][i], db)

KeptInv == /\ SafeInv
           /\ \A r \in db.records : db.serial[r.zone] > 0
           /\ ProgressInv
           /\ \A j \in done : Fits(j) /\ \A i \in 1..Len(j) : Kept(j[i], db)

(* Of the suffixes of a host's name only the name itself is longer than    *)
(* the zone.                                                               *)
LEMMA SubZone ==
    ASSUME NamesAreSequences, NEW z \in Name, NEW label
    PROVE  /\ z \in ZoneCandidates(Sub(label, z))
           /\ \A y \in ZoneCandidates(Sub(label, z)) :
                 y = Sub(label, z) \/ Len(y) <= Len(z)
<1> DEFINE q == Sub(label, z)
           S == Label \cup {label}
<1>1. z \in Seq(S) /\ <<label>> \in Seq(S) /\ Len(<<label>>) = 1 /\ Len(z) \in Nat
  <2>1. z \in Seq(Label)
    BY DEF NamesAreSequences
  <2>2. \A i \in 1..Len(z) : z[i] \in Label
    BY <2>1, ElementOfSeq
  <2>3. Len(z) \in Nat /\ DOMAIN z = 1..Len(z) /\ z = [i \in 1..Len(z) |-> z[i]]
    BY <2>1, LenProperties
  <2>4. z \in Seq(S)
    BY <2>1
  <2>5. QED
    BY <2>3, <2>4
<1> HIDE DEF S
<1>2. /\ q \in Seq(S) /\ Len(q) = Len(z) + 1
      /\ \A i \in 1..Len(q) : q[i] = IF i <= 1 THEN <<label>>[i] ELSE z[i - 1]
  BY <1>1, ConcatProperties DEF Sub
<1> HIDE DEF q
<1>3. 2 \in 1..Len(q) \/ Len(z) = 0
  BY <1>1, <1>2
<1>4. Len(z) # 0
  BY EmptySeq, LenProperties DEF NamesAreSequences, NoZone
<1>5. SubSeq(q, 2, Len(q)) = z
  <2> DEFINE s == SubSeq(q, 2, Len(q))
  <2>1. Len(s) = Len(z)
    BY <1>1, <1>2, <1>3, <1>4, Suffix
  <2>2. s \in Seq(S) /\ \A i \in 1..Len(s) : s[i] = q[2 + i - 1]
    BY <1>1, <1>2, <1>4, SubSeqProperties
  <2> HIDE DEF s
  <2>3. ASSUME NEW i \in 1..Len(s) PROVE s[i] = z[i]
    <3>1. 2 + i - 1 \in 1..Len(q) /\ ~ (2 + i - 1 <= 1) /\ (2 + i - 1) - 1 = i
      BY <1>1, <1>2, <2>1
    <3>2. s[i] = q[2 + i - 1]
      BY <2>2
    <3>3. QED
      BY <1>2, <3>1, <3>2
  <2>4. s = z
    BY <1>1, <2>1, <2>2, <2>3, SeqEqual
  <2>5. QED
    BY <2>4 DEF s
<1>6. z \in ZoneCandidates(q)
  BY <1>3, <1>4, <1>5 DEF ZoneCandidates
<1>7. ASSUME NEW y \in ZoneCandidates(q) PROVE y = q \/ Len(y) <= Len(z)
  <2>1. PICK i \in 1..Len(q) : y = SubSeq(q, i, Len(q))
    BY DEF ZoneCandidates
  <2>2. Len(y) = Len(q) - i + 1
    BY <1>2, <2>1, Suffix
  <2>3. CASE i = 1
    BY <1>2, <2>1, <2>3, SubSeqFull
  <2>4. CASE i # 1
    BY <1>1, <1>2, <2>1, <2>2, <2>4
  <2>5. QED
    BY <2>3, <2>4
<1>8. QED
  BY <1>6, <1>7 DEF q

LEMMA OwnZone ==
    ASSUME NamesAreSequences, NEW z \in Name
    PROVE  z \in ZoneCandidates(z) /\ \A y \in ZoneCandidates(z) : Len(y) <= Len(z)
<1>1. z \in Seq(Label) /\ Len(z) \in Nat /\ Len(z) # 0
  BY EmptySeq, LenProperties DEF NamesAreSequences, NoZone
<1>2. SubSeq(z, 1, Len(z)) = z /\ 1 \in 1..Len(z)
  BY <1>1, SubSeqFull
<1>3. ASSUME NEW y \in ZoneCandidates(z) PROVE Len(y) <= Len(z)
  <2>1. PICK i \in 1..Len(z) : y = SubSeq(z, i, Len(z))
    BY DEF ZoneCandidates
  <2>2. QED
    BY <1>1, <2>1, Suffix
<1>4. QED
  BY <1>2, <1>3 DEF ZoneCandidates

(* A record that is in its zone is found there, unless its name is one. *)
LEMMA FoundInItsZone ==
    ASSUME NamesAreSequences, KeptInv, NEW r \in db.records, InItsZone(r), ~ Hidden(r)
    PROVE  r \in GetRecords(db, r.name, r.type)
<1>1. r.zone \in Name /\ r.name \in Name /\ db.serial[r.zone] > 0
  BY DEF KeptInv, SafeInv, TypeOK, Database, Record
<1>2. /\ r.zone \in ZoneCandidates(r.name)
      /\ \A y \in ZoneCandidates(r.name) : y = r.name \/ Len(y) <= Len(r.zone)
      /\ r.name = r.zone => \A y \in ZoneCandidates(r.name) : Len(y) <= Len(r.zone)
  BY <1>1, SubZone, OwnZone DEF InItsZone
<1>3. r.zone \in Zones(db, r.name)
  BY <1>1, <1>2 DEF Zones
<1>4. \A y \in Zones(db, r.name) : y \in ZoneCandidates(r.name) /\ db.serial[y] > 0
  BY DEF Zones
<1>5. \A y \in Zones(db, r.name) : Len(y) <= Len(r.zone)
  BY <1>2, <1>4 DEF Hidden
<1>6. FindZone(db, r.name) = r.zone
  BY <1>1, <1>3, <1>5, FindZoneIs
<1>7. QED
  BY <1>6 DEF GetRecords

LEMMA JobsFit == ASSUME NEW j \in Jobs PROVE Fits(j)
<1>1. InitDb.op = "init"
  BY DEF InitDb
<1>2. \A n, ip : Domain(n, ip).op = "domain"
  BY DEF Domain
<1>3. \A n, s : Zone(n, s).op = "zone" /\ Zone(n, s).name = n
  BY DEF Zone
<1>4. \A z, n, t, v : /\ Upsert(z, n, t, v).op = "record"
                      /\ Upsert(z, n, t, v).row.zone = z
                      /\ Upsert(z, n, t, v).row.name = n
  BY DEF Upsert
<1>5. ASSUME NEW node \in Node, NEW ip, NEW s, j = SeedJob(node, ip, s) PROVE Fits(j)
  <2>1. /\ InItsZone(Upsert(Root, Sub("ns1", Root), "A", ip).row)
        /\ InItsZone(Upsert(Root, Sub(node, Root), "A", ip).row)
    BY <1>4 DEF InItsZone
  <2>2. /\ Len(j) = 4 /\ j[1] = InitDb /\ j[2] = Zone(Root, s)
        /\ j[3] = Upsert(Root, Sub("ns1", Root), "A", ip)
        /\ j[4] = Upsert(Root, Sub(node, Root), "A", ip)
    BY <1>5 DEF SeedJob
  <2>3. \A i \in 1..4 : i = 1 \/ i = 2 \/ i = 3 \/ i = 4
    OBVIOUS
  <2>4. QED
    BY <1>1, <1>3, <1>4, <2>1, <2>2, <2>3 DEF Fits
<1>6. CASE j = SelfTestJob
  <2>1. InItsZone(Upsert(TestZone, Sub("node", TestZone), "A", Loopback).row)
    BY <1>4 DEF InItsZone
  <2>2. /\ Len(j) = 3 /\ j[1] = InitDb /\ j[2] = Zone(TestZone, 1)
        /\ j[3] = Upsert(TestZone, Sub("node", TestZone), "A", Loopback)
    BY <1>6 DEF SelfTestJob
  <2>3. \A i \in 1..3 : i = 1 \/ i = 2 \/ i = 3
    OBVIOUS
  <2>4. QED
    BY <1>1, <1>3, <1>4, <2>1, <2>2, <2>3 DEF Fits
<1>7. ASSUME NEW d \in SectorDomain, NEW ip, NEW s, j = SectorJob(d, ip, s)
      PROVE  Fits(j)
  <2>1. \A t, v : InItsZone(Upsert(d, d, t, v).row)
    BY <1>4 DEF InItsZone
  <2>2. /\ Len(j) = 6 /\ j[1] = InitDb /\ j[2] = Domain(d, ip) /\ j[3] = Zone(d, s)
        /\ j[4] = Upsert(d, d, "NS", Sub("ns1", d))
        /\ j[5] = Upsert(d, d, "NS", Sub("ns2", d))
        /\ j[6] = Upsert(d, d, "A", ip)
    BY <1>7 DEF SectorJob
  <2>3. \A i \in 1..6 : i = 1 \/ i = 2 \/ i = 3 \/ i = 4 \/ i = 5 \/ i = 6
    OBVIOUS
  <2>4. QED
    BY <1>1, <1>2, <1>3, <1>4, <2>1, <2>2, <2>3 DEF Fits
<1>8. QED
  BY <1>5, <1>6, <1>7 DEF Jobs

(* What took effect stays. *)
LEMMA KeptStays ==
    ASSUME SafeInv, Next, NEW call \in Call, Kept(call, db) PROVE Kept(call, db')
<1>1. call.op = "zone" => call.name \in Name /\ call.serial \in Nat
  BY DEF Call, InitDb
<1>2. \A n \in Name : db'.serial[n] >= db.serial[n] \/ db'.serial[n] = db.serial[n]
  BY StepKeepsSerials DEF vars
<1>3. \A n \in Name : db.serial[n] \in Nat /\ db'.serial[n] \in Nat
  BY SafeStep, DbAssumption DEF SafeInv, TypeOK, Database
<1>4. QED
  BY <1>1, <1>2, <1>3, TablesGrow DEF Kept

(* A call takes effect at its commit. *)
LEMMA CommitKeeps ==
    ASSUME SafeInv, NEW c \in Client, Commit(c) PROVE Kept(At(c), db')
<1>1. /\ At(c) \in Call /\ ~ Raises(At(c), db) /\ db' = Apply(At(c), db)
      /\ db \in Database
  BY CommitAlone DEF SafeInv, TypeOK, Commit
<1>2. At(c).op = "zone" => db'.serial[At(c).name] = At(c).serial
  BY <1>1, ApplyCases
<1>3. At(c).op = "record" => At(c).row \in db'.records
  BY <1>1, ApplyCases
<1>4. At(c).op = "zone" => At(c).serial \in Nat
  BY <1>1 DEF Call, InitDb
<1>5. QED
  BY <1>2, <1>3, <1>4 DEF Kept

LEMMA KeptTables ==
    ASSUME KeptInv, Next
    PROVE  \A r \in db'.records : db'.serial[r.zone] > 0
<1>1. \A r \in db.records : r.zone \in Name
  BY DEF KeptInv, SafeInv, TypeOK, Database, Record
<1>2. \A r \in db.records : db'.serial[r.zone] > 0
  BY <1>1, TablesGrow DEF KeptInv
<1>3. CASE db' = db
  BY <1>2, <1>3 DEF KeptInv
<1>4. CASE db' # db
  <2>1. PICK c \in Client : /\ stage[c] = "checked" /\ At(c) \in Call
                            /\ ~ Raises(At(c), db) /\ db' = Apply(At(c), db)
                            /\ db \in Database
    BY <1>4, CommitCases DEF KeptInv
  <2>2. \A r \in db'.records :
           r \in db.records \/ (r = At(c).row /\ At(c).op = "record")
    BY <2>1, ApplyCases
  <2>3. At(c).op = "record" => db'.serial[At(c).row.zone] > 0
    BY <2>1, ApplyCases
  <2>4. QED
    BY <1>2, <2>2, <2>3
<1>5. QED
  BY <1>3, <1>4

(* What ProgressInv says of one client *)
Progress(c) == stage[c] # "idle" =>
                  /\ Fits(job[c])
                  /\ \A i \in 1..(pos[c] - 1) : Kept(job[c][i], db)

LEMMA ProgressStays ==
    ASSUME KeptInv, Next, NEW c \in Client, stage'[c] # "idle" => stage[c] # "idle",
           job'[c] = job[c], pos'[c] = pos[c]
    PROVE  Progress(c)'
<1> SUFFICES ASSUME stage'[c] # "idle" PROVE Progress(c)'
  BY DEF Progress
<1>1. /\ pos[c] \in 1..Len(job[c]) /\ job[c] \in Seq(Call) /\ Len(job[c]) \in Nat
      /\ Progress(c) /\ SafeInv
  BY LenProperties DEF KeptInv, ProgressInv, Progress, SafeInv, TypeOK
<1>2. ASSUME NEW i \in 1..(pos[c] - 1) PROVE Kept(job[c][i], db')
  <2>1. i \in 1..Len(job[c])
    BY <1>1
  <2>2. job[c][i] \in Call
    BY <1>1, <2>1, ElementOfSeq
  <2>3. Kept(job[c][i], db)
    BY <1>1 DEF Progress
  <2>4. QED
    BY <1>1, <2>2, <2>3, KeptStays
<1>3. QED
  BY <1>1, <1>2 DEF Progress

LEMMA ProgressCommits ==
    ASSUME KeptInv, Next, NEW c \in Client, Commit(c)
    PROVE  \A i \in 1..pos[c] : Kept(job[c][i], db')
<1>1. /\ stage[c] = "checked" /\ pos[c] \in 1..Len(job[c]) /\ job[c] \in Seq(Call)
      /\ Len(job[c]) \in Nat /\ SafeInv
  BY LenProperties DEF KeptInv, SafeInv, TypeOK, Commit
<1> SUFFICES ASSUME NEW i \in 1..pos[c] PROVE Kept(job[c][i], db')
  OBVIOUS
<1>2. CASE i = pos[c]
  BY <1>1, <1>2, CommitKeeps DEF At
<1>3. CASE i # pos[c]
  <2>1. i \in 1..(pos[c] - 1) /\ i \in 1..Len(job[c])
    BY <1>1, <1>3
  <2>2. job[c][i] \in Call
    BY <1>1, <2>1, ElementOfSeq
  <2>3. Kept(job[c][i], db)
    BY <1>1, <2>1 DEF KeptInv, ProgressInv
  <2>4. QED
    BY <1>1, <2>2, <2>3, KeptStays
<1>4. QED
  BY <1>2, <1>3

LEMMA ProgressStep == ASSUME KeptInv, Next PROVE ProgressInv'
<1> SUFFICES ASSUME NEW u \in Client PROVE Progress(u)'
  BY DEF ProgressInv, Progress
<1>1. ASSUME NEW c \in Client, Start(c) PROVE Progress(u)'
  <2>1. CASE u = c
    <3>1. PICK j \in Jobs : job' = [job EXCEPT ![c] = j]
      BY <1>1 DEF Start
    <3>2. job'[c] = j /\ pos'[c] = 1
      BY <1>1, <3>1 DEF Start, KeptInv, SafeInv, TypeOK
    <3>3. Fits(j)
      BY JobsFit
    <3>4. QED
      BY <2>1, <3>2, <3>3 DEF Progress
  <2>2. CASE u # c
    BY <1>1, <2>2, ProgressStays DEF Start, KeptInv, SafeInv, TypeOK
  <2>3. QED
    BY <2>1, <2>2
<1>2. ASSUME NEW c \in Client, Begin(c) \/ Check(c) PROVE Progress(u)'
  BY <1>2, ProgressStays DEF Begin, Check, KeptInv, SafeInv, TypeOK
<1>3. ASSUME NEW c \in Client, Commit(c) PROVE Progress(u)'
  <2>1. CASE u # c
    BY <1>3, <2>1, ProgressStays DEF Commit, EndJob, KeptInv, SafeInv, TypeOK
  <2>2. CASE u = c /\ pos[c] = Len(job[c])
    <3>1. stage'[c] = "idle"
      BY <1>3, <2>2 DEF Commit, EndJob, KeptInv, SafeInv, TypeOK
    <3>2. QED
      BY <2>2, <3>1 DEF Progress
  <2>3. CASE u = c /\ pos[c] # Len(job[c])
    <3>1. stage[c] = "checked" /\ job' = job /\ pos'[c] = pos[c] + 1
      BY <1>3, <2>3 DEF Commit, KeptInv, SafeInv, TypeOK
    <3>2. pos[c] \in Nat /\ Fits(job[c])
      BY <3>1 DEF KeptInv, ProgressInv, SafeInv, TypeOK
    <3>3. \A i \in 1..pos[c] : Kept(job[c][i], db')
      BY <1>3, ProgressCommits
    <3>4. QED
      BY <2>3, <3>1, <3>2, <3>3 DEF Progress
  <2>4. QED
    BY <2>1, <2>2, <2>3
<1>4. ASSUME NEW c \in Client, CheckFails(c) \/ Abandon(c) PROVE Progress(u)'
  <2>1. EndJob(c)
    BY <1>4 DEF CheckFails, Abandon
  <2>2. CASE u = c
    BY <2>1, <2>2 DEF EndJob, Progress, KeptInv, SafeInv, TypeOK
  <2>3. CASE u # c
    BY <2>1, <2>3, ProgressStays DEF EndJob, KeptInv, SafeInv, TypeOK
  <2>4. QED
    BY <2>2, <2>3
<1>5. CASE Hour
  BY <1>5, ProgressStays DEF Hour
<1>6. QED
  BY <1>1, <1>2, <1>3, <1>4, <1>5 DEF Next, Transact

LEMMA DoneStep ==
    ASSUME KeptInv, Next, NEW j \in done' PROVE Fits(j) /\ \A i \in 1..Len(j) : Kept(j[i], db')
<1>1. CASE j \in done
  <2>1. j \in Seq(Call) /\ SafeInv /\ Fits(j) /\ \A i \in 1..Len(j) : Kept(j[i], db)
    BY <1>1 DEF KeptInv, SafeInv, TypeOK
  <2>2. \A i \in 1..Len(j) : j[i] \in Call
    BY <2>1, ElementOfSeq
  <2>3. QED
    BY <2>1, <2>2, KeptStays
<1>2. CASE j \notin done
  <2>1. PICK c \in Client : Commit(c) /\ pos[c] = Len(job[c]) /\ j = job[c]
    BY <1>2 DEF Next, Transact, Hour, Start, Begin, Check, CheckFails, Abandon, Commit
  <2>2. stage[c] = "checked"
    BY <2>1 DEF Commit
  <2>3. Fits(job[c])
    BY <2>2 DEF KeptInv, ProgressInv
  <2>4. QED
    BY <2>1, <2>3, ProgressCommits
<1>3. QED
  BY <1>1, <1>2

LEMMA KeptStep == KeptInv /\ [Next]_vars => KeptInv'
<1> SUFFICES ASSUME KeptInv, [Next]_vars PROVE KeptInv'
  OBVIOUS
<1>1. SafeInv'
  BY SafeStep DEF KeptInv
<1>2. CASE UNCHANGED vars
  BY <1>1, <1>2 DEF KeptInv, ProgressInv, vars
<1>3. CASE Next
  BY <1>1, <1>3, KeptTables, ProgressStep, DoneStep DEF KeptInv
<1>4. QED
  BY <1>2, <1>3

LEMMA KeptInit == Init => KeptInv
<1> SUFFICES ASSUME Init PROVE KeptInv
  OBVIOUS
<1>1. SafeInv
  BY SafeInit
<1>2. /\ db.records = {} /\ \A n \in Name : db.serial[n] = 0
      /\ done = {} /\ \A c \in Client : stage[c] = "idle"
  BY DEF Init, EmptyDb
<1>3. QED
  BY <1>1, <1>2 DEF KeptInv, ProgressInv

(* Whatever other processes commit, fail or abandon, what a job registered *)
(* reads back: its zones at their serials or later, its records from the   *)
(* tables and, unless a zone was registered under a record's own name,     *)
(* through the lookup of the DNS server.                                   *)
THEOREM RegisteredReadsBack ==
    ASSUME NamesAreSequences PROVE Spec => []DoneJobsReadBack
<1>1. ASSUME KeptInv, NEW j \in done, NEW i \in 1..Len(j)
      PROVE  /\ j[i].op = "zone" => db.serial[j[i].name] >= j[i].serial
             /\ j[i].op = "record" =>
                   /\ j[i].row \in db.records
                   /\ \/ Hidden(j[i].row)
                      \/ j[i].row \in GetRecords(db, j[i].row.name, j[i].row.type)
  <2>1. Kept(j[i], db) /\ Fits(j)
    BY <1>1 DEF KeptInv
  <2>2. j[i].op = "record" => j[i].row \in db.records /\ InItsZone(j[i].row)
    BY <2>1 DEF Kept, Fits
  <2>3. QED
    BY <1>1, <2>1, <2>2, FoundInItsZone DEF Kept
<1>2. KeptInv => DoneJobsReadBack
  BY <1>1 DEF DoneJobsReadBack
<1>3. QED
  BY <1>2, KeptInit, KeptStep, PTL DEF Spec
=============================================================================
