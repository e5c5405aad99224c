-------------------------- MODULE Authoring_proofs --------------------------
(***************************************************************************)
(* Proofs about AuthoringServer, for any set of requests, any texts and    *)
(* any bounds on revisions, faults and crashes, and about AuthoringTab,    *)
(* for any number of tabs and changes besides.                             *)
(*                                                                         *)
(* The server: a request past its checks holds the lock (LockInv), so the  *)
(* document it was checked against is still the current one when it is     *)
(* replaced, and the request has not been promoted before (StageInv).      *)
(* What the answers and the log are worth rests on that (StatusInv,        *)
(* TraceInv).                                                              *)
(*                                                                         *)
(* The tabs: whatever users do, a tab sends documents (TabTyped), so the   *)
(* tabs' requests are some of those the server is proved right for.  If a  *)
(* user waits for each answer, a tab has at most one fetch under way       *)
(* (Single), so while a PUT is, the tab shows the very document it sent    *)
(* (Shown).  An editor filled in since the last Admin control holds all    *)
(* the code of its artifact (Fits), so what applying it takes away from    *)
(* the document the tab's tag names, and a PUT from the document it        *)
(* replaces (Grows), was put over with older text.  A duplicate has none   *)
(* of the code that is already there, for its number is new (Numbered).    *)
(***************************************************************************)
EXTENDS AuthoringTab, SequenceTheorems, TLAPS

-----------------------------------------------------------------------------
(* The server *)

Inside == {"prepared", "replaced", "aborting"}

LockInv == \A r \in Request : req[r].at \in Inside => lock = r

StageInv ==
    \A r \in Request :
       /\ req[r].at = "new" => req[r] = Unsent
       /\ req[r].at = "prepared" => Accepts(r) /\ req[r].kind = "PUT"
       /\ req[r].at \in {"new", "sent", "prepared", "aborting"} => r \notin promoted
       /\ req[r].at = "replaced" => r \in promoted
       /\ req[r].at \in {"new", "sent", "prepared", "replaced", "aborting"} =>
             ~ InAudit(r, "ABORTED")

OpenInv == tail = "open" => audit # <<>>

(* A step that answers r and touches no other request *)
Answers(r) == /\ req' \in [Request -> Asked] /\ req'[r].at \in {"answered", "lost"}
              /\ \A q \in Request : q # r => req'[q] = req[q]

(* A step that adds at most r's line of this phase to the log *)
Logs(r, phase) ==
    /\ audit' \in Seq(Entry) /\ tail' \in {"whole", "open", "cut"} /\ OpenInv'
    /\ \A q \in Request, p \in Phase :
          InAudit(q, p)' => InAudit(q, p) \/ (q = r /\ p = phase)

Safe == TypeOK /\ LockInv /\ StageInv /\ OpenInv /\ AuditIsTrue

-----------------------------------------------------------------------------
(* Dropping the last line of a log keeps the others. *)
LEMMA DropLast ==
    ASSUME NEW s \in Seq(Entry), s # <<>>
    PROVE  /\ SubSeq(s, 1, Len(s) - 1) \in Seq(Entry)
           /\ Len(SubSeq(s, 1, Len(s) - 1)) = Len(s) - 1
           /\ \A i \in 1..(Len(s) - 1) : SubSeq(s, 1, Len(s) - 1)[i] = s[i]
<1>1. Len(s) \in Nat \ {0} /\ \A i \in 1..Len(s) : s[i] \in Entry
  BY EmptySeq, ElementOfSeq
<1>2. ASSUME NEW n \in Int, n = Len(s) - 1
      PROVE  /\ SubSeq(s, 1, n) \in Seq(Entry)
             /\ Len(SubSeq(s, 1, n)) = n
             /\ \A i \in 1..n : SubSeq(s, 1, n)[i] = s[i]
  <2>1. \A i \in 1..n : s[i] \in Entry
    BY <1>1, <1>2
  <2>2. /\ SubSeq(s, 1, n) \in Seq(Entry)
        /\ Len(SubSeq(s, 1, n)) = IF 1 <= n THEN n - 1 + 1 ELSE 0
        /\ \A i \in 1..(n - 1 + 1) : SubSeq(s, 1, n)[i] = s[1 + i - 1]
    BY <2>1, SubSeqProperties
  <2>3. QED
    BY <1>1, <1>2, <2>2
<1>3. Len(s) - 1 \in Int
  BY <1>1
<1>4. QED
  BY <1>2, <1>3

(* What a write of a line, whole or torn, does to the log: it leaves at    *)
(* most that line more than there was.                                     *)
LEMMA LogStep ==
    ASSUME TypeOK, OpenInv, NEW r \in Request, NEW phase \in Phase,
           Appends(r, phase) \/ TornLine(r, phase)
    PROVE  Logs(r, phase)
<1>1. Line(r, phase) \in Entry /\ Line(r, phase).tx = r /\ Line(r, phase).phase = phase
  BY DEF Line, Entry, TypeOK, Asked
<1>2. audit \in Seq(Entry)
  BY DEF TypeOK
<1>3. CASE audit' = audit /\ tail' \in {tail, "cut"}
  BY <1>2, <1>3 DEF TypeOK, OpenInv, InAudit, Logs
<1>4. CASE audit' = Append(audit, Line(r, phase)) /\ tail' \in {"whole", "open"}
  <2>1. /\ audit' \in Seq(Entry) /\ Len(audit') = Len(audit) + 1
        /\ \A i \in 1..Len(audit) : audit'[i] = audit[i]
        /\ audit'[Len(audit) + 1] = Line(r, phase)
    BY <1>1, <1>2, <1>4, AppendProperties
  <2>2. Len(audit) \in Nat
    BY <1>2, LenProperties
  <2>3. audit' # <<>>
    BY <2>1, <2>2, EmptySeq
  <2>4. ASSUME NEW q \in Request, NEW p \in Phase, InAudit(q, p)'
        PROVE  InAudit(q, p) \/ (q = r /\ p = phase)
    <3>1. PICK i \in 1..Len(audit') : audit'[i].tx = q /\ audit'[i].phase = p
      BY <2>4 DEF InAudit
    <3>2. CASE i = Len(audit) + 1
      BY <3>1, <3>2, <2>1, <1>1
    <3>3. CASE i \in 1..Len(audit)
      BY <3>1, <3>3, <2>1 DEF InAudit
    <3>4. QED
      BY <3>2, <3>3, <2>1, <2>2
  <2>5. QED
    BY <1>4, <2>1, <2>3, <2>4 DEF OpenInv, Logs
<1>5. CASE /\ tail = "open" /\ tail' = "cut"
           /\ audit' = SubSeq(audit, 1, Len(audit) - 1)
  <2>1. audit # <<>>
    BY <1>5 DEF OpenInv
  <2>2. /\ audit' \in Seq(Entry) /\ Len(audit') = Len(audit) - 1
        /\ \A i \in 1..(Len(audit) - 1) : audit'[i] = audit[i]
    BY <1>2, <1>5, <2>1, DropLast
  <2>3. Len(audit) \in Nat
    BY <1>2, LenProperties
  <2>4. ASSUME NEW q \in Request, NEW p \in Phase, InAudit(q, p)'
        PROVE  InAudit(q, p)
    <3>1. PICK i \in 1..Len(audit') : audit'[i].tx = q /\ audit'[i].phase = p
      BY <2>4 DEF InAudit
    <3>2. i \in 1..Len(audit) /\ audit'[i] = audit[i]
      BY <3>1, <2>2, <2>3
    <3>3. QED
      BY <3>1, <3>2 DEF InAudit
  <2>5. QED
    BY <1>5, <2>2, <2>4 DEF OpenInv, Logs
<1>6. QED
  BY <1>3, <1>4, <1>5 DEF Appends, TornLine, Part, TypeOK

LEMMA LogFails ==
    ASSUME TypeOK, OpenInv, NEW r \in Request, NEW phase \in Phase,
           AppendFails(r, phase)
    PROVE  Logs(r, phase) /\ faults' \in 0..MaxFaults
<1>1. CASE TornLine(r, phase) /\ Fault
  <2>1. faults' \in 0..MaxFaults
    BY <1>1, BoundsAssumption DEF TypeOK, Fault
  <2>2. QED
    BY <1>1, <2>1, LogStep
<1>2. CASE UNCHANGED <<audit, tail, faults>>
  BY <1>2 DEF TypeOK, OpenInv, InAudit, Logs
<1>3. QED
  BY <1>1, <1>2 DEF AppendFails

LEMMA LogReturns ==
    ASSUME TypeOK, OpenInv, NEW r \in Request, NEW phase \in Phase,
           Logged(r, phase)
    PROVE  Logs(r, phase) /\ faults' \in 0..MaxFaults
<1>1. Appends(r, phase) \/ TornLine(r, phase)
  BY DEF Logged, TornLine
<1>2. faults' \in 0..MaxFaults
  BY BoundsAssumption DEF Logged, Fault, TypeOK
<1>3. QED
  BY <1>1, <1>2, LogStep

-----------------------------------------------------------------------------
LEMMA SafeInit == Init => Safe
<1> SUFFICES ASSUME Init PROVE Safe
  OBVIOUS
<1>1. Unsent \in Asked
  BY SeedAssumption DEF Unsent, Asked, Stage, Status
<1>2. audit \in Seq(Entry) /\ Len(audit) = 0
  BY EmptySeq DEF Init
<1>3. TypeOK
  BY <1>1, <1>2, SeedAssumption, BoundsAssumption DEF Init, TypeOK
<1>4. \A r \in Request : req[r].at = "new"
  BY DEF Init, Unsent
<1>5. \A r \in Request, p \in Phase : ~ InAudit(r, p)
  BY <1>2 DEF InAudit
<1>6. QED
  BY <1>3, <1>4, <1>5
     DEF Safe, LockInv, StageInv, OpenInv, AuditIsTrue, Init, Inside, Phase

(* A step that only answers r, and writes at most a line about r in the    *)
(* log, one that is true of it.                                            *)
LEMMA SafeAnswer ==
    ASSUME Safe, NEW r \in Request, NEW phase \in Phase,
           Answers(r), Logs(r, phase), faults' \in 0..MaxFaults,
           UNCHANGED <<doc, promoted, crashes>>,
           (lock' = lock /\ req[r].at = "sent") \/ (lock' = NoRequest /\ lock = r),
           phase = "COMMITTED" => r \in promoted,
           phase = "ABORTED" => r \notin promoted
    PROVE  Safe'
<1>1. TypeOK'
  BY DEF Safe, TypeOK, Answers, Logs
<1>2. LockInv'
  BY DEF Safe, LockInv, Inside, Answers
<1>3. StageInv'
  <2> SUFFICES ASSUME NEW q \in Request, q # r
               PROVE  /\ req'[q].at = "new" => req'[q] = Unsent
                      /\ req'[q].at = "prepared" => Accepts(q)' /\ req'[q].kind = "PUT"
                      /\ req'[q].at \in {"new", "sent", "prepared", "aborting"} =>
                            q \notin promoted'
                      /\ req'[q].at = "replaced" => q \in promoted'
                      /\ req'[q].at \in {"new", "sent", "prepared", "replaced",
                                         "aborting"} => ~ InAudit(q, "ABORTED")'
    BY DEF StageInv, Answers
  <2>1. InAudit(q, "ABORTED")' => InAudit(q, "ABORTED")
    BY DEF Phase, Logs
  <2>2. req'[q] = req[q]
    BY DEF Answers
  <2>3. QED
    BY <2>1, <2>2 DEF Safe, StageInv, Accepts
<1>4. AuditIsTrue'
  <2> SUFFICES ASSUME NEW q \in Request
               PROVE  /\ InAudit(q, "COMMITTED")' => q \in promoted'
                      /\ InAudit(q, "ABORTED")' => q \notin promoted'
    BY DEF AuditIsTrue
  <2>1. /\ InAudit(q, "COMMITTED")' => InAudit(q, "COMMITTED") \/ (q = r /\ phase = "COMMITTED")
        /\ InAudit(q, "ABORTED")' => InAudit(q, "ABORTED") \/ (q = r /\ phase = "ABORTED")
    BY DEF Phase, Logs
  <2>2. QED
    BY <2>1 DEF Safe, AuditIsTrue
<1>5. QED
  BY <1>1, <1>2, <1>3, <1>4 DEF Safe, Logs

LEMMA NothingLogged ==
    ASSUME Safe, UNCHANGED <<audit, tail>>, NEW r \in Request, NEW phase
    PROVE  Logs(r, phase)
BY DEF Safe, TypeOK, OpenInv, InAudit, Logs

LEMMA AnswerType ==
    ASSUME Safe, NEW r \in Request, NEW k \in Asked, k.at \in {"answered", "lost"},
           req' = [req EXCEPT ![r] = k]
    PROVE  Answers(r)
BY DEF Safe, TypeOK, Answers

(* Updates of one field of a request's state *)
LEMMA StageUpdate ==
    ASSUME NEW k \in Asked, NEW stage \in Stage
    PROVE  /\ [k EXCEPT !.at = stage] \in Asked
           /\ [k EXCEPT !.at = stage].at = stage
BY DEF Asked

LEMMA StatusUpdate ==
    ASSUME NEW k \in Asked, NEW status \in Status
    PROVE  /\ [k EXCEPT !.status = status] \in Asked
           /\ [k EXCEPT !.status = status].at = k.at
BY DEF Asked

LEMMA BodyUpdate ==
    ASSUME NEW k \in Asked, NEW d \in Doc
    PROVE  [k EXCEPT !.body = d] \in Asked /\ [k EXCEPT !.body = d].at = k.at
BY DEF Asked

LEMMA SomeStatus == {200, 400, 412} \subseteq Status /\ 0 \in Status
BY DEF Status

LEMMA StatusType ==
    ASSUME Safe, NEW r \in Request, NEW status \in Status, Answer(r, status)
    PROVE  Answers(r)
<1>1. req[r] \in Asked /\ "answered" \in Stage
  BY DEF Safe, TypeOK, Stage
<1> DEFINE k == [[req[r] EXCEPT !.at = "answered"] EXCEPT !.status = status]
<1>2. k \in Asked /\ k.at = "answered"
  BY <1>1, StageUpdate, StatusUpdate
<1>3. req' = [req EXCEPT ![r] = k]
  BY DEF Answer
<1> HIDE DEF k
<1>4. QED
  BY <1>2, <1>3, AnswerType

LEMMA GetType == ASSUME Safe, NEW r \in Request, Get(r) PROVE Answers(r)
<1>1. req[r] \in Asked /\ doc \in Doc /\ "answered" \in Stage
  BY DEF Safe, TypeOK, Stage
<1> DEFINE k1 == [req[r] EXCEPT !.at = "answered"]
           k2 == [k1 EXCEPT !.status = 200]
           k == [k2 EXCEPT !.body = doc]
<1>2. k1 \in Asked /\ k1.at = "answered"
  BY <1>1, StageUpdate
<1>3. k2 \in Asked /\ k2.at = "answered"
  <2> HIDE DEF k1
  <2> QED BY <1>2, StatusUpdate, SomeStatus
<1>4. k \in Asked /\ k.at = "answered"
  <2> HIDE DEF k2
  <2> QED BY <1>1, <1>3, BodyUpdate
<1>5. req' = [req EXCEPT ![r] = k]
  BY DEF Get
<1> HIDE DEF k
<1>6. QED
  BY <1>4, <1>5, AnswerType

LEMMA GetFailsType == ASSUME Safe, NEW r \in Request, GetFails(r) PROVE Answers(r)
<1>1. req[r] \in Asked /\ "lost" \in Stage
  BY DEF Safe, TypeOK, Stage
<1> DEFINE k == [req[r] EXCEPT !.at = "lost"]
<1>2. k \in Asked /\ k.at = "lost"
  BY <1>1, StageUpdate
<1>3. req' = [req EXCEPT ![r] = k]
  BY DEF GetFails, Goto
<1> HIDE DEF k
<1>4. QED
  BY <1>2, <1>3, AnswerType

LEMMA FaultType == ASSUME Safe, Fault PROVE faults' \in 0..MaxFaults
BY BoundsAssumption DEF Safe, TypeOK, Fault

LEMMA SafeRefuse ==
    ASSUME Safe, NEW r \in Request,
           \/ Get(r) \/ GetFails(r) \/ Reject(r) \/ ReadFails(r)
           \/ Conflict(r) \/ NotAdvancing(r)
    PROVE  Safe'
<1>1. /\ req[r].at = "sent"
      /\ UNCHANGED <<doc, promoted, crashes>> /\ lock' = lock
      /\ UNCHANGED <<audit, tail>>
      /\ faults' = faults \/ Fault
  BY DEF Get, GetFails, Reject, ReadFails, Conflict, NotAdvancing, Enters
<1>2. Answers(r)
  BY GetType, GetFailsType, StatusType, SomeStatus
  DEF Reject, ReadFails, Conflict, NotAdvancing
<1>3. PICK phase \in Phase : phase \notin {"COMMITTED", "ABORTED"}
  BY DEF Phase
<1>4. Logs(r, phase) /\ faults' \in 0..MaxFaults
  BY <1>1, NothingLogged, FaultType DEF Safe, TypeOK
<1>5. QED
  BY <1>1, <1>2, <1>3, <1>4, SafeAnswer

LEMMA SafePrepareFails ==
    ASSUME Safe, NEW r \in Request, PrepareFails(r) PROVE Safe'
<1>1. /\ req[r].at = "sent" /\ Answer(r, 400)
      /\ UNCHANGED <<doc, promoted, crashes>> /\ lock' = lock
  BY DEF PrepareFails, Enters
<1>2. PICK phase \in Phase : phase \notin {"COMMITTED", "ABORTED"}
                              /\ AppendFails(r, phase)
  BY DEF PrepareFails, Phase
<1>3. Logs(r, phase) /\ faults' \in 0..MaxFaults
  BY <1>2, LogFails DEF Safe
<1>4. Answers(r)
  BY <1>1, StatusType, SomeStatus
<1>5. QED
  BY <1>1, <1>2, <1>3, <1>4, SafeAnswer

(* Whoever is past its checks holds the lock. *)
LEMMA Holder ==
    ASSUME Safe, NEW r \in Request, req[r].at \in Inside
    PROVE  /\ lock = r
           /\ \A q \in Request : q # r => req[q].at \notin Inside
BY DEF Safe, LockInv

LEMMA SafeFinish ==
    ASSUME Safe, NEW r \in Request, Abort(r) \/ Commit(r) \/ CommitFails(r)
    PROVE  Safe'
<1>1. PICK phase \in {"ABORTED", "COMMITTED"}, status \in Status :
         /\ Answer(r, status)
         /\ Logged(r, phase) \/ AppendFails(r, phase)
         /\ phase = "COMMITTED" => req[r].at = "replaced"
         /\ phase = "ABORTED" => req[r].at = "aborting"
  BY SomeStatus DEF Abort, Commit, CommitFails
<1>2. req[r].at \in Inside /\ phase \in Phase /\ TypeOK /\ OpenInv
  BY <1>1 DEF Inside, Safe, Phase
<1>3. lock = r /\ lock' = NoRequest /\ UNCHANGED <<doc, promoted, crashes>>
  BY <1>2, Holder DEF Abort, Commit, CommitFails
<1>4. /\ phase = "COMMITTED" => r \in promoted
      /\ phase = "ABORTED" => r \notin promoted
  BY <1>1 DEF Safe, StageInv
<1>5. Logs(r, phase) /\ faults' \in 0..MaxFaults
  BY <1>1, <1>2, LogFails, LogReturns
<1>6. Answers(r)
  BY <1>1, StatusType
<1>7. QED
  BY <1>2, <1>3, <1>4, <1>5, <1>6, SafeAnswer

(* A step of the request that moves to another stage of its transaction *)
LEMMA StageType ==
    ASSUME Safe, NEW r \in Request, NEW stage \in Stage, Goto(r, stage)
    PROVE  /\ req' \in [Request -> Asked]
           /\ req'[r] = [req[r] EXCEPT !.at = stage] /\ req'[r].at = stage
           /\ \A q \in Request : q # r => req'[q] = req[q]
<1>1. req \in [Request -> Asked] /\ req[r] \in Asked
  BY DEF Safe, TypeOK
<1>2. req' = [req EXCEPT ![r] = [req[r] EXCEPT !.at = stage]]
  BY DEF Goto
<1>3. QED
  BY <1>1, <1>2, StageUpdate

(* Nobody else is past its checks when the lock is free or held by r. *)
LEMMA Alone ==
    ASSUME Safe, NEW r \in Request, lock \in {NoRequest, r},
           NEW q \in Request, q # r
    PROVE  req[q].at \notin Inside
BY RequestAssumption DEF Safe, LockInv

LEMMA SafePrepare == ASSUME Safe, NEW r \in Request, Prepare(r) PROVE Safe'
<1>1. /\ req[r].at = "sent" /\ req[r].kind = "PUT" /\ lock = NoRequest
      /\ Accepts(r) /\ Logged(r, "PREPARED") /\ lock' = r
      /\ doc' = doc /\ promoted' = promoted /\ crashes' = crashes
  BY DEF Prepare, Enters
<1>2. PICK phase \in Phase : phase = "PREPARED" /\ Logged(r, phase)
  BY <1>1 DEF Phase
<1>3. Logs(r, phase) /\ faults' \in 0..MaxFaults
  BY <1>2, LogReturns DEF Safe
<1>4. /\ req' \in [Request -> Asked]
      /\ req'[r] = [req[r] EXCEPT !.at = "prepared"] /\ req'[r].at = "prepared"
      /\ \A q \in Request : q # r => req'[q] = req[q]
  BY StageType DEF Prepare, Stage
<1>5. TypeOK'
  BY <1>1, <1>3, <1>4 DEF Safe, TypeOK, Logs
<1>6. \A q \in Request : q # r => req'[q].at \notin Inside
  BY <1>1, <1>4, Alone
<1>7. LockInv'
  BY <1>1, <1>6 DEF LockInv
<1>8. \A q \in Request : /\ InAudit(q, "ABORTED")' => InAudit(q, "ABORTED")
                         /\ InAudit(q, "COMMITTED")' => InAudit(q, "COMMITTED")
  BY <1>2, <1>3 DEF Logs, Phase
<1>9. StageInv'
  <2>1. Accepts(r)' /\ req'[r].kind = "PUT"
    <3>1. req[r] \in Asked
      BY DEF Safe, TypeOK
    <3>2. /\ req'[r].match = req[r].match /\ req'[r].body = req[r].body
          /\ req'[r].kind = req[r].kind
      BY <1>4, <3>1 DEF Asked
    <3>3. QED
      BY <1>1, <3>2 DEF Accepts
  <2>2. r \notin promoted' /\ ~ InAudit(r, "ABORTED")'
    BY <1>1, <1>8 DEF Safe, StageInv
  <2>3. QED
    BY <1>1, <1>4, <1>6, <1>8, <2>1, <2>2 DEF Safe, StageInv, Inside
<1>10. AuditIsTrue'
  BY <1>1, <1>8 DEF Safe, AuditIsTrue
<1>11. QED
  BY <1>3, <1>5, <1>7, <1>9, <1>10 DEF Safe, Logs

LEMMA SafeReplace == ASSUME Safe, NEW r \in Request, Replace(r) PROVE Safe'
<1>1. /\ req[r].at = "prepared" /\ doc' = req[r].body
      /\ promoted' = promoted \cup {r}
      /\ audit' = audit /\ tail' = tail /\ lock' = lock
      /\ faults' = faults /\ crashes' = crashes
  BY DEF Replace
<1>2. lock = r
  BY <1>1, Holder DEF Inside
<1>3. /\ req' \in [Request -> Asked] /\ req'[r].at = "replaced"
      /\ \A q \in Request : q # r => req'[q] = req[q]
  BY StageType DEF Replace, Stage
<1>4. req[r].body \in Doc
  BY DEF Safe, TypeOK, Asked
<1>5. TypeOK'
  BY <1>1, <1>3, <1>4 DEF Safe, TypeOK
<1>6. \A q \in Request : q # r => req'[q].at \notin Inside
  BY <1>2, <1>3, Alone
<1>7. LockInv'
  BY <1>1, <1>2, <1>6 DEF LockInv
<1>8. \A q \in Request, p \in Phase : InAudit(q, p)' <=> InAudit(q, p)
  BY <1>1 DEF InAudit
<1>9. ~ InAudit(r, "ABORTED")
  BY <1>1 DEF Safe, StageInv
<1>10. StageInv'
  BY <1>1, <1>3, <1>6, <1>8, <1>9 DEF Safe, StageInv, Inside, Phase
<1>11. AuditIsTrue'
  BY <1>1, <1>8, <1>9 DEF Safe, AuditIsTrue, Phase
<1>12. OpenInv'
  BY <1>1 DEF Safe, OpenInv
<1>13. QED
  BY <1>5, <1>7, <1>10, <1>11, <1>12 DEF Safe

LEMMA SafeReplaceFails ==
    ASSUME Safe, NEW r \in Request, ReplaceFails(r) PROVE Safe'
<1>1. /\ req[r].at = "prepared" /\ doc' = doc /\ promoted' = promoted
      /\ audit' = audit /\ tail' = tail /\ lock' = lock
      /\ faults' \in 0..MaxFaults /\ crashes' = crashes
  BY BoundsAssumption DEF ReplaceFails, Fault, Safe, TypeOK
<1>2. /\ req' \in [Request -> Asked] /\ req'[r].at = "aborting"
      /\ \A q \in Request : q # r => req'[q] = req[q]
  BY StageType DEF ReplaceFails, Stage
<1>3. lock = r /\ r \notin promoted /\ ~ InAudit(r, "ABORTED")
  BY <1>1, Holder DEF Inside, Safe, StageInv
<1>4. TypeOK'
  BY <1>1, <1>2 DEF Safe, TypeOK
<1>5. \A q \in Request : q # r => req'[q].at \notin Inside
  BY <1>2, <1>3, Alone
<1>6. LockInv'
  BY <1>1, <1>3, <1>5 DEF LockInv
<1>7. \A q \in Request, p \in Phase : InAudit(q, p)' <=> InAudit(q, p)
  BY <1>1 DEF InAudit
<1>8. StageInv'
  BY <1>1, <1>2, <1>3, <1>5, <1>7 DEF Safe, StageInv, Inside, Phase
<1>9. AuditIsTrue' /\ OpenInv'
  BY <1>1, <1>7 DEF Safe, AuditIsTrue, OpenInv, Phase
<1>10. QED
  BY <1>4, <1>6, <1>8, <1>9 DEF Safe

LEMMA SafeSend ==
    ASSUME Safe, NEW r \in Request, NEW kind \in {"GET", "PUT"},
           NEW match \in Doc, NEW body \in Doc, Send(r, kind, match, body)
    PROVE  Safe'
<1>1. /\ req[r].at = "new" /\ doc' = doc /\ promoted' = promoted
      /\ audit' = audit /\ tail' = tail /\ lock' = lock
      /\ faults' = faults /\ crashes' = crashes
  BY DEF Send
<1> DEFINE k == [at |-> "sent", kind |-> kind, match |-> match, body |-> body,
                 status |-> 0]
<1>2. "sent" \in Stage /\ 0 \in Status
  BY DEF Stage, Status
<1>3. k \in Asked /\ k.at = "sent"
  BY <1>2 DEF Asked
<1>4. req' = [req EXCEPT ![r] = k]
  BY DEF Send
<1> HIDE DEF k
<1>5. /\ req' \in [Request -> Asked] /\ req'[r].at = "sent"
      /\ \A q \in Request : q # r => req'[q] = req[q]
  BY <1>3, <1>4 DEF Safe, TypeOK
<1>6. TypeOK'
  BY <1>1, <1>5 DEF Safe, TypeOK
<1>7. LockInv'
  BY <1>1, <1>5 DEF Safe, LockInv, Inside
<1>8. \A q \in Request, p \in Phase : InAudit(q, p)' <=> InAudit(q, p)
  BY <1>1 DEF InAudit
<1>9. r \notin promoted /\ ~ InAudit(r, "ABORTED")
  BY <1>1 DEF Safe, StageInv
<1>10. StageInv'
  BY <1>1, <1>5, <1>8, <1>9 DEF Safe, StageInv, Accepts, Phase
<1>11. AuditIsTrue' /\ OpenInv'
  BY <1>1, <1>8 DEF Safe, AuditIsTrue, OpenInv, Phase
<1>12. QED
  BY <1>6, <1>7, <1>10, <1>11 DEF Safe

(* What a crash leaves in the log is true of its transaction, too. *)
LEMMA CrashLog ==
    ASSUME Safe, Crash
    PROVE  /\ audit' \in Seq(Entry) /\ tail' \in {"whole", "open", "cut"} /\ OpenInv'
           /\ \A q \in Request :
                 /\ InAudit(q, "COMMITTED")' => q \in promoted
                 /\ InAudit(q, "ABORTED")' =>
                       InAudit(q, "ABORTED") \/ req[q].at = "aborting"
<1>1. CASE UNCHANGED <<audit, tail>>
  <2>1. \A q \in Request, p \in Phase : InAudit(q, p)' <=> InAudit(q, p)
    BY <1>1 DEF InAudit
  <2>2. QED
    BY <1>1, <2>1 DEF Safe, TypeOK, OpenInv, AuditIsTrue, Phase
<1>2. ASSUME NEW r \in Request, NEW phase \in Phase, Logs(r, phase),
             phase = "COMMITTED" => req[r].at = "replaced",
             phase = "ABORTED" => req[r].at = "aborting"
      PROVE  /\ audit' \in Seq(Entry) /\ tail' \in {"whole", "open", "cut"} /\ OpenInv'
             /\ \A q \in Request :
                   /\ InAudit(q, "COMMITTED")' => q \in promoted
                   /\ InAudit(q, "ABORTED")' =>
                         InAudit(q, "ABORTED") \/ req[q].at = "aborting"
  <2>1. \A q \in Request :
           /\ InAudit(q, "COMMITTED")' =>
                 InAudit(q, "COMMITTED") \/ (q = r /\ phase = "COMMITTED")
           /\ InAudit(q, "ABORTED")' =>
                 InAudit(q, "ABORTED") \/ (q = r /\ phase = "ABORTED")
    BY <1>2 DEF Logs, Phase
  <2>2. phase = "COMMITTED" => r \in promoted
    BY <1>2 DEF Safe, StageInv
  <2>3. QED
    BY <1>2, <2>1, <2>2 DEF Safe, AuditIsTrue, Logs
<1>3. ASSUME NEW phase \in Writing, TornLine(lock, phase)
      PROVE  /\ lock \in Request /\ phase \in Phase /\ Logs(lock, phase)
             /\ phase = "COMMITTED" => req[lock].at = "replaced"
             /\ phase = "ABORTED" => req[lock].at = "aborting"
  <2>1. lock \in Request
    BY <1>3 DEF Writing, Safe, TypeOK
  <2>2. \/ phase = "COMMITTED" /\ req[lock].at = "replaced"
        \/ phase = "ABORTED" /\ req[lock].at = "aborting"
    BY <1>3, <2>1, RequestAssumption DEF Writing
  <2>3. phase \in Phase
    BY <2>2 DEF Phase
  <2>4. QED
    BY <1>3, <2>1, <2>2, <2>3, LogStep DEF Safe
<1>4. ASSUME NEW r \in Request, TornLine(r, "PREPARED")
      PROVE  \E phase \in Phase : /\ phase \notin {"COMMITTED", "ABORTED"}
                                  /\ Logs(r, phase)
  <2>1. PICK phase \in Phase : phase = "PREPARED" /\ TornLine(r, phase)
    BY <1>4 DEF Phase
  <2>2. QED
    BY <2>1, LogStep DEF Safe
<1>5. QED
  BY <1>1, <1>2, <1>3, <1>4 DEF Crash

LEMMA SafeCrash == ASSUME Safe, Crash PROVE Safe'
<1>1. /\ doc' = doc /\ promoted' = promoted /\ lock' = NoRequest
      /\ faults' = faults /\ crashes' \in 0..MaxCrashes
  BY BoundsAssumption DEF Crash, Safe, TypeOK
<1>2. \A r \in Request :
         /\ req'[r] \in Asked
         /\ req'[r].at \in {"new", "answered", "lost"}
         /\ req'[r].at = "new" => req[r].at = "new" /\ req'[r] = req[r]
  <2> SUFFICES ASSUME NEW r \in Request
               PROVE  /\ req'[r] \in Asked
                      /\ req'[r].at \in {"new", "answered", "lost"}
                      /\ req'[r].at = "new" => req[r].at = "new" /\ req'[r] = req[r]
    OBVIOUS
  <2>1. req[r] \in Asked /\ "lost" \in Stage
    BY DEF Safe, TypeOK, Stage
  <2>2. /\ [req[r] EXCEPT !.at = "lost"] \in Asked
        /\ [req[r] EXCEPT !.at = "lost"].at = "lost"
    BY <2>1, StageUpdate
  <2>3. CASE req[r].at \in {"new", "answered"}
    BY <2>1, <2>3 DEF Crash
  <2>4. CASE req[r].at \notin {"new", "answered"}
    BY <2>2, <2>4 DEF Crash
  <2>5. QED
    BY <2>3, <2>4
<1>3. req' \in [Request -> Asked]
  BY <1>2 DEF Crash
<1>4. TypeOK'
  BY <1>1, <1>3, CrashLog DEF Safe, TypeOK
<1>5. LockInv'
  BY <1>2 DEF LockInv, Inside
<1>6. StageInv'
  <2> SUFFICES ASSUME NEW r \in Request, req'[r].at = "new"
               PROVE  /\ req'[r] = Unsent /\ r \notin promoted'
                      /\ ~ InAudit(r, "ABORTED")'
    BY <1>2 DEF StageInv
  <2>1. req[r].at = "new" /\ req'[r] = req[r]
    BY <1>2
  <2>2. ~ InAudit(r, "ABORTED") /\ req[r] = Unsent /\ r \notin promoted
    BY <2>1 DEF Safe, StageInv
  <2>3. QED
    BY <1>1, <2>1, <2>2, CrashLog
<1>7. AuditIsTrue'
  <2> SUFFICES ASSUME NEW r \in Request
               PROVE  /\ InAudit(r, "COMMITTED")' => r \in promoted'
                      /\ InAudit(r, "ABORTED")' => r \notin promoted'
    BY DEF AuditIsTrue
  <2>1. req[r].at = "aborting" => r \notin promoted
    BY DEF Safe, StageInv
  <2>2. QED
    BY <1>1, <2>1, CrashLog DEF Safe, AuditIsTrue
<1>8. QED
  BY <1>4, <1>5, <1>6, <1>7, CrashLog DEF Safe

LEMMA SafeStep == Safe /\ [Next]_vars => Safe'
<1> SUFFICES ASSUME Safe, [Next]_vars PROVE Safe'
  OBVIOUS
<1>1. ASSUME NEW r \in Request, Handle(r) PROVE Safe'
  BY <1>1, SafeRefuse, SafePrepare, SafePrepareFails, SafeReplace,
     SafeReplaceFails, SafeFinish DEF Handle
<1>2. ASSUME NEW r \in Request, Send(r, "GET", Seed, Seed) PROVE Safe'
  BY <1>2, SafeSend, SeedAssumption
<1>3. ASSUME NEW r \in Request, NEW match \in Doc, NEW body \in Doc,
             Send(r, "PUT", match, body)
      PROVE  Safe'
  BY <1>3, SafeSend
<1>4. CASE UNCHANGED vars
  BY <1>4 DEF vars, Safe, TypeOK, LockInv, StageInv, OpenInv, AuditIsTrue,
     InAudit, Accepts
<1>5. QED
  BY <1>1, <1>2, <1>3, <1>4, SafeCrash DEF Next

(* The authoring server's state keeps its types. *)
THEOREM TypeCorrect == Spec => []TypeOK
<1>1. Safe => TypeOK
  BY DEF Safe
<1>2. QED
  BY <1>1, SafeInit, SafeStep, PTL DEF Spec

(* What the audit log says of a transaction is what became of it, however  *)
(* writes fail, lines tear and the process crashes.                        *)
THEOREM AuditTellsTheTruth == Spec => []AuditIsTrue
<1>1. Safe => AuditIsTrue
  BY DEF Safe
<1>2. QED
  BY <1>1, SafeInit, SafeStep, PTL DEF Spec

-----------------------------------------------------------------------------
(* What a request asks for stays what it is while the server works on it;  *)
(* body is where a GET keeps its answer.                                   *)
SameAsks == \A q \in Request :
               /\ req'[q].match = req[q].match /\ req'[q].kind = req[q].kind
               /\ req[q].kind = "PUT" => req'[q].body = req[q].body

LEMMA HandleKeepsAsks == ASSUME Safe, NEW r \in Request, Handle(r) PROVE SameAsks
<1>1. ASSUME NEW stage, Goto(r, stage) PROVE SameAsks
  BY <1>1 DEF Goto, Safe, TypeOK, Asked, SameAsks
<1>2. ASSUME NEW status, Answer(r, status) PROVE SameAsks
  BY <1>2 DEF Answer, Safe, TypeOK, Asked, SameAsks
<1>3. CASE Get(r)
  BY <1>3 DEF Get, Safe, TypeOK, Asked, SameAsks
<1>4. QED
  BY <1>1, <1>2, <1>3
  DEF Handle, GetFails, Reject, ReadFails, Conflict, NotAdvancing, Prepare, PrepareFails,
      Replace, ReplaceFails, Abort, Commit, CommitFails

LEMMA CrashKeepsAsks == ASSUME Safe, Crash PROVE SameAsks
BY DEF Crash, Safe, TypeOK, Asked, SameAsks

LEMMA StepPromotes ==
    Safe /\ [Next]_vars => [Abstract!Next]_<<doc, promoted, Ask>>
<1> SUFFICES ASSUME Safe, [Next]_vars
             PROVE  [Abstract!Next]_<<doc, promoted, Ask>>
  OBVIOUS
<1>1. ASSUME NEW r \in Request, Replace(r) PROVE Abstract!Promote(r)
  <2>1. req[r].at = "prepared"
    BY <1>1 DEF Replace
  <2>2. r \notin promoted /\ Accepts(r) /\ req[r].kind = "PUT"
    BY <2>1 DEF Safe, StageInv
  <2>3. \A q \in Request : /\ req'[q].match = req[q].match
                           /\ req'[q].body = req[q].body
                           /\ req'[q].kind = req[q].kind
    BY <1>1 DEF Replace, Goto, Safe, TypeOK, Asked
  <2>4. Ask' = Ask
    BY <2>3 DEF Ask
  <2>5. Ask[r].match = req[r].match /\ Ask[r].body = req[r].body
    BY <2>2 DEF Ask
  <2>6. doc' = req[r].body /\ promoted' = promoted \cup {r}
    BY <1>1 DEF Replace
  <2>7. QED
    BY <2>2, <2>4, <2>5, <2>6 DEF Abstract!Promote, Accepts
<1>2. ASSUME NEW r \in Request, NEW kind \in {"GET", "PUT"}, NEW match \in Doc,
             NEW body \in Doc, Send(r, kind, match, body)
      PROVE  Abstract!Ask(r)
  <2>1. req[r] = Unsent
    BY <1>2 DEF Send, Safe, StageInv
  <2>2. Ask[r] = Abstract!NoAsk
    BY <2>1 DEF Ask, Unsent, Abstract!NoAsk
  <2>3. /\ req'[r].match = match /\ req'[r].body = body /\ req'[r].kind = kind
        /\ \A q \in Request : q # r => req'[q] = req[q]
    BY <1>2 DEF Send, Safe, TypeOK
  <2> DEFINE b == IF kind = "PUT" THEN body ELSE Seed
  <2>4. b \in Doc
    BY SeedAssumption
  <2>5. Ask' = [Ask EXCEPT ![r] = [match |-> match, body |-> b]]
    BY <2>3 DEF Ask
  <2>6. match \in Abstract!Doc /\ b \in Abstract!Doc
    BY <2>4 DEF Doc, Abstract!Doc
  <2>7. doc' = doc /\ promoted' = promoted
    BY <1>2 DEF Send
  <2>8. QED
    BY <2>2, <2>5, <2>6, <2>7 DEF Abstract!Ask
<1>3. ASSUME doc' = doc, promoted' = promoted, SameAsks
      PROVE  UNCHANGED <<doc, promoted, Ask>>
  BY <1>3 DEF Ask, SameAsks
<1>4. ASSUME NEW r \in Request, Handle(r), ~ Replace(r)
      PROVE  UNCHANGED <<doc, promoted, Ask>>
  <2>1. doc' = doc /\ promoted' = promoted
    BY <1>4 DEF Handle, Get, GetFails, Reject, ReadFails, Conflict, NotAdvancing, Prepare,
       PrepareFails, ReplaceFails, Abort, Commit, CommitFails
  <2>2. QED
    BY <1>3, <1>4, <2>1, HandleKeepsAsks
<1>5. CASE Crash
  BY <1>3, <1>5, CrashKeepsAsks DEF Crash
<1>6. CASE UNCHANGED vars
  BY <1>3, <1>6 DEF vars, SameAsks
<1>7. QED
  BY <1>1, <1>2, <1>4, <1>5, <1>6, SeedAssumption DEF Next, Abstract!Next

(* The locked check, replace and audit of PUT implement a compare-and-swap *)
(* of the document: one instant, on the version the request was made from. *)
THEOREM PutIsCompareAndSwap == Spec => ImplementsVersionedDocument
<1>1. Init => Abstract!Init
  BY DEF Init, Abstract!Init, Ask, Unsent, Abstract!NoAsk
<1>2. QED
  BY <1>1, SafeInit, SafeStep, StepPromotes, PTL
     DEF Spec, ImplementsVersionedDocument, Abstract!Spec, Abstract!vars

-----------------------------------------------------------------------------
(* What the answers are worth, on top of Safe *)
StatusInv == AnswersAreTrue /\ \A r \in Request : req[r].at # "answered" => req[r].status = 0

LEMMA AnswerFields ==
    ASSUME Safe, NEW r \in Request, NEW status \in Status, Answer(r, status)
    PROVE  /\ req'[r].at = "answered" /\ req'[r].status = status
           /\ req'[r].kind = req[r].kind
           /\ \A q \in Request : q # r => req'[q] = req[q]
BY DEF Answer, Safe, TypeOK, Asked

LEMMA GotoFields ==
    ASSUME Safe, NEW r \in Request, NEW stage \in Stage, Goto(r, stage)
    PROVE  /\ req'[r].at = stage /\ req'[r].status = req[r].status
           /\ req'[r].kind = req[r].kind
           /\ \A q \in Request : q # r => req'[q] = req[q]
BY DEF Goto, Safe, TypeOK, Asked

LEMMA StatusAnswer ==
    ASSUME Safe, StatusInv, NEW r \in Request, NEW status \in Status,
           Answer(r, status), promoted' = promoted,
           req[r].kind = "PUT" /\ status = 200 => r \in promoted,
           status = 412 => r \notin promoted
    PROVE  StatusInv'
BY AnswerFields DEF StatusInv, AnswersAreTrue

LEMMA StatusGoto ==
    ASSUME Safe, StatusInv, NEW r \in Request, NEW stage \in Stage,
           Goto(r, stage), req[r].at # "answered", stage # "answered",
           promoted' \in {promoted, promoted \cup {r}}
    PROVE  StatusInv'
<1>1. req[r].status = 0
  BY DEF StatusInv
<1>2. QED
  BY <1>1, GotoFields DEF StatusInv, AnswersAreTrue

LEMMA StatusHandle ==
    ASSUME Safe, StatusInv, NEW r \in Request, Handle(r) PROVE StatusInv'
<1>1. CASE Get(r)
  <2>1. /\ req'[r].at = "answered" /\ req'[r].kind = "GET" /\ req'[r].status = 200
        /\ \A q \in Request : q # r => req'[q] = req[q]
        /\ promoted' = promoted
    BY <1>1 DEF Get, Safe, TypeOK, Asked
  <2>2. QED
    BY <2>1 DEF StatusInv, AnswersAreTrue
<1>2. CASE Conflict(r)
  <2>1. Answer(r, 412) /\ promoted' = promoted /\ r \notin promoted
    BY <1>2 DEF Conflict, Enters, Safe, StageInv
  <2>2. QED
    BY <2>1, StatusAnswer, SomeStatus
<1>3. CASE Commit(r)
  <2>1. Answer(r, 200) /\ promoted' = promoted /\ r \in promoted
    BY <1>3 DEF Commit, Safe, StageInv
  <2>2. QED
    BY <2>1, StatusAnswer, SomeStatus
<1>4. CASE \/ Reject(r) \/ ReadFails(r) \/ NotAdvancing(r)
           \/ PrepareFails(r) \/ Abort(r) \/ CommitFails(r)
  <2>1. Answer(r, 400) /\ promoted' = promoted
    BY <1>4 DEF Reject, ReadFails, NotAdvancing, PrepareFails, Abort, CommitFails
  <2>2. QED
    BY <2>1, StatusAnswer, SomeStatus
<1>5. CASE GetFails(r) \/ Prepare(r) \/ Replace(r) \/ ReplaceFails(r)
  <2>1. PICK stage \in {"lost", "prepared", "replaced", "aborting"} :
           /\ Goto(r, stage) /\ req[r].at # "answered"
           /\ promoted' \in {promoted, promoted \cup {r}}
    BY <1>5 DEF GetFails, Prepare, Enters, Replace, ReplaceFails
  <2>2. QED
    BY <2>1, StatusGoto DEF Stage
<1>6. QED
  BY <1>1, <1>2, <1>3, <1>4, <1>5 DEF Handle

(* A request that is sent has no answer yet, a crash leaves none. *)
LEMMA StatusSend ==
    ASSUME Safe, StatusInv, NEW r \in Request, NEW kind, NEW match, NEW body,
           Send(r, kind, match, body)
    PROVE  StatusInv'
<1>1. /\ req'[r].status = 0 /\ promoted' = promoted
      /\ \A q \in Request : q # r => req'[q] = req[q]
  BY DEF Send, Safe, TypeOK
<1>2. QED
  BY <1>1 DEF StatusInv, AnswersAreTrue

LEMMA StatusCrash == ASSUME Safe, StatusInv, Crash PROVE StatusInv'
<1>1. \A r \in Request : /\ req'[r].kind = req[r].kind
                         /\ req'[r].status = req[r].status
                         /\ req'[r].at # "answered" => req[r].at # "answered"
  BY DEF Crash, Safe, TypeOK, Asked
<1>2. promoted' = promoted
  BY DEF Crash
<1>3. QED
  BY <1>1, <1>2 DEF StatusInv, AnswersAreTrue

LEMMA StatusStep == Safe /\ StatusInv /\ [Next]_vars => StatusInv'
<1>1. ASSUME Safe, StatusInv, UNCHANGED vars PROVE StatusInv'
  BY <1>1 DEF vars, StatusInv, AnswersAreTrue
<1>2. QED
  BY <1>1, StatusHandle, StatusSend, StatusCrash DEF Next

LEMMA StatusInit == Init => StatusInv
BY DEF Init, Unsent, StatusInv, AnswersAreTrue

(* 200 means that the document of a PUT was promoted, and 412 that it was  *)
(* not and never will be, whatever fails and however requests interleave.  *)
THEOREM AnswersTellTheTruth == Spec => []AnswersAreTrue
<1>1. StatusInv => AnswersAreTrue
  BY DEF StatusInv
<1>2. QED
  BY <1>1, SafeInit, SafeStep, StatusInit, StatusStep, PTL DEF Spec

-----------------------------------------------------------------------------
(* The lock is held for a request that is past its checks, and for none    *)
(* that was answered or lost.                                              *)
HeldInv == \A r \in Request : lock = r <=> req[r].at \in Inside

(* How far a request has come *)
Passed == [new |-> 0, sent |-> 1, prepared |-> 2, replaced |-> 3, aborting |-> 3,
           answered |-> 4, lost |-> 4]

(* Whatever its thread does for a request, and whatever fails, the request *)
(* comes nearer to its answer; nothing else but a crash moves it, once it  *)
(* was sent, and an answer given stays given.                              *)
RequestsMoveOn ==
    \A r \in Request :
       /\ Handle(r) => Passed[req'[r].at] > Passed[req[r].at]
       /\ req[r].at # "new" /\ ~ Handle(r) /\ req'[r] # req[r] =>
             Crash /\ req[r].at # "answered" /\ req'[r].at = "lost"

(* Where a step of its thread takes a request *)
LEMMA HandleMoves ==
    ASSUME Safe, NEW r \in Request, Handle(r)
    PROVE  /\ \/ /\ req[r].at = "sent" /\ req'[r].at \in {"answered", "lost"}
                 /\ lock' = lock
              \/ /\ req[r].at = "sent" /\ req'[r].at = "prepared"
                 /\ lock = NoRequest /\ lock' = r
              \/ /\ req[r].at = "prepared" /\ req'[r].at \in {"replaced", "aborting"}
                 /\ lock' = lock
              \/ /\ req[r].at \in {"replaced", "aborting"} /\ req'[r].at = "answered"
                 /\ lock' = NoRequest
           /\ \A q \in Request : q # r => req'[q] = req[q]
<1>1. CASE Get(r) \/ GetFails(r)
  <2>1. Answers(r) /\ lock' = lock /\ req[r].at = "sent"
    BY <1>1, GetType, GetFailsType DEF Get, GetFails
  <2>2. QED
    BY <2>1 DEF Answers
<1>2. CASE \/ Reject(r) \/ ReadFails(r) \/ Conflict(r) \/ NotAdvancing(r)
           \/ PrepareFails(r)
  <2>1. /\ \E status \in {400, 412} : Answer(r, status)
        /\ lock' = lock /\ req[r].at = "sent"
    BY <1>2 DEF Reject, ReadFails, Conflict, NotAdvancing, PrepareFails, Enters
  <2>2. QED
    BY <2>1, AnswerFields, SomeStatus
<1>3. CASE Prepare(r)
  <2>1. /\ Goto(r, "prepared") /\ req[r].at = "sent"
        /\ lock = NoRequest /\ lock' = r
    BY <1>3 DEF Prepare, Enters
  <2>2. QED
    BY <2>1, GotoFields DEF Stage
<1>4. CASE Replace(r) \/ ReplaceFails(r)
  <2>1. /\ \E stage \in {"replaced", "aborting"} : Goto(r, stage)
        /\ lock' = lock /\ req[r].at = "prepared"
    BY <1>4 DEF Replace, ReplaceFails
  <2>2. QED
    BY <2>1, GotoFields DEF Stage
<1>5. CASE Abort(r) \/ Commit(r) \/ CommitFails(r)
  <2>1. /\ \E status \in {200, 400} : Answer(r, status)
        /\ lock' = NoRequest /\ req[r].at \in {"replaced", "aborting"}
    BY <1>5 DEF Abort, Commit, CommitFails
  <2>2. QED
    BY <2>1, AnswerFields, SomeStatus
<1>6. QED
  BY <1>1, <1>2, <1>3, <1>4, <1>5 DEF Handle

LEMMA HeldStep == Safe /\ HeldInv /\ [Next]_vars => HeldInv'
<1> SUFFICES ASSUME Safe, HeldInv, [Next]_vars PROVE HeldInv'
  OBVIOUS
<1>1. ASSUME NEW r \in Request, Handle(r) PROVE HeldInv'
  <2> DEFINE Came(from, to) == req[r].at \in from /\ req'[r].at \in to
  <2>1. \A q \in Request : q # r => req'[q] = req[q]
    BY <1>1, HandleMoves
  <2>2. CASE Came({"sent"}, {"answered", "lost"}) /\ lock' = lock
    BY <2>1, <2>2 DEF HeldInv, Inside
  <2>3. CASE Came({"sent"}, {"prepared"}) /\ lock = NoRequest /\ lock' = r
    BY <2>1, <2>3, RequestAssumption DEF HeldInv, Inside
  <2>4. CASE Came({"prepared"}, {"replaced", "aborting"}) /\ lock' = lock
    BY <2>1, <2>4 DEF HeldInv, Inside
  <2>5. CASE Came({"replaced", "aborting"}, {"answered"}) /\ lock' = NoRequest
    BY <2>1, <2>5, RequestAssumption DEF HeldInv, Inside
  <2>6. QED
    BY <1>1, <2>2, <2>3, <2>4, <2>5, HandleMoves
<1>2. ASSUME NEW r \in Request, NEW kind, NEW match, NEW body,
             Send(r, kind, match, body)
      PROVE  HeldInv'
  BY <1>2 DEF Safe, TypeOK, HeldInv, Inside, Send
<1>3. CASE Crash
  <2>1. lock' = NoRequest /\ \A r \in Request : req'[r].at \notin Inside
    BY <1>3 DEF Safe, TypeOK, Asked, Inside, Crash
  <2>2. QED
    BY <2>1, RequestAssumption DEF HeldInv
<1>4. CASE UNCHANGED vars
  BY <1>4 DEF HeldInv, vars
<1>5. QED
  BY <1>1, <1>2, <1>3, <1>4 DEF Next

LEMMA RequestsStep == Safe /\ [Next]_vars => [RequestsMoveOn]_vars
<1> SUFFICES ASSUME Safe, Next, NEW r \in Request
             PROVE  /\ Handle(r) => Passed[req'[r].at] > Passed[req[r].at]
                    /\ req[r].at # "new" /\ ~ Handle(r) /\ req'[r] # req[r] =>
                          Crash /\ req[r].at # "answered" /\ req'[r].at = "lost"
  BY DEF RequestsMoveOn
<1>1. ASSUME Handle(r) PROVE Passed[req'[r].at] > Passed[req[r].at]
  BY <1>1, HandleMoves DEF Passed
<1>2. ASSUME req[r].at # "new", ~ Handle(r), req'[r] # req[r]
      PROVE  Crash /\ req[r].at # "answered" /\ req'[r].at = "lost"
  <2>1. \A q \in Request : ~ Handle(q)
    BY <1>2, HandleMoves
  <2>2. ASSUME NEW q \in Request, NEW kind, NEW match, NEW body,
               Send(q, kind, match, body)
        PROVE  req'[r] = req[r]
    BY <1>2, <2>2 DEF Safe, TypeOK, Send
  <2>3. Crash
    BY <1>2, <2>1, <2>2 DEF Next
  <2>4. QED
    BY <1>2, <2>3 DEF Safe, TypeOK, Asked, Crash
<1>3. QED
  BY <1>1, <1>2

(* No failure of the log or of the disk leaves the lock taken or a request *)
(* without its answer half done: the lock is held for a request that is    *)
(* still at work, which at most two steps after its first one is answered. *)
THEOREM RequestsAreSeenThrough == Spec => []HeldInv /\ [][RequestsMoveOn]_vars
<1>1. ASSUME Init PROVE HeldInv
  <2>1. lock = NoRequest /\ \A r \in Request : req[r].at = "new"
    BY <1>1 DEF Init, Unsent
  <2>2. QED
    BY <2>1, RequestAssumption DEF HeldInv, Inside
<1>2. QED
  BY <1>1, SafeInit, SafeStep, HeldStep, RequestsStep, PTL DEF Spec

-----------------------------------------------------------------------------
(* What the log keeps.  Only the last line can be lost: while it lacks its *)
(* newline it is of the request inside, if there is one; once a line does  *)
(* not parse nothing is written any more, and so nothing answered 200.     *)
Last == audit[Len(audit)]

TraceInv ==
    /\ TraceKept
    /\ \A r \in Request : req[r].at = "prepared" /\ tail # "cut" => InAudit(r, "PREPARED")
    /\ \A r \in Request : req[r].at \in Inside /\ tail = "open" => Last.tx = r

(* What is left of the log after a write, whole or torn *)
Remains(r) ==
    /\ tail' # "cut" => /\ tail # "cut"
                        /\ \A q \in Request, p \in Phase : InAudit(q, p) => InAudit(q, p)'
    /\ \A q \in Request, p \in Phase :
          InAudit(q, p) => InAudit(q, p)' \/ (tail = "open" /\ q = Last.tx)
    /\ tail' = "open" => UNCHANGED <<audit, tail>> \/ Last'.tx = r
    /\ tail = "cut" => UNCHANGED <<audit, tail>>

LEMMA SameRemains ==
    ASSUME Safe, UNCHANGED <<audit, tail>>, NEW r \in Request
    PROVE  Remains(r)
BY DEF Remains, InAudit, Last

LEMMA LineRemains ==
    ASSUME Safe, NEW r \in Request, NEW phase \in Phase,
           Appends(r, phase) \/ TornLine(r, phase)
    PROVE  /\ Remains(r)
           /\ Appends(r, phase) \/ Part(r, phase) =>
                 (tail' # "cut" => InAudit(r, phase)')
<1>1. Line(r, phase) \in Entry /\ Line(r, phase).tx = r /\ Line(r, phase).phase = phase
  BY DEF Line, Entry, Safe, TypeOK, Asked
<1>2. audit \in Seq(Entry) /\ Len(audit) \in Nat
  BY LenProperties DEF Safe, TypeOK
<1>3. CASE audit' = audit /\ tail = "whole" /\ tail' = "cut"
  <2>1. \A q \in Request, p \in Phase : InAudit(q, p) => InAudit(q, p)'
    BY <1>3 DEF InAudit
  <2>2. QED
    BY <1>3, <2>1 DEF Remains
<1>4. CASE /\ tail = "whole" /\ tail' \in {"whole", "open"}
           /\ audit' = Append(audit, Line(r, phase))
  <2>1. /\ audit' \in Seq(Entry) /\ Len(audit') = Len(audit) + 1
        /\ \A i \in 1..Len(audit) : audit'[i] = audit[i]
        /\ audit'[Len(audit) + 1] = Line(r, phase)
    BY <1>1, <1>2, <1>4, AppendProperties
  <2>2. \A q \in Request, p \in Phase : InAudit(q, p) => InAudit(q, p)'
    BY <1>2, <2>1 DEF InAudit
  <2>3. InAudit(r, phase)'
    BY <1>1, <1>2, <2>1 DEF InAudit
  <2>4. Last'.tx = r
    BY <1>1, <2>1 DEF Last
  <2>5. QED
    BY <1>4, <2>2, <2>3, <2>4 DEF Remains
<1>5. CASE /\ tail = "open" /\ tail' = "cut"
           /\ audit' = SubSeq(audit, 1, Len(audit) - 1)
  <2>1. audit # <<>>
    BY <1>5 DEF Safe, OpenInv
  <2>2. /\ Len(audit') = Len(audit) - 1
        /\ \A i \in 1..(Len(audit) - 1) : audit'[i] = audit[i]
    BY <1>2, <1>5, <2>1, DropLast
  <2>3. ASSUME NEW q \in Request, NEW p \in Phase, InAudit(q, p)
        PROVE  InAudit(q, p)' \/ q = Last.tx
    <3>1. PICK i \in 1..Len(audit) : audit[i].tx = q /\ audit[i].phase = p
      BY <2>3 DEF InAudit
    <3>2. CASE i = Len(audit)
      BY <3>1, <3>2 DEF Last
    <3>3. CASE i \in 1..(Len(audit) - 1)
      BY <3>1, <3>3, <2>2 DEF InAudit
    <3>4. QED
      BY <3>2, <3>3, <1>2
  <2>4. QED
    BY <1>5, <2>3 DEF Remains
<1>6. CASE UNCHANGED <<audit, tail>> /\ ~ Appends(r, phase) /\ ~ Part(r, phase)
  BY <1>6, SameRemains
<1>7. QED
  BY <1>3, <1>4, <1>5, <1>6 DEF Appends, TornLine, Part, Safe, TypeOK

LEMMA LoggedRemains ==
    ASSUME Safe, NEW r \in Request, NEW phase \in Phase, Logged(r, phase)
    PROVE  /\ Remains(r) /\ tail # "cut"
           /\ tail' # "cut" => InAudit(r, phase)'
<1>1. Appends(r, phase) \/ Part(r, phase)
  BY DEF Logged
<1>2. tail # "cut"
  BY DEF Logged, Appends
<1>3. QED
  BY <1>1, <1>2, LineRemains DEF TornLine

LEMMA FailedRemains ==
    ASSUME Safe, NEW r \in Request, NEW phase \in Phase, AppendFails(r, phase)
    PROVE  Remains(r)
BY LineRemains, SameRemains DEF AppendFails

(* A step that leaves of the log what a write of r leaves keeps the trace, *)
(* if a new 200 is r's and logged, or torn, behind a line of r's own, and  *)
(* what it promotes was prepared.                                          *)
LEMMA TraceKeeps ==
    ASSUME Safe, TraceInv, NEW r \in Request, Remains(r),
           \A q \in Request : req'[q].kind = "PUT" /\ req'[q].status = 200 =>
              \/ req[q].kind = "PUT" /\ req[q].status = 200
              \/ /\ q = r /\ tail # "cut"
                 /\ tail' # "cut" => InAudit(r, "COMMITTED")'
                 /\ tail = "open" => Last.tx = r,
           \A q \in promoted' : q \in promoted \/ (q \in Request /\ req[q].at = "prepared"),
           \A q \in Request : req'[q].at = "prepared" =>
              \/ req[q].at = "prepared"
              \/ tail' # "cut" => InAudit(q, "PREPARED")',
           \A q \in Request : req'[q].at \in Inside /\ tail' = "open" => Last'.tx = q
    PROVE  TraceInv'
<1>1. {"PREPARED", "COMMITTED"} \subseteq Phase /\ promoted \subseteq Request
  BY DEF Phase, Safe, TypeOK
<1>2. ASSUME tail' # "cut"
      PROVE  /\ Unlogged' = {}
             /\ \A q \in promoted' : InAudit(q, "PREPARED")'
             /\ \A q \in Request : req'[q].at = "prepared" => InAudit(q, "PREPARED")'
  <2>1. /\ tail # "cut" /\ Unlogged = {}
        /\ \A q \in Request : InAudit(q, "PREPARED") => InAudit(q, "PREPARED")'
        /\ \A q \in Request : InAudit(q, "COMMITTED") => InAudit(q, "COMMITTED")'
    BY <1>1, <1>2 DEF Remains, TraceInv, TraceKept
  <2>2. ASSUME NEW q \in Request, req'[q].kind = "PUT", req'[q].status = 200
        PROVE  InAudit(q, "COMMITTED")'
    BY <1>2, <2>1, <2>2 DEF Unlogged
  <2>3. Unlogged' = {}
    BY <2>2 DEF Unlogged
  <2>4. \A q \in promoted' : InAudit(q, "PREPARED")'
    BY <1>1, <2>1 DEF TraceInv, TraceKept
  <2>5. \A q \in Request : req'[q].at = "prepared" => InAudit(q, "PREPARED")'
    BY <1>2, <2>1 DEF TraceInv
  <2>6. QED
    BY <2>3, <2>4, <2>5
<1>3. ASSUME NEW q \in Unlogged', NEW s \in Unlogged' PROVE q = s
  <2>1. ASSUME tail = "cut" PROVE Unlogged' \subseteq Unlogged
    BY <2>1 DEF Remains, Unlogged, InAudit
  <2>2. ASSUME tail # "cut", NEW u \in Unlogged'
        PROVE  (u = r /\ (tail = "open" => Last.tx = r)) \/ (tail = "open" /\ u = Last.tx)
    <3>1. u \in Request /\ req'[u].kind = "PUT" /\ req'[u].status = 200
          /\ ~ InAudit(u, "COMMITTED")'
      BY DEF Unlogged
    <3>2. CASE req[u].kind = "PUT" /\ req[u].status = 200
      <4>1. InAudit(u, "COMMITTED")
        BY <2>2, <3>1, <3>2 DEF TraceInv, TraceKept, Unlogged
      <4>2. QED
        BY <1>1, <3>1, <4>1 DEF Remains
    <3>3. CASE u = r /\ (tail = "open" => Last.tx = r)
      BY <3>3
    <3>4. QED
      BY <3>1, <3>2, <3>3
  <2>3. CASE tail = "cut"
    BY <2>1, <2>3 DEF TraceInv, TraceKept
  <2>4. CASE tail # "cut"
    <3>1. /\ (q = r /\ (tail = "open" => Last.tx = r)) \/ (tail = "open" /\ q = Last.tx)
          /\ (s = r /\ (tail = "open" => Last.tx = r)) \/ (tail = "open" /\ s = Last.tx)
      BY <2>2, <2>4
    <3>2. QED
      BY <3>1
  <2>5. QED
    BY <2>3, <2>4
<1>4. TraceKept'
  BY <1>2, <1>3 DEF TraceKept
<1>5. QED
  BY <1>2, <1>4 DEF TraceInv

(* The same for a step that leaves the log alone *)
LEMMA TraceAlone ==
    ASSUME Safe, TraceInv, UNCHANGED <<audit, tail>>, NEW r \in Request,
           \A q \in Request : q # r => req'[q] = req[q],
           req'[r].kind = "PUT" => req'[r].status \in {0, 400, 412},
           req'[r].at = "prepared" => req[r].at = "prepared",
           req'[r].at \in Inside => req[r].at \in Inside,
           promoted' = promoted \/ (req[r].at = "prepared" /\ promoted' = promoted \cup {r})
    PROVE  TraceInv'
<1>1. Remains(r)
  BY SameRemains
<1>2. Last' = Last
  BY DEF Last
<1>3. \A q \in Request : req'[q].at \in Inside /\ tail' = "open" => Last'.tx = q
  BY <1>2 DEF TraceInv
<1>4. \A q \in Request : req'[q].at = "prepared" => req[q].at = "prepared"
  OBVIOUS
<1>5. \A q \in Request : req'[q].kind = "PUT" /\ req'[q].status = 200 =>
                            req[q].kind = "PUT" /\ req[q].status = 200
  OBVIOUS
<1>6. QED
  BY <1>1, <1>3, <1>4, <1>5, TraceKeeps

LEMMA TracePrepare ==
    ASSUME Safe, TraceInv, StatusInv, NEW r \in Request, Prepare(r) PROVE TraceInv'
<1>1. /\ Logged(r, "PREPARED") /\ "PREPARED" \in Phase /\ lock = NoRequest
      /\ promoted' = promoted /\ req[r].at = "sent"
  BY DEF Prepare, Enters, Phase
<1>2. Remains(r) /\ tail # "cut" /\ (tail' # "cut" => InAudit(r, "PREPARED")')
  BY <1>1, LoggedRemains
<1>3. /\ req'[r].status = req[r].status /\ req'[r].at = "prepared"
      /\ \A q \in Request : q # r => req'[q] = req[q]
  BY GotoFields DEF Prepare, Stage
<1>4. req'[r].status = 0
  BY <1>1, <1>3 DEF StatusInv
<1>5. \A q \in Request : q # r => req'[q].at \notin Inside
  BY <1>1, <1>3, Alone
<1>6. tail' = "open" => Last'.tx = r
  <2>1. Appends(r, "PREPARED") \/ Part(r, "PREPARED")
    BY <1>1 DEF Logged
  <2>2. tail' = "open" => ~ UNCHANGED tail
    BY <2>1 DEF Appends, Part
  <2>3. QED
    BY <1>2, <2>2 DEF Remains
<1>7. \A q \in Request : req'[q].at \in Inside /\ tail' = "open" => Last'.tx = q
  BY <1>5, <1>6
<1>8. \A q \in Request : req'[q].at = "prepared" => q = r
  BY <1>5 DEF Inside
<1>9. \A q \in Request : req'[q].kind = "PUT" /\ req'[q].status = 200 =>
                            req[q].kind = "PUT" /\ req[q].status = 200
  BY <1>3, <1>4
<1>10. QED
  BY <1>1, <1>2, <1>7, <1>8, <1>9, TraceKeeps

(* The steps after which nobody is inside *)
LEMMA TraceLeaves ==
    ASSUME Safe, TraceInv, NEW r \in Request, Remains(r), NEW status \in {200, 400},
           Answer(r, status), promoted' = promoted, lock \in {NoRequest, r},
           status = 200 => /\ req[r].at \in Inside /\ tail # "cut"
                           /\ tail' # "cut" => InAudit(r, "COMMITTED")'
    PROVE  TraceInv'
<1>1. /\ req'[r].at = "answered" /\ req'[r].status = status
      /\ \A q \in Request : q # r => req'[q] = req[q]
  BY AnswerFields, SomeStatus
<1>2. \A q \in Request : req'[q].at \notin Inside
  <2>1. \A q \in Request : q # r => req'[q].at \notin Inside
    BY <1>1, Alone
  <2>2. QED
    BY <1>1, <2>1 DEF Inside
<1>3. \A q \in Request : req'[q].at # "prepared"
  BY <1>2 DEF Inside
<1>4. status = 200 => (tail = "open" => Last.tx = r)
  BY DEF TraceInv
<1>5. \A q \in Request : req'[q].kind = "PUT" /\ req'[q].status = 200 =>
         \/ req[q].kind = "PUT" /\ req[q].status = 200
         \/ /\ q = r /\ tail # "cut"
            /\ tail' # "cut" => InAudit(r, "COMMITTED")'
            /\ tail = "open" => Last.tx = r
  BY <1>1, <1>4
<1>6. QED
  BY <1>2, <1>3, <1>5, TraceKeeps

LEMMA TraceHandle ==
    ASSUME Safe, TraceInv, StatusInv, NEW r \in Request, Handle(r) PROVE TraceInv'
<1>1. CASE Get(r)
  <2>1. /\ req'[r].at = "answered" /\ req'[r].kind = "GET"
        /\ \A q \in Request : q # r => req'[q] = req[q]
        /\ promoted' = promoted /\ UNCHANGED <<audit, tail>>
    BY <1>1 DEF Get, Safe, TypeOK, Asked
  <2>2. QED
    BY <2>1, TraceAlone DEF Inside
<1>2. CASE Reject(r) \/ ReadFails(r) \/ Conflict(r) \/ NotAdvancing(r)
  <2>1. PICK status \in {400, 412} : Answer(r, status)
    BY <1>2 DEF Reject, ReadFails, Conflict, NotAdvancing
  <2>2. /\ req'[r].at = "answered" /\ req'[r].status = status
        /\ \A q \in Request : q # r => req'[q] = req[q]
    BY <2>1, AnswerFields, SomeStatus
  <2>3. promoted' = promoted /\ UNCHANGED <<audit, tail>>
    BY <1>2 DEF Reject, ReadFails, Conflict, NotAdvancing
  <2>4. QED
    BY <2>2, <2>3, TraceAlone DEF Inside
<1>3. CASE PrepareFails(r)
  <2>1. /\ AppendFails(r, "PREPARED") /\ "PREPARED" \in Phase
        /\ Answer(r, 400) /\ promoted' = promoted /\ lock = NoRequest
    BY <1>3 DEF PrepareFails, Enters, Phase
  <2>2. QED
    BY <2>1, FailedRemains, TraceLeaves
<1>4. CASE Replace(r) \/ ReplaceFails(r)
  <2>1. PICK stage \in {"replaced", "aborting"} : Goto(r, stage)
    BY <1>4 DEF Replace, ReplaceFails
  <2>2. /\ req'[r].at = stage /\ req'[r].status = req[r].status
        /\ \A q \in Request : q # r => req'[q] = req[q]
    BY <2>1, GotoFields DEF Stage
  <2>3. /\ req[r].at = "prepared" /\ UNCHANGED <<audit, tail>>
        /\ promoted' \in {promoted, promoted \cup {r}}
    BY <1>4 DEF Replace, ReplaceFails
  <2>4. req'[r].status = 0
    BY <2>2, <2>3 DEF StatusInv
  <2>5. QED
    BY <2>2, <2>3, <2>4, TraceAlone DEF Inside
<1>5. CASE Abort(r) \/ CommitFails(r)
  <2>1. PICK phase \in Phase : Logged(r, phase) \/ AppendFails(r, phase)
    BY <1>5 DEF Abort, CommitFails, Phase
  <2>2. Answer(r, 400) /\ promoted' = promoted /\ req[r].at \in Inside
    BY <1>5 DEF Abort, CommitFails, Inside
  <2>3. QED
    BY <2>1, <2>2, LoggedRemains, FailedRemains, TraceLeaves, Holder
<1>6. CASE Commit(r)
  <2>1. /\ Logged(r, "COMMITTED") /\ "COMMITTED" \in Phase
        /\ Answer(r, 200) /\ promoted' = promoted /\ req[r].at \in Inside
    BY <1>6 DEF Commit, Phase, Inside
  <2>2. QED
    BY <2>1, LoggedRemains, TraceLeaves, Holder
<1>7. CASE GetFails(r)
  <2>1. /\ Goto(r, "lost") /\ req[r].at = "sent" /\ promoted' = promoted
        /\ UNCHANGED <<audit, tail>>
    BY <1>7 DEF GetFails
  <2>2. /\ req'[r].at = "lost" /\ req'[r].status = 0
        /\ \A q \in Request : q # r => req'[q] = req[q]
    BY <2>1, GotoFields DEF Stage, StatusInv
  <2>3. QED
    BY <2>1, <2>2, TraceAlone DEF Inside
<1>8. QED
  BY <1>1, <1>2, <1>3, <1>4, <1>5, <1>6, <1>7, TracePrepare DEF Handle

LEMMA TraceSend ==
    ASSUME Safe, TraceInv, NEW r \in Request, NEW kind, NEW match, NEW body,
           Send(r, kind, match, body)
    PROVE  TraceInv'
<1>1. /\ req'[r].status = 0 /\ req'[r].at = "sent" /\ promoted' = promoted
      /\ UNCHANGED <<audit, tail>>
      /\ \A q \in Request : q # r => req'[q] = req[q]
  BY DEF Send, Safe, TypeOK
<1>2. QED
  BY <1>1, TraceAlone DEF Inside

LEMMA TraceCrash == ASSUME Safe, TraceInv, Crash PROVE TraceInv'
<1>1. \A q \in Request : /\ req'[q].kind = req[q].kind
                         /\ req'[q].status = req[q].status
                         /\ req'[q].at \notin Inside
  BY DEF Crash, Safe, TypeOK, Asked, Inside
<1>2. promoted' = promoted
  BY DEF Crash
<1>3. ASSUME NEW r \in Request, Remains(r) PROVE TraceInv'
  <2>1. \A q \in Request : req'[q].at # "prepared"
    BY <1>1 DEF Inside
  <2>2. QED
    BY <1>1, <1>2, <1>3, <2>1, TraceKeeps
<1>4. CASE UNCHANGED <<audit, tail>>
  <2>1. CASE Request = {}
    BY <1>2, <1>4, <2>1 DEF TraceInv, TraceKept, Unlogged, Safe, TypeOK
  <2>2. CASE \E r \in Request : TRUE
    BY <1>3, <1>4, <2>2, SameRemains
  <2>3. QED
    BY <2>1, <2>2
<1>5. ASSUME NEW phase \in Writing, TornLine(lock, phase) PROVE TraceInv'
  <2>1. lock \in Request
    BY <1>5 DEF Writing, Safe, TypeOK
  <2>2. phase \in Phase
    BY <1>5, <2>1, RequestAssumption DEF Writing, Phase
  <2>3. QED
    BY <1>3, <1>5, <2>1, <2>2, LineRemains
<1>6. ASSUME NEW r \in Request, TornLine(r, "PREPARED") PROVE TraceInv'
  BY <1>3, <1>6, LineRemains DEF Phase
<1>7. QED
  BY <1>4, <1>5, <1>6 DEF Crash

LEMMA TraceStep == Safe /\ StatusInv /\ TraceInv /\ [Next]_vars => TraceInv'
<1>1. ASSUME Safe, TraceInv, UNCHANGED vars PROVE TraceInv'
  BY <1>1 DEF vars, TraceInv, TraceKept, Unlogged, InAudit, Last
<1>2. QED
  BY <1>1, TraceHandle, TraceSend, TraceCrash DEF Next

LEMMA TraceInit == Init => TraceInv
BY DEF Init, Unsent, TraceInv, TraceKept, Unlogged, Inside

(* The log misses at most the COMMITTED line of one request that was       *)
(* answered 200, and only once its last line does not parse.               *)
THEOREM TraceIsKept == Spec => []TraceKept
<1>1. TraceInv => TraceKept
  BY DEF TraceInv
<1>2. QED
  BY <1>1, SafeInit, SafeStep, StatusInit, StatusStep, TraceInit, TraceStep, PTL
     DEF Spec

-----------------------------------------------------------------------------
(* The tabs, whatever their users do *)

(* The fields of what a tab shows *)
LEMMA ShownFields ==
    ASSUME TabTypeOK, NEW k \in Shows
    PROVE  /\ k.doc \in Doc /\ k.tag \in Doc /\ k.remote \in BOOLEAN
           /\ k.doc.rev \in 0..MaxRev /\ k.doc.text \in SUBSET Fact
           /\ k.selected \in Id \cup {NoArtifact} /\ k.code \in SUBSET Id
           /\ k.fresh \in BOOLEAN
           /\ k.overwritten \in SUBSET {f \in Fact : f.what = "code"}
BY ChangeAssumption DEF Shows, Doc

LEMMA CodedFacts ==
    ASSUME NEW a \in Id, NEW ns \in SUBSET Id
    PROVE  Coded(a, ns) \subseteq {f \in Fact : f.what = "code"}
BY DEF Coded, Fact

LEMMA SelectedShows ==
    ASSUME TabTypeOK, NEW k \in Shows, NEW a \in Id PROVE Selected(k, a) \in Shows
<1>1. CodeOf(k.doc.text, a) \in SUBSET Id
  BY DEF CodeOf
<1>2. QED
  BY <1>1, ShownFields DEF Selected, Shows

LEMMA ReselectedShows ==
    ASSUME TabTypeOK, NEW k \in Shows PROVE Reselected(k) \in Shows
<1>1. Here(k.doc.text) \subseteq Id
  BY DEF Here
<1>2. QED
  BY <1>1, SelectedShows DEF Reselected

LEMMA RevisedShows ==
    ASSUME TabTypeOK, NEW k \in Shows, k.doc.rev < MaxRev, NEW text \in SUBSET Fact
    PROVE  Revised(k, text) \in Shows
<1>1. [rev |-> k.doc.rev + 1, text |-> text] \in Doc
  BY ShownFields, BoundsAssumption, ChangeAssumption DEF Doc
<1>2. QED
  BY <1>1, ShownFields DEF Revised, Shows

(* What a user makes of a document is one that may be stored. *)
LEMMA AppliedShows ==
    ASSUME TabTypeOK, NEW k \in Shows, k.doc.rev < MaxRev, NEW n \in Id,
           k.selected \in Id
    PROVE  Applied(k, n) \in Shows
<1> DEFINE old == Coded(k.selected, CodeOf(k.doc.text, k.selected))
           new == Coded(k.selected, k.code \cup {n})
           v == Revised(k, (k.doc.text \ old) \cup new)
<1>1. /\ old \subseteq {f \in Fact : f.what = "code"}
      /\ new \subseteq {f \in Fact : f.what = "code"}
  <2>1. CodeOf(k.doc.text, k.selected) \in SUBSET Id /\ k.code \cup {n} \in SUBSET Id
    BY ShownFields DEF CodeOf
  <2>2. QED
    BY <2>1, CodedFacts
<1>2. v \in Shows
  BY <1>1, ShownFields, RevisedShows
<1> DEFINE over == IF k.fresh THEN v.overwritten ELSE v.overwritten \cup (old \ new)
<1>3. Applied(k, n) = [v EXCEPT !.code = v.code \cup {n}, !.overwritten = over]
  BY ShownFields DEF Applied, Revised, Shows
<1> HIDE DEF v
<1>4. over \in SUBSET {f \in Fact : f.what = "code"} /\ v.code \cup {n} \in SUBSET Id
  <2> HIDE DEF old, new
  <2> QED BY <1>1, <1>2, ShownFields
<1> HIDE DEF over
<1>5. QED
  BY <1>2, <1>3, <1>4 DEF Shows

LEMMA DuplicatedShows ==
    ASSUME TabTypeOK, NEW k \in Shows, k.doc.rev < MaxRev, NEW n \in Id
    PROVE  Duplicated(k, n) \in Shows
<1> DEFINE v == Revised(k, k.doc.text \cup {Made(n)}
                             \cup Coded(n, CodeOf(k.doc.text, k.selected)))
<1>1. CodeOf(k.doc.text, k.selected) \in SUBSET Id
  BY DEF CodeOf
<1>2. Coded(n, CodeOf(k.doc.text, k.selected)) \subseteq Fact /\ Made(n) \in Fact
  BY <1>1, CodedFacts DEF Made, Fact
<1>3. v \in Shows
  BY <1>2, ShownFields, RevisedShows
<1>4. Duplicated(k, n) = [v EXCEPT !.selected = n]
  BY DEF Duplicated
<1> HIDE DEF v
<1>5. QED
  BY <1>3, <1>4, ShownFields DEF Shows

LEMMA DeletedShows ==
    ASSUME TabTypeOK, NEW k \in Shows, k.doc.rev < MaxRev, NEW n \in Id,
           NEW as \in SUBSET Id
    PROVE  DeletedTree(k, n, as) \in Shows
<1> DEFINE v == Revised(k, k.doc.text \cup Deleted(as, n))
<1>1. Deleted(as, n) \subseteq Fact
  <2>1. \A a \in as : [what |-> "gone", of |-> a, by |-> n] \in Fact
    BY DEF Fact
  <2>2. QED
    BY <2>1 DEF Deleted
<1>2. v \in Shows
  BY <1>1, ShownFields, RevisedShows
<1>3. DeletedTree(k, n, as) = [v EXCEPT !.selected = NoArtifact]
  BY DEF DeletedTree
<1> HIDE DEF v
<1>4. QED
  BY <1>2, <1>3, ShownFields DEF Shows

LEMMA CreatedShows ==
    ASSUME TabTypeOK, NEW k \in Shows, NEW n \in Id PROVE Created(k, n) \in Shows
<1> DEFINE d == [k.doc EXCEPT !.text = @ \cup {Made(n)}]
           v == [k EXCEPT !.doc = d]
<1>1. d \in Doc
  <2>1. k.doc.text \cup {Made(n)} \in Text
    BY ShownFields, ChangeAssumption DEF Made, Fact
  <2>2. QED
    BY <2>1, ShownFields DEF Doc
<1>2. v \in Shows
  <2> HIDE DEF d
  <2> QED BY <1>1, ShownFields DEF Shows
<1>3. Created(k, n) = Selected(v, n)
  BY ShownFields DEF Created, Shows
<1> HIDE DEF v
<1>4. QED
  BY <1>2, <1>3, SelectedShows

(* An edit shows a document that may be stored, and sends that one. *)
Edits(t, r) == Apply(t, r) \/ Duplicate(t, r) \/ Delete(t, r)

LEMMA NewId == ASSUME TabTypeOK, NewChange PROVE changes + 1 \in Id /\ changes' \in 0..MaxChanges
BY ChangeAssumption DEF TabTypeOK, NewChange, Id

LEMMA EditShows ==
    ASSUME TabTypeOK, NEW t \in Tab, NEW r \in Request, Edits(t, r)
    PROVE  \E k \in Shows, again \in BOOLEAN : Edit(t, r, k, again)
<1>1. tab[t] \in Shows /\ NewChange /\ tab[t].doc.rev < MaxRev
  BY DEF TabTypeOK, Edits, Apply, Duplicate, Delete, Edit
<1>2. changes + 1 \in Id
  BY <1>1, NewId
<1>3. Here(tab[t].doc.text) \subseteq Id
  BY DEF Here
<1>4. CASE Apply(t, r)
  BY <1>1, <1>2, <1>3, <1>4, AppliedShows DEF Apply
<1>5. CASE Duplicate(t, r)
  BY <1>1, <1>2, <1>5, DuplicatedShows DEF Duplicate
<1>6. CASE Delete(t, r)
  <2>1. PICK as \in SUBSET Id : Edit(t, r, DeletedTree(tab[t], changes + 1, as), FALSE)
    BY <1>3, <1>6 DEF Delete
  <2>2. QED
    BY <1>1, <1>2, <2>1, DeletedShows
<1>7. QED
  BY <1>4, <1>5, <1>6 DEF Edits

LEMMA TabServed == TabTypeOK /\ [TabNext]_allVars => [Next]_vars
<1> SUFFICES ASSUME TabTypeOK, [TabNext]_allVars PROVE [Next]_vars
  OBVIOUS
<1>1. ASSUME NEW t \in Tab, NEW r \in Request, Connect(t, r) PROVE Next
  BY <1>1 DEF Connect, Next
<1>2. ASSUME NEW t \in Tab, NEW r \in Request, Edits(t, r) PROVE [Next]_vars
  <2>1. PICK k \in Shows, again \in BOOLEAN : Edit(t, r, k, again)
    BY <1>2, EditShows
  <2>2. k.doc \in Doc /\ tab[t].tag \in Doc
    BY ShownFields DEF TabTypeOK
  <2>3. CASE tab[t].remote
    BY <2>1, <2>2, <2>3 DEF Edit, Next
  <2>4. CASE ~ tab[t].remote
    BY <2>1, <2>4 DEF Edit
  <2>5. QED
    BY <2>3, <2>4
<1>3. ASSUME NEW t \in Tab, Draft(t) \/ Select(t) \/ Create(t) PROVE UNCHANGED vars
  BY <1>3 DEF Draft, Select, Create
<1>4. ASSUME NEW r \in Request, FetchStep(r) PROVE UNCHANGED vars
  BY <1>4 DEF FetchStep, Connected, Saved, SavedBody, Unsaved, Arrived
<1>5. ASSUME ServerStep PROVE Next
  BY <1>5 DEF ServerStep, Next
<1>6. ASSUME UNCHANGED allVars PROVE UNCHANGED vars
  BY <1>6 DEF allVars
<1>7. QED
  BY <1>1, <1>2, <1>3, <1>4, <1>5, <1>6 DEF TabNext, TabStep, Edits

(* What a tab comes to show when an answer arrives *)
LEMMA ArrivedShows ==
    ASSUME TabTypeOK, NEW r \in Request, FetchStep(r)
    PROVE  \E k : \E next \in {"body", "done"} :
              Arrived(r, k, next) /\ (owner[r] \in Tab => k \in Shows)
<1>1. req[r].body \in Doc
  BY DEF TabTypeOK, TypeOK, Asked
<1>2. owner[r] \in Tab => tab[owner[r]] \in Shows
  BY DEF TabTypeOK
<1> DEFINE k == tab[owner[r]]
           b == req[r].body
<1>3. CASE Connected(r)
  <2> DEFINE x == [k EXCEPT !.doc = b, !.tag = b, !.remote = TRUE, !.fresh = FALSE,
                            !.overwritten = {}]
  <2>1. owner[r] \in Tab => x \in Shows
    BY <1>1, <1>2, ShownFields DEF Shows
  <2>2. Arrived(r, x, "done")
    BY <1>3 DEF Connected
  <2> HIDE DEF x
  <2>3. QED
    BY <2>1, <2>2
<1>4. CASE Saved(r)
  <2> DEFINE x == [k EXCEPT !.tag = b]
  <2>1. owner[r] \in Tab => x \in Shows
    BY <1>1, <1>2, ShownFields DEF Shows
  <2>2. Arrived(r, x, "body")
    BY <1>4 DEF Saved
  <2> HIDE DEF x
  <2>3. QED
    BY <2>1, <2>2
<1>5. CASE SavedBody(r)
  <2> DEFINE x == [k EXCEPT !.doc = b, !.overwritten = {}]
             y == IF r \in reselects THEN Reselected(x) ELSE x
  <2>1. owner[r] \in Tab => x \in Shows
    BY <1>1, <1>2, ShownFields DEF Shows
  <2>2. Arrived(r, y, "done")
    BY <1>5 DEF SavedBody
  <2> HIDE DEF x
  <2>3. owner[r] \in Tab => y \in Shows
    BY <2>1, ReselectedShows
  <2> HIDE DEF y
  <2>4. QED
    BY <2>2, <2>3
<1>6. CASE Unsaved(r)
  BY <1>2, <1>6 DEF Unsaved
<1>7. QED
  BY <1>3, <1>4, <1>5, <1>6 DEF FetchStep

LEMMA TabTyped == TabTypeOK /\ TypeOK' /\ [TabNext]_allVars => TabTypeOK'
<1> SUFFICES ASSUME TabTypeOK, TypeOK', [TabNext]_allVars PROVE TabTypeOK'
  OBVIOUS
<1>1. /\ tab \in [Tab -> Shows] /\ owner \in [Request -> Tab \cup {NoTab}]
      /\ awaits \in [Request -> Awaited] /\ reselects \subseteq Request
      /\ changes \in 0..MaxChanges
  BY DEF TabTypeOK
<1>2. /\ tab' \in [Tab -> Shows] /\ owner' \in [Request -> Tab \cup {NoTab}]
      /\ awaits' \in [Request -> Awaited] /\ reselects' \subseteq Request
      /\ changes' \in 0..MaxChanges
      => TabTypeOK'
  BY DEF TabTypeOK
<1>3. ASSUME NEW t \in Tab, NEW k \in Shows, Show(t, k) PROVE tab' \in [Tab -> Shows]
  BY <1>1, <1>3 DEF Show
<1>4. ASSUME NEW t \in Tab, NEW r \in Request, NEW again, Fetch(t, r, again)
      PROVE  /\ owner' \in [Request -> Tab \cup {NoTab}]
             /\ awaits' \in [Request -> Awaited] /\ reselects' \subseteq Request
  BY <1>1, <1>4 DEF Fetch, Awaited
<1>5. ASSUME NEW t \in Tab PROVE tab[t] \in Shows
  BY <1>1
<1>6. ASSUME NEW t \in Tab, Draft(t) PROVE TabTypeOK'
  <2>1. [tab[t] EXCEPT !.remote = FALSE] \in Shows
    BY <1>5, ShownFields DEF Shows
  <2>2. QED
    BY <1>1, <1>2, <1>3, <1>6, <2>1 DEF Draft
<1>7. ASSUME NEW t \in Tab, Select(t) PROVE TabTypeOK'
  <2>1. PICK a \in Id : Show(t, Selected(tab[t], a))
    BY <1>7 DEF Select, Here
  <2>2. QED
    BY <1>1, <1>2, <1>3, <1>5, <1>7, <2>1, SelectedShows DEF Select
<1>8. ASSUME NEW t \in Tab, Create(t) PROVE TabTypeOK'
  BY <1>1, <1>2, <1>3, <1>5, <1>8, NewId, CreatedShows DEF Create
<1>9. ASSUME NEW t \in Tab, NEW r \in Request, Connect(t, r) PROVE TabTypeOK'
  BY <1>1, <1>2, <1>4, <1>9 DEF Connect
<1>10. ASSUME NEW t \in Tab, NEW r \in Request, Edits(t, r) PROVE TabTypeOK'
  <2>1. PICK k \in Shows, again \in BOOLEAN : Edit(t, r, k, again)
    BY <1>10, EditShows
  <2>2. changes' \in 0..MaxChanges
    BY <2>1, NewId DEF Edit
  <2>3. CASE tab[t].remote
    BY <1>2, <1>3, <1>4, <2>1, <2>2, <2>3 DEF Edit
  <2>4. CASE ~ tab[t].remote
    BY <1>1, <1>2, <1>3, <2>1, <2>2, <2>4, ReselectedShows DEF Edit
  <2>5. QED
    BY <2>3, <2>4
<1>11. ASSUME NEW r \in Request, FetchStep(r) PROVE TabTypeOK'
  <2>1. PICK k : \E next \in {"body", "done"} :
           Arrived(r, k, next) /\ (owner[r] \in Tab => k \in Shows)
    BY <1>11, ArrivedShows
  <2>2. tab' \in [Tab -> Shows]
    BY <1>1, <2>1 DEF Arrived, Show
  <2>3. awaits' \in [Request -> Awaited]
    BY <1>1, <2>1 DEF Arrived, Awaited
  <2>4. QED
    BY <1>1, <1>2, <2>1, <2>2, <2>3 DEF Arrived
<1>12. CASE ServerStep \/ UNCHANGED allVars
  BY <1>1, <1>2, <1>12 DEF ServerStep, allVars, tabVars
<1>13. QED
  BY <1>6, <1>7, <1>8, <1>9, <1>10, <1>11, <1>12 DEF TabNext, TabStep, Edits

LEMMA TabInitTyped == TabInit => TabTypeOK
<1> SUFFICES ASSUME TabInit PROVE TabTypeOK
  OBVIOUS
<1>1. TypeOK
  BY SafeInit DEF TabInit, Safe
<1>2. Opened \in Shows
  BY SeedAssumption DEF Opened, Shows
<1>3. 0 \in 0..MaxChanges
  BY ChangeAssumption
<1>4. QED
  BY <1>1, <1>2, <1>3 DEF TabInit, TabTypeOK, Awaited

(* What tabs show and send are documents whose revision and text the bounds *)
(* allow, whether or not users wait for answers.                            *)
THEOREM TabTypes == TabSpec => []TabTypeOK
<1>1. TabTypeOK /\ Safe /\ [TabNext]_allVars => TabTypeOK' /\ Safe'
  BY TabServed, TabTyped, SafeStep DEF Safe
<1>2. TabInit => TabTypeOK /\ Safe
  BY TabInitTyped, SafeInit DEF TabInit
<1>3. QED
  BY <1>1, <1>2, PTL DEF TabSpec

(* The tabs ask nothing of the server that it is not proved to answer      *)
(* rightly: with them it does what it does with the requests of anyone.    *)
THEOREM TabsUseTheServer == TabSpec => Spec
<1>1. TabInit => Init
  BY DEF TabInit
<1>2. QED
  BY <1>1, TabTypes, TabServed, PTL DEF TabSpec, Spec

-----------------------------------------------------------------------------
(* The tabs of users who wait *)

Pending(r) == awaits[r] \in {"headers", "body"}

Single == /\ \A r \in Request : Pending(r) => owner[r] \in Tab /\ req[r].at # "new"
          /\ \A r, s \in Request :
                Pending(r) /\ Pending(s) /\ owner[r] = owner[s] => r = s

Flying == \A r \in Request :
             req[r].at \notin {"new", "answered", "lost"} => awaits[r] = "headers"

Grows == \A r \in Request :
            awaits[r] = "headers" /\ req[r].kind = "PUT" =>
               req[r].match.text \subseteq req[r].body.text \cup tab[owner[r]].overwritten

Shown ==
    \A r \in Request :
       /\ awaits[r] = "headers" /\ req[r].kind = "PUT" =>
             tab[owner[r]].doc = req[r].body
       /\ awaits[r] = "body" =>
             /\ req[r].kind = "PUT"
             /\ tab[owner[r]].doc = req[r].body /\ tab[owner[r]].tag = req[r].body

(* The facts about the artifacts of the first n changes *)
Known(n) == {f \in Fact : f.of <= n}

Numbered == /\ doc.text \subseteq Known(changes)
            /\ \A r \in Request : req[r].body.text \subseteq Known(changes)

(* What a tab may come to show after n changes: a document that lacks of   *)
(* the tag's no more than what was put over, and an editor that was filled *)
(* since the last Admin control only with all the code of the artifact.    *)
Fits(k, n) ==
    /\ k \in Shows /\ k.doc.text \subseteq Known(n)
    /\ k.remote => k.tag.text \subseteq k.doc.text \cup k.overwritten
    /\ k.fresh /\ k.selected \in Here(k.doc.text) =>
          CodeOf(k.doc.text, k.selected) \subseteq k.code

TabInv == /\ TabTypeOK /\ Safe /\ Single /\ Flying /\ Grows /\ Shown /\ Numbered
          /\ \A t \in Tab : Fits(tab[t], changes)

-----------------------------------------------------------------------------
(* What the user makes of a tab that fits fits. *)

LEMMA LaterKnown ==
    ASSUME NEW m \in Nat, NEW n \in Nat, m <= n PROVE Known(m) \subseteq Known(n)
<1>1. \A f \in Fact : f.of \in Int
  BY ChangeAssumption DEF Fact, Id
<1>2. QED
  BY <1>1 DEF Known

LEMMA LaterFits ==
    ASSUME NEW m \in Nat, NEW n \in Nat, m <= n, NEW k, Fits(k, m) PROVE Fits(k, n)
BY LaterKnown DEF Fits

LEMMA InCode ==
    ASSUME NEW text, NEW a, NEW n \in Id
    PROVE  n \in CodeOf(text, a) <=> [what |-> "code", of |-> a, by |-> n] \in text
BY DEF CodeOf, Coded

LEMMA SelectedFits ==
    ASSUME TabTypeOK, NEW n, NEW k, Fits(k, n), NEW a \in Id
    PROVE  Fits(Selected(k, a), n)
<1> DEFINE v == Selected(k, a)
<1>1. v \in Shows
  BY SelectedShows DEF Fits
<1>2. /\ v.doc = k.doc /\ v.tag = k.tag /\ v.remote = k.remote
      /\ v.overwritten = k.overwritten
      /\ v.selected = a /\ v.code = CodeOf(k.doc.text, a)
  BY DEF Selected, Fits, Shows
<1> HIDE DEF v
<1>3. Fits(v, n)
  BY <1>1, <1>2 DEF Fits
<1>4. QED
  BY <1>3 DEF v

LEMMA ReselectedFits ==
    ASSUME TabTypeOK, NEW n, NEW k, Fits(k, n)
    PROVE  Fits(Reselected(k), n) /\ Reselected(k).remote = k.remote
<1>1. Here(k.doc.text) \subseteq Id
  BY DEF Here
<1>2. \A a \in Id : Selected(k, a).remote = k.remote
  BY DEF Selected, Fits, Shows
<1>3. QED
  BY <1>1, <1>2, SelectedFits DEF Reselected

LEMMA RevisedFields ==
    ASSUME TabTypeOK, NEW k \in Shows, NEW text
    PROVE  /\ Revised(k, text).doc.text = text /\ Revised(k, text).tag = k.tag
           /\ Revised(k, text).remote = k.remote
           /\ Revised(k, text).selected = k.selected /\ Revised(k, text).code = k.code
           /\ Revised(k, text).fresh = k.fresh
           /\ Revised(k, text).overwritten = k.overwritten
BY DEF Revised, Shows

LEMMA AppliedFits ==
    ASSUME TabTypeOK, NEW m \in Nat, NEW n \in Id, NEW k, Fits(k, m),
           k.selected \in Here(k.doc.text), k.doc.rev < MaxRev, m <= n
    PROVE  Fits(Applied(k, n), n) /\ Applied(k, n).remote = k.remote
           /\ Applied(k, n).tag = k.tag
<1> DEFINE v == Applied(k, n)
           a == k.selected
           old == Coded(a, CodeOf(k.doc.text, a))
           new == Coded(a, k.code \cup {n})
           text == (k.doc.text \ old) \cup new
<1>1. k \in Shows /\ a \in Id /\ n \in Nat
  BY ChangeAssumption DEF Fits, Here, Id
<1>2. v \in Shows
  BY <1>1, AppliedShows
<1>3. /\ v.doc.text = text /\ v.tag = k.tag /\ v.remote = k.remote
      /\ v.selected = a /\ v.fresh = k.fresh /\ v.code = k.code \cup {n}
      /\ v.overwritten = IF k.fresh THEN k.overwritten
                         ELSE k.overwritten \cup (old \ new)
  <2> DEFINE u == Revised(k, text)
  <2>1. /\ u \in Shows /\ u.doc.text = text /\ u.tag = k.tag /\ u.remote = k.remote
        /\ u.selected = a /\ u.code = k.code /\ u.fresh = k.fresh
        /\ u.overwritten = k.overwritten
    <3>1. /\ old \subseteq {f \in Fact : f.what = "code"}
          /\ new \subseteq {f \in Fact : f.what = "code"}
      <4>1. CodeOf(k.doc.text, a) \in SUBSET Id /\ k.code \cup {n} \in SUBSET Id
        BY <1>1, ShownFields DEF CodeOf
      <4>2. QED
        BY <1>1, <4>1, CodedFacts
    <3>2. text \in SUBSET Fact
      BY <1>1, <3>1, ShownFields
    <3> HIDE DEF text
    <3>3. QED
      BY <1>1, <3>2, RevisedShows, RevisedFields
  <2>2. v = [u EXCEPT !.code = @ \cup {n},
                      !.overwritten = IF k.fresh THEN @ ELSE @ \cup (old \ new)]
    BY DEF Applied
  <2> HIDE DEF v, u, old, new, text
  <2>3. QED
    BY <2>1, <2>2 DEF Shows
<1>4. \A x \in Id : /\ [what |-> "code", of |-> a, by |-> x] \in old <=>
                          [what |-> "code", of |-> a, by |-> x] \in k.doc.text
                    /\ [what |-> "code", of |-> a, by |-> x] \in new <=>
                          x \in k.code \cup {n}
  BY DEF Coded, CodeOf
<1>5. CodeOf(v.doc.text, a) \subseteq v.code
  <2>1. CodeOf(text, a) \subseteq Id
    BY DEF CodeOf
  <2>2. \A x \in CodeOf(text, a) : [what |-> "code", of |-> a, by |-> x] \in text
    BY <2>1, InCode
  <2> HIDE DEF old, new
  <2>3. QED
    BY <1>3, <1>4, <2>1, <2>2
<1>6. v.doc.text \subseteq Known(n)
  <2>1. k.doc.text \subseteq Known(n)
    BY <1>1, LaterKnown DEF Fits
  <2>2. new \subseteq Known(n)
    <3>1. a <= n
      <4>1. Made(a) \in Known(n)
        BY <2>1 DEF Here
      <4>2. QED
        BY <4>1 DEF Made, Known
    <3>2. new \subseteq Fact /\ \A f \in new : f.of = a
      <4>1. k.code \cup {n} \in SUBSET Id
        BY <1>1, ShownFields
      <4>2. new \subseteq Fact
        BY <1>1, <4>1, CodedFacts
      <4>3. QED
        BY <4>2 DEF Coded
    <3>3. QED
      BY <3>1, <3>2 DEF Known
  <2>3. QED
    BY <1>3, <2>1, <2>2
<1>7. v.remote => v.tag.text \subseteq v.doc.text \cup v.overwritten
  <2>1. k.fresh => old \subseteq new
    <3>1. k.fresh => CodeOf(k.doc.text, a) \subseteq k.code
      BY DEF Fits
    <3>2. QED
      BY <3>1 DEF Coded
  <2> HIDE DEF old, new
  <2>2. QED
    BY <1>3, <2>1 DEF Fits
<1> HIDE DEF v
<1>8. Fits(v, n)
  BY <1>2, <1>3, <1>5, <1>6, <1>7 DEF Fits
<1>9. QED
  BY <1>3, <1>8 DEF v

LEMMA DuplicatedFits ==
    ASSUME TabTypeOK, NEW m \in Nat, m + 1 \in Id, NEW k, Fits(k, m),
           k.selected \in Here(k.doc.text), k.doc.rev < MaxRev
    PROVE  Fits(Duplicated(k, m + 1), m + 1) /\ Duplicated(k, m + 1).remote = k.remote
           /\ Duplicated(k, m + 1).tag = k.tag
<1> DEFINE n == m + 1
           v == Duplicated(k, n)
           code == CodeOf(k.doc.text, k.selected)
           text == k.doc.text \cup {Made(n)} \cup Coded(n, code)
<1>1. k \in Shows /\ n \in Nat /\ n \in Id /\ code \in SUBSET Id
  BY DEF Fits, CodeOf
<1>2. v \in Shows
  BY <1>1, DuplicatedShows
<1>3. /\ v.doc.text = text /\ v.tag = k.tag /\ v.remote = k.remote
      /\ v.selected = n /\ v.code = k.code /\ v.fresh = k.fresh
      /\ v.overwritten = k.overwritten
  <2> DEFINE u == Revised(k, text)
  <2>1. /\ u \in Shows /\ u.doc.text = text /\ u.tag = k.tag /\ u.remote = k.remote
        /\ u.code = k.code /\ u.fresh = k.fresh /\ u.overwritten = k.overwritten
    <3>1. text \in SUBSET Fact
      BY <1>1, ShownFields, CodedFacts DEF Made, Fact
    <3> HIDE DEF text
    <3>2. QED
      BY <1>1, <3>1, RevisedShows, RevisedFields
  <2>2. v = [u EXCEPT !.selected = n]
    BY DEF Duplicated
  <2> HIDE DEF v, u, text, n
  <2>3. QED
    BY <2>1, <2>2 DEF Shows
<1>4. CodeOf(text, n) \subseteq code
  <2> SUFFICES ASSUME NEW x \in Id, [what |-> "code", of |-> n, by |-> x] \in text
               PROVE  x \in code
    <3>1. CodeOf(text, n) \subseteq Id
      BY DEF CodeOf
    <3>2. QED
      BY <3>1, InCode
  <2>1. [what |-> "code", of |-> n, by |-> x] \notin k.doc.text
    BY <1>1 DEF Fits, Known
  <2>2. [what |-> "code", of |-> n, by |-> x] # Made(n)
    BY DEF Made
  <2>3. QED
    BY <2>1, <2>2 DEF Coded
<1>5. text \subseteq Known(n)
  <2>1. k.doc.text \subseteq Known(n)
    BY <1>1, LaterKnown DEF Fits
  <2>2. Made(n) \in Known(n)
    BY <1>1 DEF Made, Known, Fact
  <2>3. Coded(n, code) \subseteq Fact /\ \A f \in Coded(n, code) : f.of = n
    BY <1>1, CodedFacts DEF Coded
  <2>4. QED
    BY <1>1, <2>1, <2>2, <2>3 DEF Known
<1>6. v.remote => v.tag.text \subseteq v.doc.text \cup v.overwritten
  BY <1>3 DEF Fits
<1> HIDE DEF v, text
<1>7. v.fresh => CodeOf(v.doc.text, v.selected) \subseteq v.code
  BY <1>3, <1>4 DEF Fits
<1>8. Fits(v, n)
  BY <1>2, <1>3, <1>5, <1>6, <1>7 DEF Fits
<1>9. QED
  BY <1>3, <1>8 DEF v

LEMMA DeletedFits ==
    ASSUME TabTypeOK, NEW m \in Nat, NEW n \in Id, NEW k, Fits(k, m),
           k.doc.rev < MaxRev, m <= n, NEW as \in SUBSET Here(k.doc.text)
    PROVE  Fits(DeletedTree(k, n, as), n) /\ DeletedTree(k, n, as).remote = k.remote
           /\ DeletedTree(k, n, as).tag = k.tag
<1> DEFINE v == DeletedTree(k, n, as)
           text == k.doc.text \cup Deleted(as, n)
<1>1. k \in Shows /\ as \in SUBSET Id /\ n \in Nat
  <2>1. Here(k.doc.text) \subseteq Id
    BY DEF Here
  <2>2. n \in Nat
    BY ChangeAssumption DEF Id
  <2>3. QED
    BY <2>1, <2>2 DEF Fits
<1>2. v \in Shows
  BY <1>1, DeletedShows
<1>3. text \subseteq Known(n)
  <2>1. k.doc.text \subseteq Known(n)
    BY <1>1, LaterKnown DEF Fits
  <2>2. ASSUME NEW a \in as PROVE [what |-> "gone", of |-> a, by |-> n] \in Known(n)
    <3>1. Made(a) \in Known(n)
      BY <2>1 DEF Here
    <3>2. QED
      BY <1>1, <3>1 DEF Made, Known, Fact
  <2>3. QED
    BY <2>1, <2>2 DEF Deleted
<1>4. /\ v.doc.text = text /\ v.tag = k.tag /\ v.remote = k.remote
      /\ v.selected = NoArtifact /\ v.overwritten = k.overwritten
  <2> DEFINE u == Revised(k, text)
  <2>1. /\ u \in Shows /\ u.doc.text = text /\ u.tag = k.tag /\ u.remote = k.remote
        /\ u.overwritten = k.overwritten
    <3>1. text \in SUBSET Fact
      BY <1>3 DEF Known
    <3> HIDE DEF text
    <3>2. QED
      BY <1>1, <3>1, RevisedShows, RevisedFields
  <2>2. v = [u EXCEPT !.selected = NoArtifact]
    BY DEF DeletedTree
  <2> HIDE DEF v, u, text
  <2>3. QED
    BY <2>1, <2>2 DEF Shows
<1>5. NoArtifact \notin Here(text)
  BY ChangeAssumption DEF Here
<1>6. v.remote => v.tag.text \subseteq v.doc.text \cup v.overwritten
  BY <1>4 DEF Fits
<1> HIDE DEF v, text
<1>7. Fits(v, n)
  BY <1>2, <1>3, <1>4, <1>5, <1>6 DEF Fits
<1>8. QED
  BY <1>4, <1>7 DEF v

LEMMA CreatedFits ==
    ASSUME TabTypeOK, NEW m \in Nat, NEW n \in Id, NEW k, Fits(k, m), m <= n
    PROVE  Fits(Created(k, n), n)
<1> DEFINE v == Created(k, n)
           text == k.doc.text \cup {Made(n)}
<1>1. k \in Shows /\ n \in Nat
  BY ChangeAssumption DEF Fits, Id
<1>2. v \in Shows
  BY <1>1, CreatedShows
<1>3. text \subseteq Known(n)
  BY <1>1, LaterKnown DEF Fits, Made, Known, Fact
<1>4. /\ v.doc.text = text /\ v.tag = k.tag /\ v.remote = k.remote
      /\ v.selected = n /\ v.overwritten = k.overwritten
      /\ v.code = CodeOf(text, n)
  BY <1>1, ShownFields DEF Created, Selected, Shows, Doc
<1>5. v.remote => v.tag.text \subseteq v.doc.text \cup v.overwritten
  BY <1>4 DEF Fits
<1> HIDE DEF v, text
<1>6. Fits(v, n)
  BY <1>2, <1>3, <1>4, <1>5 DEF Fits
<1>7. QED
  BY <1>6 DEF v

-----------------------------------------------------------------------------
LEMMA TabInitInv == TabInit => TabInv
<1> SUFFICES ASSUME TabInit PROVE TabInv
  OBVIOUS
<1>1. Safe /\ TabTypeOK
  BY SafeInit, TabInitTyped DEF TabInit
<1>2. \A r \in Request : awaits[r] = "nothing" /\ req[r] = Unsent
  BY DEF TabInit, Init
<1>3. Single /\ Shown /\ Grows /\ Flying
  BY <1>2 DEF Single, Pending, Shown, Grows, Flying, Unsent
<1>4. Seed.text \subseteq Known(0) /\ changes = 0
  <2>1. Seed.text \subseteq Fact
    BY SeedAssumption, ChangeAssumption DEF Doc
  <2>2. QED
    BY <2>1, ChangeAssumption DEF Known, TabInit
<1>5. Numbered
  BY <1>2, <1>4 DEF Numbered, TabInit, Init, Unsent
<1>6. ASSUME NEW t \in Tab PROVE Fits(tab[t], changes)
  <2>1. tab[t] = Opened /\ tab[t] \in Shows
    BY <1>1 DEF TabInit, TabTypeOK
  <2>2. QED
    BY <1>4, <2>1 DEF Fits, Opened
<1>7. QED
  BY <1>1, <1>3, <1>5, <1>6 DEF TabInv

(* A tab whose user waits and may act has no fetch under way. *)
LEMMA FreeTab ==
    ASSUME ~ Overlap, NEW t \in Tab, Free(t), NEW r \in Request, Pending(r)
    PROVE  owner[r] # t
BY DEF Free, Pending

LEMMA SafeStays == ASSUME Safe, UNCHANGED vars PROVE Safe'
BY SafeStep

(* The count of changes goes up by one, or not. *)
Counts == changes' \in 0..MaxChanges /\ changes' \in {changes, changes + 1}

LEMMA OthersFit ==
    ASSUME TabInv, Counts, NEW t \in Tab, NEW k, Fits(k, changes'),
           tab' = [tab EXCEPT ![t] = k]
    PROVE  /\ tab' \in [Tab -> Shows] /\ \A u \in Tab : Fits(tab'[u], changes')
           /\ tab'[t] = k /\ \A u \in Tab : u # t => tab'[u] = tab[u]
<1>1. changes \in Nat /\ changes' \in Nat /\ changes <= changes'
  BY ChangeAssumption DEF Counts, TabInv, TabTypeOK
<1>2. \A u \in Tab : Fits(tab[u], changes')
  BY <1>1, LaterFits DEF TabInv
<1>3. QED
  BY <1>2 DEF TabInv, TabTypeOK, Fits

LEMMA StaysNumbered ==
    ASSUME TabInv, Counts, doc' = doc,
           \A q \in Request : \/ req'[q].body = req[q].body
                              \/ req'[q].body.text \subseteq Known(changes')
    PROVE  Numbered'
<1>1. changes \in Nat /\ changes' \in Nat /\ changes <= changes'
  BY ChangeAssumption DEF Counts, TabInv, TabTypeOK
<1>2. Known(changes) \subseteq Known(changes')
  BY <1>1, LaterKnown
<1>3. QED
  BY <1>2 DEF TabInv, Numbered, Known

(* An act of the user of t that sends nothing *)
LEMMA ActInv ==
    ASSUME TabInv, ~ Overlap, NEW t \in Tab, Free(t), NEW k, Fits(k, changes'),
           tab' = [tab EXCEPT ![t] = k], Counts,
           UNCHANGED <<vars, owner, awaits, reselects>>
    PROVE  TabInv'
<1>1. Safe' /\ doc' = doc /\ req' = req
  BY SafeStays DEF TabInv, vars
<1>2. /\ tab' \in [Tab -> Shows] /\ \A u \in Tab : Fits(tab'[u], changes')
      /\ \A u \in Tab : u # t => tab'[u] = tab[u]
  BY OthersFit
<1>3. TabTypeOK'
  BY <1>1, <1>2 DEF TabInv, TabTypeOK, Safe, Counts
<1>4. \A r \in Request : Pending(r)' <=> Pending(r)
  BY DEF Pending
<1>5. \A r \in Request : Pending(r) => tab'[owner[r]] = tab[owner[r]]
  BY <1>2, FreeTab DEF TabInv, Single
<1>6. Single' /\ Flying'
  BY <1>1, <1>4 DEF TabInv, Single, Flying
<1>7. Grows' /\ Shown'
  BY <1>1, <1>5 DEF TabInv, Grows, Shown, Pending
<1>8. Numbered'
  BY <1>1, StaysNumbered
<1>9. QED
  BY <1>1, <1>2, <1>3, <1>6, <1>7, <1>8 DEF TabInv

(* One that sends request r *)
LEMMA SendInv ==
    ASSUME TabInv, ~ Overlap, NEW t \in Tab, Free(t), NEW k, Fits(k, changes'),
           tab' = [tab EXCEPT ![t] = k], Counts,
           NEW r \in Request, NEW kind \in {"GET", "PUT"},
           NEW match \in Doc, NEW body \in Doc, NEW again,
           Send(r, kind, match, body), Fetch(t, r, again),
           body.text \subseteq Known(changes'),
           kind = "PUT" => /\ match.text \subseteq body.text \cup k.overwritten
                           /\ k.doc = body
    PROVE  TabInv'
<1>1. Safe' /\ doc' = doc
  BY SafeSend DEF TabInv, Send
<1>2. /\ owner' \in [Request -> Tab \cup {NoTab}] /\ awaits' \in [Request -> Awaited]
      /\ owner'[r] = t /\ awaits'[r] = "headers" /\ reselects' \subseteq Request
      /\ \A q \in Request : q # r => owner'[q] = owner[q] /\ awaits'[q] = awaits[q]
  BY DEF Fetch, TabInv, TabTypeOK, Awaited
<1>3. /\ tab' \in [Tab -> Shows] /\ \A u \in Tab : Fits(tab'[u], changes')
      /\ tab'[t] = k /\ \A u \in Tab : u # t => tab'[u] = tab[u]
  BY OthersFit
<1>4. TabTypeOK'
  BY <1>1, <1>2, <1>3 DEF TabInv, TabTypeOK, Safe, Counts
<1>5. /\ req'[r].at = "sent" /\ req'[r].kind = kind
      /\ req'[r].match = match /\ req'[r].body = body
      /\ \A q \in Request : q # r => req'[q] = req[q]
  BY DEF Send, TabInv, Safe, TypeOK
<1>6. \A q \in Request : q # r => (Pending(q)' <=> Pending(q))
  BY <1>2 DEF Pending
<1>7. Single'
  <2>1. \A q \in Request : Pending(q)' /\ q # r =>
           /\ Pending(q) /\ owner'[q] = owner[q] /\ owner[q] # t
           /\ owner[q] \in Tab /\ req'[q].at # "new"
    BY <1>2, <1>5, <1>6, FreeTab DEF TabInv, Single
  <2>2. \A q, s \in Request :
           Pending(q)' /\ Pending(s)' /\ owner'[q] = owner'[s] => q = s
    BY <1>2, <2>1 DEF TabInv, Single
  <2>3. QED
    BY <1>2, <1>5, <2>1, <2>2 DEF Single
<1>8. Flying'
  BY <1>2, <1>5 DEF TabInv, Flying
<1>9. Grows' /\ Shown'
  <2>1. \A q \in Request : q # r /\ Pending(q) => tab'[owner[q]] = tab[owner[q]]
    BY <1>3, FreeTab DEF TabInv, Single
  <2>2. Grows'
    <3>1. ASSUME NEW q \in Request, q # r, awaits'[q] = "headers", req'[q].kind = "PUT"
          PROVE  req'[q].match.text \subseteq
                    req'[q].body.text \cup tab'[owner'[q]].overwritten
      BY <1>2, <1>5, <2>1, <3>1 DEF TabInv, Grows, Pending
    <3>2. QED
      BY <1>2, <1>3, <1>5, <3>1 DEF Grows
  <2>3. ASSUME NEW q \in Request, q # r
        PROVE  /\ awaits'[q] = "headers" /\ req'[q].kind = "PUT" =>
                     tab'[owner'[q]].doc = req'[q].body
               /\ awaits'[q] = "body" =>
                     /\ req'[q].kind = "PUT" /\ tab'[owner'[q]].doc = req'[q].body
                     /\ tab'[owner'[q]].tag = req'[q].body
    BY <1>2, <1>5, <2>1, <2>3 DEF TabInv, Shown, Pending
  <2>4. QED
    BY <1>2, <1>3, <1>5, <2>2, <2>3 DEF Shown
<1>10. Numbered'
  BY <1>1, <1>5, StaysNumbered
<1>11. QED
  BY <1>1, <1>3, <1>4, <1>7, <1>8, <1>9, <1>10 DEF TabInv

(* The fetch of r goes on to the body of the answer, or is over. *)
LEMMA FetchInv ==
    ASSUME TabInv, NEW r \in Request, Pending(r), req[r].at \in {"answered", "lost"},
           NEW k, Fits(k, changes), NEW w \in {"body", "done"}, Arrived(r, k, w),
           w = "body" => /\ req[r].kind = "PUT"
                         /\ k.doc = req[r].body /\ k.tag = req[r].body
    PROVE  TabInv'
<1>1. Safe' /\ doc' = doc /\ req' = req /\ owner' = owner /\ reselects' = reselects
      /\ changes' = changes /\ Counts
  BY SafeStays DEF TabInv, TabTypeOK, Arrived, vars, Counts
<1>2. owner[r] \in Tab
  BY DEF TabInv, Single
<1>3. tab' = [tab EXCEPT ![owner[r]] = k] /\ awaits' = [awaits EXCEPT ![r] = w]
  BY DEF Arrived, Show
<1>4. /\ tab' \in [Tab -> Shows] /\ \A u \in Tab : Fits(tab'[u], changes')
      /\ tab'[owner[r]] = k /\ \A u \in Tab : u # owner[r] => tab'[u] = tab[u]
  BY <1>1, <1>2, <1>3, OthersFit
<1>5. TabTypeOK'
  BY <1>1, <1>3, <1>4 DEF TabInv, TabTypeOK, Safe, Awaited
<1>6. /\ awaits'[r] = w /\ \A q \in Request : q # r => awaits'[q] = awaits[q]
      /\ \A q \in Request : Pending(q)' => Pending(q)
  BY <1>3 DEF TabInv, TabTypeOK, Pending
<1>7. Single' /\ Flying'
  BY <1>1, <1>6 DEF TabInv, Single, Flying
<1>8. ASSUME NEW q \in Request, q # r, Pending(q)
      PROVE  tab'[owner[q]] = tab[owner[q]] /\ awaits'[q] = awaits[q]
  BY <1>4, <1>6, <1>8 DEF TabInv, Single
<1>9. Grows'
  BY <1>1, <1>6, <1>8 DEF TabInv, Grows, Pending
<1>10. Shown'
  <2>1. ASSUME NEW q \in Request, q # r
        PROVE  /\ awaits'[q] = "headers" /\ req'[q].kind = "PUT" =>
                     tab'[owner'[q]].doc = req'[q].body
               /\ awaits'[q] = "body" =>
                     /\ req'[q].kind = "PUT" /\ tab'[owner'[q]].doc = req'[q].body
                     /\ tab'[owner'[q]].tag = req'[q].body
    BY <1>1, <1>6, <1>8, <2>1 DEF TabInv, Shown, Pending
  <2>2. QED
    BY <1>1, <1>4, <1>6, <2>1 DEF Shown
<1>11. Numbered'
  BY <1>1, StaysNumbered
<1>12. QED
  BY <1>1, <1>4, <1>5, <1>7, <1>9, <1>10, <1>11 DEF TabInv

(* What the server does to a request that is not its step's is nothing, and *)
(* a body becomes another only as the answer to a GET.                      *)
LEMMA ServerMoves ==
    ASSUME TabInv, ServerStep
    PROVE  /\ SameAsks
           /\ doc' = doc \/ \E r \in Request : doc' = req[r].body
           /\ \A q \in Request :
                 /\ req'[q].body \in {req[q].body, doc}
                 /\ req'[q].at = "new" => req[q].at = "new"
                 /\ req'[q].at \notin {"new", "answered", "lost"} =>
                       req[q].at \notin {"new", "answered", "lost"}
<1>1. SameAsks
  BY HandleKeepsAsks, CrashKeepsAsks DEF TabInv, ServerStep
<1>2. CASE Crash
  BY <1>1, <1>2 DEF Crash, TabInv, Safe, TypeOK, Asked
<1>3. ASSUME NEW r \in Request, Handle(r)
      PROVE  /\ doc' = doc \/ \E q \in Request : doc' = req[q].body
             /\ req'[r].body \in {req[r].body, doc}
  <2>1. doc' \in {doc, req[r].body}
    BY <1>3 DEF Handle, Get, GetFails, Reject, ReadFails, Conflict, NotAdvancing,
       Prepare, PrepareFails, Replace, ReplaceFails, Abort, Commit, CommitFails
  <2>2. ASSUME NEW stage, Goto(r, stage) PROVE req'[r].body = req[r].body
    BY <2>2 DEF Goto, TabInv, Safe, TypeOK, Asked
  <2>3. ASSUME NEW status, Answer(r, status) PROVE req'[r].body = req[r].body
    BY <2>3 DEF Answer, TabInv, Safe, TypeOK, Asked
  <2>4. ASSUME Get(r) PROVE req'[r].body = doc
    BY <2>4 DEF Get, TabInv, Safe, TypeOK, Asked
  <2>5. req'[r].body \in {req[r].body, doc}
    BY <1>3, <2>2, <2>3, <2>4
    DEF Handle, GetFails, Reject, ReadFails, Conflict, NotAdvancing,
        Prepare, PrepareFails, Replace, ReplaceFails, Abort, Commit, CommitFails
  <2>6. QED
    BY <2>1, <2>5
<1>4. ASSUME NEW r \in Request, Handle(r), NEW q \in Request
      PROVE  /\ req'[q].body \in {req[q].body, doc}
             /\ req'[q].at = "new" => req[q].at = "new"
             /\ req'[q].at \notin {"new", "answered", "lost"} =>
                   req[q].at \notin {"new", "answered", "lost"}
  BY <1>3, <1>4, HandleMoves DEF TabInv
<1>5. QED
  BY <1>1, <1>2, <1>3, <1>4 DEF ServerStep

LEMMA ServerInv == ASSUME TabInv, ServerStep PROVE TabInv'
<1>1. Safe'
  BY SafeStep DEF TabInv, ServerStep, Next
<1>2. /\ tab' = tab /\ owner' = owner /\ awaits' = awaits
      /\ reselects' = reselects /\ changes' = changes
  BY DEF ServerStep, tabVars
<1>3. TabTypeOK' /\ \A t \in Tab : Fits(tab'[t], changes')
  BY <1>1, <1>2 DEF TabInv, TabTypeOK, Safe
<1>4. Single' /\ Flying'
  BY <1>2, ServerMoves DEF TabInv, Single, Flying, Pending
<1>5. Grows' /\ Shown'
  <2>1. \A q \in Request : req[q].kind \in {"GET", "PUT"}
    BY DEF TabInv, Safe, TypeOK, Asked
  <2>2. QED
    BY <1>2, <2>1, ServerMoves DEF TabInv, SameAsks, Grows, Shown
<1>6. Numbered'
  BY <1>2, ServerMoves DEF TabInv, Numbered
<1>7. QED
  BY <1>1, <1>3, <1>4, <1>5, <1>6 DEF TabInv

-----------------------------------------------------------------------------
(* What a tab comes to show in each of its steps *)

LEMMA NewChangeCounts ==
    ASSUME TabTypeOK, NewChange
    PROVE  /\ Counts /\ changes' = changes + 1 /\ changes \in Nat
           /\ changes + 1 \in Id /\ changes <= changes + 1
BY ChangeAssumption DEF TabTypeOK, NewChange, Counts, Id

LEMMA EditFits ==
    ASSUME TabInv, NEW t \in Tab, NEW r \in Request, Edits(t, r)
    PROVE  \E k, again : /\ Edit(t, r, k, again) /\ Fits(k, changes')
                         /\ k.remote = tab[t].remote /\ k.tag = tab[t].tag
<1>1. /\ Fits(tab[t], changes) /\ TabTypeOK /\ NewChange
      /\ tab[t].doc.rev < MaxRev
  BY DEF TabInv, Edits, Apply, Duplicate, Delete, Edit
<1>2. /\ changes' = changes + 1 /\ changes \in Nat /\ changes + 1 \in Id
      /\ changes <= changes + 1
  BY <1>1, NewChangeCounts
<1>3. CASE Apply(t, r)
  <2>1. /\ Edit(t, r, Applied(tab[t], changes + 1), TRUE)
        /\ tab[t].selected \in Here(tab[t].doc.text)
    BY <1>3 DEF Apply
  <2> DEFINE k == Applied(tab[t], changes + 1)
  <2>2. Fits(k, changes + 1) /\ k.remote = tab[t].remote /\ k.tag = tab[t].tag
    BY <1>1, <1>2, <2>1, AppliedFits
  <2> HIDE DEF k
  <2>3. Fits(k, changes')
    BY <1>2, <2>2
  <2>4. QED
    BY <2>1, <2>2, <2>3 DEF k
<1>4. CASE Duplicate(t, r)
  <2>1. /\ Edit(t, r, Duplicated(tab[t], changes + 1), TRUE)
        /\ tab[t].selected \in Here(tab[t].doc.text)
    BY <1>4 DEF Duplicate
  <2> DEFINE k == Duplicated(tab[t], changes + 1)
  <2>2. Fits(k, changes + 1) /\ k.remote = tab[t].remote /\ k.tag = tab[t].tag
    BY <1>1, <1>2, <2>1, DuplicatedFits
  <2> HIDE DEF k
  <2>3. Fits(k, changes')
    BY <1>2, <2>2
  <2>4. QED
    BY <2>1, <2>2, <2>3 DEF k
<1>5. CASE Delete(t, r)
  <2>1. PICK as \in SUBSET Here(tab[t].doc.text) :
           Edit(t, r, DeletedTree(tab[t], changes + 1, as), FALSE)
    BY <1>5 DEF Delete
  <2> DEFINE k == DeletedTree(tab[t], changes + 1, as)
  <2>2. Fits(k, changes + 1) /\ k.remote = tab[t].remote /\ k.tag = tab[t].tag
    BY <1>1, <1>2, <2>1, DeletedFits
  <2> HIDE DEF k
  <2>3. Fits(k, changes')
    BY <1>2, <2>2
  <2>4. QED
    BY <2>1, <2>2, <2>3 DEF k
<1>6. QED
  BY <1>3, <1>4, <1>5 DEF Edits

LEMMA EditInv ==
    ASSUME TabInv, ~ Overlap, NEW t \in Tab, NEW r \in Request, Edits(t, r)
    PROVE  TabInv'
<1>1. PICK k, again : /\ Edit(t, r, k, again) /\ Fits(k, changes')
                      /\ k.remote = tab[t].remote /\ k.tag = tab[t].tag
  BY EditFits
<1>2. Free(t) /\ Counts
  BY <1>1, NewChangeCounts DEF Edit, TabInv
<1>3. CASE tab[t].remote
  <2>1. /\ tab' = [tab EXCEPT ![t] = k]
        /\ Send(r, "PUT", tab[t].tag, k.doc) /\ Fetch(t, r, again)
    BY <1>1, <1>3 DEF Edit, Show
  <2>2. /\ tab[t].tag \in Doc /\ k.doc \in Doc
        /\ k.doc.text \subseteq Known(changes')
        /\ tab[t].tag.text \subseteq k.doc.text \cup k.overwritten
    BY <1>1, <1>3, ShownFields DEF Fits, TabInv
  <2>3. QED
    BY <1>1, <1>2, <2>1, <2>2, SendInv
<1>4. CASE ~ tab[t].remote
  <2> DEFINE v == IF again THEN Reselected(k) ELSE k
  <2>1. /\ tab' = [tab EXCEPT ![t] = v]
        /\ UNCHANGED <<vars, owner, awaits, reselects>>
    BY <1>1, <1>4 DEF Edit, Show
  <2>2. Fits(v, changes')
    BY <1>1, ReselectedFits DEF TabInv
  <2> HIDE DEF v
  <2>3. QED
    BY <1>2, <2>1, <2>2, ActInv
<1>5. QED
  BY <1>3, <1>4

LEMMA TabStepInv ==
    ASSUME TabInv, ~ Overlap, NEW t \in Tab, TabStep(t) PROVE TabInv'
<1>1. Fits(tab[t], changes) /\ TabTypeOK /\ (changes' = changes => Counts)
  BY DEF TabInv, TabTypeOK, Counts
<1>2. CASE Draft(t)
  <2> DEFINE k == [tab[t] EXCEPT !.remote = FALSE]
  <2>1. /\ k \in Shows /\ k.doc = tab[t].doc /\ ~ k.remote /\ k.fresh = tab[t].fresh
        /\ k.selected = tab[t].selected /\ k.code = tab[t].code
    BY <1>1, ShownFields DEF Fits, Shows
  <2>2. /\ tab' = [tab EXCEPT ![t] = k] /\ Free(t) /\ changes' = changes
        /\ UNCHANGED <<vars, owner, awaits, reselects>>
    BY <1>2 DEF Draft, Show
  <2> HIDE DEF k
  <2>3. Fits(k, changes')
    BY <1>1, <2>1, <2>2 DEF Fits
  <2>4. QED
    BY <1>1, <2>2, <2>3, ActInv
<1>3. CASE Select(t)
  <2>1. PICK a \in Id : Show(t, Selected(tab[t], a))
    BY <1>3 DEF Select, Here
  <2>2. /\ tab' = [tab EXCEPT ![t] = Selected(tab[t], a)] /\ Free(t)
        /\ changes' = changes /\ UNCHANGED <<vars, owner, awaits, reselects>>
    BY <1>3, <2>1 DEF Select, Show
  <2>3. Fits(Selected(tab[t], a), changes')
    BY <1>1, <2>2, SelectedFits
  <2>4. QED
    BY <1>1, <2>2, <2>3, ActInv
<1>4. CASE Create(t)
  <2>1. /\ tab' = [tab EXCEPT ![t] = Created(tab[t], changes + 1)] /\ Free(t)
        /\ NewChange /\ UNCHANGED <<vars, owner, awaits, reselects>>
    BY <1>4 DEF Create, Show
  <2>2. /\ changes \in Nat /\ changes + 1 \in Id /\ changes <= changes + 1
        /\ changes' = changes + 1 /\ Counts
    BY <1>1, <2>1, NewChangeCounts
  <2>3. Fits(Created(tab[t], changes + 1), changes')
    BY <1>1, <2>2, CreatedFits
  <2>4. QED
    BY <2>1, <2>2, <2>3, ActInv
<1>5. ASSUME NEW r \in Request, Connect(t, r) PROVE TabInv'
  <2>1. /\ tab' = [tab EXCEPT ![t] = tab[t]] /\ Free(t) /\ changes' = changes
        /\ Send(r, "GET", Seed, Seed) /\ Fetch(t, r, FALSE)
    BY <1>5 DEF Connect, TabInv, TabTypeOK
  <2>2. Seed.text \subseteq Known(changes')
    <3>1. Seed.text \subseteq Fact /\ changes \in Nat
      BY <1>1, SeedAssumption, ChangeAssumption DEF Doc, TabTypeOK
    <3>2. QED
      BY <2>1, <3>1, ChangeAssumption DEF Known
  <2>3. QED
    BY <1>1, <2>1, <2>2, SendInv, SeedAssumption
<1>6. QED
  BY <1>2, <1>3, <1>4, <1>5, EditInv DEF TabStep, Edits

LEMMA FetchStepInv ==
    ASSUME TabInv, NEW r \in Request, FetchStep(r) PROVE TabInv'
<1> DEFINE k == tab[owner[r]]
           b == req[r].body
<1>1. Pending(r)
  BY DEF FetchStep, Connected, Saved, SavedBody, Unsaved, Pending
<1>2. /\ owner[r] \in Tab /\ Fits(k, changes) /\ TabTypeOK
      /\ b \in Doc /\ b.text \subseteq Known(changes)
  BY <1>1 DEF TabInv, Single, Safe, TypeOK, Asked, Numbered
<1>3. req[r].at \in {"answered", "lost"}
  <2>1. req[r].at # "new"
    BY <1>1 DEF TabInv, Single
  <2>2. awaits[r] = "body" => req[r].at \in {"answered", "lost"}
    BY <2>1 DEF TabInv, Flying
  <2>3. QED
    BY <2>2 DEF FetchStep, Connected, Saved, SavedBody, Unsaved
<1>4. CASE Connected(r)
  <2> DEFINE x == [k EXCEPT !.doc = b, !.tag = b, !.remote = TRUE, !.fresh = FALSE,
                            !.overwritten = {}]
  <2>1. /\ x \in Shows /\ x.doc = b /\ x.tag = b /\ ~ x.fresh
    BY <1>2, ShownFields DEF Fits, Shows
  <2>2. Arrived(r, x, "done")
    BY <1>4 DEF Connected
  <2> HIDE DEF x
  <2>3. Fits(x, changes)
    BY <1>2, <2>1 DEF Fits
  <2>4. QED
    BY <1>1, <1>3, <2>2, <2>3, FetchInv
<1>5. CASE Saved(r)
  <2> DEFINE x == [k EXCEPT !.tag = b]
  <2>1. k.doc = b /\ req[r].kind = "PUT"
    BY <1>5 DEF Saved, TabInv, Shown
  <2>2. /\ x \in Shows /\ x.doc = b /\ x.tag = b /\ x.fresh = k.fresh
        /\ x.selected = k.selected /\ x.code = k.code
    BY <1>2, <2>1, ShownFields DEF Fits, Shows
  <2>3. Arrived(r, x, "body")
    BY <1>5 DEF Saved
  <2> HIDE DEF x
  <2>4. Fits(x, changes)
    BY <1>2, <2>1, <2>2 DEF Fits
  <2> HIDE DEF b
  <2>5. req[r].kind = "PUT" /\ x.doc = req[r].body /\ x.tag = req[r].body
    BY <2>1, <2>2 DEF b
  <2>6. QED
    BY <1>1, <1>3, <2>3, <2>4, <2>5, FetchInv
<1>6. CASE SavedBody(r)
  <2> DEFINE x == [k EXCEPT !.doc = b, !.overwritten = {}]
             y == IF r \in reselects THEN Reselected(x) ELSE x
  <2>1. k.doc = b /\ k.tag = b
    BY <1>6 DEF SavedBody, TabInv, Shown
  <2>2. /\ x \in Shows /\ x.doc = b /\ x.tag = b /\ x.fresh = k.fresh
        /\ x.selected = k.selected /\ x.code = k.code
    BY <1>2, <2>1, ShownFields DEF Fits, Shows
  <2>3. Arrived(r, y, "done")
    BY <1>6 DEF SavedBody
  <2> HIDE DEF x
  <2>4. Fits(x, changes)
    BY <1>2, <2>1, <2>2 DEF Fits
  <2>5. Fits(y, changes)
    BY <1>2, <2>4, ReselectedFits
  <2> HIDE DEF y
  <2>6. QED
    BY <1>1, <1>3, <2>3, <2>5, FetchInv
<1>7. CASE Unsaved(r)
  <2>1. Arrived(r, k, "done")
    BY <1>7 DEF Unsaved
  <2>2. QED
    BY <1>1, <1>2, <1>3, <2>1, FetchInv
<1>8. QED
  BY <1>4, <1>5, <1>6, <1>7 DEF FetchStep

LEMMA TabInvStep == ~ Overlap /\ TabInv /\ [TabNext]_allVars => TabInv'
<1> SUFFICES ASSUME ~ Overlap, TabInv, [TabNext]_allVars PROVE TabInv'
  OBVIOUS
<1>1. CASE UNCHANGED allVars
  <2>1. /\ UNCHANGED vars /\ tab' = tab /\ owner' = owner /\ awaits' = awaits
        /\ reselects' = reselects /\ changes' = changes /\ req' = req /\ doc' = doc
    BY <1>1 DEF allVars, tabVars, vars
  <2>2. Safe'
    BY <2>1, SafeStays DEF TabInv
  <2>3. QED
    BY <2>1, <2>2 DEF TabInv, TabTypeOK, Safe, Single, Flying, Pending, Grows, Shown,
       Numbered
<1>2. QED
  BY <1>1, TabStepInv, FetchStepInv, ServerInv DEF TabNext

(* Where users wait for each answer, what the document of a tab lacks of   *)
(* the one that its tag names was put over with the editor's text, which   *)
(* the user had filled in before the last Admin control: what interleaved  *)
(* answers do to it, they do only to users who do not wait.                *)
THEOREM TagsFit == ASSUME ~ Overlap PROVE TabSpec => [](TabTypeOK /\ TagFitsDocument)
<1>1. TabInv => TabTypeOK /\ TagFitsDocument
  BY DEF TabInv, TagFitsDocument, Fits
<1>2. ~ Overlap
  OBVIOUS
<1>3. QED
  BY <1>1, <1>2, TabInitInv, TabInvStep, PTL DEF TabSpec

LEMMA StepLosesItsOwn ==
    TabInv /\ [TabNext]_allVars =>
       [\/ doc.text \subseteq doc'.text
        \/ \E r \in promoted' \ promoted :
              doc.text \ doc'.text \subseteq tab[owner[r]].overwritten]_allVars
<1> SUFFICES ASSUME TabInv, TabNext
             PROVE  \/ doc.text \subseteq doc'.text
                    \/ \E r \in promoted' \ promoted :
                          doc.text \ doc'.text \subseteq tab[owner[r]].overwritten
  OBVIOUS
<1>1. ASSUME NEW r \in Request, Replace(r)
      PROVE  /\ r \in promoted' \ promoted
             /\ doc.text \ doc'.text \subseteq tab[owner[r]].overwritten
  <2>1. /\ req[r].kind = "PUT" /\ req[r].match = doc /\ doc' = req[r].body
        /\ promoted' = promoted \cup {r} /\ r \notin promoted
        /\ req[r].at = "prepared"
    BY <1>1 DEF Replace, TabInv, Safe, StageInv, Accepts
  <2>2. awaits[r] = "headers"
    BY <2>1 DEF TabInv, Flying
  <2>3. QED
    BY <2>1, <2>2 DEF TabInv, Grows
<1>2. ASSUME NEW r \in Request, Handle(r), ~ Replace(r) PROVE doc' = doc
  BY <1>2 DEF Handle, Get, GetFails, Reject, ReadFails, Conflict, NotAdvancing,
     Prepare, PrepareFails, ReplaceFails, Abort, Commit, CommitFails
<1>3. ASSUME NEW t \in Tab, TabStep(t) PROVE doc' = doc
  <2>1. ASSUME NEW r \in Request, NEW k, NEW again, Edit(t, r, k, again)
        PROVE  doc' = doc
    BY <2>1 DEF Edit, Send, vars
  <2>2. QED
    BY <1>3, <2>1 DEF TabStep, Draft, Select, Create, Connect, Apply, Duplicate,
       Delete, Send, vars
<1>4. ASSUME NEW r \in Request, FetchStep(r) PROVE doc' = doc
  BY <1>4 DEF FetchStep, Connected, Saved, SavedBody, Unsaved, Arrived, vars
<1>5. QED
  BY <1>1, <1>2, <1>3, <1>4 DEF TabNext, ServerStep, Crash

(* Where users wait for each answer, a save takes nothing away from the    *)
(* document it replaces but code that its own user put editor text over,   *)
(* filled in before the last Admin control: never an artifact, never what  *)
(* a user who selects again after Admin control was shown.                 *)
THEOREM SavesLoseTheirOwn == ASSUME ~ Overlap PROVE TabSpec => LossesAreOwn
<1>1. ~ Overlap
  OBVIOUS
<1>2. QED
  BY <1>1, TabInitInv, TabInvStep, StepLosesItsOwn, PTL
     DEF TabSpec, LossesAreOwn
=============================================================================
