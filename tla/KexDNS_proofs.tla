---------------------------- MODULE KexDNS_proofs ----------------------------
(***************************************************************************)
(* Proofs about KexDNS over the registrar, for any set of processes,       *)
(* handlers, questions, names and bounds.                                  *)
(*                                                                         *)
(* The argument for the serials: a query's zone is read once and its       *)
(* serial once, later; serials only grow, and none is sent before it is    *)
(* committed (DnsInv).  For the denials: tables only grow, every record is *)
(* in a zone that exists, and a zone other than the backbone's has a route *)
(* before its row (TablesInv).  So while a name is there by a record only, *)
(* no commit puts it in another zone, and of the types left to look up one *)
(* is that record's (DenialInv).                                           *)
(***************************************************************************)
EXTENDS KexDNS, Registrar_proofs

-----------------------------------------------------------------------------
(* Types and serials *)

(* A task that fits the database: no client had been given a serial when   *)
(* it came that is not committed, and the serial it has read lies between. *)
Good(k) ==
    /\ k \in Task
    /\ \A n \in Name : k.since[n] <= db.serial[n]
    /\ k.at \notin {"idle", "zone", "soa"} /\ k.zone # NoZone =>
          k.since[k.zone] <= k.serial /\ k.serial <= db.serial[k.zone]
    /\ k.at = "zone" => k.zone = NoZone
    /\ k.at \in {"soa", "lookup", "rows", "route", "recheck"} => k.zone # NoZone
    /\ k.at \in {"lookup", "rows"} => k.left # <<>>

DnsInv == /\ DnsTypeOK /\ SafeInv
          /\ \A h \in Handler : Good(task[h])
          /\ \A n \in Name : sent[n] <= db.serial[n]

LEMMA SerialsAreNaturals ==
    ASSUME SafeInv PROVE \A n \in Name : db.serial[n] \in Nat
<1>1. db.serial \in [Name -> 0..MaxSerial]
  BY DEF SafeInv, TypeOK, Database
<1>2. QED
  BY <1>1, DbAssumption

LEMMA IdleType == Idle \in Task /\ Idle.at = "idle" /\ Idle.zone = NoZone
<1>1. <<>> \in Seq(QType)
  BY EmptySeq
<1>2. Root \in Name /\ 0 \in 0..MaxSerial
  BY NameAssumption, DbAssumption
<1>3. "A" \in QType
  BY DEF QType, Type
<1>4. QED
  BY <1>1, <1>2, <1>3 DEF Idle, Task, Steps, Answer

LEMMA IdleGood == ASSUME DnsInv PROVE Good(Idle)
<1>1. \A n \in Name : Idle.since[n] = 0 /\ db.serial[n] \in Nat
  BY SerialsAreNaturals DEF Idle, DnsInv
<1>2. QED
  BY <1>1, IdleType DEF Good

LEMMA DnsInitInv == DnsInit => DnsInv
<1> SUFFICES ASSUME DnsInit PROVE DnsInv
  OBVIOUS
<1>1. SafeInv
  BY SafeInit DEF DnsInit
<1>2. \A h \in Handler : task[h] = Idle
  BY DEF DnsInit
<1>3. \A n \in Name : sent[n] = 0 /\ db.serial[n] \in Nat
  BY <1>1, SerialsAreNaturals DEF DnsInit
<1>4. DnsTypeOK
  BY <1>1, IdleType, DbAssumption, DnsAssumption DEF DnsInit, DnsTypeOK, SafeInv
<1>5. Good(Idle)
  <2>1. \A n \in Name : Idle.since[n] = 0
    BY DEF Idle
  <2>2. QED
    BY <1>3, <2>1, IdleType DEF Good
<1>6. QED
  BY <1>1, <1>2, <1>3, <1>4, <1>5 DEF DnsInv

(* A step of the server: the tables stay, and h's task becomes k. *)
LEMMA ServeInv ==
    ASSUME DnsInv, UNCHANGED vars, NEW h \in Handler, NEW k, Good(k),
           task' = [task EXCEPT ![h] = k],
           running' \in BOOLEAN, udpLoop' \in BOOLEAN, tcpLoop' \in BOOLEAN,
           received' \in 0..MaxQueries,
           sent' \in [Name -> 0..MaxSerial],
           \A n \in Name : sent'[n] <= db.serial[n]
    PROVE  DnsInv'
<1>1. SafeInv' /\ db' = db
  BY SafeStep DEF DnsInv, vars
<1>2. \A u \in Handler : Good(task'[u])
  BY DEF DnsInv, DnsTypeOK
<1>3. \A u \in Handler : Good(task[u])' /\ task'[u] \in Task
  BY <1>1, <1>2 DEF Good
<1>4. DnsTypeOK'
  BY <1>1, <1>3 DEF DnsTypeOK, DnsInv, SafeInv
<1>5. QED
  BY <1>1, <1>3, <1>4 DEF DnsInv

LEMMA ProceedInv ==
    ASSUME DnsInv, NEW h \in Handler, NEW k, Good(k), Proceed(h, k)
    PROVE  DnsInv'
BY ServeInv DEF Proceed, DnsInv, DnsTypeOK

LEMMA ReceiveInv == ASSUME DnsInv, NEW h \in Handler, Receive(h) PROVE DnsInv'
<1>1. PICK ask \in Question :
         task' = [task EXCEPT ![h] =
                    [Idle EXCEPT !.at = "zone", !.q = ask[1], !.t = ask[2],
                                 !.since = sent, !.absent = Absent(db, ask[1])]]
  BY DEF Receive
<1>2. ask[1] \in Name /\ ask[2] \in QType
  BY QuestionAssumption
<1>3. Absent(db, ask[1]) \in BOOLEAN
  BY DEF Absent
<1> DEFINE b == Absent(db, ask[1])
           k == [Idle EXCEPT !.at = "zone", !.q = ask[1], !.t = ask[2],
                             !.since = sent, !.absent = b]
<1>4. sent \in [Name -> 0..MaxSerial] /\ b \in BOOLEAN
  BY <1>3 DEF DnsInv, DnsTypeOK
<1>5. Good(k)
  <2> HIDE DEF b
  <2>1. k \in Task
    BY <1>2, <1>4, IdleType DEF Task, Steps
  <2>2. k.at = "zone" /\ k.zone = NoZone /\ k.since = sent
    BY IdleType DEF Task
  <2>3. QED
    BY <2>1, <2>2 DEF Good, DnsInv
<1>6. received' \in 0..MaxQueries
  BY DnsAssumption DEF Receive, DnsInv, DnsTypeOK
<1> HIDE DEF k, b
<1>7. task' = [task EXCEPT ![h] = k]
  BY <1>1 DEF k, b
<1>8. QED
  BY <1>5, <1>6, <1>7, ServeInv DEF Receive, DnsInv, DnsTypeOK

LEMMA ReadZoneInv ==
    ASSUME NamesAreSequences, DnsInv, NEW h \in Handler, ReadZone(h) PROVE DnsInv'
<1> DEFINE z == FindZone(db, task[h].q)
           k1 == [task[h] EXCEPT !.at = "reply", !.answer = "NXDOMAIN"]
           k2 == [task[h] EXCEPT !.at = "soa", !.zone = z]
<1>1. task[h] \in Task /\ Good(task[h]) /\ task[h].at = "zone"
  BY DEF DnsInv, DnsTypeOK, ReadZone
<1>2. task[h].q \in Name /\ task[h].zone = NoZone
  BY <1>1 DEF Task, Good
<1>3. z \in Name \cup {NoZone}
  BY <1>2, FindZoneType
<1>4. Proceed(h, IF z = NoZone THEN k1 ELSE k2)
  BY DEF ReadZone
<1>5. Good(k1)
  <2>1. k1 \in Task /\ k1.at = "reply" /\ k1.zone = NoZone /\ k1.since = task[h].since
    BY <1>1, <1>2 DEF Task, Steps, Answer
  <2>2. QED
    BY <1>1, <2>1 DEF Good
<1>6. z # NoZone => Good(k2)
  <2>1. k2 \in Task /\ k2.at = "soa" /\ k2.zone = z /\ k2.since = task[h].since
    BY <1>1, <1>3 DEF Task, Steps
  <2>2. QED
    BY <1>1, <2>1 DEF Good
<1> HIDE DEF z, k1, k2
<1>7. QED
  BY <1>4, <1>5, <1>6, ProceedInv

(* The steps behind get_zone leave what was asked, the zone and its serial *)
(* as they are.                                                            *)
Settled == {"soa", "lookup", "rows", "route", "recheck", "reply"}

SameZone(k, next) ==
    /\ next \in Task /\ next.at \in Settled /\ next.at # "soa"
    /\ next.q = k.q /\ next.t = k.t /\ next.zone = k.zone /\ next.serial = k.serial
    /\ next.since = k.since /\ next.absent = k.absent
    /\ next.at \in {"lookup", "rows"} => next.left # <<>>

LEMMA SameZoneGood ==
    ASSUME DnsInv, NEW h \in Handler, NEW next, SameZone(task[h], next),
           task[h].at \in {"lookup", "rows", "route", "recheck"}
    PROVE  Good(next)
<1>1. Good(task[h])
  BY DEF DnsInv
<1>2. QED
  BY <1>1 DEF Good, SameZone, Settled

LEMMA LookupAnyZone ==
    ASSUME NEW k \in Task
    PROVE  /\ SameZone(k, LookupAny(k))
           /\ LookupAny(k).at = "lookup" /\ LookupAny(k).any = TRUE
           /\ LookupAny(k).left = AnyTypes /\ LookupAny(k).found = k.found
<1>1. AnyTypes \in Seq(QType) /\ AnyTypes # <<>>
  BY DEF AnyTypes, QType, Type
<1> DEFINE types == AnyTypes
           next == [k EXCEPT !.at = "lookup", !.any = TRUE, !.left = types]
<1> HIDE DEF types
<1>2. next \in Task
  <2>1. types \in Seq(QType) /\ "lookup" \in Steps
    BY <1>1 DEF types, Steps
  <2>2. QED
    BY <2>1 DEF Task
<1>3. /\ next.at = "lookup" /\ next.any = TRUE /\ next.left = types
      /\ next.found = k.found /\ next.q = k.q /\ next.t = k.t /\ next.zone = k.zone
      /\ next.serial = k.serial /\ next.since = k.since /\ next.absent = k.absent
  BY DEF Task
<1>4. LookupAny(k) = next
  BY DEF LookupAny, types
<1> HIDE DEF next
<1>5. QED
  BY <1>1, <1>2, <1>3, <1>4 DEF SameZone, Settled, types

LEMMA ReadSoaInv ==
    ASSUME NamesAreSequences, DnsInv, NEW h \in Handler, ReadSoa(h) PROVE DnsInv'
<1> DEFINE k == [task[h] EXCEPT !.serial = GetZone(db, task[h].zone)]
           k1 == [k EXCEPT !.at = "reply", !.answer = "SOA"]
           k2 == [k EXCEPT !.at = "lookup", !.left = <<k.t>>]
<1>1. /\ task[h] \in Task /\ Good(task[h]) /\ task[h].at = "soa"
      /\ task[h].zone \in Name
  <2>1. task[h] \in Task /\ Good(task[h]) /\ task[h].at = "soa"
    BY DEF DnsInv, DnsTypeOK, ReadSoa
  <2>2. QED
    BY <2>1 DEF Task, Good
<1>2. db.serial[task[h].zone] \in 0..MaxSerial
  BY <1>1 DEF DnsInv, SafeInv, TypeOK, Database
<1>3. /\ k \in Task /\ k.serial = db.serial[task[h].zone] /\ k.zone = task[h].zone
      /\ k.since = task[h].since
  BY <1>1, <1>2 DEF Task, GetZone
<1> HIDE DEF k
<1>4. ASSUME NEW next, SameZone(k, next) PROVE Good(next)
  <2>1. k.since[k.zone] <= k.serial /\ k.serial <= db.serial[k.zone]
    BY <1>1, <1>2, <1>3, DbAssumption DEF Good
  <2>2. QED
    BY <1>1, <1>3, <1>4, <2>1 DEF Good, SameZone, Settled
<1>5. SameZone(k, k1) /\ SameZone(k, k2)
  <2>1. <<k.t>> \in Seq(QType)
    BY <1>3 DEF Task
  <2>2. /\ "reply" \in Steps /\ "lookup" \in Steps /\ "SOA" \in Answer
    BY DEF Steps, Answer
  <2>3. k1 \in Task
    BY <1>3, <2>2 DEF Task
  <2>4. k2 \in Task
    BY <1>3, <2>1, <2>2 DEF Task
  <2>5. SameZone(k, k1)
    BY <1>3, <2>3 DEF SameZone, Settled, Task
  <2>6. SameZone(k, k2)
    <3>1. <<k.t>> # <<>>
      OBVIOUS
    <3>2. QED
      BY <1>3, <2>4, <3>1 DEF SameZone, Settled, Task
  <2>7. QED
    BY <2>5, <2>6
<1>6. Good(k1) /\ Good(k2) /\ Good(LookupAny(k))
  BY <1>3, <1>4, <1>5, LookupAnyZone
<1>7. Proceed(h, CASE k.t = "SOA" /\ k.q = k.zone -> k1
                   [] k.t = "OTHER" -> LookupAny(k)
                   [] OTHER -> k2)
  BY DEF ReadSoa, k
<1> HIDE DEF k1, k2
<1>8. Proceed(h, k1) \/ Proceed(h, k2) \/ Proceed(h, LookupAny(k))
  BY <1>7, Zenon
<1>9. QED
  BY <1>6, <1>8, ProceedInv

LEMMA ReadRowType ==
    ASSUME NamesAreSequences, DnsInv, NEW h \in Handler, ReadRow(h)
    PROVE  \E next : /\ Proceed(h, next) /\ SameZone(task[h], next)
                     /\ next.at = "rows" /\ next.row = FindZone(db, task[h].q)
                     /\ next.any = task[h].any /\ next.left = task[h].left
                     /\ next.found = task[h].found
<1> DEFINE z == FindZone(db, task[h].q)
           next == [task[h] EXCEPT !.at = "rows", !.row = z]
<1>1. task[h] \in Task /\ task[h].left # <<>>
  BY DEF DnsInv, DnsTypeOK, ReadRow, Good
<1>2. z \in Name \cup {NoZone}
  <2>1. task[h].q \in Name
    BY <1>1 DEF Task
  <2>2. QED
    BY <2>1, FindZoneType
<1>3. /\ SameZone(task[h], next) /\ next.at = "rows" /\ next.row = z
      /\ next.any = task[h].any /\ next.left = task[h].left
      /\ next.found = task[h].found
  <2> HIDE DEF z
  <2> QED BY <1>1, <1>2 DEF SameZone, Settled, Task, Steps
<1>4. QED
  BY <1>3 DEF ReadRow

LEMMA ReadAnswersType ==
    ASSUME DnsInv, NEW h \in Handler, ReadAnswers(h)
    PROVE  \E next : /\ Proceed(h, next) /\ SameZone(task[h], next)
                     /\ \/ next.at = "reply" /\ next.answer = "dropped"
                        \/ next.at = "route"
                        \/ next = LookupAny(task[h])
<1> DEFINE k == task[h]
           k1 == [k EXCEPT !.at = "reply", !.answer = "dropped"]
           k2 == [k EXCEPT !.at = "route"]
<1>1. k \in Task
  BY DEF DnsInv, DnsTypeOK
<1>2. Proceed(h, k1) \/ Proceed(h, k2) \/ Proceed(h, LookupAny(k))
  <2>1. Proceed(h, CASE Rows(k) # {} -> k1
                     [] Rows(k) = {} /\ k.t = "A" -> k2
                     [] OTHER -> LookupAny(k))
    BY DEF ReadAnswers
  <2> HIDE DEF k, k1, k2
  <2>2. QED
    BY <2>1, Zenon
<1>3. /\ SameZone(k, k1) /\ k1.at = "reply" /\ k1.answer = "dropped"
      /\ SameZone(k, k2) /\ k2.at = "route"
  <2> HIDE DEF k
  <2> QED BY <1>1 DEF SameZone, Settled, Task, Steps, Answer
<1>4. SameZone(k, LookupAny(k))
  BY <1>1, LookupAnyZone
<1>5. QED
  BY <1>2, <1>3, <1>4

LEMMA ReadRouteType ==
    ASSUME DnsInv, NEW h \in Handler, ReadRoute(h)
    PROVE  \E next : /\ Proceed(h, next) /\ SameZone(task[h], next)
                     /\ \/ next.at = "reply" /\ next.answer # "NXDOMAIN"
                        \/ next = LookupAny(task[h])
<1> DEFINE k == task[h]
           ip == ResolveDomain(db, k.q)
           k1 == [k EXCEPT !.at = "reply", !.answer = "ROUTE"]
           k2 == [k EXCEPT !.at = "reply", !.answer = "unsendable"]
<1>1. k \in Task
  BY DEF DnsInv, DnsTypeOK
<1>2. Proceed(h, k1) \/ Proceed(h, k2) \/ Proceed(h, LookupAny(k))
  <2>1. Proceed(h, CASE ip = NoAddr -> LookupAny(k)
                     [] ip \in Malformed -> k2
                     [] OTHER -> k1)
    BY DEF ReadRoute
  <2>2. ip \in Malformed => ip # NoAddr
    BY DnsAssumption, DbAssumption
  <2> HIDE DEF k, ip, k1, k2
  <2>3. QED
    BY <2>1, <2>2, Zenon
<1>3. /\ SameZone(k, k1) /\ k1.at = "reply" /\ k1.answer = "ROUTE"
      /\ SameZone(k, k2) /\ k2.at = "reply" /\ k2.answer = "unsendable"
  <2> HIDE DEF k
  <2> QED BY <1>1 DEF SameZone, Settled, Task, Steps, Answer
<1>4. SameZone(k, LookupAny(k))
  BY <1>1, LookupAnyZone
<1>5. QED
  BY <1>2, <1>3, <1>4

(* What one more type found or not means for the loop over all types *)
LEMMA ReadAnyType ==
    ASSUME DnsInv, NEW h \in Handler, ReadAny(h)
    PROVE  \E next :
              /\ Proceed(h, next) /\ SameZone(task[h], next)
              /\ \/ /\ next.at = "lookup" /\ next.any = TRUE
                    /\ next.left = Tail(task[h].left)
                    /\ next.found = FALSE => /\ task[h].found = FALSE
                                             /\ Rows(task[h]) = {}
                 \/ /\ next.at = "recheck" /\ Tail(task[h].left) = <<>>
                    /\ task[h].found = FALSE /\ Rows(task[h]) = {}
                    /\ task[h].q # task[h].zone
                 \/ next.at = "reply" /\ next.answer = "NODATA"
<1> DEFINE found == task[h].found \/ Rows(task[h]) # {}
           rest == Tail(task[h].left)
           k == [task[h] EXCEPT !.found = found, !.left = rest]
           k1 == [k EXCEPT !.at = "lookup"]
           k2 == [k EXCEPT !.at = "recheck"]
           k3 == [k EXCEPT !.at = "reply", !.answer = "NODATA"]
<1>1. task[h] \in Task /\ task[h].left # <<>> /\ task[h].any = TRUE
  BY DEF DnsInv, DnsTypeOK, Good, ReadAny, Task
<1>2. rest \in Seq(QType)
  BY <1>1, HeadTailProperties DEF Task
<1>3. found \in BOOLEAN
  BY <1>1 DEF Task
<1>4. Proceed(h, CASE k.left # <<>> -> k1
                   [] k.left = <<>> /\ ~ k.found /\ k.q # k.zone -> k2
                   [] OTHER -> k3)
  BY DEF ReadAny
<1>5. found = FALSE => task[h].found = FALSE /\ Rows(task[h]) = {}
  BY <1>1 DEF Task
<1> HIDE DEF found, rest
<1>6. /\ k \in Task /\ k.found = found /\ k.left = rest /\ k.any = TRUE
      /\ k.q = task[h].q /\ k.t = task[h].t /\ k.zone = task[h].zone
      /\ k.serial = task[h].serial /\ k.since = task[h].since
      /\ k.absent = task[h].absent
  BY <1>1, <1>2, <1>3 DEF Task
<1> HIDE DEF k
<1>7. /\ rest # <<>> => SameZone(task[h], k1)
      /\ k1.at = "lookup" /\ k1.any = TRUE /\ k1.left = rest /\ k1.found = found
  BY <1>6 DEF SameZone, Settled, Task, Steps
<1>8. SameZone(task[h], k2) /\ k2.at = "recheck"
  BY <1>6 DEF SameZone, Settled, Task, Steps
<1>9. SameZone(task[h], k3) /\ k3.at = "reply" /\ k3.answer = "NODATA"
  BY <1>6 DEF SameZone, Settled, Task, Steps, Answer
<1> HIDE DEF k1, k2, k3
<1>10. CASE k.left # <<>>
  <2>1. Proceed(h, k1)
    BY <1>4, <1>10, Zenon
  <2>2. QED
    BY <1>5, <1>6, <1>7, <1>10, <2>1 DEF rest
<1>11. CASE k.left = <<>> /\ ~ k.found /\ k.q # k.zone
  <2>1. Proceed(h, k2)
    BY <1>4, <1>11, Zenon
  <2>2. found = FALSE
    BY <1>3, <1>6, <1>11
  <2>3. QED
    BY <1>5, <1>6, <1>8, <1>11, <2>1, <2>2 DEF rest
<1>12. CASE k.left = <<>> /\ (k.found \/ k.q = k.zone)
  <2>1. Proceed(h, k3)
    BY <1>4, <1>12, Zenon
  <2>2. QED
    BY <1>9, <2>1
<1>13. QED
  BY <1>10, <1>11, <1>12

LEMMA RecheckRouteType ==
    ASSUME DnsInv, NEW h \in Handler, RecheckRoute(h)
    PROVE  \E next : /\ Proceed(h, next) /\ SameZone(task[h], next)
                     /\ next.at = "reply"
                     /\ \/ next.answer = "NXDOMAIN" /\ db.route[task[h].q] = NoAddr
                        \/ next.answer = "NODATA"
<1> DEFINE k == task[h]
           k1 == [k EXCEPT !.at = "reply", !.answer = "NXDOMAIN"]
           k2 == [k EXCEPT !.at = "reply", !.answer = "NODATA"]
<1>1. k \in Task
  BY DEF DnsInv, DnsTypeOK
<1>2. (Proceed(h, k1) /\ db.route[k.q] = NoAddr) \/ Proceed(h, k2)
  BY DEF RecheckRoute, ResolveDomain
<1>3. /\ SameZone(k, k1) /\ k1.at = "reply" /\ k1.answer = "NXDOMAIN"
      /\ SameZone(k, k2) /\ k2.at = "reply" /\ k2.answer = "NODATA"
  <2> HIDE DEF k
  <2> QED BY <1>1 DEF SameZone, Settled, Task, Steps, Answer
<1>4. QED
  BY <1>2, <1>3

LEMMA LaterReadInv ==
    ASSUME NamesAreSequences, DnsInv, NEW h \in Handler,
           \/ ReadRow(h) \/ ReadAnswers(h) \/ ReadRoute(h)
           \/ ReadAny(h) \/ RecheckRoute(h)
    PROVE  DnsInv'
<1>1. task[h].at \in {"lookup", "rows", "route", "recheck"}
  BY DEF ReadRow, ReadAnswers, ReadRoute, ReadAny, RecheckRoute
<1>2. \E next : Proceed(h, next) /\ SameZone(task[h], next)
  BY ReadRowType, ReadAnswersType, ReadRouteType, ReadAnyType, RecheckRouteType
<1>3. QED
  BY <1>1, <1>2, SameZoneGood, ProceedInv

(* A step that ends h's query *)
LEMMA FinishInv ==
    ASSUME DnsInv, UNCHANGED vars, NEW h \in Handler, Finish(h),
           running' \in BOOLEAN, udpLoop' \in BOOLEAN, tcpLoop' \in BOOLEAN,
           received' = received, sent' \in [Name -> 0..MaxSerial],
           \A n \in Name : sent'[n] <= db.serial[n]
    PROVE  DnsInv'
BY IdleGood, ServeInv DEF Finish, DnsInv, DnsTypeOK

LEMMA ReplyInv == ASSUME DnsInv, NEW h \in Handler, Reply(h) PROVE DnsInv'
<1> DEFINE k == task[h]
<1>1. k \in Task /\ Good(k) /\ k.at = "reply"
  BY DEF DnsInv, DnsTypeOK, Reply
<1>2. k.serial \in 0..MaxSerial /\ k.zone \in Name \cup {NoZone}
  BY <1>1 DEF Task
<1>3. k.zone # NoZone => k.serial <= db.serial[k.zone]
  BY <1>1 DEF Good
<1>4. \/ sent' = sent
      \/ /\ k.zone # NoZone /\ k.zone \in Name
         /\ sent' = [sent EXCEPT ![k.zone] = k.serial]
  BY <1>2 DEF Reply, CarriesSoa
<1> HIDE DEF k
<1>5. /\ sent' \in [Name -> 0..MaxSerial]
      /\ \A n \in Name : sent'[n] <= db.serial[n]
  BY <1>2, <1>3, <1>4 DEF DnsInv, DnsTypeOK
<1>6. QED
  BY <1>5, FinishInv DEF Reply, DnsInv, DnsTypeOK

LEMMA OtherServeInv ==
    ASSUME DnsInv,
           \/ \E h \in Handler : Drop(h) \/ ReadFails(h) \/ SendFails(h)
           \/ AcceptFails \/ Stop \/ UdpExits \/ TcpExits
    PROVE  DnsInv'
<1>1. ASSUME NEW h \in Handler, Drop(h) PROVE DnsInv'
  BY <1>1, FinishInv DEF Drop, DnsInv, DnsTypeOK
<1>2. ASSUME NEW h \in Handler, ReadFails(h) \/ SendFails(h) PROVE DnsInv'
  <2>1. udpLoop' \in BOOLEAN
    <3>1. udpLoop \in BOOLEAN /\ (udpLoop /\ h # Udp) \in BOOLEAN
      BY DEF DnsInv, DnsTypeOK
    <3>2. udpLoop' = udpLoop \/ udpLoop' = (udpLoop /\ h # Udp)
      BY <1>2 DEF ReadFails, SendFails
    <3>3. QED
      BY <3>1, <3>2
  <2>2. QED
    BY <1>2, <2>1, FinishInv DEF ReadFails, SendFails, DnsInv, DnsTypeOK
<1>3. ASSUME UNCHANGED <<vars, task, sent, received>>,
             running' \in BOOLEAN, udpLoop' \in BOOLEAN, tcpLoop' \in BOOLEAN
      PROVE  DnsInv'
  <2>1. SafeInv' /\ db' = db
    BY <1>3, SafeStep DEF DnsInv, vars
  <2>2. \A u \in Handler : Good(task[u])'
    BY <1>3, <2>1 DEF DnsInv, Good
  <2>3. DnsTypeOK'
    BY <1>3, <2>1 DEF DnsInv, DnsTypeOK, SafeInv
  <2>4. QED
    BY <1>3, <2>1, <2>2, <2>3 DEF DnsInv
<1>4. CASE AcceptFails \/ Stop \/ UdpExits \/ TcpExits
  BY <1>3, <1>4 DEF AcceptFails, Stop, UdpExits, TcpExits, DnsInv, DnsTypeOK
<1>5. QED
  BY <1>1, <1>2, <1>4

(* What a commit of another process does to a query *)
Marked(k, d) == [k EXCEPT !.absent = @ \/ (k.at # "idle" /\ Absent(d, k.q))]

LEMMA MarkedType ==
    ASSUME NEW k \in Task, NEW d
    PROVE  /\ Marked(k, d) \in Task
           /\ Marked(k, d).at = k.at /\ Marked(k, d).q = k.q
           /\ Marked(k, d).zone = k.zone /\ Marked(k, d).serial = k.serial
           /\ Marked(k, d).any = k.any /\ Marked(k, d).left = k.left
           /\ Marked(k, d).row = k.row /\ Marked(k, d).found = k.found
           /\ Marked(k, d).answer = k.answer /\ Marked(k, d).since = k.since
           /\ k.absent = TRUE => Marked(k, d).absent = TRUE
           /\ (k.at # "idle" /\ Absent(d, k.q)) => Marked(k, d).absent = TRUE
<1> DEFINE b == k.absent \/ (k.at # "idle" /\ Absent(d, k.q))
           m == [k EXCEPT !.absent = b]
<1>1. Marked(k, d) = m
  BY DEF Marked
<1>2. b \in BOOLEAN
  BY DEF Task
<1>3. (k.absent = TRUE => b = TRUE) /\ ((k.at # "idle" /\ Absent(d, k.q)) => b = TRUE)
  OBVIOUS
<1> HIDE DEF b
<1>4. m \in Task /\ m.absent = b
  BY <1>2 DEF Task
<1>5. /\ m.at = k.at /\ m.q = k.q /\ m.zone = k.zone /\ m.serial = k.serial
      /\ m.any = k.any /\ m.left = k.left /\ m.row = k.row /\ m.found = k.found
      /\ m.answer = k.answer /\ m.since = k.since
  BY DEF Task
<1> HIDE DEF m
<1>6. QED
  BY <1>1, <1>3, <1>4, <1>5

LEMMA RegistersInv == ASSUME DnsInv, Registers PROVE DnsInv'
<1>1. SafeInv'
  BY SafeStep DEF DnsInv, Registers
<1>2. \A n \in Name : db.serial[n] \in Nat /\ db'.serial[n] \in Nat
  <2>1. db.serial \in [Name -> 0..MaxSerial] /\ db'.serial \in [Name -> 0..MaxSerial]
    BY <1>1 DEF DnsInv, SafeInv, TypeOK, Database
  <2>2. QED
    BY <2>1, DbAssumption
<1>3. \A n \in Name : db'.serial[n] >= db.serial[n]
  <2>1. [\A n \in Name : db'.serial[n] >= db.serial[n]]_vars
    BY StepKeepsSerials DEF DnsInv, Registers
  <2>2. CASE vars' = vars
    BY <1>2, <2>2 DEF vars
  <2>3. QED
    BY <2>1, <2>2
<1>4. ASSUME NEW h \in Handler PROVE task'[h] = Marked(task[h], db')
  BY DEF Registers, Marked
<1>5. ASSUME NEW h \in Handler PROVE Good(task[h])'
  <2> DEFINE k == task[h]
             m == Marked(task[h], db')
  <2>1. k \in Task /\ Good(k)
    BY DEF DnsInv, DnsTypeOK
  <2>2. /\ m \in Task /\ m.at = k.at /\ m.zone = k.zone /\ m.serial = k.serial
        /\ m.left = k.left /\ m.since = k.since
    BY <2>1, MarkedType
  <2>3. task'[h] = m
    BY <1>4
  <2>4. k.since \in [Name -> 0..MaxSerial] /\ k.serial \in 0..MaxSerial
        /\ k.zone \in Name \cup {NoZone}
    BY <2>1 DEF Task
  <2> HIDE DEF k, m
  <2>5. \A n \in Name : k.since[n] \in Nat
    BY <2>4, DbAssumption
  <2>6. \A n \in Name : k.since[n] <= db'.serial[n]
    BY <1>2, <1>3, <2>1, <2>5 DEF Good
  <2>7. k.at \notin {"idle", "zone", "soa"} /\ k.zone # NoZone =>
          k.since[k.zone] <= k.serial /\ k.serial <= db'.serial[k.zone]
    BY <1>2, <1>3, <2>1, <2>4, DbAssumption DEF Good
  <2>8. QED
    BY <2>1, <2>2, <2>3, <2>6, <2>7 DEF Good
<1>6. ASSUME NEW n \in Name PROVE sent'[n] <= db'.serial[n]
  <2>1. sent[n] \in 0..MaxSerial /\ sent[n] <= db.serial[n] /\ sent' = sent
    BY DEF DnsInv, DnsTypeOK, Registers
  <2>2. QED
    BY <1>2, <1>3, <2>1, DbAssumption
<1>7. DnsTypeOK'
  <2>1. \A h \in Handler : task'[h] \in Task
    BY <1>5 DEF Good
  <2>2. task' \in [Handler -> Task]
    BY <2>1 DEF Registers
  <2>3. QED
    BY <1>1, <2>2 DEF DnsInv, DnsTypeOK, SafeInv, Registers
<1>8. QED
  BY <1>1, <1>5, <1>6, <1>7 DEF DnsInv

LEMMA DnsInvStep ==
    ASSUME NamesAreSequences PROVE DnsInv /\ [DnsNext]_allVars => DnsInv'
<1> SUFFICES ASSUME DnsInv, [DnsNext]_allVars PROVE DnsInv'
  OBVIOUS
<1>1. ASSUME NEW h \in Handler, Handle(h) PROVE DnsInv'
  BY <1>1, ReadZoneInv, ReadSoaInv, LaterReadInv, ReplyInv, OtherServeInv DEF Handle
<1>2. CASE Serve
  BY <1>1, <1>2, ReceiveInv, OtherServeInv DEF Serve
<1>3. CASE UNCHANGED allVars
  <2>1. SafeInv' /\ UNCHANGED <<db, task, sent, running, udpLoop, tcpLoop, received>>
    BY <1>3, SafeStep DEF DnsInv, allVars, dnsVars, vars
  <2>2. \A u \in Handler : Good(task[u])'
    BY <2>1 DEF DnsInv, Good
  <2>3. DnsTypeOK'
    BY <2>1 DEF DnsInv, DnsTypeOK, SafeInv
  <2>4. QED
    BY <2>1, <2>2, <2>3 DEF DnsInv
<1>4. QED
  BY <1>2, <1>3, RegistersInv DEF DnsNext

(* Every query is at a step its fields fit, and nothing the server sent or *)
(* noted outruns what is committed.                                        *)
THEOREM DnsTypes == ASSUME NamesAreSequences PROVE DnsSpec => []DnsTypeOK
<1>1. DnsInv => DnsTypeOK
  BY DEF DnsInv
<1>2. QED
  BY <1>1, DnsInitInv, DnsInvStep, PTL DEF DnsSpec

(* No reply carries a zone at an older version than one that was given out *)
(* before its query came, whichever threads answered and whatever was      *)
(* registered in between.                                                  *)
THEOREM SerialsOnlyForward ==
    ASSUME NamesAreSequences PROVE DnsSpec => []SerialsMoveForward
<1>1. ASSUME DnsInv, NEW h \in Handler, task[h].at = "reply", CarriesSoa(task[h])
      PROVE  task[h].serial >= task[h].since[task[h].zone]
  <2>1. Good(task[h]) /\ task[h] \in Task /\ task[h].zone # NoZone
    BY <1>1 DEF DnsInv, DnsTypeOK, CarriesSoa
  <2>2. task[h].since[task[h].zone] <= task[h].serial
    BY <1>1, <2>1 DEF Good
  <2>3. task[h].since[task[h].zone] \in Nat /\ task[h].serial \in Nat
    BY <2>1, DbAssumption DEF Task
  <2>4. QED
    BY <2>2, <2>3
<1>2. DnsInv => SerialsMoveForward
  BY <1>1 DEF SerialsMoveForward
<1>3. QED
  BY <1>2, DnsInitInv, DnsInvStep, PTL DEF DnsSpec

-----------------------------------------------------------------------------
(* A query ends *)

(* How many steps of its own a query may still take: no more when no query *)
(* is handled, and most when its zone is still to be found.  A type left   *)
(* of AnyTypes takes two, its zone and its rows.                           *)
ToDo(k) ==
    CASE k.at = "idle" -> 0
      [] k.at = "reply" -> 1
      [] k.at = "recheck" -> 2
      [] k.at = "rows" /\ k.any = TRUE -> 2 * Len(k.left) + 1
      [] k.at = "lookup" /\ k.any = TRUE -> 2 * Len(k.left) + 2
      [] k.at = "route" -> 7
      [] k.at = "rows" /\ k.any = FALSE -> 8
      [] k.at = "lookup" /\ k.any = FALSE -> 9
      [] k.at = "soa" -> 10
      [] k.at = "zone" -> 11

LEMMA ToDoValues ==
    ASSUME NEW k \in Task
    PROVE  /\ ToDo(k) \in Nat
           /\ k.at = "idle" => ToDo(k) = 0
           /\ k.at = "reply" => ToDo(k) = 1
           /\ k.at = "recheck" => ToDo(k) = 2
           /\ k.at = "rows" /\ k.any = TRUE => ToDo(k) = 2 * Len(k.left) + 1
           /\ k.at = "lookup" /\ k.any = TRUE => ToDo(k) = 2 * Len(k.left) + 2
           /\ k.at = "route" => ToDo(k) = 7
           /\ k.at = "rows" /\ k.any = FALSE => ToDo(k) = 8
           /\ k.at = "lookup" /\ k.any = FALSE => ToDo(k) = 9
           /\ k.at = "soa" => ToDo(k) = 10
           /\ k.at = "zone" => ToDo(k) = 11
<1>1. k.at \in Steps /\ k.any \in BOOLEAN /\ Len(k.left) \in Nat
  BY LenProperties DEF Task
<1>2. QED
  BY <1>1 DEF ToDo, Steps

LEMMA ToDoZero == ASSUME NEW k \in Task PROVE ToDo(k) = 0 <=> k.at = "idle"
<1>1. k.at \in Steps /\ k.any \in BOOLEAN /\ Len(k.left) \in Nat
  BY LenProperties DEF Task
<1>2. ASSUME k.at # "idle" PROVE ToDo(k) # 0
  BY <1>1, <1>2 DEF ToDo, Steps
<1>3. QED
  BY <1>2, ToDoValues

LEMMA LookupAnyToDo ==
    ASSUME NEW k \in Task, LookupAny(k) \in Task PROVE ToDo(LookupAny(k)) = 6
<1>1. /\ LookupAny(k).at = "lookup" /\ LookupAny(k).any = TRUE
      /\ LookupAny(k).left = AnyTypes
  BY DEF LookupAny, Task
<1>2. Len(AnyTypes) = 2
  BY DEF AnyTypes
<1>3. ToDo(LookupAny(k)) = 2 * Len(LookupAny(k).left) + 2
  BY <1>1, ToDoValues
<1>4. Len(LookupAny(k).left) = 2
  BY <1>1, <1>2
<1>5. QED
  BY <1>3, <1>4

(* The reads before the loop over the types *)
LEMMA FirstReadsToDo ==
    ASSUME NamesAreSequences, DnsInv, NEW h \in Handler, ReadZone(h) \/ ReadSoa(h)
    PROVE  ToDo(task'[h]) < ToDo(task[h])
<1> DEFINE k == task[h]
<1>1. DnsInv'
  BY ReadZoneInv, ReadSoaInv
<1>2. k \in Task /\ task'[h] \in Task
  BY <1>1 DEF DnsInv, DnsTypeOK
<1>3. CASE ReadZone(h)
  <2>1. ToDo(k) = 11
    BY <1>2, <1>3, ToDoValues DEF ReadZone
  <2>2. task'[h].at \in {"reply", "soa"}
    BY <1>2, <1>3 DEF ReadZone, Proceed, DnsInv, DnsTypeOK, Task
  <2>3. ToDo(task'[h]) = 1 \/ ToDo(task'[h]) = 10
    BY <1>2, <2>2, ToDoValues
  <2>4. QED
    BY <2>1, <2>3
<1>4. CASE ReadSoa(h)
  <2> DEFINE m == [k EXCEPT !.serial = GetZone(db, k.zone)]
             k1 == [m EXCEPT !.at = "reply", !.answer = "SOA"]
             k2 == [m EXCEPT !.at = "lookup", !.left = <<m.t>>]
  <2>1. ToDo(k) = 10
    BY <1>2, <1>4, ToDoValues DEF ReadSoa
  <2>2. task' = [task EXCEPT ![h] =
                   CASE m.t = "SOA" /\ m.q = m.zone -> k1
                     [] m.t = "OTHER" -> LookupAny(m)
                     [] OTHER -> k2]
    BY <1>4 DEF ReadSoa, Proceed
  <2>3. k1.at = "reply" /\ k2.at = "lookup" /\ Len(k2.left) = 1
    BY <1>2 DEF Task
  <2>4. LookupAny(m).at = "lookup" /\ LookupAny(m).left = AnyTypes
    BY <1>2 DEF LookupAny, Task
  <2>5. h \in DOMAIN task
    BY DEF DnsInv, DnsTypeOK
  <2> HIDE DEF m, k1, k2
  <2>6. task'[h] = k1 \/ task'[h] = k2 \/ task'[h] = LookupAny(m)
    BY <2>2, <2>5, Zenon
  <2>7. Len(AnyTypes) = 2
    BY DEF AnyTypes
  <2>8. task'[h].any \in BOOLEAN
    BY <1>2 DEF Task
  <2>9. \/ task'[h].at = "reply"
        \/ task'[h].at = "lookup" /\ Len(task'[h].left) \in {1, 2}
    <3>1. CASE task'[h] = k1
      BY <2>3, <3>1
    <3>2. CASE task'[h] = k2
      BY <2>3, <3>2
    <3>3. CASE task'[h] = LookupAny(m)
      BY <2>4, <2>7, <3>3
    <3>4. QED
      BY <2>6, <3>1, <3>2, <3>3
  <2>10. ToDo(task'[h]) \in {1, 4, 6, 9}
    <3>1. CASE task'[h].at = "reply"
      BY <1>2, <3>1, ToDoValues
    <3>2. CASE task'[h].at = "lookup" /\ task'[h].any = FALSE
      BY <1>2, <3>2, ToDoValues
    <3>3. CASE task'[h].at = "lookup" /\ task'[h].any = TRUE
      <4> DEFINE n == Len(task'[h].left)
      <4>1. ToDo(task'[h]) = 2 * n + 2
        BY <1>2, <3>3, ToDoValues
      <4>2. n = 1 \/ n = 2
        BY <2>9, <3>3
      <4> HIDE DEF n
      <4>3. QED
        BY <4>1, <4>2
    <3>4. QED
      BY <2>8, <2>9, <3>1, <3>2, <3>3
  <2>11. QED
    BY <2>1, <2>10
<1>5. QED
  BY <1>3, <1>4

(* The reads of records and routes *)
LEMMA LaterReadsToDo ==
    ASSUME NamesAreSequences, DnsInv, NEW h \in Handler,
           \/ ReadRow(h) \/ ReadAnswers(h) \/ ReadRoute(h)
           \/ ReadAny(h) \/ RecheckRoute(h)
    PROVE  ToDo(task'[h]) < ToDo(task[h])
<1> DEFINE k == task[h]
<1>1. k \in Task /\ Good(k)
  BY DEF DnsInv, DnsTypeOK
<1>2. ASSUME NEW next, Proceed(h, next) PROVE task'[h] = next
  BY <1>2 DEF Proceed, DnsInv, DnsTypeOK
<1>3. ASSUME NEW next, SameZone(k, next) PROVE next \in Task
  BY <1>3 DEF SameZone
<1>4. CASE ReadRow(h)
  <2>1. PICK next : /\ Proceed(h, next) /\ SameZone(k, next) /\ next.at = "rows"
                    /\ next.any = k.any /\ next.left = k.left
    BY <1>4, ReadRowType
  <2>2. k.at = "lookup" /\ k.any \in BOOLEAN /\ Len(k.left) \in Nat
    BY <1>1, <1>4, LenProperties DEF ReadRow, Task
  <2>3. CASE k.any = FALSE
    <3>1. ToDo(k) = 9 /\ ToDo(next) = 8
      BY <1>1, <1>3, <2>1, <2>2, <2>3, ToDoValues
    <3>2. QED
      BY <1>2, <2>1, <3>1
  <2>4. CASE k.any = TRUE
    <3>1. /\ ToDo(k) = 2 * Len(k.left) + 2
          /\ ToDo(next) = 2 * Len(k.left) + 1
      BY <1>1, <1>3, <2>1, <2>2, <2>4, ToDoValues
    <3>2. QED
      BY <1>2, <2>1, <2>2, <3>1
  <2>5. QED
    BY <2>2, <2>3, <2>4
<1>5. CASE ReadAnswers(h)
  <2>1. PICK next : /\ Proceed(h, next) /\ SameZone(k, next)
                    /\ \/ next.at = "reply"
                       \/ next.at = "route"
                       \/ next = LookupAny(k)
    BY <1>5, ReadAnswersType
  <2>2. k.at = "rows" /\ k.any = FALSE
    BY <1>1, <1>5 DEF ReadAnswers, Task
  <2>3. ToDo(k) = 8
    BY <1>1, <2>2, ToDoValues
  <2>4. ToDo(next) \in {1, 6, 7}
    BY <1>1, <1>3, <2>1, ToDoValues, LookupAnyToDo
  <2>5. QED
    BY <1>2, <2>1, <2>3, <2>4
<1>6. CASE ReadRoute(h)
  <2>1. PICK next : /\ Proceed(h, next) /\ SameZone(k, next)
                    /\ \/ next.at = "reply"
                       \/ next = LookupAny(k)
    BY <1>6, ReadRouteType
  <2>2. ToDo(k) = 7
    BY <1>1, <1>6, ToDoValues DEF ReadRoute
  <2>3. ToDo(next) \in {1, 6}
    BY <1>1, <1>3, <2>1, ToDoValues, LookupAnyToDo
  <2>4. QED
    BY <1>2, <2>1, <2>2, <2>3
<1>7. CASE ReadAny(h)
  <2>1. PICK next : /\ Proceed(h, next) /\ SameZone(k, next)
                    /\ \/ /\ next.at = "lookup" /\ next.any = TRUE
                          /\ next.left = Tail(k.left)
                       \/ next.at = "recheck"
                       \/ next.at = "reply"
    BY <1>7, ReadAnyType
  <2>2. k.at = "rows" /\ k.any = TRUE /\ k.left # <<>> /\ k.left \in Seq(QType)
    BY <1>1, <1>7 DEF ReadAny, Task, Good
  <2>3. Len(k.left) \in Nat /\ Len(k.left) >= 1 /\ Len(Tail(k.left)) = Len(k.left) - 1
    BY <2>2, LenProperties, EmptySeq, HeadTailProperties
  <2>4. ToDo(k) = 2 * Len(k.left) + 1
    BY <1>1, <2>2, ToDoValues
  <2>5. \/ ToDo(next) = 1 \/ ToDo(next) = 2
        \/ ToDo(next) = 2 * (Len(k.left) - 1) + 2
    <3>1. CASE next.at \in {"recheck", "reply"}
      BY <1>3, <2>1, <3>1, ToDoValues
    <3>2. CASE /\ next.at = "lookup" /\ next.any = TRUE
               /\ next.left = Tail(k.left)
      <4>1. ToDo(next) = 2 * Len(next.left) + 2
        BY <1>3, <2>1, <3>2, ToDoValues
      <4>2. Len(next.left) = Len(k.left) - 1
        BY <2>3, <3>2
      <4>3. QED
        BY <4>1, <4>2
    <3>3. QED
      BY <2>1, <3>1, <3>2
  <2>6. ToDo(next) < ToDo(k)
    BY <2>3, <2>4, <2>5
  <2>7. QED
    BY <1>2, <2>1, <2>6
<1>8. CASE RecheckRoute(h)
  <2>1. PICK next : Proceed(h, next) /\ SameZone(k, next) /\ next.at = "reply"
    BY <1>8, RecheckRouteType
  <2>2. k.at = "recheck"
    BY <1>8 DEF RecheckRoute
  <2>3. ToDo(k) = 2 /\ ToDo(next) = 1
    BY <1>1, <1>3, <2>1, <2>2, ToDoValues
  <2>4. QED
    BY <1>2, <2>1, <2>3
<1>9. QED
  BY <1>4, <1>5, <1>6, <1>7, <1>8

(* A step of its handler takes a query nearer to its end, whatever the     *)
(* database holds by then, and no step of another process takes it back.   *)
Nearer ==
    \A h \in Handler :
       /\ ToDo(task[h]) \in Nat
       /\ ToDo(task[h]) = 0 <=> task[h].at = "idle"
       /\ Handle(h) => ToDo(task'[h]) < ToDo(task[h])
       /\ ToDo(task'[h]) > ToDo(task[h]) => Receive(h) /\ ToDo(task'[h]) = 11

LEMMA HandleToDo ==
    ASSUME NamesAreSequences, DnsInv, NEW h \in Handler, Handle(h)
    PROVE  ToDo(task'[h]) < ToDo(task[h])
<1>1. task[h] \in Task
  BY DEF DnsInv, DnsTypeOK
<1>2. CASE Reply(h) \/ Drop(h) \/ ReadFails(h) \/ SendFails(h)
  <2>1. task[h].at # "idle" /\ task'[h] = Idle
    BY <1>2 DEF Reply, Drop, ReadFails, SendFails, Finish, DnsInv, DnsTypeOK
  <2>2. ToDo(task[h]) \in Nat /\ ToDo(task[h]) # 0 /\ ToDo(Idle) = 0
    BY <1>1, <2>1, IdleType, ToDoValues, ToDoZero
  <2>3. QED
    BY <2>1, <2>2
<1>3. QED
  BY <1>2, FirstReadsToDo, LaterReadsToDo DEF Handle

LEMMA ReceiveToDo ==
    ASSUME DnsInv, DnsInv', NEW h \in Handler, Receive(h)
    PROVE  ToDo(task'[h]) = 11
<1>1. task'[h] \in Task
  BY DEF DnsInv, DnsTypeOK
<1>2. task'[h].at = "zone"
  BY DEF Receive, Idle, DnsInv, DnsTypeOK
<1>3. QED
  BY <1>1, <1>2, ToDoValues

LEMMA RegistersToDo ==
    ASSUME DnsInv, DnsInv', Registers, NEW h \in Handler
    PROVE  ToDo(task'[h]) = ToDo(task[h])
<1>1. task[h] \in Task /\ task'[h] \in Task /\ task'[h] = Marked(task[h], db')
  BY DEF DnsInv, DnsTypeOK, Registers, Marked
<1>2. /\ task'[h].at = task[h].at /\ task'[h].any = task[h].any
      /\ task'[h].left = task[h].left
  <2> DEFINE k == task[h]
             m == Marked(task[h], db')
  <2>1. m.at = k.at /\ m.any = k.any /\ m.left = k.left
    BY <1>1, MarkedType
  <2> HIDE DEF m
  <2>2. QED
    BY <1>1, <2>1 DEF m
<1>3. task[h].at \in Steps /\ task[h].any \in BOOLEAN
  BY <1>1 DEF Task
<1>4. CASE task[h].at \in {"rows", "lookup"} /\ task[h].any = TRUE
  <2> DEFINE n == Len(task[h].left)
             b == IF task[h].at = "rows" THEN 1 ELSE 2
  <2>1. ToDo(task[h]) = 2 * n + b
    BY <1>1, <1>4, ToDoValues
  <2>2. ToDo(task'[h]) = 2 * n + b
    BY <1>1, <1>2, <1>4, ToDoValues
  <2>3. QED
    BY <2>1, <2>2
<1>5. CASE ~ (task[h].at \in {"rows", "lookup"} /\ task[h].any = TRUE)
  BY <1>1, <1>2, <1>3, <1>5, ToDoValues DEF Steps
<1>6. QED
  BY <1>4, <1>5

LEMMA NearerStep ==
    ASSUME NamesAreSequences, DnsInv, [DnsNext]_allVars PROVE [Nearer]_allVars
<1>1. DnsInv'
  BY DnsInvStep
<1>2. \A h \in Handler : task[h] \in Task /\ task'[h] \in Task
  BY <1>1 DEF DnsInv, DnsTypeOK
<1>3. ASSUME NEW h \in Handler
      PROVE  ToDo(task[h]) \in Nat /\ (ToDo(task[h]) = 0 <=> task[h].at = "idle")
  BY <1>2, ToDoValues, ToDoZero
<1>4. ASSUME DnsNext, NEW h \in Handler, ToDo(task'[h]) > ToDo(task[h])
      PROVE  Receive(h) /\ ToDo(task'[h]) = 11
  <2>1. ToDo(task'[h]) # ToDo(task[h]) /\ ~ (ToDo(task'[h]) < ToDo(task[h]))
    <3>1. ToDo(task[h]) \in Nat /\ ToDo(task'[h]) \in Nat
      BY <1>2, ToDoValues
    <3>2. QED
      BY <1>4, <3>1
  <2>2. ~ Registers /\ task'[h] # task[h]
    BY <1>1, <2>1, RegistersToDo
  <2>3. \E g \in Handler : Receive(g) \/ Handle(g)
    BY <1>4, <2>2 DEF DnsNext, Serve, AcceptFails, Stop, UdpExits, TcpExits
  <2>4. PICK g \in Handler : Receive(g) \/ Handle(g)
    BY <2>3
  <2>5. g = h
    BY <2>2, <2>4 DEF Handle, Receive, ReadZone, ReadSoa, ReadRow, ReadAnswers,
                      ReadRoute, ReadAny, RecheckRoute, Reply, Drop, ReadFails,
                      SendFails, Proceed, Finish, DnsInv, DnsTypeOK
  <2>6. QED
    BY <1>1, <2>1, <2>4, <2>5, HandleToDo, ReceiveToDo
<1>5. QED
  BY <1>3, <1>4, HandleToDo DEF Nearer

(* Every query is over, answered or dropped, after at most eleven steps of *)
(* its handler (with the two types that AnyTypes has), whatever other      *)
(* processes commit between two of them: no read is ever started over.     *)
THEOREM QueriesDrawNearer ==
    ASSUME NamesAreSequences PROVE DnsSpec => [][Nearer]_allVars
<1>1. DnsInv /\ [DnsNext]_allVars => [Nearer]_allVars
  BY NearerStep
<1>2. QED
  BY <1>1, DnsInitInv, DnsInvStep, PTL DEF DnsSpec

(* The server leaves the registrar its behaviours: what is proved of the   *)
(* processes that write the database holds whatever the server reads.      *)
THEOREM ServingIsReading == DnsSpec => Spec
<1>1. DnsInit => Init
  BY DEF DnsInit
<1>2. [DnsNext]_allVars => [Next]_vars
  <2>1. Serve => UNCHANGED vars
    BY DEF Serve, Receive, Handle, ReadZone, ReadSoa, ReadRow, ReadAnswers, ReadRoute,
           ReadAny, RecheckRoute, Reply, Drop, ReadFails, SendFails, Proceed,
           AcceptFails, Stop, UdpExits, TcpExits
  <2>2. QED
    BY <2>1 DEF DnsNext, Registers, allVars
<1>3. QED
  BY <1>1, <1>2, PTL DEF DnsSpec, Spec

-----------------------------------------------------------------------------
(* What the writers keep true of the tables: every record is in a zone     *)
(* that exists, and a zone other than the backbone's two got its route     *)
(* before its row.                                                         *)

(* The zones of the backbone itself, and the hosts it gives records *)
Home == {Root, TestZone}
HostNames == {Sub("ns1", Root), Sub("node", TestZone)}
                \cup {Sub(node, Root) : node \in Node}

(* The names the backbone gives records to are not those of its zones: no  *)
(* node is called test.                                                    *)
NamesApart == HostNames \cap Home = {}

OwnName(r) == r.name = r.zone \/ r.name \notin Home

RecordsInv == \A r \in db.records : db.serial[r.zone] > 0 /\ OwnName(r)

RouteFirst(j) ==
    \A i \in 1..Len(j) :
       /\ j[i].op = "record" => OwnName(j[i].row)
       /\ (j[i].op = "zone" /\ j[i].name \notin Home) =>
             i > 1 /\ j[i - 1].op = "domain" /\ j[i - 1].name = j[i].name

JobsInv ==
    \A c \in Client : stage[c] # "idle" =>
       /\ RouteFirst(job[c])
       /\ At(c).op = "zone" => At(c).name \in Home \/ db.route[At(c).name] # NoAddr

LEMMA JobsRouteFirst ==
    ASSUME NamesApart, NEW j \in Jobs
    PROVE  RouteFirst(j) /\ j[1].op = "init"
<1>1. InitDb.op = "init"
  BY DEF InitDb
<1>2. \A n, ip : Domain(n, ip).op = "domain" /\ Domain(n, ip).name = n
  BY DEF Domain
<1>3. \A n, s : Zone(n, s).op = "zone" /\ Zone(n, s).name = n
  BY DEF Zone
<1>4. \A z, n, t, v : /\ Upsert(z, n, t, v).op = "record"
                      /\ Upsert(z, n, t, v).row.zone = z
                      /\ Upsert(z, n, t, v).row.name = n
  BY DEF Upsert
<1>5. ASSUME NEW node \in Node, NEW ip, NEW s, j = SeedJob(node, ip, s)
      PROVE  RouteFirst(j) /\ j[1].op = "init"
  <2>1. /\ OwnName(Upsert(Root, Sub("ns1", Root), "A", ip).row)
        /\ OwnName(Upsert(Root, Sub(node, Root), "A", ip).row)
    BY <1>4 DEF OwnName, NamesApart, HostNames
  <2>2. /\ Len(j) = 4 /\ j[1] = InitDb /\ j[2] = Zone(Root, s)
        /\ j[3] = Upsert(Root, Sub("ns1", Root), "A", ip)
        /\ j[4] = Upsert(Root, Sub(node, Root), "A", ip)
    BY <1>5 DEF SeedJob
  <2>3. \A i \in 1..4 : i = 1 \/ i = 2 \/ i = 3 \/ i = 4
    OBVIOUS
  <2>4. QED
    BY <1>1, <1>3, <1>4, <2>1, <2>2, <2>3 DEF RouteFirst, Home
<1>6. CASE j = SelfTestJob
  <2>1. OwnName(Upsert(TestZone, Sub("node", TestZone), "A", Loopback).row)
    BY <1>4 DEF OwnName, NamesApart, HostNames
  <2>2. /\ Len(j) = 3 /\ j[1] = InitDb /\ j[2] = Zone(TestZone, 1)
        /\ j[3] = Upsert(TestZone, Sub("node", TestZone), "A", Loopback)
    BY <1>6 DEF SelfTestJob
  <2>3. \A i \in 1..3 : i = 1 \/ i = 2 \/ i = 3
    OBVIOUS
  <2>4. QED
    BY <1>1, <1>3, <1>4, <2>1, <2>2, <2>3 DEF RouteFirst, Home
<1>7. ASSUME NEW d, NEW ip, NEW s, j = SectorJob(d, ip, s)
      PROVE  RouteFirst(j) /\ j[1].op = "init"
  <2>1. \A t, v : OwnName(Upsert(d, d, t, v).row)
    BY <1>4 DEF OwnName
  <2>2. /\ Len(j) = 6 /\ j[1] = InitDb /\ j[2] = Domain(d, ip) /\ j[3] = Zone(d, s)
        /\ j[4] = Upsert(d, d, "NS", Sub("ns1", d))
        /\ j[5] = Upsert(d, d, "NS", Sub("ns2", d))
        /\ j[6] = Upsert(d, d, "A", ip)
    BY <1>7 DEF SectorJob
  <2>3. \A i \in 1..6 : i = 1 \/ i = 2 \/ i = 3 \/ i = 4 \/ i = 5 \/ i = 6
    OBVIOUS
  <2>4. QED
    BY <1>1, <1>2, <1>3, <1>4, <2>1, <2>2, <2>3 DEF RouteFirst
<1>8. QED
  BY <1>5, <1>6, <1>7 DEF Jobs

TablesInv == SafeInv /\ RecordsInv /\ JobsInv

LEMMA TablesKeep ==
    ASSUME TablesInv, Next
    PROVE  /\ \A n \in Name : db.route[n] # NoAddr => db'.route[n] # NoAddr
           /\ db.records \subseteq db'.records
           /\ \A n \in Name : db.serial[n] > 0 => db'.serial[n] > 0
BY TablesGrow DEF TablesInv

(* A zone is created by a commit that touches nothing else, and it is one  *)
(* of the backbone's or has a route.                                       *)
LEMMA ZoneIsBorn ==
    ASSUME TablesInv, Next, NEW n \in Name, ~ (db.serial[n] > 0), db'.serial[n] > 0
    PROVE  /\ n \in Home \/ db.route[n] # NoAddr
           /\ db'.route = db.route /\ db'.records = db.records
           /\ \A m \in Name : m # n => db'.serial[m] = db.serial[m]
<1>1. PICK c \in Client :
         /\ stage[c] = "checked" /\ At(c) \in Call /\ ~ Raises(At(c), db)
         /\ db' = Apply(At(c), db) /\ db \in Database
  BY CommitCases DEF TablesInv
<1>2. At(c).op = "zone" /\ At(c).name = n
  BY <1>1, ApplyCases
<1>3. n \in Home \/ db.route[n] # NoAddr
  BY <1>1, <1>2 DEF TablesInv, JobsInv
<1>4. QED
  BY <1>1, <1>2, <1>3, ApplyCases

LEMMA RecordsStep == ASSUME TablesInv, Next PROVE RecordsInv'
<1>1. CASE db'.records = db.records
  <2>1. \A r \in db.records : r.zone \in Name
    BY DEF TablesInv, SafeInv, TypeOK, Database, Record
  <2>2. QED
    BY <1>1, <2>1, TablesKeep DEF TablesInv, RecordsInv
<1>2. CASE db'.records # db.records
  <2>1. PICK c \in Client :
           /\ stage[c] = "checked" /\ At(c) \in Call /\ ~ Raises(At(c), db)
           /\ db' = Apply(At(c), db) /\ db \in Database
    BY <1>2, CommitCases DEF TablesInv
  <2>2. /\ At(c).op = "record" /\ db'.serial = db.serial
        /\ db'.records = db.records \cup {At(c).row}
        /\ db.serial[At(c).row.zone] > 0
    BY <1>2, <2>1, ApplyCases
  <2>3. pos[c] \in 1..Len(job[c]) /\ RouteFirst(job[c])
    BY <2>1 DEF TablesInv, SafeInv, TypeOK, JobsInv
  <2>4. OwnName(At(c).row)
    BY <2>2, <2>3 DEF RouteFirst, At
  <2>5. QED
    BY <2>2, <2>4 DEF TablesInv, RecordsInv
<1>3. QED
  BY <1>1, <1>2

(* What JobsInv says of one client *)
JobInv(c) == stage[c] # "idle" =>
                /\ RouteFirst(job[c])
                /\ At(c).op = "zone" =>
                      At(c).name \in Home \/ db.route[At(c).name] # NoAddr

LEMMA JobStays ==
    ASSUME TablesInv, Next, NEW c \in Client, stage'[c] # "idle" => stage[c] # "idle",
           job'[c] = job[c], pos'[c] = pos[c]
    PROVE  JobInv(c)'
<1>1. SUFFICES ASSUME stage'[c] # "idle" PROVE JobInv(c)'
  BY DEF JobInv
<1>2. pos[c] \in 1..Len(job[c]) /\ job[c] \in Seq(Call) /\ stage[c] # "idle"
  BY <1>1 DEF TablesInv, SafeInv, TypeOK
<1>3. At(c) \in Call /\ At(c)' = At(c)
  BY <1>2, ElementOfSeq DEF At
<1>4. At(c).op = "zone" => At(c).name \in Name
  BY <1>3 DEF Call, InitDb
<1>5. QED
  BY <1>2, <1>3, <1>4, TablesKeep DEF TablesInv, JobsInv, JobInv

LEMMA JobCommits ==
    ASSUME TablesInv, Next, NEW c \in Client, Commit(c)
    PROVE  JobInv(c)'
<1>1. CASE pos[c] = Len(job[c])
  <2>1. stage'[c] = "idle"
    BY <1>1 DEF Commit, EndJob, TablesInv, SafeInv, TypeOK
  <2>2. QED
    BY <2>1 DEF JobInv
<1>2. CASE pos[c] # Len(job[c])
  <2>1. stage[c] = "checked" /\ job' = job /\ pos'[c] = pos[c] + 1
    BY <1>2 DEF Commit, TablesInv, SafeInv, TypeOK
  <2>2. /\ pos[c] \in 1..Len(job[c]) /\ job[c] \in Seq(Call)
        /\ Len(job[c]) \in Nat /\ RouteFirst(job[c])
    BY <2>1, LenProperties DEF TablesInv, SafeInv, TypeOK, JobsInv
  <2>3. pos[c] + 1 \in 1..Len(job[c]) /\ (pos[c] + 1) - 1 = pos[c]
    BY <1>2, <2>2
  <2>4. At(c)' = job[c][pos[c] + 1]
    BY <2>1 DEF At
  <2>5. (At(c)'.op = "zone" /\ At(c)'.name \notin Home) =>
          At(c).op = "domain" /\ At(c).name = At(c)'.name
    BY <2>2, <2>3, <2>4 DEF RouteFirst, At
  <2>6. /\ At(c) \in Call /\ ~ Raises(At(c), db) /\ db' = Apply(At(c), db)
        /\ db \in Database
    BY CommitAlone DEF TablesInv, SafeInv, TypeOK, Commit
  <2>7. At(c).op = "domain" => db'.route[At(c).name] # NoAddr
    BY <2>6, ApplyCases
  <2>8. QED
    BY <2>1, <2>2, <2>5, <2>7 DEF JobInv
<1>3. QED
  BY <1>1, <1>2

LEMMA JobsStep == ASSUME NamesApart, TablesInv, Next PROVE JobsInv'
<1> SUFFICES ASSUME NEW u \in Client PROVE JobInv(u)'
  BY DEF JobsInv, JobInv
<1>1. ASSUME NEW c \in Client, Start(c) PROVE JobInv(u)'
  <2>1. CASE u = c
    <3>1. PICK j \in Jobs : job' = [job EXCEPT ![c] = j]
      BY <1>1 DEF Start
    <3>2. job'[c] = j /\ pos'[c] = 1
      BY <1>1, <3>1 DEF Start, TablesInv, SafeInv, TypeOK
    <3>3. RouteFirst(j) /\ j[1].op = "init"
      BY JobsRouteFirst
    <3>4. QED
      BY <2>1, <3>2, <3>3 DEF JobInv, At
  <2>2. CASE u # c
    BY <1>1, <2>2, JobStays DEF Start, TablesInv, SafeInv, TypeOK
  <2>3. QED
    BY <2>1, <2>2
<1>2. ASSUME NEW c \in Client, Begin(c) \/ Check(c) PROVE JobInv(u)'
  BY <1>2, JobStays DEF Begin, Check, TablesInv, SafeInv, TypeOK
<1>3. ASSUME NEW c \in Client, Commit(c) PROVE JobInv(u)'
  <2>1. CASE u # c
    BY <1>3, <2>1, JobStays DEF Commit, EndJob, TablesInv, SafeInv, TypeOK
  <2>2. QED
    BY <1>3, <2>1, JobCommits
<1>4. ASSUME NEW c \in Client, CheckFails(c) \/ Abandon(c) PROVE JobInv(u)'
  <2>1. EndJob(c)
    BY <1>4 DEF CheckFails, Abandon
  <2>2. CASE u = c
    BY <2>1, <2>2 DEF EndJob, JobInv, TablesInv, SafeInv, TypeOK
  <2>3. CASE u # c
    BY <2>1, <2>3, JobStays DEF EndJob, TablesInv, SafeInv, TypeOK
  <2>4. QED
    BY <2>2, <2>3
<1>5. CASE Hour
  BY <1>5, JobStays DEF Hour
<1>6. QED
  BY <1>1, <1>2, <1>3, <1>4, <1>5 DEF Next, Transact

LEMMA TablesStep ==
    ASSUME NamesApart PROVE TablesInv /\ [Next]_vars => TablesInv'
<1>1. CASE UNCHANGED vars
  BY <1>1, SafeStep DEF TablesInv, RecordsInv, JobsInv, At, vars
<1>2. QED
  BY <1>1, SafeStep, RecordsStep, JobsStep DEF TablesInv

-----------------------------------------------------------------------------
(* Denials: while the name of a query has never been absent, and it is in  *)
(* a zone only by a record, its zone stays the one that was found and the  *)
(* loop over all types still has that record's type before it.             *)

(* The name exists by a record of another zone than itself, or not at all. *)
ByRecord(k, d) == k.absent = FALSE /\ k.zone # k.q /\ d.route[k.q] = NoAddr

Awaits(k, d) == \E r \in d.records :
                   /\ r.zone = k.zone /\ r.name = k.q
                   /\ \E i \in 1..Len(k.left) : k.left[i] = r.type

Denial(k, d) ==
    /\ (k.at # "idle" /\ Absent(d, k.q)) => k.absent = TRUE
    /\ (k.at \in {"soa", "lookup", "rows", "route"} /\ ByRecord(k, d)) =>
          FindZone(d, k.q) = k.zone
    /\ (k.at = "rows" /\ ByRecord(k, d)) => k.row = k.zone
    /\ (k.at \in {"lookup", "rows"} /\ k.any = TRUE /\ k.found = FALSE
          /\ ByRecord(k, d)) => Awaits(k, d)
    /\ k.at \in {"zone", "soa"} => k.any = FALSE
    /\ (k.at = "recheck" /\ k.absent = FALSE) => d.route[k.q] # NoAddr
    /\ (k.at = "reply" /\ k.answer = "NXDOMAIN") => k.absent = TRUE

DenialInv == /\ DnsInv /\ TablesInv
             /\ \A h \in Handler : Denial(task[h], db)

(* A name that is not absent and has neither a row in zones nor a route    *)
(* has a record in the zone found for it.                                  *)
LEMMA HasRecord ==
    ASSUME NEW d, NEW q, ~ Absent(d, q), d.route[q] = NoAddr, FindZone(d, q) # q
    PROVE  \E r \in d.records : r.zone = FindZone(d, q) /\ r.name = q
BY DEF Absent

(* No commit moves such a name to another zone. *)
LEMMA ZoneStays ==
    ASSUME NamesAreSequences, TablesInv, Next, NEW q \in Name,
           ~ Absent(db, q), ~ Absent(db', q), db'.route[q] = NoAddr,
           FindZone(db, q) # q
    PROVE  FindZone(db', q) = FindZone(db, q)
<1> DEFINE z == FindZone(db, q)
           y == FindZone(db', q)
<1>1. db.route[q] = NoAddr
  BY TablesKeep
<1>2. z # NoZone /\ y # NoZone
  BY DEF Absent
<1>3. /\ z \in Zones(db, q) /\ \A x \in Zones(db, q) : Len(x) <= Len(z)
      /\ y \in Zones(db', q) /\ \A x \in Zones(db', q) : Len(x) <= Len(y)
  BY <1>2, FindZoneFacts
<1>4. PICK r \in db.records : r.zone = z /\ r.name = q
  BY <1>1, HasRecord
<1>5. q \notin Home
  BY <1>4 DEF TablesInv, RecordsInv, OwnName
<1>6. z \in Name /\ y \in Name /\ db.serial[z] > 0 /\ db'.serial[y] > 0
      /\ y \in ZoneCandidates(q)
  BY <1>3 DEF Zones
<1>7. CASE db.serial[y] > 0
  <2>1. y \in Zones(db, q)
    BY <1>6, <1>7 DEF Zones
  <2>2. \A x \in Zones(db, q) : Len(x) <= Len(y)
    BY <1>3, <1>6, TablesKeep DEF Zones
  <2>3. FindZone(db, q) = y
    BY <2>1, <2>2, FindZoneIs
  <2>4. QED
    BY <2>3
<1>8. CASE ~ (db.serial[y] > 0)
  <2>1. y \in Home \/ db.route[y] # NoAddr
    BY <1>6, <1>8, ZoneIsBorn
  <2>2. db'.records = db.records
    BY <1>6, <1>8, ZoneIsBorn
  <2>3. y # q
    BY <1>1, <1>5, <2>1
  <2>4. PICK x \in db'.records : x.zone = y /\ x.name = q
    BY <2>3, HasRecord
  <2>5. db.serial[y] > 0
    BY <2>2, <2>4 DEF TablesInv, RecordsInv
  <2>6. QED
    BY <1>8, <2>5
<1>9. QED
  BY <1>7, <1>8

(* A commit of another process keeps what is known of a query. *)
LEMMA DenialMarked ==
    ASSUME NamesAreSequences, TablesInv, Next, NEW k \in Task, Denial(k, db)
    PROVE  Denial(Marked(k, db'), db')
<1> DEFINE m == Marked(k, db')
<1>1. /\ m.at = k.at /\ m.q = k.q /\ m.zone = k.zone /\ m.any = k.any
      /\ m.left = k.left /\ m.row = k.row /\ m.found = k.found /\ m.answer = k.answer
      /\ k.absent = TRUE => m.absent = TRUE
  BY MarkedType
<1>2. m.absent = FALSE => k.absent = FALSE
  BY MarkedType DEF Task
<1>3. (k.at # "idle" /\ Absent(db', k.q)) => m.absent = TRUE
  BY MarkedType
<1>4. k.q \in Name
  BY DEF Task
<1> HIDE DEF m
<1>5. ByRecord(m, db') => ByRecord(k, db)
  BY <1>1, <1>2, <1>4, TablesKeep DEF ByRecord
<1>6. ASSUME m.at \in {"soa", "lookup", "rows", "route"}, ByRecord(m, db')
      PROVE  FindZone(db', m.q) = m.zone
  <2>1. FindZone(db, k.q) = k.zone
    BY <1>1, <1>5, <1>6 DEF Denial
  <2>2. ~ Absent(db, k.q) /\ ~ Absent(db', k.q)
    BY <1>1, <1>2, <1>3, <1>6 DEF Denial, ByRecord
  <2>3. FindZone(db', k.q) = k.zone
    BY <1>1, <1>4, <1>6, <2>1, <2>2, ZoneStays DEF ByRecord
  <2>4. QED
    BY <1>1, <2>3
<1>7. Awaits(k, db) => Awaits(m, db')
  BY <1>1, TablesKeep DEF Awaits
<1>8. Denial(m, db')
  BY <1>1, <1>2, <1>3, <1>4, <1>5, <1>6, <1>7, TablesKeep DEF Denial
<1>9. QED
  BY <1>8 DEF m

LEMMA RegistersDenial ==
    ASSUME NamesAreSequences, NamesApart, DenialInv, Registers PROVE DenialInv'
<1>1. DnsInv'
  BY RegistersInv DEF DenialInv
<1>2. TablesInv'
  BY TablesStep DEF DenialInv, Registers
<1>3. ASSUME NEW h \in Handler PROVE Denial(task'[h], db')
  <2>1. task'[h] = Marked(task[h], db')
    BY DEF Registers, Marked
  <2>2. task[h] \in Task /\ Denial(task[h], db)
    BY DEF DenialInv, DnsInv, DnsTypeOK
  <2>3. QED
    BY <2>1, <2>2, DenialMarked DEF DenialInv, Registers
<1>4. QED
  BY <1>1, <1>2, <1>3 DEF DenialInv

(* A step of the server that gives h the task next *)
LEMMA ServeDenial ==
    ASSUME DenialInv, DnsInv', UNCHANGED vars, NEW h \in Handler, NEW next,
           Denial(next, db), task' = [task EXCEPT ![h] = next]
    PROVE  DenialInv'
<1>1. TablesInv' /\ db' = db
  BY SafeStep DEF DenialInv, TablesInv, RecordsInv, JobsInv, At, vars
<1>2. \A u \in Handler : Denial(task'[u], db)
  BY DEF DenialInv, DnsInv, DnsTypeOK
<1>3. QED
  BY <1>1, <1>2 DEF DenialInv

LEMMA IdleDenial == Denial(Idle, db)
<1>1. Idle.at = "idle"
  BY IdleType
<1>2. QED
  BY <1>1 DEF Denial

LEMMA ReceiveDenial ==
    ASSUME DenialInv, NEW h \in Handler, Receive(h) PROVE DenialInv'
<1>1. PICK ask \in Question :
         task' = [task EXCEPT ![h] =
                    [Idle EXCEPT !.at = "zone", !.q = ask[1], !.t = ask[2],
                                 !.since = sent, !.absent = Absent(db, ask[1])]]
  BY DEF Receive
<1> DEFINE b == Absent(db, ask[1])
           k == [Idle EXCEPT !.at = "zone", !.q = ask[1], !.t = ask[2],
                             !.since = sent, !.absent = b]
<1>2. b \in BOOLEAN
  BY DEF Absent
<1>3. Denial(k, db)
  <2>1. b => b = TRUE
    OBVIOUS
  <2> HIDE DEF b
  <2>2. k.at = "zone" /\ k.q = ask[1] /\ k.absent = b /\ k.any = FALSE
    BY DEF Idle
  <2> HIDE DEF k
  <2>3. (k.at # "idle" /\ Absent(db, k.q)) => k.absent = TRUE
    BY <2>1, <2>2 DEF b
  <2>4. QED
    BY <2>2, <2>3 DEF Denial
<1>4. DnsInv'
  BY ReceiveInv DEF DenialInv
<1> HIDE DEF k, b
<1>5. task' = [task EXCEPT ![h] = k]
  BY <1>1 DEF k, b
<1>6. QED
  BY <1>3, <1>4, <1>5, ServeDenial DEF Receive

LEMMA ReadZoneDenial ==
    ASSUME NamesAreSequences, DenialInv, NEW h \in Handler, ReadZone(h)
    PROVE  DenialInv'
<1> DEFINE z == FindZone(db, task[h].q)
           k1 == [task[h] EXCEPT !.at = "reply", !.answer = "NXDOMAIN"]
           k2 == [task[h] EXCEPT !.at = "soa", !.zone = z]
<1>1. task[h] \in Task /\ Denial(task[h], db) /\ task[h].at = "zone"
  BY DEF DenialInv, DnsInv, DnsTypeOK, ReadZone
<1>2. Proceed(h, IF z = NoZone THEN k1 ELSE k2)
  BY DEF ReadZone
<1>3. z = NoZone => Absent(db, task[h].q)
  BY DEF Absent
<1>4. (task[h].absent = TRUE) => Denial(k1, db)
  <2>1. k1.at = "reply" /\ k1.q = task[h].q /\ k1.absent = task[h].absent
    BY <1>1 DEF Task
  <2>2. QED
    BY <2>1 DEF Denial
<1>5. Denial(k2, db)
  <2>1. /\ k2.at = "soa" /\ k2.q = task[h].q /\ k2.absent = task[h].absent
        /\ k2.zone = z /\ k2.any = task[h].any
    BY <1>1 DEF Task
  <2>2. QED
    BY <1>1, <2>1 DEF Denial
<1>6. DnsInv'
  BY ReadZoneInv DEF DenialInv
<1> HIDE DEF z, k1, k2
<1>7. CASE z = NoZone
  <2>1. Denial(k1, db)
    BY <1>1, <1>3, <1>4, <1>7 DEF Denial
  <2>2. QED
    BY <1>2, <1>6, <1>7, <2>1, ServeDenial DEF Proceed
<1>8. CASE z # NoZone
  BY <1>2, <1>5, <1>6, <1>8, ServeDenial DEF Proceed
<1>9. QED
  BY <1>7, <1>8

(* The loop over all types starts with a record's type before it, whichever *)
(* that is.                                                                 *)
LEMMA AllTypesAwait ==
    ASSUME DenialInv, NEW k \in Task, k.at \in {"soa", "rows", "route"}, Denial(k, db),
           ByRecord(k, db), NEW left, left = AnyTypes
    PROVE  \E r \in db.records : /\ r.zone = k.zone /\ r.name = k.q
                                 /\ \E i \in 1..Len(left) : left[i] = r.type
<1>1. FindZone(db, k.q) = k.zone /\ ~ Absent(db, k.q)
  BY DEF Denial, ByRecord
<1>2. PICK r \in db.records : r.zone = k.zone /\ r.name = k.q
  BY <1>1, HasRecord DEF ByRecord
<1>3. r.type \in {"A", "NS"}
  BY DEF DenialInv, TablesInv, SafeInv, TypeOK, Database, Record, Type
<1>4. Len(left) = 2 /\ left[1] = "A" /\ left[2] = "NS"
  BY DEF AnyTypes
<1>5. QED
  BY <1>2, <1>3, <1>4

(* The loop starts behind get_zone, a lookup or resolve_domain. *)
LEMMA LookupAnyDenial ==
    ASSUME DenialInv, NEW k \in Task, k.at \in {"soa", "rows", "route"}, Denial(k, db)
    PROVE  Denial(LookupAny(k), db)
<1> DEFINE m == LookupAny(k)
<1>1. /\ m.at = "lookup" /\ m.left = AnyTypes /\ m.q = k.q /\ m.zone = k.zone
      /\ m.absent = k.absent
  BY LookupAnyZone DEF SameZone
<1> HIDE DEF m
<1>2. ByRecord(m, db) => ByRecord(k, db)
  BY <1>1 DEF ByRecord
<1>3. ByRecord(m, db) => Awaits(m, db)
  BY <1>1, <1>2, AllTypesAwait DEF Awaits
<1>4. Denial(m, db)
  BY <1>1, <1>2, <1>3 DEF Denial
<1>5. QED
  BY <1>4 DEF m

(* A reply that is not a denial needs nothing. *)
LEMMA ReplyDenial ==
    ASSUME NEW k, NEW next, k.at # "idle", Denial(k, db), SameZone(k, next),
           next.at = "reply", next.answer # "NXDOMAIN"
    PROVE  Denial(next, db)
BY DEF Denial, SameZone

LEMMA ReadSoaDenial ==
    ASSUME NamesAreSequences, DenialInv, NEW h \in Handler, ReadSoa(h)
    PROVE  DenialInv'
<1> DEFINE s == GetZone(db, task[h].zone)
           k == [task[h] EXCEPT !.serial = s]
           k1 == [k EXCEPT !.at = "reply", !.answer = "SOA"]
           k2 == [k EXCEPT !.at = "lookup", !.left = <<k.t>>]
<1>1. /\ task[h] \in Task /\ Good(task[h]) /\ Denial(task[h], db)
      /\ task[h].at = "soa"
  BY DEF DenialInv, DnsInv, DnsTypeOK, ReadSoa
<1>2. s \in 0..MaxSerial
  BY <1>1 DEF GetZone, Good, Task, DenialInv, DnsInv, SafeInv, TypeOK, Database
<1> HIDE DEF s
<1>3. /\ k \in Task /\ k.at = "soa" /\ k.q = task[h].q /\ k.zone = task[h].zone
      /\ k.absent = task[h].absent /\ k.any = task[h].any
  BY <1>1, <1>2 DEF Task
<1>4. Denial(k, db)
  BY <1>1, <1>3 DEF Denial, ByRecord
<1>5. Proceed(h, CASE k.t = "SOA" /\ k.q = k.zone -> k1
                   [] k.t = "OTHER" -> LookupAny(k)
                   [] OTHER -> k2)
  BY DEF ReadSoa, s
<1> HIDE DEF k
<1>6. Denial(k1, db)
  <2>1. k1.at = "reply" /\ k1.answer = "SOA" /\ k1.q = k.q /\ k1.absent = k.absent
    BY <1>3 DEF Task
  <2>2. QED
    BY <1>3, <1>4, <2>1 DEF Denial
<1>7. Denial(k2, db)
  <2>1. /\ k2.at = "lookup" /\ k2.any = k.any /\ k2.q = k.q /\ k2.zone = k.zone
        /\ k2.absent = k.absent
    BY <1>3 DEF Task
  <2> HIDE DEF k2
  <2>2. QED
    BY <1>3, <1>4, <2>1 DEF Denial, ByRecord
<1>8. Denial(LookupAny(k), db)
  BY <1>3, <1>4, LookupAnyDenial
<1> HIDE DEF k1, k2
<1>9. Proceed(h, k1) \/ Proceed(h, k2) \/ Proceed(h, LookupAny(k))
  BY <1>5, Zenon
<1>10. DnsInv'
  BY ReadSoaInv DEF DenialInv
<1>11. QED
  BY <1>6, <1>7, <1>8, <1>9, <1>10, ServeDenial DEF Proceed

LEMMA ReadRowDenial ==
    ASSUME NamesAreSequences, DenialInv, NEW h \in Handler, ReadRow(h)
    PROVE  DenialInv'
<1> DEFINE k == task[h]
<1>1. k \in Task /\ Denial(k, db) /\ k.at = "lookup"
  BY DEF DenialInv, DnsInv, DnsTypeOK, ReadRow
<1>2. PICK next : /\ Proceed(h, next) /\ SameZone(k, next)
                  /\ next.at = "rows" /\ next.row = FindZone(db, k.q)
                  /\ next.any = k.any /\ next.left = k.left
                  /\ next.found = k.found
  BY ReadRowType DEF DenialInv
<1> HIDE DEF k
<1>3. Denial(next, db)
  <2>1. next.q = k.q /\ next.zone = k.zone /\ next.absent = k.absent
    BY <1>2 DEF SameZone
  <2>2. Awaits(k, db) => Awaits(next, db)
    BY <1>2, <2>1 DEF Awaits
  <2>3. ByRecord(next, db) => ByRecord(k, db)
    BY <2>1 DEF ByRecord
  <2>4. QED
    BY <1>1, <1>2, <2>1, <2>2, <2>3 DEF Denial
<1>4. DnsInv'
  BY LaterReadInv DEF DenialInv
<1>5. QED
  BY <1>2, <1>3, <1>4, ServeDenial DEF Proceed

LEMMA ReadAnswersDenial ==
    ASSUME NamesAreSequences, DenialInv, NEW h \in Handler, ReadAnswers(h)
    PROVE  DenialInv'
<1> DEFINE k == task[h]
<1>1. k \in Task /\ Denial(k, db) /\ k.at = "rows"
  BY DEF DenialInv, DnsInv, DnsTypeOK, ReadAnswers
<1>2. PICK next : /\ Proceed(h, next) /\ SameZone(k, next)
                  /\ \/ next.at = "reply" /\ next.answer = "dropped"
                     \/ next.at = "route"
                     \/ next = LookupAny(k)
  BY ReadAnswersType DEF DenialInv
<1> HIDE DEF k
<1>3. ASSUME next.at = "route" PROVE Denial(next, db)
  <2>1. next.q = k.q /\ next.zone = k.zone /\ next.absent = k.absent
    BY <1>2 DEF SameZone
  <2>2. ByRecord(next, db) => ByRecord(k, db)
    BY <2>1 DEF ByRecord
  <2>3. QED
    BY <1>1, <1>3, <2>1, <2>2 DEF Denial
<1>4. Denial(next, db)
  BY <1>1, <1>2, <1>3, LookupAnyDenial, ReplyDenial
<1>5. DnsInv'
  BY LaterReadInv DEF DenialInv
<1>6. QED
  BY <1>2, <1>4, <1>5, ServeDenial DEF Proceed

LEMMA ReadRouteDenial ==
    ASSUME NamesAreSequences, DenialInv, NEW h \in Handler, ReadRoute(h)
    PROVE  DenialInv'
<1> DEFINE k == task[h]
<1>1. k \in Task /\ Denial(k, db) /\ k.at = "route"
  BY DEF DenialInv, DnsInv, DnsTypeOK, ReadRoute
<1>2. PICK next : /\ Proceed(h, next) /\ SameZone(k, next)
                  /\ \/ next.at = "reply" /\ next.answer # "NXDOMAIN"
                     \/ next = LookupAny(k)
  BY ReadRouteType DEF DenialInv
<1> HIDE DEF k
<1>3. Denial(next, db)
  BY <1>1, <1>2, LookupAnyDenial, ReplyDenial
<1>4. DnsInv'
  BY LaterReadInv DEF DenialInv
<1>5. QED
  BY <1>2, <1>3, <1>4, ServeDenial DEF Proceed

(* A record of the name that a lookup did not find is of a type behind the *)
(* one looked up.                                                          *)
LEMMA TypeIsBehind ==
    ASSUME NEW k \in Task, k.left # <<>>, Awaits(k, db), Rows(k) = {}, k.row = k.zone
    PROVE  \E r \in db.records :
              /\ r.zone = k.zone /\ r.name = k.q
              /\ \E i \in 1..Len(Tail(k.left)) : Tail(k.left)[i] = r.type
<1>1. PICK r \in db.records : /\ r.zone = k.zone /\ r.name = k.q
                              /\ \E i \in 1..Len(k.left) : k.left[i] = r.type
  BY DEF Awaits
<1>2. PICK i \in 1..Len(k.left) : k.left[i] = r.type
  BY <1>1
<1>3. k.left \in Seq(QType) /\ Len(k.left) \in Nat
  BY LenProperties DEF Task
<1>4. r.type # Head(k.left)
  BY <1>1 DEF Rows
<1>5. i # 1
  BY <1>2, <1>3, <1>4, HeadTailProperties
<1>6. /\ Len(Tail(k.left)) = Len(k.left) - 1
      /\ \A j \in 1..Len(Tail(k.left)) : Tail(k.left)[j] = k.left[j + 1]
  BY <1>3, HeadTailProperties
<1>7. i - 1 \in 1..Len(Tail(k.left)) /\ (i - 1) + 1 = i
  BY <1>3, <1>5, <1>6
<1>8. QED
  BY <1>1, <1>2, <1>6, <1>7

LEMMA ReadAnyDenial ==
    ASSUME NamesAreSequences, DenialInv, NEW h \in Handler, ReadAny(h)
    PROVE  DenialInv'
<1> DEFINE k == task[h]
<1>1. /\ k \in Task /\ Good(k) /\ Denial(k, db) /\ k.at = "rows" /\ k.any = TRUE
      /\ k.left # <<>>
  <2>1. k \in Task /\ Good(k) /\ Denial(k, db) /\ k.at = "rows" /\ k.any
    BY DEF DenialInv, DnsInv, DnsTypeOK, ReadAny
  <2>2. QED
    BY <2>1 DEF Task, Good
<1>2. PICK next :
         /\ Proceed(h, next) /\ SameZone(k, next)
         /\ \/ /\ next.at = "lookup" /\ next.any = TRUE
               /\ next.left = Tail(k.left)
               /\ next.found = FALSE => k.found = FALSE /\ Rows(k) = {}
            \/ /\ next.at = "recheck" /\ Tail(k.left) = <<>>
               /\ k.found = FALSE /\ Rows(k) = {}
               /\ k.q # k.zone
            \/ next.at = "reply" /\ next.answer = "NODATA"
  BY ReadAnyType DEF DenialInv
<1>3. next.q = k.q /\ next.zone = k.zone /\ next.absent = k.absent
  BY <1>2 DEF SameZone
<1> HIDE DEF k
<1>4. (k.found = FALSE /\ Rows(k) = {} /\ ByRecord(k, db)) =>
         \E r \in db.records :
            /\ r.zone = k.zone /\ r.name = k.q
            /\ \E i \in 1..Len(Tail(k.left)) : Tail(k.left)[i] = r.type
  <2>1. ByRecord(k, db) => k.row = k.zone
    BY <1>1 DEF Denial
  <2>2. (k.found = FALSE /\ ByRecord(k, db)) => Awaits(k, db)
    BY <1>1 DEF Denial
  <2>3. QED
    BY <1>1, <2>1, <2>2, TypeIsBehind
<1>5. ByRecord(next, db) => ByRecord(k, db)
  BY <1>3 DEF ByRecord
<1>6. ASSUME next.at = "lookup" PROVE Denial(next, db)
  <2>1. (next.found = FALSE /\ ByRecord(next, db)) => Awaits(next, db)
    BY <1>2, <1>3, <1>4, <1>5, <1>6 DEF Awaits
  <2>2. QED
    BY <1>1, <1>3, <1>5, <1>6, <2>1 DEF Denial
<1>7. ASSUME next.at = "recheck" PROVE Denial(next, db)
  <2>1. Len(Tail(k.left)) = 0
    BY <1>2, <1>7, EmptySeq
  <2>2. ~ ByRecord(k, db)
    BY <1>2, <1>4, <1>7, <2>1
  <2>3. k.absent = FALSE => db.route[k.q] # NoAddr
    BY <1>2, <1>7, <2>2 DEF ByRecord
  <2>4. QED
    BY <1>1, <1>3, <1>7, <2>3 DEF Denial
<1>8. Denial(next, db)
  BY <1>1, <1>2, <1>6, <1>7, ReplyDenial
<1>9. DnsInv'
  BY LaterReadInv DEF DenialInv
<1>10. QED
  BY <1>2, <1>8, <1>9, ServeDenial DEF Proceed, k

LEMMA RecheckRouteDenial ==
    ASSUME NamesAreSequences, DenialInv, NEW h \in Handler, RecheckRoute(h)
    PROVE  DenialInv'
<1> DEFINE k == task[h]
<1>1. k \in Task /\ Denial(k, db) /\ k.at = "recheck"
  BY DEF DenialInv, DnsInv, DnsTypeOK, RecheckRoute
<1>2. PICK next :
         /\ Proceed(h, next) /\ SameZone(k, next) /\ next.at = "reply"
         /\ \/ next.answer = "NXDOMAIN" /\ db.route[k.q] = NoAddr
            \/ next.answer = "NODATA"
  BY RecheckRouteType DEF DenialInv
<1> HIDE DEF k
<1>3. next.q = k.q /\ next.absent = k.absent /\ k.absent \in BOOLEAN
  BY <1>1, <1>2 DEF SameZone, Task
<1>4. Denial(next, db)
  BY <1>1, <1>2, <1>3 DEF Denial
<1>5. DnsInv'
  BY LaterReadInv DEF DenialInv
<1>6. QED
  BY <1>2, <1>4, <1>5, ServeDenial DEF Proceed, k

LEMMA DenialStep ==
    ASSUME NamesAreSequences, NamesApart
    PROVE  DenialInv /\ [DnsNext]_allVars => DenialInv'
<1> SUFFICES ASSUME DenialInv, [DnsNext]_allVars PROVE DenialInv'
  OBVIOUS
<1>1. DnsInv'
  BY DnsInvStep DEF DenialInv
<1>2. ASSUME NEW h \in Handler, Reply(h) \/ Drop(h) \/ ReadFails(h) \/ SendFails(h)
      PROVE  DenialInv'
  BY <1>1, <1>2, IdleDenial, ServeDenial DEF Reply, Drop, ReadFails, SendFails, Finish
<1>3. ASSUME UNCHANGED <<vars, task>> PROVE DenialInv'
  BY <1>1, <1>3, SafeStep
     DEF DenialInv, TablesInv, RecordsInv, JobsInv, At, vars
<1>4. CASE AcceptFails \/ Stop \/ UdpExits \/ TcpExits
  BY <1>3, <1>4 DEF AcceptFails, Stop, UdpExits, TcpExits
<1>5. ASSUME NEW h \in Handler, Receive(h) \/ Handle(h) PROVE DenialInv'
  BY <1>2, <1>5, ReceiveDenial, ReadZoneDenial, ReadSoaDenial, ReadRowDenial,
     ReadAnswersDenial, ReadRouteDenial, ReadAnyDenial, RecheckRouteDenial
     DEF Handle
<1>6. CASE UNCHANGED allVars
  BY <1>3, <1>6 DEF allVars, dnsVars
<1>7. QED
  BY <1>4, <1>5, <1>6, RegistersDenial DEF DnsNext, Serve

LEMMA DenialInit == DnsInit => DenialInv
<1> SUFFICES ASSUME DnsInit PROVE DenialInv
  OBVIOUS
<1>1. DnsInv /\ SafeInv
  BY DnsInitInv DEF DnsInv
<1>2. db.records = {} /\ \A c \in Client : stage[c] = "idle"
  BY DEF DnsInit, Init, EmptyDb
<1>3. \A h \in Handler : task[h] = Idle
  BY DEF DnsInit
<1>4. QED
  BY <1>1, <1>2, <1>3, IdleDenial DEF DenialInv, TablesInv, RecordsInv, JobsInv

(* Every denial was true at some moment since the query came, although the *)
(* reads it rests on are spread over the commits of other processes.       *)
THEOREM DenialsAreTrue ==
    ASSUME NamesAreSequences, NamesApart PROVE DnsSpec => []NxdomainIsTrue
<1>1. ASSUME DenialInv, NEW h \in Handler, task[h].at = "reply",
             task[h].answer = "NXDOMAIN"
      PROVE  task[h].absent
  BY <1>1 DEF DenialInv, Denial
<1>2. DenialInv => NxdomainIsTrue
  BY <1>1 DEF NxdomainIsTrue
<1>3. QED
  BY <1>2, DenialInit, DenialStep, PTL DEF DnsSpec
=============================================================================
