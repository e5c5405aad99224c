------------------------------- MODULE KexDNS -------------------------------
(***************************************************************************)
(* The authoritative DNS server over the registrar database that other     *)
(* processes write.                                                        *)
(*                                                                         *)
(* A query is handled by the UDP loop, one after the other, or by a thread *)
(* of its own on TCP.  _build_response reads the database many times, one  *)
(* record type after the other, each read in a connection of its own that  *)
(* sees the last commit of that moment: nothing holds the tables still     *)
(* between two reads.                                                      *)
(*                                                                         *)
(* since and absent are history: the serials that clients had been given   *)
(* when the query came, and whether its name has been absent at some       *)
(* moment since then.                                                      *)
(***************************************************************************)
EXTENDS Registrar

CONSTANTS Udp,           \* the UDP loop
          Worker,        \* the TCP handler threads
          Question,      \* the names and types that queries ask for
          SocketErrors,  \* whether a send or an accept may fail
          ReadErrors,    \* whether a read of the database may fail
          Malformed,     \* the addresses that inet_aton refuses
          MaxQueries     \* bound: queries received

ASSUME HandlerAssumption == Udp \notin Worker
ASSUME DnsAssumption == /\ SocketErrors \in BOOLEAN /\ ReadErrors \in BOOLEAN
                        /\ Malformed \subseteq Addr /\ MaxQueries \in Nat

VARIABLES running,   \* self.running, with the sockets open
          udpLoop,   \* the UDP loop is in its thread
          tcpLoop,   \* so is the accept loop
          task,      \* [Handler -> the query it handles]
          sent,      \* [Name -> the greatest zone serial sent]
          received   \* queries received

dnsVars == <<running, udpLoop, tcpLoop, task, sent, received>>
allVars == <<vars, dnsVars>>

Handler == Worker \cup {Udp}

(* SOA, types the server knows, and OTHER for those it does not *)
QType == Type \cup {"SOA", "OTHER"}

(* REV.values(), the types of this instance's records *)
AnyTypes == <<"A", "NS">>

(* Where a query is in _build_response, and what its reply will be.        *)
(* dropped is a query nothing is sent for, unsendable one whose reply      *)
(* cannot be put into a packet.                                            *)
Steps == {"idle", "zone", "soa", "lookup", "rows", "route", "recheck", "reply"}
Answer == {"none", "NXDOMAIN", "NODATA", "SOA", "ROUTE", "dropped",
           "unsendable"}

ASSUME QuestionAssumption == Question \subseteq Name \X QType

Task == [at : Steps, q : Name, t : QType,
         zone : Name \cup {NoZone}, serial : 0..MaxSerial,
         any : BOOLEAN,             \* in the loop over AnyTypes
         left : Seq(QType),         \* types still to look up
         row : Name \cup {NoZone},  \* the zone that get_records found
         found : BOOLEAN,           \* any_records
         answer : Answer,
         since : [Name -> 0..MaxSerial], absent : BOOLEAN]

Idle == [at |-> "idle", q |-> Root, t |-> "A", zone |-> NoZone, serial |-> 0,
         any |-> FALSE, left |-> <<>>, row |-> NoZone, found |-> FALSE,
         answer |-> "none", since |-> [n \in Name |-> 0], absent |-> FALSE]

(* The name is neither a zone, nor in one with a record or a route. *)
Absent(d, q) ==
    LET z == FindZone(d, q)
    IN  \/ z = NoZone
        \/ z # q /\ d.route[q] = NoAddr
                 /\ \A r \in d.records : ~ (r.zone = z /\ r.name = q)

DnsTypeOK == /\ TypeOK
             /\ running \in BOOLEAN /\ udpLoop \in BOOLEAN /\ tcpLoop \in BOOLEAN
             /\ task \in [Handler -> Task]
             /\ sent \in [Name -> 0..MaxSerial]
             /\ received \in 0..MaxQueries

DnsInit == /\ Init
           /\ running = TRUE /\ udpLoop = TRUE /\ tcpLoop = TRUE
           /\ task = [h \in Handler |-> Idle]
           /\ sent = [n \in Name |-> 0]
           /\ received = 0

-----------------------------------------------------------------------------
(* One step of a handler's query, with the database left alone *)
Proceed(h, next) == /\ task' = [task EXCEPT ![h] = next]
                    /\ UNCHANGED <<vars, running, udpLoop, tcpLoop, sent, received>>

LoopOf(h) == IF h = Udp THEN udpLoop ELSE tcpLoop

(* recvfrom, or accept and a new thread, and parse_query; a packet that    *)
(* does not parse is dropped and leaves no trace.                          *)
Receive(h) ==
    /\ task[h].at = "idle" /\ running /\ LoopOf(h)
    /\ received < MaxQueries
    /\ received' = received + 1
    /\ \E ask \in Question :
          task' = [task EXCEPT ![h] =
                     [Idle EXCEPT !.at = "zone", !.q = ask[1], !.t = ask[2],
                                  !.since = sent, !.absent = Absent(db, ask[1])]]
    /\ UNCHANGED <<vars, running, udpLoop, tcpLoop, sent>>

(* find_zone *)
ReadZone(h) ==
    /\ task[h].at = "zone"
    /\ LET z == FindZone(db, task[h].q)
       IN  Proceed(h, IF z = NoZone
                      THEN [task[h] EXCEPT !.at = "reply", !.answer = "NXDOMAIN"]
                      ELSE [task[h] EXCEPT !.at = "soa", !.zone = z])

(* Mutant: one more type, that the server does not know. *)
LookupUnknown(k) == [k EXCEPT !.at = "lookup", !.any = TRUE,
                              !.left = Append(AnyTypes, "ANY")]

(* the loop that fills any_records *)
LookupAny(k) == [k EXCEPT !.at = "lookup", !.any = TRUE, !.left = AnyTypes]

(* get_zone, and the choice of what to answer with *)
ReadSoa(h) ==
    /\ task[h].at = "soa"
    /\ LET k == [task[h] EXCEPT !.serial = GetZone(db, task[h].zone)]
       IN  Proceed(h, CASE k.t = "SOA" /\ k.q = k.zone ->
                             [k EXCEPT !.at = "reply", !.answer = "SOA"]
                        [] k.t = "OTHER" -> LookupAny(k)
                        [] OTHER -> [k EXCEPT !.at = "lookup", !.left = <<k.t>>])

(* the first SELECT of get_records *)
ReadRow(h) ==
    /\ task[h].at = "lookup"
    /\ Proceed(h, [task[h] EXCEPT !.at = "rows", !.row = FindZone(db, task[h].q)])

(* the second one, for the type looked up *)
Rows(k) == {r \in db.records : r.zone = k.row /\ r.name = k.q /\ r.type = Head(k.left)}

(* The records to answer with.  The rows have no column named type: for    *)
(* any record KeyError ends the query unanswered.                          *)
ReadAnswers(h) ==
    /\ task[h].at = "rows" /\ ~ task[h].any
    /\ LET k == task[h]
       IN  Proceed(h, CASE Rows(k) # {} -> [k EXCEPT !.at = "reply", !.answer = "dropped"]
                        [] Rows(k) = {} /\ k.t = "A" -> [k EXCEPT !.at = "route"]
                        [] OTHER -> LookupAny(k))

(* resolve_domain, for an A query without records *)
ReadRoute(h) ==
    /\ task[h].at = "route"
    /\ LET ip == ResolveDomain(db, task[h].q)
       IN  Proceed(h, CASE ip = NoAddr -> LookupAny(task[h])
                        [] ip \in Malformed ->
                             [task[h] EXCEPT !.at = "reply", !.answer = "unsendable"]
                        [] OTHER -> [task[h] EXCEPT !.at = "reply", !.answer = "ROUTE"])

(* Mutant: the name exists only if its last lookup found a record. *)
ReadAnyLast(h) ==
    /\ task[h].at = "rows" /\ task[h].any
    /\ LET k == [task[h] EXCEPT !.found = Rows(task[h]) # {},
                                !.left = Tail(@)]
       IN  Proceed(h, CASE k.left # <<>> -> [k EXCEPT !.at = "lookup"]
                        [] k.left = <<>> /\ ~ k.found /\ k.q # k.zone ->
                             [k EXCEPT !.at = "recheck"]
                        [] OTHER -> [k EXCEPT !.at = "reply", !.answer = "NODATA"])

(* one type of any_records *)
ReadAny(h) ==
    /\ task[h].at = "rows" /\ task[h].any
    /\ LET k == [task[h] EXCEPT !.found = @ \/ Rows(task[h]) # {},
                                !.left = Tail(@)]
       IN  Proceed(h, CASE k.left # <<>> -> [k EXCEPT !.at = "lookup"]
                        [] k.left = <<>> /\ ~ k.found /\ k.q # k.zone ->
                             [k EXCEPT !.at = "recheck"]
                        [] OTHER -> [k EXCEPT !.at = "reply", !.answer = "NODATA"])

(* resolve_domain, before the name is denied *)
RecheckRoute(h) ==
    /\ task[h].at = "recheck"
    /\ Proceed(h, [task[h] EXCEPT !.at = "reply",
                      !.answer = IF ResolveDomain(db, task[h].q) = NoAddr
                                THEN "NXDOMAIN" ELSE "NODATA"])

(* The reply holds the zone's SOA, as the answer or as the authority. *)
CarriesSoa(k) == k.zone # NoZone /\ k.answer \in {"SOA", "NODATA", "NXDOMAIN"}

Finish(h) == task' = [task EXCEPT ![h] = Idle]

Reply(h) ==
    /\ task[h].at = "reply" /\ task[h].answer \notin {"dropped", "unsendable"}
    /\ h = Udp => running
    /\ LET k == task[h]
       IN  sent' = IF CarriesSoa(k) /\ sent[k.zone] < k.serial
                   THEN [sent EXCEPT ![k.zone] = k.serial] ELSE sent
    /\ Finish(h)
    /\ UNCHANGED <<vars, running, udpLoop, tcpLoop, received>>

(* KeyError: the UDP loop goes on, the TCP thread closes and ends. *)
Drop(h) == /\ task[h].at = "reply" /\ task[h].answer = "dropped"
           /\ Finish(h)
           /\ UNCHANGED <<vars, running, udpLoop, tcpLoop, sent, received>>

(* A SELECT raises, and the UDP loop goes on, or the directory of the      *)
(* database is gone, and the OSError ends it; the TCP thread closes.       *)
ReadFails(h) == /\ ReadErrors /\ task[h].at \notin {"idle", "reply"}
                /\ udpLoop' \in {udpLoop, udpLoop /\ h # Udp}
                /\ Finish(h)
                /\ UNCHANGED <<vars, running, tcpLoop, sent, received>>

(* Mutant: a reply that could not be sent is tried again. *)
SendRetries(h) ==
    /\ task[h].at = "reply" /\ task[h].answer # "dropped"
    /\ SocketErrors \/ (h = Udp /\ ~ running) \/ task[h].answer = "unsendable"
    /\ UNCHANGED allVars

(* OSError from sendto, which it always is once stop has closed the        *)
(* socket, and from inet_aton, ends the UDP loop; from sendall or          *)
(* inet_aton it ends the TCP thread.                                       *)
SendFails(h) ==
    /\ task[h].at = "reply" /\ task[h].answer # "dropped"
    /\ SocketErrors \/ (h = Udp /\ ~ running) \/ task[h].answer = "unsendable"
    /\ udpLoop' = (udpLoop /\ h # Udp)
    /\ Finish(h)
    /\ UNCHANGED <<vars, running, tcpLoop, sent, received>>

(* OSError from accept ends the accept loop. *)
AcceptFails == /\ SocketErrors /\ running /\ tcpLoop
               /\ tcpLoop' = FALSE
               /\ UNCHANGED <<vars, running, udpLoop, task, sent, received>>

Stop == /\ running
        /\ running' = FALSE
        /\ UNCHANGED <<vars, udpLoop, tcpLoop, task, sent, received>>

(* The closed socket or self.running ends a loop between two queries. *)
UdpExits == /\ ~ running /\ udpLoop /\ task[Udp].at = "idle"
            /\ udpLoop' = FALSE
            /\ UNCHANGED <<vars, running, tcpLoop, task, sent, received>>

TcpExits == /\ ~ running /\ tcpLoop
            /\ tcpLoop' = FALSE
            /\ UNCHANGED <<vars, running, udpLoop, task, sent, received>>

Handle(h) == \/ ReadZone(h) \/ ReadSoa(h) \/ ReadRow(h) \/ ReadAnswers(h)
             \/ ReadRoute(h) \/ ReadAny(h) \/ RecheckRoute(h)
             \/ Reply(h) \/ Drop(h) \/ ReadFails(h) \/ SendFails(h)

Serve == \/ \E h \in Handler : Receive(h) \/ Handle(h)
         \/ AcceptFails \/ Stop \/ UdpExits \/ TcpExits

(* A step of a process that writes the database *)
Registers ==
    /\ Next
    /\ task' = [h \in Handler |->
                  [task[h] EXCEPT !.absent = @ \/ (task[h].at # "idle"
                                                   /\ Absent(db', task[h].q))]]
    /\ UNCHANGED <<running, udpLoop, tcpLoop, sent, received>>

DnsNext == Registers \/ Serve

DnsSpec == DnsInit /\ [][DnsNext]_allVars

(* Threads that can run do, and so do processes in a transaction. *)
DnsFairSpec == /\ DnsSpec
               /\ \A h \in Handler : WF_allVars(Handle(h))
               /\ WF_allVars(UdpExits) /\ WF_allVars(TcpExits)
               /\ \A c \in Client : WF_allVars(Transact(c) /\ Registers)

-----------------------------------------------------------------------------
(* The server denies a name only if, at some moment since the query came,  *)
(* the name was indeed absent: reads spread over commits of others do not  *)
(* add up to a denial that was never true.                                 *)
NxdomainIsTrue ==
    \A h \in Handler :
       task[h].at = "reply" /\ task[h].answer = "NXDOMAIN" => task[h].absent

(* No client is given an older version of a zone than one that was already *)
(* given out when it asked, by whichever thread.                           *)
SerialsMoveForward ==
    \A h \in Handler :
       task[h].at = "reply" /\ CarriesSoa(task[h]) =>
          task[h].serial >= task[h].since[task[h].zone]

(* Serving ends: a query is answered, dropped or gone with its socket, a   *)
(* process that holds the write lock of the database gives it back,        *)
(* whoever reads, and after stop both loops leave their threads, so that   *)
(* its joins end.                                                          *)
ServingEnds ==
    /\ \A h \in Handler : (task[h].at # "idle") ~> (task[h].at = "idle")
    /\ \A c \in Client : (writer = c) ~> (writer # c)
    /\ (~ running) ~> (~ udpLoop /\ ~ tcpLoop)

(* AUTHORITY.md counts the record types among what the server has been     *)
(* observed to serve: a query whose records were found is answered.        *)
PublishedIsAnswered ==
    \A h \in Handler : task[h].at = "reply" => task[h].answer # "dropped"
=============================================================================
