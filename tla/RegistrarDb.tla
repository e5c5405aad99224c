---------------------------- MODULE RegistrarDb ----------------------------
(***************************************************************************)
(* The tables of the registrar database and what each call of              *)
(* kex_registrar_service does to them.                                     *)
(*                                                                         *)
(* A domain name is the sequence of its labels.  A row of zones is its     *)
(* serial, 0 for no row; a row of global_routing is its address, NoAddr    *)
(* for no row.  Nothing in the program sets a status other than ACTIVE.    *)
(***************************************************************************)
EXTENDS Naturals, Sequences

CONSTANTS Name,           \* the domain names of the instance
          Addr,           \* the addresses of the instance
          Loopback,       \* 127.0.0.1
          NoAddr,         \* no row in global_routing
          DefaultRoute,   \* the names init_registrar_db gives a route
          MaxSerial       \* bound: the largest zone serial

ASSUME DbAssumption == /\ Loopback \in Addr
                       /\ NoAddr \notin Addr
                       /\ DefaultRoute \subseteq Name
                       /\ MaxSerial \in Nat

Type == {"A", "NS"}
Record == [zone : Name, name : Name, type : Type, value : Addr \cup Name]

Database == [serial : [Name -> 0..MaxSerial],
             route : [Name -> Addr \cup {NoAddr}],
             records : SUBSET Record]

EmptyDb == [serial |-> [n \in Name |-> 0],
            route |-> [n \in Name |-> NoAddr],
            records |-> {}]

-----------------------------------------------------------------------------
(* Calls that write *)

InitDb == [op |-> "init"]
Domain(n, ip) == [op |-> "domain", name |-> n, ip |-> ip]
Zone(n, s) == [op |-> "zone", name |-> n, serial |-> s]
Upsert(z, n, t, v) ==
    [op |-> "record",
     row |-> [zone |-> z, name |-> n, type |-> t, value |-> v]]

Call == {InitDb}
          \cup [op : {"domain"}, name : Name, ip : Addr]
          \cup [op : {"zone"}, name : Name, serial : 1..MaxSerial]
          \cup [op : {"record"}, row : Record]

(* Mutant: a new serial must be no greater. *)
RaisesBackwards(call, d) ==
    \/ call.op = "zone" /\ 0 < d.serial[call.name] /\ d.serial[call.name] < call.serial
    \/ call.op = "record" /\ d.serial[call.row.zone] = 0

(* ZONE_SERIAL_REGRESSION and ZONE_NOT_ACTIVE *)
Raises(call, d) ==
    \/ call.op = "zone" /\ call.serial < d.serial[call.name]
    \/ call.op = "record" /\ d.serial[call.row.zone] = 0

(* Mutant: INSERT OR REPLACE of the default routes. *)
InitReplaces(d) ==
    [d EXCEPT !.route = [n \in Name |-> IF n \in DefaultRoute THEN Loopback
                                        ELSE d.route[n]]]

(* INSERT OR IGNORE of the default routes *)
WithDefaults(d) ==
    [d EXCEPT !.route = [n \in Name |-> IF n \in DefaultRoute /\ d.route[n] = NoAddr
                                        THEN Loopback ELSE d.route[n]]]

Apply(call, d) ==
    CASE call.op = "init" -> WithDefaults(d)
      [] call.op = "domain" -> [d EXCEPT !.route[call.name] = call.ip]
      [] call.op = "zone" -> [d EXCEPT !.serial[call.name] = call.serial]
      [] call.op = "record" -> [d EXCEPT !.records = @ \cup {call.row}]

-----------------------------------------------------------------------------
(* Calls that read *)

NoZone == <<>>

(* The address of a routed domain, or none. *)
ResolveDomain(d, n) == d.route[n]

(* Of a zone's row the serial, 0 where there is no row. *)
GetZone(d, n) == d.serial[n]

ZoneCandidates(q) == {SubSeq(q, i, Len(q)) : i \in 1..Len(q)}

(* Mutant: the shortest enclosing zone. *)
FindShortest(d, q) ==
    LET zones == {z \in ZoneCandidates(q) \cap Name : d.serial[z] > 0}
    IN  IF zones = {} THEN NoZone
        ELSE CHOOSE z \in zones : \A y \in zones : Len(z) <= Len(y)

(* The longest zone that encloses the name *)
FindZone(d, q) ==
    LET zones == {z \in ZoneCandidates(q) \cap Name : d.serial[z] > 0}
    IN  IF zones = {} THEN NoZone
        ELSE CHOOSE z \in zones : \A y \in zones : Len(y) <= Len(z)

GetRecords(d, q, t) ==
    {r \in d.records : r.zone = FindZone(d, q) /\ r.name = q /\ r.type = t}
=============================================================================
