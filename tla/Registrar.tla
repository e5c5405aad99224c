----------------------------- MODULE Registrar -----------------------------
(***************************************************************************)
(* The processes that write the shared registrar database, and the SQLite  *)
(* transactions they write it with: the backbone seeding its authority,    *)
(* its self-test (which systemd runs on the production database before     *)
(* every start), and the cross-sector handler.                             *)
(*                                                                         *)
(* A job is a sequence of calls, each in a transaction of its own: BEGIN   *)
(* IMMEDIATE takes the database's write lock, readers go on seeing the     *)
(* last commit, and whoever fails to get the lock within the busy timeout, *)
(* violates a check, fails to commit or dies leaves the rest of its job    *)
(* undone.  The empty transaction that executescript commits at the start  *)
(* of init_registrar_db is not modelled, nor are its CREATE TABLEs.        *)
(*                                                                         *)
(* The clock counts hours.  The seed's serial is YYYYMMDDHH: the hour.     *)
(* The handler's default serial is YYYYMMDD01: hour 1 of the day.  The     *)
(* seed's hour is UTC, the handler's day that of the host's local time.    *)
(***************************************************************************)
EXTENDS RegistrarDb, Integers

CONSTANTS Client, NoClient,
          Root,           \* keddeh.systems
          TestZone,       \* test.keddeh.systems
          Node,           \* the labels of the backbone nodes on this host
          SectorDomain,   \* the domains that envelopes ask for
          SectorSerial,   \* the serials they give themselves
          SectorAddr,     \* the addresses they ask for
          NodeAddr,       \* what KEX_AUTHORITY_IPV4 is, over time
          HoursPerDay,    \* 24
          LocalOffset,    \* the host's local time, in hours after UTC
          MaxHour,        \* bound: the clock
          MaxJobs         \* bound: jobs started

ASSUME ClientAssumption == NoClient \notin Client
ASSUME AddrAssumption == SectorAddr \subseteq Addr /\ NodeAddr \subseteq Addr
ASSUME BoundsAssumption == HoursPerDay \in Nat \ {0} /\ MaxHour \in Nat \ {0}
                                                    /\ MaxJobs \in Nat
                                                    /\ LocalOffset \in Int

Sub(label, n) == <<label>> \o n

(* the serials of the seed and of the handler in a given hour of UTC *)
SeedSerial(hour) == hour
DefaultSerial(hour) == ((hour + LocalOffset) \div HoursPerDay) * HoursPerDay + 1

(* The instance holds every name and serial the jobs use. *)
ASSUME NameAssumption ==
    /\ {Root, TestZone, Sub("ns1", Root), Sub("node", TestZone)} \subseteq Name
    /\ \A node \in Node : Sub(node, Root) \in Name
    /\ \A d \in SectorDomain : {d, Sub("ns1", d), Sub("ns2", d)} \subseteq Name
ASSUME SerialAssumption ==
    /\ 1 \in 1..MaxSerial /\ SectorSerial \subseteq 1..MaxSerial
    /\ \A hour \in 1..MaxHour :
          {SeedSerial(hour), DefaultSerial(hour)} \subseteq 1..MaxSerial

VARIABLES db,       \* what is committed
          writer,   \* holder of SQLite's write lock
          stage,    \* [Client -> where it is in its transaction]
          job,      \* [Client -> the calls of its job]
          pos,      \* [Client -> the call it is at]
          now,      \* the hour
          started,  \* jobs started
          done      \* the jobs that made all their calls

vars == <<db, writer, stage, job, pos, now, started, done>>

(* Backbone.seed_authority, past _validate_authority_address *)
SeedJob(node, ip, serial) ==
    <<InitDb, Zone(Root, serial), Upsert(Root, Sub("ns1", Root), "A", ip),
      Upsert(Root, Sub(node, Root), "A", ip)>>

(* the registrar part of self_test *)
SelfTestJob ==
    <<InitDb, Zone(TestZone, 1),
      Upsert(TestZone, Sub("node", TestZone), "A", Loopback)>>

(* cross_sector_handler.execute *)
SectorJob(d, ip, serial) ==
    <<InitDb, Domain(d, ip), Zone(d, serial),
      Upsert(d, d, "NS", Sub("ns1", d)), Upsert(d, d, "NS", Sub("ns2", d)),
      Upsert(d, d, "A", ip)>>

Jobs == {SeedJob(node, ip, SeedSerial(now)) : node \in Node, ip \in NodeAddr}
          \cup {SelfTestJob}
          \cup {SectorJob(d, ip, s) : d \in SectorDomain, ip \in SectorAddr,
                                      s \in SectorSerial \cup {DefaultSerial(now)}}

(* The call a client is in *)
At(c) == job[c][pos[c]]

Stages == {"idle", "ready", "open", "checked"}

TypeOK == /\ db \in Database
          /\ writer \in Client \cup {NoClient}
          /\ stage \in [Client -> Stages]
          /\ job \in [Client -> Seq(Call)]
          /\ pos \in [Client -> Nat]
          /\ \A c \in Client : stage[c] # "idle" => pos[c] \in 1..Len(job[c])
          /\ now \in 1..MaxHour
          /\ started \in 0..MaxJobs
          /\ done \subseteq Seq(Call)

Init == /\ db = EmptyDb
        /\ writer = NoClient
        /\ stage = [c \in Client |-> "idle"]
        /\ job = [c \in Client |-> <<>>]
        /\ pos = [c \in Client |-> 0]
        /\ now = 1
        /\ started = 0
        /\ done = {}

-----------------------------------------------------------------------------
Hour == /\ now < MaxHour
        /\ now' = now + 1
        /\ UNCHANGED <<db, writer, stage, job, pos, started, done>>

Start(c) == /\ stage[c] = "idle" /\ started < MaxJobs
            /\ \E j \in Jobs : job' = [job EXCEPT ![c] = j]
            /\ pos' = [pos EXCEPT ![c] = 1]
            /\ stage' = [stage EXCEPT ![c] = "ready"]
            /\ started' = started + 1
            /\ UNCHANGED <<db, writer, now, done>>

(* Mutant: the check and the insert in no transaction. *)
BeginNothing(c) == /\ stage[c] = "ready"
                   /\ stage' = [stage EXCEPT ![c] = "open"]
                   /\ UNCHANGED <<db, writer, job, pos, now, started, done>>

(* BEGIN IMMEDIATE *)
Begin(c) == /\ stage[c] = "ready" /\ writer = NoClient
            /\ writer' = c
            /\ stage' = [stage EXCEPT ![c] = "open"]
            /\ UNCHANGED <<db, job, pos, now, started, done>>

(* The SELECT of the transaction and the check on what it returned *)
Check(c) == /\ stage[c] = "open"
            /\ ~ Raises(At(c), db)
            /\ stage' = [stage EXCEPT ![c] = "checked"]
            /\ UNCHANGED <<db, writer, job, pos, now, started, done>>

EndJob(c) == /\ stage' = [stage EXCEPT ![c] = "idle"]
             /\ job' = [job EXCEPT ![c] = <<>>]
             /\ pos' = [pos EXCEPT ![c] = 0]

Unlock(c) == writer' = IF writer = c THEN NoClient ELSE writer

(* Mutant: the job runs on past its last call. *)
CommitOn(c) == /\ stage[c] = "checked"
               /\ db' = Apply(At(c), db)
               /\ Unlock(c)
               /\ stage' = [stage EXCEPT ![c] = "ready"]
               /\ pos' = [pos EXCEPT ![c] = @ + 1]
               /\ UNCHANGED <<job, done, now, started>>

(* The INSERT becomes visible with the commit; the next call of the job    *)
(* is a transaction of its own.                                            *)
Commit(c) == /\ stage[c] = "checked"
             /\ db' = Apply(At(c), db)
             /\ Unlock(c)
             /\ IF pos[c] = Len(job[c])
                THEN EndJob(c) /\ done' = done \cup {job[c]}
                ELSE /\ stage' = [stage EXCEPT ![c] = "ready"]
                     /\ pos' = [pos EXCEPT ![c] = @ + 1]
                     /\ UNCHANGED <<job, done>>
             /\ UNCHANGED <<now, started>>

(* The check raises: rollback, close, and the exception ends the job. *)
CheckFails(c) == /\ stage[c] = "open"
                 /\ Raises(At(c), db)
                 /\ EndJob(c) /\ Unlock(c)
                 /\ UNCHANGED <<db, now, started, done>>

(* The busy timeout, a failed commit, or the end of the process *)
Abandon(c) == /\ stage[c] # "idle"
              /\ EndJob(c) /\ Unlock(c)
              /\ UNCHANGED <<db, now, started, done>>

Transact(c) == Begin(c) \/ Check(c) \/ Commit(c) \/ CheckFails(c)

Next == Hour \/ \E c \in Client : Start(c) \/ Transact(c) \/ Abandon(c)

Spec == Init /\ [][Next]_vars

-----------------------------------------------------------------------------
(* No interleaving of processes takes a zone's serial back: secondaries    *)
(* that have seen a serial never see a smaller one.                        *)
SerialNeverRegresses ==
    [][\A n \in Name : db'.serial[n] >= db.serial[n]]_vars

(* An envelope may ask for a zone under the name of a host: the longest    *)
(* zone that encloses the name is then that one, not the record's.         *)
Hidden(row) == row.name # row.zone /\ db.serial[row.name] > 0

(* A job that ended well reads back: its zones at its serials or later,    *)
(* its records from the tables and, unless the record's own name became a  *)
(* zone, through the lookup the DNS server makes.  No other job, failed,   *)
(* concurrent or later, undoes more than that.                             *)
DoneJobsReadBack ==
    \A j \in done : \A i \in 1..Len(j) :
       /\ j[i].op = "zone" => db.serial[j[i].name] >= j[i].serial
       /\ j[i].op = "record" =>
             /\ j[i].row \in db.records
             /\ \/ Hidden(j[i].row)
                \/ j[i].row \in GetRecords(db, j[i].row.name, j[i].row.type)

(* Starting a node again does not take a registered route back to its      *)
(* default: a route, once there, changes only by register_domain.          *)
RoutesKept ==
    [][\A n \in Name : db.route[n] # NoAddr /\ db'.route[n] # db.route[n] =>
          \E c \in Client : stage[c] = "checked" /\
                            At(c) = Domain(n, db'.route[n])]_vars

(* The calls are atomic: each takes effect at its commit, checked against  *)
(* the tables it then changes.                                             *)
Atomic == INSTANCE AtomicRegistrar
ImplementsAtomicRegistrar == Atomic!Spec
=============================================================================
