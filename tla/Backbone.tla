------------------------------ MODULE Backbone ------------------------------
(***************************************************************************)
(* The life of one backbone node: systemd starts the process, stops and    *)
(* restarts it; main seeds the authority, opens the DNS server and the     *)
(* mesh listener, and takes them down again; peers connect to the mesh     *)
(* listener, which makes their TLS handshake in its accept loop and leaves *)
(* each connection to a handler thread.                                    *)
(*                                                                         *)
(* The threads share the process: whatever ends it ends them all.  log     *)
(* holds the receipts of the current session (ReceiptLog has the file they *)
(* go to); a receipt that raises may have been written all the same, when  *)
(* it was the fsync that failed.  Time is not modelled: TimeoutStopSec     *)
(* runs out only where stop() can wait without a bound.                    *)
(***************************************************************************)
EXTENDS Naturals, Sequences

CONSTANTS Conn,     \* the connections peers may open to one session
          Silent,   \* those whose peer may fall silent for good
          Tls,      \* the mesh listener has a TLS context
          Burst     \* StartLimitBurst

ASSUME ConfigAssumption == /\ Silent \subseteq Conn /\ Tls \in BOOLEAN
                           /\ Burst \in Nat \ {0}

VARIABLES unit,      \* what systemd does with the unit
          recent,    \* starts in the current StartLimitIntervalSec
          main,      \* where the main thread is, "none" without a process
          stop,      \* the Event that _stop sets
          dns,       \* the DNS sockets are bound
          listener,  \* the thread in mesh.serve_forever
          conn,      \* [Conn -> stage]
          replied,   \* history: the connections a reply was written to
          log,       \* the receipts of main in the session, in their order
          said,      \* [Conn -> the receipts of the session about it]
          raised,    \* history: a receipt of the session has raised
          serial,    \* the stored zone serial against that of this hour
          fault,     \* environment: "disk", append_receipt raises; "start", a
                     \* port, a file or the database is not to be had
          calm       \* environment: no trouble comes any more

systemd == <<unit, recent>>
receipts == <<log, said, raised>>
process == <<main, stop, dns, listener, conn, replied, receipts>>
env == <<fault, calm>>
vars == <<systemd, process, serial, env>>

(* The stages of main, in their order; the handlers are there from "ready" *)
(* on.                                                                     *)
Boot == <<"seed", "seeded", "dns", "bound", "mesh", "listening", "signals">>
Run == <<"ready", "run", "shutdown", "stopdns", "stopped", "bye">>
Booting == {Boot[i] : i \in 1..Len(Boot)}
Running == {Run[i] : i \in 1..Len(Run)}

MainEvents == <<"DOMAIN_AUTHORITY_READY", "DNS_LISTENING", "MESH_LISTENING",
                "BACKBONE_READY", "BACKBONE_STOPPED">>
MainEvent == {MainEvents[i] : i \in 1..Len(MainEvents)}
ConnEvent == {"MESH_INBOUND", "MESH_INBOUND_REJECT"}

TypeOK == /\ unit \in {"inactive", "starting", "active", "stopping",
                       "restarting", "failed"}
          /\ recent \in 0..Burst
          /\ main \in Booting \cup Running \cup {"none"}
          /\ stop \in BOOLEAN /\ dns \in BOOLEAN
          /\ listener \in {"none", "accept", "handshake", "ended"}
          /\ conn \in [Conn -> {"new", "queued", "handshake", "reading",
                                "answered", "refused", "closed"}]
          /\ replied \subseteq Conn
          /\ log \in Seq(MainEvent) /\ said \in [Conn -> SUBSET ConnEvent]
          /\ raised \in BOOLEAN
          /\ serial \in {"older", "same", "ahead"}
          /\ fault \in {"none", "disk", "start"} /\ calm \in BOOLEAN

Init == /\ unit = "inactive" /\ recent = 0
        /\ main = "none" /\ stop = FALSE /\ dns = FALSE /\ listener = "none"
        /\ conn = [c \in Conn |-> "new"] /\ replied = {}
        /\ log = <<>> /\ said = [c \in Conn |-> {}] /\ raised = FALSE
        /\ serial = "older"
        /\ fault = "none" /\ calm = FALSE

-----------------------------------------------------------------------------
(* Environment: until it is calm, disks fill up, ports and files go and    *)
(* come, a sector job takes the zone's serial ahead of the hour.           *)

Trouble == /\ ~ calm
           /\ \/ fault' \in {"none", "disk", "start"} /\ UNCHANGED serial
              \/ serial' = "ahead" /\ UNCHANGED fault
           /\ UNCHANGED <<systemd, process, calm>>

CalmsDown == /\ ~ calm /\ serial # "ahead"
             /\ calm' = TRUE /\ fault' = "none"
             /\ UNCHANGED <<systemd, process, serial>>

(* The hour of the seed's serial goes on. *)
HourPasses == /\ serial' = IF serial = "ahead" THEN "same" ELSE "older"
              /\ UNCHANGED <<systemd, process, env>>

-----------------------------------------------------------------------------
(* The process: whatever ends main ends its threads and connections.       *)

Ends == /\ main' = "none" /\ stop' = FALSE /\ dns' = FALSE /\ listener' = "none"
        /\ conn' = [c \in Conn |-> "new"]

(* append_receipt: it returns, or it raises with the line in the file or   *)
(* not.                                                                    *)
Appends == fault # "disk" /\ UNCHANGED raised
Raises == fault = "disk" /\ raised' = TRUE

Event(e) == log' = Append(log, e) /\ UNCHANGED said
ConnReceipt(e, c) == said' = [said EXCEPT ![c] = @ \cup {e}] /\ UNCHANGED log
Nothing == UNCHANGED <<log, said>>

Exits == Ends /\ UNCHANGED <<replied, receipts>>

Goto(from, to) == main = from /\ main' = to

(* A step of main that appends a receipt.  Nothing catches what it raises. *)
(* Mutant: a receipt that raises is passed over.                           *)
ReportsOrNot(from, e, to) ==
    /\ main = from
    /\ \/ Appends /\ Event(e)
       \/ Raises /\ Nothing
    /\ main' = to
    /\ UNCHANGED <<systemd, stop, dns, listener, conn, replied, serial, env>>

Reports(from, e, to) ==
    /\ main = from
    /\ \/ /\ Appends /\ Event(e)
          /\ main' = to
          /\ UNCHANGED <<stop, dns, listener, conn>>
       \/ /\ Raises /\ (Event(e) \/ Nothing)
          /\ Ends
    /\ UNCHANGED <<systemd, replied, serial, env>>

(* parse_peers, the TLS contexts, _validate_authority_address: what the    *)
(* environment gives is refused, or a file of it or the database is not to *)
(* be had.                                                                 *)
ConfigFails == /\ main = "seed" /\ fault = "start"
               /\ Exits
               /\ UNCHANGED <<systemd, serial, env>>

(* Mutant: a serial that the zone has already is refused too. *)
SeedStrict ==
    /\ main = "seed" /\ fault # "start"
    /\ IF serial # "older"
       THEN Exits /\ UNCHANGED serial
       ELSE /\ main' = "seeded" /\ serial' = "same"
            /\ UNCHANGED <<stop, dns, listener, conn, replied, receipts>>
    /\ UNCHANGED <<systemd, env>>

(* seed_authority: ZONE_SERIAL_REGRESSION where the zone is ahead. *)
Seed ==
    /\ main = "seed" /\ fault # "start"
    /\ IF serial = "ahead"
       THEN Exits /\ UNCHANGED serial
       ELSE /\ main' = "seeded" /\ serial' = "same"
            /\ UNCHANGED <<stop, dns, listener, conn, replied, receipts>>
    /\ UNCHANGED <<systemd, env>>

StartDns ==
    /\ main = "dns"
    /\ IF fault = "start" THEN Exits
       ELSE /\ main' = "bound" /\ dns' = TRUE
            /\ UNCHANGED <<stop, listener, conn, replied, receipts>>
    /\ UNCHANGED <<systemd, serial, env>>

(* The socket is bound and its thread runs, before the receipt. *)
StartMesh ==
    /\ main = "mesh"
    /\ IF fault = "start" THEN Exits
       ELSE /\ main' = "listening" /\ listener' = "accept"
            /\ UNCHANGED <<stop, dns, conn, replied, receipts>>
    /\ UNCHANGED <<systemd, serial, env>>

(* The heartbeat thread starts (see PeerHealth), then the handlers are set. *)
SetSignals == /\ Goto("signals", "ready")
              /\ UNCHANGED <<systemd, stop, dns, listener, conn, replied, receipts, serial, env>>

(* The loop of main sees the Event, and Backbone.stop asks the listener to *)
(* end.                                                                    *)
Leave == /\ stop /\ Goto("run", "shutdown")
         /\ UNCHANGED <<systemd, stop, dns, listener, conn, replied, receipts,
                         serial, env>>

(* Mutant: the handler threads are joined, for want of daemon_threads. *)
ShutdownJoins ==
    /\ listener = "ended" /\ Goto("shutdown", "stopdns")
    /\ \A c \in Conn : conn[c] \in {"new", "queued", "closed"}
    /\ conn' = [c \in Conn |-> IF conn[c] = "queued" THEN "closed" ELSE conn[c]]
    /\ UNCHANGED <<systemd, stop, dns, listener, replied, receipts, serial, env>>

(* mesh.shutdown has returned; server_close resets what was not accepted. *)
Shutdown ==
    /\ listener = "ended" /\ Goto("shutdown", "stopdns")
    /\ conn' = [c \in Conn |-> IF conn[c] = "queued" THEN "closed" ELSE conn[c]]
    /\ UNCHANGED <<systemd, stop, dns, listener, replied, receipts, serial, env>>

StopDns == /\ Goto("stopdns", "stopped")
           /\ dns' = FALSE
           /\ UNCHANGED <<systemd, stop, listener, conn, replied, receipts, serial,
                           env>>

Return == main = "bye" /\ Exits /\ UNCHANGED <<systemd, serial, env>>

Main == \/ ConfigFails \/ Seed \/ Reports("seeded", "DOMAIN_AUTHORITY_READY", "dns")
        \/ StartDns \/ Reports("bound", "DNS_LISTENING", "mesh")
        \/ StartMesh \/ Reports("listening", "MESH_LISTENING", "signals")
        \/ SetSignals \/ Reports("ready", "BACKBONE_READY", "run")
        \/ Leave \/ Shutdown \/ StopDns
        \/ Reports("stopped", "BACKBONE_STOPPED", "bye")
        \/ Return

-----------------------------------------------------------------------------
(* Peers, the listener thread and the handler threads *)

Becomes(c, from, to) == conn[c] = from /\ conn' = [conn EXCEPT ![c] = to]

(* server_close leaves no socket to connect to. *)
Connect(c) == /\ listener # "none" /\ main \notin {"stopdns", "stopped", "bye"}
              /\ Becomes(c, "new", "queued")
              /\ UNCHANGED <<systemd, main, stop, dns, listener, replied, receipts,
                              serial, env>>

(* serve_forever takes one connection after the other. *)
Accept(c) == /\ listener = "accept"
             /\ IF Tls THEN Becomes(c, "queued", "handshake") /\ listener' = "handshake"
                       ELSE Becomes(c, "queued", "reading") /\ UNCHANGED listener
             /\ UNCHANGED <<systemd, main, stop, dns, replied, receipts, serial, env>>

(* Mutant: what a failed handshake raises ends the thread. *)
HandshakeKills(c) ==
    /\ \/ Becomes(c, "handshake", "reading") /\ listener' = "accept"
       \/ Becomes(c, "handshake", "closed") /\ listener' = "ended"
    /\ UNCHANGED <<systemd, main, stop, dns, replied, receipts, serial, env>>

(* get_request wraps the connection in the accept loop, with no timeout.   *)
(* ssl.SSLError is an OSError, which the loop survives.                    *)
Handshake(c) ==
    /\ \/ Becomes(c, "handshake", "reading") \/ Becomes(c, "handshake", "closed")
    /\ listener' = "accept"
    /\ UNCHANGED <<systemd, main, stop, dns, replied, receipts, serial, env>>

(* The loop sees that main waits in mesh.shutdown. *)
ListenerEnds == /\ main = "shutdown" /\ listener = "accept"
                /\ listener' = "ended"
                /\ UNCHANGED <<systemd, main, stop, dns, conn, replied, receipts,
                                serial, env>>

(* A request with an envelope that verifies is answered. *)
Answer(c) == /\ Becomes(c, "reading", "answered")
             /\ replied' = replied \cup {c}
             /\ UNCHANGED <<systemd, main, stop, dns, listener, receipts, serial, env>>

(* BAD_PAYLOAD, BAD_SIGNATURE, STALE_ENVELOPE, and whatever else is raised *)
(* before the reply is written.                                            *)
Refuse(c) == /\ Becomes(c, "reading", "refused")
             /\ UNCHANGED <<systemd, main, stop, dns, listener, replied, receipts,
                             serial, env>>

(* A peer that leaves without a word leaves no receipt. *)
HangsUp(c) == /\ Becomes(c, "reading", "closed")
              /\ UNCHANGED <<systemd, main, stop, dns, listener, replied, receipts,
                              serial, env>>

(* Mutant: a receipt of acceptance when the request is read. *)
AcceptsEarly(c) ==
    /\ Appends /\ ConnReceipt("MESH_INBOUND", c)
    /\ Becomes(c, "answered", "closed") \/ Becomes(c, "reading", "closed")
    /\ UNCHANGED <<systemd, main, stop, dns, listener, replied, serial, env>>

(* The receipt comes after the reply, inside the try: when it raises, the  *)
(* answered request is refused in the log.                                 *)
LogAccept(c) ==
    /\ \/ Appends /\ ConnReceipt("MESH_INBOUND", c) /\ Becomes(c, "answered", "closed")
       \/ /\ Raises /\ (ConnReceipt("MESH_INBOUND", c) \/ Nothing)
          /\ Becomes(c, "answered", "refused")
    /\ UNCHANGED <<systemd, main, stop, dns, listener, replied, serial, env>>

LogReject(c) ==
    /\ \/ Appends /\ ConnReceipt("MESH_INBOUND_REJECT", c)
       \/ Raises /\ (ConnReceipt("MESH_INBOUND_REJECT", c) \/ Nothing)
    /\ Becomes(c, "refused", "closed")
    /\ UNCHANGED <<systemd, main, stop, dns, listener, replied, serial, env>>

Serve(c) == Accept(c) \/ LogAccept(c) \/ LogReject(c)

-----------------------------------------------------------------------------
(* systemd *)

(* Mutant: the unit has no start limit. *)
StartUnlimited ==
    /\ unit = "restarting" \/ (unit \in {"inactive", "failed"} /\ ~ calm)
    /\ unit' = "starting" /\ recent' = recent + 1
    /\ UNCHANGED <<process, serial, env>>

(* The operator starts the unit, or RestartSec is over.  The start limit   *)
(* counts both.                                                            *)
StartUnit ==
    /\ unit = "restarting" \/ (unit \in {"inactive", "failed"} /\ ~ calm)
    /\ IF recent = Burst THEN unit' = "failed" /\ UNCHANGED recent
                         ELSE unit' = "starting" /\ recent' = recent + 1
    /\ UNCHANGED <<process, serial, env>>

IntervalEnds == /\ recent > 0 /\ recent' = 0
                /\ UNCHANGED <<unit, process, serial, env>>

(* ExecStartPre, and then ExecStart: Type=simple is active at once. *)
SelfTest ==
    /\ unit = "starting"
    /\ IF fault = "start"
       THEN unit' = "restarting" /\ UNCHANGED process
       ELSE /\ unit' = "active"
            /\ main' = "seed" /\ log' = <<>> /\ replied' = {} /\ raised' = FALSE
            /\ said' = [c \in Conn |-> {}]
            /\ UNCHANGED <<stop, dns, listener, conn>>
    /\ UNCHANGED <<recent, serial, env>>

(* Restart=always: whatever main returned, unless a stop was asked for. *)
Reap == /\ main = "none" /\ unit \in {"active", "stopping"}
        /\ unit' = IF unit = "active" THEN "restarting" ELSE "inactive"
        /\ UNCHANGED <<recent, process, serial, env>>

(* systemctl stop: SIGTERM, which ends a process without handlers. *)
StopUnit ==
    /\ ~ calm
    /\ \/ /\ unit \in {"starting", "restarting"} /\ unit' = "inactive"
          /\ UNCHANGED process
       \/ /\ unit = "active" /\ main # "none" /\ unit' = "stopping"
          /\ IF main \in Booting THEN Exits
             ELSE /\ stop' = TRUE
                  /\ UNCHANGED <<main, dns, listener, conn, replied, receipts>>
    /\ UNCHANGED <<recent, serial, env>>

(* A crash, or a SIGKILL that is not systemd's. *)
Crash == /\ ~ calm /\ main # "none"
         /\ Exits
         /\ UNCHANGED <<systemd, serial, env>>

(* TimeoutStopSec, then SIGKILL, where stop() can wait without a bound:    *)
(* for the listener, and the listener for a peer.  That it never waits so  *)
(* for anything else is what StopEnds checks.                              *)
Kill == /\ unit = "stopping" /\ main = "shutdown" /\ listener = "handshake"
        /\ Exits
        /\ UNCHANGED <<systemd, serial, env>>

-----------------------------------------------------------------------------
Next == \/ Trouble \/ CalmsDown \/ HourPasses \/ Crash
        \/ StartUnit \/ IntervalEnds \/ SelfTest \/ Reap \/ StopUnit \/ Kill
        \/ Main \/ ListenerEnds
        \/ \E c \in Conn : Connect(c) \/ Handshake(c) \/ Serve(c)
                           \/ Answer(c) \/ Refuse(c) \/ HangsUp(c)

Spec == Init /\ [][Next]_vars

(* systemd and the threads that can run do.  A peer that is not silent     *)
(* ends its handshake or its patience (its probes have a timeout of 5 s).  *)
FairSpec ==
    /\ Spec
    /\ WF_vars(Main) /\ WF_vars(ListenerEnds) /\ WF_vars(SelfTest) /\ WF_vars(Reap)
    /\ WF_vars(unit = "restarting" /\ StartUnit) /\ WF_vars(Kill)
    /\ \A c \in Conn : SF_vars(Accept(c)) /\ WF_vars(LogAccept(c) \/ LogReject(c))
    /\ \A c \in Conn \ Silent : WF_vars(Handshake(c))

-----------------------------------------------------------------------------
Told(e) == \E i \in 1..Len(log) : log[i] = e

(* A session's own receipts come in the order of its stages, none left     *)
(* out, and each is true while its session lasts: the sockets it speaks of *)
(* are bound, and nobody is served before the DNS server is announced.     *)
ReceiptsTellTheSession ==
    /\ Len(log) <= Len(MainEvents)
    /\ \A i \in 1..Len(log) : log[i] = MainEvents[i]
    /\ Told("DNS_LISTENING") /\ main \notin {"none", "stopped", "bye"} => dns
    /\ Told("BACKBONE_READY") /\ main = "run" => listener \in {"accept", "handshake"}
    /\ Told("BACKBONE_STOPPED") /\ main # "none" => ~ dns /\ listener = "ended"
    /\ \A c \in Conn : said[c] # {} => Told("DNS_LISTENING")

(* What the log says of a request is true: an accepted one was answered,   *)
(* and an answered one is refused, or neither when its thread has ended,   *)
(* only in a session that had a receipt raise.                             *)
InboundReceiptsAreTrue ==
    \A c \in Conn :
       /\ "MESH_INBOUND" \in said[c] => c \in replied
       /\ c \in replied /\ ~ raised =>
             /\ "MESH_INBOUND_REJECT" \notin said[c]
             /\ conn[c] = "closed" => "MESH_INBOUND" \in said[c]

(* A connection waits for ever only behind a peer that fell silent in its  *)
(* handshake.                                                              *)
ServedUnlessSilent ==
    \A c \in Conn :
       conn[c] = "queued" ~> \/ conn[c] # "queued"
                            \/ \E s \in Silent : conn[s] = "handshake"

(* systemctl stop ends the process, whoever is connected; SIGKILL is       *)
(* needed only behind a peer that fell silent in its handshake.            *)
StopEnds == (unit = "stopping") ~> (unit = "inactive")

(* Once troubles end, a node that is to run does, unless the start limit   *)
(* has given it up.                                                        *)
NodeReturns == <>[]calm => <>[](main = "run" \/ unit \in {"inactive", "failed"})
=============================================================================
