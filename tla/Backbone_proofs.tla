--------------------------- MODULE Backbone_proofs ---------------------------
(***************************************************************************)
(* What the invariants of Backbone rest on, for any number of connections, *)
(* any set of silent peers and any start limit, with TLS and without.      *)
(***************************************************************************)
EXTENDS Backbone, TLAPS

-----------------------------------------------------------------------------
(* The stages *)

(* The DNS sockets are bound in these, and the listener serves in those. *)
Bound == {"bound", "mesh", "listening", "signals", "ready", "run", "shutdown", "stopdns"}
Serving == {"listening", "signals", "ready", "run"}
Closing == {"stopdns", "stopped", "bye"}

(* How many receipts main has left when it comes to stage m *)
Count(m) == CASE m \in {"seed", "seeded"} -> 0
              [] m \in {"dns", "bound"} -> 1
              [] m \in {"mesh", "listening"} -> 2
              [] m \in {"signals", "ready"} -> 3
              [] m \in {"run", "shutdown", "stopdns", "stopped"} -> 4
              [] OTHER -> 5

LEMMA StageFacts ==
    /\ Booting = {"seed", "seeded", "dns", "bound", "mesh", "listening", "signals"}
    /\ Running = {"ready", "run", "shutdown", "stopdns", "stopped", "bye"}
<1>1. Len(Boot) = 7 /\ Len(Run) = 6
  BY DEF Boot, Run
<1>2. 1..7 = {1, 2, 3, 4, 5, 6, 7} /\ 1..6 = {1, 2, 3, 4, 5, 6}
  OBVIOUS
<1> QED BY <1>1, <1>2 DEF Boot, Run, Booting, Running

LEMMA EventFacts ==
    /\ Len(MainEvents) = 5
    /\ MainEvents[1] = "DOMAIN_AUTHORITY_READY" /\ MainEvents[2] = "DNS_LISTENING"
    /\ MainEvents[3] = "MESH_LISTENING" /\ MainEvents[4] = "BACKBONE_READY"
    /\ MainEvents[5] = "BACKBONE_STOPPED"
    /\ \A i \in 1..5 : MainEvents[i] \in MainEvent
BY DEF MainEvents, MainEvent

-----------------------------------------------------------------------------
(* The invariant *)

(* What of the process is up at stage m *)
Fits(m, d, l) ==
    /\ d <=> m \in Bound
    /\ m \in Serving => l \in {"accept", "handshake"}
    /\ m = "shutdown" => l # "none"
    /\ m \in Closing => l = "ended"
    /\ m \notin Serving \cup Closing \cup {"shutdown"} => l = "none"

(* The log says how far main has come, and the process is as it should be. *)
Staged ==
    /\ main # "none" => unit \in {"active", "stopping"} /\ Len(log) = Count(main)
    /\ Len(log) <= 5 /\ \A i \in 1..Len(log) : log[i] = MainEvents[i]
    /\ Fits(main, dns, listener)

(* Connections are there only with the listener, and it is in at most one  *)
(* handshake.                                                              *)
Opened ==
    /\ \A c \in Conn : conn[c] # "new" => listener # "none"
    /\ \A c \in Conn : conn[c] = "handshake" => listener = "handshake"
    /\ \A c, d \in Conn : conn[c] = "handshake" /\ conn[d] = "handshake" => c = d

(* What is said and done about a connection fits its stage. *)
Fresh(c) == conn[c] \in {"new", "queued", "handshake", "reading"}

Handled ==
    \A c \in Conn :
       /\ said[c] # {} => Len(log) >= 2
       /\ "MESH_INBOUND" \in said[c] => c \in replied
       /\ main # "none" /\ Fresh(c) => c \notin replied /\ said[c] = {}
       /\ conn[c] = "answered" => c \in replied
       /\ c \in replied /\ ~ raised =>
             /\ conn[c] # "refused" /\ "MESH_INBOUND_REJECT" \notin said[c]
             /\ conn[c] = "closed" => "MESH_INBOUND" \in said[c]

Inv == TypeOK /\ Staged /\ Opened /\ Handled

LEMMA InitInv == Init => Inv
<1> SUFFICES ASSUME Init PROVE Inv
  OBVIOUS
<1>1. TypeOK
  <2>1. recent \in 0..Burst
    BY ConfigAssumption DEF ConfigAssumption, Init
  <2>2. log \in Seq(MainEvent) /\ said \in [Conn -> SUBSET ConnEvent]
    BY DEF Init
  <2>3. conn \in [Conn -> {"new", "queued", "handshake", "reading",
                          "answered", "refused", "closed"}]
    BY DEF Init
  <2>4. /\ stop \in BOOLEAN /\ dns \in BOOLEAN /\ raised \in BOOLEAN /\ calm \in BOOLEAN
        /\ replied \subseteq Conn
    BY DEF Init
  <2> QED BY <2>1, <2>2, <2>3, <2>4 DEF Init, TypeOK
<1>2. Len(log) = 0
  BY DEF Init
<1>3. Staged
  BY <1>2 DEF Init, Staged, Fits, Bound, Serving, Closing
<1>4. Opened /\ Handled
  BY DEF Init, Opened, Handled, Fresh
<1> QED BY <1>1, <1>3, <1>4 DEF Inv

-----------------------------------------------------------------------------
(* The steps of main *)

(* What a receipt of main adds to the log *)
LEMMA LogGrows ==
    ASSUME log \in Seq(MainEvent), Len(log) <= 5,
           \A i \in 1..Len(log) : log[i] = MainEvents[i],
           \/ log' = log
           \/ Len(log) < 5 /\ log' = Append(log, MainEvents[Len(log) + 1])
    PROVE  /\ log' \in Seq(MainEvent) /\ Len(log') >= Len(log) /\ Len(log') <= 5
           /\ \A i \in 1..Len(log') : log'[i] = MainEvents[i]
<1>1. Len(log) \in Nat
  OBVIOUS
<1>2. CASE log' = log
  BY <1>1, <1>2
<1>3. CASE Len(log) < 5 /\ log' = Append(log, MainEvents[Len(log) + 1])
  <2>1. MainEvents[Len(log) + 1] \in MainEvent
    BY <1>1, <1>3, EventFacts
  <2>2. /\ log' \in Seq(MainEvent) /\ Len(log') = Len(log) + 1
        /\ \A i \in 1..Len(log) : log'[i] = log[i]
        /\ log'[Len(log) + 1] = MainEvents[Len(log) + 1]
    BY <1>3, <2>1
  <2>3. QED
    BY <1>1, <1>3, <2>2
<1>4. QED
  BY <1>2, <1>3

(* The process ends, with or without one more receipt. *)
LEMMA EndsInv ==
    ASSUME Inv, Ends, UNCHANGED <<unit, recent, replied, said, env>>,
           serial' \in {"older", "same", "ahead"},
           raised' \in BOOLEAN, raised => raised',
           \/ log' = log
           \/ Len(log) < 5 /\ log' = Append(log, MainEvents[Len(log) + 1])
    PROVE  Inv'
<1>1. log' \in Seq(MainEvent) /\ Len(log') >= Len(log) /\ Len(log') <= 5
      /\ \A i \in 1..Len(log') : log'[i] = MainEvents[i]
  BY LogGrows DEF Inv, TypeOK, Staged
<1>2. TypeOK'
  BY <1>1 DEF Inv, TypeOK, Ends, env
<1>3. Staged'
  BY <1>1 DEF Ends, Staged, Fits, Bound, Serving, Closing
<1>4. Opened'
  BY DEF Ends, Opened
<1>5. Handled'
  BY <1>1 DEF Inv, TypeOK, Ends, Handled, Fresh
<1> QED BY <1>2, <1>3, <1>4, <1>5 DEF Inv

(* main goes on to stage to, and the connections stay as they are. *)
LEMMA GoesOnInv ==
    ASSUME Inv, main # "none", NEW to \in (Booting \cup Running), main' = to,
           UNCHANGED <<systemd, conn, replied, said, raised, env>>,
           stop' \in BOOLEAN, dns' \in BOOLEAN, serial' \in {"older", "same", "ahead"},
           listener' \in {"none", "accept", "handshake", "ended"},
           listener = "none" \/ listener' # "none",
           (\E c \in Conn : conn[c] = "handshake") => listener' = "handshake",
           log' = log \/ (Len(log) < 5 /\ log' = Append(log, MainEvents[Len(log) + 1])),
           Len(log') = Count(to), Fits(to, dns', listener')
    PROVE  Inv'
<1>1. log' \in Seq(MainEvent) /\ Len(log') >= Len(log) /\ Len(log') <= 5
      /\ \A i \in 1..Len(log') : log'[i] = MainEvents[i]
  BY LogGrows DEF Inv, TypeOK, Staged
<1>2. TypeOK'
  BY <1>1 DEF Inv, TypeOK, env, systemd
<1>3. Staged'
  BY <1>1 DEF Inv, Staged, systemd
<1>4. Opened'
  BY DEF Inv, Opened
<1>5. Handled'
  BY <1>1 DEF Inv, TypeOK, Handled, Fresh
<1> QED BY <1>2, <1>3, <1>4, <1>5 DEF Inv

LEMMA ReportsInv ==
    ASSUME Inv, NEW k \in 1..5, NEW from \in (Booting \cup Running),
           NEW to \in (Booting \cup Running), Reports(from, MainEvents[k], to),
           Count(from) = k - 1, Count(to) = k,
           \A d, l : Fits(from, d, l) => Fits(to, d, l)
    PROVE  Inv'
<1>1. main = from /\ main # "none" /\ Len(log) = k - 1 /\ Fits(main, dns, listener)
  BY StageFacts DEF Reports, Inv, Staged
<1>2. CASE Raises
  <2>1. Ends
    BY <1>2 DEF Reports, Raises, Appends
  <2>2. \/ log' = log
        \/ Len(log) < 5 /\ log' = Append(log, MainEvents[Len(log) + 1])
    BY <1>1, <1>2 DEF Reports, Event, Nothing, Raises, Appends
  <2>3. /\ UNCHANGED <<unit, recent, replied, said, env>> /\ raised' = TRUE
        /\ serial' \in {"older", "same", "ahead"}
    BY <1>2 DEF Reports, Event, Nothing, Raises, Appends, systemd, Inv, TypeOK
  <2> QED BY <2>1, <2>2, <2>3, EndsInv
<1>3. CASE Appends
  <2>1. /\ main' = to /\ log' = Append(log, MainEvents[Len(log) + 1]) /\ Len(log) < 5
        /\ UNCHANGED <<systemd, stop, dns, listener, conn, replied, said, raised, serial, env>>
    BY <1>1, <1>3 DEF Reports, Event, Nothing, Raises, Appends
  <2>2. Len(log') = Count(to)
    BY <1>1, <2>1 DEF Inv, TypeOK
  <2>3. /\ stop' \in BOOLEAN /\ dns' \in BOOLEAN /\ serial' \in {"older", "same", "ahead"}
        /\ listener' \in {"none", "accept", "handshake", "ended"}
    BY <2>1 DEF Inv, TypeOK
  <2>4. (\E c \in Conn : conn[c] = "handshake") => listener' = "handshake"
    BY <2>1 DEF Inv, Opened
  <2>5. Fits(to, dns', listener')
    BY <1>1, <2>1
  <2> QED BY <1>1, <2>1, <2>2, <2>3, <2>4, <2>5, GoesOnInv
<1> QED BY <1>2, <1>3 DEF Reports

LEMMA MainInv == ASSUME Inv, Main PROVE Inv'
<1> USE StageFacts
<1>1. ASSUME Exits, UNCHANGED <<systemd, serial, env>> PROVE Inv'
  BY <1>1, EndsInv DEF Exits, receipts, systemd, Inv, TypeOK
<1>2. CASE \/ Reports("seeded", "DOMAIN_AUTHORITY_READY", "dns")
           \/ Reports("bound", "DNS_LISTENING", "mesh")
           \/ Reports("listening", "MESH_LISTENING", "signals")
           \/ Reports("ready", "BACKBONE_READY", "run")
           \/ Reports("stopped", "BACKBONE_STOPPED", "bye")
  <2>1. /\ Count("seeded") = 0 /\ Count("dns") = 1 /\ Count("bound") = 1
        /\ Count("mesh") = 2 /\ Count("listening") = 2 /\ Count("signals") = 3
        /\ Count("ready") = 3 /\ Count("run") = 4 /\ Count("stopped") = 4 /\ Count("bye") = 5
    BY DEF Count
  <2>2. \A d, l : /\ Fits("seeded", d, l) => Fits("dns", d, l)
                  /\ Fits("bound", d, l) => Fits("mesh", d, l)
                  /\ Fits("listening", d, l) => Fits("signals", d, l)
                  /\ Fits("ready", d, l) => Fits("run", d, l)
                  /\ Fits("stopped", d, l) => Fits("bye", d, l)
    BY DEF Fits, Bound, Serving, Closing
  <2>3. 1 \in 1..5 /\ 2 \in 1..5 /\ 3 \in 1..5 /\ 4 \in 1..5 /\ 5 \in 1..5
    OBVIOUS
  <2>4. ASSUME Reports("seeded", "DOMAIN_AUTHORITY_READY", "dns") PROVE Inv'
    BY <2>1, <2>2, <2>3, <2>4, EventFacts, ReportsInv
  <2>5. ASSUME Reports("bound", "DNS_LISTENING", "mesh") PROVE Inv'
    BY <2>1, <2>2, <2>3, <2>5, EventFacts, ReportsInv
  <2>6. ASSUME Reports("listening", "MESH_LISTENING", "signals") PROVE Inv'
    BY <2>1, <2>2, <2>3, <2>6, EventFacts, ReportsInv
  <2>7. ASSUME Reports("ready", "BACKBONE_READY", "run") PROVE Inv'
    BY <2>1, <2>2, <2>3, <2>7, EventFacts, ReportsInv
  <2>8. ASSUME Reports("stopped", "BACKBONE_STOPPED", "bye") PROVE Inv'
    BY <2>1, <2>2, <2>3, <2>8, EventFacts, ReportsInv
  <2> QED BY <1>2, <2>4, <2>5, <2>6, <2>7, <2>8
<1>3. CASE ConfigFails \/ Return
  BY <1>1, <1>3 DEF ConfigFails, Return
<1>4. ASSUME NEW to \in (Booting \cup Running), main # "none", main' = to,
             Count(to) = Count(main),
             UNCHANGED <<systemd, stop, conn, replied, receipts, env>>,
             dns' \in BOOLEAN, serial' \in {"older", "same", "ahead"},
             listener' = listener \/ (listener' = "accept" /\ listener = "none"),
             Fits(to, dns', listener')
      PROVE  Inv'
  <2>1. UNCHANGED <<log, said, raised>> /\ Len(log') = Count(to)
    BY <1>4 DEF receipts, Inv, Staged
  <2>2. /\ stop' \in BOOLEAN /\ listener' \in {"none", "accept", "handshake", "ended"}
        /\ listener = "none" \/ listener' # "none"
    BY <1>4 DEF Inv, TypeOK
  <2>3. (\E c \in Conn : conn[c] = "handshake") => listener' = "handshake"
    BY <1>4 DEF Inv, Opened
  <2> QED BY <1>4, <2>1, <2>2, <2>3, GoesOnInv
<1> DEFINE Rest == UNCHANGED <<systemd, stop, conn, replied, receipts, env>>
<1>t. /\ dns \in BOOLEAN /\ serial \in {"older", "same", "ahead"}
      /\ Fits(main, dns, listener)
  BY DEF Inv, TypeOK, Staged
<1>5. CASE Seed
  <2>1. CASE serial = "ahead"
    BY <1>1, <1>5, <2>1 DEF Seed
  <2>2. CASE serial # "ahead"
    <3>1. /\ main = "seed" /\ main' = "seeded" /\ serial' = "same"
          /\ UNCHANGED <<dns, listener>> /\ Rest
      BY <1>5, <2>2 DEF Seed
    <3>2. Count("seeded") = Count(main) /\ Fits("seeded", dns', listener')
      BY <1>t, <3>1 DEF Count, Fits, Bound, Serving, Closing
    <3> QED BY <1>4, <1>t, <3>1, <3>2
  <2> QED BY <2>1, <2>2
<1>6. CASE StartDns
  <2>1. CASE fault = "start"
    BY <1>1, <1>6, <2>1 DEF StartDns
  <2>2. CASE fault # "start"
    <3>1. /\ main = "dns" /\ main' = "bound" /\ dns' = TRUE
          /\ UNCHANGED <<serial, listener>> /\ Rest
      BY <1>6, <2>2 DEF StartDns
    <3>2. Count("bound") = Count(main) /\ Fits("bound", dns', listener')
      BY <1>t, <3>1 DEF Count, Fits, Bound, Serving, Closing
    <3> QED BY <1>4, <1>t, <3>1, <3>2
  <2> QED BY <2>1, <2>2
<1>7. CASE StartMesh
  <2>1. CASE fault = "start"
    BY <1>1, <1>7, <2>1 DEF StartMesh
  <2>2. CASE fault # "start"
    <3>1. /\ main = "mesh" /\ main' = "listening" /\ listener' = "accept"
          /\ UNCHANGED <<serial, dns>> /\ Rest
      BY <1>7, <2>2 DEF StartMesh
    <3>2. /\ Count("listening") = Count(main) /\ listener = "none"
          /\ Fits("listening", dns', listener')
      BY <1>t, <3>1 DEF Count, Fits, Bound, Serving, Closing
    <3> QED BY <1>4, <1>t, <3>1, <3>2
  <2> QED BY <2>1, <2>2
<1>8. CASE SetSignals
  <2>1. /\ main = "signals" /\ main' = "ready"
        /\ UNCHANGED <<serial, dns, listener>> /\ Rest
    BY <1>8 DEF SetSignals, Goto
  <2>2. Count("ready") = Count(main) /\ Fits("ready", dns', listener')
    BY <1>t, <2>1 DEF Count, Fits, Bound, Serving, Closing
  <2> QED BY <1>4, <1>t, <2>1, <2>2
<1>9. CASE Leave
  <2>1. /\ main = "run" /\ main' = "shutdown"
        /\ UNCHANGED <<serial, dns, listener>> /\ Rest
    BY <1>9 DEF Leave, Goto
  <2>2. Count("shutdown") = Count(main) /\ Fits("shutdown", dns', listener')
    BY <1>t, <2>1 DEF Count, Fits, Bound, Serving, Closing
  <2> QED BY <1>4, <1>t, <2>1, <2>2
<1>10. CASE StopDns
  <2>1. /\ main = "stopdns" /\ main' = "stopped" /\ dns' = FALSE
        /\ UNCHANGED <<serial, listener>> /\ Rest
    BY <1>10 DEF StopDns, Goto
  <2>2. Count("stopped") = Count(main) /\ Fits("stopped", dns', listener')
    BY <1>t, <2>1 DEF Count, Fits, Bound, Serving, Closing
  <2> QED BY <1>4, <1>t, <2>1, <2>2
<1>11. CASE Shutdown
  <2>1. /\ main = "shutdown" /\ main' = "stopdns" /\ listener = "ended"
        /\ UNCHANGED <<systemd, stop, dns, listener, replied, log, said, raised, serial, env>>
        /\ \A c \in Conn : conn'[c] = IF conn[c] = "queued" THEN "closed" ELSE conn[c]
    BY <1>11 DEF Shutdown, Goto, receipts
  <2>2. TypeOK'
    BY <1>11, <2>1 DEF Shutdown, systemd, env, Inv, TypeOK
  <2>3. Staged'
    BY <2>1 DEF systemd, Inv, Staged, Fits, Count, Bound, Serving, Closing
  <2>4. Opened'
    BY <2>1 DEF Inv, Opened
  <2>5. Handled'
    BY <2>1 DEF Inv, Handled, Fresh
  <2> QED BY <2>2, <2>3, <2>4, <2>5 DEF Inv
<1> QED BY <1>2, <1>3, <1>5, <1>6, <1>7, <1>8, <1>9, <1>10, <1>11 DEF Main

-----------------------------------------------------------------------------
(* The steps of a connection *)

(* A connection goes from one stage to another: the sessions' log and main *)
(* have nothing to do with it.                                             *)
LEMMA ConnInv ==
    ASSUME Inv, NEW c \in Conn,
           NEW to \in {"queued", "handshake", "reading", "answered", "refused", "closed"},
           Becomes(c, conn[c], to), UNCHANGED <<systemd, main, stop, dns, log, serial, env>>,
           replied' \subseteq Conn, said' \in [Conn -> SUBSET ConnEvent], raised' \in BOOLEAN,
           raised => raised',
           listener' = listener
              \/ (listener \in {"accept", "handshake"} /\ listener' \in {"accept", "handshake"}),
           listener # "none",
           to = "handshake" => listener = "accept" /\ listener' = "handshake",
           listener' # listener /\ to # "handshake" => conn[c] = "handshake",
           \A d \in Conn : d # c => said'[d] = said[d] /\ (d \in replied' <=> d \in replied),
           "MESH_INBOUND" \in said'[c] => c \in replied',
           to \in {"queued", "handshake", "reading"} =>
              Fresh(c) /\ UNCHANGED <<said, replied>>,
           to = "answered" => c \in replied',
           c \in replied' /\ ~ raised' =>
              /\ to # "refused" /\ "MESH_INBOUND_REJECT" \notin said'[c]
              /\ to = "closed" => "MESH_INBOUND" \in said'[c]
    PROVE  Inv'
<1>1. conn' = [conn EXCEPT ![c] = to]
  BY DEF Becomes
<1>2. /\ conn'[c] = to /\ \A d \in Conn : d # c => conn'[d] = conn[d]
      /\ conn' \in [Conn -> {"new", "queued", "handshake", "reading", "answered", "refused",
                            "closed"}]
  BY <1>1 DEF Inv, TypeOK
<1>3. TypeOK'
  BY <1>2 DEF Inv, TypeOK, systemd, env
<1>4. Staged'
  BY DEF Inv, Staged, Fits, Serving, Closing, systemd
<1>5. Opened'
  BY <1>2 DEF Inv, Opened
<1>6. main \in Serving \cup Closing \cup {"shutdown"}
  BY DEF Inv, Staged, Fits
<1>7. main # "none" /\ Len(log) >= 2
  BY <1>6 DEF Inv, Staged, Count, Serving, Closing
<1>8. Handled'
  BY <1>2, <1>7 DEF Inv, Handled, Fresh
<1> QED BY <1>3, <1>4, <1>5, <1>8 DEF Inv

LEMMA PeerInv ==
    ASSUME Inv, NEW c \in Conn,
           Connect(c) \/ Accept(c) \/ Handshake(c) \/ Answer(c) \/ Refuse(c) \/ HangsUp(c)
    PROVE  Inv'
<1> DEFINE Rest == UNCHANGED <<systemd, main, stop, dns, log, said, raised, serial, env>>
<1>t. /\ replied \subseteq Conn /\ said \in [Conn -> SUBSET ConnEvent] /\ raised \in BOOLEAN
      /\ "MESH_INBOUND" \in said[c] => c \in replied
      /\ conn[c] # "new" => listener # "none"
      /\ conn[c] = "handshake" => listener = "handshake"
      /\ Fresh(c) /\ listener # "none" => c \notin replied /\ said[c] = {}
  <2>1. listener # "none" => main # "none"
    BY DEF Inv, Staged, Fits, Serving, Closing
  <2> QED BY <2>1 DEF Inv, TypeOK, Handled, Opened
<1>1. CASE Connect(c)
  <2>1. Becomes(c, conn[c], "queued") /\ listener # "none" /\ Fresh(c)
        /\ UNCHANGED <<listener, replied>> /\ Rest
    BY <1>1 DEF Connect, Becomes, Fresh, receipts
  <2> QED BY <1>t, <2>1, ConnInv
<1>2. CASE Accept(c)
  <2>1. /\ listener = "accept" /\ Fresh(c) /\ UNCHANGED replied /\ Rest
        /\ \/ Becomes(c, conn[c], "handshake") /\ listener' = "handshake"
           \/ Becomes(c, conn[c], "reading") /\ listener' = listener
    BY <1>2 DEF Accept, Becomes, Fresh, receipts
  <2> QED BY <1>t, <2>1, ConnInv
<1>3. CASE Handshake(c)
  <2>1. /\ conn[c] = "handshake" /\ listener = "handshake" /\ listener' = "accept" /\ Fresh(c)
        /\ UNCHANGED replied /\ Rest
        /\ \/ Becomes(c, conn[c], "reading")
           \/ Becomes(c, conn[c], "closed")
    BY <1>3, <1>t DEF Handshake, Becomes, Fresh, receipts
  <2> QED BY <1>t, <2>1, ConnInv
<1>4. CASE Answer(c)
  <2>1. /\ Becomes(c, conn[c], "answered") /\ listener # "none" /\ Fresh(c)
        /\ replied' = replied \cup {c} /\ UNCHANGED listener /\ Rest
    BY <1>4, <1>t DEF Answer, Becomes, Fresh, receipts
  <2> QED BY <1>t, <2>1, ConnInv
<1>5. CASE Refuse(c) \/ HangsUp(c)
  <2>1. /\ listener # "none" /\ Fresh(c) /\ UNCHANGED <<listener, replied>> /\ Rest
        /\ \/ Becomes(c, conn[c], "refused")
           \/ Becomes(c, conn[c], "closed")
    BY <1>5, <1>t DEF Refuse, HangsUp, Becomes, Fresh, receipts
  <2> QED BY <1>t, <2>1, ConnInv
<1> QED BY <1>1, <1>2, <1>3, <1>4, <1>5

LEMMA LogInv == ASSUME Inv, NEW c \in Conn, LogAccept(c) \/ LogReject(c) PROVE Inv'
<1> DEFINE Rest == UNCHANGED <<systemd, main, stop, dns, log, listener, replied, serial, env>>
<1>t. /\ replied \subseteq Conn /\ said \in [Conn -> SUBSET ConnEvent] /\ raised \in BOOLEAN
      /\ "MESH_INBOUND" \in said[c] => c \in replied
      /\ conn[c] # "new" => listener # "none"
      /\ conn[c] = "answered" => c \in replied
      /\ c \in replied /\ ~ raised =>
            conn[c] # "refused" /\ "MESH_INBOUND_REJECT" \notin said[c]
  BY DEF Inv, TypeOK, Handled, Opened
<1>1. CASE LogAccept(c)
  <2>1. /\ conn[c] = "answered" /\ Rest
        /\ \/ /\ said' = [said EXCEPT ![c] = @ \cup {"MESH_INBOUND"}] /\ raised' = raised
              /\ Becomes(c, conn[c], "closed")
           \/ /\ raised' = TRUE /\ Becomes(c, conn[c], "refused")
              /\ said' = said \/ said' = [said EXCEPT ![c] = @ \cup {"MESH_INBOUND"}]
    BY <1>1 DEF LogAccept, Becomes, Appends, Raises, ConnReceipt, Nothing
  <2>2. /\ said' \in [Conn -> SUBSET ConnEvent]
        /\ \A d \in Conn : d # c => said'[d] = said[d]
        /\ said'[c] = said[c] \/ said'[c] = said[c] \cup {"MESH_INBOUND"}
    BY <1>t, <2>1 DEF ConnEvent
  <2>3. raised' = raised => said'[c] = said[c] \cup {"MESH_INBOUND"} \/ raised'
    BY <1>t, <2>1
  <2>4. c \in replied' /\ (raised => raised') /\ raised' \in BOOLEAN /\ listener # "none"
    BY <1>t, <2>1
  <2>5. CASE Becomes(c, conn[c], "closed") /\ raised' = raised
             /\ said'[c] = said[c] \cup {"MESH_INBOUND"}
    BY <1>t, <2>1, <2>2, <2>4, <2>5, ConnInv
  <2>6. CASE Becomes(c, conn[c], "refused") /\ raised' = TRUE
    BY <1>t, <2>1, <2>2, <2>4, <2>6, ConnInv
  <2> QED BY <1>t, <2>1, <2>5, <2>6
<1>2. CASE LogReject(c)
  <2>1. /\ conn[c] = "refused" /\ Rest /\ Becomes(c, conn[c], "closed")
        /\ \/ said' = [said EXCEPT ![c] = @ \cup {"MESH_INBOUND_REJECT"}] /\ raised' = raised
           \/ /\ raised' = TRUE
              /\ said' = said \/ said' = [said EXCEPT ![c] = @ \cup {"MESH_INBOUND_REJECT"}]
    BY <1>2 DEF LogReject, Becomes, Appends, Raises, ConnReceipt, Nothing
  <2>2. /\ said' \in [Conn -> SUBSET ConnEvent]
        /\ \A d \in Conn : d # c => said'[d] = said[d]
        /\ said'[c] = said[c] \/ said'[c] = said[c] \cup {"MESH_INBOUND_REJECT"}
    BY <1>t, <2>1 DEF ConnEvent
  <2>3. /\ c \in replied' => raised'
        /\ "MESH_INBOUND" \in said'[c] => c \in replied'
    BY <1>t, <2>1, <2>2
  <2>4. raised' \in BOOLEAN /\ (raised => raised')
    <3>1. CASE raised' = raised
      BY <1>t, <3>1
    <3>2. CASE raised' = TRUE
      BY <3>2
    <3> QED BY <2>1, <3>1, <3>2
  <2>5. c \in replied' /\ ~ raised' => FALSE
    BY <2>3
  <2>6. /\ UNCHANGED <<systemd, main, stop, dns, log, serial, env>>
        /\ listener' = listener /\ replied' = replied /\ replied' \subseteq Conn
        /\ listener # "none" /\ Becomes(c, conn[c], "closed")
    BY <1>t, <2>1
  <2> HIDE DEF Rest
  <2> QED BY <2>2, <2>3, <2>4, <2>5, <2>6, ConnInv
<1> QED BY <1>1, <1>2

LEMMA ListenerEndsInv == ASSUME Inv, ListenerEnds PROVE Inv'
<1>1. /\ main = "shutdown" /\ main' = "shutdown" /\ listener = "accept" /\ listener' = "ended"
      /\ UNCHANGED <<systemd, stop, dns, conn, replied, log, said, raised, serial, env>>
  BY DEF ListenerEnds, receipts
<1>2. Len(log') = Count("shutdown") /\ Fits("shutdown", dns', listener')
  BY <1>1 DEF Inv, Staged, Fits, Serving, Closing
<1>3. ~ \E c \in Conn : conn[c] = "handshake"
  BY <1>1 DEF Inv, Opened
<1>4. /\ stop' \in BOOLEAN /\ dns' \in BOOLEAN /\ serial' \in {"older", "same", "ahead"}
      /\ listener' \in {"none", "accept", "handshake", "ended"} /\ log' = log
  BY <1>1 DEF Inv, TypeOK
<1> QED BY <1>1, <1>2, <1>3, <1>4, StageFacts, GoesOnInv

-----------------------------------------------------------------------------
(* The steps of systemd and the environment *)

(* The process and its connections stay as they are. *)
LEMMA OutsideInv ==
    ASSUME Inv, UNCHANGED <<main, dns, listener, conn, replied, receipts>>,
           unit' \in {"inactive", "starting", "active", "stopping", "restarting", "failed"},
           recent' \in 0..Burst, stop' \in BOOLEAN, serial' \in {"older", "same", "ahead"},
           fault' \in {"none", "disk", "start"}, calm' \in BOOLEAN,
           main # "none" => unit' \in {"active", "stopping"}
    PROVE  Inv'
<1>1. UNCHANGED <<log, said, raised>>
  BY DEF receipts
<1>2. TypeOK'
  BY <1>1 DEF Inv, TypeOK
<1>3. Staged' /\ Opened' /\ Handled'
  BY <1>1 DEF Inv, Staged, Fits, Opened, Handled, Fresh
<1> QED BY <1>2, <1>3 DEF Inv

LEMMA SystemInv ==
    ASSUME Inv, \/ Trouble \/ CalmsDown \/ HourPasses \/ Crash \/ StartUnit \/ IntervalEnds
                \/ SelfTest \/ Reap \/ StopUnit \/ Kill
    PROVE  Inv'
<1>t. /\ unit \in {"inactive", "starting", "active", "stopping", "restarting", "failed"}
      /\ recent \in 0..Burst /\ stop \in BOOLEAN /\ serial \in {"older", "same", "ahead"}
      /\ fault \in {"none", "disk", "start"} /\ calm \in BOOLEAN
      /\ main # "none" => unit \in {"active", "stopping"}
  BY DEF Inv, TypeOK, Staged
<1> DEFINE Kept == UNCHANGED <<main, dns, listener, conn, replied, receipts>>
<1>1. CASE Trouble \/ CalmsDown \/ HourPasses
  <2>1. /\ Kept /\ UNCHANGED <<unit, recent, stop>> /\ fault' \in {"none", "disk", "start"}
        /\ serial' \in {"older", "same", "ahead"} /\ calm' \in BOOLEAN
    BY <1>1, <1>t DEF Trouble, CalmsDown, HourPasses, process, systemd, env
  <2> QED BY <1>t, <2>1, OutsideInv
<1>2. ASSUME Exits, UNCHANGED <<systemd, serial, env>> PROVE Inv'
  BY <1>2, <1>t, EndsInv DEF Exits, receipts, systemd, Inv, TypeOK
<1>3. CASE Crash \/ Kill
  BY <1>2, <1>3 DEF Crash, Kill
<1>4. CASE StartUnit
  <2>1. /\ Kept /\ UNCHANGED <<stop, serial, fault, calm>> /\ unit' \in {"failed", "starting"}
        /\ recent' = recent \/ (recent # Burst /\ recent' = recent + 1)
        /\ unit \notin {"active", "stopping"}
    BY <1>4 DEF StartUnit, process, env
  <2>2. recent' \in 0..Burst
    BY <1>t, <2>1, ConfigAssumption DEF ConfigAssumption
  <2> QED BY <1>t, <2>1, <2>2, OutsideInv
<1>5. CASE IntervalEnds \/ Reap
  <2>1. /\ Kept /\ UNCHANGED <<stop, serial, fault, calm>>
        /\ recent' \in 0..Burst
        /\ unit' = unit \/ (main = "none" /\ unit' \in {"restarting", "inactive"})
    BY <1>5, <1>t, ConfigAssumption DEF ConfigAssumption, IntervalEnds, Reap, process, env
  <2> QED BY <1>t, <2>1, OutsideInv
<1>6. CASE SelfTest
  <2>0. main = "none" /\ UNCHANGED <<recent, serial, fault, calm>>
    BY <1>6, <1>t DEF SelfTest, env
  <2>1. CASE fault = "start"
    <3>1. Kept /\ UNCHANGED stop /\ unit' = "restarting"
      BY <1>6, <2>1 DEF SelfTest, process
    <3> QED BY <1>t, <2>0, <3>1, OutsideInv
  <2>2. CASE fault # "start"
    <3>1. /\ unit' = "active" /\ main' = "seed" /\ log' = <<>> /\ replied' = {}
          /\ raised' = FALSE /\ said' = [c \in Conn |-> {}]
          /\ UNCHANGED <<stop, dns, listener, conn>>
      BY <1>6, <2>2 DEF SelfTest
    <3>2. TypeOK'
      <4>1. log' \in Seq(MainEvent) /\ said' \in [Conn -> SUBSET ConnEvent]
            /\ replied' \subseteq Conn /\ raised' \in BOOLEAN
        <5>1. replied' \subseteq Conn /\ raised' \in BOOLEAN
          BY <3>1
        <5>2. log' \in Seq(MainEvent)
          BY <3>1, SMT
        <5>3. said' \in [Conn -> SUBSET ConnEvent]
          BY <3>1
        <5> QED BY <5>1, <5>2, <5>3
      <4> QED BY <2>0, <3>1, <4>1, StageFacts DEF Inv, TypeOK
    <3>3. Staged'
      BY <2>0, <3>1 DEF Inv, Staged, Fits, Count, Bound, Serving, Closing
    <3>4. Opened' /\ Handled'
      BY <2>0, <3>1 DEF Inv, Opened, Handled, Fresh, Staged, Fits, Serving, Closing
    <3> QED BY <3>2, <3>3, <3>4 DEF Inv
  <2> QED BY <2>1, <2>2
<1>7. CASE StopUnit
  <2>1. UNCHANGED <<recent, serial, fault, calm>>
    BY <1>7 DEF StopUnit, env
  <2>2. CASE unit \in {"starting", "restarting"}
    <3>1. Kept /\ UNCHANGED stop /\ unit' = "inactive"
      BY <1>7, <2>2 DEF StopUnit, process
    <3> QED BY <1>t, <2>1, <2>2, <3>1, OutsideInv
  <2>3. CASE unit = "active" /\ main \in Booting
    <3>1. Exits /\ unit' = "stopping"
      BY <1>7, <2>3 DEF StopUnit
    <3>2. TypeOK' /\ Staged' /\ Opened' /\ Handled'
      <4>1. UNCHANGED <<replied, log, said, raised>> /\ Ends
        BY <3>1 DEF Exits, receipts
      <4>2. TypeOK'
        BY <2>1, <3>1, <4>1 DEF Ends, Inv, TypeOK
      <4>3. Staged'
        BY <4>1 DEF Ends, Inv, TypeOK, Staged, Fits, Bound, Serving, Closing
      <4>4. Opened' /\ Handled'
        BY <4>1 DEF Ends, Inv, Opened, Handled, Fresh
      <4> QED BY <4>2, <4>3, <4>4
    <3> QED BY <3>2 DEF Inv
  <2>4. CASE unit = "active" /\ main \notin Booting
    <3>1. Kept /\ stop' = TRUE /\ unit' = "stopping"
      BY <1>7, <2>4 DEF StopUnit
    <3> QED BY <1>t, <2>1, <3>1, OutsideInv
  <2> QED BY <1>7, <2>2, <2>3, <2>4 DEF StopUnit
<1> QED BY <1>1, <1>3, <1>4, <1>5, <1>6, <1>7

LEMMA NextInv == Inv /\ [Next]_vars => Inv'
<1> SUFFICES ASSUME Inv, [Next]_vars PROVE Inv'
  OBVIOUS
<1>1. CASE UNCHANGED vars
  BY <1>1, OutsideInv DEF vars, systemd, process, env, Inv, TypeOK, Staged
<1>2. CASE Next
  BY <1>2, MainInv, ListenerEndsInv, SystemInv, PeerInv, LogInv DEF Next, Serve
<1> QED BY <1>1, <1>2

LEMMA AlwaysInv == Spec => []Inv
BY InitInv, NextInv, PTL DEF Spec

-----------------------------------------------------------------------------
(* Types, of every configuration. *)
THEOREM TypesHold == Spec => []TypeOK
<1>1. Inv => TypeOK
  BY DEF Inv
<1> QED BY <1>1, AlwaysInv, PTL

(* Every session's receipts come in their order, none left out, and are    *)
(* true of the process while it lasts.                                     *)
THEOREM ReceiptsAreTheSessions == Spec => []ReceiptsTellTheSession
<1>1. Inv => ReceiptsTellTheSession
  <2> SUFFICES ASSUME Inv PROVE ReceiptsTellTheSession
    OBVIOUS
  <2>1. /\ Len(log) \in Nat /\ Len(log) <= 5
        /\ \A i \in 1..Len(log) : log[i] = MainEvents[i]
    BY DEF Inv, TypeOK, Staged
  <2>2. \A i \in 1..5 : i \in {1, 2, 3, 4, 5}
    OBVIOUS
  <2>3. /\ Told("DNS_LISTENING") => Len(log) >= 2
        /\ Told("BACKBONE_READY") => Len(log) >= 4
        /\ Told("BACKBONE_STOPPED") => Len(log) >= 5
        /\ Len(log) >= 2 => Told("DNS_LISTENING")
    BY <2>1, <2>2, EventFacts DEF Told
  <2>4. main # "none" => Len(log) = Count(main) /\ main \in Booting \cup Running
    BY DEF Inv, TypeOK, Staged
  <2>5. Told("DNS_LISTENING") /\ main \notin {"none", "stopped", "bye"} => dns
    BY <2>3, <2>4, StageFacts DEF Inv, Staged, Fits, Count, Bound
  <2>6. Told("BACKBONE_READY") /\ main = "run" => listener \in {"accept", "handshake"}
    BY DEF Inv, Staged, Fits, Serving
  <2>7. Told("BACKBONE_STOPPED") /\ main # "none" => ~ dns /\ listener = "ended"
    BY <2>3, <2>4, StageFacts DEF Inv, Staged, Fits, Count, Bound, Closing
  <2>8. \A c \in Conn : said[c] # {} => Told("DNS_LISTENING")
    BY <2>3 DEF Inv, Handled
  <2> QED BY <2>1, <2>5, <2>6, <2>7, <2>8, EventFacts DEF ReceiptsTellTheSession
<1> QED BY <1>1, AlwaysInv, PTL

(* An accepted request was answered; an answered one is refused in the     *)
(* log, or not in it, only where a receipt has raised.                     *)
THEOREM InboundReceiptsHold == Spec => []InboundReceiptsAreTrue
<1>1. Inv => InboundReceiptsAreTrue
  BY DEF Inv, Handled, InboundReceiptsAreTrue
<1> QED BY <1>1, AlwaysInv, PTL

-----------------------------------------------------------------------------
(* Stopping, and waiting in the queue of the listener *)

(* A process that is asked to stop has its handlers and knows, the         *)
(* listener's handshake is of a connection that is there, and the queue is *)
(* gone with the socket.                                                   *)
Halting ==
    /\ unit = "stopping" /\ main # "none" => main \in Running /\ stop
    /\ listener = "handshake" => \E c \in Conn : conn[c] = "handshake"
    /\ \A c \in Conn : conn[c] = "queued" => main \notin Closing

(* The stages that are left of a stop; accepting connections is none. *)
Left == CASE main = "ready" -> 9
          [] main = "run" -> 8
          [] main = "shutdown" -> IF listener = "ended" THEN 6 ELSE 7
          [] main = "stopdns" -> 5
          [] main = "stopped" -> 4
          [] main = "bye" -> 3
          [] main = "none" -> IF unit = "stopping" THEN 1 ELSE 0
          [] OTHER -> 10

StopMovesOn ==
    unit = "stopping" => /\ unit' \in {"stopping", "inactive"}
                         /\ Left' <= Left
                         /\ Main \/ ListenerEnds \/ Kill \/ Reap => Left' < Left

(* A step of main, of the listener or of systemd is due. *)
StopIsDue ==
    unit = "stopping" =>
       \/ main \in {"none", "ready", "stopdns", "stopped", "bye"}
       \/ main = "run" /\ stop
       \/ main = "shutdown" /\ listener \in {"accept", "ended", "handshake"}

(* A connection in the queue is before a listener that accepts, or that is *)
(* in the handshake of another one, or it is about to be reset.            *)
QueueIsAttended ==
    \A c \in Conn : conn[c] = "queued" =>
       \/ listener = "accept"
       \/ listener = "handshake" /\ \E d \in Conn : conn[d] = "handshake"
       \/ listener = "ended" /\ main = "shutdown"

LEMMA EndsHalting ==
    ASSUME Ends PROVE Halting' /\ Left' = IF unit' = "stopping" THEN 1 ELSE 0
BY DEF Ends, Halting, Left

LEMMA LeftFacts ==
    ASSUME Inv, Halting, unit = "stopping"
    PROVE  /\ Left \in 1..9
           /\ main # "none" => Left \in 3..9
BY StageFacts DEF Halting, Left, Inv, TypeOK

(* main goes from one stage to the next, with or without what it brings up *)
(* or takes down.                                                          *)
LEMMA StageHalting ==
    ASSUME Inv, Halting, NEW to \in (Booting \cup Running), main' = to,
           UNCHANGED <<unit, stop>>,
           \/ main \in Booting /\ UNCHANGED conn
              /\ (listener' = listener \/ listener' = "accept")
           \/ main = "ready" /\ to = "run" /\ UNCHANGED <<listener, conn>>
           \/ main = "run" /\ to = "shutdown" /\ UNCHANGED <<listener, conn>>
           \/ main = "shutdown" /\ to = "stopdns" /\ listener = "ended" /\ UNCHANGED listener
              /\ \A c \in Conn : conn'[c] = IF conn[c] = "queued" THEN "closed" ELSE conn[c]
           \/ main = "stopdns" /\ to = "stopped" /\ UNCHANGED <<listener, conn>>
           \/ main = "stopped" /\ to = "bye" /\ UNCHANGED <<listener, conn>>,
           main \in Booting => to \in Booting \cup {"ready"}
    PROVE  /\ Halting'
           /\ unit = "stopping" => Left' < Left
<1> USE StageFacts
<1>1. /\ main # "none"
      /\ main \in {"ready", "run"} => listener \in {"accept", "handshake"}
  BY DEF Inv, Staged, Fits, Serving
<1>2. unit = "stopping" => main \in Running /\ stop /\ to \in Running /\ Left' < Left
  BY <1>1 DEF Halting, Left
<1>3. listener' = "handshake" => \E c \in Conn : conn'[c] = "handshake"
  BY DEF Halting
<1>4. \A c \in Conn : conn'[c] = "queued" => main' \notin Closing
  BY DEF Halting, Closing
<1> QED BY <1>2, <1>3, <1>4 DEF Halting

LEMMA MainHalting ==
    ASSUME Inv, Halting, Main
    PROVE  /\ Halting'
           /\ unit = "stopping" => UNCHANGED unit /\ Left' < Left
<1> USE StageFacts
<1>1. UNCHANGED unit /\ main # "none"
  BY DEF Main, ConfigFails, Seed, Reports, StartDns, StartMesh, SetSignals, Leave, Shutdown,
         StopDns, Return, Goto, systemd
<1>2. CASE Ends
  <2>1. unit = "stopping" => Left \in 3..9
    BY <1>1, LeftFacts
  <2> QED BY <1>1, <1>2, <2>1, EndsHalting
<1>3. CASE ~ Ends
  <2>1. CASE ConfigFails \/ Return
    BY <1>3, <2>1 DEF ConfigFails, Return, Exits
  <2>2. CASE Seed \/ StartDns \/ StartMesh \/ SetSignals
    <3>1. /\ main \in Booting /\ main' \in Booting \cup {"ready"} /\ UNCHANGED <<stop, conn>>
          /\ listener' = listener \/ listener' = "accept"
      BY <1>3, <2>2 DEF Seed, StartDns, StartMesh, SetSignals, Goto, Exits
    <3> QED BY <1>1, <3>1, StageHalting
  <2>3. ASSUME NEW from, NEW e, NEW to, Reports(from, e, to)
        PROVE  main = from /\ main' = to /\ UNCHANGED <<stop, listener, conn>>
    BY <1>3, <2>3 DEF Reports
  <2>4. CASE \/ Reports("seeded", "DOMAIN_AUTHORITY_READY", "dns")
             \/ Reports("bound", "DNS_LISTENING", "mesh")
             \/ Reports("listening", "MESH_LISTENING", "signals")
    <3>1. main \in Booting /\ main' \in Booting /\ UNCHANGED <<stop, listener, conn>>
      BY <2>3, <2>4
    <3> QED BY <1>1, <3>1, StageHalting
  <2>5. CASE \/ Reports("ready", "BACKBONE_READY", "run")
             \/ Reports("stopped", "BACKBONE_STOPPED", "bye")
    <3>1. \/ main = "ready" /\ main' = "run"
          \/ main = "stopped" /\ main' = "bye"
      BY <2>3, <2>5
    <3>2. UNCHANGED <<stop, listener, conn>>
      BY <2>3, <2>5
    <3> QED BY <1>1, <3>1, <3>2, StageHalting
  <2>6. CASE Leave \/ StopDns
    <3>1. /\ \/ main = "run" /\ main' = "shutdown"
             \/ main = "stopdns" /\ main' = "stopped"
          /\ UNCHANGED <<stop, listener, conn>>
      BY <2>6 DEF Leave, StopDns, Goto
    <3> QED BY <1>1, <3>1, StageHalting
  <2>7. CASE Shutdown
    <3>1. /\ main = "shutdown" /\ main' = "stopdns" /\ listener = "ended"
          /\ UNCHANGED <<stop, listener>>
          /\ \A c \in Conn : conn'[c] = IF conn[c] = "queued" THEN "closed" ELSE conn[c]
      BY <2>7 DEF Shutdown, Goto
    <3> QED BY <1>1, <3>1, StageHalting
  <2> QED BY <2>1, <2>2, <2>4, <2>5, <2>6, <2>7 DEF Main
<1> QED BY <1>2, <1>3

LEMMA ConnHalting ==
    ASSUME Inv, Halting, NEW c \in Conn,
           Connect(c) \/ Handshake(c) \/ Serve(c) \/ Answer(c) \/ Refuse(c) \/ HangsUp(c)
    PROVE  /\ Halting'
           /\ unit = "stopping" => UNCHANGED unit /\ Left' = Left
<1>1. UNCHANGED <<unit, main, stop>>
  BY DEF Connect, Accept, Handshake, Serve, LogAccept, LogReject, Answer, Refuse, HangsUp,
         systemd
<1>2. PICK from, to \in {"new", "queued", "handshake", "reading", "answered", "refused",
                         "closed"} :
        /\ conn[c] = from /\ conn' = [conn EXCEPT ![c] = to]
        /\ \/ from # "handshake" /\ to # "handshake" /\ UNCHANGED listener
           \/ from = "queued" /\ to = "handshake" /\ listener = "accept"
              /\ listener' = "handshake"
           \/ from = "handshake" /\ to # "handshake" /\ listener' = "accept"
        /\ to = "queued" => main \notin Closing
  BY DEF Connect, Accept, Handshake, Serve, LogAccept, LogReject, Answer, Refuse, HangsUp,
         Becomes, Closing
<1>3. conn'[c] = to /\ \A d \in Conn : d # c => conn'[d] = conn[d]
  BY <1>2 DEF Inv, TypeOK
<1>4. listener' = "handshake" => \E d \in Conn : conn'[d] = "handshake"
  BY <1>2, <1>3 DEF Halting
<1>5. \A d \in Conn : conn'[d] = "queued" => main \notin Closing
  BY <1>2, <1>3 DEF Halting
<1>6. listener' = "ended" <=> listener = "ended"
  BY <1>2 DEF Inv, Opened
<1> QED BY <1>1, <1>4, <1>5, <1>6 DEF Halting, Left

LEMMA ListenerHalting ==
    ASSUME Inv, Halting, ListenerEnds
    PROVE  /\ Halting'
           /\ unit = "stopping" => UNCHANGED unit /\ Left' < Left
<1>1. /\ main = "shutdown" /\ listener = "accept" /\ listener' = "ended"
      /\ UNCHANGED <<unit, main, stop, conn>>
  BY DEF ListenerEnds, systemd
<1> QED BY <1>1 DEF Halting, Left

LEMMA SystemHalting ==
    ASSUME Inv, Halting,
           \/ Trouble \/ CalmsDown \/ HourPasses \/ Crash \/ StartUnit \/ IntervalEnds
           \/ SelfTest \/ Reap \/ StopUnit \/ Kill \/ UNCHANGED vars
    PROVE  /\ Halting'
           /\ unit = "stopping" =>
                 /\ unit' \in {"stopping", "inactive"} /\ Left' <= Left
                 /\ Kill \/ Reap => Left' < Left
<1> USE StageFacts
<1>1. CASE Crash \/ Kill
  <2>1. Ends /\ UNCHANGED unit /\ main # "none"
    BY <1>1 DEF Crash, Kill, Exits, systemd
  <2>2. unit = "stopping" => Left \in 3..9
    BY <2>1, LeftFacts
  <2> QED BY <2>1, <2>2, EndsHalting
<1>2. CASE Trouble \/ CalmsDown \/ HourPasses \/ IntervalEnds \/ UNCHANGED vars
  <2>1. UNCHANGED <<unit, main, stop, listener, conn>>
    BY <1>2 DEF Trouble, CalmsDown, HourPasses, IntervalEnds, systemd, process, vars
  <2>2. Halting' /\ Left' = Left
    BY <2>1 DEF Halting, Left
  <2>3. ~ Kill /\ ~ Reap
    BY <2>1 DEF Kill, Reap, Exits, Ends, systemd
  <2> QED BY <2>1, <2>2, <2>3, LeftFacts
<1>3. CASE Reap
  <2>1. /\ main = "none" /\ unit' # "stopping" /\ UNCHANGED <<main, stop, listener, conn>>
        /\ unit = "stopping" => unit' = "inactive"
    BY <1>3 DEF Reap, process
  <2> QED BY <2>1 DEF Halting, Left
<1>4. CASE StartUnit \/ SelfTest
  <2>1. /\ unit # "stopping" /\ unit' # "stopping" /\ UNCHANGED <<listener, conn>>
        /\ main' \in {main, "seed"}
    BY <1>4 DEF StartUnit, SelfTest, process
  <2> QED BY <2>1 DEF Halting, Closing
<1>5. CASE StopUnit
  <2>1. unit # "stopping"
    BY <1>5 DEF StopUnit
  <2>2. CASE Ends
    BY <2>1, <2>2, EndsHalting
  <2>3. CASE ~ Ends
    <3>1. /\ UNCHANGED <<main, listener, conn>>
          /\ unit' = "stopping" => main \notin Booting /\ stop'
      BY <1>5, <2>3 DEF StopUnit, Exits, process
    <3>2. main \in Booting \cup Running \cup {"none"}
      BY DEF Inv, TypeOK
    <3> QED BY <2>1, <3>1, <3>2 DEF Halting
  <2> QED BY <2>2, <2>3
<1> QED BY <1>1, <1>2, <1>3, <1>4, <1>5

LEMMA NextHalting ==
    ASSUME Inv, Halting, [Next]_vars
    PROVE  Halting' /\ StopMovesOn
<1>1. unit = "stopping" => Left \in 1..9
  BY LeftFacts
<1>2. /\ Halting'
      /\ unit = "stopping" => unit' \in {"stopping", "inactive"}
  BY MainHalting, ConnHalting, ListenerHalting, SystemHalting DEF Next
<1>3. unit = "stopping" => Left' \in Nat
  <2>1. unit = "stopping" /\ unit' = "stopping" => main' \in Running \cup {"none"}
    BY <1>2, NextInv DEF Halting
  <2> QED BY <1>2, StageFacts DEF Left
<1>4. unit = "stopping" => /\ Main \/ ListenerEnds => Left' < Left
                           /\ Kill \/ Reap => Left' < Left
  BY MainHalting, ListenerHalting, SystemHalting
<1>5. unit = "stopping" => Left' <= Left
  BY <1>1, <1>3, <1>4, ConnHalting, SystemHalting DEF Next
<1> QED BY <1>2, <1>4, <1>5 DEF StopMovesOn

(* A stop always has a step that is due, every such step brings the end of *)
(* the process nearer, whoever is connected or connects, and no other step *)
(* puts it off.  What StopEnds adds is that due steps are taken.           *)
THEOREM StopsDrawNearer == Spec => []StopIsDue /\ [][StopMovesOn]_vars
<1> DEFINE HInv == Inv /\ Halting
<1>1. Init => HInv
  BY InitInv DEF Init, Halting
<1>2. HInv /\ [Next]_vars => HInv' /\ [StopMovesOn]_vars
  BY NextInv, NextHalting
<1>3. HInv => StopIsDue
  <2> SUFFICES ASSUME HInv, unit = "stopping" PROVE StopIsDue
    BY DEF StopIsDue
  <2>1. main = "shutdown" => listener \in {"accept", "ended", "handshake"}
    BY DEF Inv, TypeOK, Staged, Fits
  <2> QED BY <2>1, StageFacts DEF Inv, TypeOK, Halting, StopIsDue
<1> HIDE DEF HInv
<1> QED BY <1>1, <1>2, <1>3, PTL DEF Spec

(* Nobody is left in the queue of a dead listener: whoever waits there     *)
(* waits for one that accepts or that has another one's handshake to end,  *)
(* or is about to be reset.                                                *)
THEOREM QueueIsNotForgotten == Spec => []QueueIsAttended
<1> DEFINE HInv == Inv /\ Halting
<1>1. Init => HInv
  BY InitInv DEF Init, Halting
<1>2. HInv /\ [Next]_vars => HInv'
  BY NextInv, NextHalting
<1>3. HInv => QueueIsAttended
  <2> SUFFICES ASSUME HInv, NEW c \in Conn, conn[c] = "queued"
               PROVE  \/ listener = "accept"
                      \/ listener = "handshake" /\ \E d \in Conn : conn[d] = "handshake"
                      \/ listener = "ended" /\ main = "shutdown"
    BY DEF QueueIsAttended
  <2>1. listener \in {"accept", "handshake", "ended"} /\ main \notin Closing
    BY DEF Inv, TypeOK, Opened, Halting
  <2>2. main \in Serving \cup {"shutdown"}
    BY <2>1 DEF Inv, Staged, Fits
  <2> QED BY <2>1, <2>2 DEF Inv, Staged, Fits, Halting
<1> HIDE DEF HInv
<1> QED BY <1>1, <1>2, <1>3, PTL DEF Spec
=============================================================================
