------------------------ MODULE ModuleRunner_proofs ------------------------
(***************************************************************************)
(* Proofs about ModuleRunner, for any number of launches and faults: its   *)
(* types, where the module's process is, what the files hold, and that a   *)
(* stop always has a step left that brings it nearer its end.              *)
(***************************************************************************)
EXTENDS ModuleRunner, TLAPS

(* The first part of the type invariant: every process in its place *)
Typed == /\ class \in Class
         /\ unit \in {"inactive", "validating", "started", "stopping", "restarting"}
         /\ run \in [Proc -> Process]
         /\ cur \in [File -> Content] /\ tmp \in [File -> Content]
         /\ line \in Nat /\ said \in ServiceEvent \cup {"nothing"}
         /\ made \in Nat /\ clashed \in BOOLEAN
         /\ child \in {"none", "running", "over"} /\ asked \in BOOLEAN
         /\ launched \in 0..MaxLaunches /\ faults \in 0..MaxFaults

(* A file is open only for its write, the unit's place is empty exactly    *)
(* when the unit is down, and a process begins its work in a unit that is  *)
(* on its way up.                                                          *)
Placed == /\ \A p \in Proc : run[p].fd # "none" => run[p].at = "write"
          /\ run["service"].at = "idle" <=> unit \in {"inactive", "restarting"}
          /\ run["service"].at = "begin" => unit \in {"validating", "started"}
          /\ run["health"].at \notin {"popen", "handlers", "wait", "reaped"}
          /\ \A p \in Proc : Writing(p) =>
                (run[p].event = "HEALTH_READBACK" <=> p = "health")

LEMMA RivalFacts == /\ "service" \in Proc /\ "health" \in Proc
                    /\ \A p \in Proc : Rival(p) \in Proc /\ Rival(p) # p
                    /\ \A p, q \in Proc : q = p \/ q = Rival(p)
BY DEF Proc, Rival

LEMMA IdleFacts == /\ Idle \in Process
                   /\ \A ok \in BOOLEAN : Exited(ok) \in Process
                   /\ Idle.at = "idle" /\ Idle.fd = "none"
                   /\ \A ok : Exited(ok).at = "exited" /\ Exited(ok).fd = "none"
                   /\ \A ok : Exited(ok).alone = FALSE
BY DEF Idle, Exited, Process, Steps, File, Event, ServiceEvent

-----------------------------------------------------------------------------
(* Types and places *)

LEMMA InitPlaced == Init => Typed /\ Placed
<1> SUFFICES ASSUME Init PROVE Typed /\ Placed
  OBVIOUS
<1>1. Absent \in Content
  BY DEF Absent, Content
<1>2. \A p \in Proc : run[p] = Idle
  BY DEF Init
<1>3. Typed
  <2>1. Idle \in Process
    BY IdleFacts
  <2>2. run \in [Proc -> Process] /\ cur \in [File -> Content] /\ tmp \in [File -> Content]
    BY <1>1, <2>1 DEF Init
  <2>3. launched \in 0..MaxLaunches /\ faults \in 0..MaxFaults
    BY BoundAssumption DEF Init
  <2>4. class \in Class /\ unit = "inactive" /\ child = "none"
    BY DEF Init
  <2>5. line \in Nat /\ said \in ServiceEvent \cup {"nothing"} /\ made \in Nat
    BY DEF Init
  <2>6. clashed \in BOOLEAN /\ asked \in BOOLEAN
    BY DEF Init
  <2> QED BY <2>2, <2>3, <2>4, <2>5, <2>6 DEF Typed
<1>4. Placed
  BY RivalFacts, IdleFacts, <1>2 DEF Init, Placed, Writing
<1> QED BY <1>3, <1>4

LEMMA BeginReceiptPlaced ==
    ASSUME Typed, Placed, NEW p \in Proc, NEW e \in Event, NEW ok \in BOOLEAN,
           run[p].at \in {"begin", "reaped"}, e = "HEALTH_READBACK" <=> p = "health",
           BeginReceipt(p, e, ok), UNCHANGED <<unit, files, log, kid, bounds>>
    PROVE  Typed' /\ Placed'
<1> DEFINE q == Rival(p)
           r == [at |-> "open", on |-> "state", fd |-> "none", n |-> made + 1,
                 event |-> e, alone |-> ~ Writing(q), ok |-> ok]
<1>0. q \in Proc /\ q # p /\ Writing(q) \in BOOLEAN
  BY RivalFacts DEF Writing
<1>1. Typed'
  <2>1. r \in Process
    BY <1>0 DEF Typed, Process, Steps, File
  <2>2. run' = [run EXCEPT ![p] = r, ![q].alone = FALSE]
    BY DEF BeginReceipt
  <2> HIDE DEF r, q
  <2>3. run' \in [Proc -> Process]
    BY <2>1, <2>2, <1>0 DEF Typed, Process
  <2>4. made' \in Nat /\ clashed' \in BOOLEAN
    BY <1>0 DEF Typed, BeginReceipt, q
  <2> QED BY <2>3, <2>4 DEF Typed, files, log, kid, bounds
<1>2. Placed'
  BY RivalFacts DEF Typed, Placed, BeginReceipt, Process, Writing
<1> QED BY <1>1, <1>2

LEMMA ExitsPlaced ==
    ASSUME Typed, Placed, NEW p \in Proc, NEW ok \in BOOLEAN,
           run[p].at # "idle", Exits(p, ok), UNCHANGED unit
    PROVE  run' \in [Proc -> Process] /\ Placed'
BY IdleFacts DEF Typed, Placed, Exits, Writing

LEMMA ReceiptPlaced ==
    ASSUME Typed, Placed, NEW p \in Proc, Receipt(p)
    PROVE  Typed' /\ Placed'
<1>1. CASE Open(p)
  BY <1>1 DEF Open, Typed, Placed, Process, Steps, Content, Empty, File, Writing, log, count,
              kid, bounds
<1>2. CASE Write(p)
  <2>1. run[p].n \in Content /\ Torn \in Content /\ run[p].on \in File
    BY DEF Typed, Process, Content, Torn
  <2>2. \A c : Over(c, run[p].n) \subseteq Content
    BY <2>1 DEF Over
  <2>3. cur' \in [File -> Content] /\ tmp' \in [File -> Content]
    BY <1>2, <2>1, <2>2 DEF Write, Typed, files
  <2>4. run' \in [Proc -> Process] /\ Placed'
    BY <1>2 DEF Write, Typed, Placed, Process, Steps, Writing
  <2> QED BY <1>2, <2>3, <2>4 DEF Write, Typed, log, count, kid, bounds
<1>3. CASE Swap(p)
  <2>1. Renamed(run[Rival(p)], run[p].on) \in {"none", "tmp", "cur", "gone"}
        /\ (run[Rival(p)].at # "write" => Renamed(run[Rival(p)], run[p].on) = run[Rival(p)].fd)
    BY RivalFacts DEF Typed, Process, Renamed
  <2>2. run' \in [Proc -> Process]
    BY <1>3, <2>1, RivalFacts DEF Swap, Typed, Process, Steps, File
  <2>3. Placed'
    BY <1>3, <2>1, RivalFacts DEF Swap, Typed, Placed, Process, Writing
  <2> QED BY <1>3, <2>2, <2>3
          DEF Swap, Typed, Process, Content, Absent, log, count, kid, bounds
<1>4. CASE Robbed(p)
  BY <1>4, ExitsPlaced DEF Robbed, Typed, files, log, count, kid, bounds
<1>5. CASE AppendLine(p)
  <2>1. run' \in [Proc -> Process] /\ Placed'
    <3>1. CASE run[p].event = "START_REQUESTED"
      BY <1>5, <3>1, RivalFacts
         DEF AppendLine, Done, Goto, Typed, Placed, Process, Steps, Writing, Proc
    <3>2. CASE run[p].event # "START_REQUESTED"
      <4>1. \E ok \in BOOLEAN : Exits(p, ok)
        BY <1>5, <3>2 DEF AppendLine, Done, Typed, Process
      <4> QED BY <1>5, <4>1, ExitsPlaced DEF AppendLine
    <3> QED BY <3>1, <3>2
  <2>2. p = "service" => run[p].event \in ServiceEvent
    BY <1>5 DEF AppendLine, Typed, Placed, Process, Event, Writing
  <2> QED BY <1>5, <2>1, <2>2 DEF AppendLine, Typed, Process, files, kid, bounds
<1> QED BY <1>1, <1>2, <1>3, <1>4, <1>5 DEF Receipt

LEMMA RunnerPlaced ==
    ASSUME Typed, Placed, NEW p \in Proc, Refuses(p) \/ Begin(p) \/ Dies(p)
    PROVE  Typed' /\ Placed'
<1>1. CASE Refuses(p)
  BY <1>1, ExitsPlaced DEF Refuses, Typed, files, log, count, kid, bounds
<1>2. CASE Begin(p)
  <2>1. PICK e \in Event : /\ e = "HEALTH_READBACK" <=> p = "health"
                           /\ BeginReceipt(p, e, TRUE)
    BY <1>2 DEF Begin, Proc, Event, ServiceEvent
  <2> QED BY <1>2, <2>1, BeginReceiptPlaced DEF Begin
<1>3. CASE Dies(p)
  <2>1. run' \in [Proc -> Process] /\ Placed'
    BY <1>3, ExitsPlaced DEF Dies
  <2>2. Torn \in Content
    BY DEF Torn, Content
  <2>3. cur' \in [File -> Content] /\ tmp' \in [File -> Content]
    BY <1>3, <2>2 DEF Dies, Typed, files
  <2>4. faults' \in 0..MaxFaults
    BY <1>3, BoundAssumption DEF Dies, Typed
  <2> QED BY <1>3, <2>1, <2>3, <2>4 DEF Dies, Typed, log, count, kid
<1> QED BY <1>1, <1>2, <1>3

LEMMA ServicePlaced ==
    ASSUME Typed, Placed, Popen \/ SetHandlers \/ WaitReturns \/ ReportExit \/ ChildEnds
    PROVE  Typed' /\ Placed'
<1> USE RivalFacts
<1>1. CASE Popen
  <2>1. CASE Goto("service", "handlers") /\ child' = "running"
    <3>1. run' \in [Proc -> Process] /\ child' \in {"none", "running", "over"}
      BY <2>1 DEF Goto, Typed, Process, Steps
    <3>2. Placed'
      BY <1>1, <2>1 DEF Popen, Goto, Typed, Placed, Process, Writing
    <3> QED BY <1>1, <3>1, <3>2 DEF Popen, Typed, files, log, count, bounds
  <2>2. CASE Exits("service", FALSE) /\ UNCHANGED child
    BY <1>1, <2>2, ExitsPlaced DEF Popen, Typed, files, log, count, bounds
  <2> QED BY <1>1, <2>1, <2>2 DEF Popen
<1>2. CASE SetHandlers
  BY <1>2 DEF SetHandlers, Goto, Typed, Placed, Process, Steps, Writing, files, log, count,
              kid, bounds
<1>3. CASE WaitReturns
  BY <1>3 DEF WaitReturns, Goto, Typed, Placed, Process, Steps, Writing, files, log, count,
              bounds
<1>4. CASE ReportExit
  <2>1. PICK ok \in BOOLEAN : BeginReceipt("service", "PROCESS_EXIT", ok)
    BY <1>4 DEF ReportExit
  <2> QED BY <1>4, <2>1, BeginReceiptPlaced DEF ReportExit, Event, ServiceEvent
<1>5. CASE ChildEnds
  BY <1>5 DEF ChildEnds, Typed, Placed, Writing, files, log, count, bounds
<1> QED BY <1>1, <1>2, <1>3, <1>4, <1>5

LEMMA LaunchPlaced ==
    ASSUME Typed, Placed,
           StartUnit \/ StartHealth \/ HealthEnds \/ Validated \/ UnitEnds
    PROVE  Typed' /\ Placed'
<1> USE RivalFacts
<1>1. CASE StartUnit \/ StartHealth
  <2>1. launched' \in 0..MaxLaunches
    BY <1>1, BoundAssumption DEF StartUnit, StartHealth, Launch, Typed
  <2>2. run' \in [Proc -> Process]
    BY <1>1 DEF StartUnit, StartHealth, Launch, Goto, Typed, Process, Steps
  <2>3. Placed'
    BY <1>1 DEF StartUnit, StartHealth, Launch, Goto, Typed, Placed, Process, Writing
  <2> QED BY <1>1, <2>1, <2>2, <2>3 DEF StartUnit, StartHealth, Typed, files, log, count, kid
<1>2. CASE HealthEnds
  BY <1>2 DEF HealthEnds, Goto, Typed, Placed, Process, Steps, Writing, files, log, count,
              kid, bounds
<1>3. CASE Validated
  <2>1. Goto("service", "begin") /\ unit' = "started"
    BY <1>3 DEF Validated
  <2>2. run["service"].at = "exited" /\ run["service"].fd = "none"
    BY <1>3, IdleFacts DEF Validated
  <2>3. run' \in [Proc -> Process]
    BY <2>1 DEF Goto, Typed, Process, Steps
  <2>4. Placed'
    BY <2>1, <2>2 DEF Goto, Typed, Placed, Process, Writing
  <2> QED BY <1>3, <2>3, <2>4 DEF Validated, Typed, files, log, count, kid, bounds
<1>4. CASE UnitEnds
  <2>1. /\ run' = [run EXCEPT !["service"] = Idle]
        /\ unit' \in {"inactive", "restarting"} /\ child' = "none" /\ asked' = FALSE
        /\ UNCHANGED <<files, log, count, bounds>>
    BY <1>4 DEF UnitEnds
  <2>2. /\ run' \in [Proc -> Process] /\ run'["service"] = Idle
        /\ run'["health"] = run["health"]
    BY <2>1, IdleFacts DEF Typed, Proc
  <2>3. Placed'
    BY <2>1, <2>2, IdleFacts DEF Placed, Proc, Writing
  <2> QED BY <2>1, <2>2, <2>3 DEF Typed, files, log, count, bounds
<1> QED BY <1>1, <1>2, <1>3, <1>4

LEMMA StopPlaced ==
    ASSUME Typed, Placed, StopUnit \/ Kill
    PROVE  Typed' /\ Placed'
<1> USE RivalFacts
<1>1. CASE StopUnit
  <2>0. Terminate => /\ \/ run' = run /\ run["service"].at # "begin"
                        \/ Exits("service", FALSE)
                     /\ asked' \in BOOLEAN
    BY DEF Terminate, Typed, Writing
  <2>1. \/ run' = run /\ unit = "restarting" /\ unit' = "inactive"
        \/ /\ unit' = "stopping" /\ unit \in {"validating", "started"}
           /\ \/ run' = run /\ run["service"].at # "begin"
              \/ Exits("service", FALSE)
    BY <1>1, <2>0 DEF StopUnit
  <2>2. asked' \in BOOLEAN
    BY <1>1, <2>0 DEF StopUnit, Typed
  <2>3. run' \in [Proc -> Process]
    BY <2>1, IdleFacts DEF Typed, Exits
  <2>4. Placed'
    <3>1. CASE run' = run
      <4>1. /\ run'["service"].at = "idle" <=> unit' \in {"inactive", "restarting"}
            /\ run'["service"].at = "begin" => unit' \in {"validating", "started"}
        <5>1. CASE unit = "restarting" /\ unit' = "inactive"
          BY <3>1, <5>1 DEF Placed
        <5>2. CASE /\ unit' = "stopping" /\ unit \in {"validating", "started"}
                   /\ run["service"].at # "begin"
          BY <3>1, <5>2 DEF Placed
        <5>3. Exits("service", FALSE) => run["service"].at = "exited"
          <6>1. Exits("service", FALSE) => run'["service"] = Exited(FALSE)
            BY DEF Exits, Typed
          <6> QED BY <3>1, <6>1, IdleFacts
        <5>4. run["service"].at = "exited" => run["service"].at # "begin"
          OBVIOUS
        <5> QED BY <2>1, <5>1, <5>2, <5>3, <5>4 DEF Exits
      <4> QED BY <3>1, <4>1 DEF Placed, Writing
    <3>2. CASE /\ unit' = "stopping" /\ unit \in {"validating", "started"}
               /\ Exits("service", FALSE)
      <4>1. /\ run'["service"].at = "exited" /\ run'["service"].fd = "none"
            /\ run'["health"] = run["health"]
        BY <3>2, IdleFacts DEF Typed, Exits, Proc
      <4> QED BY <3>2, <4>1 DEF Placed, Proc, Writing
    <3> QED BY <2>1, <3>1, <3>2
  <2> QED BY <1>1, <2>1, <2>2, <2>3, <2>4 DEF StopUnit, Typed, files, log, count, bounds
<1>2. CASE Kill
  BY <1>2, ExitsPlaced DEF Kill, Typed, files, log, count, bounds
<1> QED BY <1>1, <1>2

LEMMA NextPlaced == ASSUME Typed, Placed, [Next]_vars PROVE Typed' /\ Placed'
<1>1. CASE UNCHANGED vars
  BY <1>1 DEF vars, Typed, Placed, Writing, files, log, count, kid, bounds
<1>2. CASE Next
  BY <1>2, RivalFacts, ReceiptPlaced, RunnerPlaced, ServicePlaced, LaunchPlaced, StopPlaced
     DEF Next, Service, Health
<1> QED BY <1>1, <1>2

(* Types: every process is in its place, in a unit that is where it says.  *)
THEOREM TypesHold == Spec => []TypeOK
<1>1. Typed /\ Placed => TypeOK
  BY DEF Typed, Placed, TypeOK
<1> QED BY <1>1, InitPlaced, NextPlaced, PTL DEF Spec

-----------------------------------------------------------------------------
(* The module's process *)

(* The start was the last thing the service put down, and the unit is up,  *)
(* from the request of a start to the end of its process.                  *)
Attended ==
    /\ child # "none" => run["service"].at \in {"handlers", "wait", "exited"}
    /\ child # "none" \/ run["service"].at \in {"popen", "handlers", "wait"} =>
          said = "START_REQUESTED" /\ unit \in {"started", "stopping"}
    /\ Writing("service") /\ run["service"].event = "START_REQUESTED" =>
          unit \in {"started", "stopping"}

LEMMA NextAttended ==
    ASSUME Typed, Placed, Attended, [Next]_vars
    PROVE  Attended'
<1> USE RivalFacts
<1>0. Typed' /\ Placed'
  BY NextPlaced
<1>1. ASSUME NEW p \in Proc, Open(p) \/ Write(p) \/ Swap(p) \/ Robbed(p) PROVE Attended'
  <2>1. CASE Robbed(p)
    BY <2>1, IdleFacts DEF Robbed, Exits, Attended, Typed, Writing, log, kid
  <2>2. CASE Open(p)
    BY <2>2 DEF Open, Attended, Typed, Writing, log, kid
  <2>3. CASE Write(p)
    BY <2>3 DEF Write, Attended, Typed, Writing, log, kid
  <2>4. CASE Swap(p)
    <3>1. CASE p = "service"
      <4>1. /\ run'["service"].at \in {"open", "log"} /\ run["service"].at = "swap"
            /\ run'["service"].event = run["service"].event
        BY <2>4, <3>1 DEF Swap, Typed, Process, Rival
      <4> QED BY <2>4, <4>1 DEF Swap, Attended, Writing, log, kid
    <3>2. CASE p = "health"
      <4>1. /\ run'["service"].at = run["service"].at
            /\ run'["service"].event = run["service"].event
        BY <2>4, <3>2 DEF Swap, Typed, Process, Rival
      <4> QED BY <2>4, <4>1 DEF Swap, Attended, Writing, log, kid
    <3> QED BY <3>1, <3>2 DEF Proc
  <2> QED BY <1>1, <2>1, <2>2, <2>3, <2>4
<1>2. ASSUME AppendLine("service") PROVE Attended'
  <2>1. Writing("service") /\ child = "none"
    BY <1>2 DEF AppendLine, Attended, Writing
  <2>2. said' = run["service"].event /\ UNCHANGED <<unit, child>>
    BY <1>2 DEF AppendLine, kid
  <2>3. CASE run["service"].event = "START_REQUESTED"
    BY <1>2, <2>1, <2>2, <2>3 DEF AppendLine, Done, Goto, Attended, Typed, Writing
  <2>4. CASE run["service"].event # "START_REQUESTED"
    <3>0. Done("service")
      BY <1>2 DEF AppendLine
    <3>1. \E ok : Exits("service", ok)
      BY <2>4, <3>0, Zenon DEF Done
    <3>2. run'["service"].at = "exited"
      BY <3>1, IdleFacts DEF Exits, Typed
    <3> QED BY <2>1, <2>2, <3>2 DEF Attended, Writing
  <2> QED BY <2>3, <2>4
<1>3. ASSUME AppendLine("health") PROVE Attended'
  <2>1. run'["service"] = run["service"]
    <3>1. \E r : run' = [run EXCEPT !["health"] = r]
      <4>1. Done("health")
        BY <1>3 DEF AppendLine
      <4>2. Goto("health", "popen") \/ \E ok : Exits("health", ok)
        BY <4>1, Zenon DEF Done
      <4> QED BY <4>2 DEF Goto, Exits
    <3> QED BY <3>1 DEF Typed, Proc
  <2> QED BY <1>3, <2>1 DEF AppendLine, Attended, Writing, kid
<1>4. ASSUME NEW p \in Proc, Refuses(p) PROVE Attended'
  BY <1>4, IdleFacts DEF Refuses, Exits, Attended, Typed, Writing, log, kid
<1>5. ASSUME NEW p \in Proc, Dies(p) PROVE Attended'
  BY <1>5, IdleFacts DEF Dies, Exits, Attended, Typed, Writing, log, kid
<1>6. ASSUME Begin("service") PROVE Attended'
  <2>1. run["service"].at = "begin" /\ unit \in {"validating", "started"} /\ child = "none"
    BY <1>6 DEF Begin, Placed, Attended
  <2>2. /\ run'["service"].at = "open"
        /\ unit = "validating" => run'["service"].event # "START_REQUESTED"
    BY <1>6 DEF Begin, BeginReceipt, Typed, Rival
  <2> QED BY <1>6, <2>1, <2>2 DEF Begin, Attended, Writing, log, kid
<1>7. ASSUME Begin("health") PROVE Attended'
  <2>1. run'["service"] = [run["service"] EXCEPT !.alone = FALSE]
    BY <1>7 DEF Begin, BeginReceipt, Typed, Rival, Proc
  <2>2. /\ run'["service"].at = run["service"].at
        /\ run'["service"].event = run["service"].event
    BY <2>1 DEF Typed, Process
  <2> QED BY <1>7, <2>2 DEF Begin, Attended, Writing, log, kid
<1>8. ASSUME Popen PROVE Attended'
  <2>1. run'["service"].at \in {"handlers", "exited"}
    <3>1. Goto("service", "handlers") \/ Exits("service", FALSE)
      BY <1>8 DEF Popen
    <3>2. Goto("service", "handlers") => run'["service"].at = "handlers"
      BY DEF Goto, Typed
    <3>3. Exits("service", FALSE) => run'["service"] = Exited(FALSE)
      BY DEF Exits, Typed
    <3> QED BY <3>1, <3>2, <3>3, IdleFacts
  <2> QED BY <1>8, <2>1 DEF Popen, Attended, Writing, log
<1>9. ASSUME SetHandlers PROVE Attended'
  BY <1>9 DEF SetHandlers, Goto, Attended, Typed, Writing, log, kid
<1>10. ASSUME WaitReturns PROVE Attended'
  BY <1>10 DEF WaitReturns, Goto, Attended, Typed, Writing, log
<1>11. ASSUME ReportExit PROVE Attended'
  <2>1. /\ run'["service"].at = "open" /\ run'["service"].event = "PROCESS_EXIT"
        /\ run["service"].at = "reaped"
    BY <1>11 DEF ReportExit, BeginReceipt, Typed, Rival
  <2> QED BY <1>11, <2>1 DEF ReportExit, Attended, Writing, log, kid
<1>12. ASSUME ChildEnds PROVE Attended'
  BY <1>12 DEF ChildEnds, Attended, Writing, log
<1>13. ASSUME StartHealth \/ HealthEnds PROVE Attended'
  <2>1. run'["service"] = run["service"] /\ UNCHANGED <<unit, said, child>>
    BY <1>13 DEF StartHealth, HealthEnds, Launch, Goto, Typed, log, kid, Proc
  <2> QED BY <2>1 DEF Attended, Writing
<1>14. ASSUME StartUnit PROVE Attended'
  BY <1>14 DEF StartUnit, Launch, Goto, Attended, Typed, Writing, log, kid
<1>15. ASSUME Validated PROVE Attended'
  <2>1. Goto("service", "begin") /\ UNCHANGED <<child, said>> /\ unit = "validating"
    BY <1>15 DEF Validated, log, kid
  <2> QED BY <2>1 DEF Goto, Attended, Typed, Writing
<1>16. ASSUME UnitEnds PROVE Attended'
  BY <1>16, IdleFacts DEF UnitEnds, Attended, Typed, Writing, log
<1>17. ASSUME StopUnit PROVE Attended'
  <2>1. \/ run' = run
        \/ run'["service"].at = "exited"
    <3>1. run' = run \/ Exits("service", FALSE)
      BY <1>17 DEF StopUnit, Terminate
    <3>2. Exits("service", FALSE) => run'["service"] = Exited(FALSE)
      BY DEF Exits, Typed
    <3> QED BY <3>1, <3>2, IdleFacts
  <2>2. unit' = "stopping" \/ run["service"].at = "idle"
    BY <1>17 DEF StopUnit, Placed
  <2>3. /\ UNCHANGED <<child, said>>
        /\ unit' = "stopping" => unit \in {"validating", "started"}
    BY <1>17 DEF StopUnit, log
  <2>4. CASE run["service"].at = "idle"
    <3>1. run' = run
      BY <1>17, <2>4 DEF StopUnit, Terminate, Placed
    <3> QED BY <2>3, <2>4, <3>1 DEF Attended, Writing
  <2>5. CASE unit' = "stopping"
    BY <2>1, <2>3, <2>5 DEF Attended, Writing
  <2> QED BY <2>2, <2>4, <2>5
<1>18. ASSUME Kill PROVE Attended'
  BY <1>18, IdleFacts DEF Kill, Exits, Attended, Typed, Writing, log
<1>19. CASE UNCHANGED vars
  BY <1>19 DEF vars, Attended, Writing, log, kid
<1> QED
  BY <1>1, <1>2, <1>3, <1>4, <1>5, <1>6, <1>7, <1>8, <1>9, <1>10, <1>11, <1>12, <1>13,
     <1>14, <1>15, <1>16, <1>17, <1>18, <1>19
     DEF Next, Service, Health, Receipt, Proc

(* The module's process is accounted for in the log and by the unit.       *)
THEOREM ChildIsAccountedFor == Spec => []ChildAccountedFor
<1>1. Init => Attended
  BY IdleFacts, RivalFacts DEF Init, Attended, Writing
<1>2. Attended => ChildAccountedFor
  BY DEF Attended, ChildAccountedFor
<1> QED BY <1>1, <1>2, InitPlaced, NextPlaced, NextAttended, PTL DEF Spec

-----------------------------------------------------------------------------
(* The files *)

(* A receipt without a rival is the last one begun, and what it has done   *)
(* up to here is there to be seen.                                         *)
Owns(p) ==
    LET r == run[p]
    IN  /\ r.n = made /\ ~ Writing(Rival(p))
        /\ r.at = "write" => r.fd = "tmp" /\ tmp[r.on] = Empty
        /\ r.at = "swap" => tmp[r.on] = r.n
        /\ r.on = "phase" => cur["state"] = r.n
        /\ r.at = "log" => r.on = "phase" /\ cur["phase"] = r.n

Ordered ==
    /\ \A p \in Proc : Writing(p) /\ run[p].alone => Owns(p)
    /\ \A p \in Proc : Writing(p) /\ ~ clashed => run[p].alone
    /\ ~ clashed => line <= cur["phase"] /\ cur["phase"] <= cur["state"] /\ cur["state"] <= made

(* A step that begins or carries on no receipt disturbs none. *)
LEMMA QuietlyOrdered ==
    ASSUME Ordered, UNCHANGED <<files, line, count>>,
           \A p \in Proc : \/ run'[p].at \notin {"open", "write", "swap", "log"}
                          \/ run'[p] = run[p]
    PROVE  Ordered'
<1>1. \A p \in Proc : Writing(p)' => Writing(p) /\ run'[p] = run[p]
  BY DEF Writing
<1>2. \A p \in Proc : Writing(p)' /\ run[p].alone => Owns(p)'
  BY <1>1, RivalFacts DEF Ordered, Owns, files, count
<1> QED BY <1>1, <1>2 DEF Ordered, files, count

LEMMA ExitOrdered ==
    ASSUME Typed, Ordered, UNCHANGED <<files, line, count>>,
           NEW p \in Proc, NEW ok, Exits(p, ok)
    PROVE  Ordered'
<1>1. run'[p] = Exited(ok) /\ \A q \in Proc : q # p => run'[q] = run[q]
  BY DEF Exits, Typed
<1> QED BY <1>1, IdleFacts, QuietlyOrdered

LEMMA BeginOrdered ==
    ASSUME Typed, Placed, Ordered, NEW p \in Proc, ~ Writing(p), NEW e, NEW ok,
           BeginReceipt(p, e, ok), UNCHANGED <<files, line>>
    PROVE  Ordered'
<1> DEFINE q == Rival(p)
<1>0. q \in Proc /\ q # p /\ Rival(q) = p
  BY RivalFacts
<1>1. /\ run'[p].at = "open" /\ run'[p].n = made + 1 /\ run'[p].on = "state"
      /\ run'[p].alone <=> ~ Writing(q)
      /\ run'[q].alone = FALSE /\ run'[q].at = run[q].at
  BY <1>0 DEF BeginReceipt, Typed, Process
<1>2. made' = made + 1 /\ (clashed' <=> clashed \/ Writing(q))
  BY DEF BeginReceipt, Typed
<1>3. Writing(q)' <=> Writing(q)
  BY <1>1 DEF Writing
<1>4. ~ Writing(q) => Owns(p)'
  BY <1>1, <1>2, <1>3 DEF Owns
<1>5. ~ clashed' => line' <= cur'["phase"] /\ cur'["phase"] <= cur'["state"]
                    /\ cur'["state"] <= made'
  BY <1>2 DEF Ordered, Typed, files, Content, Empty, Torn, File
<1> QED BY <1>0, <1>1, <1>2, <1>3, <1>4, <1>5, RivalFacts DEF Ordered

(* A receipt that is carried on keeps order if, without a rival, it does.  *)
LEMMA CarryOrdered ==
    ASSUME Ordered, NEW p \in Proc, Writing(p), Writing(p)', UNCHANGED <<count, line>>,
           Writing(Rival(p))' <=> Writing(Rival(p)),
           \A q \in Proc : run'[q].alone = run[q].alone,
           run[p].alone /\ Owns(p) => Owns(p)',
           run[p].alone /\ Owns(p) /\ ~ clashed =>
              line <= cur'["phase"] /\ cur'["phase"] <= cur'["state"] /\ cur'["state"] <= made
    PROVE  Ordered'
<1>1. \A q \in Proc : Writing(q)' <=> Writing(q)
  BY RivalFacts
<1>2. \A q \in Proc : Writing(q) /\ q # p => ~ run[q].alone
  BY RivalFacts DEF Ordered, Owns
<1>3. UNCHANGED <<made, clashed>>
  BY DEF count
<1> QED BY <1>1, <1>2, <1>3 DEF Ordered

LEMMA OpenOrdered == ASSUME Typed, Placed, Ordered, NEW p \in Proc, Open(p) PROVE Ordered'
<1>1. /\ run'[p] = [run[p] EXCEPT !.at = "write", !.fd = "tmp"] /\ run[p].at = "open"
      /\ run'[Rival(p)] = run[Rival(p)] /\ UNCHANGED <<cur, count, line>>
      /\ tmp'[run[p].on] = Empty
  BY RivalFacts DEF Open, Typed, Process, log
<1>2. /\ run'[p].at = "write" /\ run'[p].fd = "tmp" /\ run'[p].on = run[p].on
      /\ run'[p].n = run[p].n /\ run'[p].alone = run[p].alone
  BY <1>1 DEF Typed, Process
<1>3. Owns(p) => Owns(p)'
  BY <1>1, <1>2 DEF Owns, Writing, count
<1> QED BY <1>1, <1>2, <1>3, RivalFacts, CarryOrdered DEF Ordered, Writing

LEMMA WriteOrdered == ASSUME Typed, Placed, Ordered, NEW p \in Proc, Write(p) PROVE Ordered'
<1>1. /\ run'[p] = [run[p] EXCEPT !.at = "swap", !.fd = "none"] /\ run[p].at = "write"
      /\ run'[Rival(p)] = run[Rival(p)] /\ UNCHANGED <<count, line>>
  BY RivalFacts DEF Write, Typed, Process, log
<1>2. /\ run'[p].at = "swap" /\ run'[p].on = run[p].on
      /\ run'[p].n = run[p].n /\ run'[p].alone = run[p].alone
  BY <1>1 DEF Typed, Process
<1>3. Owns(p) => cur' = cur /\ tmp'[run[p].on] = run[p].n
  <2>1. SUFFICES ASSUME Owns(p) PROVE cur' = cur /\ tmp'[run[p].on] = run[p].n
    OBVIOUS
  <2>2. run[p].fd = "tmp" /\ tmp[run[p].on] = Empty /\ run[p].on \in File
    BY <1>1, <2>1 DEF Owns, Typed, Process
  <2>3. UNCHANGED cur /\ \E c \in Over(Empty, run[p].n) : tmp' = [tmp EXCEPT ![run[p].on] = c]
    BY <2>2 DEF Write
  <2> QED BY <2>2, <2>3 DEF Over, Typed
<1>4. Owns(p) => Owns(p)'
  BY <1>1, <1>2, <1>3 DEF Owns, Writing, count
<1>5. Owns(p) /\ ~ clashed => line <= cur'["phase"] /\ cur'["phase"] <= cur'["state"]
                              /\ cur'["state"] <= made
  BY <1>3 DEF Ordered
<1>6. Writing(p) /\ Writing(p)' /\ (Writing(Rival(p))' <=> Writing(Rival(p)))
  BY <1>1, <1>2 DEF Writing
<1>7. \A q \in Proc : run'[q].alone = run[q].alone
  BY <1>1, <1>2, RivalFacts
<1>8. Writing(p) /\ Writing(p)'
  BY <1>1, <1>2 DEF Writing
<1> QED BY <1>1, <1>4, <1>5, <1>6, <1>7, <1>8, CarryOrdered

LEMMA SwapOrdered == ASSUME Typed, Placed, Ordered, NEW p \in Proc, Swap(p) PROVE Ordered'
<1> DEFINE f == run[p].on
           q == Rival(p)
<1>0. f \in File /\ q \in Proc /\ q # p
  BY RivalFacts DEF Typed, Process
<1>1. /\ run[p].at = "swap" /\ run'[p].at = IF f = "state" THEN "open" ELSE "log"
      /\ run'[p].on = "phase" /\ run'[p].n = run[p].n /\ run'[p].alone = run[p].alone
      /\ run'[q].at = run[q].at /\ run'[q].alone = run[q].alone
  BY <1>0 DEF Swap, Typed, Process
<1>2. cur' = [cur EXCEPT ![f] = tmp[f]] /\ UNCHANGED <<count, line>>
  BY DEF Swap, log
<1>3. Owns(p) => tmp[f] = run[p].n /\ run[p].n = made
  BY <1>1 DEF Owns
<1>4. Owns(p) => Owns(p)'
  <2>1. ASSUME Owns(p) PROVE /\ cur'["state"] = run[p].n
                             /\ f = "phase" => cur'["phase"] = run[p].n
    BY <1>0, <1>2, <1>3, <2>1 DEF Owns, Typed, File
  <2> QED BY <1>0, <1>1, <1>2, <2>1 DEF Owns, Writing, count, File
<1>5. Owns(p) /\ ~ clashed => line <= cur'["phase"] /\ cur'["phase"] <= cur'["state"]
                              /\ cur'["state"] <= made
  <2>1. CASE f = "state"
    BY <1>2, <1>3, <2>1 DEF Ordered, Typed, File, Content, Empty, Torn
  <2>2. CASE f = "phase"
    <3>1. Owns(p) => cur["state"] = made
      BY <2>2 DEF Owns
    <3> QED BY <1>2, <1>3, <2>2, <3>1 DEF Ordered, Typed, File, Content, Empty, Torn
  <2> QED BY <1>0, <2>1, <2>2 DEF File
<1>6. Writing(p) /\ Writing(p)' /\ (Writing(q)' <=> Writing(q))
  BY <1>1 DEF Writing
<1> QED BY <1>0, <1>1, <1>2, <1>4, <1>5, <1>6, RivalFacts, CarryOrdered

LEMMA AppendOrdered == ASSUME Typed, Placed, Ordered, NEW p \in Proc, AppendLine(p)
                       PROVE  Ordered'
<1> DEFINE q == Rival(p)
<1>0. q \in Proc /\ q # p /\ Rival(q) = p
  BY RivalFacts
<1>1. run'[p].at \notin {"open", "write", "swap", "log"} /\ run'[q] = run[q]
  <2>1. Goto(p, "popen") \/ \E ok \in BOOLEAN : Exits(p, ok)
    BY DEF AppendLine, Done, Typed, Process
  <2>2. Goto(p, "popen") => run'[p].at = "popen" /\ run'[q] = run[q]
    BY <1>0 DEF Goto, Typed
  <2>3. ASSUME NEW ok, Exits(p, ok) PROVE run'[p] = Exited(ok) /\ run'[q] = run[q]
    BY <1>0, <2>3 DEF Exits, Typed
  <2> QED BY <2>1, <2>2, <2>3, IdleFacts
<1>2. ~ Writing(p)' /\ (Writing(q)' <=> Writing(q)) /\ Writing(p)
  BY <1>1 DEF Writing, AppendLine
<1>3. /\ line' = run[p].n /\ UNCHANGED <<cur, tmp, made>>
      /\ clashed' <=> clashed /\ ~ run[p].alone
  BY DEF AppendLine, files, Typed
<1>4. CASE run[p].alone
  <2>1. Owns(p) /\ run[p].at = "log"
    BY <1>2, <1>4 DEF Ordered, AppendLine
  <2>2. ~ Writing(q) /\ line' = made /\ cur["phase"] = made /\ cur["state"] = made
    BY <1>3, <2>1 DEF Owns
  <2> QED BY <1>0, <1>2, <1>3, <2>2, RivalFacts DEF Ordered, Typed
<1>5. CASE ~ run[p].alone
  <2>1. clashed /\ clashed'
    BY <1>2, <1>3, <1>5 DEF Ordered
  <2>2. Writing(q) /\ run[q].alone => FALSE
    BY <1>0, <1>2 DEF Ordered, Owns
  <2> QED BY <1>0, <1>1, <1>2, <2>1, <2>2, RivalFacts DEF Ordered
<1> QED BY <1>4, <1>5 DEF Typed, Process

LEMMA DiesOrdered == ASSUME Typed, Placed, Ordered, NEW p \in Proc, Dies(p) PROVE Ordered'
<1> DEFINE q == Rival(p)
<1>0. q \in Proc /\ q # p /\ Rival(q) = p
  BY RivalFacts
<1>1. /\ run'[p].at = "exited" /\ run'[q] = run[q] /\ UNCHANGED <<line, made, clashed>>
  BY <1>0, IdleFacts DEF Dies, Exits, Typed, log, count
<1>2. ~ Writing(p)' /\ (Writing(q)' <=> Writing(q))
  BY <1>1 DEF Writing
<1>3. CASE UNCHANGED files
  BY <1>3, ExitOrdered DEF Dies, log
<1>4. CASE run[p].fd # "none"
  <2>1. run[p].at = "write" /\ Writing(p)
    BY <1>4 DEF Placed, Writing
  <2>2. Writing(q) => clashed /\ ~ run[q].alone
    BY <1>0, <2>1 DEF Ordered, Owns
  <2>3. ~ clashed => cur' = cur
    <3>1. ~ clashed => run[p].fd = "tmp"
      BY <2>1 DEF Ordered, Owns
    <3> QED BY <1>4, <3>1 DEF Dies, files
  <2> QED BY <1>0, <1>1, <1>2, <2>2, <2>3, RivalFacts DEF Ordered
<1> QED BY <1>3, <1>4 DEF Dies

LEMMA SystemOrdered ==
    ASSUME Typed, Placed, Ordered,
           StartUnit \/ StartHealth \/ HealthEnds \/ Validated \/ UnitEnds \/ StopUnit \/ Kill
    PROVE  Ordered'
<1>1. CASE StartUnit \/ StartHealth \/ HealthEnds \/ Validated
  <2>1. UNCHANGED <<files, line, count>>
    BY <1>1 DEF StartUnit, StartHealth, HealthEnds, Validated, log
  <2>2. \E p \in Proc, at \in {"begin", "idle"} : Goto(p, at)
    BY <1>1, RivalFacts DEF StartUnit, StartHealth, HealthEnds, Validated, Launch
  <2>3. ASSUME NEW p \in Proc, NEW at \in {"begin", "idle"}, Goto(p, at) PROVE Ordered'
    <3>1. run'[p].at = at /\ \A q \in Proc : q # p => run'[q] = run[q]
      BY <2>3 DEF Goto, Typed
    <3> QED BY <2>1, <3>1, QuietlyOrdered
  <2> QED BY <2>2, <2>3
<1>2. CASE UnitEnds
  <2>1. run'["service"] = Idle /\ \A q \in Proc : q # "service" => run'[q] = run[q]
    BY <1>2, RivalFacts DEF UnitEnds, Typed
  <2> QED BY <1>2, <2>1, IdleFacts, QuietlyOrdered DEF UnitEnds, log
<1>3. CASE StopUnit
  <2>1. UNCHANGED <<files, line, count>> /\ (run' = run \/ Exits("service", FALSE))
    BY <1>3 DEF StopUnit, Terminate, log
  <2>2. run' = run => Ordered'
    BY <2>1, QuietlyOrdered
  <2> QED BY <2>1, <2>2, RivalFacts, ExitOrdered
<1>4. CASE Kill
  BY <1>4, RivalFacts, ExitOrdered DEF Kill, log
<1> QED BY <1>1, <1>2, <1>3, <1>4

LEMMA RunnerOrdered ==
    ASSUME Typed, Placed, Ordered,
           \/ \E p \in Proc : Robbed(p) \/ Refuses(p) \/ Begin(p)
           \/ Popen \/ SetHandlers \/ WaitReturns \/ ReportExit \/ ChildEnds
    PROVE  Ordered'
<1> USE RivalFacts
<1>1. CASE \E p \in Proc : Robbed(p) \/ Refuses(p)
  BY <1>1, ExitOrdered DEF Robbed, Refuses, log
<1>2. CASE \E p \in Proc : Begin(p)
  BY <1>2, BeginOrdered DEF Begin, Writing, log
<1>3. CASE ReportExit
  BY <1>3, BeginOrdered DEF ReportExit, Writing, log
<1>4. CASE SetHandlers \/ WaitReturns \/ Popen
  <2>1. UNCHANGED <<files, line, count>>
    BY <1>4 DEF SetHandlers, WaitReturns, Popen, log
  <2>2. Exits("service", FALSE) \/ \E at \in {"wait", "reaped", "handlers"} : Goto("service", at)
    BY <1>4 DEF SetHandlers, WaitReturns, Popen
  <2>3. ASSUME NEW at \in {"wait", "reaped", "handlers"}, Goto("service", at) PROVE Ordered'
    <3>1. run'["service"].at = at /\ \A q \in Proc : q # "service" => run'[q] = run[q]
      BY <2>3 DEF Goto, Typed
    <3> QED BY <2>1, <3>1, QuietlyOrdered
  <2> QED BY <2>1, <2>2, <2>3, ExitOrdered
<1>5. CASE ChildEnds
  BY <1>5, QuietlyOrdered DEF ChildEnds, log
<1> QED BY <1>1, <1>2, <1>3, <1>4, <1>5

LEMMA NextOrdered ==
    ASSUME Typed, Placed, Ordered, [Next]_vars
    PROVE  Ordered'
<1>1. CASE UNCHANGED vars
  BY <1>1, QuietlyOrdered DEF vars, log
<1>2. CASE Next
  BY <1>2, RivalFacts, OpenOrdered, WriteOrdered, SwapOrdered, AppendOrdered, DiesOrdered,
     SystemOrdered, RunnerOrdered DEF Next, Service, Health, Receipt
<1> QED BY <1>1, <1>2

(* Receipts without a rival leave the files whole and in order.            *)
THEOREM FilesAreInOrder == Spec => []FilesInOrder
<1>1. Init => Ordered
  <2> SUFFICES ASSUME Init PROVE Ordered
    OBVIOUS
  <2>1. \A p \in Proc : run[p] = Idle /\ ~ Writing(p)
    BY IdleFacts DEF Init, Writing
  <2>2. line = 0 /\ made = 0 /\ \A f \in File : cur[f] = 0
    BY DEF Init, Absent
  <2> QED BY <2>1, <2>2 DEF Ordered, File
<1>2. Ordered => FilesInOrder
  BY DEF Ordered, Owns, FilesInOrder, Writing
<1> QED BY <1>1, <1>2, InitPlaced, NextPlaced, NextOrdered, PTL DEF Spec

-----------------------------------------------------------------------------
(* Stopping *)

(* The runner waits for a process it has, and in a unit that is stopping   *)
(* it is past its start: it waits for a process that is over or was asked  *)
(* to end, reports the exit of one, or has exited.                         *)
Stoppable ==
    /\ run["service"].at \in {"handlers", "wait"} => child # "none"
    /\ unit = "stopping" =>
          /\ run["service"].at \notin {"begin", "popen", "handlers"}
          /\ run["service"].at = "wait" => child = "over" \/ asked
          /\ Writing("service") => run["service"].event = "PROCESS_EXIT"

(* The steps that are left of the end of the unit *)
Left == LET r == run["service"]
            of == IF r.on = "state" THEN 6 ELSE 3   \* for each file
        IN  CASE r.at = "wait" -> 11
              [] r.at = "reaped" -> 10
              [] r.at = "open" -> of + 3
              [] r.at = "write" -> of + 2
              [] r.at = "swap" -> of + 1
              [] r.at = "log" -> 3
              [] r.at = "exited" -> 1
              [] OTHER -> 0

StopMovesOn ==
    unit = "stopping" => /\ unit' \in {"stopping", "inactive"}
                         /\ Left' <= Left
                         /\ Service \/ UnitEnds \/ Kill => Left' < Left

(* A step of the service, of systemd or a kill is due. *)
StopIsDue ==
    unit = "stopping" =>
       \/ Writing("service")
       \/ run["service"].at \in {"reaped", "exited"}
       \/ run["service"].at = "wait" /\ (child = "over" \/ (child = "running" /\ asked))

(* What Stoppable and Left see of the service *)
SameView == /\ UNCHANGED <<unit, child, asked>>
            /\ run'["service"].at = run["service"].at
            /\ run'["service"].on = run["service"].on
            /\ run'["service"].event = run["service"].event

LEMMA HealthAside ==
    ASSUME Typed, Health \/ StartHealth \/ HealthEnds \/ Dies("health")
    PROVE  SameView
<1> USE RivalFacts
<1>1. CASE Open("health") \/ Write("health") \/ Swap("health")
  BY <1>1 DEF Open, Write, Swap, SameView, Typed, Process, Rival, kid
<1>2. CASE Begin("health")
  <2>1. run'["service"] = [run["service"] EXCEPT !.alone = FALSE]
    BY <1>2 DEF Begin, BeginReceipt, Typed, Rival, Proc
  <2> QED BY <1>2, <2>1 DEF Begin, SameView, Typed, Process, kid
<1>3. CASE Robbed("health") \/ Refuses("health") \/ Dies("health") \/ AppendLine("health")
  <2>1. \E r : run' = [run EXCEPT !["health"] = r]
    <3>1. CASE AppendLine("health")
      <4>1. Goto("health", "popen") \/ \E ok : Exits("health", ok)
        BY <3>1, Zenon DEF AppendLine, Done
      <4> QED BY <4>1 DEF Goto, Exits
    <3> QED BY <1>3, <3>1 DEF Robbed, Refuses, Dies, Exits
  <2>2. run'["service"] = run["service"]
    BY <2>1 DEF Typed, Proc
  <2> QED BY <1>3, <2>2 DEF Robbed, Refuses, Dies, AppendLine, SameView, kid
<1>4. CASE StartHealth \/ HealthEnds
  BY <1>4 DEF StartHealth, HealthEnds, Launch, Goto, SameView, Typed, kid, Proc
<1> QED BY <1>1, <1>2, <1>3, <1>4 DEF Health, Receipt

LEMMA ExitSeen ==
    ASSUME Typed, NEW ok, Exits("service", ok) PROVE run'["service"].at = "exited"
<1>1. run'["service"] = Exited(ok)
  BY RivalFacts DEF Exits, Typed
<1> QED BY <1>1, IdleFacts

LEMMA LeftFacts ==
    ASSUME Typed
    PROVE  /\ Left \in Nat
           /\ run["service"].at \in {"wait", "reaped", "open", "write", "swap", "log"} =>
                 Left >= 3
           /\ run["service"].at = "exited" => Left = 1
           /\ run["service"].at = "idle" => Left = 0
BY RivalFacts DEF Left, Typed, Process, Steps, File

LEMMA ReceiptDrawsNearer ==
    ASSUME Typed, Placed, Stoppable, Receipt("service")
    PROVE  /\ Stoppable' /\ UNCHANGED unit
           /\ unit = "stopping" => Left' < Left
<1> USE RivalFacts
<1>0. Typed' /\ Writing("service") /\ UNCHANGED <<unit, child, asked>>
  BY ReceiptPlaced DEF Receipt, Open, Write, Swap, Robbed, AppendLine, Writing, kid
<1>1. CASE Open("service")
  <2>1. /\ run["service"].at = "open" /\ run'["service"].at = "write"
        /\ run'["service"].on = run["service"].on
        /\ run'["service"].event = run["service"].event
    BY <1>1 DEF Open, Typed, Process
  <2> QED BY <1>0, <2>1 DEF Stoppable, Left, Writing
<1>2. CASE Write("service")
  <2>1. /\ run["service"].at = "write" /\ run'["service"].at = "swap"
        /\ run'["service"].on = run["service"].on
        /\ run'["service"].event = run["service"].event
    BY <1>2 DEF Write, Typed, Process
  <2> QED BY <1>0, <2>1 DEF Stoppable, Left, Writing
<1>3. CASE Swap("service")
  <2>1. /\ run["service"].at = "swap" /\ run'["service"].on = "phase"
        /\ run'["service"].at = IF run["service"].on = "state" THEN "open" ELSE "log"
        /\ run'["service"].event = run["service"].event
        /\ run["service"].on \in {"state", "phase"}
    BY <1>3 DEF Swap, Typed, Process, Rival, File
  <2> QED BY <1>0, <2>1 DEF Stoppable, Left, Writing
<1>4. CASE Robbed("service")
  <2>1. run["service"].at = "swap" /\ run'["service"].at = "exited"
    BY <1>4, ExitSeen DEF Robbed
  <2> QED BY <1>0, <2>1, LeftFacts DEF Stoppable, Left, Writing
<1>5. CASE AppendLine("service")
  <2>1. CASE run["service"].event = "START_REQUESTED"
    <3>1. unit # "stopping"
      BY <1>0, <2>1 DEF Stoppable
    <3>2. Goto("service", "popen")
      BY <1>5, <2>1 DEF AppendLine, Done
    <3>3. run'["service"].at = "popen"
      BY <3>2 DEF Goto, Typed
    <3> QED BY <1>0, <3>1, <3>3 DEF Stoppable, Writing
  <2>2. CASE run["service"].event # "START_REQUESTED"
    <3>1. \E ok : Exits("service", ok)
      BY <1>5, <2>2, Zenon DEF AppendLine, Done
    <3>2. run["service"].at = "log" /\ run'["service"].at = "exited"
      BY <1>5, <3>1, ExitSeen DEF AppendLine
    <3> QED BY <1>0, <3>2, LeftFacts DEF Stoppable, Left, Writing
  <2> QED BY <2>1, <2>2
<1> QED BY <1>1, <1>2, <1>3, <1>4, <1>5 DEF Receipt

LEMMA ServiceDrawsNearer ==
    ASSUME Typed, Placed, Attended, Stoppable, Service
    PROVE  /\ Stoppable' /\ UNCHANGED unit
           /\ unit = "stopping" => Left' < Left
<1> USE RivalFacts
<1>1. CASE Receipt("service")
  BY <1>1, ReceiptDrawsNearer
<1>2. CASE Refuses("service")
  <2>1. run["service"].at = "begin" /\ run'["service"].at = "exited"
    BY <1>2, ExitSeen DEF Refuses
  <2> QED BY <1>2, <2>1 DEF Refuses, Stoppable, Writing, kid
<1>3. CASE Begin("service")
  <2>1. run["service"].at = "begin" /\ run'["service"].at = "open"
    BY <1>3 DEF Begin, BeginReceipt, Typed, Rival
  <2> QED BY <1>3, <2>1 DEF Begin, Stoppable, Writing, kid
<1>4. CASE Popen
  <2>1. \/ run'["service"].at = "handlers" /\ child' = "running"
        \/ run'["service"].at = "exited" /\ UNCHANGED child
    <3>1. Goto("service", "handlers") => run'["service"].at = "handlers"
      BY DEF Goto, Typed
    <3> QED BY <1>4, <3>1, ExitSeen DEF Popen
  <2> QED BY <1>4, <2>1 DEF Popen, Stoppable, Writing
<1>5. CASE SetHandlers
  BY <1>5 DEF SetHandlers, Goto, Stoppable, Typed, Writing, kid
<1>6. CASE WaitReturns
  <2>1. run["service"].at = "wait" /\ run'["service"].at = "reaped" /\ UNCHANGED unit
    BY <1>6 DEF WaitReturns, Goto, Typed
  <2> QED BY <2>1 DEF Stoppable, Left, Writing
<1>7. CASE ReportExit
  <2>1. /\ run["service"].at = "reaped" /\ run'["service"].at = "open"
        /\ run'["service"].on = "state" /\ run'["service"].event = "PROCESS_EXIT"
        /\ UNCHANGED unit
    BY <1>7 DEF ReportExit, BeginReceipt, Typed, Rival
  <2> QED BY <2>1 DEF Stoppable, Left, Writing
<1> QED BY <1>1, <1>2, <1>3, <1>4, <1>5, <1>6, <1>7 DEF Service

(* Death, a kill or the end of the unit *)
LEMMA EndDrawsNearer ==
    ASSUME Typed, Placed, Attended, Stoppable, Dies("service") \/ UnitEnds \/ Kill
    PROVE  /\ Stoppable'
           /\ unit = "stopping" => unit' \in {"stopping", "inactive"} /\ Left' < Left
<1> USE RivalFacts
<1>1. CASE Dies("service") \/ Kill
  <2>1. /\ run["service"].at \notin {"idle", "exited"} /\ UNCHANGED unit
        /\ run'["service"].at = "exited"
    BY <1>1, ExitSeen DEF Dies, Kill
  <2>2. Stoppable' /\ Left' = 1
    BY <2>1 DEF Stoppable, Left, Writing
  <2>3. unit = "stopping" =>
           run["service"].at \in {"wait", "reaped", "open", "write", "swap", "log"}
    BY <2>1 DEF Stoppable, Typed, Process, Steps
  <2> QED BY <2>1, <2>2, <2>3, LeftFacts
<1>2. CASE UnitEnds
  <2>1. /\ run["service"].at = "exited" /\ run'["service"].at = "idle"
        /\ unit' # "stopping" /\ unit = "stopping" => unit' = "inactive"
    BY <1>2, IdleFacts DEF UnitEnds, Typed
  <2> QED BY <2>1 DEF Stoppable, Left, Writing
<1> QED BY <1>1, <1>2

(* systemctl stop, when the runner is waiting, has reported or must go *)
LEMMA StopBegins ==
    ASSUME Typed, Placed, Attended, Stoppable, StopUnit
    PROVE  Stoppable' /\ unit # "stopping"
<1> USE RivalFacts
<1>1. unit # "stopping" /\ UNCHANGED child
  BY DEF StopUnit
<1>2. CASE unit = "restarting"
  <2>1. run' = run /\ unit' = "inactive" /\ run["service"].at = "idle"
    BY <1>2 DEF StopUnit, Placed
  <2> QED BY <1>1, <2>1 DEF Stoppable
<1>3. CASE Terminate
  <2>1. CASE run["service"].at = "wait"
    BY <1>1, <1>3, <2>1 DEF Terminate, Stoppable, Writing
  <2>2. CASE /\ run["service"].at # "wait"
             /\ run["service"].at = "exited" \/
                (Writing("service") /\ run["service"].event = "PROCESS_EXIT")
    <3>1. run' = run
      BY <1>3, <2>2 DEF Terminate
    <3> QED BY <1>1, <2>2, <3>1 DEF Stoppable, Writing
  <2>3. CASE Exits("service", FALSE)
    BY <1>1, <2>3, ExitSeen DEF Stoppable, Writing
  <2> QED BY <1>3, <2>1, <2>2, <2>3 DEF Terminate
<1> QED BY <1>1, <1>2, <1>3 DEF StopUnit

LEMMA OthersStandBy ==
    ASSUME Typed, Placed, Attended, Stoppable,
           ChildEnds \/ StartUnit \/ Validated \/ SameView
    PROVE  /\ Stoppable'
           /\ unit = "stopping" => UNCHANGED unit /\ Left' = Left
<1> USE RivalFacts
<1>1. CASE SameView
  BY <1>1 DEF SameView, Stoppable, Left, Writing
<1>2. CASE ChildEnds
  BY <1>2 DEF ChildEnds, Stoppable, Left, Writing
<1>3. CASE StartUnit \/ Validated
  <2>1. /\ unit # "stopping" /\ unit' # "stopping" /\ run'["service"].at = "begin"
    <3>1. Goto("service", "begin") /\ unit # "stopping" /\ unit' # "stopping"
      BY <1>3 DEF StartUnit, Validated, Launch
    <3>2. run'["service"].at = "begin"
      BY <3>1 DEF Goto, Typed
    <3> QED BY <3>1, <3>2
  <2> QED BY <2>1 DEF Stoppable
<1> QED BY <1>1, <1>2, <1>3

LEMMA NextStoppable ==
    ASSUME Typed, Placed, Attended, Stoppable, [Next]_vars
    PROVE  Stoppable' /\ StopMovesOn
<1>0. Typed' /\ Left \in Nat /\ Left' \in Nat
  <2>1. Typed'
    BY NextPlaced
  <2>2. Left' \in Nat
    BY <2>1, RivalFacts DEF Left, Typed, Process, File
  <2> QED BY <2>1, <2>2, LeftFacts
<1>1. UNCHANGED vars => SameView
  BY DEF vars, kid, SameView
<1>2. /\ Stoppable'
      /\ unit = "stopping" => unit' \in {"stopping", "inactive"} /\ Left' <= Left
  BY <1>0, <1>1, HealthAside, ServiceDrawsNearer, EndDrawsNearer, StopBegins, OthersStandBy
     DEF Next, Proc
<1>3. unit = "stopping" /\ (Service \/ UnitEnds \/ Kill) => Left' < Left
  BY ServiceDrawsNearer, EndDrawsNearer
<1> QED BY <1>2, <1>3 DEF StopMovesOn

(* A stop always has a step that is due, of the service, of systemd or the *)
(* kill, every such step brings the end of the unit nearer, and no other   *)
(* step puts it off: what StopEnds adds is that due steps are taken.       *)
THEOREM StopsDrawNearer == Spec => []StopIsDue /\ [][StopMovesOn]_vars
<1> DEFINE SInv == Typed /\ Placed /\ Attended /\ Stoppable
<1>1. Init => SInv
  <2>1. Init => Attended
    BY IdleFacts, RivalFacts DEF Init, Attended, Writing
  <2>2. Init => Stoppable
    BY IdleFacts, RivalFacts DEF Init, Stoppable
  <2> QED BY <2>1, <2>2, InitPlaced
<1>2. SInv /\ [Next]_vars => SInv' /\ [StopMovesOn]_vars
  BY NextPlaced, NextAttended, NextStoppable
<1>3. SInv => StopIsDue
  <2> SUFFICES ASSUME SInv, unit = "stopping" PROVE StopIsDue
    BY DEF StopIsDue
  <2>1. run["service"].at \in {"wait", "reaped", "open", "write", "swap", "log", "exited"}
    BY RivalFacts DEF Placed, Stoppable, Typed, Process, Steps
  <2>2. run["service"].at = "wait" => child \in {"running", "over"}
    BY DEF Stoppable, Typed
  <2> QED BY <2>1, <2>2 DEF Stoppable, StopIsDue, Writing
<1> HIDE DEF SInv
<1> QED BY <1>1, <1>2, <1>3, PTL DEF Spec
=============================================================================
