---------------------------- MODULE ModuleRunner ----------------------------
(***************************************************************************)
(* One instance of keddeh-module@.service and its health unit.             *)
(*                                                                         *)
(* Each process of keddeh-module-runner.py leaves receipts: it replaces a  *)
(* state file and a phase file by way of temporary files and appends a     *)
(* line to the log.  The temporary files have fixed names: a process of    *)
(* the service and one of the health unit, which systemd does not keep     *)
(* apart, write the same ones.                                             *)
(*                                                                         *)
(* A receipt is its number: its state root, its phase root and its line    *)
(* tell it from any other.                                                 *)
(***************************************************************************)
EXTENDS Integers

CONSTANTS Class,        \* the classes of module the instance may be of
          MaxLaunches,  \* bound: starts of the unit and of its health unit
          MaxFaults     \* bound: processes killed, or failing at a file

ASSUME ClassAssumption == Class \subseteq {"static", "external", "exec"}
ASSUME BoundAssumption == MaxLaunches \in Nat /\ MaxFaults \in Nat

VARIABLES class,     \* what the module is: "exec" has a command
          unit,      \* what systemd does with the service
          run,       \* [Proc -> the runner process in that place]
          cur, tmp,  \* [File -> content], under its name and its temporary one
          line,      \* the receipt that the last line of the log is of
          said,      \* the event of its last line about the service, health
                     \* readbacks aside
          made,      \* receipts begun
          clashed,   \* history: two receipts were under way at once, and no
                     \* undisturbed one has been completed since
          child,     \* the module's own process; "over" until it is waited for
          asked,     \* it was sent SIGTERM
          launched, faults

log == <<line, said>>
files == <<cur, tmp>>
count == <<made, clashed>>
kid == <<child, asked>>
bounds == <<class, launched, faults>>
vars == <<unit, run, files, log, count, kid, bounds>>

Proc == {"service", "health"}
Rival(p) == IF p = "service" THEN "health" ELSE "service"
File == {"state", "phase"}

(* What a file holds if not the text of a receipt *)
Absent == 0
Empty == -1
Torn == -2
Content == Nat \cup {Empty, Torn}

ServiceEvent == {"VALIDATED", "REGISTERED_STATIC", "EXTERNAL_ACTUATOR_REQUIRED",
                 "START_REQUESTED", "PROCESS_EXIT"}
Event == ServiceEvent \cup {"HEALTH_READBACK"}

(* at: where the process is, open to log in a receipt.  fd: what the file  *)
(* it has open goes by now.  alone: no other receipt was under way during  *)
(* this one.  ok: the exit status is 0.                                    *)
Steps == {"idle", "begin", "open", "write", "swap", "log", "popen", "handlers",
          "wait", "reaped", "exited"}
Process == [at : Steps, on : File, fd : {"none", "tmp", "cur", "gone"},
            n : Nat, event : Event, alone : BOOLEAN, ok : BOOLEAN]

Idle == [at |-> "idle", on |-> "state", fd |-> "none", n |-> 0,
         event |-> "VALIDATED", alone |-> FALSE, ok |-> TRUE]

TypeOK == /\ class \in Class
          /\ unit \in {"inactive", "validating", "started", "stopping", "restarting"}
          /\ run \in [Proc -> Process]
          /\ cur \in [File -> Content] /\ tmp \in [File -> Content]
          /\ line \in Nat /\ said \in ServiceEvent \cup {"nothing"}
          /\ made \in Nat /\ clashed \in BOOLEAN
          /\ child \in {"none", "running", "over"} /\ asked \in BOOLEAN
          /\ launched \in 0..MaxLaunches /\ faults \in 0..MaxFaults
          /\ \A p \in Proc : run[p].fd # "none" => run[p].at = "write"
          /\ run["service"].at = "idle" <=> unit \in {"inactive", "restarting"}

Init == /\ class \in Class /\ unit = "inactive"
        /\ run = [p \in Proc |-> Idle]
        /\ cur = [f \in File |-> Absent] /\ tmp = [f \in File |-> Absent]
        /\ line = 0 /\ said = "nothing" /\ made = 0 /\ clashed = FALSE
        /\ child = "none" /\ asked = FALSE
        /\ launched = 0 /\ faults = 0

-----------------------------------------------------------------------------
(* A receipt *)

Writing(p) == run[p].at \in {"open", "write", "swap", "log"}

Exited(ok) == [Idle EXCEPT !.at = "exited", !.ok = ok]
Goto(p, at) == run' = [run EXCEPT ![p].at = at]
Exits(p, ok) == run' = [run EXCEPT ![p] = Exited(ok)]

(* ok: the exit status that will follow a PROCESS_EXIT *)
BeginReceipt(p, e, ok) ==
    LET q == Rival(p)
    IN  /\ made' = made + 1
        /\ clashed' = (clashed \/ Writing(q))
        /\ run' = [run EXCEPT ![p] = [at |-> "open", on |-> "state", fd |-> "none",
                                      n |-> made + 1, event |-> e,
                                      alone |-> ~ Writing(q), ok |-> ok],
                              ![q].alone = FALSE]

(* Mutant: the file is opened under its own name. *)
OpenInPlace(p) ==
    /\ run[p].at = "open"
    /\ cur' = [cur EXCEPT ![run[p].on] = Empty]
    /\ run' = [run EXCEPT ![p].at = "write", ![p].fd = "cur"]
    /\ UNCHANGED <<unit, tmp, log, count, kid, bounds>>

(* write_text opens the file and truncates it. *)
Open(p) == /\ run[p].at = "open"
           /\ tmp' = [tmp EXCEPT ![run[p].on] = Empty]
           /\ run' = [run EXCEPT ![p].at = "write", ![p].fd = "tmp"]
           /\ UNCHANGED <<unit, cur, log, count, kid, bounds>>

(* Text n written from the start of a file: over another text, of another  *)
(* length, it leaves one or a mixture.                                     *)
Over(content, n) == IF content = Empty THEN {n} ELSE {n, Torn}

(* The file may have been renamed since it was opened, or replaced. *)
Write(p) ==
    /\ run[p].at = "write"
    /\ LET f == run[p].on
       IN  \/ /\ run[p].fd = "tmp" /\ UNCHANGED cur
              /\ \E c \in Over(tmp[f], run[p].n) : tmp' = [tmp EXCEPT ![f] = c]
           \/ /\ run[p].fd = "cur" /\ UNCHANGED tmp
              /\ \E c \in Over(cur[f], run[p].n) : cur' = [cur EXCEPT ![f] = c]
           \/ run[p].fd = "gone" /\ UNCHANGED files
    /\ run' = [run EXCEPT ![p].at = "swap", ![p].fd = "none"]
    /\ UNCHANGED <<unit, log, count, kid, bounds>>

(* What an open file goes by once the temporary name has replaced the other *)
Renamed(r, f) == IF r.at # "write" \/ r.on # f THEN r.fd
                 ELSE CASE r.fd = "tmp" -> "cur"
                        [] r.fd = "cur" -> "gone"
                        [] OTHER -> r.fd

Swap(p) ==
    /\ run[p].at = "swap"
    /\ LET f == run[p].on
           q == Rival(p)
       IN  /\ tmp[f] # Absent
           /\ cur' = [cur EXCEPT ![f] = tmp[f]]
           /\ tmp' = [tmp EXCEPT ![f] = Absent]
           /\ run' = [run EXCEPT ![p].at = IF f = "state" THEN "open" ELSE "log",
                                 ![p].on = "phase",
                                 ![q].fd = Renamed(run[q], f)]
    /\ UNCHANGED <<unit, log, count, kid, bounds>>

(* FileNotFoundError from os.replace: the rival has renamed it already. *)
Robbed(p) == /\ run[p].at = "swap" /\ tmp[run[p].on] = Absent
             /\ Exits(p, FALSE)
             /\ UNCHANGED <<unit, files, log, count, kid, bounds>>

(* What comes after the receipt *)
Done(p) ==
    LET e == run[p].event
    IN  CASE e = "START_REQUESTED" -> Goto(p, "popen")
          [] e = "PROCESS_EXIT" -> Exits(p, run[p].ok)
          [] e = "EXTERNAL_ACTUATOR_REQUIRED" -> Exits(p, FALSE)
          [] e = "HEALTH_READBACK" -> Exits(p, cur["state"] # Absent)
          [] OTHER -> Exits(p, TRUE)

AppendLine(p) ==
    /\ run[p].at = "log"
    /\ line' = run[p].n
    /\ said' = IF p = "service" THEN run[p].event ELSE said
    /\ clashed' = (clashed /\ ~ run[p].alone)
    /\ Done(p)
    /\ UNCHANGED <<unit, files, made, kid, bounds>>

Receipt(p) == Open(p) \/ Write(p) \/ Swap(p) \/ Robbed(p) \/ AppendLine(p)

-----------------------------------------------------------------------------
(* The runner's processes *)

(* load_module: what the index says of the module is not so.  start also   *)
(* ends here without the activation or the environment it requires.        *)
Refuses(p) == /\ run[p].at = "begin"
              /\ Exits(p, FALSE)
              /\ UNCHANGED <<unit, files, log, count, kid, bounds>>

(* The action's first receipt *)
Begin(p) ==
    /\ run[p].at = "begin"
    /\ BeginReceipt(p, CASE p = "health" -> "HEALTH_READBACK"
                         [] p = "service" /\ unit = "validating" -> "VALIDATED"
                         [] OTHER -> CASE class = "static" -> "REGISTERED_STATIC"
                                       [] class = "external" -> "EXTERNAL_ACTUATOR_REQUIRED"
                                       [] OTHER -> "START_REQUESTED", TRUE)
    /\ UNCHANGED <<unit, files, log, kid, bounds>>

(* Popen, in a session of the child's own, or there is no such program. *)
Popen == /\ run["service"].at = "popen"
         /\ \/ child' = "running" /\ Goto("service", "handlers")
            \/ Exits("service", FALSE) /\ UNCHANGED child
         /\ UNCHANGED <<unit, files, log, count, asked, bounds>>

SetHandlers == /\ run["service"].at = "handlers"
               /\ Goto("service", "wait")
               /\ UNCHANGED <<unit, files, log, count, kid, bounds>>

(* The module's process ends, when it likes. *)
ChildEnds == /\ child = "running"
             /\ child' = "over"
             /\ UNCHANGED <<unit, run, files, log, count, asked, bounds>>

(* waitpid has returned in proc.wait, which has yet to note it. *)
WaitReturns == /\ run["service"].at = "wait" /\ child = "over"
               /\ child' = "none"
               /\ Goto("service", "reaped")
               /\ UNCHANGED <<unit, files, log, count, asked, bounds>>

(* The exit status of the child becomes the runner's. *)
ReportExit == /\ run["service"].at = "reaped"
              /\ \E ok \in BOOLEAN : BeginReceipt("service", "PROCESS_EXIT", ok)
              /\ UNCHANGED <<unit, files, log, kid, bounds>>

(* A process is killed, or a file operation of a receipt raises; a write   *)
(* that fails for want of space leaves part of the text.                   *)
Dies(p) ==
    /\ run[p].at \notin {"idle", "exited"} /\ faults < MaxFaults
    /\ faults' = faults + 1
    /\ Exits(p, FALSE)
    /\ LET f == run[p].on
       IN  \/ UNCHANGED files
           \/ /\ run[p].fd = "tmp"
              /\ tmp' = [tmp EXCEPT ![f] = Torn] /\ UNCHANGED cur
           \/ /\ run[p].fd = "cur"
              /\ cur' = [cur EXCEPT ![f] = Torn] /\ UNCHANGED tmp
    /\ UNCHANGED <<unit, log, count, kid, class, launched>>

Service == \/ Receipt("service") \/ Refuses("service") \/ Begin("service")
           \/ Popen \/ SetHandlers \/ WaitReturns \/ ReportExit

Health == Receipt("health") \/ Refuses("health") \/ Begin("health")

-----------------------------------------------------------------------------
(* systemd *)

Launch(p) == /\ launched < MaxLaunches /\ launched' = launched + 1
             /\ run[p].at = "idle" /\ Goto(p, "begin")

(* systemctl start, or RestartSec is over: first the ExecStartPre *)
StartUnit == /\ unit \in {"inactive", "restarting"} /\ unit' = "validating"
             /\ Launch("service")
             /\ UNCHANGED <<files, log, count, kid, class, faults>>

StartHealth == /\ Launch("health")
               /\ UNCHANGED <<unit, files, log, count, kid, class, faults>>

HealthEnds == /\ run["health"].at = "exited" /\ Goto("health", "idle")
              /\ UNCHANGED <<unit, files, log, count, kid, bounds>>

Validated == /\ unit = "validating" /\ run["service"] = Exited(TRUE)
             /\ unit' = "started" /\ Goto("service", "begin")
             /\ UNCHANGED <<files, log, count, kid, bounds>>

(* Mutant: KillMode=process. *)
UnitEndsAlone ==
    /\ run["service"].at = "exited"
    /\ unit = "validating" => ~ run["service"].ok
    /\ unit' = IF unit # "stopping" /\ ~ run["service"].ok THEN "restarting"
               ELSE "inactive"
    /\ run' = [run EXCEPT !["service"] = Idle]
    /\ UNCHANGED <<files, log, count, kid, bounds>>

(* The unit's process has ended: KillMode=mixed ends the rest of the unit  *)
(* with SIGKILL.  Restart=on-failure, unless a stop was asked for.         *)
UnitEnds ==
    /\ run["service"].at = "exited"
    /\ unit = "validating" => ~ run["service"].ok
    /\ unit' = IF unit # "stopping" /\ ~ run["service"].ok THEN "restarting"
               ELSE "inactive"
    /\ child' = "none" /\ asked' = FALSE
    /\ run' = [run EXCEPT !["service"] = Idle]
    /\ UNCHANGED <<files, log, count, bounds>>

(* Mutant: poll() of a running child is mistaken for that of one that ended. *)
TerminateRunnerOnly ==
    LET r == run["service"]
    IN  IF r.at \in {"wait", "exited"} \/ (Writing("service") /\ r.event = "PROCESS_EXIT")
        THEN UNCHANGED <<run, asked>>
        ELSE Exits("service", FALSE) /\ UNCHANGED asked

(* SIGTERM, in a process that has set its handlers or not: stop() passes   *)
(* it on to the child's group; of a child that waitpid has just taken,     *)
(* poll() says None, because proc.wait holds its lock, and killpg raises.  *)
(* A child that is done with is left alone.                                *)
Terminate ==
    LET r == run["service"]
    IN  CASE r.at = "wait" -> asked' = TRUE /\ UNCHANGED run
          [] r.at = "exited" \/ (Writing("service") /\ r.event = "PROCESS_EXIT") ->
               UNCHANGED <<run, asked>>
          [] OTHER -> Exits("service", FALSE) /\ UNCHANGED asked

(* systemctl stop *)
StopUnit ==
    /\ \/ unit = "restarting" /\ unit' = "inactive" /\ UNCHANGED <<run, asked>>
       \/ unit \in {"validating", "started"} /\ unit' = "stopping" /\ Terminate
    /\ UNCHANGED <<files, log, count, child, bounds>>

(* TimeoutStopSec, then SIGKILL, for a child that does not end when asked. *)
(* That nothing else holds a stop up is what StopEnds checks.              *)
Kill == /\ unit = "stopping" /\ run["service"].at = "wait"
        /\ child = "running" /\ asked
        /\ child' = "none"
        /\ Exits("service", FALSE)
        /\ UNCHANGED <<unit, files, log, count, asked, bounds>>

-----------------------------------------------------------------------------
Next == \/ Service \/ Health \/ ChildEnds \/ \E p \in Proc : Dies(p)
        \/ StartUnit \/ StartHealth \/ HealthEnds \/ Validated \/ UnitEnds
        \/ StopUnit \/ Kill

Spec == Init /\ [][Next]_vars

(* Processes run and systemd acts; nothing is asked of the module's own.   *)
FairSpec == /\ Spec
            /\ WF_vars(Service) /\ WF_vars(UnitEnds) /\ WF_vars(Kill)

-----------------------------------------------------------------------------
(* Unless two receipts overlapped since the last undisturbed one, the      *)
(* files hold whole receipts, the state file is never behind the phase     *)
(* file, nor that behind the log, whichever process was killed where; and  *)
(* a receipt without a rival renames its own text.                         *)
FilesInOrder ==
    /\ ~ clashed => line <= cur["phase"] /\ cur["phase"] <= cur["state"]
    /\ \A p \in Proc : run[p].at = "swap" /\ run[p].alone => tmp[run[p].on] = run[p].n

(* The module's process runs only in a unit that is up, and as long as it  *)
(* is there the log's last word on the service is that a start was         *)
(* requested: not two starts at once, and no report of an end before it.   *)
ChildAccountedFor ==
    child # "none" => unit \in {"started", "stopping"} /\ said = "START_REQUESTED"

(* A stop ends with the unit down, whenever the signal comes and whatever  *)
(* the module's process does about it.                                     *)
StopEnds == (unit = "stopping") ~> (unit = "inactive")
=============================================================================
