--------------------------- MODULE AuthoringServer ---------------------------
(***************************************************************************)
(* The authoring API: threads that serve GET and PUT of one document under *)
(* one lock, the document's file and the audit log beside it, over faults  *)
(* of the disk and crashes of the process.                                 *)
(*                                                                         *)
(* A document is its revision and its text.  Its entity tag is the SHA-256 *)
(* of the whole document, modelled as the document itself.  A document     *)
(* file that is not there is read as the seed, which read_doc then writes. *)
(* Requests of anyone but an administrator, and for other paths, change    *)
(* nothing and are not modelled.                                           *)
(*                                                                         *)
(* audit holds the lines of the log that parse.  append_audit parses the   *)
(* last line first: tail is "whole" if it parses and ends, "open" if it    *)
(* parses but lacks its newline, "cut" if it does not parse.               *)
(***************************************************************************)
EXTENDS Naturals, Sequences

CONSTANTS Request, NoRequest,
          Seed,         \* document.seed.json
          Text,         \* the texts of the instance
          Invalid,      \* the texts that validate refuses
          Tears,        \* how a line may be torn: a subset of {"open", "cut"}
          ShortWrites,  \* os.write may write part of a line and not raise
          MaxRev,       \* bound: document revisions
          MaxFaults,    \* bound: failed reads and writes
          MaxCrashes    \* bound: crashes

Doc == [rev : 0..MaxRev, text : Text]

ASSUME RequestAssumption == NoRequest \notin Request
ASSUME SeedAssumption == Seed \in Doc /\ Seed.text \notin Invalid
ASSUME TearAssumption == Tears \subseteq {"open", "cut"} /\ ShortWrites \in BOOLEAN
ASSUME BoundsAssumption == MaxRev \in Nat /\ MaxFaults \in Nat /\ MaxCrashes \in Nat

VARIABLES doc,       \* document.json
          audit,     \* the lines of audit.jsonl that parse
          tail,      \* how its last line ends
          lock,      \* the request whose thread holds LOCK
          req,       \* [Request -> its state, what it asks and its answer]
          promoted,  \* history: the requests whose body became the document
          faults, crashes   \* counters behind the bounds

vars == <<doc, audit, tail, lock, req, promoted, faults, crashes>>

Phase == {"PREPARED", "COMMITTED", "ABORTED"}
Entry == [phase : Phase, tx : Request, before : Doc, after : Doc]

(* status 0 is no answer: none yet, or none ever for a "lost" request *)
Stage == {"new", "sent", "prepared", "replaced", "aborting", "answered", "lost"}
Status == {0, 200, 400, 412}
Asked == [at : Stage, kind : {"GET", "PUT"}, match : Doc, body : Doc,
          status : Status]

Unsent == [at |-> "new", kind |-> "PUT", match |-> Seed, body |-> Seed, status |-> 0]

TypeOK == /\ doc \in Doc
          /\ audit \in Seq(Entry) /\ tail \in {"whole", "open", "cut"}
          /\ lock \in Request \cup {NoRequest}
          /\ req \in [Request -> Asked]
          /\ promoted \subseteq Request
          /\ faults \in 0..MaxFaults /\ crashes \in 0..MaxCrashes

Init == /\ doc = Seed
        /\ audit = <<>> /\ tail = "whole"
        /\ lock = NoRequest
        /\ req = [r \in Request |-> Unsent]
        /\ promoted = {}
        /\ faults = 0 /\ crashes = 0

-----------------------------------------------------------------------------
(* append_audit *)

Line(r, phase) ==
    [phase |-> phase, tx |-> r, before |-> req[r].match,
     after |-> IF phase = "ABORTED" THEN req[r].match ELSE req[r].body]

(* Mutant: a last line that does not parse is no reason to stop. *)
AppendsBlindly(r, phase) ==
    IF tail = "whole"
    THEN audit' = Append(audit, Line(r, phase)) /\ tail' = "whole"
    ELSE audit' = audit /\ tail' = "cut"

(* After a line without its newline the new one spoils both. *)
Appends(r, phase) ==
    /\ tail # "cut"
    /\ IF tail = "whole"
       THEN audit' = Append(audit, Line(r, phase)) /\ tail' = "whole"
       ELSE audit' = SubSeq(audit, 1, Len(audit) - 1) /\ tail' = "cut"

(* Part of the line: all but its newline, or less. *)
Part(r, phase) ==
    \/ /\ tail = "whole" /\ "open" \in Tears
       /\ audit' = Append(audit, Line(r, phase)) /\ tail' = "open"
    \/ /\ tail = "whole" /\ "cut" \in Tears
       /\ audit' = audit /\ tail' = "cut"
    \/ /\ tail = "open" /\ Tears # {}
       /\ audit' = SubSeq(audit, 1, Len(audit) - 1) /\ tail' = "cut"

(* What a write that fails or that a crash cuts short leaves in the log *)
TornLine(r, phase) == \/ UNCHANGED <<audit, tail>>
                      \/ Appends(r, phase)
                      \/ Part(r, phase)

Fault == faults < MaxFaults /\ faults' = faults + 1

(* It returns.  What os.write returned is not looked at. *)
Logged(r, phase) ==
    \/ Appends(r, phase) /\ UNCHANGED faults
    \/ ShortWrites /\ tail # "cut" /\ Fault /\ Part(r, phase)

(* It raises: on the last line, or on the disk. *)
AppendFails(r, phase) ==
    \/ tail = "cut" /\ UNCHANGED <<audit, tail, faults>>
    \/ tail # "cut" /\ Fault /\ TornLine(r, phase)

-----------------------------------------------------------------------------
Goto(r, stage) == req' = [req EXCEPT ![r].at = stage]

Answer(r, status) ==
    req' = [req EXCEPT ![r] = [@ EXCEPT !.at = "answered", !.status = status]]

Send(r, kind, match, body) ==
    /\ req[r].at = "new"
    /\ req' = [req EXCEPT ![r] = [at |-> "sent", kind |-> kind, match |-> match,
                                  body |-> body, status |-> 0]]
    /\ UNCHANGED <<doc, audit, tail, lock, promoted, faults, crashes>>

(* What a thread does while it alone holds the lock, up to its release *)
Get(r) ==
    /\ req[r].at = "sent" /\ req[r].kind = "GET" /\ lock = NoRequest
    /\ req' = [req EXCEPT ![r] = [@ EXCEPT !.at = "answered", !.status = 200,
                                          !.body = doc]]
    /\ UNCHANGED <<doc, audit, tail, lock, promoted, faults, crashes>>

(* read_doc raises: the seed cannot be written, or the file not read. *)
GetFails(r) ==
    /\ req[r].at = "sent" /\ req[r].kind = "GET" /\ lock = NoRequest
    /\ Fault
    /\ Goto(r, "lost")
    /\ UNCHANGED <<doc, audit, tail, lock, promoted, crashes>>

(* validate raises, before the lock is taken. *)
Reject(r) ==
    /\ req[r].at = "sent" /\ req[r].kind = "PUT" /\ req[r].body.text \in Invalid
    /\ Answer(r, 400)
    /\ UNCHANGED <<doc, audit, tail, lock, promoted, faults, crashes>>

Enters(r) == /\ req[r].at = "sent" /\ req[r].kind = "PUT"
             /\ req[r].body.text \notin Invalid
             /\ lock = NoRequest

ReadFails(r) ==
    /\ Enters(r) /\ Fault
    /\ Answer(r, 400)
    /\ UNCHANGED <<doc, audit, tail, lock, promoted, crashes>>

Conflict(r) ==
    /\ Enters(r)
    /\ req[r].match # doc
    /\ Answer(r, 412)
    /\ UNCHANGED <<doc, audit, tail, lock, promoted, faults, crashes>>

Accepts(r) == req[r].match = doc /\ req[r].body.rev > doc.rev

NotAdvancing(r) ==
    /\ Enters(r)
    /\ req[r].match = doc /\ req[r].body.rev <= doc.rev
    /\ Answer(r, 400)
    /\ UNCHANGED <<doc, audit, tail, lock, promoted, faults, crashes>>

(* Mutant: the checks are made before the lock is taken. *)
PrepareUnlocked(r) ==
    /\ req[r].at = "sent" /\ req[r].kind = "PUT"
    /\ req[r].body.text \notin Invalid /\ Accepts(r)
    /\ Logged(r, "PREPARED")
    /\ lock' = r
    /\ Goto(r, "prepared")
    /\ UNCHANGED <<doc, promoted, crashes>>

Prepare(r) ==
    /\ Enters(r) /\ Accepts(r)
    /\ Logged(r, "PREPARED")
    /\ lock' = r
    /\ Goto(r, "prepared")
    /\ UNCHANGED <<doc, promoted, crashes>>

PrepareFails(r) ==
    /\ Enters(r) /\ Accepts(r)
    /\ AppendFails(r, "PREPARED")
    /\ Answer(r, 400)
    /\ UNCHANGED <<doc, lock, promoted, crashes>>

(* os.replace *)
Replace(r) ==
    /\ req[r].at = "prepared"
    /\ doc' = req[r].body
    /\ promoted' = promoted \cup {r}
    /\ Goto(r, "replaced")
    /\ UNCHANGED <<audit, tail, lock, faults, crashes>>

(* The temporary file cannot be written or renamed. *)
ReplaceFails(r) ==
    /\ req[r].at = "prepared" /\ Fault
    /\ Goto(r, "aborting")
    /\ UNCHANGED <<doc, audit, tail, lock, promoted, crashes>>

Abort(r) ==
    /\ req[r].at = "aborting"
    /\ Logged(r, "ABORTED") \/ AppendFails(r, "ABORTED")
    /\ lock' = NoRequest
    /\ Answer(r, 400)
    /\ UNCHANGED <<doc, promoted, crashes>>

(* Mutant: the transaction is closed in the log before the file is. *)
CommitEarly(r) ==
    /\ req[r].at \in {"prepared", "replaced"}
    /\ Logged(r, "COMMITTED")
    /\ lock' = NoRequest
    /\ Answer(r, 200)
    /\ UNCHANGED <<doc, promoted, crashes>>

Commit(r) ==
    /\ req[r].at = "replaced"
    /\ Logged(r, "COMMITTED")
    /\ lock' = NoRequest
    /\ Answer(r, 200)
    /\ UNCHANGED <<doc, promoted, crashes>>

(* Mutant: the exception leaves the lock taken. *)
CommitFailsLocked(r) ==
    /\ req[r].at = "replaced"
    /\ AppendFails(r, "COMMITTED")
    /\ Answer(r, 400)
    /\ UNCHANGED <<doc, lock, promoted, crashes>>

(* The document is promoted all the same. *)
CommitFails(r) ==
    /\ req[r].at = "replaced"
    /\ AppendFails(r, "COMMITTED")
    /\ lock' = NoRequest
    /\ Answer(r, 400)
    /\ UNCHANGED <<doc, promoted, crashes>>

(* The line that the holder of the lock may be writing *)
Writing == IF lock = NoRequest THEN {}
           ELSE CASE req[lock].at = "replaced" -> {"COMMITTED"}
                  [] req[lock].at = "aborting" -> {"ABORTED"}
                  [] OTHER -> {}

(* The process ends and systemd starts it again: no client gets an answer. *)
Crash ==
    /\ crashes < MaxCrashes
    /\ crashes' = crashes + 1
    /\ lock' = NoRequest
    /\ req' = [r \in Request |->
                 IF req[r].at \in {"new", "answered"} THEN req[r]
                 ELSE [req[r] EXCEPT !.at = "lost"]]
    /\ \/ UNCHANGED <<audit, tail>>
       \/ \E phase \in Writing : TornLine(lock, phase)
       \/ /\ lock = NoRequest
          /\ \E r \in Request : Enters(r) /\ Accepts(r) /\ TornLine(r, "PREPARED")
    /\ UNCHANGED <<doc, promoted, faults>>

Handle(r) == \/ Get(r) \/ GetFails(r) \/ Reject(r) \/ ReadFails(r)
             \/ Conflict(r) \/ NotAdvancing(r)
             \/ Prepare(r) \/ PrepareFails(r) \/ Replace(r) \/ ReplaceFails(r)
             \/ Abort(r) \/ Commit(r) \/ CommitFails(r)

Next == \/ \E r \in Request : Handle(r)
        \/ \E r \in Request : \/ Send(r, "GET", Seed, Seed)
                             \/ \E match, body \in Doc : Send(r, "PUT", match, body)
        \/ Crash

Spec == Init /\ [][Next]_vars

(* A thread that has its request, and the lock if it needs it, runs. *)
FairSpec == Spec /\ \A r \in Request : WF_vars(Handle(r))

-----------------------------------------------------------------------------
(* The document is promoted by compare-and-swap, at most once a request.   *)
Ask == [r \in Request |-> [match |-> req[r].match,
                           body |-> IF req[r].kind = "PUT" THEN req[r].body
                                    ELSE Seed]]
Abstract == INSTANCE VersionedDocument WITH ask <- Ask
ImplementsVersionedDocument == Abstract!Spec

InAudit(r, phase) == \E i \in 1..Len(audit) : audit[i].tx = r /\ audit[i].phase = phase

(* What the log says happened did: a transaction it calls COMMITTED has    *)
(* become the document, one it calls ABORTED has not and never will.       *)
AuditIsTrue ==
    \A r \in Request : /\ InAudit(r, "COMMITTED") => r \in promoted
                       /\ InAudit(r, "ABORTED") => r \notin promoted

(* What a client is told of its PUT is true: 200 means promoted, 412 means *)
(* that it was not and never will be.                                      *)
AnswersAreTrue ==
    \A r \in Request : /\ req[r].kind = "PUT" /\ req[r].status = 200 => r \in promoted
                       /\ req[r].status = 412 => r \notin promoted

(* As long as its last line parses, the log holds a PREPARED line of every *)
(* promoted document and a COMMITTED line of every request answered 200,   *)
(* and never more than one request answered 200 lacks its COMMITTED line.  *)
Unlogged == {r \in Request : req[r].kind = "PUT" /\ req[r].status = 200
                              /\ ~ InAudit(r, "COMMITTED")}
TraceKept ==
    /\ tail # "cut" => Unlogged = {} /\ \A r \in promoted : InAudit(r, "PREPARED")
    /\ \A r, s \in Unlogged : r = s

(* Every request is answered, unless the process ends under it. *)
RequestsEnd ==
    \A r \in Request : (req[r].at = "sent") ~> (req[r].at \in {"answered", "lost"})
=============================================================================
