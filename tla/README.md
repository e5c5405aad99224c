# Verification of the KEDDEH server repository

TLA+ models of the programs in this repository that keep state and run
concurrently (the mesh backbone, the domain authority behind it, the authoring
API and the module runner), and of the graph search of its runtime unification. TLC
checks them on small instances, and TLAPS proves all the safety that the runs check
for every value of the constants.

All paths below are relative to `src/`.

## The system

A host runs one backbone process per node, under systemd. The process appends
receipts to a hash-chained log, seeds its zone in a SQLite registrar database that
all nodes and other programs of the host share, serves that database over DNS,
answers signed requests of its mesh peers, and probes them in turn. Beside it, an
authoring API serves one editable document to administrators' browsers, and a
module runner starts other modules of the repository as systemd units. Packaging and
deployment scripts install, start and validate all of this.

    peers <--TLS--> mesh listener --+                    +--> receipt log (file)
                                    |-- backbone process-+
    peers <--probes-- heartbeat ----+         |          +--> DNS server <-- resolvers
                                              | seed            | reads
    cross-sector handler, self-test ----> registrar database <--+
                                            (SQLite, shared)
    browser tabs <--HTTP--> authoring API --> document.json, audit.jsonl
    keddeh-module@, keddeh-module-health@ --> module runner --> state, phase, receipts

### Components, their state and what makes them correct

| component | source | state | operations | what makes it correct |
|---|---|---|---|---|
| receipt log | `runtime/backbone/keddeh_mesh_backbone.py` 77-124 | the log file, the process-wide lock | `append_receipt`, `_last_proof_root` | one unforked chain; a returned receipt is durable; damage stays local; the lock comes back |
| peer health | same, 207-225, 321-368 | a `PeerState` per peer, the heartbeat thread | `_heartbeat_loop`, `probe_peer`, `refresh_freshness` | verdicts fit the probes, come in time, do not fade, recover |
| node lifecycle | same, 228-319, 534-569; `systemd/keddeh-backbone@.service` | process stages, sockets, connections, the session's receipts, the unit | `start`, `stop`, `main`, `MeshHandler.handle`, start, stop and restart by systemd | receipts are true and in order; peers are served; a stop ends; the node returns |
| registrar | `runtime/domain_authority/kex_registrar_service.py` | tables of zones, records and routes; the SQLite write lock | `init_registrar_db`, `register_domain`, `register_zone`, `upsert_record`, lookups | atomic calls; serials and routes do not regress; what was written reads back |
| cross-sector handler | `runtime/domain_authority/cross_sector_handler.py` | none of its own | `execute`: five to six registrar calls | its calls, interleaved with others', keep the above |
| DNS server | `runtime/domain_authority/kex_dns.py` | sockets, two loops, TCP threads | `_udp_loop`, `_tcp_loop`, `_tcp_client`, `_build_response`, `stop` | no false denial; serials move forward; every query and every stop ends |
| authoring API | `worktrees/authoring-surface/server.py` | document, audit log, lock | GET, PUT | PUT is a compare-and-swap; log and answers are true |
| authoring tab | `worktrees/authoring-surface/app.js` | shown document, entity tag, remote flag, the inspector's artifact and text | connect, select, create, apply, duplicate, delete, save, draft | a save loses nothing of another's (it may: see the disagreements) |
| module runner | `packaging/bin/keddeh-module-runner.py`; `packaging/systemd/keddeh-module@.service`, `keddeh-module-health@.service` | state, phase and receipt files, two temporary files, the module's process, the unit | validate, start, health; start, stop and restart by systemd | the files are whole and in order; the module's process is accounted for; a stop ends |
| runtime unification | `keddeh/runtime/runtime_unification_v1.py` | the search's stack and numbers; cells, receipt head | components of a graph, mailbox transformation; `atomic_write`, `verify` | the components are the classes of nodes that lead to each other; a mailbox only takes cycles apart (cells and verifier *not modelled*) |
| dispatcher R15, foundries R18/R19 | `runtime/R15`, `foundries` | a list of receipts | `dispatch`, adapters | *not modelled* |
| edge qualification and renderer | `runtime/backbone` | none | predicates, text | *not modelled* |
| validator, activation, installers, observer | `deploy`, `packaging/install.sh` | files, units | scripts | only the chain check of the validator |

### How they interact, and what is hard

- Threads of one process (main, heartbeat, one per mesh connection) share the
  receipt lock and the file behind it; an error of the disk meets each of them at
  another place. A crash may leave a torn line for the next session.
- The receipt of a probe and that of a mesh answer are written inside the `try`
  of the thing they report. A receipt that raises turns a success into a failure.
- The mesh listener makes the TLS handshake in its accept loop, with no timeout:
  one peer decides for all others, and for `stop()`.
- Several processes write the registrar. Each call is a transaction, a job is not:
  a job fails half way through when another one has moved the serial.
- A DNS answer is put together from many reads, one per record type, each of the last commit.
- In the browser every `await` is a point where another click can run, and the
  inspector's text is older than the document whenever something else replaced that.
- The start and the health unit of a module write the same two temporary files, and
  a signal may come between any two statements of the runner.
- Time matters in the heartbeat (expiry, rounds as long as their probes), in the
  serials (the seed's serial is the hour in UTC, the handler's the day in local time),
  and in systemd's start limit and stop timeout.

The list `hazards` in `PROJECT.json` names each of these at its line with the
properties that would catch it.

## The modules

Every definition that models code has its lines in `PROJECT.json` under `map`.
Definitions commented *Mutant* are plausible bugs. No specification uses them;
substituted for the definition they belong to, they break the property listed
with them, which shows that the property depends on the code.

### ProofChain, ReceiptLog

`ReceiptLog` has one action per step of `append_receipt`: call, take the lock,
read the tip, write, fsync, release, return; plus the failing write, the failing
fsync and the crash. A line is the pair of roots a reader finds in it. A SHA-256
root is the number of the call that computed it. Mode `"a"` is modelled by what
it does: bytes land behind the last byte, so a line without its newline swallows
them (`Put`). `ChainHolds` is the parse and the loop of `verify_receipts` in the
validator; that it also refuses an empty log, and one without the events of a session,
is not part of it, for `append_receipt` promises neither.
`ProofChain` is what the log promises: a chain to which records are added at
its tip, reported only when they are in it, and of which a crash takes back only
unreported ones. `ReceiptLog` implements it with `chain <- file`, up to the first
line that is torn.

### PeerHealth

`PeerState` for each peer and the heartbeat thread as a loop over them, with a
clock. A probe takes up to `ProbeMax`, a receipt up to `LogMax`, so a round has
the length it has in the code. Reachability and the disk change at any moment. A
success whose receipt raises is booked as a failure afterwards, like in the code.
A second receipt that raises ends the thread.

### Backbone

The unit (start limit, `ExecStartPre`, `Restart=always`, `TimeoutStopSec`), the
main thread stage by stage, the listener thread, and each connection from
connect to close. What ends main ends the process. `Reports` is a step of main
with a receipt that may raise; `LogAccept` and `LogReject` are those of a handler
thread. `append_receipt` is one step here, because `ReceiptLog` shows it to be
atomic. The seeding is one step too, because `Registrar` has its calls; only
its outcome depends on the stored serial.

### AtomicRegistrar, RegistrarDb, Registrar

`RegistrarDb` holds the tables as a value and each call as a function of them:
`Raises` when it is refused, `Apply` what it does, `FindZone` and `GetRecords`
the lookups. A name is the sequence of its labels, so that the longest matching
zone is a matter of suffixes, as in the SQL. `Registrar` runs jobs (seed,
self-test, sector envelope) as sequences of calls in transactions of concurrent
processes: `BEGIN IMMEDIATE`, check, commit or rollback, and a process may die or
fail to get the lock anywhere. The day of the handler's serial begins `LocalOffset`
hours before or after that of UTC. An envelope may ask for any domain, also for the name
of a host: `find_zone` then takes the longer zone, and the host's record is out of
sight (`Hidden`). `AtomicRegistrar` is one database that serves one
call at a time; `Registrar` implements it.

### KexDNS

Extends `Registrar` with the DNS server: a query goes through `_build_response`
read by read, while the processes of `Registrar` commit between the reads. The
handlers are the UDP loop, which is busy with a query until it is done, and TCP
threads. A read may raise, which drops the query (`ReadFails`), and so may `inet_aton`
on the address of a route, which `register_domain` takes as it comes: that is an
`OSError`, upon which the UDP loop ends (`Malformed`). `since` and `absent` are history variables for the two main properties.
The loop over all record types reads the types that the instance has records of.

### VersionedDocument, AuthoringServer

GET and PUT with the lock, the three checks, PREPARED, replacement, COMMITTED or
ABORTED, and the answer. A document is its revision and its text, and its tag
is the document itself (SHA-256 without collisions). A disk error may leave a line
that parses without its newline, or one that does not parse; a short write does
so without an error. A read may fail as well, which a GET answers with nothing and a
PUT with 400. A crash is the end of the process: what was renamed stays renamed, while
the end of the machine could take it back, for there is no `fsync` of the directory.
`VersionedDocument` is a document changed only by
compare-and-swap, at most once a request; `AuthoringServer` implements it.

### AuthoringTab

Extends `AuthoringServer` with the tabs. A tab has its document and tag, and an
inspector: the artifact that was selected and the text its editor was filled with.
`select` fills it, at a click or at the end of `apply-code` and `duplicate`;
`connectAdmin` replaces document and tag and leaves it as it is. `Applied` puts the
text, with a change of the user's, in the place of the artifact's code, whatever that
is by now. `saveRemote` is two steps, as in the code: the tag from the headers, later
the document from the body. With `Overlap = FALSE` a user waits for each answer.

The text of a document is a set of facts (an artifact was made, its code holds a
change, it was deleted), so that what a save takes away is a difference of sets.
`fresh` and `overwritten` are history: whether the editor was filled since the last
Admin control, and what older text was put over since then. A user's own edits
only add, so whatever disappears was not meant to.

### ModuleRunner

One instance of `keddeh-module@.service` and its health unit. A runner process is in
one of the steps of `main` and `receipt`: a receipt opens, writes and renames the
temporary file of the state, then of the phase, and appends its line. The two units
are not kept apart by systemd (`packaging/README.md` has the health unit started
right behind the module), so two receipts can overlap: a file that a process has
open may be renamed by the other (`Renamed`), two texts written over each other are
one of them or a mixture (`Over`), and a rename may find the file gone (`Robbed`),
which ends the runner with 1. A receipt's text is its number. What `load_module` and
`require_activation` refuse is one action, `Refuses`. The module's process is a
child in a session of its own. A signal is told apart by where it comes:
between `Popen` and the handlers it ends the runner alone, between the
return of `waitpid` and its being noted `poll()` says None and `killpg` raises.
Lines are appended whole (one `os.write`), and power loss, against which the
missing fsync before `os.replace` would matter, is left out.

### SyncGraph

The graph of synchronous calls. Tarjan's search, which the code makes by recursion, is
a state machine with the visits under way as a sequence of frames; lists of
targets and the keys of the graph are taken in every order. Behind the first search a
mailbox is put on any edge, as `insert_mailbox` does it, and the search is made
again. The reference is a definition without any search: two nodes are in a
class if each is in every set that holds the other and is closed under targets.

## The runs

`tlc -config <run>.cfg <module>` in this directory. Every run takes less than
five minutes with two workers.

| run | checks | bounds, and why they are enough |
|---|---|---|
| `ReceiptLog` | types, `DamageContained`, `LossBounded`, `SyncedLinesKept`, `LockReleased`, `ImplementsProofChain` | three threads, three calls, two crashes and two tears: three threads can meet at the lock, a tear can meet the remains of another, a recovery can follow a recovery; the theorems below say the same for all bounds |
| `PeerHealth_loop` | `VerdictFitsProbes`, `DownInTime`, `NoSoftRecovery`, `ReportedUpAnswered`, `FoundPeerReturns` | two peers, period 1, expiry 3, probe and receipt up to 1 each: a round (4) is longer than the expiry, so that verdicts expire in the middle of it; counters stop at 3, where the code's only threshold is; `MaxDark` is one more than three periods |
| `Registrar_safe` | types, `DoneJobsReadBack`, `SerialNeverRegresses`, `RoutesKept`, `ImplementsAtomicRegistrar` | two processes and three jobs of any kind, three hours over days of two that begin an hour apart in local time and UTC: a job of yesterday against one of today, the serial of the day against that of the hour, a parent and a child zone, envelopes for the root zone, for one with a default route and for the name of a host |
| `KexDNS_serves` | types, `NxdomainIsTrue`, `SerialsMoveForward`, `ServingEnds` (queries, writers of the database and loops) | two queries, one after the other in the UDP loop, for a name that becomes a route and a zone and for one that becomes a record; failing sockets and reads, a route with an address that `inet_aton` refuses, a stop at any moment, two jobs of any kind, of which one may find the zone at a higher serial. A TCP thread takes the same steps as the UDP loop; that several handlers at once change nothing is proved |
| `KexDNS_published` | `PublishedIsAnswered`, violated | one node, its seed, one query |
| `SyncGraph` | types, `ComponentsAreClasses`, `MailboxCuts` | all 729 graphs of up to three keys, every edge, a mailbox with a fresh name and with that of a node: three nodes can have a component closed while the search above it goes on, and an edge from a later root into it |
| `AuthoringServer` | `AuditIsTrue`, `AnswersAreTrue`, `TraceKept`, `ImplementsVersionedDocument`, `RequestsEnd` | two concurrent requests of any kind, two failed reads or writes or short writes, one crash, every way a line may be torn, a valid and an invalid text |
| `AuthoringTab_waits` | types, `TagFitsDocument`, `LossesAreOwn` | two tabs, four requests, two changes, a failed read or write: a conflict, Admin control behind it and a second save fit in. Crashes are in the run of the server, whose steps these are |
| `AuthoringTab_editor` | `SavedChangesSurvive`, violated | two tabs whose users wait, four requests, two changes |
| `AuthoringTab_overlap` | `SavedChangesSurvive`, violated | one tab, five requests, Admin control twice |
| `Backbone_life` | types, `ReceiptsTellTheSession`, `InboundReceiptsAreTrue`, `ServedUnlessSilent`, `StopEnds`, `NodeReturns` | two connections, one of which may fall silent: one blocks, one waits; a start limit of two; any number of crashes, faults, stops and restarts |
| `ModuleRunner_life` | `FilesInOrder`, `ChildAccountedFor`, `StopEnds` | every class of module, three launches of the unit or its health check, one process killed or failing at a file: a unit can restart beside a health check, and a receipt that is cut short can be followed by two more; the first two are proved for all bounds |

Types are not checked again where the inductive invariant of the proofs has them.

Symmetry is used over processes, tabs and requests, and in safety runs only.
`CHECK_DEADLOCK FALSE` is set where the system may rightly stop: the bounds are
used up or the server has been stopped. `PeerHealth_loop` checks for
deadlock, since its loop never stops time, and so does `SyncGraph`, whose search may
stop only when it has found everything.

### What the runs show

- Until a line is torn the receipt chain is correct under all
  interleavings, failed writes and crashes. After that a tear costs at most one
  line and at most one receipt that had already been reported: the receipt that
  was appended to an unfinished line. No later append repairs such a file for the
  validator.
- A peer's verdict is never milder than its probes allow, and is DOWN after at most
  three periods. A heartbeat receipt may call UP a peer whose last answer is as old
  as a round. That is all the code ensures: with slow peers a round is longer
  than `STALE_SEC`, because the expiry is looked at only behind a peer's own probe.
- Every mesh request waits only for handshakes, and only a peer that falls silent
  there can make others, or a stop, wait without a bound. systemd's SIGKILL then
  ends the stop, without the receipt `BACKBONE_STOPPED`.
- The registrar's calls are atomic and monotone. What a finished job wrote is there
  for ever and is found by the lookup, with one exception that the property states: an
  envelope for a host's own name hides the host's record behind a zone. A sector job
  that is refused for its serial has replaced the route of its domain already.
- DNS denials and serials are true, despite reads without a transaction. An address
  that is none, or an error of the socket, ends the UDP loop for good; queries and
  stops end all the same.
- The audit log and the answers 200 and 412 of the authoring API are true. The
  answer 400 says nothing: a document whose COMMITTED line could not be written has
  been promoted. A torn audit line makes `append_audit` refuse every later PUT.
- Behind users who wait for each answer a save takes nothing from the document but code
  that its own user put editor text over, filled in before Admin control. A user who
  selects the artifact again loses nothing of anybody's.
- Without a rival the runner's receipts leave its files whole and in order, wherever a
  process is killed: the state is never behind the phase, nor the phase behind the
  log. With a rival none of this holds until the next undisturbed receipt: that is
  the precondition `~ clashed`, not a promise of the code. The module's process never
  runs outside its unit or beside another one, and every stop ends, if need be by
  SIGKILL.

### Three disagreements between the code and its documentation

`KexDNS_published`: `_build_response` reads `record['type']` (kex_dns.py:231) from
rows whose column is `rrtype` (kex_registrar_service.py:200). The KeyError is
swallowed by the UDP loop and ends the TCP thread, so a query for a record that
exists gets no answer, where AUTHORITY.md:31 lists the record types among what is
observed. The release validator's own DNS probe runs into it.

`AuthoringTab_editor`: `apply-code` (app.js:67) replaces an artifact by the text of the
inspector, which `select` filled in (37) and `connectAdmin` (54) does not refresh. A
user selects an artifact, another tab saves it, the user applies and is refused by 412,
clicks Admin control and applies again: the answer is 200, and the other's saved change
is gone, without the 412 that the surface's README:9 promises for conflicting
revisions. Every answer was waited for.

`AuthoringTab_overlap`: document and tag are assigned by whichever answer arrives. If
Admin control is clicked and then a change saved, the older answer of the GET may
arrive behind the save's promotion and set the document back; `saveRemote` (59) then
takes the fresh tag from its headers before it awaits the body. The next change is put
under that tag with the older document, and overwrites the one just saved without a
412. With one save alone under way the local document already holds the change.

### Fairness

- `ReceiptLog`: a thread inside `append_receipt` goes on when it can. No call,
  no crash and no choice of a failure over a success is forced. That a waiting
  thread gets the lock is not assumed: `LockReleased` speaks of its holder.
- `PeerHealth`: time passes and the heartbeat thread is scheduled.
- `KexDNS`: threads and processes in the middle of an operation run; queries, jobs,
  socket errors and the stop are never forced.
- `AuthoringServer`: a thread that holds its request, and the lock if it needs it,
  runs.
- `Backbone`: main, the listener and the handlers run when they can, and systemd acts
  on ends and timers. `Accept` is strongly fair because the accept queue is first
  in, first out. A peer that is not silent ends its handshake or gives it up: the
  peers are other backbones, whose probes have a timeout of five seconds (line
  334). A silent peer, the operator, faults and crashes are not forced.
- `ModuleRunner`: the runner of the service runs, and systemd acts on its end and on
  the stop timeout. Nothing is asked of the module's own process, which may ignore
  SIGTERM, or of the health unit.

## The proofs

The proof modules extend the component's module and are checked by `tlapm`. All
constants are arbitrary under the named assumptions of the modules.

| module | theorems | assumptions besides the constants' | inductive invariant |
|---|---|---|---|
| `ReceiptLog_proofs` | `TypeCorrect`, `OneWriter`, `SyncedLinesAreKept` | none: any crashes and tears | `KeptInv`: types; whoever is between taking and releasing the lock holds it; an unfinished line lies behind the last fsync, and a written one is finished |
| | `DamageIsContained`, `ChainNeverBreaks` | none | `DamageInv` adds: a linked record links to the tip; a line that is garbled, or last and unfinished, is a scar, and there are no more scars than tears |
| | `LossIsBounded` | none | `WholeInv` adds: of the receipts returned, or fsynced, no more are missing in the fsynced lines than of these are garbled, and the same for the whole file as long as a thread has written and not fsynced |
| | `ReportedReceiptsAreDurable`, `LogImplementsChain` | none: each speaks of behaviours up to the first tear | `UntornInv`: as long as nothing is torn, the roots of calls under way are fresh and distinct, and a written record is in the file, and covered once fsynced |
| | `LockIsGivenBack` | none | `HeldInv`: a thread holds the lock exactly at the steps between taking and releasing it |
| `PeerHealth_proofs` | `VerdictIsBooked`, `NeverSoftRecovery` | none | `BookedInv`: what verdict and counters say of each other whatever the times are (UP only after an answer, DOWN exactly from the third failure on), and a peer once seen is never UNOBSERVED again |
| | `VerdictAlwaysFits` | `PromptLog`: a receipt takes no longer than `STALE_SEC` | `VerdictInv` adds: an answer just booked is no older than the receipt behind it. Without that the refresh could find it stale, and the verdict STALE with a success counted: TLC finds that state as soon as `LogMax` is above `StaleSec` |
| | `SilenceIsNoticed`, `ReportsAreFresh` | none | `TimedInv` adds to `BookedInv`, of each peer, that the time since its last probe ended is at most `Since(p)`, what the place of the loop in its round says, and that a peer with fewer than three failures booked has been silent for at most as many periods and `Since(p)` |
| `Registrar_proofs` | `TypeCorrect`, `SerialsNeverRegress`, `RoutesAreKept`, `TransactionsAreAtomic` | none | `SafeInv`: an open transaction holds the write lock, so that what it has checked still holds at its commit |
| | `RegisteredReadsBack` | `NamesAreSequences`: names are non-empty sequences of labels | `KeptInv` adds: what a job has committed so far is still in the tables; a record's zone exists. The property itself excepts the lookup of a record whose own name became a zone |
| | `JobsEnd` | none | `HeldInv`: the write lock is held exactly by the process in a transaction |
| `KexDNS_proofs` | `DnsTypes`, `SerialsOnlyForward` | `NamesAreSequences` | `DnsInv`, on top of `SafeInv`: the serial a query has read lies between those given out when it came and the committed one; none is given out before it is committed |
| | `DenialsAreTrue` | also `NamesApart`: no node is called `test` | `DenialInv` adds the tables (each record in a zone that exists, a sector's route before its zone row: `TablesInv`) and, at each of the reads, what a name that was never absent must still show one of the reads to come |
| | `QueriesDrawNearer`, `ServingIsReading` | `NamesAreSequences` for the first | `DnsInv`, for the fields that the steps of a query have; the second needs none: each step of the composition is one of `Registrar` or leaves its variables alone |
| `Authoring_proofs` | `TypeCorrect`, `AuditTellsTheTruth`, `PutIsCompareAndSwap` | none | `Safe`: a request past its checks holds the lock, what it was checked against is still the document, and it is promoted exactly from its replacement on |
| | `AnswersTellTheTruth`, `TraceIsKept` | none | `StatusInv` adds what each status has behind it; `TraceInv` that only the last line can be lost, and that it is, as long as it lacks its newline, of the request that holds the lock |
| | `RequestsAreSeenThrough` | none | `HeldInv`: the lock is held exactly for a request past its checks and not answered |
| | `TabTypes`, `TabsUseTheServer` | none: users may wait or not | types, with `Safe` and what the answers that a tab awaits carry; each step of the composition is one of the server or leaves its variables alone |
| | `TagsFit`, `SavesLoseTheirOwn` | `~ Overlap`: a user waits for each answer | `TabInv`: a tab waits for at most one request (`Single`, `Flying`) and shows what that sends (`Shown`); what a tag has and the document shown with it lacks was put over, and so with a request's tag and body (`Grows`, `Fits`); an editor filled in since the last Admin control has all the code of its artifact; changes to come have new numbers (`Numbered`) |
| `Backbone_proofs` | `TypesHold`, `ReceiptsAreTheSessions`, `InboundReceiptsHold` | none | `Inv`: the log is as long as main's stage says; sockets and listener fit the stage; connections exist only with the listener, at most one in a handshake; what is said of a connection fits its stage |
| | `StopsDrawNearer`, `QueueIsNotForgotten` | none | `Halting` adds: a process in a unit that is stopping has its handlers and was told; the listener is in a handshake only with a connection that is there; behind `server_close` nobody is in the queue |
| `ModuleRunner_proofs` | `TypesHold`, `ChildIsAccountedFor`, `FilesAreInOrder` | none | `Placed`: each process is where its unit lets it be; `Attended`: a child is there only behind the START_REQUESTED of a runner at one of the steps between `Popen` and the end; `Ordered`: a receipt without a rival has its own text in the file it renames, and the files are in order up to it |
| | `StopsDrawNearer` | none | `Stoppable` adds: a runner that waits has a child; in a unit that is stopping it is past its start, the child it waits for is over or was asked to end, and a receipt it writes is that of an exit |
| `SyncGraph_proofs` | `SearchTypes`, `SearchFindsClasses`, `MailboxTakesTheEdgeOut` | none: any set of nodes, any graph | `SearchInv`: what is numbered is on the stack or in a component, in the order of the numbers (`Numbered`, `Stacked`); the edges that were passed end at numbered nodes, and components are closed under targets (`Covered`); each visit under way leads to all that is above it on the stack, and what is on the stack leads back to a visit under way at or below it (`Woven`); no edge that was passed goes further down than its lowlink says, and the lowlink is the index of a node that is led to (`Low`); each component is a class (`Classed`). `Mail` keeps the graph that a mailbox was put on |
| | `SearchOnlyAdvances` | none | what is still to be done of a graph: nodes without a number, targets not come to, visits to end |

In each case the property itself is not inductive: that a chain holds says
nothing of the records under way that will extend it, and a serial that does not
regress needs the check to be still true when the transaction commits. TLC has
checked the inductive invariants of the search, of stopping and of peer health on
the instances of the runs.

`SearchFindsClasses` is Tarjan's argument without any induction over paths, which the
prover does not have. A node leads to another if no set that is closed under
targets keeps them apart; that two nodes are linked is carried along as an
invariant, edge by edge as the search passes them, and that a component is no
smaller than its class follows from one closed set: what is popped with it, and
all that was popped before.

Two theorems compose: `TabsUseTheServer` and `ServingIsReading` say that the tabs
with their server, and the DNS server with the registrar, behave as the server and the
registrar alone do. What is proved of these, for any requests and any jobs, holds
behind those.

The liveness properties have a half that is safety, and that half is proved:
`LockIsGivenBack` for `LockReleased`, `RequestsAreSeenThrough` for `RequestsEnd`,
`QueriesDrawNearer` and `JobsEnd` for `ServingEnds`, `StopsDrawNearer` for `StopEnds`
of the node and of the module, `QueueIsNotForgotten` for `ServedUnlessSilent`, and
`SearchOnlyAdvances` for the end of the search. Each says that the lock, the request
or the stop is never left without someone whose step is due, that each such step
lowers a measure, and that nobody else's raises it. What is left to TLC is that
due steps are taken.

`NamesApart` excludes one case: with a node called `test`, a name that has a record
in the zone above could become a zone without a route between two reads of a query,
which might then deny a name that existed throughout.

The proofs cover safety and refinement: every invariant and every action property
of the passing runs is a theorem. Only model-checked are the liveness properties
(`LockReleased`, `FoundPeerReturns`, `ServingEnds`, `RequestsEnd`,
`ServedUnlessSilent`, `NodeReturns`, and `StopEnds` of the node and of the module):
fairness and `ENABLED` are out of the prover's reach.

## Not modelled, and why

- Cryptography, certificates and time stamps of envelopes: a request verifies or
  it does not. DNS and HTTP formats: a packet parses or it does not.
- Database tables being created, outside of the transaction, and indexes: the tables
  exist once any process has initialised them.
- Of the validator, the refusals of a log that is empty or lacks the events of a session.
- Of a tab, edits that take text out of an artifact, the document in `localStorage` and
  the import of files, which reach the server through a save like any other; of the
  authoring API, the end of the machine.
- `PlanVFS`, the verifier and the qualification loop of runtime unification: one
  sequential, deterministic pass over a fixed list, with no fault handled; a test
  reaches all of it, and a model would repeat it.
- The dispatcher of R15: one loop in one thread over carriers whose availability
  nothing changes during it. A handler that raises ends it without a receipt, as
  its text says.
- Stateless code: foundry adapters, edge qualification, the FRR renderer and the module
  index are functions of their input.
- Scripts and deployments (validator, external observer, installers): sequences of
  commands that stop at the first failure and run beside nothing.
  `activate_keddeh_network_stack.sh` and the validator stop at a DNS probe that cannot
  succeed (`KexDNS_published`), and what comes behind it is not reached by any run of
  the program.
- Of the module runner, what an index file must say to be accepted, and a loss of
  power.
- The WASM host, the website and the data files have no behaviour of their own.

Things met on the way that no run states, because no document of the repository
says otherwise, or because they are open to argument: a changed address is added
to a zone beside the old one; the self-test publishes a loopback address in a test
zone of the production database, while the activation standard (line 99) forbids
such addresses as production authority records; the
heartbeat thread ends for good on a receipt that cannot be written; a serial of
2^32 and more can be stored but not answered; a child zone hides the parent's
records of its names, a host's own record among them (`DoneJobsReadBack` excepts it). In the module runner: the health check's exit status 3 is never
reached, because its own receipt creates the file it looks for; a health check in
the way of a PROCESS_EXIT makes a clean end an exit 1, upon which the module is
started again; a module that is refused (77) or that waits for an external actuator
(78) is restarted every three seconds for ever, because systemd's default limit,
five starts in ten seconds, is not reached.

## Plan

Done, in this order: the receipt log and its proofs; peer health; the registrar
and its proofs; the DNS server on top of it; the authoring API, its proofs, and
the tabs on top of it; the node lifecycle; the graph of runtime unification; the
module runner; the proofs of the node lifecycle, the runner, the tabs, the DNS
server, the timing of peer health and what the registrar reads back; the proof of
the graph search for every graph, the composition theorems, and the safety halves
of the liveness properties.

What remains are the safety halves of `FoundPeerReturns` and `NodeReturns`, which
depend on an environment that comes to rest. Once the DNS answer
(`KexDNS_published`) is repaired, the stages of activation behind it come into reach.

The abstract specifications are `ProofChain`, `AtomicRegistrar` and
`VersionedDocument`. `Registrar` under `KexDNS`, and `AuthoringServer` under
`AuthoringTab`, are composed by extension with a joint next-state relation: each
step is a step of one side that leaves the other side's variables alone, or a
joint one where the code makes a call.
