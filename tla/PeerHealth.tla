----------------------------- MODULE PeerHealth -----------------------------
(***************************************************************************)
(* What one backbone node believes of its mesh peers: PeerState and the    *)
(* heartbeat thread that probes the peers one after the other              *)
(* (_heartbeat_loop, probe_peer, refresh_freshness).                       *)
(*                                                                         *)
(* Time passes in ticks.  A probe lasts up to ProbeMax of them (connect,   *)
(* handshake and each recv have a timeout of their own), the receipt it    *)
(* appends up to LogMax.  A probe succeeds iff the peer is reachable when  *)
(* it ends: a refused connection, a timeout, a bad signature and a bad     *)
(* PONG are all the same to the state machine.                             *)
(***************************************************************************)
EXTENDS Naturals

CONSTANTS NPeers,        \* peers 1..NPeers, probed in this order
          HeartbeatSec,  \* HEARTBEAT_SEC
          StaleSec,      \* STALE_SEC
          ProbeMax,      \* longest duration of a probe
          LogMax,        \* longest duration of an append_receipt
          MaxCount,      \* bound: the consecutive counters stop here
          MaxAge,        \* bound: ages stop here
          MaxDark        \* bound: the time a peer is unreachable stops here

ASSUME ConfigAssumption ==
    /\ NPeers \in Nat /\ ProbeMax \in Nat /\ LogMax \in Nat
    /\ HeartbeatSec \in Nat \ {0}
    /\ StaleSec \in Nat /\ HeartbeatSec < StaleSec   \* checked by start()
    /\ MaxCount \in Nat /\ MaxCount >= 3
    /\ MaxAge \in Nat /\ MaxAge > StaleSec
    /\ MaxDark \in Nat

Peer == 1..NPeers

VARIABLES state,     \* [Peer -> state]
          success,   \* [Peer -> consecutive_success]
          failure,   \* [Peer -> consecutive_failure]
          seen,      \* [Peer -> last_success_epoch is not 0]
          age,       \* [Peer -> time since last_success_epoch]
          pc, cur,   \* what the heartbeat thread does, and to which peer
          timer,     \* how long it has been doing it
          report,    \* the states in the last BACKBONE_HEARTBEAT receipt
          reach,     \* environment: which peers are reachable
          dark,      \* environment: for how long a peer has not been
          full       \* environment: append_receipt raises (disk full, say)

peerVars == <<state, success, failure, seen, age>>
loopVars == <<pc, cur, timer>>
envVars == <<reach, dark, full>>
vars == <<peerVars, loopVars, report, envVars>>

States == {"UNOBSERVED", "UP", "DEGRADED", "STALE", "DOWN"}

TypeOK == /\ state \in [Peer -> States]
          /\ success \in [Peer -> 0..MaxCount]
          /\ failure \in [Peer -> 0..MaxCount]
          /\ seen \in [Peer -> BOOLEAN]
          /\ age \in [Peer -> 0..MaxAge]
          /\ pc \in {"wait", "probe", "log", "emit", "dead"}
          /\ cur \in 1..NPeers + 1
          /\ timer \in Nat
          /\ report \in [Peer -> States]
          /\ reach \in [Peer -> BOOLEAN]
          /\ dark \in [Peer -> 0..MaxDark]
          /\ full \in BOOLEAN

Init == /\ state = [p \in Peer |-> "UNOBSERVED"]
        /\ success = [p \in Peer |-> 0]
        /\ failure = [p \in Peer |-> 0]
        /\ seen = [p \in Peer |-> FALSE]
        /\ age = [p \in Peer |-> 0]
        /\ pc = "wait" /\ cur = 1 /\ timer = 0
        /\ report = state
        /\ reach \in [Peer -> BOOLEAN]
        /\ dark = [p \in Peer |-> 0]
        /\ full = FALSE

Inc(n, max) == IF n < max THEN n + 1 ELSE max

-----------------------------------------------------------------------------
(* Environment: the clock, peers that come and go, and the disk. *)

Patience == CASE pc = "wait" -> HeartbeatSec [] pc = "probe" -> ProbeMax
              [] pc = "log" -> LogMax [] pc = "emit" -> 0 [] OTHER -> 1

Tick == /\ pc = "dead" \/ timer < Patience
        /\ timer' = IF pc = "dead" THEN timer ELSE timer + 1
        /\ age' = [p \in Peer |-> IF seen[p] THEN Inc(age[p], MaxAge) ELSE 0]
        /\ dark' = [p \in Peer |-> IF reach[p] THEN 0 ELSE Inc(dark[p], MaxDark)]
        /\ UNCHANGED <<state, success, failure, seen, pc, cur, report, reach,
                        full>>

PeerFlips(p) == /\ reach' = [reach EXCEPT ![p] = ~ @]
                /\ dark' = [dark EXCEPT ![p] = 0]
                /\ UNCHANGED <<peerVars, loopVars, report, full>>

(* The disk matters to nobody once the thread is dead. *)
DiskFlips == /\ pc # "dead"
             /\ full' = ~ full
             /\ UNCHANGED <<peerVars, loopVars, report, reach, dark>>

-----------------------------------------------------------------------------
(* PeerState *)

(* refresh_freshness, on a peer whose state was set to now. *)
(* Mutant: DOWN is not exempt. *)
RefreshedDown(p, now) == IF seen[p] /\ age[p] > StaleSec THEN "STALE" ELSE now

Refreshed(p, now) == IF seen[p] /\ age[p] > StaleSec /\ now # "DOWN"
                     THEN "STALE" ELSE now

(* The except branch of probe_peer: refresh, then count to three. *)
(* Mutant: a peer that fails stays UP until it is stale. *)
AfterLenientFailure(p, n) == IF n >= 3 THEN "DOWN" ELSE Refreshed(p, state[p])

(* Mutant: a fourth failure is needed. *)
AfterFourFailures(p, n) == IF n >= 4 THEN "DOWN"
                           ELSE IF Refreshed(p, state[p]) = "STALE" THEN "STALE"
                           ELSE "DEGRADED"

AfterFailure(p, n) == IF n >= 3 THEN "DOWN"
                      ELSE IF Refreshed(p, state[p]) = "STALE" THEN "STALE"
                      ELSE "DEGRADED"

Become(p, s, good, bad) == /\ state' = [state EXCEPT ![p] = s]
                           /\ success' = [success EXCEPT ![p] = good]
                           /\ failure' = [failure EXCEPT ![p] = bad]

-----------------------------------------------------------------------------
(* The heartbeat thread *)

Goto(next) == pc' = next /\ timer' = 0

StartRound == /\ pc = "wait" /\ timer = HeartbeatSec
              /\ Goto(IF NPeers = 0 THEN "emit" ELSE "probe")
              /\ cur' = 1
              /\ UNCHANGED <<peerVars, report, envVars>>

(* Mutant: a success leaves the failure count. *)
ForgetfulSuccess == /\ pc = "probe" /\ reach[cur]
                    /\ seen' = [seen EXCEPT ![cur] = TRUE]
                    /\ age' = [age EXCEPT ![cur] = 0]
                    /\ Become(cur, "UP", Inc(success[cur], MaxCount), failure[cur])
                    /\ Goto("log")
                    /\ UNCHANGED <<cur, report, envVars>>

(* Mutant: a peer that is DOWN is given up. *)
SuccessUnlessDown == /\ pc = "probe" /\ reach[cur]
                     /\ seen' = [seen EXCEPT ![cur] = TRUE]
                     /\ age' = [age EXCEPT ![cur] = 0]
                     /\ IF state[cur] = "DOWN"
                        THEN UNCHANGED <<state, success, failure>>
                        ELSE Become(cur, "UP", Inc(success[cur], MaxCount), 0)
                     /\ Goto("log")
                     /\ UNCHANGED <<cur, report, envVars>>

(* The last statement of the try is the receipt: when it raises, the peer  *)
(* that has just answered is booked as failed, and a second receipt is     *)
(* tried.  If that one raises too the exception ends the thread.           *)
ProbeSucceeds ==
    /\ pc = "probe" /\ reach[cur]
    /\ seen' = [seen EXCEPT ![cur] = TRUE]
    /\ age' = [age EXCEPT ![cur] = 0]
    /\ \/ /\ ~ full
          /\ Become(cur, "UP", Inc(success[cur], MaxCount), 0) /\ Goto("log")
       \/ /\ full
          /\ Become(cur, "DEGRADED", 0, 1)
          /\ Goto("log") \/ Goto("dead")
    /\ UNCHANGED <<cur, report, envVars>>

ProbeFails ==
    /\ pc = "probe" /\ ~ reach[cur]
    /\ LET n == Inc(failure[cur], MaxCount)
       IN  Become(cur, AfterFailure(cur, n), 0, n)
    /\ Goto(IF full THEN "dead" ELSE "log")
    /\ UNCHANGED <<seen, age, cur, report, envVars>>

(* refresh_freshness after the probe, then the next peer or the receipt. *)
Refresh == /\ pc = "log"
           /\ state' = [state EXCEPT ![cur] = Refreshed(cur, @)]
           /\ Goto(IF cur < NPeers THEN "probe" ELSE "emit")
           /\ cur' = cur + 1
           /\ UNCHANGED <<success, failure, seen, age, report, envVars>>

(* The BACKBONE_HEARTBEAT receipt: nothing catches what it raises. *)
Emit == /\ pc = "emit"
        /\ \/ ~ full /\ Goto("wait") /\ report' = state
           \/ full /\ Goto("dead") /\ UNCHANGED report
        /\ UNCHANGED <<peerVars, cur, envVars>>

Loop == StartRound \/ ProbeSucceeds \/ ProbeFails \/ Refresh \/ Emit

Next == Tick \/ DiskFlips \/ (\E p \in Peer : PeerFlips(p)) \/ Loop

Spec == Init /\ [][Next]_vars

(* Time passes and the heartbeat thread is scheduled. *)
FairSpec == Spec /\ WF_vars(Tick) /\ WF_vars(Loop)

-----------------------------------------------------------------------------
(* The verdict on a peer is what its last probes were: UP after an answer, *)
(* DOWN only after three failures in a row, DEGRADED or STALE before them, *)
(* and STALE only for a peer that has answered once.                       *)
VerdictFitsProbes ==
    \A p \in Peer :
       /\ state[p] = "UP" <=> success[p] > 0
       /\ state[p] = "DOWN" <=> failure[p] >= 3
       /\ state[p] = "STALE" => seen[p]
       /\ state[p] = "UNOBSERVED" <=> (success[p] = 0 /\ failure[p] = 0)
       /\ success[p] = 0 \/ failure[p] = 0

(* The peer's answer is in, and about to be booked. *)
Answered(p) == pc = "probe" /\ cur = p /\ reach[p]

(* A STALE peer may become DOWN, and a DOWN peer stays so, until it        *)
(* answers: neither fades back to a milder verdict by itself.              *)
NoSoftRecovery ==
    [][\A p \in Peer : \/ Answered(p)
                       \/ /\ state[p] = "STALE" => state'[p] \in {"STALE", "DOWN"}
                          /\ state[p] = "DOWN" => state'[p] = "DOWN"]_vars

(* One round of probes, and one full period of the loop, at the longest. *)
RoundMax == NPeers * (ProbeMax + LogMax)
Period == HeartbeatSec + RoundMax

(* A peer out of reach for three periods of the loop is DOWN, as long as   *)
(* the heartbeat thread lives.                                             *)
DownInTime ==
    \A p \in Peer : dark[p] > 3 * Period /\ pc # "dead" => state[p] = "DOWN"

(* A heartbeat receipt calls UP only a peer that answered in the round     *)
(* that has just ended.                                                    *)
ReportedUpAnswered ==
    [][\A p \in Peer :
          pc = "emit" /\ pc' = "wait" /\ report'[p] = "UP"
             => seen[p] /\ age[p] <= RoundMax]_vars

(* A peer that stays in reach while receipts can be written ends UP and is *)
(* reported so, unless one that could not be written before has ended the  *)
(* heartbeat thread.                                                       *)
FoundPeerReturns ==
    \A p \in Peer : <>[](reach[p] /\ ~ full) =>
                       <>[](pc = "dead" \/ (state[p] = "UP" /\ report[p] = "UP"))
=============================================================================
