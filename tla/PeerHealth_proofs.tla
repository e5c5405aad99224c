-------------------------- MODULE PeerHealth_proofs --------------------------
(***************************************************************************)
(* Proofs about PeerHealth, for any number of peers and any times.         *)
(*                                                                         *)
(* Booked is what the counters and the verdict say of each other whatever  *)
(* the times are; every theorem but one rests on it alone.  That a peer    *)
(* whose last probe it answered IS called UP needs more: the refresh that  *)
(* follows a probe must not find the answer it comes after already stale.  *)
(* FreshAnswer says so, and needs a receipt to be written within STALE_SEC *)
(* (PromptLog).                                                            *)
(*                                                                         *)
(* The times follow from one clock, Since: the place of the heartbeat      *)
(* thread in its round bounds the time since the last probe of a peer, and *)
(* with it the age of an answer and the silence that each failure in a row *)
(* can stand for.                                                          *)
(***************************************************************************)
EXTENDS PeerHealth, TLAPS

Position == /\ pc \in {"probe", "log"} => cur \in Peer
            /\ timer <= Patience

Met == \A p \in Peer : seen[p] => state[p] # "UNOBSERVED"

(* All that VerdictFitsProbes says, but that an answer is worth an UP *)
Booked ==
    \A p \in Peer :
       /\ state[p] = "UP" => success[p] > 0
       /\ state[p] = "DOWN" <=> failure[p] >= 3
       /\ state[p] = "STALE" => seen[p]
       /\ state[p] = "UNOBSERVED" <=> (success[p] = 0 /\ failure[p] = 0)
       /\ success[p] = 0 \/ failure[p] = 0

BookedInv == TypeOK /\ Position /\ Met /\ Booked

LEMMA BookedInit == Init => BookedInv
<1> SUFFICES ASSUME Init PROVE BookedInv
  OBVIOUS
<1>1. full \in BOOLEAN
  BY DEF Init
<1>2. TypeOK
  BY <1>1, ConfigAssumption DEF Init, TypeOK, States
<1>3. QED
  BY <1>2, ConfigAssumption
     DEF Init, BookedInv, Position, Patience, Met, Booked,
         Peer

LEMMA TickAges ==
    ASSUME TypeOK, Tick, NEW p \in Peer
    PROVE  age'[p] \in 0..MaxAge /\ age'[p] <= age[p] + 1
<1>1. age[p] \in 0..MaxAge /\ MaxAge \in Nat
  BY ConfigAssumption DEF TypeOK
<1>2. age'[p] = Inc(age[p], MaxAge) \/ age'[p] = 0
  BY DEF Tick
<1>3. QED
  BY <1>1, <1>2 DEF Inc

LEMMA BookedTick == ASSUME BookedInv, Tick PROVE BookedInv'
<1>1. TypeOK'
  <2>1. age' \in [Peer -> 0..MaxAge]
    BY TickAges DEF BookedInv, Tick
  <2>2. dark' \in [Peer -> 0..MaxDark]
    BY ConfigAssumption DEF BookedInv, TypeOK, Tick, Inc
  <2>3. timer' \in Nat
    BY DEF BookedInv, TypeOK, Tick
  <2>4. QED
    BY <2>1, <2>2, <2>3 DEF BookedInv, TypeOK, Tick
<1>2. Position'
  BY ConfigAssumption DEF BookedInv, TypeOK, Position, Patience, Tick
<1>3. Met' /\ Booked'
  BY DEF BookedInv, Met, Booked, Tick
<1>4. QED
  BY <1>1, <1>2, <1>3 DEF BookedInv

LEMMA BookedFlip ==
    ASSUME BookedInv, NEW p \in Peer, PeerFlips(p) PROVE BookedInv'
BY ConfigAssumption
   DEF BookedInv, TypeOK, Position, Patience, Met, Booked,
       PeerFlips, peerVars, loopVars

LEMMA BookedDisk == ASSUME BookedInv, DiskFlips PROVE BookedInv'
<1>1. full' \in BOOLEAN
  BY DEF DiskFlips
<1>2. TypeOK'
  BY <1>1 DEF BookedInv, TypeOK, DiskFlips, peerVars, loopVars
<1>3. QED
  BY <1>2 DEF BookedInv, Position, Patience, Met, Booked,
              DiskFlips, peerVars, loopVars

LEMMA BookedStartRound == ASSUME BookedInv, StartRound PROVE BookedInv'
BY ConfigAssumption
   DEF BookedInv, TypeOK, Position, Patience, Met, Booked,
       StartRound, Goto, Peer, peerVars, envVars

LEMMA BookedSuccess == ASSUME BookedInv, ProbeSucceeds PROVE BookedInv'
<1>1. cur \in Peer
  BY DEF BookedInv, Position, ProbeSucceeds
<1>2. PICK s \in {"UP", "DEGRADED"}, good \in 0..MaxCount, bad \in 0..MaxCount :
        /\ state' = [state EXCEPT ![cur] = s]
        /\ success' = [success EXCEPT ![cur] = good]
        /\ failure' = [failure EXCEPT ![cur] = bad]
        /\ s = "UP" <=> good > 0
        /\ bad < 3
        /\ s = "UP" <=> bad = 0
  <2>1. CASE ~ full
    <3> DEFINE good == Inc(success[cur], MaxCount)
    <3>1. good \in 0..MaxCount /\ good > 0
      BY <1>1, ConfigAssumption DEF BookedInv, TypeOK, Inc
    <3>2. Become(cur, "UP", good, 0)
      BY <2>1 DEF ProbeSucceeds
    <3>3. 0 \in 0..MaxCount /\ "UP" \in {"UP", "DEGRADED"}
      BY ConfigAssumption
    <3> HIDE DEF good
    <3> USE <3>1, <3>3
    <3> WITNESS "UP" \in {"UP", "DEGRADED"}, good \in 0..MaxCount,
                0 \in 0..MaxCount
    <3>4. QED
      BY <3>2 DEF Become
  <2>2. CASE full
    BY <2>2, ConfigAssumption DEF ProbeSucceeds, Become
  <2>3. QED
    BY <2>1, <2>2
<1>3. pc' \in {"log", "dead"} /\ timer' = 0
  BY DEF ProbeSucceeds, Goto
<1>4. TypeOK'
  <2>1. age' \in [Peer -> 0..MaxAge] /\ seen' \in [Peer -> BOOLEAN]
    BY <1>1, ConfigAssumption DEF BookedInv, TypeOK, ProbeSucceeds
  <2>2. QED
    BY <1>1, <1>2, <1>3, <2>1
       DEF BookedInv, TypeOK, ProbeSucceeds, States, envVars
<1>5. Position'
  BY <1>1, <1>3, ConfigAssumption
     DEF BookedInv, Position, Patience, ProbeSucceeds
<1>6. Met'
  BY <1>1, <1>2 DEF BookedInv, TypeOK, Met, ProbeSucceeds
<1>7. Booked'
  <2> SUFFICES ASSUME NEW p \in Peer
               PROVE  /\ state'[p] = "UP" => success'[p] > 0
                      /\ state'[p] = "DOWN" <=> failure'[p] >= 3
                      /\ state'[p] = "STALE" => seen'[p]
                      /\ state'[p] = "UNOBSERVED" <=>
                            (success'[p] = 0 /\ failure'[p] = 0)
                      /\ success'[p] = 0 \/ failure'[p] = 0
    BY DEF Booked
  <2>1. CASE p = cur
    BY <1>1, <1>2, <2>1 DEF BookedInv, TypeOK
  <2>2. CASE p # cur
    BY <1>1, <1>2, <2>2 DEF BookedInv, TypeOK, Booked, ProbeSucceeds
  <2>3. QED
    BY <2>1, <2>2
<1>8. QED
  BY <1>4, <1>5, <1>6, <1>7 DEF BookedInv

LEMMA BookedFailure == ASSUME BookedInv, ProbeFails PROVE BookedInv'
<1> DEFINE n == Inc(failure[cur], MaxCount)
<1>1. cur \in Peer
  BY DEF BookedInv, Position, ProbeFails
<1>2. n \in 1..MaxCount
  BY <1>1, ConfigAssumption DEF BookedInv, TypeOK, Inc
<1>3. /\ state' = [state EXCEPT ![cur] = AfterFailure(cur, n)]
      /\ success' = [success EXCEPT ![cur] = 0]
      /\ failure' = [failure EXCEPT ![cur] = n]
      /\ seen' = seen
  BY DEF ProbeFails, Become
<1>4. /\ AfterFailure(cur, n) \in {"DOWN", "STALE", "DEGRADED"}
      /\ AfterFailure(cur, n) = "DOWN" <=> n >= 3
      /\ AfterFailure(cur, n) = "STALE" => seen[cur]
  BY <1>1, <1>2
     DEF AfterFailure, Refreshed, BookedInv, Booked
<1> HIDE DEF n
<1>5. TypeOK'
  BY <1>1, <1>2, <1>3, <1>4, ConfigAssumption
     DEF BookedInv, TypeOK, ProbeFails, Goto, States, envVars
<1>6. Position'
  BY <1>1, ConfigAssumption
     DEF BookedInv, Position, Patience, ProbeFails, Goto
<1>7. Booked'
  <2> SUFFICES ASSUME NEW p \in Peer
               PROVE  /\ state'[p] = "UP" => success'[p] > 0
                      /\ state'[p] = "DOWN" <=> failure'[p] >= 3
                      /\ state'[p] = "STALE" => seen'[p]
                      /\ state'[p] = "UNOBSERVED" <=>
                            (success'[p] = 0 /\ failure'[p] = 0)
                      /\ success'[p] = 0 \/ failure'[p] = 0
    BY DEF Booked
  <2>1. CASE p = cur
    BY <1>1, <1>2, <1>3, <1>4, <2>1 DEF BookedInv, TypeOK
  <2>2. CASE p # cur
    BY <1>1, <1>3, <2>2 DEF BookedInv, TypeOK, Booked
  <2>3. QED
    BY <2>1, <2>2
<1>8. Met'
  BY <1>1, <1>3, <1>4 DEF BookedInv, TypeOK, Met
<1>9. QED
  BY <1>5, <1>6, <1>7, <1>8 DEF BookedInv

LEMMA BookedRefresh == ASSUME BookedInv, Refresh PROVE BookedInv'
<1>1. cur \in Peer
  BY DEF BookedInv, Position, Refresh
<1>2. TypeOK' /\ Position'
  <2>1. Refreshed(cur, state[cur]) \in States
    BY <1>1 DEF BookedInv, TypeOK, Refreshed, States
  <2>2. state' \in [Peer -> States]
    BY <1>1, <2>1 DEF BookedInv, TypeOK, Refresh
  <2>3. /\ cur' \in 1..NPeers + 1 /\ timer' = 0 /\ pc' \in {"probe", "emit"}
        /\ pc' = "probe" => cur' \in Peer
    BY <1>1, ConfigAssumption DEF Refresh, Goto, Peer
  <2>4. TypeOK'
    BY <2>2, <2>3 DEF BookedInv, TypeOK, Refresh, envVars
  <2>5. QED
    BY <2>3, <2>4, ConfigAssumption DEF Position, Patience
<1>3. Refreshed(cur, state[cur]) # state[cur] =>
         /\ Refreshed(cur, state[cur]) = "STALE" /\ seen[cur]
         /\ state[cur] # "DOWN"
  BY DEF Refreshed
<1>4. /\ state' = [state EXCEPT ![cur] = Refreshed(cur, state[cur])]
      /\ UNCHANGED <<success, failure, seen>>
  BY <1>1 DEF BookedInv, TypeOK, Refresh
<1>5. Met'
  BY <1>1, <1>3, <1>4 DEF BookedInv, TypeOK, Met
<1>6. Booked'
  <2>1. CASE Refreshed(cur, state[cur]) = state[cur]
    BY <1>4, <2>1 DEF BookedInv, TypeOK, Booked
  <2>2. CASE Refreshed(cur, state[cur]) # state[cur]
    <3>1. /\ ~ (success[cur] = 0 /\ failure[cur] = 0) /\ ~ (failure[cur] >= 3)
          /\ seen[cur]
      BY <1>1, <1>3, <2>2 DEF BookedInv, Met, Booked
    <3>2. QED
      BY <1>1, <1>3, <1>4, <2>2, <3>1 DEF BookedInv, TypeOK, Booked
  <2>3. QED
    BY <2>1, <2>2
<1>7. QED
  BY <1>2, <1>5, <1>6 DEF BookedInv

LEMMA BookedEmit == ASSUME BookedInv, Emit PROVE BookedInv'
BY ConfigAssumption
   DEF BookedInv, TypeOK, Position, Patience, Met, Booked,
       Emit, Goto, peerVars, envVars

LEMMA BookedStep == BookedInv /\ [Next]_vars => BookedInv'
<1>1. CASE UNCHANGED vars
  BY <1>1 DEF BookedInv, TypeOK, Position, Patience, Met,
              Booked, vars, peerVars, loopVars, envVars
<1>2. QED
  BY <1>1, BookedTick, BookedFlip, BookedDisk, BookedStartRound, BookedSuccess,
     BookedFailure, BookedRefresh, BookedEmit DEF Next, Loop

-----------------------------------------------------------------------------
(* A receipt is written before an answer gets stale. *)
PromptLog == LogMax <= StaleSec

(* The answer of a peer is as old as the receipt that is being written. *)
FreshAnswer == pc = "log" /\ success[cur] > 0 => age[cur] <= timer

(* A peer whose last probe was answered is UP. *)
Credited == \A p \in Peer : success[p] > 0 => state[p] = "UP"

VerdictInv == BookedInv /\ FreshAnswer /\ Credited

LEMMA VerdictInit == Init => VerdictInv
<1>1. Init => FreshAnswer /\ Credited
  BY DEF Init, FreshAnswer, Credited
<1>2. QED
  BY <1>1, BookedInit DEF VerdictInv

LEMMA FreshTick == ASSUME VerdictInv, Tick PROVE FreshAnswer' /\ Credited'
<1>1. Credited'
  BY DEF VerdictInv, Credited, Tick
<1> SUFFICES ASSUME pc = "log", success[cur] > 0 PROVE age'[cur] <= timer'
  BY <1>1 DEF FreshAnswer, Tick
<1>2. cur \in Peer /\ age[cur] <= timer /\ timer' = timer + 1 /\ TypeOK
  BY DEF VerdictInv, BookedInv, Position, FreshAnswer, Tick
<1>3. age'[cur] <= age[cur] + 1 /\ age'[cur] \in 0..MaxAge
  BY <1>2, TickAges
<1>4. QED
  BY <1>2, <1>3, ConfigAssumption DEF TypeOK

LEMMA FreshProbe ==
    ASSUME VerdictInv, ProbeSucceeds \/ ProbeFails
    PROVE  FreshAnswer' /\ Credited'
<1>1. cur \in Peer /\ TypeOK
  BY DEF VerdictInv, BookedInv, Position, ProbeSucceeds, ProbeFails
<1>2. /\ \A p \in Peer : p # cur => /\ state'[p] = state[p]
                                    /\ success'[p] = success[p]
      /\ success'[cur] > 0 => state'[cur] = "UP" /\ age'[cur] = 0
      /\ cur' = cur /\ timer' = 0
  BY <1>1 DEF ProbeSucceeds, ProbeFails, Become, Goto, TypeOK
<1>3. QED
  BY <1>1, <1>2 DEF VerdictInv, FreshAnswer, Credited

LEMMA FreshRefresh ==
    ASSUME PromptLog, VerdictInv, Refresh PROVE FreshAnswer' /\ Credited'
<1>1. cur \in Peer /\ timer <= LogMax /\ TypeOK
  BY DEF VerdictInv, BookedInv, Position, Patience, Refresh
<1>2. success[cur] > 0 => Refreshed(cur, state[cur]) = state[cur]
  BY <1>1, ConfigAssumption
     DEF VerdictInv, TypeOK, FreshAnswer, Refresh, Refreshed, PromptLog
<1>3. /\ state' = [state EXCEPT ![cur] = Refreshed(cur, state[cur])]
      /\ success' = success /\ pc' # "log"
  BY DEF Refresh, Goto
<1>4. QED
  BY <1>1, <1>2, <1>3 DEF VerdictInv, TypeOK, FreshAnswer, Credited

LEMMA VerdictStep == PromptLog /\ VerdictInv /\ [Next]_vars => VerdictInv'
<1> SUFFICES ASSUME PromptLog, VerdictInv, [Next]_vars PROVE VerdictInv'
  OBVIOUS
<1>1. BookedInv'
  BY BookedStep DEF VerdictInv
<1>2. CASE UNCHANGED <<state, success, age, pc, cur, timer>>
  BY <1>1, <1>2 DEF VerdictInv, FreshAnswer, Credited
<1>3. CASE StartRound \/ Emit
  BY <1>1, <1>3
     DEF VerdictInv, FreshAnswer, Credited, StartRound, Emit, Goto, peerVars
<1>4. QED
  BY <1>1, <1>2, <1>3, FreshTick, FreshProbe, FreshRefresh
     DEF VerdictInv, Next, Loop, PeerFlips, DiskFlips, vars, peerVars, loopVars

(* The verdict on a peer is what its last probes were, when a receipt is   *)
(* written within STALE_SEC.                                               *)
THEOREM VerdictAlwaysFits == ASSUME PromptLog PROVE Spec => []VerdictFitsProbes
<1>1. VerdictInv => VerdictFitsProbes
  BY DEF VerdictInv, BookedInv, Booked, Credited, VerdictFitsProbes
<1>2. QED
  BY <1>1, VerdictInit, VerdictStep, PTL DEF Spec

(* PeerState keeps its types in every reachable state, and however long a  *)
(* receipt takes the verdict is never kinder than the counters: UP only    *)
(* after an answer, DOWN exactly from the third failure in a row on.       *)
THEOREM VerdictIsBooked == Spec => [](TypeOK /\ Booked)
<1>1. BookedInv => TypeOK /\ Booked
  BY DEF BookedInv
<1>2. QED
  BY <1>1, BookedInit, BookedStep, PTL DEF Spec

-----------------------------------------------------------------------------
NotSofter == \A p \in Peer :
                \/ Answered(p)
                \/ /\ state[p] = "STALE" => state'[p] \in {"STALE", "DOWN"}
                   /\ state[p] = "DOWN" => state'[p] = "DOWN"

LEMMA StepNotSofter == BookedInv /\ [Next]_vars => [NotSofter]_vars
<1> SUFFICES ASSUME BookedInv, Next PROVE NotSofter
  BY DEF vars
<1>1. CASE UNCHANGED state
  BY <1>1 DEF NotSofter
<1>2. CASE ProbeSucceeds
  <2>1. cur \in Peer /\ Answered(cur)
    BY <1>2 DEF BookedInv, Position, ProbeSucceeds, Answered
  <2>2. \A p \in Peer : p # cur => state'[p] = state[p]
    BY <1>2, <2>1 DEF BookedInv, TypeOK, ProbeSucceeds, Become
  <2>3. QED
    BY <2>1, <2>2 DEF NotSofter
<1>3. CASE ProbeFails
  <2> DEFINE n == Inc(failure[cur], MaxCount)
  <2>1. cur \in Peer /\ state' = [state EXCEPT ![cur] = AfterFailure(cur, n)]
    BY <1>3 DEF BookedInv, Position, ProbeFails, Become
  <2>2. failure[cur] >= 3 => n >= 3
    BY <2>1, ConfigAssumption DEF BookedInv, TypeOK, Inc
  <2>3. state[cur] = "DOWN" => AfterFailure(cur, n) = "DOWN"
    BY <2>1, <2>2 DEF BookedInv, Booked, AfterFailure
  <2>4. state[cur] = "STALE" => AfterFailure(cur, n) \in {"DOWN", "STALE"}
    BY DEF AfterFailure, Refreshed
  <2> HIDE DEF n
  <2>5. QED
    BY <2>1, <2>3, <2>4 DEF BookedInv, TypeOK, NotSofter
<1>4. CASE Refresh
  <2>1. /\ cur \in Peer
        /\ state' = [state EXCEPT ![cur] = Refreshed(cur, state[cur])]
    BY <1>4 DEF BookedInv, TypeOK, Position, Refresh
  <2>2. QED
    BY <2>1 DEF BookedInv, TypeOK, NotSofter, Refreshed
<1>5. QED
  BY <1>1, <1>2, <1>3, <1>4
     DEF Next, Loop, Tick, PeerFlips, DiskFlips, StartRound, Emit, peerVars

(* A STALE or DOWN peer never fades back to a milder verdict without       *)
(* answering.                                                              *)
THEOREM NeverSoftRecovery == Spec => NoSoftRecovery
<1>1. [NotSofter]_vars =>
         [\A p \in Peer :
            \/ Answered(p)
            \/ /\ state[p] = "STALE" => state'[p] \in {"STALE", "DOWN"}
               /\ state[p] = "DOWN" => state'[p] = "DOWN"]_vars
  BY DEF NotSofter
<1>2. QED
  BY <1>1, BookedInit, BookedStep, StepNotSofter, PTL
     DEF Spec, NoSoftRecovery

-----------------------------------------------------------------------------
(* The time since the last probe of a peer ended is at most what the place *)
(* of the heartbeat thread in its round says.  From it follow both how old *)
(* an answer may be that is reported and how long a silence goes unnoticed.*)

(* the time of i probes and their receipts *)
Slots(i) == i * (ProbeMax + LogMax)

Since(p) ==
    CASE pc \in {"wait", "emit"} -> LogMax + Slots(NPeers - p) + timer
      [] pc = "probe" /\ cur > p -> LogMax + Slots(cur - p - 1) + timer
      [] pc = "log" /\ cur > p -> LogMax + Slots(cur - p - 1) + ProbeMax + timer
      [] pc = "log" /\ cur = p -> timer
      [] pc = "probe" /\ cur <= p ->
            LogMax + Slots(NPeers - p) + HeartbeatSec + Slots(cur - 1) + timer
      [] pc = "log" /\ cur < p ->
            LogMax + Slots(NPeers - p) + HeartbeatSec + Slots(cur - 1) + ProbeMax + timer

Clock(p) ==
    /\ success[p] > 0 => seen[p] = TRUE
    /\ reach[p] = TRUE => dark[p] = 0
    /\ (pc # "dead" /\ success[p] > 0) => age[p] <= Since(p)
    /\ (pc # "dead" /\ failure[p] = 0) => dark[p] <= Since(p)
    /\ (pc # "dead" /\ failure[p] = 1) => dark[p] <= Period + Since(p)
    /\ (pc # "dead" /\ failure[p] = 2) => dark[p] <= 2 * Period + Since(p)

TimedInv == BookedInv /\ \A p \in Peer : Clock(p)

LEMMA SlotsAdd ==
    /\ \A i \in Nat : Slots(i) \in Nat
    /\ Slots(0) = 0
    /\ \A i \in Nat : Slots(i + 1) = Slots(i) + ProbeMax + LogMax
    /\ \A i, j \in Nat : Slots(i + j) = Slots(i) + Slots(j)
    /\ RoundMax = Slots(NPeers)
<1>1. ProbeMax + LogMax \in Nat
  BY ConfigAssumption
<1>2. \A w \in Nat : /\ 0 * w = 0
                     /\ \A i \in Nat : i * w \in Nat /\ (i + 1) * w = i * w + w
                     /\ \A i, j \in Nat : (i + j) * w = i * w + j * w
  OBVIOUS
<1>3. QED
  BY <1>1, <1>2, ConfigAssumption DEF Slots, RoundMax

(* The round up to a peer's turn and the rest of it make a whole one. *)
LEMMA SlotsAround ==
    ASSUME NEW p \in Peer, NEW c \in 1..p
    PROVE  Slots(NPeers - p) + Slots(c - 1) + ProbeMax + LogMax <= RoundMax
<1>1. /\ NPeers - p \in Nat /\ c - 1 \in Nat /\ p - c \in Nat /\ p - 1 \in Nat
      /\ (c - 1) + (p - c) = p - 1 /\ (p - 1) + 1 = p /\ (NPeers - p) + p = NPeers
      /\ p \in Nat
  BY ConfigAssumption DEF Peer
<1>2. Slots(p - 1) = Slots(c - 1) + Slots(p - c)
  BY <1>1, SlotsAdd
<1>3. Slots(p) = Slots(p - 1) + ProbeMax + LogMax
  BY <1>1, SlotsAdd
<1>4. Slots(NPeers) = Slots(NPeers - p) + Slots(p)
  BY <1>1, SlotsAdd
<1>5. /\ Slots(p - c) \in Nat /\ Slots(c - 1) \in Nat /\ Slots(p - 1) \in Nat
      /\ Slots(p) \in Nat /\ Slots(NPeers - p) \in Nat /\ RoundMax = Slots(NPeers)
      /\ Slots(NPeers) \in Nat
  BY <1>1, SlotsAdd, ConfigAssumption
<1>6. QED
  BY <1>2, <1>3, <1>4, <1>5, ConfigAssumption

(* Since, case by case *)
SinceIs(p) ==
    /\ pc \in {"wait", "emit"} => Since(p) = LogMax + Slots(NPeers - p) + timer
    /\ (pc = "probe" /\ cur > p) => Since(p) = LogMax + Slots(cur - p - 1) + timer
    /\ (pc = "log" /\ cur > p) =>
          Since(p) = LogMax + Slots(cur - p - 1) + ProbeMax + timer
    /\ (pc = "log" /\ cur = p) => Since(p) = timer
    /\ (pc = "probe" /\ cur <= p) =>
          Since(p) = LogMax + Slots(NPeers - p) + HeartbeatSec + Slots(cur - 1) + timer
    /\ (pc = "log" /\ cur < p) =>
          Since(p) = LogMax + Slots(NPeers - p) + HeartbeatSec
                       + Slots(cur - 1) + ProbeMax + timer

LEMMA SinceCases == ASSUME TypeOK, Position, NEW p \in Peer PROVE SinceIs(p)
<1>1. cur \in Nat /\ p \in Nat
  BY ConfigAssumption DEF TypeOK, Peer
<1> DEFINE a == LogMax + Slots(NPeers - p) + timer
           b == LogMax + Slots(cur - p - 1) + timer
           d == LogMax + Slots(cur - p - 1) + ProbeMax + timer
           e == LogMax + Slots(NPeers - p) + HeartbeatSec + Slots(cur - 1) + timer
           f == LogMax + Slots(NPeers - p) + HeartbeatSec + Slots(cur - 1)
                  + ProbeMax + timer
<1>2. Since(p) = CASE pc \in {"wait", "emit"} -> a
                   [] pc = "probe" /\ cur > p -> b
                   [] pc = "log" /\ cur > p -> d
                   [] pc = "log" /\ cur = p -> timer
                   [] pc = "probe" /\ cur <= p -> e
                   [] pc = "log" /\ cur < p -> f
  BY DEF Since
<1> HIDE DEF a, b, d, e, f
<1>3. /\ pc \in {"wait", "emit"} => Since(p) = a
      /\ (pc = "probe" /\ cur > p) => Since(p) = b
      /\ (pc = "log" /\ cur > p) => Since(p) = d
      /\ (pc = "log" /\ cur = p) => Since(p) = timer
      /\ (pc = "probe" /\ cur <= p) => Since(p) = e
      /\ (pc = "log" /\ cur < p) => Since(p) = f
  BY <1>1, <1>2
<1>4. QED
  BY <1>3 DEF a, b, d, e, f, SinceIs

LEMMA PeriodType == Period \in Nat /\ RoundMax \in Nat
<1>1. NPeers \in Nat /\ HeartbeatSec \in Nat
  BY ConfigAssumption
<1>2. Slots(NPeers) \in Nat /\ RoundMax = Slots(NPeers)
  BY <1>1, SlotsAdd
<1>3. QED
  BY <1>1, <1>2 DEF Period

LEMMA SlotsMonotone ==
    ASSUME NEW i \in Nat, NEW j \in Nat, i <= j PROVE Slots(i) <= Slots(j)
<1>1. j - i \in Nat /\ i + (j - i) = j
  OBVIOUS
<1>2. Slots(j) = Slots(i) + Slots(j - i)
  BY <1>1, SlotsAdd
<1>3. Slots(i) \in Nat /\ Slots(j - i) \in Nat
  BY <1>1, SlotsAdd
<1>4. QED
  BY <1>2, <1>3

(* The time since a probe is a number, of a period at most. *)
LEMMA SinceBound ==
    ASSUME TypeOK, Position, pc # "dead", NEW p \in Peer
    PROVE  Since(p) \in Nat /\ Since(p) <= Period
<1>1. /\ timer \in Nat /\ timer <= Patience /\ cur \in Nat /\ p \in Nat /\ p >= 1
      /\ NPeers \in Nat /\ p <= NPeers /\ ProbeMax \in Nat /\ LogMax \in Nat
      /\ HeartbeatSec \in Nat /\ Period = HeartbeatSec + RoundMax
  BY ConfigAssumption DEF TypeOK, Position, Peer, Period
<1>2. /\ NPeers - p \in Nat /\ Slots(NPeers - p) \in Nat /\ RoundMax \in Nat
      /\ Slots(0) = 0
  <2>1. NPeers - p \in Nat
    BY <1>1
  <2>2. QED
    BY <1>1, <2>1, SlotsAdd
<1>3. CASE pc \in {"wait", "emit"}
  <2>1. timer <= HeartbeatSec
    BY <1>1, <1>3 DEF Patience
  <2>2. Slots(NPeers - p) + Slots(0) + ProbeMax + LogMax <= RoundMax
    <3>1. 1 \in 1..p /\ 1 - 1 = 0
      BY <1>1
    <3>2. QED
      BY <3>1, SlotsAround
  <2>3. Since(p) = LogMax + Slots(NPeers - p) + timer
    BY <1>3, SinceCases DEF SinceIs
  <2>4. QED
    BY <1>1, <1>2, <2>1, <2>2, <2>3
<1>4. CASE pc \in {"probe", "log"} /\ cur > p
  <2>1. cur - p - 1 \in Nat /\ cur <= NPeers /\ (cur - p - 1) + 1 <= NPeers
    BY <1>1, <1>4 DEF Position, Peer
  <2>2. /\ Slots((cur - p - 1) + 1) = Slots(cur - p - 1) + ProbeMax + LogMax
        /\ Slots((cur - p - 1) + 1) <= Slots(NPeers)
        /\ RoundMax = Slots(NPeers) /\ Slots(cur - p - 1) \in Nat
    <3> DEFINE i == cur - p - 1
    <3>1. i \in Nat /\ i + 1 \in Nat /\ i + 1 <= NPeers
      BY <2>1
    <3> HIDE DEF i
    <3>2. Slots(i + 1) = Slots(i) + ProbeMax + LogMax /\ Slots(i) \in Nat
      BY <3>1, SlotsAdd
    <3>3. Slots(i + 1) <= Slots(NPeers)
      BY <1>1, <3>1, SlotsMonotone
    <3>4. QED
      BY <3>2, <3>3, SlotsAdd DEF i
  <2>4. CASE pc = "probe"
    <3>1. Since(p) = LogMax + Slots(cur - p - 1) + timer /\ timer <= ProbeMax
      BY <1>1, <1>4, <2>4, SinceCases DEF Patience, SinceIs
    <3>2. QED
      BY <1>1, <1>2, <2>2, <3>1
  <2>5. CASE pc = "log"
    <3>1. /\ Since(p) = LogMax + Slots(cur - p - 1) + ProbeMax + timer
          /\ timer <= LogMax
      BY <1>1, <1>4, <2>5, SinceCases DEF Patience, SinceIs
    <3>2. (cur - p - 1) + 1 + 1 <= NPeers \/ (cur - p - 1) + 1 + 1 = NPeers + 1
      BY <1>1, <2>1
    <3>3. (cur - p - 1) + 1 <= NPeers - p /\ Slots((cur - p - 1) + 1) <= Slots(NPeers - p)
      BY <1>1, <1>2, <2>1, SlotsMonotone
    <3>4. Slots(NPeers - p) + Slots(0) + ProbeMax + LogMax <= RoundMax
      <4>1. 1 \in 1..p /\ 1 - 1 = 0
        BY <1>1
      <4>2. QED
        BY <4>1, SlotsAround
    <3>5. QED
      BY <1>1, <1>2, <2>2, <3>1, <3>3, <3>4
  <2>6. QED
    BY <1>4, <2>4, <2>5
<1>5. CASE pc \in {"probe", "log"} /\ cur <= p
  <2>1. cur \in 1..p /\ cur - 1 \in Nat
    BY <1>1, <1>5 DEF Position, Peer
  <2>2. /\ Slots(NPeers - p) + Slots(cur - 1) + ProbeMax + LogMax <= RoundMax
        /\ Slots(cur - 1) \in Nat
    BY <2>1, SlotsAround, SlotsAdd
  <2>3. CASE pc = "probe"
    BY <1>1, <1>2, <1>5, <2>2, <2>3, SinceCases DEF Patience, SinceIs
  <2>4. CASE pc = "log" /\ cur = p
    BY <1>1, <1>2, <2>2, <2>4, SinceCases DEF Patience, SinceIs
  <2>5. CASE pc = "log" /\ cur < p
    <3>1. /\ Since(p) = LogMax + Slots(NPeers - p) + HeartbeatSec
                          + Slots(cur - 1) + ProbeMax + timer
          /\ timer <= LogMax
      BY <1>1, <2>5, SinceCases DEF Patience, SinceIs
    <3>2. cur + 1 \in 1..p /\ (cur + 1) - 1 = (cur - 1) + 1
      BY <1>1, <2>1, <2>5
    <3>3. /\ Slots(NPeers - p) + Slots((cur - 1) + 1) + ProbeMax + LogMax <= RoundMax
          /\ Slots((cur - 1) + 1) = Slots(cur - 1) + ProbeMax + LogMax
      BY <2>1, <3>2, SlotsAround, SlotsAdd
    <3>4. QED
      BY <1>1, <1>2, <2>2, <3>1, <3>3
  <2>6. QED
    BY <1>1, <1>5, <2>3, <2>4, <2>5
<1>6. QED
  BY <1>1, <1>3, <1>4, <1>5 DEF TypeOK

LEMMA SinceBoundAll ==
    TypeOK /\ Position => \A p \in Peer : pc # "dead" => Since(p) \in Nat
BY SinceBound

LEMMA SinceBoundNext ==
    (TypeOK /\ Position => \A p \in Peer : pc # "dead" => Since(p) \in Nat)'
BY SinceBoundAll, PTL

LEMMA SinceCasesAll == TypeOK /\ Position => \A p \in Peer : SinceIs(p)
BY SinceCases

LEMMA SinceCasesNext == (TypeOK /\ Position => \A p \in Peer : SinceIs(p))'
BY SinceCasesAll, PTL

(* The heartbeat thread leaves a peer's fields alone and its round goes on. *)
LEMMA ClockGoesOn ==
    ASSUME TimedInv, BookedInv', NEW p \in Peer,
           pc' # "dead" => pc # "dead" /\ Since(p) <= Since(p)',
           success'[p] = success[p], failure'[p] = failure[p], seen'[p] = seen[p],
           age'[p] = age[p], dark'[p] = dark[p], reach'[p] = reach[p]
    PROVE  Clock(p)'
<1>1. Clock(p) /\ TypeOK /\ Position /\ TypeOK' /\ Position'
  BY DEF TimedInv, BookedInv
<1>2. age[p] \in Nat /\ dark[p] \in Nat /\ failure[p] \in Nat /\ success[p] \in Nat
  BY <1>1, ConfigAssumption DEF TypeOK
<1>3. Period \in Nat
  BY PeriodType
<1>4. pc' # "dead" => Since(p) \in Nat /\ Since(p)' \in Nat
  <2>1. pc # "dead" => Since(p) \in Nat
    BY <1>1, SinceBound
  <2>2. pc' # "dead" => Since(p)' \in Nat
    BY <1>1, SinceBoundNext
  <2>3. QED
    BY <2>1, <2>2
<1>5. QED
  BY <1>1, <1>2, <1>3, <1>4 DEF Clock

(* What a step of the thread does to Since: in BookedInv its place and    *)
(* clock are in bounds before and after.                                   *)
LEMMA Bounds ==
    ASSUME BookedInv, BookedInv', NEW p \in Peer
    PROVE  /\ SinceIs(p) /\ SinceIs(p)'
           /\ pc # "dead" => Since(p) \in Nat /\ Since(p) <= Period
           /\ pc' # "dead" => Since(p)' \in Nat
           /\ timer \in Nat /\ timer <= Patience /\ timer' \in Nat
           /\ cur \in Nat /\ cur' \in Nat /\ p \in Nat /\ p >= 1 /\ p <= NPeers
           /\ NPeers \in Nat /\ NPeers - p \in Nat /\ ProbeMax \in Nat /\ LogMax \in Nat
           /\ HeartbeatSec \in Nat /\ Slots(NPeers - p) \in Nat
           /\ Slots(0) = 0
           /\ \A i \in Nat : /\ Slots(i) \in Nat
                             /\ Slots(i + 1) = Slots(i) + ProbeMax + LogMax
<1>1. TypeOK /\ Position /\ TypeOK' /\ Position'
  BY DEF BookedInv
<1>2. SinceIs(p) /\ SinceIs(p)'
  BY <1>1, SinceCases, SinceCasesNext
<1>3. /\ pc # "dead" => Since(p) \in Nat /\ Since(p) <= Period
      /\ pc' # "dead" => Since(p)' \in Nat
  BY <1>1, SinceBound, SinceBoundNext
<1>4. /\ timer \in Nat /\ timer <= Patience /\ timer' \in Nat
      /\ cur \in Nat /\ cur' \in Nat /\ p \in Nat /\ p >= 1 /\ p <= NPeers
      /\ NPeers \in Nat /\ NPeers - p \in Nat /\ ProbeMax \in Nat /\ LogMax \in Nat
      /\ HeartbeatSec \in Nat
  BY <1>1, ConfigAssumption DEF TypeOK, Position, Peer
<1>5. QED
  BY <1>2, <1>3, <1>4, SlotsAdd

LEMMA SinceTick ==
    ASSUME BookedInv, BookedInv', Tick, pc # "dead", NEW p \in Peer
    PROVE  Since(p)' = Since(p) + 1
<1>1. pc' = pc /\ cur' = cur /\ timer' = timer + 1
  BY DEF Tick
<1>2. pc \in {"wait", "emit", "probe", "log"}
  BY DEF BookedInv, TypeOK
<1>3. CASE pc \in {"wait", "emit"}
  BY <1>1, <1>3, Bounds DEF SinceIs
<1>4. CASE pc \in {"probe", "log"} /\ cur > p
  <2>1. cur - p - 1 \in Nat
    BY <1>4, Bounds
  <2>2. Slots(cur - p - 1) \in Nat
    BY <2>1, SlotsAdd
  <2>3. QED
    BY <1>1, <1>4, <2>2, Bounds DEF SinceIs
<1>5. CASE pc \in {"probe", "log"} /\ cur <= p
  <2>1. cur - 1 \in Nat
    BY <1>5 DEF BookedInv, Position, Peer
  <2>2. Slots(cur - 1) \in Nat
    BY <2>1, SlotsAdd
  <2>3. SinceIs(p) /\ SinceIs(p)' /\ cur \in Nat /\ p \in Nat
    BY Bounds
  <2>4. timer \in Nat /\ ProbeMax \in Nat /\ LogMax \in Nat
        /\ HeartbeatSec \in Nat /\ Slots(NPeers - p) \in Nat
    BY Bounds
  <2>5. CASE pc = "log" /\ cur = p
    BY <1>1, <2>3, <2>4, <2>5 DEF SinceIs
  <2>6. CASE pc = "log" /\ cur < p
    BY <1>1, <2>2, <2>3, <2>4, <2>6 DEF SinceIs
  <2>7. CASE pc = "probe"
    BY <1>1, <1>5, <2>2, <2>3, <2>4, <2>7 DEF SinceIs
  <2>8. QED
    BY <1>5, <2>3, <2>5, <2>6, <2>7
<1>6. cur \in Nat /\ p \in Nat
  BY Bounds
<1>7. QED
  BY <1>2, <1>3, <1>4, <1>5, <1>6

(* From a probe that is not of this peer to its receipt *)
LEMMA SinceLog ==
    ASSUME BookedInv, BookedInv', NEW p \in Peer, pc = "probe", pc' = "log",
           cur' = cur, cur # p, timer' = 0
    PROVE  Since(p) <= Since(p)'
<1>1. timer <= ProbeMax
  BY Bounds DEF Patience
<1>2. CASE cur > p
  <2>1. cur - p - 1 \in Nat
    BY <1>2, Bounds
  <2>2. Slots(cur - p - 1) \in Nat
    BY <2>1, SlotsAdd
  <2>3. QED
    BY <1>1, <1>2, <2>2, Bounds DEF SinceIs
<1>3. CASE cur < p
  <2>1. cur - 1 \in Nat
    BY DEF BookedInv, Position, Peer
  <2>2. Slots(cur - 1) \in Nat
    BY <2>1, SlotsAdd
  <2>3. /\ SinceIs(p) /\ SinceIs(p)' /\ cur \in Nat /\ p \in Nat /\ timer \in Nat
        /\ ProbeMax \in Nat /\ LogMax \in Nat /\ HeartbeatSec \in Nat
        /\ Slots(NPeers - p) \in Nat
    BY Bounds
  <2>4. Since(p) = LogMax + Slots(NPeers - p) + HeartbeatSec + Slots(cur - 1) + timer
    BY <1>3, <2>3 DEF SinceIs
  <2>5. Since(p)' = LogMax + Slots(NPeers - p) + HeartbeatSec
                      + Slots(cur - 1) + ProbeMax
    BY <1>3, <2>2, <2>3 DEF SinceIs
  <2>6. QED
    BY <1>1, <2>2, <2>3, <2>4, <2>5
<1>4. cur \in Nat /\ p \in Nat
  BY Bounds
<1>5. QED
  BY <1>2, <1>3, <1>4

LEMMA SinceStart ==
    ASSUME BookedInv, BookedInv', NEW p \in Peer, StartRound
    PROVE  Since(p) <= Since(p)'
<1>1. /\ pc = "wait" /\ timer = HeartbeatSec /\ cur' = 1 /\ timer' = 0
      /\ pc' = "probe" /\ cur' <= p /\ cur' - 1 = 0
  BY Bounds DEF StartRound, Goto
<1>2. QED
  BY <1>1, Bounds DEF SinceIs

LEMMA SinceRefresh ==
    ASSUME BookedInv, BookedInv', NEW p \in Peer, Refresh
    PROVE  Since(p) <= Since(p)'
<1>1. /\ pc = "log" /\ timer <= LogMax /\ cur' = cur + 1 /\ timer' = 0
      /\ pc' = IF cur < NPeers THEN "probe" ELSE "emit"
      /\ cur \in Peer
  BY Bounds DEF Refresh, Goto, Patience, BookedInv, Position
<1>2. cur <= NPeers /\ cur >= 1
  BY <1>1 DEF Peer
<1>3. CASE cur < p
  <2>1. cur - 1 \in Nat /\ (cur - 1) + 1 = cur' - 1 /\ cur' <= p /\ cur < NPeers
    BY <1>1, <1>2, <1>3, Bounds
  <2>2. Slots(cur' - 1) = Slots(cur - 1) + ProbeMax + LogMax /\ Slots(cur - 1) \in Nat
    BY <2>1, SlotsAdd
  <2>3. QED
    BY <1>1, <1>3, <2>1, <2>2, Bounds DEF SinceIs
<1>4. CASE cur = p
  <2>1. cur' > p /\ cur' - p - 1 = 0
    BY <1>1, <1>4, Bounds
  <2>2. CASE cur < NPeers
    BY <1>1, <1>4, <2>1, <2>2, Bounds DEF SinceIs
  <2>3. CASE ~ (cur < NPeers)
    BY <1>1, <1>4, <2>3, Bounds DEF SinceIs
  <2>4. QED
    BY <2>2, <2>3
<1>5. CASE cur > p
  <2>1. cur - p - 1 \in Nat /\ (cur - p - 1) + 1 = cur' - p - 1 /\ cur' > p
    BY <1>1, <1>5, Bounds
  <2>2. /\ Slots(cur' - p - 1) = Slots(cur - p - 1) + ProbeMax + LogMax
        /\ Slots(cur - p - 1) \in Nat
    BY <2>1, SlotsAdd
  <2>3. CASE cur < NPeers
    BY <1>1, <1>5, <2>1, <2>2, <2>3, Bounds DEF SinceIs
  <2>4. CASE cur = NPeers
    <3>1. cur' - p - 1 = NPeers - p
      BY <1>1, <2>4, Bounds
    <3>2. /\ SinceIs(p) /\ SinceIs(p)' /\ cur \in Nat /\ p \in Nat /\ timer \in Nat
          /\ ProbeMax \in Nat /\ LogMax \in Nat /\ pc' = "emit"
      BY <1>1, <2>4, Bounds
    <3>3. Since(p) = LogMax + Slots(cur - p - 1) + ProbeMax + timer
      BY <1>1, <1>5, <3>2 DEF SinceIs
    <3>4. Since(p)' = LogMax + Slots(cur' - p - 1)
      BY <1>1, <2>2, <3>1, <3>2 DEF SinceIs
    <3>5. QED
      BY <1>1, <2>2, <3>2, <3>3, <3>4
  <2>5. NPeers \in Nat /\ cur \in Nat
    BY Bounds
  <2>6. QED
    BY <1>2, <2>3, <2>4, <2>5
<1>6. cur \in Nat /\ p \in Nat
  BY Bounds
<1>7. QED
  BY <1>3, <1>4, <1>5, <1>6

LEMMA SinceEmit ==
    ASSUME BookedInv, BookedInv', NEW p \in Peer, Emit, pc' # "dead"
    PROVE  Since(p) <= Since(p)'
<1>1. pc = "emit" /\ timer <= 0 /\ pc' = "wait" /\ timer' = 0
  BY Bounds DEF Emit, Goto, Patience
<1>2. QED
  BY <1>1, Bounds DEF SinceIs

LEMMA ClockInit == Init => \A p \in Peer : Clock(p)
<1> SUFFICES ASSUME Init, NEW p \in Peer PROVE Clock(p)
  OBVIOUS
<1>1. TypeOK /\ Position
  BY BookedInit DEF BookedInv
<1>2. /\ success[p] = 0 /\ failure[p] = 0 /\ dark[p] = 0 /\ pc = "wait"
  BY DEF Init
<1>3. Since(p) \in Nat
  BY <1>1, <1>2, SinceBound
<1>4. QED
  BY <1>2, <1>3 DEF Clock

LEMMA ClockTick ==
    ASSUME TimedInv, BookedInv', Tick, NEW p \in Peer PROVE Clock(p)'
<1>1. Clock(p) /\ BookedInv /\ TypeOK
  BY DEF TimedInv, BookedInv
<1>2. /\ age[p] \in 0..MaxAge /\ dark[p] \in 0..MaxDark
      /\ MaxAge \in Nat /\ MaxDark \in Nat /\ Period \in Nat
  BY <1>1, PeriodType, ConfigAssumption DEF TypeOK
<1>3. /\ age'[p] = IF seen[p] THEN Inc(age[p], MaxAge) ELSE 0
      /\ dark'[p] = IF reach[p] THEN 0 ELSE Inc(dark[p], MaxDark)
      /\ UNCHANGED <<success, failure, seen, reach, pc>>
  BY DEF Tick
<1>4. /\ age'[p] <= age[p] + 1 /\ dark'[p] <= dark[p] + 1
      /\ age'[p] \in Nat /\ dark'[p] \in Nat
      /\ reach[p] = TRUE => dark'[p] = 0
  BY <1>2, <1>3 DEF Inc
<1>5. CASE pc = "dead"
  BY <1>1, <1>3, <1>4, <1>5 DEF Clock
<1>6. CASE pc # "dead"
  <2>1. Since(p)' = Since(p) + 1 /\ Since(p) \in Nat
    BY <1>1, <1>6, SinceTick, Bounds
  <2>2. QED
    BY <1>1, <1>2, <1>3, <1>4, <1>6, <2>1 DEF Clock
<1>7. QED
  BY <1>5, <1>6

LEMMA ClockFlips ==
    ASSUME TimedInv, BookedInv', NEW p \in Peer,
           DiskFlips \/ \E u \in Peer : PeerFlips(u)
    PROVE  Clock(p)'
<1>1. Clock(p) /\ BookedInv /\ TypeOK
  BY DEF TimedInv, BookedInv
<1>2. UNCHANGED <<peerVars, loopVars>>
  BY DEF DiskFlips, PeerFlips
<1>3. Since(p)' = Since(p)
  BY <1>2 DEF Since, loopVars
<1>4. (dark'[p] = dark[p] /\ reach'[p] = reach[p]) \/ dark'[p] = 0
  BY <1>1 DEF DiskFlips, PeerFlips, TypeOK
<1>5. pc # "dead" => Since(p) \in Nat
  BY <1>1, Bounds
<1>6. QED
  BY <1>1, <1>2, <1>3, <1>4, <1>5, PeriodType DEF Clock, peerVars, loopVars

(* The end of a probe: the peer's own clock starts anew. *)
LEMMA ClockProbed ==
    ASSUME TimedInv, BookedInv', NEW p \in Peer, ProbeSucceeds \/ ProbeFails
    PROVE  Clock(p)'
<1>1. Clock(p) /\ BookedInv /\ TypeOK /\ pc = "probe" /\ cur \in Peer
  BY DEF TimedInv, BookedInv, Position, ProbeSucceeds, ProbeFails
<1>2. cur' = cur /\ pc' \in {"log", "dead"} /\ timer' = 0
      /\ UNCHANGED <<reach, dark>>
  BY DEF ProbeSucceeds, ProbeFails, Goto, envVars
<1>3. CASE p # cur
  <2>1. /\ success'[p] = success[p] /\ failure'[p] = failure[p]
        /\ seen'[p] = seen[p] /\ age'[p] = age[p]
    BY <1>1, <1>3 DEF ProbeSucceeds, ProbeFails, Become, TypeOK
  <2>2. pc' = "log" => Since(p) <= Since(p)'
    BY <1>1, <1>2, <1>3, SinceLog
  <2>3. QED
    BY <1>1, <1>2, <2>1, <2>2, ClockGoesOn
<1>4. CASE p = cur /\ ProbeSucceeds
  <2>1. age'[p] = 0 /\ seen'[p] = TRUE /\ reach[p] = TRUE
    BY <1>1, <1>4 DEF ProbeSucceeds, TypeOK
  <2>2. dark'[p] = 0 /\ reach'[p] = reach[p]
    BY <1>1, <1>2, <2>1 DEF Clock
  <2>3. pc' # "dead" => Since(p)' \in Nat
    BY <1>1, Bounds
  <2>4. QED
    BY <2>1, <2>2, <2>3, PeriodType DEF Clock
<1>5. CASE p = cur /\ ProbeFails
  <2>1. failure[p] \in 0..MaxCount /\ MaxCount \in Nat /\ MaxCount >= 3
        /\ dark[p] \in Nat
    BY <1>1, ConfigAssumption DEF TypeOK
  <2>2. /\ failure'[p] = Inc(failure[p], MaxCount) /\ success'[p] = 0
        /\ reach[p] = FALSE
    BY <1>1, <1>5 DEF ProbeFails, Become, TypeOK
  <2>3. /\ failure'[p] # 0
        /\ failure'[p] = 1 => failure[p] = 0
        /\ failure'[p] = 2 => failure[p] = 1
    BY <2>1, <2>2 DEF Inc
  <2>4. Since(p) \in Nat /\ Since(p) <= Period
    BY <1>1, Bounds
  <2>5. pc' # "dead" => Since(p)' \in Nat
    BY <1>1, Bounds
  <2>6. /\ failure[p] = 0 => dark[p] <= Period
        /\ failure[p] = 1 => dark[p] <= 2 * Period
    BY <1>1, <2>1, <2>4, PeriodType DEF Clock
  <2>7. QED
    BY <1>2, <2>1, <2>2, <2>3, <2>5, <2>6, PeriodType DEF Clock
<1>6. QED
  BY <1>3, <1>4, <1>5

LEMMA TimedStep == TimedInv /\ [Next]_vars => TimedInv'
<1> SUFFICES ASSUME TimedInv, [Next]_vars PROVE TimedInv'
  OBVIOUS
<1>1. BookedInv /\ BookedInv'
  BY BookedStep DEF TimedInv
<1> SUFFICES ASSUME NEW p \in Peer PROVE Clock(p)'
  BY <1>1 DEF TimedInv
<1>2. CASE StartRound
  <2>1. Since(p) <= Since(p)'
    BY <1>1, <1>2, SinceStart
  <2>2. QED
    BY <1>1, <1>2, <2>1, ClockGoesOn DEF StartRound, peerVars, envVars
<1>3. CASE Refresh
  <2>1. Since(p) <= Since(p)'
    BY <1>1, <1>3, SinceRefresh
  <2>2. QED
    BY <1>1, <1>3, <2>1, ClockGoesOn DEF Refresh, envVars
<1>4. CASE Emit
  <2>1. pc' # "dead" => Since(p) <= Since(p)'
    BY <1>1, <1>4, SinceEmit
  <2>2. QED
    BY <1>1, <1>4, <2>1, ClockGoesOn DEF Emit, peerVars, envVars
<1>5. CASE UNCHANGED vars
  <2>1. Clock(p)
    BY DEF TimedInv
  <2>2. QED
    BY <1>5, <2>1 DEF Clock, Since, vars, peerVars, loopVars, envVars
<1>6. QED
  BY <1>1, <1>2, <1>3, <1>4, <1>5, ClockTick, ClockFlips, ClockProbed DEF Next, Loop

(* Whatever the number of peers and the times, a peer out of reach for     *)
(* three periods of the loop is DOWN, as long as the heartbeat thread      *)
(* lives.                                                                  *)
THEOREM SilenceIsNoticed == Spec => []DownInTime
<1>1. ASSUME TimedInv, NEW p \in Peer, dark[p] > 3 * Period, pc # "dead"
      PROVE  state[p] = "DOWN"
  <2>1. Clock(p) /\ BookedInv /\ TypeOK /\ Position
    BY <1>1 DEF TimedInv, BookedInv
  <2>2. Since(p) \in Nat /\ Since(p) <= Period /\ Period \in Nat
    BY <1>1, <2>1, SinceBound, PeriodType
  <2>3. dark[p] \in Nat /\ failure[p] \in Nat
    BY <2>1, ConfigAssumption DEF TypeOK
  <2>4. failure[p] >= 3
    BY <1>1, <2>1, <2>2, <2>3 DEF Clock
  <2>5. QED
    BY <2>1, <2>4 DEF BookedInv, Booked
<1>2. TimedInv => DownInTime
  BY <1>1 DEF DownInTime
<1>3. Init => TimedInv
  BY BookedInit, ClockInit DEF TimedInv
<1>4. QED
  BY <1>2, <1>3, TimedStep, PTL DEF Spec

FreshReport ==
    \A p \in Peer : (pc = "emit" /\ pc' = "wait" /\ report'[p] = "UP")
                       => seen[p] /\ age[p] <= RoundMax

LEMMA ReportIsFresh == TimedInv /\ [Next]_vars => [FreshReport]_vars
<1> SUFFICES ASSUME TimedInv, Next, NEW p \in Peer,
                    pc = "emit", pc' = "wait", report'[p] = "UP"
             PROVE  seen[p] /\ age[p] <= RoundMax
  BY DEF FreshReport
<1>1. Clock(p) /\ BookedInv /\ TypeOK /\ Position
  BY DEF TimedInv, BookedInv
<1>2. report' = state
  BY DEF Next, Loop, Tick, DiskFlips, PeerFlips, StartRound, ProbeSucceeds,
         ProbeFails, Refresh, Emit, Goto, loopVars
<1>3. success[p] > 0
  BY <1>1, <1>2 DEF BookedInv, Booked
<1>4. /\ Since(p) = LogMax + Slots(NPeers - p) + timer /\ timer = 0
      /\ NPeers - p \in Nat /\ p \in Nat /\ p >= 1
  <2>1. timer <= 0 /\ timer \in Nat
    BY <1>1 DEF TypeOK, Position, Patience
  <2>2. SinceIs(p)
    BY <1>1, SinceCases
  <2>3. QED
    BY <2>1, <2>2, ConfigAssumption DEF SinceIs, Peer
<1>5. Slots(NPeers - p) + Slots(0) + ProbeMax + LogMax <= RoundMax
  <2>1. 1 \in 1..p /\ 1 - 1 = 0
    BY <1>4
  <2>2. QED
    BY <2>1, SlotsAround
<1>6. /\ Slots(0) = 0 /\ Slots(NPeers - p) \in Nat /\ RoundMax \in Nat
      /\ ProbeMax \in Nat /\ LogMax \in Nat /\ age[p] \in Nat
  BY <1>1, <1>4, SlotsAdd, PeriodType, ConfigAssumption DEF TypeOK
<1>7. age[p] <= Since(p)
  BY <1>1, <1>3 DEF Clock
<1>8. QED
  BY <1>1, <1>3, <1>4, <1>5, <1>6, <1>7 DEF Clock

(* A heartbeat receipt calls UP only a peer that answered within the last  *)
(* round, whatever the number of peers and the times.                      *)
THEOREM ReportsAreFresh == Spec => ReportedUpAnswered
<1>1. Init => TimedInv
  BY BookedInit, ClockInit DEF TimedInv
<1>2. [FreshReport]_vars =>
         [\A p \in Peer :
            pc = "emit" /\ pc' = "wait" /\ report'[p] = "UP"
               => seen[p] /\ age[p] <= RoundMax]_vars
  BY DEF FreshReport
<1>3. QED
  BY <1>1, <1>2, TimedStep, ReportIsFresh, PTL DEF Spec, ReportedUpAnswered
=============================================================================
