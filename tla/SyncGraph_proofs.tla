-------------------------- MODULE SyncGraph_proofs --------------------------
(***************************************************************************)
(* What SyncGraph's search and its mailbox are worth, for every graph over *)
(* any set of nodes.                                                       *)
(*                                                                         *)
(* The argument is Tarjan's, without any induction over paths: a node      *)
(* leads to another if it cannot be kept from it by a set that is closed   *)
(* under targets.  A visit under way leads to all that is above it on the  *)
(* stack, and what is on the stack leads back to a visit under way below   *)
(* it (Woven).  The lowlinks say how far down the edges go that have been  *)
(* come to (Low).  So a visit that ends with its own index has nothing on  *)
(* the stack below it among the targets above: what it pops, with all that *)
(* was popped before, is closed, and is one class.                         *)
(***************************************************************************)
EXTENDS SyncGraph, SequenceTheorems, FiniteSetTheorems, TLAPS

-----------------------------------------------------------------------------
(* Any graph *)

Closed(g, S) == \A k \in S : Targets(g, k) \subseteq S

LEMMA LeadsSelf == \A g, n : Leads(g, n, n)
BY DEF Leads

LEMMA LeadsOn ==
    ASSUME NEW g, NEW k, NEW m, NEW n, Leads(g, k, m), Leads(g, m, n)
    PROVE  Leads(g, k, n)
BY DEF Leads

LEMMA LeadsToTarget ==
    ASSUME NEW g, NEW n, NEW m \in Targets(g, n) PROVE Leads(g, n, m)
BY DEF Leads

LEMMA ClosedHolds ==
    ASSUME NEW g, NEW S \in SUBSET Names, Closed(g, S),
           NEW n \in S, NEW m, Leads(g, n, m)
    PROVE  m \in S
BY DEF Leads, Closed

LEMMA ClassIsShared ==
    ASSUME NEW g, NEW n, NEW m \in Class(g, n)
    PROVE  Class(g, m) = Class(g, n)
<1>1. Leads(g, n, m) /\ Leads(g, m, n)
  BY DEF Class
<1>2. ASSUME NEW k
      PROVE  (Leads(g, n, k) /\ Leads(g, k, n)) <=> (Leads(g, m, k) /\ Leads(g, k, m))
  BY <1>1, LeadsOn
<1>3. QED
  BY <1>2 DEF Class

(* Mutually linked nodes that nothing but a closed set without them lies   *)
(* behind are a class.                                                     *)
LEMMA ClassByCut ==
    ASSUME NEW g, NEW C \in SUBSET Names, NEW D \in SUBSET Names,
           C \subseteq Nodes(g), C \cap D = {},
           \A n, m \in C : Leads(g, n, m),
           Closed(g, C \cup D), Closed(g, D),
           NEW n \in C
    PROVE  C = Class(g, n)
<1>1. C \subseteq Class(g, n)
  BY DEF Class
<1>2. ASSUME NEW m \in Class(g, n) PROVE m \in C
  <2>1. Leads(g, n, m) /\ Leads(g, m, n)
    BY DEF Class
  <2>2. m \in C \cup D
    BY <2>1, ClosedHolds
  <2>3. m \notin D
    BY <2>1, ClosedHolds
  <2>4. QED
    BY <2>2, <2>3
<1>3. QED
  BY <1>1, <1>2

-----------------------------------------------------------------------------
(* The mailbox *)

(* Mailed, of any graph *)
Posted(g, s, t, box) ==
    [n \in DOMAIN g \cup {t, box} |->
        IF n = box THEN {}
        ELSE IF n = s THEN (g[s] \ {t}) \cup {box}
        ELSE Targets(g, n)]

Without(g, s, t) == [g EXCEPT ![s] = @ \ {t}]

IsGraph(g) == g \in [DOMAIN g -> SUBSET Names] /\ DOMAIN g \subseteq Names

LEMMA PostedTargets ==
    ASSUME NEW g, IsGraph(g), NEW s, NEW t \in Targets(g, s), NEW box \in Names
    PROVE  /\ IsGraph(Posted(g, s, t, box))
           /\ Targets(Posted(g, s, t, box), box) = {}
           /\ \A n : Targets(Posted(g, s, t, box), n) \subseteq
                        Targets(Without(g, s, t), n) \cup {box}
           /\ \A n : Targets(Without(g, s, t), n) \subseteq Targets(g, n)
           /\ Nodes(Posted(g, s, t, box)) \subseteq Nodes(g) \cup {box}
<1> DEFINE p == Posted(g, s, t, box)
           w == Without(g, s, t)
<1>1. s \in DOMAIN g /\ t \in g[s] /\ g[s] \subseteq Names
  BY DEF Targets, IsGraph
<1>2. /\ DOMAIN p = DOMAIN g \cup {t, box}
      /\ p[box] = {}
      /\ \A n \in DOMAIN p : n # box =>
            p[n] = IF n = s THEN (g[s] \ {t}) \cup {box} ELSE Targets(g, n)
  BY DEF Posted
<1>3. /\ DOMAIN w = DOMAIN g
      /\ \A n \in DOMAIN g : w[n] = IF n = s THEN g[s] \ {t} ELSE g[n]
  BY <1>1 DEF Without, IsGraph
<1>4. \A n \in DOMAIN p : p[n] \subseteq Names
  BY <1>1, <1>2 DEF Targets, IsGraph
<1>5. IsGraph(p)
  <2>1. p = [n \in DOMAIN p |-> p[n]]
    BY DEF Posted
  <2>2. DOMAIN p \subseteq Names
    BY <1>1, <1>2 DEF IsGraph
  <2> HIDE DEF p
  <2>3. QED
    BY <1>4, <2>1, <2>2 DEF IsGraph
<1>6. \A n : Targets(p, n) \subseteq Targets(w, n) \cup {box}
  <2> HIDE DEF p, w
  <2> QED BY <1>1, <1>2, <1>3 DEF Targets
<1>7. \A n : Targets(w, n) \subseteq Targets(g, n)
  <2> HIDE DEF w
  <2> QED BY <1>3 DEF Targets
<1>8. Nodes(p) \subseteq Nodes(g) \cup {box}
  <2> HIDE DEF p, w
  <2>1. DOMAIN g \subseteq Nodes(g) /\ \A n \in DOMAIN g : g[n] \subseteq Nodes(g)
    BY DEF Nodes
  <2>2. \A n : Targets(g, n) \subseteq Nodes(g)
    BY <2>1 DEF Targets
  <2>3. \A n \in DOMAIN p : p[n] \subseteq Nodes(g) \cup {box}
    BY <1>6, <1>7, <2>2 DEF Targets
  <2>4. DOMAIN p \subseteq Nodes(g) \cup {box}
    BY <1>2, <2>1, <2>2
  <2>5. QED
    BY <2>3, <2>4 DEF Nodes
<1>9. Targets(p, box) = {}
  <2> HIDE DEF p
  <2> QED BY <1>2 DEF Targets
<1>10. QED
  BY <1>5, <1>6, <1>7, <1>8, <1>9

(* No way leads on from the mailbox, and a way to another node does not    *)
(* use the edge that was cut.                                              *)
LEMMA PostedLeads ==
    ASSUME NEW g, IsGraph(g), NEW s, NEW t \in Targets(g, s), NEW box \in Names,
           NEW n, NEW m, Leads(Posted(g, s, t, box), n, m)
    PROVE  /\ n = box => m = box
           /\ m # box => Leads(Without(g, s, t), n, m) /\ Leads(g, n, m)
<1> DEFINE p == Posted(g, s, t, box)
           w == Without(g, s, t)
<1>1. /\ Targets(p, box) = {}
      /\ \A k : Targets(p, k) \subseteq Targets(w, k) \cup {box}
      /\ \A k : Targets(w, k) \subseteq Targets(g, k)
  BY PostedTargets
<1>2. Leads(p, n, m)
  OBVIOUS
<1> HIDE DEF p, w
<1>3. n = box => m = box
  <2>1. Closed(p, {box})
    BY <1>1 DEF Closed
  <2>2. QED
    BY <1>2, <2>1, ClosedHolds
<1>4. ASSUME m # box PROVE Leads(w, n, m)
  <2> SUFFICES ASSUME NEW S \in SUBSET Names, n \in S,
                      \A k \in S : Targets(w, k) \subseteq S
               PROVE  m \in S
    BY DEF Leads
  <2>1. Closed(p, S \cup {box})
    BY <1>1 DEF Closed
  <2>2. m \in S \cup {box}
    BY <1>2, <2>1, ClosedHolds
  <2>3. QED
    BY <1>4, <2>2
<1>5. Leads(w, n, m) => Leads(g, n, m)
  BY <1>1 DEF Leads
<1>6. QED
  BY <1>3, <1>4, <1>5 DEF w

LEMMA PostedClasses ==
    ASSUME NEW g, IsGraph(g), NEW s, NEW t \in Targets(g, s), NEW box \in Names,
           NEW c \in Classes(Posted(g, s, t, box)), Cardinality(c) > 1
    PROVE  /\ box \notin c
           /\ \E d \in Classes(g) : c \subseteq d
           /\ {s, t} \subseteq c => Leads(Without(g, s, t), s, t)
<1> DEFINE p == Posted(g, s, t, box)
<1>1. PICK n \in Nodes(p) : c = Class(p, n)
  BY DEF Classes
<1>2. \A k, m : Leads(p, k, m) =>
         /\ k = box => m = box
         /\ m # box => Leads(Without(g, s, t), k, m) /\ Leads(g, k, m)
  BY PostedLeads
<1>3. Nodes(p) \subseteq Nodes(g) \cup {box}
  BY PostedTargets
<1> HIDE DEF p
<1>4. \A k, m \in c : Leads(p, k, m) /\ k \in Nodes(p)
  BY <1>1, LeadsOn DEF Class
<1>5. box \notin c
  <2> SUFFICES ASSUME box \in c PROVE FALSE
    OBVIOUS
  <2>1. c = {box}
    BY <1>2, <1>4
  <2>2. QED
    BY <2>1, FS_Singleton
<1>6. PICK k \in c : TRUE
  <2>1. c # {}
    BY FS_EmptySet
  <2>2. QED
    BY <2>1
<1>7. k \in Nodes(g) /\ c \subseteq Class(g, k)
  BY <1>2, <1>3, <1>4, <1>5, <1>6 DEF Class
<1>8. QED
  BY <1>2, <1>4, <1>5, <1>7 DEF Classes

-----------------------------------------------------------------------------
(* Sequences *)

LEMMA SetOfAppend ==
    ASSUME NEW T, NEW seq \in Seq(T), NEW e \in T
    PROVE  /\ Append(seq, e) \in Seq(T) /\ Len(Append(seq, e)) = Len(seq) + 1
           /\ \A i \in 1..Len(seq) : Append(seq, e)[i] = seq[i]
           /\ Append(seq, e)[Len(seq) + 1] = e
           /\ Set(Append(seq, e)) = Set(seq) \cup {e}
<1>1. /\ Append(seq, e) \in Seq(T) /\ Len(Append(seq, e)) = Len(seq) + 1
      /\ \A i \in 1..Len(seq) : Append(seq, e)[i] = seq[i]
      /\ Append(seq, e)[Len(seq) + 1] = e
  BY AppendProperties
<1>2. Len(seq) \in Nat /\ 1..(Len(seq) + 1) = 1..Len(seq) \cup {Len(seq) + 1}
  BY LenProperties
<1>3. QED
  BY <1>1, <1>2 DEF Set

LEMMA FirstOf ==
    ASSUME NEW T, NEW seq \in Seq(T), NEW n \in 0..Len(seq)
    PROVE  /\ SubSeq(seq, 1, n) \in Seq(T) /\ Len(SubSeq(seq, 1, n)) = n
           /\ \A i \in 1..n : SubSeq(seq, 1, n)[i] = seq[i]
           /\ Set(SubSeq(seq, 1, n)) = {seq[i] : i \in 1..n}
<1>1. Len(seq) \in Nat /\ \A i \in 1..Len(seq) : seq[i] \in T
  BY LenProperties, ElementOfSeq
<1>2. SubSeq(seq, 1, n) = [i \in 1..n |-> seq[i]] /\ Len(SubSeq(seq, 1, n)) = n
  OBVIOUS
<1>3. SubSeq(seq, 1, n) \in Seq(T)
  BY <1>1, <1>2, IsASeq
<1>4. QED
  BY <1>2, <1>3 DEF Set

LEMMA LastOf ==
    ASSUME NEW T, NEW seq \in Seq(T), NEW n \in 1..Len(seq)
    PROVE  Set(SubSeq(seq, n, Len(seq))) = {seq[i] : i \in n..Len(seq)}
<1>1. PICK k \in Nat : k = Len(seq)
  BY LenProperties
<1>2. n \in Nat /\ n > 0 /\ n <= k
  BY <1>1
<1>3. /\ Len(SubSeq(seq, n, k)) = k - n + 1
      /\ \A i \in 1..(k - n + 1) : SubSeq(seq, n, k)[i] = seq[n + i - 1]
  BY <1>1, <1>2, SubSeqProperties
<1>4. ASSUME NEW e PROVE e \in Set(SubSeq(seq, n, k)) <=> e \in {seq[i] : i \in n..k}
  <2>1. ASSUME NEW i \in 1..(k - n + 1), e = SubSeq(seq, n, k)[i]
        PROVE  e \in {seq[j] : j \in n..k}
    <3>1. n + i - 1 \in n..k /\ e = seq[n + i - 1]
      BY <1>2, <1>3, <2>1
    <3>2. QED
      BY <3>1
  <2>2. ASSUME NEW j \in n..k, e = seq[j]
        PROVE  \E i \in 1..(k - n + 1) : e = SubSeq(seq, n, k)[i]
    <3>1. j - n + 1 \in 1..(k - n + 1) /\ n + (j - n + 1) - 1 = j
      BY <1>2
    <3>2. e = SubSeq(seq, n, k)[j - n + 1]
      BY <1>3, <2>2, <3>1
    <3>3. QED
      BY <3>1, <3>2
  <2>3. QED
    BY <1>3, <2>1, <2>2 DEF Set
<1>5. QED
  BY <1>1, <1>4 DEF Set

-----------------------------------------------------------------------------
(* The invariant of the search *)

Seen == DOMAIN indices
OnStack == Set(stack)
Done == UNION components
Depth == 1..Len(frames)
Gray(i) == frames[i].node

(* The targets of y that the loop of its visit has come to, or all of them *)
(* if that visit is over                                                   *)
Passed(y) == {z \in Targets(graph, y) :
                 \A i \in Depth : Gray(i) = y => z \notin frames[i].rest}

Frame == [node : Names, rest : SUBSET Names]

Typed == /\ IsGraph(graph) /\ todo \subseteq DOMAIN graph
         /\ frames \in Seq(Frame) /\ stack \in Seq(Names)
         /\ Seen \subseteq Names
         /\ indices \in [Seen -> Nat] /\ lowlinks \in [Seen -> Nat]
         /\ components \subseteq SUBSET Names

Numbered == /\ IsFiniteSet(Seen) /\ index = Cardinality(Seen)
            /\ \A n \in Seen : indices[n] < index /\ lowlinks[n] <= indices[n]

(* The stack and the visits under way are in the order of their numbers.   *)
Stacked == /\ Seen = OnStack \cup Done /\ OnStack \cap Done = {}
           /\ \A i, j \in 1..Len(stack) : i < j => indices[stack[i]] < indices[stack[j]]
           /\ \A i \in Depth : /\ Gray(i) \in OnStack
                               /\ frames[i].rest \subseteq Targets(graph, Gray(i))
           /\ \A i, j \in Depth : i < j => indices[Gray(i)] < indices[Gray(j)]

(* Nothing that was come to is left out, and what was popped is closed. *)
Covered == /\ \A y \in OnStack : Passed(y) \subseteq Seen
           /\ Closed(graph, Done)
           /\ DOMAIN graph \subseteq todo \cup Seen
           /\ Seen \subseteq Nodes(graph)

(* A visit under way leads to all above it on the stack, and everything on *)
(* the stack to a visit under way below it.                                *)
Woven == /\ \A i \in Depth, y \in OnStack :
               indices[Gray(i)] <= indices[y] => Leads(graph, Gray(i), y)
         /\ \A y \in OnStack : \E i \in Depth :
               indices[Gray(i)] <= indices[y] /\ Leads(graph, y, Gray(i))

(* A lowlink is the index of a node on the stack that the visit leads to,  *)
(* and of the visits between one under way and a node above it there is    *)
(* one that accounts for each edge that node has been found to have.       *)
Low == /\ \A i \in Depth : \E z \in OnStack :
             indices[z] = lowlinks[Gray(i)] /\ Leads(graph, Gray(i), z)
       /\ \A i \in Depth, y \in OnStack : indices[Gray(i)] <= indices[y] =>
             \A z \in Passed(y) \cap OnStack : \E j \in i..Len(frames) :
                indices[Gray(j)] <= indices[y] /\ lowlinks[Gray(j)] <= indices[z]

Classed == \A c \in components : c # {} /\ \A n \in c : c = Class(graph, n)

SearchInv == Typed /\ Numbered /\ Stacked /\ Covered /\ Woven /\ Low /\ Classed

(* A search that has not begun *)
Fresh == /\ IsGraph(graph) /\ todo = DOMAIN graph /\ frames = <<>> /\ index = 0
         /\ indices = <<>> /\ lowlinks = <<>> /\ stack = <<>> /\ components = {}

LEMMA FreshSearch == Fresh => SearchInv
<1> SUFFICES ASSUME Fresh PROVE SearchInv
  OBVIOUS
<1>1. Seen = {} /\ OnStack = {} /\ Done = {} /\ Depth = {}
  BY DEF Fresh, Seen, OnStack, Done, Depth, Set
<1>2. indices \in [{} -> Nat] /\ lowlinks \in [{} -> Nat]
  BY DEF Fresh
<1>3. <<>> \in Seq(Frame) /\ <<>> \in Seq(Names)
  BY EmptySeq
<1>4. Typed
  BY <1>1, <1>2, <1>3 DEF Fresh, Typed
<1>5. Numbered
  BY <1>1, FS_EmptySet DEF Fresh, Numbered
<1>6. Stacked
  BY <1>1 DEF Stacked, Fresh
<1>7. Covered /\ Woven /\ Low /\ Classed
  BY <1>1 DEF Covered, Closed, Woven, Low, Classed, Fresh
<1>8. QED
  BY <1>4, <1>5, <1>6, <1>7 DEF SearchInv

(* What the steps of the search need of the sequences *)
LEMMA Shapes ==
    ASSUME SearchInv
    PROVE  /\ Len(frames) \in Nat /\ Len(stack) \in Nat
           /\ \A i \in Depth : /\ frames[i] \in Frame /\ Gray(i) \in Names
                               /\ Gray(i) \in Seen /\ Gray(i) \in OnStack
                               /\ frames[i].rest \subseteq Names
           /\ \A n \in Seen : indices[n] \in Nat /\ lowlinks[n] \in Nat
           /\ OnStack \subseteq Seen /\ OnStack \subseteq Names /\ Done \subseteq Names
           /\ index \in Nat
           /\ \A i \in 1..Len(stack) : stack[i] \in OnStack
<1>1. Len(frames) \in Nat /\ Len(stack) \in Nat
  BY LenProperties DEF SearchInv, Typed
<1>2. \A i \in Depth : frames[i] \in Frame
  BY ElementOfSeq DEF SearchInv, Typed, Depth
<1>3. \A n \in Seen : indices[n] \in Nat /\ lowlinks[n] \in Nat
  BY DEF SearchInv, Typed
<1>4. OnStack \subseteq Seen /\ \A i \in Depth : Gray(i) \in OnStack
  BY DEF SearchInv, Stacked
<1>5. OnStack \subseteq Names /\ Done \subseteq Names
  BY <1>4 DEF SearchInv, Typed, Done
<1>6. index \in Nat
  BY FS_CardinalityType DEF SearchInv, Numbered
<1>7. \A i \in 1..Len(stack) : stack[i] \in OnStack
  BY DEF OnStack, Set
<1>8. QED
  BY <1>1, <1>2, <1>3, <1>4, <1>5, <1>6, <1>7 DEF Frame, Gray

(* The innermost visit *)
LEMMA TopShape ==
    ASSUME SearchInv, frames # <<>>
    PROVE  /\ Len(frames) \in Depth /\ Top = frames[Len(frames)]
           /\ Top.node = Gray(Len(frames)) /\ Top.rest \subseteq Targets(graph, Top.node)
           /\ Below \in Seq(Frame) /\ Len(Below) = Len(frames) - 1
           /\ \A i \in 1..(Len(frames) - 1) : Below[i] = frames[i]
           /\ \A i \in Depth : indices[Gray(i)] <= indices[Top.node]
           /\ \A i \in Depth : i < Len(frames) => indices[Gray(i)] < indices[Top.node]
           /\ Below = <<>> <=> Len(frames) = 1
<1> DEFINE k == Len(frames)
<1>1. k \in Nat /\ k # 0 /\ frames \in Seq(Frame)
  BY EmptySeq DEF SearchInv, Typed
<1>2. k \in Depth /\ k - 1 \in 0..k
  BY <1>1 DEF Depth
<1>3. /\ Below \in Seq(Frame) /\ Len(Below) = k - 1
      /\ \A i \in 1..(k - 1) : Below[i] = frames[i]
  BY <1>1, <1>2, FirstOf DEF Below
<1>4. Top.node = Gray(k) /\ Top.rest \subseteq Targets(graph, Top.node)
  BY <1>2 DEF Top, Gray, SearchInv, Stacked
<1>5. \A i \in Depth : i < k => indices[Gray(i)] < indices[Gray(k)]
  BY <1>2 DEF SearchInv, Stacked
<1>6. \A i \in Depth : indices[Gray(i)] <= indices[Gray(k)]
  BY <1>1, <1>2, <1>5, Shapes DEF Depth
<1>7. Below = <<>> <=> k = 1
  BY <1>1, <1>3, EmptySeq
<1>8. QED
  BY <1>2, <1>3, <1>4, <1>5, <1>6, <1>7 DEF Top

-----------------------------------------------------------------------------
(* A visit begins *)

Begins(n, onto) ==
    /\ n \in Names /\ n \notin Seen /\ n \in Nodes(graph)
    /\ onto \in Seq(Frame) /\ Len(onto) = Len(frames)
    /\ \A i \in Depth : /\ onto[i].node = Gray(i) /\ onto[i].rest \subseteq frames[i].rest
                        /\ frames[i].rest \subseteq onto[i].rest \cup {n}
    /\ frames # <<>> => n \in Targets(graph, Top.node)
    /\ Visit(n, onto) /\ graph' = graph /\ components' = components
    /\ todo' \subseteq todo /\ todo \subseteq todo' \cup {n}

LEMMA VisitShape ==
    ASSUME SearchInv, NEW n, NEW onto, Begins(n, onto)
    PROVE  /\ frames' \in Seq(Frame) /\ stack' \in Seq(Names)
           /\ Len(frames') = Len(frames) + 1
           /\ Depth' = Depth \cup {Len(frames) + 1} /\ Len(frames) + 1 \notin Depth
           /\ \A i \in Depth : /\ Gray(i)' = Gray(i)
                               /\ frames'[i].rest \subseteq frames[i].rest
                               /\ frames[i].rest \subseteq frames'[i].rest \cup {n}
           /\ frames'[Len(frames) + 1].node = n
           /\ frames'[Len(frames) + 1].rest = Targets(graph, n)
           /\ Seen' = Seen \cup {n} /\ OnStack' = OnStack \cup {n} /\ Done' = Done
           /\ indices' \in [Seen' -> Nat] /\ lowlinks' \in [Seen' -> Nat]
           /\ indices'[n] = index /\ lowlinks'[n] = index
           /\ \A m \in Seen : indices'[m] = indices[m] /\ lowlinks'[m] = lowlinks[m]
<1> DEFINE f == [node |-> n, rest |-> Targets(graph, n)]
<1>1. n \in Names /\ n \notin Seen /\ onto \in Seq(Frame) /\ Len(onto) = Len(frames)
  BY DEF Begins
<1>2. f \in Frame
  BY <1>1 DEF Frame, Targets, SearchInv, Typed, IsGraph
<1>3. frames' = Append(onto, f) /\ stack' = Append(stack, n)
  BY DEF Begins, Visit
<1>4. /\ indices' = With(indices, n, index) /\ lowlinks' = With(lowlinks, n, index)
      /\ index \in Nat /\ Len(frames) \in Nat
  BY Shapes DEF Begins, Visit
<1> HIDE DEF f
<1>5. /\ frames' \in Seq(Frame) /\ Len(frames') = Len(frames) + 1
      /\ \A i \in Depth : frames'[i] = onto[i]
      /\ frames'[Len(frames) + 1] = f
  BY <1>1, <1>2, <1>3, SetOfAppend DEF Depth
<1>6. Depth' = Depth \cup {Len(frames) + 1} /\ Len(frames) + 1 \notin Depth
  BY <1>4, <1>5 DEF Depth
<1>7. stack' \in Seq(Names) /\ OnStack' = OnStack \cup {n}
  BY <1>1, <1>3, SetOfAppend DEF OnStack, SearchInv, Typed
<1>8. /\ Seen' = Seen \cup {n} /\ indices' \in [Seen' -> Nat] /\ lowlinks' \in [Seen' -> Nat]
      /\ indices'[n] = index /\ lowlinks'[n] = index
      /\ \A m \in Seen : indices'[m] = indices[m] /\ lowlinks'[m] = lowlinks[m]
  BY <1>1, <1>4 DEF With, Seen, SearchInv, Typed
<1>9. Done' = Done
  BY DEF Begins, Done
<1>10. f.node = n /\ f.rest = Targets(graph, n)
  BY DEF f
<1>11. QED
  BY <1>5, <1>6, <1>7, <1>8, <1>9, <1>10 DEF Begins, Gray

LEMMA VisitPassed ==
    ASSUME SearchInv, NEW n, NEW onto, Begins(n, onto)
    PROVE  /\ Passed(n)' = {}
           /\ \A y : Passed(y)' \subseteq Passed(y) \cup {n}
<1>1. graph' = graph
  BY DEF Begins
<1>2. Passed(n)' = {}
  BY <1>1, VisitShape DEF Passed, Gray
<1>3. ASSUME NEW y, NEW z \in Passed(y)', z # n PROVE z \in Passed(y)
  <2>1. z \in Targets(graph, y)
    BY <1>1, <1>3 DEF Passed
  <2>2. ASSUME NEW i \in Depth, Gray(i) = y PROVE z \notin frames[i].rest
    <3>1. i \in Depth' /\ Gray(i)' = y
      BY <2>2, VisitShape
    <3>2. z \notin frames'[i].rest
      BY <1>3, <3>1 DEF Passed
    <3>3. QED
      BY <1>3, <3>2, VisitShape
  <2>3. QED
    BY <2>1, <2>2 DEF Passed
<1>4. QED
  BY <1>2, <1>3

LEMMA VisitKeeps ==
    ASSUME SearchInv, NEW n, NEW onto, Begins(n, onto)
    PROVE  SearchInv'
<1>0. PICK k \in Nat : k = Len(frames)
  BY Shapes
<1>1. /\ n \in Names /\ n \notin Seen /\ n \in Nodes(graph)
      /\ graph' = graph /\ components' = components
      /\ todo' \subseteq todo /\ todo \subseteq todo' \cup {n} /\ index' = index + 1
      /\ stack' = Append(stack, n)
  BY DEF Begins, Visit
<1>2. k \in Nat /\ k + 1 \in Depth' /\ Gray(k + 1)' = n /\ Depth' = Depth \cup {k + 1}
  BY <1>0, VisitShape DEF Gray
<1>3. n \notin OnStack /\ n \notin Done
  BY <1>1 DEF SearchInv, Stacked
<1>4. index \in Nat /\ \A m \in Seen : indices[m] < index /\ indices[m] \in Nat
                                        /\ lowlinks[m] \in Nat /\ lowlinks[m] <= indices[m]
  BY Shapes DEF SearchInv, Numbered
<1>5. \A y \in OnStack : y \in Seen /\ y \in Names
  BY Shapes
<1>6. Typed'
  BY <1>1, VisitShape DEF SearchInv, Typed
<1>7. Numbered'
  <2>1. IsFiniteSet(Seen') /\ Cardinality(Seen') = Cardinality(Seen) + 1
    BY <1>1, VisitShape, FS_AddElement DEF SearchInv, Numbered
  <2>2. \A m \in Seen' : indices'[m] < index' /\ lowlinks'[m] <= indices'[m]
    <3>1. indices'[n] < index' /\ lowlinks'[n] <= indices'[n]
      BY <1>1, <1>4, VisitShape
    <3>2. \A m \in Seen : indices'[m] < index' /\ lowlinks'[m] <= indices'[m]
      BY <1>1, <1>4, VisitShape
    <3>3. QED
      BY <3>1, <3>2, VisitShape
  <2>3. QED
    BY <1>1, <2>1, <2>2 DEF SearchInv, Numbered
<1>8. Stacked'
  <2>1. Seen' = OnStack' \cup Done' /\ OnStack' \cap Done' = {}
    BY <1>3, VisitShape DEF SearchInv, Stacked
  <2>2. ASSUME NEW i \in 1..Len(stack'), NEW j \in 1..Len(stack'), i < j
        PROVE  indices'[stack'[i]] < indices'[stack'[j]]
    <3>1. /\ Len(stack') = Len(stack) + 1 /\ stack'[Len(stack) + 1] = n
          /\ \A l \in 1..Len(stack) : stack'[l] = stack[l]
      BY <1>1, SetOfAppend DEF SearchInv, Typed
    <3>0. Len(stack) \in Nat
      BY Shapes
    <3>2. i \in 1..Len(stack) /\ (j \in 1..Len(stack) \/ j = Len(stack) + 1)
      BY <2>2, <3>0, <3>1
    <3>3. stack[i] \in Seen /\ (j \in 1..Len(stack) => stack[j] \in Seen)
      BY <3>2, Shapes
    <3>4. CASE j \in 1..Len(stack)
      BY <2>2, <3>1, <3>2, <3>3, <3>4, VisitShape DEF SearchInv, Stacked
    <3>5. CASE j = Len(stack) + 1
      <4>1. stack'[i] = stack[i] /\ stack'[j] = n
        BY <3>1, <3>2, <3>5
      <4>2. QED
        BY <1>4, <3>3, <4>1, VisitShape
    <3>6. QED
      BY <3>2, <3>4, <3>5
  <2>3. ASSUME NEW i \in Depth'
        PROVE  Gray(i)' \in OnStack' /\ frames'[i].rest \subseteq Targets(graph', Gray(i)')
    <3>1. CASE i \in Depth
      BY <1>1, <3>1, VisitShape DEF SearchInv, Stacked
    <3>2. CASE i = k + 1
      BY <1>1, <1>2, <3>2, VisitShape
    <3>3. QED
      BY <1>2, <3>1, <3>2
  <2>4. ASSUME NEW i \in Depth', NEW j \in Depth', i < j
        PROVE  indices'[Gray(i)'] < indices'[Gray(j)']
    <3>1. i \in Depth /\ Gray(i) \in Seen
      BY <1>2, <2>4, VisitShape, Shapes DEF Depth
    <3>2. CASE j \in Depth
      BY <2>4, <3>1, <3>2, VisitShape, Shapes DEF SearchInv, Stacked
    <3>3. CASE j = k + 1
      BY <1>2, <1>4, <3>1, <3>3, VisitShape
    <3>4. QED
      BY <1>2, <3>2, <3>3
  <2>5. QED
    BY <2>1, <2>2, <2>3, <2>4 DEF Stacked
<1>9. Covered'
  <2>1. \A y \in OnStack' : Passed(y)' \subseteq Seen'
    <3>1. \A y \in OnStack : Passed(y) \subseteq Seen
      BY DEF SearchInv, Covered
    <3>2. QED
      BY <3>1, VisitPassed, VisitShape
  <2>2. Closed(graph', Done')
    BY <1>1, VisitShape DEF SearchInv, Covered
  <2>3. DOMAIN graph' \subseteq todo' \cup Seen' /\ Seen' \subseteq Nodes(graph')
    BY <1>1, VisitShape DEF SearchInv, Covered
  <2>4. QED
    BY <2>1, <2>2, <2>3 DEF Covered
<1>10. ASSUME NEW i \in Depth PROVE Leads(graph, Gray(i), n)
  <2>1. frames # <<>>
    BY DEF Depth
  <2>2. n \in Targets(graph, Gray(k)) /\ k \in Depth /\ indices[Gray(i)] <= indices[Gray(k)]
    BY <1>0, <2>1, TopShape DEF Begins
  <2>3. Leads(graph, Gray(i), Gray(k)) /\ Leads(graph, Gray(k), n)
    BY <2>2, Shapes, LeadsToTarget DEF SearchInv, Woven
  <2>4. QED
    BY <2>3, LeadsOn
<1>11. Woven'
  <2>1. ASSUME NEW i \in Depth', NEW y \in OnStack', indices'[Gray(i)'] <= indices'[y]
        PROVE  Leads(graph, Gray(i)', y)
    <3>1. CASE i \in Depth /\ y \in OnStack
      BY <1>5, <2>1, <3>1, VisitShape, Shapes DEF SearchInv, Woven
    <3>2. CASE i \in Depth /\ y = n
      BY <1>10, <3>2, VisitShape
    <3>3. CASE i = k + 1 /\ y \in OnStack
      <4>1. indices'[Gray(i)'] = index /\ indices'[y] < index /\ indices'[y] \in Nat
        BY <1>2, <1>4, <1>5, <3>3, VisitShape
      <4>2. QED
        BY <1>4, <2>1, <4>1
    <3>4. CASE i = k + 1 /\ y = n
      BY <1>2, <3>4, LeadsSelf
    <3>5. QED
      BY <1>2, <3>1, <3>2, <3>3, <3>4, VisitShape
  <2>2. ASSUME NEW y \in OnStack'
        PROVE  \E i \in Depth' : indices'[Gray(i)'] <= indices'[y] /\ Leads(graph, y, Gray(i)')
    <3>1. CASE y \in OnStack
      <4>1. PICK i \in Depth : indices[Gray(i)] <= indices[y] /\ Leads(graph, y, Gray(i))
        BY <3>1 DEF SearchInv, Woven
      <4>2. QED
        BY <1>5, <3>1, <4>1, VisitShape, Shapes
    <3>2. CASE y = n
      BY <1>2, <1>4, <3>2, LeadsSelf, VisitShape
    <3>3. QED
      BY <3>1, <3>2, VisitShape
  <2>3. QED
    BY <1>1, <2>1, <2>2 DEF Woven
<1>12. Low'
  <2>1. ASSUME NEW i \in Depth'
        PROVE  \E z \in OnStack' : indices'[z] = lowlinks'[Gray(i)'] /\ Leads(graph, Gray(i)', z)
    <3>1. CASE i \in Depth
      <4>1. PICK z \in OnStack : indices[z] = lowlinks[Gray(i)] /\ Leads(graph, Gray(i), z)
        BY <3>1 DEF SearchInv, Low
      <4>2. QED
        BY <1>5, <3>1, <4>1, VisitShape, Shapes
    <3>2. CASE i = k + 1
      BY <1>2, <3>2, LeadsSelf, VisitShape
    <3>3. QED
      BY <1>2, <3>1, <3>2, VisitShape
  <2>2. ASSUME NEW i \in Depth', NEW y \in OnStack', indices'[Gray(i)'] <= indices'[y],
               NEW z \in Passed(y)' \cap OnStack'
        PROVE  \E j \in i..Len(frames') :
                  indices'[Gray(j)'] <= indices'[y] /\ lowlinks'[Gray(j)'] <= indices'[z]
    <3>1. y # n /\ y \in OnStack
      BY <2>2, VisitPassed, VisitShape
    <3>2. i \in Depth
      <4>1. indices'[y] < index /\ indices'[y] \in Nat
        BY <1>4, <1>5, <3>1, VisitShape
      <4>2. QED
        BY <1>2, <1>4, <2>2, <4>1, VisitShape
    <3>3. indices[Gray(i)] <= indices[y]
      BY <1>5, <2>2, <3>1, <3>2, VisitShape, Shapes
    <3>4. CASE z = n
      <4>1. lowlinks'[Gray(i)'] <= indices'[z]
        BY <1>4, <3>2, <3>4, VisitShape, Shapes
      <4>2. i \in i..Len(frames')
        BY <1>2, <3>2, VisitShape DEF Depth
      <4>3. QED
        BY <2>2, <4>1, <4>2
    <3>5. CASE z # n
      <4>1. z \in Passed(y) \cap OnStack
        BY <2>2, <3>5, VisitPassed, VisitShape
      <4>2. PICK j \in i..Len(frames) :
                indices[Gray(j)] <= indices[y] /\ lowlinks[Gray(j)] <= indices[z]
        BY <3>1, <3>2, <3>3, <4>1 DEF SearchInv, Low
      <4>3. j \in Depth /\ j \in i..Len(frames')
        BY <1>2, <3>2, VisitShape DEF Depth
      <4>4. QED
        BY <1>5, <3>1, <4>1, <4>2, <4>3, VisitShape, Shapes
    <3>6. QED
      BY <3>4, <3>5
  <2>3. QED
    BY <1>1, <2>1, <2>2 DEF Low
<1>13. Classed'
  BY <1>1 DEF SearchInv, Classed
<1>14. QED
  BY <1>6, <1>7, <1>8, <1>9, <1>11, <1>12, <1>13 DEF SearchInv

-----------------------------------------------------------------------------
(* The outer loop, and the loop over the targets *)

LEMMA RootKeeps ==
    ASSUME SearchInv, NEW n, Root(n) PROVE SearchInv'
<1>1. n \in todo /\ todo' = todo \ {n} /\ graph' = graph /\ components' = components
  BY DEF Root
<1>2. CASE n \in DOMAIN indices
  <2>1. UNCHANGED <<frames, indices, lowlinks, index, stack>>
    BY <1>2 DEF Root
  <2>2. /\ Seen' = Seen /\ OnStack' = OnStack /\ Done' = Done /\ Depth' = Depth
        /\ \A i : Gray(i)' = Gray(i)
        /\ \A y : Passed(y)' = Passed(y)
    BY <1>1, <2>1 DEF Seen, OnStack, Done, Depth, Passed, Gray
  <2>3. Typed' /\ Covered'
    BY <1>1, <1>2, <2>1, <2>2 DEF SearchInv, Typed, Covered, Seen
  <2>4. Numbered' /\ Stacked'
    BY <1>1, <2>1, <2>2 DEF SearchInv, Numbered, Stacked
  <2>5. Woven'
    BY <1>1, <2>1, <2>2 DEF SearchInv, Woven
  <2>6. Low'
    BY <1>1, <2>1, <2>2 DEF SearchInv, Low
  <2>7. Classed'
    BY <1>1 DEF SearchInv, Classed
  <2>8. QED
    BY <2>3, <2>4, <2>5, <2>6, <2>7 DEF SearchInv
<1>3. CASE n \notin DOMAIN indices
  <2>1. frames = <<>> /\ Visit(n, frames)
    BY <1>3 DEF Root
  <2>2. n \in DOMAIN graph /\ DOMAIN graph \subseteq Names /\ frames \in Seq(Frame)
    BY <1>1 DEF SearchInv, Typed, IsGraph
  <2>3. Begins(n, frames)
    BY <1>1, <1>3, <2>1, <2>2 DEF Begins, Seen, Nodes, Gray
  <2>4. QED
    BY <2>3, VisitKeeps
<1>4. QED
  BY <1>2, <1>3

LEMMA OnwardShape ==
    ASSUME SearchInv, frames # <<>>, NEW t \in Top.rest
    PROVE  /\ Onward(t) \in Seq(Frame) /\ Len(Onward(t)) = Len(frames)
           /\ \A i \in Depth : /\ Onward(t)[i].node = Gray(i)
                               /\ Onward(t)[i].rest \subseteq frames[i].rest
                               /\ frames[i].rest \subseteq Onward(t)[i].rest \cup {t}
                               /\ i # Len(frames) => Onward(t)[i] = frames[i]
           /\ Onward(t)[Len(frames)].rest = Top.rest \ {t}
           /\ t \in Targets(graph, Top.node) /\ t \in Names /\ t \in Nodes(graph)
<1>0. PICK k \in Nat : k = Len(frames)
  BY Shapes
<1> DEFINE f == [Top EXCEPT !.rest = @ \ {t}]
<1>1. /\ k \in Depth /\ Depth = 1..k /\ Top = frames[k] /\ Top \in Frame
      /\ Below \in Seq(Frame) /\ Len(Below) = k - 1
      /\ \A i \in 1..(k - 1) : Below[i] = frames[i]
  BY <1>0, TopShape, Shapes DEF Depth
<1>2. f \in Frame /\ f.node = Top.node /\ f.rest = Top.rest \ {t}
  BY <1>1 DEF Frame
<1>3. Onward(t) = Append(Below, f)
  BY DEF Onward
<1> HIDE DEF f
<1>4. /\ Onward(t) \in Seq(Frame) /\ Len(Onward(t)) = k - 1 + 1
      /\ \A i \in 1..(k - 1) : Onward(t)[i] = frames[i]
      /\ Onward(t)[k - 1 + 1] = f
  BY <1>1, <1>2, <1>3, SetOfAppend
<1>5. ASSUME NEW i \in Depth
      PROVE  /\ Onward(t)[i].node = Gray(i)
             /\ Onward(t)[i].rest \subseteq frames[i].rest
             /\ frames[i].rest \subseteq Onward(t)[i].rest \cup {t}
             /\ i # k => Onward(t)[i] = frames[i]
  <2>1. CASE i = k
    BY <1>0, <1>1, <1>2, <1>4, <2>1 DEF Gray
  <2>2. CASE i # k
    <3>1. i \in 1..(k - 1)
      BY <1>0, <1>1, <2>2
    <3>2. QED
      BY <1>4, <3>1 DEF Gray
  <2>3. QED
    BY <2>1, <2>2
<1>6. t \in Targets(graph, Top.node)
  BY TopShape
<1>7. t \in Nodes(graph) /\ t \in Names
  BY <1>6 DEF Targets, Nodes, SearchInv, Typed, IsGraph
<1>8. Onward(t)[k].rest = Top.rest \ {t}
  BY <1>2, <1>4
<1>9. QED
  BY <1>0, <1>4, <1>5, <1>6, <1>7, <1>8

LEMMA DeeperKeeps ==
    ASSUME SearchInv, NEW t, Deeper(t) PROVE SearchInv'
<1>1. /\ frames # <<>> /\ t \in Top.rest /\ t \notin Seen /\ Visit(t, Onward(t))
      /\ graph' = graph /\ components' = components /\ todo' = todo
  BY DEF Deeper, Looks, Seen
<1>2. Begins(t, Onward(t))
  BY <1>1, OnwardShape DEF Begins
<1>3. QED
  BY <1>2, VisitKeeps

LEMMA BackShape ==
    ASSUME SearchInv, NEW t, Back(t)
    PROVE  /\ frames' \in Seq(Frame) /\ Len(frames') = Len(frames) /\ Depth' = Depth
           /\ \A i \in Depth : Gray(i)' = Gray(i) /\ frames'[i].rest \subseteq frames[i].rest
           /\ Seen' = Seen /\ OnStack' = OnStack /\ Done' = Done
           /\ \A y : Passed(y)' \subseteq Passed(y) \cup {t}
           /\ \A y : y # Top.node => Passed(y)' \subseteq Passed(y)
           /\ lowlinks' \in [Seen -> Nat]
           /\ \A m \in Seen : /\ lowlinks'[m] <= lowlinks[m]
                              /\ m # Top.node => lowlinks'[m] = lowlinks[m]
                              /\ lowlinks'[m] # lowlinks[m] =>
                                    t \in OnStack /\ lowlinks'[m] = indices[t]
           /\ t \in OnStack => lowlinks'[Top.node] <= indices[t]
<1>0. PICK k \in Nat : k = Len(frames)
  BY Shapes
<1>1. /\ frames # <<>> /\ t \in Top.rest /\ t \in Seen /\ frames' = Onward(t)
      /\ UNCHANGED <<graph, components, indices, stack>>
  BY DEF Back, Looks, Seen
<1>2. /\ frames' \in Seq(Frame) /\ Len(frames') = k
      /\ \A i \in Depth : /\ frames'[i].node = Gray(i)
                          /\ frames'[i].rest \subseteq frames[i].rest
                          /\ frames[i].rest \subseteq frames'[i].rest \cup {t}
                          /\ i # k => frames'[i] = frames[i]
  BY <1>0, <1>1, OnwardShape
<1>3. Depth' = Depth /\ \A i \in Depth : Gray(i)' = Gray(i)
  BY <1>0, <1>2 DEF Depth, Gray
<1>4. Seen' = Seen /\ OnStack' = OnStack /\ Done' = Done
  BY <1>1 DEF Seen, OnStack, Done
<1>5. ASSUME NEW y, NEW z \in Passed(y)', z # t \/ y # Top.node PROVE z \in Passed(y)
  <2>1. z \in Targets(graph, y)
    BY <1>1, <1>5 DEF Passed
  <2>2. ASSUME NEW i \in Depth, Gray(i) = y PROVE z \notin frames[i].rest
    <3>1. z \notin frames'[i].rest
      BY <1>3, <1>5, <2>2 DEF Passed
    <3>2. Top.node = Gray(k)
      BY <1>0, <1>1, TopShape
    <3>3. QED
      BY <1>2, <1>5, <2>2, <3>1, <3>2
  <2>3. QED
    BY <2>1, <2>2 DEF Passed
<1>6. /\ Top.node \in Seen /\ indices[t] \in Nat
      /\ lowlinks \in [Seen -> Nat] /\ lowlinks[Top.node] \in Nat
  BY <1>1, TopShape, Shapes DEF SearchInv, Typed
<1>7. CASE t \notin Set(stack)
  <2>1. lowlinks' = lowlinks /\ t \notin OnStack
    BY <1>7 DEF Back, OnStack
  <2>2. QED
    BY <1>0, <1>2, <1>3, <1>4, <1>5, <1>6, <2>1, Shapes
<1>8. CASE t \in Set(stack)
  <2>1. lowlinks' = [lowlinks EXCEPT ![Top.node] = Least(@, indices[t])] /\ t \in OnStack
    BY <1>8 DEF Back, OnStack
  <2>2. /\ Least(lowlinks[Top.node], indices[t]) \in Nat
        /\ Least(lowlinks[Top.node], indices[t]) <= lowlinks[Top.node]
        /\ Least(lowlinks[Top.node], indices[t]) <= indices[t]
        /\ Least(lowlinks[Top.node], indices[t]) \in {lowlinks[Top.node], indices[t]}
    BY <1>6 DEF Least
  <2>3. /\ lowlinks' \in [Seen -> Nat]
        /\ lowlinks'[Top.node] = Least(lowlinks[Top.node], indices[t])
        /\ \A m \in Seen : m # Top.node => lowlinks'[m] = lowlinks[m]
    BY <1>6, <2>1, <2>2
  <2>4. \A m \in Seen : lowlinks[m] \in Nat
    BY Shapes
  <2>5. \A m \in Seen : /\ lowlinks'[m] <= lowlinks[m]
                        /\ lowlinks'[m] # lowlinks[m] =>
                              t \in OnStack /\ lowlinks'[m] = indices[t]
    BY <2>1, <2>2, <2>3, <2>4
  <2>6. QED
    BY <1>0, <1>2, <1>3, <1>4, <1>5, <2>1, <2>2, <2>3, <2>5
<1>9. QED
  BY <1>7, <1>8

LEMMA BackKeeps ==
    ASSUME SearchInv, NEW t, Back(t) PROVE SearchInv'
<1>0. PICK k \in Nat : k = Len(frames)
  BY Shapes
<1>1. /\ frames # <<>> /\ t \in Top.rest /\ t \in Seen
      /\ UNCHANGED <<graph, todo, components, index, indices, stack>>
  BY DEF Back, Looks, Seen
<1>2. k \in Depth /\ Top.node = Gray(k) /\ Gray(k) \in OnStack
      /\ \A i \in Depth : i <= k /\ i \in Nat
  BY <1>0, <1>1, TopShape, Shapes DEF Depth
<1>3. Len(frames') = k
  BY <1>0, BackShape
<1>4. \A m \in Seen : lowlinks'[m] \in Nat /\ lowlinks[m] \in Nat /\ indices[m] \in Nat
  BY BackShape, Shapes
<1>5. Typed'
  BY <1>1, BackShape DEF SearchInv, Typed
<1>6. Numbered'
  <2>1. \A n \in Seen : lowlinks'[n] <= indices[n]
    BY <1>4, BackShape DEF SearchInv, Numbered
  <2>2. QED
    BY <1>1, <2>1, BackShape DEF SearchInv, Numbered
<1>7. Stacked'
  BY <1>1, BackShape DEF SearchInv, Stacked
<1>8. Covered'
  <2>1. \A y \in OnStack : Passed(y)' \subseteq Seen
    BY <1>1, BackShape DEF SearchInv, Covered
  <2>2. QED
    BY <1>1, <2>1, BackShape DEF SearchInv, Covered
<1>9. Woven'
  BY <1>1, BackShape DEF SearchInv, Woven
<1>10. Low'
  <2>1. ASSUME NEW i \in Depth
        PROVE  \E z \in OnStack : indices[z] = lowlinks'[Gray(i)] /\ Leads(graph, Gray(i), z)
    <3>1. Gray(i) \in Seen
      BY Shapes
    <3>2. CASE lowlinks'[Gray(i)] = lowlinks[Gray(i)]
      BY <3>2 DEF SearchInv, Low
    <3>3. CASE lowlinks'[Gray(i)] # lowlinks[Gray(i)]
      <4>1. t \in OnStack /\ lowlinks'[Gray(i)] = indices[t] /\ Gray(i) = Top.node
        BY <3>1, <3>3, BackShape
      <4>2. Leads(graph, Gray(i), t)
        BY <1>1, <4>1, OnwardShape, LeadsToTarget
      <4>3. QED
        BY <4>1, <4>2
    <3>4. QED
      BY <3>2, <3>3
  <2>2. ASSUME NEW i \in Depth, NEW y \in OnStack, indices[Gray(i)] <= indices[y],
               NEW z \in Passed(y)' \cap OnStack
        PROVE  \E j \in i..k :
                  indices[Gray(j)] <= indices[y] /\ lowlinks'[Gray(j)] <= indices[z]
    <3>1. CASE z \in Passed(y)
      <4>1. PICK j \in i..k : indices[Gray(j)] <= indices[y] /\ lowlinks[Gray(j)] <= indices[z]
        BY <1>0, <2>2, <3>1 DEF SearchInv, Low
      <4>2. j \in Depth
        BY <1>0, <1>2 DEF Depth
      <4>3. Gray(j) \in Seen /\ z \in Seen
        BY <4>2, Shapes
      <4>4. lowlinks'[Gray(j)] <= lowlinks[Gray(j)]
        BY <4>3, BackShape
      <4>5. lowlinks'[Gray(j)] <= indices[z]
        BY <1>4, <4>1, <4>3, <4>4
      <4>6. QED
        BY <4>1, <4>5
    <3>2. CASE z \notin Passed(y)
      <4>1. z = t /\ y = Top.node
        BY <2>2, <3>2, BackShape
      <4>2. lowlinks'[Gray(k)] <= indices[z]
        BY <1>2, <4>1, BackShape
      <4>3. indices[Gray(k)] <= indices[y] /\ k \in i..k
        BY <1>2, <1>4, <4>1, Shapes
      <4>4. QED
        BY <4>2, <4>3
    <3>3. QED
      BY <3>1, <3>2
  <2>3. \A i \in Depth : \A j \in i..k : Gray(j)' = Gray(j)
    BY <1>0, BackShape DEF Depth
  <2>4. Depth' = Depth /\ OnStack' = OnStack /\ graph' = graph /\ indices' = indices
        /\ \A i \in Depth : Gray(i)' = Gray(i)
    BY <1>1, BackShape
  <2>5. ASSUME NEW i \in Depth, NEW y \in OnStack, indices'[Gray(i)'] <= indices'[y]
        PROVE  \A z \in Passed(y)' \cap OnStack' : \E j \in i..Len(frames') :
                  indices'[Gray(j)'] <= indices'[y] /\ lowlinks'[Gray(j)'] <= indices'[z]
    BY <1>3, <2>2, <2>3, <2>4, <2>5
  <2>6. \A i \in Depth' : \E z \in OnStack' :
           indices'[z] = lowlinks'[Gray(i)'] /\ Leads(graph', Gray(i)', z)
    BY <2>1, <2>4
  <2>7. QED
    BY <2>4, <2>5, <2>6 DEF Low
<1>11. Classed'
  BY <1>1 DEF SearchInv, Classed
<1>12. QED
  BY <1>5, <1>6, <1>7, <1>8, <1>9, <1>10, <1>11 DEF SearchInv

-----------------------------------------------------------------------------
(* A visit ends *)

LEMMA ReturnShape ==
    ASSUME SearchInv, Return, NEW k, k = Len(frames)
    PROVE  /\ k \in Depth /\ Top.node = Gray(k) /\ Gray(k) \in OnStack /\ Gray(k) \in Seen
           /\ frames[k].rest = {} /\ k \in Nat /\ Depth = 1..k
           /\ frames' \in Seq(Frame) /\ Len(frames') = k - 1 /\ Depth' = 1..(k - 1)
           /\ \A i \in Depth' : i \in Depth /\ i < k /\ Gray(i)' = Gray(i) /\ frames'[i] = frames[i]
           /\ \A i \in Depth : i \in Depth' \/ i = k
           /\ \A y : Passed(y)' = Passed(y)
           /\ Seen' = Seen
           /\ UNCHANGED <<graph, todo, index, indices>>
<1>1. /\ frames # <<>> /\ Top.rest = {} /\ frames' = Below
      /\ UNCHANGED <<graph, todo, index, indices>>
  BY DEF Return
<1>2. /\ k \in Depth /\ k \in Nat /\ Depth = 1..k /\ Top = frames[k] /\ Top.node = Gray(k)
      /\ frames' \in Seq(Frame) /\ Len(frames') = k - 1
      /\ \A i \in 1..(k - 1) : frames'[i] = frames[i]
  BY <1>1, TopShape, Shapes DEF Depth
<1>3. Depth' = 1..(k - 1)
  BY <1>2 DEF Depth
<1>4. \A i \in Depth' : i \in Depth /\ i < k /\ Gray(i)' = Gray(i) /\ frames'[i] = frames[i]
  BY <1>2, <1>3 DEF Gray
<1>5. \A i \in Depth : i \in Depth' \/ i = k
  BY <1>2, <1>3
<1>6. ASSUME NEW y, NEW z PROVE z \in Passed(y)' <=> z \in Passed(y)
  BY <1>1, <1>2, <1>4, <1>5 DEF Passed
<1>7. \A y : Passed(y)' = Passed(y)
  <2> SUFFICES ASSUME NEW y PROVE Passed(y)' = Passed(y)
    OBVIOUS
  <2>1. Passed(y)' \subseteq Passed(y) /\ Passed(y) \subseteq Passed(y)'
    BY <1>6
  <2>2. QED
    BY <2>1
<1>8. Gray(k) \in OnStack /\ Gray(k) \in Seen /\ Seen' = Seen
  BY <1>1, <1>2, Shapes DEF Seen
<1>9. QED
  BY <1>1, <1>2, <1>3, <1>4, <1>5, <1>7, <1>8

(* What a visit returns to takes over its lowlink. *)
LEMMA ReturnLowers ==
    ASSUME SearchInv, Return, NEW k, k = Len(frames)
    PROVE  /\ lowlinks' \in [Seen -> Nat]
           /\ \A m \in Seen : lowlinks'[m] <= lowlinks[m]
           /\ k > 1 => /\ k - 1 \in Depth /\ lowlinks'[Gray(k - 1)] <= lowlinks[Gray(k)]
                       /\ lowlinks'[Gray(k - 1)] \in {lowlinks[Gray(k - 1)], lowlinks[Gray(k)]}
           /\ \A i \in Depth : i # k - 1 => lowlinks'[Gray(i)] = lowlinks[Gray(i)]
<1>1. /\ k \in Depth /\ k \in Nat /\ Depth = 1..k /\ Top.node = Gray(k) /\ Gray(k) \in Seen
      /\ frames # <<>>
  BY ReturnShape DEF Return
<1>2. /\ Below = <<>> <=> k = 1
      /\ Len(Below) = k - 1 /\ \A i \in 1..(k - 1) : Below[i] = frames[i]
  BY <1>1, TopShape
<1>3. lowlinks \in [Seen -> Nat] /\ \A m \in Seen : lowlinks[m] \in Nat
  BY Shapes DEF SearchInv, Typed
<1>4. CASE k = 1
  <2>1. lowlinks' = lowlinks
    BY <1>2, <1>4 DEF Return
  <2>2. QED
    BY <1>3, <1>4, <2>1
<1>5. CASE k # 1
  <2> DEFINE l == Least(lowlinks[Gray(k - 1)], lowlinks[Gray(k)])
  <2>1. k - 1 \in Depth /\ Gray(k - 1) \in Seen /\ Below[Len(Below)].node = Gray(k - 1)
    BY <1>1, <1>2, <1>5, Shapes DEF Gray
  <2>2. lowlinks' = [lowlinks EXCEPT ![Gray(k - 1)] = l]
    BY <1>1, <1>2, <1>5, <2>1 DEF Return
  <2>3. /\ l \in Nat /\ l <= lowlinks[Gray(k - 1)] /\ l <= lowlinks[Gray(k)]
        /\ l \in {lowlinks[Gray(k - 1)], lowlinks[Gray(k)]}
    BY <1>1, <1>3, <2>1 DEF Least
  <2> HIDE DEF l
  <2>4. /\ lowlinks' \in [Seen -> Nat] /\ lowlinks'[Gray(k - 1)] = l
        /\ \A m \in Seen : m # Gray(k - 1) => lowlinks'[m] = lowlinks[m]
    BY <1>3, <2>1, <2>2, <2>3
  <2>5. ASSUME NEW i \in Depth, i # k - 1 PROVE Gray(i) # Gray(k - 1) /\ Gray(i) \in Seen
    <3>1. /\ Gray(i) \in Seen /\ i \in Nat
          /\ indices[Gray(i)] \in Nat /\ indices[Gray(k - 1)] \in Nat
      BY <1>1, <2>1, Shapes
    <3>2. i < k - 1 => indices[Gray(i)] < indices[Gray(k - 1)]
      BY <2>1 DEF SearchInv, Stacked
    <3>3. k - 1 < i => indices[Gray(k - 1)] < indices[Gray(i)]
      BY <2>1 DEF SearchInv, Stacked
    <3>4. i < k - 1 \/ k - 1 < i
      BY <1>1, <2>5, <3>1
    <3>5. QED
      BY <3>1, <3>2, <3>3, <3>4
  <2>6. \A m \in Seen : lowlinks'[m] <= lowlinks[m]
    BY <1>3, <2>3, <2>4
  <2>7. QED
    BY <2>1, <2>3, <2>4, <2>5, <2>6
<1>6. QED
  BY <1>4, <1>5

LEMMA ReturnTyped ==
    ASSUME SearchInv, Return, stack' \in Seq(Names), components' \subseteq SUBSET Names
    PROVE  Typed' /\ Numbered'
<1>1. PICK k : k = Len(frames)
  OBVIOUS
<1>2. /\ frames' \in Seq(Frame) /\ Seen' = Seen /\ UNCHANGED <<graph, todo, index, indices>>
  BY <1>1, ReturnShape
<1>3. lowlinks' \in [Seen -> Nat] /\ \A m \in Seen : lowlinks'[m] <= lowlinks[m]
  BY <1>1, ReturnLowers
<1>4. Typed'
  BY <1>2, <1>3 DEF SearchInv, Typed
<1>5. \A m \in Seen : lowlinks'[m] <= indices[m]
  <2> SUFFICES ASSUME NEW m \in Seen PROVE lowlinks'[m] <= indices[m]
    OBVIOUS
  <2>1. /\ lowlinks'[m] \in Nat /\ lowlinks[m] \in Nat /\ indices[m] \in Nat
        /\ lowlinks'[m] <= lowlinks[m] /\ lowlinks[m] <= indices[m]
    BY <1>3, Shapes DEF SearchInv, Numbered
  <2>2. QED
    BY <2>1
<1>6. QED
  BY <1>2, <1>4, <1>5 DEF SearchInv, Numbered

(* Its lowlink is less than its index: it stays on the stack, with all it  *)
(* leads to above it.                                                      *)
LEMMA ReturnKeeps ==
    ASSUME SearchInv, Return, lowlinks[Top.node] # indices[Top.node]
    PROVE  SearchInv'
<1>0. PICK k : k = Len(frames)
  OBVIOUS
<1>1. /\ k \in Depth /\ Top.node = Gray(k) /\ Gray(k) \in OnStack /\ Gray(k) \in Seen
      /\ k \in Nat /\ Depth = 1..k /\ Len(frames') = k - 1 /\ Depth' = 1..(k - 1)
      /\ \A i \in Depth' : i \in Depth /\ i < k /\ Gray(i)' = Gray(i) /\ frames'[i] = frames[i]
      /\ \A i \in Depth : i \in Depth' \/ i = k
  BY <1>0, ReturnShape
<1>2. /\ UNCHANGED <<graph, todo, index, indices, stack, components>>
      /\ Seen' = Seen /\ OnStack' = OnStack /\ Done' = Done
      /\ \A y : Passed(y)' = Passed(y)
  BY <1>0, ReturnShape DEF Return, OnStack, Done
<1>3. \A m \in Seen : indices[m] \in Nat /\ lowlinks[m] \in Nat
  BY Shapes
<1>4. lowlinks[Gray(k)] < indices[Gray(k)]
  BY <1>1, <1>3 DEF SearchInv, Numbered
<1>5. PICK z \in OnStack : indices[z] = lowlinks[Gray(k)] /\ Leads(graph, Gray(k), z)
  BY <1>1 DEF SearchInv, Low
<1>6. PICK x \in Depth : indices[Gray(x)] <= indices[z] /\ Leads(graph, z, Gray(x))
  BY <1>5 DEF SearchInv, Woven
<1>7. Gray(x) \in Seen /\ z \in Seen
  BY <1>5, Shapes
<1>8. /\ indices[Gray(x)] < indices[Gray(k)] /\ x # k /\ x \in Depth'
      /\ Leads(graph, Gray(k), Gray(x))
  <2>1. indices[Gray(x)] < indices[Gray(k)]
    BY <1>1, <1>3, <1>4, <1>5, <1>6, <1>7
  <2>2. x # k
    BY <1>1, <1>3, <2>1
  <2>3. QED
    BY <1>1, <1>5, <1>6, <2>1, <2>2, LeadsOn
<1>9. /\ k > 1 /\ k - 1 \in Depth' /\ k - 1 \in Depth /\ k - 1 < k
      /\ indices[Gray(k - 1)] < indices[Gray(k)] /\ Gray(k - 1) \in Seen
  <2>1. k > 1 /\ k - 1 \in Depth' /\ k - 1 \in Depth /\ k - 1 < k
    BY <1>1, <1>8
  <2>2. QED
    BY <1>1, <2>1, Shapes DEF SearchInv, Stacked
<1>10. /\ lowlinks'[Gray(k - 1)] <= lowlinks[Gray(k)]
       /\ lowlinks'[Gray(k - 1)] \in {lowlinks[Gray(k - 1)], lowlinks[Gray(k)]}
       /\ \A i \in Depth : i # k - 1 => lowlinks'[Gray(i)] = lowlinks[Gray(i)]
       /\ \A m \in Seen : lowlinks'[m] <= lowlinks[m] /\ lowlinks'[m] \in Nat
  BY <1>0, <1>9, ReturnLowers
<1>11. Typed' /\ Numbered'
  BY <1>2, ReturnTyped DEF SearchInv, Typed
<1>12. Stacked'
  <2>1. Seen' = OnStack' \cup Done' /\ OnStack' \cap Done' = {}
    BY <1>2 DEF SearchInv, Stacked
  <2>2. \A i, j \in 1..Len(stack') : i < j => indices'[stack'[i]] < indices'[stack'[j]]
    BY <1>2 DEF SearchInv, Stacked
  <2>3. \A i \in Depth' : /\ Gray(i)' \in OnStack'
                          /\ frames'[i].rest \subseteq Targets(graph', Gray(i)')
    BY <1>1, <1>2 DEF SearchInv, Stacked
  <2>4. \A i, j \in Depth' : i < j => indices'[Gray(i)'] < indices'[Gray(j)']
    BY <1>1, <1>2 DEF SearchInv, Stacked
  <2>5. QED
    BY <2>1, <2>2, <2>3, <2>4 DEF Stacked
<1>13. Covered'
  BY <1>2 DEF SearchInv, Covered
<1>14. Woven'
  <2>1. ASSUME NEW y \in OnStack
        PROVE  \E i \in Depth' : indices[Gray(i)] <= indices[y] /\ Leads(graph, y, Gray(i))
    <3>1. PICK i \in Depth : indices[Gray(i)] <= indices[y] /\ Leads(graph, y, Gray(i))
      BY DEF SearchInv, Woven
    <3>2. CASE i \in Depth'
      BY <3>1, <3>2
    <3>3. CASE i = k
      <4>1. Leads(graph, y, Gray(x))
        BY <1>8, <3>1, <3>3, LeadsOn
      <4>2. indices[Gray(x)] <= indices[y]
        BY <1>1, <1>3, <1>7, <1>8, <3>1, <3>3, Shapes
      <4>3. QED
        BY <1>8, <4>1, <4>2
    <3>4. QED
      BY <1>1, <3>2, <3>3
  <2>2. \A i \in Depth', y \in OnStack :
           indices[Gray(i)] <= indices[y] => Leads(graph, Gray(i), y)
    BY <1>1 DEF SearchInv, Woven
  <2>3. \A i \in Depth' : Gray(i)' = Gray(i)
    BY <1>1
  <2>4. QED
    BY <1>2, <2>1, <2>2, <2>3 DEF Woven
<1>15. Low'
  <2>1. ASSUME NEW i \in Depth'
        PROVE  \E v \in OnStack : indices[v] = lowlinks'[Gray(i)] /\ Leads(graph, Gray(i), v)
    <3>1. i \in Depth
      BY <1>1
    <3>2. CASE lowlinks'[Gray(i)] = lowlinks[Gray(i)]
      BY <3>1, <3>2 DEF SearchInv, Low
    <3>3. CASE i = k - 1 /\ lowlinks'[Gray(i)] = lowlinks[Gray(k)]
      <4>1. indices[Gray(i)] <= indices[Gray(k)]
        BY <1>1, <1>3, <1>9, <3>3
      <4>2. Leads(graph, Gray(i), Gray(k))
        BY <1>1, <3>1, <4>1 DEF SearchInv, Woven
      <4>3. Leads(graph, Gray(i), z)
        BY <1>5, <4>2, LeadsOn
      <4>4. QED
        BY <1>5, <3>3, <4>3
    <3>4. QED
      BY <1>10, <3>1, <3>2, <3>3
  <2>2. ASSUME NEW i \in Depth', NEW y \in OnStack, indices[Gray(i)] <= indices[y],
               NEW v \in Passed(y) \cap OnStack
        PROVE  \E j \in i..(k - 1) :
                  indices[Gray(j)] <= indices[y] /\ lowlinks'[Gray(j)] <= indices[v]
    <3>1. PICK j \in i..k : indices[Gray(j)] <= indices[y] /\ lowlinks[Gray(j)] <= indices[v]
      BY <1>0, <1>1, <2>2 DEF SearchInv, Low
    <3>2. i \in Nat /\ i > 0 /\ i <= k - 1 /\ j \in Depth /\ j \in Nat /\ v \in Seen /\ y \in Seen
      BY <1>1, <3>1, Shapes
    <3>3. CASE j = k
      <4>1. lowlinks'[Gray(k - 1)] <= indices[v] /\ indices[Gray(k - 1)] <= indices[y]
        BY <1>1, <1>3, <1>9, <1>10, <3>1, <3>2, <3>3
      <4>2. k - 1 \in i..(k - 1)
        BY <1>1, <3>2
      <4>3. QED
        BY <4>1, <4>2
    <3>4. CASE j # k
      <4>1. j \in i..(k - 1)
        BY <1>1, <3>1, <3>2, <3>4
      <4>2. Gray(j) \in Seen
        BY <3>2, Shapes
      <4>3. lowlinks'[Gray(j)] <= indices[v]
        BY <1>3, <1>10, <3>1, <3>2, <4>2
      <4>4. QED
        BY <3>1, <4>1, <4>3
    <3>5. QED
      BY <3>3, <3>4
  <2>3. \A i \in Depth' : Gray(i)' = Gray(i) /\ \A j \in i..(k - 1) : Gray(j)' = Gray(j)
    BY <1>1
  <2>4. QED
    BY <1>1, <1>2, <2>1, <2>2, <2>3 DEF Low
<1>16. Classed'
  BY <1>2 DEF SearchInv, Classed
<1>17. QED
  BY <1>11, <1>12, <1>13, <1>14, <1>15, <1>16 DEF SearchInv

(* What the end of a visit takes off the stack *)
Popped == {y \in OnStack : indices[Top.node] <= indices[y]}

LEMMA PopShape ==
    ASSUME SearchInv, Return, lowlinks[Top.node] = indices[Top.node]
    PROVE  /\ stack' \in Seq(Names)
           /\ \A i \in 1..Len(stack') : i \in 1..Len(stack) /\ stack'[i] = stack[i]
           /\ OnStack' = OnStack \ Popped
           /\ components' = components \cup {Popped}
<1> DEFINE at == CHOOSE i \in 1..Len(stack) : stack[i] = Top.node
<1>1. /\ stack' = SubSeq(stack, 1, at - 1)
      /\ components' = components \cup {Set(SubSeq(stack, at, Len(stack)))}
  BY DEF Return, Pop
<1>2. at \in 1..Len(stack) /\ stack[at] = Top.node
  <2>1. Top.node \in OnStack
    BY TopShape, Shapes DEF Return
  <2>2. QED
    BY <2>1 DEF OnStack, Set
<1> HIDE DEF at
<1>3. PICK a \in 1..Len(stack) : a = at
  BY <1>2
<1>4. /\ Len(stack) \in Nat /\ stack \in Seq(Names) /\ a \in Nat /\ a > 0 /\ a <= Len(stack)
      /\ a - 1 \in 0..Len(stack)
  BY Shapes DEF SearchInv, Typed
<1>5. /\ stack' \in Seq(Names) /\ Len(stack') = a - 1
      /\ \A i \in 1..(a - 1) : stack'[i] = stack[i]
      /\ OnStack' = {stack[i] : i \in 1..(a - 1)}
  BY <1>1, <1>3, <1>4, FirstOf DEF OnStack
<1>6. components' = components \cup {{stack[i] : i \in a..Len(stack)}}
  BY <1>1, <1>3, <1>4, LastOf
<1>7. \A i \in 1..Len(stack) : stack[i] \in OnStack /\ indices[stack[i]] \in Nat
  BY Shapes
<1>8. ASSUME NEW i \in 1..Len(stack)
      PROVE  indices[Top.node] <= indices[stack[i]] <=> i \in a..Len(stack)
  <2>1. CASE i < a
    <3>1. indices[stack[i]] < indices[stack[a]]
      BY <2>1 DEF SearchInv, Stacked
    <3>2. QED
      BY <1>2, <1>3, <1>4, <1>7, <2>1, <3>1
  <2>2. CASE i = a
    BY <1>2, <1>3, <1>4, <1>7, <2>2
  <2>3. CASE a < i
    <3>1. indices[stack[a]] < indices[stack[i]]
      BY <2>3 DEF SearchInv, Stacked
    <3>2. QED
      BY <1>2, <1>3, <1>4, <1>7, <2>3, <3>1
  <2>4. QED
    BY <1>4, <2>1, <2>2, <2>3
<1>9. Popped = {stack[i] : i \in a..Len(stack)}
  <2>1. ASSUME NEW y \in Popped PROVE \E i \in a..Len(stack) : y = stack[i]
    <3>1. PICK i \in 1..Len(stack) : y = stack[i]
      BY DEF Popped, OnStack, Set
    <3>2. QED
      BY <1>8, <3>1 DEF Popped
  <2>2. ASSUME NEW i \in a..Len(stack) PROVE stack[i] \in Popped
    <3>1. i \in 1..Len(stack)
      BY <1>4
    <3>2. QED
      BY <1>7, <1>8, <3>1 DEF Popped
  <2>3. Popped \subseteq {stack[i] : i \in a..Len(stack)}
    BY <2>1
  <2>4. {stack[i] : i \in a..Len(stack)} \subseteq Popped
    BY <2>2
  <2>5. QED
    BY <2>3, <2>4
<1>10. OnStack' = OnStack \ Popped
  <2>1. ASSUME NEW y \in OnStack \ Popped PROVE \E i \in 1..(a - 1) : y = stack[i]
    <3>1. PICK i \in 1..Len(stack) : y = stack[i]
      BY DEF OnStack, Set
    <3>2. i \notin a..Len(stack)
      BY <1>8, <3>1 DEF Popped
    <3>3. QED
      BY <1>4, <3>1, <3>2
  <2>2. ASSUME NEW i \in 1..(a - 1) PROVE stack[i] \in OnStack \ Popped
    <3>1. i \in 1..Len(stack) /\ i \notin a..Len(stack)
      BY <1>4
    <3>2. QED
      BY <1>7, <1>8, <3>1 DEF Popped
  <2>3. OnStack \ Popped \subseteq OnStack'
    BY <1>5, <2>1
  <2>4. OnStack' \subseteq OnStack \ Popped
    BY <1>5, <2>2
  <2>5. QED
    BY <2>3, <2>4
<1>11. \A i \in 1..Len(stack') : i \in 1..Len(stack) /\ stack'[i] = stack[i]
  BY <1>4, <1>5
<1>12. QED
  BY <1>5, <1>6, <1>9, <1>10, <1>11

(* What is popped is a class: its edges end in it or in what was popped    *)
(* before.                                                                 *)
LEMMA PoppedIsClass ==
    ASSUME SearchInv, Return, lowlinks[Top.node] = indices[Top.node]
    PROVE  /\ Popped # {} /\ Popped \subseteq Names
           /\ \A n \in Popped : Popped = Class(graph, n)
           /\ Closed(graph, Popped \cup Done)
<1>0. PICK k : k = Len(frames)
  OBVIOUS
<1>1. /\ k \in Depth /\ Top.node = Gray(k) /\ Gray(k) \in OnStack /\ Gray(k) \in Seen
      /\ k \in Nat /\ Depth = 1..k /\ frames[k].rest = {}
  BY <1>0, ReturnShape
<1>2. \A m \in Seen : indices[m] \in Nat /\ lowlinks[m] \in Nat
  BY Shapes
<1>3. /\ Popped \subseteq OnStack /\ OnStack \subseteq Seen /\ Popped \subseteq Names
      /\ \A y \in Popped : indices[Gray(k)] <= indices[y]
  BY <1>1, Shapes DEF Popped
<1>4. Gray(k) \in Popped
  BY <1>1, <1>2 DEF Popped
<1>5. ASSUME NEW y \in Popped PROVE Targets(graph, y) \subseteq Popped \cup Done
  <2>1. ASSUME NEW i \in Depth, Gray(i) = y PROVE frames[i].rest = {}
    <3>1. i < k => indices[Gray(i)] < indices[Gray(k)]
      BY <1>1 DEF SearchInv, Stacked
    <3>2. i = k
      BY <1>1, <1>2, <1>3, <2>1, <3>1
    <3>3. QED
      BY <1>1, <3>2
  <2>2. Passed(y) = Targets(graph, y)
    BY <2>1 DEF Passed
  <2>3. Targets(graph, y) \subseteq OnStack \cup Done
    BY <1>3, <2>2 DEF SearchInv, Covered, Stacked
  <2>4. ASSUME NEW z \in Targets(graph, y), z \in OnStack PROVE z \in Popped
    <3>1. PICK j \in k..Len(frames) : lowlinks[Gray(j)] <= indices[z]
      BY <1>1, <1>3, <2>2, <2>4 DEF SearchInv, Low
    <3>2. j = k
      BY <1>0, <1>1
    <3>3. indices[Top.node] <= indices[z]
      BY <1>1, <3>1, <3>2
    <3>4. QED
      BY <2>4, <3>3 DEF Popped
  <2>5. QED
    BY <2>3, <2>4
<1>6. Closed(graph, Done)
  BY DEF SearchInv, Covered
<1>7. Closed(graph, Popped \cup Done)
  BY <1>5, <1>6 DEF Closed
<1>8. ASSUME NEW n \in Popped, NEW m \in Popped PROVE Leads(graph, n, m)
  <2>1. PICK i \in Depth : indices[Gray(i)] <= indices[n] /\ Leads(graph, n, Gray(i))
    BY <1>3 DEF SearchInv, Woven
  <2>2. indices[Gray(i)] <= indices[Gray(k)]
    BY <1>0, <1>1, TopShape DEF Return
  <2>3. Gray(i) \in Seen /\ m \in Seen
    BY <1>3, Shapes
  <2>4. indices[Gray(i)] <= indices[m]
    BY <1>1, <1>2, <1>3, <2>2, <2>3
  <2>5. Leads(graph, Gray(i), m)
    BY <1>3, <2>4 DEF SearchInv, Woven
  <2>6. QED
    BY <2>1, <2>5, LeadsOn
<1>9. /\ Popped \subseteq Nodes(graph) /\ Popped \cap Done = {}
      /\ Popped \in SUBSET Names /\ Done \in SUBSET Names
  BY <1>3, Shapes DEF SearchInv, Covered, Stacked
<1>10. \A n \in Popped : Popped = Class(graph, n)
  BY <1>6, <1>7, <1>8, <1>9, ClassByCut
<1>11. QED
  BY <1>3, <1>4, <1>7, <1>10

LEMMA PopKeeps ==
    ASSUME SearchInv, Return, lowlinks[Top.node] = indices[Top.node]
    PROVE  SearchInv'
<1>0. PICK k : k = Len(frames)
  OBVIOUS
<1>1. /\ k \in Depth /\ Top.node = Gray(k) /\ Gray(k) \in OnStack /\ Gray(k) \in Seen
      /\ k \in Nat /\ Depth = 1..k /\ Len(frames') = k - 1 /\ Depth' = 1..(k - 1)
      /\ \A i \in Depth' : i \in Depth /\ i < k /\ Gray(i)' = Gray(i) /\ frames'[i] = frames[i]
      /\ \A i \in Depth : i \in Depth' \/ i = k
  BY <1>0, ReturnShape
<1>2. /\ UNCHANGED <<graph, todo, index, indices>> /\ Seen' = Seen
      /\ \A y : Passed(y)' = Passed(y)
  BY <1>0, ReturnShape
<1>3. /\ stack' \in Seq(Names) /\ components' = components \cup {Popped}
      /\ \A i \in 1..Len(stack') : i \in 1..Len(stack) /\ stack'[i] = stack[i]
      /\ OnStack' = OnStack \ Popped
  BY PopShape
<1>4. /\ Popped # {} /\ Popped \subseteq Names /\ Popped \subseteq OnStack
      /\ \A n \in Popped : Popped = Class(graph, n)
      /\ Closed(graph, Popped \cup Done)
  BY PoppedIsClass DEF Popped
<1>5. \A m \in Seen : indices[m] \in Nat /\ lowlinks[m] \in Nat /\ lowlinks[m] <= indices[m]
  BY Shapes DEF SearchInv, Numbered
<1>6. Done' = Done \cup Popped
  BY <1>3 DEF Done
<1>7. ASSUME NEW i \in Depth' PROVE lowlinks'[Gray(i)] = lowlinks[Gray(i)]
  <2>1. i \in Depth /\ i < k /\ i \in Nat /\ i > 0 /\ Gray(i) \in Seen
    BY <1>1, Shapes
  <2>2. CASE i = k - 1
    <3>1. indices[Gray(i)] < indices[Gray(k)]
      BY <1>1, <2>1 DEF SearchInv, Stacked
    <3>2. /\ lowlinks'[Gray(k - 1)] <= lowlinks[Gray(k)]
          /\ lowlinks'[Gray(k - 1)] \in {lowlinks[Gray(k - 1)], lowlinks[Gray(k)]}
          /\ lowlinks'[Gray(i)] <= lowlinks[Gray(i)]
      <4>1. k > 1
        BY <1>1, <2>1, <2>2
      <4>2. QED
        BY <1>0, <2>1, <4>1, ReturnLowers
    <3>3. lowlinks[Gray(i)] < lowlinks[Gray(k)]
      BY <1>1, <1>5, <2>1, <3>1
    <3>4. QED
      BY <1>1, <1>5, <2>1, <2>2, <3>2, <3>3
  <2>3. CASE i # k - 1
    BY <1>0, <2>1, <2>3, ReturnLowers
  <2>4. QED
    BY <2>2, <2>3
<1>8. ASSUME NEW y \in OnStack
      PROVE  y \in OnStack' <=> indices[y] < indices[Gray(k)]
  <2>1. indices[y] \in Nat /\ indices[Gray(k)] \in Nat
    BY <1>1, Shapes
  <2>2. QED
    BY <1>1, <1>3, <2>1 DEF Popped
<1>9. \A y \in OnStack' : y \in OnStack /\ y \in Seen
  BY <1>3, Shapes
<1>10. Typed' /\ Numbered'
  <2>1. components' \subseteq SUBSET Names
    BY <1>3, <1>4 DEF SearchInv, Typed
  <2>2. QED
    BY <1>3, <2>1, ReturnTyped
<1>11. Stacked'
  <2>1. Seen' = OnStack' \cup Done' /\ OnStack' \cap Done' = {}
    BY <1>2, <1>3, <1>4, <1>6 DEF SearchInv, Stacked
  <2>2. \A i, j \in 1..Len(stack') : i < j => indices'[stack'[i]] < indices'[stack'[j]]
    BY <1>2, <1>3 DEF SearchInv, Stacked
  <2>3. \A i \in Depth' : /\ Gray(i)' \in OnStack'
                          /\ frames'[i].rest \subseteq Targets(graph', Gray(i)')
    <3> SUFFICES ASSUME NEW i \in Depth'
                 PROVE  Gray(i) \in OnStack' /\ frames[i].rest \subseteq Targets(graph, Gray(i))
      BY <1>1, <1>2
    <3>1. /\ i \in Depth /\ i < k /\ Gray(i) \in OnStack
          /\ frames[i].rest \subseteq Targets(graph, Gray(i))
          /\ indices[Gray(i)] < indices[Gray(k)]
      BY <1>1 DEF SearchInv, Stacked
    <3>2. QED
      BY <1>8, <3>1
  <2>4. \A i, j \in Depth' : i < j => indices'[Gray(i)'] < indices'[Gray(j)']
    BY <1>1, <1>2 DEF SearchInv, Stacked
  <2>5. QED
    BY <2>1, <2>2, <2>3, <2>4 DEF Stacked
<1>12. Covered'
  <2>1. \A y \in OnStack' : Passed(y)' \subseteq Seen'
    BY <1>2, <1>9 DEF SearchInv, Covered
  <2>2. Closed(graph', Done')
    <3>1. Done \cup Popped = Popped \cup Done
      OBVIOUS
    <3>2. QED
      BY <1>2, <1>4, <1>6, <3>1
  <2>3. QED
    BY <1>2, <2>1, <2>2 DEF SearchInv, Covered
<1>13. Woven'
  <2>1. \A i \in Depth', y \in OnStack' :
           indices[Gray(i)] <= indices[y] => Leads(graph, Gray(i), y)
    BY <1>1, <1>9 DEF SearchInv, Woven
  <2>2. ASSUME NEW y \in OnStack'
        PROVE  \E i \in Depth' : indices[Gray(i)] <= indices[y] /\ Leads(graph, y, Gray(i))
    <3>1. PICK i \in Depth : indices[Gray(i)] <= indices[y] /\ Leads(graph, y, Gray(i))
      BY <1>9 DEF SearchInv, Woven
    <3>2. indices[y] < indices[Gray(k)]
      BY <1>8, <1>9
    <3>3. i # k
      BY <1>1, <1>5, <1>9, <3>1, <3>2
    <3>4. QED
      BY <1>1, <3>1, <3>3
  <2>3. \A i \in Depth' : Gray(i)' = Gray(i)
    BY <1>1
  <2>4. QED
    BY <1>2, <2>1, <2>2, <2>3 DEF Woven
<1>14. Low'
  <2>1. ASSUME NEW i \in Depth'
        PROVE  \E z \in OnStack' : indices[z] = lowlinks'[Gray(i)] /\ Leads(graph, Gray(i), z)
    <3>1. i \in Depth /\ i < k /\ Gray(i) \in Seen
      BY <1>1, Shapes
    <3>2. PICK z \in OnStack : indices[z] = lowlinks[Gray(i)] /\ Leads(graph, Gray(i), z)
      BY <3>1 DEF SearchInv, Low
    <3>3. indices[Gray(i)] < indices[Gray(k)]
      BY <1>1, <3>1 DEF SearchInv, Stacked
    <3>4. indices[z] < indices[Gray(k)]
      BY <1>1, <1>5, <3>1, <3>2, <3>3
    <3>5. QED
      BY <1>7, <1>8, <3>2, <3>4
  <2>2. ASSUME NEW i \in Depth', NEW y \in OnStack', indices[Gray(i)] <= indices[y],
               NEW z \in Passed(y) \cap OnStack'
        PROVE  \E j \in i..(k - 1) :
                  indices[Gray(j)] <= indices[y] /\ lowlinks'[Gray(j)] <= indices[z]
    <3>1. PICK j \in i..k : indices[Gray(j)] <= indices[y] /\ lowlinks[Gray(j)] <= indices[z]
      BY <1>0, <1>1, <1>9, <2>2 DEF SearchInv, Low
    <3>2. indices[y] < indices[Gray(k)]
      BY <1>8, <1>9
    <3>3. j # k
      BY <1>1, <1>5, <1>9, <3>1, <3>2
    <3>4. j \in i..(k - 1) /\ j \in Depth'
      BY <1>1, <3>1, <3>3
    <3>5. QED
      BY <1>7, <3>1, <3>4
  <2>3. \A i \in Depth' : Gray(i)' = Gray(i) /\ \A j \in i..(k - 1) : Gray(j)' = Gray(j)
    BY <1>1
  <2>4. QED
    BY <1>1, <1>2, <2>1, <2>2, <2>3 DEF Low
<1>15. Classed'
  BY <1>2, <1>3, <1>4 DEF SearchInv, Classed
<1>16. QED
  BY <1>10, <1>11, <1>12, <1>13, <1>14, <1>15 DEF SearchInv

-----------------------------------------------------------------------------
(* The search with its mailbox *)

(* The graph that is searched: the one given, or with the mailbox in it *)
Mail ==
    /\ IsGraph(given)
    /\ cut = <<>> => graph = given
    /\ cut # <<>> => /\ cut \in Node \X Node \X Mailbox
                     /\ cut[2] \in Targets(given, cut[1])
                     /\ graph = Posted(given, cut[1], cut[2], cut[3])

Inv == SearchInv /\ Mail

LEMMA FreshSearchNext == (Fresh => SearchInv)'
BY FreshSearch, PTL

LEMMA InitInv == Init => Inv
<1> SUFFICES ASSUME Init PROVE Inv
  OBVIOUS
<1>1. IsGraph(graph)
  BY DEF Init, IsGraph, Names
<1>2. Fresh /\ Mail
  BY <1>1 DEF Init, Fresh, Mail
<1>3. QED
  BY <1>2, FreshSearch DEF Inv

LEMMA InsertMailboxKeeps ==
    ASSUME Inv, NEW s \in Node, NEW t \in Node, NEW box \in Mailbox,
           InsertMailbox(s, t, box)
    PROVE  Inv'
<1>1. /\ frames = <<>> /\ cut = <<>> /\ t \in Targets(graph, s) /\ graph = given
      /\ UNCHANGED <<frames, given>> /\ cut' = <<s, t, box>> /\ box \in Names
      /\ todo' = DOMAIN graph' /\ index' = 0 /\ indices' = <<>> /\ lowlinks' = <<>>
      /\ stack' = <<>> /\ components' = {}
  BY DEF InsertMailbox, Found, Inv, Mail, Names
<1>2. graph' = Posted(graph, s, t, box)
  BY DEF InsertMailbox, Mailed, Posted
<1>3. IsGraph(graph')
  BY <1>1, <1>2, PostedTargets DEF Inv, Mail
<1>4. Fresh'
  BY <1>1, <1>3 DEF Fresh
<1>5. Mail'
  BY <1>1, <1>2 DEF Inv, Mail
<1>6. QED
  BY <1>4, <1>5, FreshSearchNext DEF Inv

LEMMA NextInv == Inv /\ [Next]_vars => Inv'
<1> SUFFICES ASSUME Inv, [Next]_vars PROVE Inv'
  OBVIOUS
<1>1. SearchInv
  BY DEF Inv
<1>2. ASSUME NEW n \in Names, Root(n) PROVE Inv'
  <2>1. Mail'
    BY <1>2 DEF Root, Inv, Mail
  <2>2. QED
    BY <1>1, <1>2, <2>1, RootKeeps DEF Inv
<1>3. ASSUME NEW n \in Names, Deeper(n) PROVE Inv'
  <2>1. Mail'
    BY <1>3 DEF Deeper, Looks, Inv, Mail
  <2>2. QED
    BY <1>1, <1>3, <2>1, DeeperKeeps DEF Inv
<1>4. ASSUME NEW n \in Names, Back(n) PROVE Inv'
  <2>1. Mail'
    BY <1>4 DEF Back, Looks, Inv, Mail
  <2>2. QED
    BY <1>1, <1>4, <2>1, BackKeeps DEF Inv
<1>5. CASE Return
  <2>1. Mail'
    BY <1>5 DEF Return, Inv, Mail
  <2>2. SearchInv'
    BY <1>1, <1>5, ReturnKeeps, PopKeeps
  <2>3. QED
    BY <2>1, <2>2 DEF Inv
<1>6. ASSUME NEW s \in Node, NEW t \in Node, NEW box \in Mailbox, InsertMailbox(s, t, box)
      PROVE  Inv'
  BY <1>6, InsertMailboxKeeps
<1>7. CASE UNCHANGED vars
  <2>1. UNCHANGED <<graph, todo, frames, index, indices, lowlinks, stack, components, given, cut>>
    BY <1>7 DEF vars, search
  <2>2. /\ Seen' = Seen /\ OnStack' = OnStack /\ Done' = Done /\ Depth' = Depth
        /\ \A i : Gray(i)' = Gray(i)
        /\ \A y : Passed(y)' = Passed(y)
    BY <2>1 DEF Seen, OnStack, Done, Depth, Passed, Gray
  <2>3. Typed' /\ Covered' /\ Numbered' /\ Stacked' /\ Classed'
    BY <1>1, <2>1, <2>2 DEF SearchInv, Typed, Covered, Numbered, Stacked, Classed
  <2>4. Woven'
    BY <1>1, <2>1, <2>2 DEF SearchInv, Woven
  <2>5. Low'
    BY <1>1, <2>1, <2>2 DEF SearchInv, Low
  <2>6. Mail'
    BY <2>1 DEF Inv, Mail
  <2>7. QED
    BY <2>3, <2>4, <2>5, <2>6 DEF Inv, SearchInv
<1>8. CASE Finished
  BY <1>7, <1>8 DEF Finished
<1>9. QED
  BY <1>2, <1>3, <1>4, <1>5, <1>6, <1>7, <1>8 DEF Next

(* In every state of the search what it has numbered is what is on the     *)
(* stack and in components, no lowlink is above its index, and each visit  *)
(* under way is of a node on the stack.                                    *)
THEOREM SearchTypes == Spec => []TypeOK
<1>1. Inv => TypeOK
  <2> SUFFICES ASSUME Inv PROVE TypeOK
    OBVIOUS
  <2>1. /\ DOMAIN graph \subseteq Names /\ Nodes(graph) \subseteq Names
        /\ todo \subseteq DOMAIN graph
    BY DEF Inv, SearchInv, Typed, IsGraph, Nodes
  <2>2. \A i \in 1..Len(frames) : /\ frames[i].node \in Set(stack)
                                  /\ frames[i].rest \subseteq Names
    BY Shapes DEF Inv, Depth, Gray, OnStack
  <2>3. index = Cardinality(DOMAIN indices)
    BY DEF Inv, SearchInv, Numbered, Seen
  <2>4. DOMAIN indices = Set(stack) \cup UNION components
    BY DEF Inv, SearchInv, Stacked, Seen, OnStack, Done
  <2>5. DOMAIN lowlinks = DOMAIN indices
    BY DEF Inv, SearchInv, Typed, Seen
  <2>6. \A n \in DOMAIN indices : lowlinks[n] \in 0..indices[n]
    <3> SUFFICES ASSUME NEW n \in Seen PROVE lowlinks[n] \in 0..indices[n]
      BY DEF Seen
    <3>1. lowlinks[n] \in Nat /\ indices[n] \in Nat /\ lowlinks[n] <= indices[n]
      BY Shapes DEF Inv, SearchInv, Numbered
    <3>2. QED
      BY <3>1
  <2>7. cut \in {<<>>} \cup (Node \X Node \X Mailbox)
    BY DEF Inv, Mail
  <2>8. QED
    BY <2>1, <2>2, <2>3, <2>4, <2>5, <2>6, <2>7 DEF TypeOK
<1>2. QED
  BY <1>1, InitInv, NextInv, PTL DEF Spec

(* Of a search that has ended nothing is on the stack, and all nodes of    *)
(* the graph are in its components.                                        *)
LEMMA FoundAll ==
    ASSUME SearchInv, Found PROVE components = Classes(graph)
<1>1. OnStack = {}
  BY DEF SearchInv, Woven, Depth, Found
<1>2. Done = Nodes(graph)
  <2>1. DOMAIN graph \subseteq Done /\ Done \subseteq Nodes(graph)
    BY <1>1 DEF SearchInv, Stacked, Covered, Found
  <2>2. \A n \in DOMAIN graph : graph[n] \subseteq Done
    BY <2>1 DEF SearchInv, Covered, Closed, Targets
  <2>3. Nodes(graph) \subseteq Done
    BY <2>1, <2>2 DEF Nodes
  <2>4. QED
    BY <2>1, <2>3
<1>3. ASSUME NEW c \in components PROVE c \in Classes(graph)
  <2>1. PICK n \in c : c = Class(graph, n)
    BY DEF SearchInv, Classed
  <2>2. n \in Nodes(graph)
    BY <1>2, <2>1 DEF Done
  <2>3. QED
    BY <2>1, <2>2 DEF Classes
<1>4. ASSUME NEW n \in Nodes(graph) PROVE Class(graph, n) \in components
  <2>1. PICK c \in components : n \in c
    BY <1>2 DEF Done
  <2>2. QED
    BY <2>1 DEF SearchInv, Classed
<1>5. QED
  BY <1>3, <1>4 DEF Classes

(* The search finds the classes of nodes that lead to each other and       *)
(* nothing else, of any graph, in any order of its keys and targets.       *)
THEOREM SearchFindsClasses == Spec => []ComponentsAreClasses
<1>1. Inv => ComponentsAreClasses
  BY FoundAll DEF Inv, SearchInv, Classed, ComponentsAreClasses
<1>2. QED
  BY <1>1, InitInv, NextInv, PTL DEF Spec

(* A mailbox put on any edge of any graph, under any name, adds no         *)
(* prohibited cycle, is in none, and leaves both ends of the edge in one   *)
(* only if there is another way between them.                              *)
THEOREM MailboxTakesTheEdgeOut == Spec => []MailboxCuts
<1>1. Inv => MailboxCuts
  <2> SUFFICES ASSUME Inv, cut # <<>>, Found, NEW c \in Prohibited
               PROVE  /\ cut[3] \notin c
                      /\ \E d \in Classes(given) : c \subseteq d
                      /\ {cut[1], cut[2]} \subseteq c =>
                            Leads([given EXCEPT ![cut[1]] = @ \ {cut[2]}], cut[1], cut[2])
    BY DEF MailboxCuts
  <2>1. c \in Classes(graph) /\ Cardinality(c) > 1
    BY FoundAll DEF Prohibited, Inv
  <2>2. /\ IsGraph(given) /\ cut[2] \in Targets(given, cut[1]) /\ cut[3] \in Names
        /\ graph = Posted(given, cut[1], cut[2], cut[3])
    BY DEF Inv, Mail, Names
  <2>3. PICK s, t, box : s = cut[1] /\ t = cut[2] /\ box = cut[3]
    OBVIOUS
  <2>4. /\ box \notin c
        /\ \E d \in Classes(given) : c \subseteq d
        /\ {s, t} \subseteq c => Leads(Without(given, s, t), s, t)
    BY <2>1, <2>2, <2>3, PostedClasses
  <2>5. QED
    BY <2>3, <2>4 DEF Without
<1>2. QED
  BY <1>1, InitInv, NextInv, PTL DEF Spec

-----------------------------------------------------------------------------
(* The search comes to its end *)

(* The nodes whose visit is over *)
Over == {y \in Seen : \A i \in Depth : Gray(i) # y}

(* What is left to do, none of it more than the graph has: keys, nodes,    *)
(* edges, and ends of visits                                               *)
LeftOver == /\ todo \subseteq DOMAIN graph
            /\ Over \subseteq Seen /\ Seen \subseteq Nodes(graph)
            /\ \A y \in Seen : Passed(y) \subseteq Targets(graph, y)

(* A step that does some of it, and undoes nothing *)
Advances ==
    /\ graph' = graph
    /\ todo' \subseteq todo /\ Seen \subseteq Seen' /\ Over \subseteq Over'
    /\ \A y \in Seen : Passed(y) \subseteq Passed(y)'
    /\ \/ todo' # todo
       \/ Seen' # Seen
       \/ Over' # Over
       \/ \E y \in Seen : Passed(y)' # Passed(y)

LEMMA VisitAdvances ==
    ASSUME SearchInv, NEW n, NEW onto, Begins(n, onto) PROVE Advances
<1>1. graph' = graph /\ todo' \subseteq todo /\ n \notin Seen
  BY DEF Begins
<1>2. /\ Depth' = Depth \cup {Len(frames) + 1}
      /\ \A i \in Depth : Gray(i)' = Gray(i) /\ frames'[i].rest \subseteq frames[i].rest
      /\ frames'[Len(frames) + 1].node = n /\ Seen' = Seen \cup {n}
  BY VisitShape
<1>3. ASSUME NEW y \in Seen, NEW i \in Depth', Gray(i)' = y PROVE i \in Depth
  BY <1>1, <1>2, <1>3 DEF Gray
<1>4. Over \subseteq Over'
  BY <1>2, <1>3 DEF Over
<1>5. \A y \in Seen : Passed(y) \subseteq Passed(y)'
  BY <1>1, <1>2, <1>3 DEF Passed
<1>6. QED
  BY <1>1, <1>2, <1>4, <1>5 DEF Advances

LEMMA RootAdvances ==
    ASSUME SearchInv, NEW n, Root(n) PROVE Advances
<1>1. n \in todo /\ todo' = todo \ {n} /\ graph' = graph
  BY DEF Root
<1>2. CASE n \in DOMAIN indices
  <2>1. UNCHANGED <<frames, indices>>
    BY <1>2 DEF Root
  <2>2. Seen' = Seen /\ Over' = Over /\ \A y : Passed(y)' = Passed(y)
    BY <1>1, <2>1 DEF Seen, Over, Depth, Passed, Gray
  <2>3. QED
    BY <1>1, <2>2 DEF Advances
<1>3. CASE n \notin DOMAIN indices
  <2>1. /\ frames = <<>> /\ Visit(n, frames) /\ components' = components
        /\ n \in DOMAIN graph /\ DOMAIN graph \subseteq Names /\ frames \in Seq(Frame)
    BY <1>1, <1>3 DEF Root, SearchInv, Typed, IsGraph
  <2>2. Begins(n, frames)
    BY <1>1, <1>3, <2>1 DEF Begins, Seen, Nodes, Gray
  <2>3. QED
    BY <2>2, VisitAdvances
<1>4. QED
  BY <1>2, <1>3

LEMMA DeeperAdvances ==
    ASSUME SearchInv, NEW t, Deeper(t) PROVE Advances
<1>1. /\ frames # <<>> /\ t \in Top.rest /\ t \notin Seen /\ Visit(t, Onward(t))
      /\ graph' = graph /\ components' = components /\ todo' = todo
  BY DEF Deeper, Looks, Seen
<1>2. Begins(t, Onward(t))
  BY <1>1, OnwardShape DEF Begins
<1>3. QED
  BY <1>2, VisitAdvances

(* Of two visits under way none is of the other's node. *)
LEMMA GrayOnce ==
    ASSUME SearchInv, NEW i \in Depth, NEW j \in Depth, Gray(i) = Gray(j)
    PROVE  i = j
<1>1. i \in Nat /\ j \in Nat /\ indices[Gray(i)] \in Nat
  BY Shapes DEF Depth
<1>2. ~ (i < j) /\ ~ (j < i)
  BY <1>1 DEF SearchInv, Stacked
<1>3. QED
  BY <1>1, <1>2

LEMMA BackAdvances ==
    ASSUME SearchInv, NEW t, Back(t) PROVE Advances
<1>0. PICK k \in Nat : k = Len(frames)
  BY Shapes
<1>1. /\ frames # <<>> /\ t \in Top.rest /\ frames' = Onward(t)
      /\ graph' = graph /\ todo' = todo
  BY DEF Back, Looks
<1>2. /\ Depth' = Depth /\ Seen' = Seen
      /\ \A i \in Depth : Gray(i)' = Gray(i) /\ frames'[i].rest \subseteq frames[i].rest
  BY BackShape
<1>3. /\ k \in Depth /\ Top = frames[k] /\ Top.node = Gray(k) /\ Gray(k) \in Seen
      /\ frames'[k].rest = Top.rest \ {t} /\ t \in Targets(graph, Top.node)
  BY <1>0, <1>1, TopShape, OnwardShape, Shapes
<1>4. \A y \in Seen : Passed(y) \subseteq Passed(y)'
  BY <1>1, <1>2 DEF Passed
<1>5. Over' = Over
  BY <1>2 DEF Over
<1>6. t \notin Passed(Gray(k))
  BY <1>1, <1>3 DEF Passed
<1>7. t \in Passed(Gray(k))'
  <2>1. \A i \in Depth : Gray(i) = Gray(k) => t \notin frames'[i].rest
    BY <1>3, GrayOnce
  <2>2. Targets(graph', Gray(k)) = Targets(graph, Top.node)
    BY <1>1, <1>3
  <2>3. PICK r : r = Gray(k)
    OBVIOUS
  <2>4. t \in Passed(r)'
    BY <1>2, <1>3, <2>1, <2>2, <2>3 DEF Passed
  <2>5. Gray(k)' = r
    BY <1>2, <1>3, <2>3
  <2>6. QED
    BY <2>4, <2>5 DEF Passed
<1>8. PICK r \in Seen : r = Gray(k)
  BY <1>3
<1>9. t \in Passed(r)' /\ t \notin Passed(r)
  <2>1. Gray(k)' = r
    BY <1>2, <1>3, <1>8
  <2>2. QED
    BY <1>6, <1>7, <1>8, <2>1 DEF Passed
<1>10. QED
  BY <1>1, <1>2, <1>4, <1>5, <1>9 DEF Advances

LEMMA ReturnAdvances ==
    ASSUME SearchInv, Return PROVE Advances
<1>0. PICK k : k = Len(frames)
  OBVIOUS
<1>1. /\ k \in Depth /\ Gray(k) \in Seen
      /\ \A i \in Depth' : i \in Depth /\ i < k /\ Gray(i)' = Gray(i)
      /\ \A y : Passed(y)' = Passed(y)
      /\ Seen' = Seen /\ UNCHANGED <<graph, todo>> /\ k \in Nat
  BY <1>0, ReturnShape
<1>2. PICK r \in Seen : r = Gray(k)
  BY <1>1
<1>3. Over \subseteq Over'
  BY <1>1 DEF Over
<1>4. r \notin Over
  BY <1>1, <1>2 DEF Over
<1>5. \A i \in Depth' : Gray(i)' # r
  <2> SUFFICES ASSUME NEW i \in Depth', Gray(i)' = r PROVE FALSE
    OBVIOUS
  <2>1. i = k
    BY <1>1, <1>2, GrayOnce
  <2>2. QED
    BY <1>1, <2>1
<1>6. r \in Over'
  BY <1>1, <1>5 DEF Over
<1>7. QED
  BY <1>1, <1>3, <1>4, <1>6 DEF Advances

(* A search always ends: of the finite work that a finite graph is, each   *)
(* step up to the next mailbox does some, and none is done twice.          *)
THEOREM SearchOnlyAdvances ==
    Spec => [](LeftOver) /\ [][cut' = cut => Advances]_vars
<1>1. Inv => LeftOver
  BY DEF Inv, SearchInv, Typed, Covered, Passed, Over, LeftOver
<1>2. Inv /\ [Next]_vars => [cut' = cut => Advances]_vars
  <2> SUFFICES ASSUME SearchInv, Next, cut' = cut, ~ UNCHANGED vars PROVE Advances
    BY DEF Inv
  <2>1. ASSUME NEW s \in Node, NEW t \in Node, NEW box \in Mailbox,
               InsertMailbox(s, t, box)
        PROVE  FALSE
    BY <2>1 DEF InsertMailbox
  <2>2. QED
    BY <2>1, RootAdvances, DeeperAdvances, BackAdvances, ReturnAdvances
       DEF Next, Finished
<1>3. QED
  BY <1>1, <1>2, InitInv, NextInv, PTL DEF Spec

=============================================================================
