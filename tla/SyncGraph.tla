------------------------------ MODULE SyncGraph ------------------------------
(***************************************************************************)
(* The graph of synchronous calls that runtime_unification_v1.py           *)
(* qualifies: Tarjan's depth-first search for its strongly connected       *)
(* components, which visit() makes by recursion, and the mailbox that is   *)
(* put on an edge to take a cycle apart, after which the search is made    *)
(* again.                                                                  *)
(*                                                                         *)
(* The recursion is the sequence frames: the node of each visit under way  *)
(* and the targets its loop has not come to.  Lists of targets are sets,   *)
(* taken in any order.  on_stack holds the nodes of stack throughout.      *)
(***************************************************************************)
EXTENDS Naturals, Sequences, FiniteSets

CONSTANTS Node,      \* the nodes a graph may have
          Mailbox    \* the names a mailbox may be given, fresh or not

VARIABLES graph,       \* [node -> its targets], of the nodes that are keys
          todo,        \* the keys the outer loop has not come to
          frames,      \* the visits under way, the innermost last
          index, indices, lowlinks, stack,
          components,  \* the components found
          given,       \* the graph before the mailbox
          cut          \* the mailbox put in: <<>>, or source, target and name

search == <<todo, frames, index, indices, lowlinks, stack, components>>
vars == <<graph, search, given, cut>>

Names == Node \cup Mailbox
Set(seq) == {seq[i] : i \in 1..Len(seq)}
Least(m, n) == IF m < n THEN m ELSE n

Targets(g, n) == IF n \in DOMAIN g THEN g[n] ELSE {}
Nodes(g) == DOMAIN g \cup UNION {g[n] : n \in DOMAIN g}

TypeOK == /\ DOMAIN graph \subseteq Names /\ Nodes(graph) \subseteq Names
          /\ todo \subseteq DOMAIN graph
          /\ \A i \in 1..Len(frames) : /\ frames[i].node \in Set(stack)
                                      /\ frames[i].rest \subseteq Names
          /\ index = Cardinality(DOMAIN indices)
          /\ DOMAIN indices = Set(stack) \cup UNION components
          /\ DOMAIN lowlinks = DOMAIN indices
          /\ \A n \in DOMAIN indices : lowlinks[n] \in 0..indices[n]
          /\ cut \in {<<>>} \cup (Node \X Node \X Mailbox)

Init == /\ graph \in UNION {[keys -> SUBSET Node] : keys \in SUBSET Node}
        /\ todo = DOMAIN graph
        /\ frames = <<>> /\ index = 0 /\ indices = <<>> /\ lowlinks = <<>>
        /\ stack = <<>> /\ components = {}
        /\ given = graph /\ cut = <<>>

-----------------------------------------------------------------------------
(* strongly_connected_components *)

With(f, n, v) == [m \in DOMAIN f \cup {n} |-> IF m = n THEN v ELSE f[m]]

(* The visit of a node begins: its frame goes on those given. *)
Visit(n, onto) == /\ frames' = Append(onto, [node |-> n, rest |-> Targets(graph, n)])
                  /\ indices' = With(indices, n, index)
                  /\ lowlinks' = With(lowlinks, n, index)
                  /\ index' = index + 1
                  /\ stack' = Append(stack, n)

Root(n) == /\ frames = <<>> /\ n \in todo
           /\ todo' = todo \ {n}
           /\ IF n \in DOMAIN indices
              THEN UNCHANGED <<frames, indices, lowlinks, index, stack>>
              ELSE Visit(n, frames)
           /\ UNCHANGED <<graph, components, given, cut>>

Top == frames[Len(frames)]
Below == SubSeq(frames, 1, Len(frames) - 1)

(* The loop of the innermost visit comes to a target. *)
Looks(t) == /\ frames # <<>> /\ t \in Top.rest
            /\ UNCHANGED <<graph, todo, components, given, cut>>
Onward(t) == Append(Below, [Top EXCEPT !.rest = @ \ {t}])

Deeper(t) == /\ Looks(t) /\ t \notin DOMAIN indices
             /\ Visit(t, Onward(t))

(* Mutant: a target that was seen counts, on the stack or not. *)
BackSeen(t) == /\ Looks(t) /\ t \in DOMAIN indices
               /\ lowlinks' = [lowlinks EXCEPT ![Top.node] = Least(@, indices[t])]
               /\ frames' = Onward(t)
               /\ UNCHANGED <<index, indices, stack>>

Back(t) == /\ Looks(t) /\ t \in DOMAIN indices
           /\ lowlinks' = IF t \notin Set(stack) THEN lowlinks
                          ELSE [lowlinks EXCEPT ![Top.node] = Least(@, indices[t])]
           /\ frames' = Onward(t)
           /\ UNCHANGED <<index, indices, stack>>

(* Mutant: one node is popped where the loop pops down to the root. *)
PopOne == /\ stack' = SubSeq(stack, 1, Len(stack) - 1)
          /\ components' = components \cup {{Top.node}}

(* The root of a component and all above it come off the stack. *)
Pop == LET at == CHOOSE i \in 1..Len(stack) : stack[i] = Top.node
       IN  /\ stack' = SubSeq(stack, 1, at - 1)
           /\ components' = components \cup {Set(SubSeq(stack, at, Len(stack)))}

(* A visit ends, and the one it returns to takes its lowlink over. *)
Return == /\ frames # <<>> /\ Top.rest = {}
          /\ IF lowlinks[Top.node] = indices[Top.node] THEN Pop
                                                      ELSE UNCHANGED <<stack, components>>
          /\ frames' = Below
          /\ IF Below = <<>> THEN UNCHANGED lowlinks
             ELSE lowlinks' = [lowlinks EXCEPT ![Below[Len(Below)].node] =
                                                  Least(@, lowlinks[Top.node])]
          /\ UNCHANGED <<graph, todo, index, indices, given, cut>>

Found == todo = {} /\ frames = <<>>

-----------------------------------------------------------------------------
(* prohibited_synchronous_sccs: a node that calls itself is none. *)
Prohibited == {c \in components : Cardinality(c) > 1}

(* Mutant: the mailbox is put beside the target, not in its place. *)
MailedBeside(s, t, box) ==
    [n \in DOMAIN graph \cup {t, box} |->
        IF n = box THEN {}
        ELSE IF n = s THEN graph[s] \cup {box}
        ELSE Targets(graph, n)]

(* What insert_mailbox returns.  The mailbox has no targets, and what its  *)
(* name had before is gone.                                                *)
Mailed(s, t, box) ==
    [n \in DOMAIN graph \cup {t, box} |->
        IF n = box THEN {}
        ELSE IF n = s THEN (graph[s] \ {t}) \cup {box}
        ELSE Targets(graph, n)]

InsertMailbox(s, t, box) == /\ Found /\ cut = <<>>
                            /\ t \in Targets(graph, s)
                            /\ graph' = Mailed(s, t, box)
                            /\ cut' = <<s, t, box>>
                            /\ todo' = DOMAIN graph'
                            /\ index' = 0 /\ indices' = <<>> /\ lowlinks' = <<>>
                            /\ stack' = <<>> /\ components' = {}
                            /\ UNCHANGED <<frames, given>>

(* Nothing is left to do. *)
Finished == /\ Found
            /\ cut = <<>> => \A n \in DOMAIN graph : graph[n] = {}
            /\ UNCHANGED vars

Next == \/ \E n \in Names : Root(n) \/ Deeper(n) \/ Back(n)
        \/ Return
        \/ \E s, t \in Node, box \in Mailbox : InsertMailbox(s, t, box)
        \/ Finished

Spec == Init /\ [][Next]_vars

-----------------------------------------------------------------------------
(* n leads to m: every set that holds n and the targets of its nodes does. *)
Leads(g, n, m) ==
    \A S \in SUBSET Names :
       n \in S /\ (\A k \in S : Targets(g, k) \subseteq S) => m \in S

Class(g, n) == {m \in Nodes(g) : Leads(g, n, m) /\ Leads(g, m, n)}
Classes(g) == {Class(g, n) : n \in Nodes(g)}

(* Each component the search finds is a class of nodes that lead to each   *)
(* other, whatever the order of keys and targets, and in the end it has    *)
(* found them all, those that are targets only among them.                 *)
ComponentsAreClasses ==
    /\ \A c \in components : \E n \in c : c = Class(graph, n)
    /\ Found => components = Classes(graph)

(* A mailbox adds no prohibited cycle, whatever its name was before, and   *)
(* takes the edge out of those there were: a cycle that still holds both   *)
(* ends of the edge has another way from one to the other.                 *)
MailboxCuts ==
    cut # <<>> /\ Found =>
       LET source == cut[1]
           target == cut[2]
           without == [given EXCEPT ![source] = @ \ {target}]
       IN  \A c \in Prohibited :
              /\ cut[3] \notin c
              /\ \E d \in Classes(given) : c \subseteq d
              /\ {source, target} \subseteq c => Leads(without, source, target)
=============================================================================
