----------------------------- MODULE ProofChain -----------------------------
(***************************************************************************)
(* What the receipt log promises its readers: a hash-linked list of        *)
(* receipts that grows at its end only, and of which a machine failure may *)
(* take back nothing that a caller was told is recorded.                   *)
(***************************************************************************)
EXTENDS Naturals, Sequences

CONSTANTS Root,      \* the proof roots a receipt can have
          Genesis    \* the root the first receipt links to, no receipt's own

VARIABLES chain,     \* the receipts, oldest first
          reported   \* the roots whose append has returned to its caller

vars == <<chain, reported>>

TipOf(c) == IF c = <<>> THEN Genesis ELSE c[Len(c)].root

RootsOf(c) == {c[i].root : i \in 1..Len(c)}

Init == chain = <<>> /\ reported = {}

Extend(r) == /\ r \notin RootsOf(chain)
             /\ chain' = Append(chain, [prev |-> TipOf(chain), root |-> r])
             /\ UNCHANGED reported

Report(r) == /\ r \in RootsOf(chain)
             /\ reported' = reported \cup {r}
             /\ UNCHANGED chain

Lose(k) == /\ chain' = SubSeq(chain, 1, k)
           /\ reported \subseteq RootsOf(chain')
           /\ UNCHANGED reported

Next == \/ \E r \in Root : Extend(r) \/ Report(r)
        \/ \E k \in 0..Len(chain) : Lose(k)

Spec == Init /\ [][Next]_vars
=============================================================================
