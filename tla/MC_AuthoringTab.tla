-------------------------- MODULE MC_AuthoringTab --------------------------
(* Instances of AuthoringTab for TLC: a seed of one artifact. *)
EXTENDS AuthoringTab, TLC

MCText == SUBSET Fact
MCSeed == [rev |-> 0, text |-> {[what |-> "made", of |-> 0, by |-> 0]}]

(* bound: clicks on Admin control *)
FewConnects ==
    Cardinality({r \in Request : req[r].kind = "GET" /\ req[r].at # "new"}) <= 2

Symmetry == Permutations(Tab) \cup Permutations(Request)
=============================================================================
