----------------------------- MODULE MCDigraph -----------------------------
(***************************************************************************)
(* Relations for the run of Digraph; every node has a value of its own.    *)
(***************************************************************************)
EXTENDS Digraph, TLC

CONSTANTS x1, x2, x3, x4

MCNode == {x1, x2, x3, x4}

\* Every relation on three nodes, any of which may be without a key.
OnThree == UNION {[keys -> SUBSET {x1, x2, x3}] : keys \in SUBSET {x1, x2, x3}}

\* Every relation on four nodes with at most one node related to each.
Sparse == {R \in [Node -> SUBSET Node] : \A x \in Node : Cardinality(R[x]) <= 1}

\* A loop of two nodes with exits and entries.
PairAndMore ==
  {R \in [Node -> SUBSET Node] : /\ x2 \in R[x1] /\ x1 \in R[x2]
                                 /\ \A x \in Node : x \notin R[x]
                                 /\ \A x \in {x3, x4} : Cardinality(R[x]) <= 1}

MCRelations == OnThree \cup Sparse \cup PairAndMore

MCBases    == {[x \in Node |-> {x}]}
MCInfinity == 99

=============================================================================
