-------------------------------- MODULE LALR --------------------------------
(***************************************************************************)
(* The LALR(1) lookaheads of an LR(0) automaton by their definition: the   *)
(* least assignment of terminals to the items of the states that contains  *)
(* what may follow a predicted item and is kept by every transition.  It   *)
(* uses none of the relations the parser generator computes them with.     *)
(***************************************************************************)
EXTENDS GrammarReference

\* What n rounds of Grow make of nothing, n being the size of the set it grows in.
Grown(Grow, All) ==
  LET after[n \in 0 .. Cardinality(All)] == IF n = 0 THEN {} ELSE Grow[after[n - 1]]
  IN  after[Cardinality(All)]

\* A place is an item in a state.
Places(states) == UNION {{<<i, item>> : item \in states[i]} : i \in DOMAIN states}

AfterNext(gr, item) == Suffix(Rhs(gr, item), item.pos + 1)

\* The item stands for a rule of the symbol that an item of its state reads, and t
\* begins what comes after that symbol or, if that can be empty, follows the item
\* that reads it, which is in S.
Spontaneous(gr, states, begins, x) ==
  \E pre \in states[x[1]] : x[2] \in Predicted(gr, pre) /\ <<x[1], pre>> \in begins

Inherited(gr, states, passes, S, x) ==
  \E pre \in states[x[1]] :
    x[2] \in Predicted(gr, pre) /\ <<x[1], pre>> \in passes /\ <<x[1], pre>> \in S

\* A transition leads to the item from one of S.
Propagated(gr, states, transitions, S, x) ==
  \E e \in transitions :
    e[3] = x[1] /\ \E pre \in states[e[1]] :
                     Reads(gr, pre, e[2]) /\ x[2] = Step(pre) /\ <<e[1], pre>> \in S

\* The places that t may follow.
FollowedBy(gr, states, transitions, sets, t) ==
  LET all    == Places(states)
      begins == {x \in all : ~IsFinal(gr, x[2]) /\ t \in FirstOf(sets, AfterNext(gr, x[2]))}
      passes == {x \in all : ~IsFinal(gr, x[2]) /\ NullableSeq(sets, AfterNext(gr, x[2]))}
      grow   == [S \in SUBSET all |->
                   {x \in all : \/ x \in S
                                \/ Spontaneous(gr, states, begins, x)
                                \/ Inherited(gr, states, passes, S, x)
                                \/ Propagated(gr, states, transitions, S, x)}]
  IN  Grown(grow, all)

\* The pairs <<state, rule>> of the final items with their lookaheads.
LALRLookaheads(gr, states, transitions) ==
  LET sets  == TextbookSets(gr)
      final == {x \in Places(states) : IsFinal(gr, x[2])}
      L     == UNION {{<<x, t>> : x \in final \cap FollowedBy(gr, states, transitions, sets, t)} :
                        t \in TerminalsAndEnd(gr)}
  IN  [key \in {<<x[1], x[2].rule>> : x \in final} |->
         {l[2] : l \in {m \in L : m[1][1] = key[1] /\ m[1][2].rule = key[2]}}]

=============================================================================
