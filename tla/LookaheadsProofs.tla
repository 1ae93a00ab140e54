-------------------------- MODULE LookaheadsProofs --------------------------
(***************************************************************************)
(* Proofs about the relations and the lookaheads, for every grammar.       *)
(*                                                                         *)
(* First Includes::calculate() and Lookback::calculate(): what the walks   *)
(* back through the automaton find is there, and where no walk meets a     *)
(* state at two read positions they find all of it.  Then Read, Follow and *)
(* Lookahead, in every order digraph_algo() may work in: the lookaheads    *)
(* are those of LALR(1) by their definition, under the conditions of       *)
(* LookaheadsExact.  What empty() and first() answer on the way is proved  *)
(* in GrammarQueriesProofs.                                                *)
(***************************************************************************)
EXTENDS Lookaheads, AutomatonProofs, FlattenProofs, FiniteSetTheorems

-----------------------------------------------------------------------------
(* Numbers and sequences *)

LEMMA DownwardInduction ==
  ASSUME NEW P \in Nat, NEW T, P \in T, \A m \in 0 .. P - 1 : m + 1 \in T => m \in T
  PROVE  \A m \in 0 .. P : m \in T
<1>. DEFINE N == {n \in Nat : n <= P => P - n \in T}
<1>1. 0 \in N
  OBVIOUS
<1>2. ASSUME NEW n \in N PROVE n + 1 \in N
  <2>. SUFFICES ASSUME n + 1 <= P PROVE P - (n + 1) \in T
    OBVIOUS
  <2>1. P - (n + 1) \in 0 .. P - 1 /\ (P - (n + 1)) + 1 = P - n
    OBVIOUS
  <2>2. P - n \in T
    OBVIOUS
  <2>. QED  BY <2>1, <2>2
<1>3. N = Nat
  <2>. HIDE DEF N
  <2>0. N \subseteq Nat
    BY DEF N
  <2>. QED  BY <1>1, <1>2, <2>0, SetInduction
<1>. QED
  <2>. TAKE m \in 0 .. P
  <2>1. P - (P - m) = m /\ P - m <= P /\ P - m \in Nat
    OBVIOUS
  <2>2. P - m \in N
    <3>. HIDE DEF N
    <3>. QED  BY ONLY <1>3, <2>1
  <2>. QED  BY <2>1, <2>2

LEMMA HeadAndTail ==
  ASSUME NEW E, NEW q \in Seq(E), q # <<>>
  PROVE  Head(q) \in E /\ Tail(q) \in Seq(E) /\ ToSet(q) = {Head(q)} \cup ToSet(Tail(q))
<1>1. Len(q) \in Nat \ {0} /\ Len(Tail(q)) = Len(q) - 1 /\ DOMAIN q = 1 .. Len(q) /\ DOMAIN Tail(q) = 1 .. Len(q) - 1
  OBVIOUS
<1>2. Head(q) = q[1] /\ \A n \in 1 .. Len(q) - 1 : Tail(q)[n] = q[n + 1]
  OBVIOUS
<1>3. \A n \in 1 .. Len(q) : n = 1 \/ n - 1 \in 1 .. Len(q) - 1
  BY <1>1
<1>4. \A n \in 1 .. Len(q) - 1 : n + 1 \in 1 .. Len(q)
  BY <1>1
<1>5. ASSUME NEW n \in DOMAIN q PROVE q[n] \in {Head(q)} \cup ToSet(Tail(q))
  <2>1. CASE n = 1
    BY <1>2, <2>1
  <2>2. CASE n # 1
    <3>1. n - 1 \in DOMAIN Tail(q) /\ Tail(q)[n - 1] = q[n]
      BY <1>1, <1>2, <1>3, <2>2
    <3>. QED  BY <3>1 DEF ToSet
  <2>. QED  BY <2>1, <2>2
<1>6. ASSUME NEW n \in DOMAIN Tail(q) PROVE Tail(q)[n] \in ToSet(q)
  BY <1>1, <1>2, <1>4 DEF ToSet
<1>7. Head(q) \in ToSet(q)
  BY <1>1, <1>2 DEF ToSet
<1>8. ToSet(q) \subseteq {Head(q)} \cup ToSet(Tail(q))
  BY <1>5 DEF ToSet
<1>9. ToSet(Tail(q)) \subseteq ToSet(q)
  BY <1>6 DEF ToSet
<1>. QED  BY <1>7, <1>8, <1>9

LEMMA JoinedSet ==
  ASSUME NEW E, NEW p \in Seq(E), NEW q \in Seq(E)
  PROVE  p \o q \in Seq(E) /\ ToSet(p \o q) = ToSet(p) \cup ToSet(q)
<1>1. /\ DOMAIN p = 1 .. Len(p) /\ DOMAIN q = 1 .. Len(q) /\ DOMAIN (p \o q) = 1 .. Len(p) + Len(q)
      /\ Len(p) \in Nat /\ Len(q) \in Nat /\ p \o q \in Seq(E)
  OBVIOUS
<1>2. /\ \A n \in 1 .. Len(p) : (p \o q)[n] = p[n]
      /\ \A n \in 1 .. Len(q) : (p \o q)[Len(p) + n] = q[n]
  OBVIOUS
<1>3. ASSUME NEW n \in DOMAIN (p \o q) PROVE (p \o q)[n] \in ToSet(p) \cup ToSet(q)
  <2>1. CASE n \in 1 .. Len(p)
    BY <1>1, <1>2, <2>1 DEF ToSet
  <2>2. CASE n \notin 1 .. Len(p)
    <3>1. n - Len(p) \in 1 .. Len(q) /\ Len(p) + (n - Len(p)) = n
      BY <1>1, <2>2
    <3>2. (p \o q)[n] = q[n - Len(p)]
      BY <1>2, <3>1
    <3>. QED  BY <1>1, <3>1, <3>2 DEF ToSet
  <2>. QED  BY <2>1, <2>2
<1>4. ToSet(p) \subseteq ToSet(p \o q)
  <2>. SUFFICES ASSUME NEW n \in DOMAIN p PROVE p[n] \in ToSet(p \o q)
    BY DEF ToSet
  <2>1. n \in DOMAIN (p \o q) /\ (p \o q)[n] = p[n]
    BY <1>1, <1>2
  <2>. QED  BY <2>1 DEF ToSet
<1>5. ToSet(q) \subseteq ToSet(p \o q)
  <2>. SUFFICES ASSUME NEW n \in DOMAIN q PROVE q[n] \in ToSet(p \o q)
    BY DEF ToSet
  <2>1. Len(p) + n \in DOMAIN (p \o q) /\ (p \o q)[Len(p) + n] = q[n]
    BY <1>1, <1>2
  <2>. QED  BY <2>1 DEF ToSet
<1>6. ToSet(p \o q) \subseteq ToSet(p) \cup ToSet(q)
  BY <1>3 DEF ToSet
<1>. QED  BY <1>1, <1>4, <1>5, <1>6

\* The numbers up to a bound that satisfy a condition can be put in order.
LEMMA OrderExists ==
  ASSUME NEW N \in Nat, NEW S, S \subseteq 1 .. N
  PROVE  /\ IsFiniteSet(S)
         /\ \E seq \in [1 .. Cardinality(S) -> S] : \A m, n \in DOMAIN seq : m < n => seq[m] < seq[n]
<1>. DEFINE Orders(T) == \E seq \in [1 .. Cardinality(T) -> T] :
                           \A m, n \in 1 .. Cardinality(T) : m < n => seq[m] < seq[n]
            B == {b \in Nat : \A T \in SUBSET (1 .. b) : IsFiniteSet(T) /\ Orders(T)}
<1>1. 0 \in B
  <2>. SUFFICES ASSUME NEW T \in SUBSET (1 .. 0) PROVE IsFiniteSet(T) /\ Orders(T)
    OBVIOUS
  <2>1. T = {} /\ IsFiniteSet({}) /\ Cardinality({}) = 0
    BY FS_EmptySet
  <2>2. [n \in 1 .. 0 |-> n] \in [1 .. 0 -> {}]
    OBVIOUS
  <2>. QED  BY <2>1, <2>2
<1>2. ASSUME NEW b \in B PROVE b + 1 \in B
  <2>. SUFFICES ASSUME NEW T \in SUBSET (1 .. b + 1) PROVE IsFiniteSet(T) /\ Orders(T)
    OBVIOUS
  <2>1. T \ {b + 1} \in SUBSET (1 .. b) /\ b \in Nat
    OBVIOUS
  <2>. DEFINE U == T \ {b + 1}
              c == Cardinality(U)
  <2>2. IsFiniteSet(U) /\ Orders(U)
    BY <2>1
  <2>3. c \in Nat
    BY <2>2, FS_CardinalityType
  <2>4. CASE b + 1 \notin T
    <3>1. U = T
      BY <2>4
    <3>. QED  BY <2>2, <3>1
  <2>5. CASE b + 1 \in T
    <3>1. T = U \cup {b + 1} /\ b + 1 \notin U
      BY <2>5
    <3>2. IsFiniteSet(T) /\ Cardinality(T) = c + 1
      BY <2>2, <3>1, FS_AddElement
    <3>3. PICK seq \in [1 .. c -> U] : \A m, n \in 1 .. c : m < n => seq[m] < seq[n]
      BY <2>2
    <3>. DEFINE longer == [n \in 1 .. c + 1 |-> IF n = c + 1 THEN b + 1 ELSE seq[n]]
    <3>4. ASSUME NEW n \in 1 .. c PROVE longer[n] = seq[n] /\ seq[n] \in 1 .. b /\ seq[n] \in T
      <4>. HIDE DEF U, c
      <4>1. n \in 1 .. c + 1 /\ n # c + 1
        BY <2>3
      <4>2. seq[n] \in U
        BY <3>3
      <4>. QED  BY <2>1, <3>1, <4>1, <4>2
    <3>5. longer[c + 1] = b + 1
      BY <2>3
    <3>6. longer \in [1 .. c + 1 -> T]
      <4>. SUFFICES ASSUME NEW n \in 1 .. c + 1
                    PROVE  (IF n = c + 1 THEN b + 1 ELSE seq[n]) \in T
        OBVIOUS
      <4>1. n # c + 1 => n \in 1 .. c
        <5>. HIDE DEF c
        <5>. QED  BY <2>3
      <4>. QED  BY <2>5, <3>4, <4>1
    <3>7. ASSUME NEW m \in 1 .. c + 1, NEW n \in 1 .. c + 1, m < n PROVE longer[m] < longer[n]
      <4>1. m \in 1 .. c
        BY <2>3, <3>7
      <4>2. CASE n = c + 1
        <5>. HIDE DEF longer
        <5>1. longer[m] \in 1 .. b /\ longer[n] = b + 1
          BY <3>4, <3>5, <4>1, <4>2
        <5>. QED  BY <2>1, <5>1
      <4>3. CASE n # c + 1
        <5>1. n \in 1 .. c
          BY <2>3, <4>3
        <5>. HIDE DEF longer
        <5>. QED  BY <3>3, <3>4, <3>7, <4>1, <5>1
      <4>. QED  BY <4>2, <4>3
    <3>. HIDE DEF longer
    <3>. QED  BY <3>2, <3>6, <3>7
  <2>. QED  BY <2>4, <2>5
<1>3. B = Nat
  <2>. HIDE DEF B
  <2>0. B \subseteq Nat
    BY DEF B
  <2>. QED  BY <1>1, <1>2, <2>0, SetInduction
<1>4. N \in B
  <2>. HIDE DEF B
  <2>. QED  BY <1>3
<1>5. IsFiniteSet(S) /\ Orders(S)
  BY <1>4
<1>. QED  BY <1>5

LEMMA InOrderFacts ==
  ASSUME NEW N \in Nat, NEW S, S \subseteq 1 .. N
  PROVE  InOrder(S) \in Seq(S) /\ ToSet(InOrder(S)) = S
<1>. DEFINE c == Cardinality(S)
            seq == InOrder(S)
<1>0. IsFiniteSet(S)
  BY OrderExists
<1>1. IsFiniteSet(S) /\ c \in Nat /\ Cardinality(1 .. c) = c /\ IsFiniteSet(1 .. c)
  <2>1. c \in Nat
    BY <1>0, FS_CardinalityType
  <2>. HIDE DEF c
  <2>2. IsFiniteSet(1 .. c) /\ Cardinality(1 .. c) = IF 1 > c THEN 0 ELSE c - 1 + 1
    BY <2>1, FS_Interval
  <2>3. Cardinality(1 .. c) = c
    BY <2>1, <2>2
  <2>. QED  BY <1>0, <2>1, <2>2, <2>3
<1>2. PICK some \in [1 .. c -> S] : \A m, n \in DOMAIN some : m < n => some[m] < some[n]
  BY OrderExists
<1>3. ASSUME NEW m \in 1 .. c, NEW n \in 1 .. c, m # n PROVE some[m] # some[n]
  <2>1. some[m] \in 1 .. N /\ some[n] \in 1 .. N /\ (m < n \/ n < m)
    <3>. HIDE DEF c
    <3>1. some[m] \in S /\ some[n] \in S
      BY <1>2
    <3>2. m < n \/ n < m
      BY <1>1, <1>3
    <3>. QED  BY <3>1, <3>2
  <2>2. m \in DOMAIN some /\ n \in DOMAIN some
    BY <1>2
  <2>. QED  BY <1>2, <2>1, <2>2
<1>4. some \in SetToSeqs(S)
  BY <1>2, <1>3 DEF SetToSeqs
<1>5. seq \in SetToSeqs(S)
  BY <1>2, <1>4 DEF InOrder
<1>6. seq \in [1 .. c -> S] /\ \A m, n \in 1 .. c : m # n => seq[m] # seq[n]
  BY <1>5 DEF SetToSeqs
<1>. HIDE DEF seq
<1>7. seq \in Injection(1 .. c, S)
  BY <1>6 DEF Injection, IsInjective
<1>8. seq \in Surjection(1 .. c, S)
  <2>1. Cardinality(1 .. c) = Cardinality(S)
    BY <1>1
  <2>. HIDE DEF c
  <2>2. IsFiniteSet(S) /\ seq \in Injection(1 .. c, S)
    BY <1>1, <1>7
  <2>3. Cardinality(1 .. c) = Cardinality(S) <=> seq \in Surjection(1 .. c, S)
    BY ONLY <2>2, FS_Injection
  <2>. QED  BY <2>1, <2>3
<1>9. ToSet(seq) = S
  <2>. HIDE DEF c
  <2>1. \A x \in S : \E n \in 1 .. c : seq[n] = x
    BY <1>8 DEF Surjection
  <2>2. DOMAIN seq = 1 .. c /\ \A n \in 1 .. c : seq[n] \in S
    BY <1>6
  <2>. QED  BY <2>1, <2>2 DEF ToSet
<1>10. seq \in Seq(S)
  BY <1>1, <1>6
<1>. QED  BY <1>9, <1>10 DEF seq

-----------------------------------------------------------------------------
(* What empty() and first() answer *)

\* A module that is instantiated has operators of its own; those of the grammar
\* are the same as here.
Queries == INSTANCE GrammarQueriesProofs WITH
  firstTable  <- NoAnswers,
  followTable <- NoAnswers,
  exact       <- TextbookSets(g)

LEMMA SameGrammarOperators ==
  ASSUME NEW gr
  PROVE  /\ Queries!WellFormed(gr) = WellFormed(gr) /\ Queries!UsedSymbols(gr) = UsedSymbols(gr)
         /\ Queries!Nonterminals(gr) = Nonterminals(gr) /\ Queries!TerminalsAndEnd(gr) = TerminalsAndEnd(gr)
         /\ Queries!Nullable(gr) = Nullable(gr) /\ Queries!Tails(gr) = Tails(gr)
         /\ Queries!EmptyTables(gr) = EmptyTables(gr) /\ Queries!Depth(gr) = Depth(gr)
         /\ \A S : Queries!UsedOnce(gr, S) = UsedOnce(gr, S)
         /\ \A s : Queries!IsNonterminal(gr, s) = IsNonterminal(gr, s)
<1>1. Queries!WellFormed(gr) = WellFormed(gr)
  BY DEF Queries!WellFormed, WellFormed, Queries!Rule, Rule, Queries!Precedence, Precedence,
         Queries!NoPrecedence, NoPrecedence, Queries!NoMidrule, NoMidrule,
         Queries!StartSymbol, StartSymbol, Queries!EndSymbol, EndSymbol, Queries!StartRule, StartRule
<1>2. Queries!Nonterminals(gr) = Nonterminals(gr) /\ Queries!TerminalsAndEnd(gr) = TerminalsAndEnd(gr)
  BY DEF Queries!Nonterminals, Nonterminals, Queries!TerminalsAndEnd, TerminalsAndEnd,
         Queries!RuleIndex, RuleIndex, Queries!EndSymbol, EndSymbol
<1>3. Queries!UsedSymbols(gr) = UsedSymbols(gr)
  BY <1>2 DEF Queries!UsedSymbols, UsedSymbols, Queries!RuleIndex, RuleIndex
<1>4. Queries!Nullable(gr) = Nullable(gr)
  BY DEF Queries!Nullable, Nullable, Queries!Least, Least, Queries!Nonterminals, Nonterminals,
         Queries!RuleIndex, RuleIndex, Queries!AllIn, AllIn
<1>5. Queries!Tails(gr) = Tails(gr)
  BY DEF Queries!Tails, Tails, Queries!Suffix, Suffix, Queries!RuleIndex, RuleIndex
<1>6. Queries!EmptyTables(gr) = EmptyTables(gr)
  BY <1>3 DEF Queries!EmptyTables, EmptyTables
<1>7. Queries!Depth(gr) = Depth(gr)
  <2>1. \A S : Queries!Cardinality(S) = Cardinality(S)
    BY DEF Queries!Cardinality, Cardinality
  <2>. QED  BY <1>2, <2>1 DEF Queries!Depth, Depth
<1>8. \A S : Queries!UsedOnce(gr, S) = UsedOnce(gr, S)
  BY DEF Queries!UsedOnce, UsedOnce, Queries!RuleIndex, RuleIndex
<1>9. \A s : Queries!IsNonterminal(gr, s) = IsNonterminal(gr, s)
  BY DEF Queries!IsNonterminal, IsNonterminal, Queries!EndSymbol, EndSymbol
<1>. QED  BY <1>1, <1>2, <1>3, <1>4, <1>5, <1>6, <1>7, <1>8, <1>9

LEMMA SameEmptySequence ==
  \A call, seq, seen : Queries!EmptySequence(call, seq, seen) = EmptySequence(call, seq, seen)
BY DEF Queries!EmptySequence, EmptySequence, Queries!EmptyNext, EmptyNext

LEMMA SameEmptyRules ==
  \A gr, call, s, seen : Queries!EmptyRules(gr, call, s, seen) = EmptyRules(gr, call, s, seen)
BY DEF Queries!EmptyRules, EmptyRules, Queries!EmptyRule, EmptyRule,
       Queries!EmptySequence, EmptySequence, Queries!EmptyNext, EmptyNext

LEMMA SameEmptyCall ==
  ASSUME NEW gr
  PROVE  /\ \A table, call : Queries!EmptyCall(gr, table, call) = EmptyCall(gr, table, call)
         /\ Queries!NoEmptyCall(gr) = NoEmptyCall(gr)
<1>1. \A table, call, s, seen :
        Queries!EmptySymbol(gr, table, call, s, seen) = EmptySymbol(gr, table, call, s, seen)
  BY SameEmptyRules, SameGrammarOperators DEF Queries!EmptySymbol, EmptySymbol
<1>2. Queries!UsedSymbols(gr) = UsedSymbols(gr)
  BY SameGrammarOperators
<1>3. \A table, call : Queries!EmptyCall(gr, table, call) = EmptyCall(gr, table, call)
  BY <1>1, <1>2 DEF Queries!EmptyCall, EmptyCall
<1>. QED  BY <1>2, <1>3 DEF Queries!NoEmptyCall, NoEmptyCall

LEMMA SameEmpty ==
  ASSUME NEW gr, NEW table
  PROVE  /\ \A s : Queries!IsEmpty(gr, table, s) = IsEmpty(gr, table, s)
         /\ \A seq : Queries!IsEmptySeq(gr, table, seq) = IsEmptySeq(gr, table, seq)
<1>. DEFINE Here(calls)  == calls = [n \in 0 .. Depth(gr) |->
                              IF n = 0 THEN NoEmptyCall(gr) ELSE EmptyCall(gr, table, calls[n - 1])]
            There(calls) == calls = [n \in 0 .. Queries!Depth(gr) |->
                              IF n = 0 THEN Queries!NoEmptyCall(gr)
                              ELSE Queries!EmptyCall(gr, table, calls[n - 1])]
<1>0. /\ \A call : Queries!EmptyCall(gr, table, call) = EmptyCall(gr, table, call)
      /\ Queries!NoEmptyCall(gr) = NoEmptyCall(gr) /\ Queries!Depth(gr) = Depth(gr)
  BY SameEmptyCall, SameGrammarOperators
<1>1. \A calls : Here(calls) <=> There(calls)
  BY <1>0
<1>2. (CHOOSE calls : Here(calls)) = (CHOOSE calls : There(calls))
  <2>. HIDE DEF Here, There
  <2>. QED  BY <1>1
<1>3. Queries!EmptyCalls(gr, table) = EmptyCalls(gr, table)
  BY <1>2, SameGrammarOperators DEF Queries!EmptyCalls, EmptyCalls
<1>. QED  BY <1>3, SameEmptySequence DEF Queries!IsEmpty, IsEmpty, Queries!IsEmptySeq, IsEmptySeq

LEMMA SameFirstNext ==
  ASSUME NEW gr
  PROVE  \A call, s, before : Queries!FirstNext(gr, call, s, before) = FirstNext(gr, call, s, before)
<1>1. \A table, s, answer : Queries!Store(table, s, answer) = Store(table, s, answer)
  BY DEF Queries!Store, Store
<1>2. \A table, s : Queries!IsEmpty(gr, table, s) = IsEmpty(gr, table, s)
  BY SameEmpty
<1>. QED  BY <1>1, <1>2 DEF Queries!FirstNext, Queries!FirstPast, Queries!FirstAdd, FirstNext, FirstPast, FirstAdd

LEMMA SameFirstSequence ==
  ASSUME NEW gr, NEW call, NEW seq, NEW seen, NEW empty
  PROVE  Queries!FirstSequence(gr, call, seq, seen, empty) = FirstSequence(gr, call, seq, seen, empty)
<1>. DEFINE Here(after)  == after = [k \in 0 .. Len(seq) |->
                              IF k = 0 THEN [answer |-> {}, visited |-> seen, empty |-> empty, through |-> TRUE]
                              ELSE FirstNext(gr, call, seq[k], after[k - 1])]
            There(after) == after = [k \in 0 .. Len(seq) |->
                              IF k = 0 THEN [answer |-> {}, visited |-> seen, empty |-> empty, through |-> TRUE]
                              ELSE Queries!FirstNext(gr, call, seq[k], after[k - 1])]
<1>1. \A after : Here(after) <=> There(after)
  BY SameFirstNext
<1>2. (CHOOSE after : Here(after)) = (CHOOSE after : There(after))
  <2>. HIDE DEF Here, There
  <2>. QED  BY <1>1
<1>. QED  BY <1>2 DEF Queries!FirstSequence, FirstSequence

LEMMA SameFirstRules ==
  ASSUME NEW gr, NEW call, NEW s, NEW seen, NEW empty
  PROVE  Queries!FirstRules(gr, call, s, seen, empty) = FirstRules(gr, call, s, seen, empty)
<1>0. \A rule, before : Queries!FirstRule(gr, call, s, rule, before) = FirstRule(gr, call, s, rule, before)
  BY SameFirstSequence DEF Queries!FirstRule, Queries!FirstJoin, FirstRule, FirstJoin
<1>. DEFINE Here(after)  == after = [r \in 0 .. Len(gr.rules) |->
                              IF r = 0 THEN [answer |-> {}, visited |-> seen, empty |-> empty]
                              ELSE FirstRule(gr, call, s, gr.rules[r], after[r - 1])]
            There(after) == after = [r \in 0 .. Len(gr.rules) |->
                              IF r = 0 THEN [answer |-> {}, visited |-> seen, empty |-> empty]
                              ELSE Queries!FirstRule(gr, call, s, gr.rules[r], after[r - 1])]
<1>1. \A after : Here(after) <=> There(after)
  BY <1>0
<1>2. (CHOOSE after : Here(after)) = (CHOOSE after : There(after))
  <2>. HIDE DEF Here, There
  <2>. QED  BY <1>1
<1>. QED  BY <1>2 DEF Queries!FirstRules, FirstRules

LEMMA SameFirstCall ==
  ASSUME NEW gr
  PROVE  /\ \A table, call : Queries!FirstCall(gr, table, call) = FirstCall(gr, table, call)
         /\ Queries!NoCall(gr) = NoCall(gr)
<1>1. \A table, call, s, seen, empty :
        Queries!FirstSymbol(gr, table, call, s, seen, empty) = FirstSymbol(gr, table, call, s, seen, empty)
  BY SameFirstRules, SameGrammarOperators DEF Queries!FirstSymbol, FirstSymbol
<1>2. Queries!UsedSymbols(gr) = UsedSymbols(gr) /\ Queries!EmptyTables(gr) = EmptyTables(gr)
  BY SameGrammarOperators
<1>3. \A table, call : Queries!FirstCall(gr, table, call) = FirstCall(gr, table, call)
  BY <1>1, <1>2 DEF Queries!FirstCall, FirstCall
<1>. QED  BY <1>2, <1>3 DEF Queries!NoCall, NoCall

LEMMA SameFirst ==
  ASSUME NEW gr, NEW empty, NEW seq
  PROVE  Queries!FirstOfStored(gr, NoAnswers, empty, seq) = FirstOfSeq(gr, empty, seq)
<1>. DEFINE Here(calls)  == calls = [n \in 0 .. Depth(gr) |->
                              IF n = 0 THEN NoCall(gr) ELSE FirstCall(gr, NoAnswers, calls[n - 1])]
            There(calls) == calls = [n \in 0 .. Queries!Depth(gr) |->
                              IF n = 0 THEN Queries!NoCall(gr)
                              ELSE Queries!FirstCall(gr, NoAnswers, calls[n - 1])]
<1>0. /\ \A call : Queries!FirstCall(gr, NoAnswers, call) = FirstCall(gr, NoAnswers, call)
      /\ Queries!NoCall(gr) = NoCall(gr) /\ Queries!Depth(gr) = Depth(gr)
  BY SameFirstCall, SameGrammarOperators
<1>1. \A calls : Here(calls) <=> There(calls)
  BY <1>0
<1>2. (CHOOSE calls : Here(calls)) = (CHOOSE calls : There(calls))
  <2>. HIDE DEF Here, There
  <2>. QED  BY <1>1
<1>3. Queries!FirstCalls(gr, NoAnswers) = FirstCalls(gr, NoAnswers)
  BY <1>2, SameGrammarOperators DEF Queries!FirstCalls, FirstCalls
<1>. QED  BY <1>3, SameFirstSequence DEF Queries!FirstOfStored, FirstOfStored, FirstOfSeq

LEMMA SameTextbook ==
  ASSUME NEW gr
  PROVE  \A seq : Queries!FirstOf(Queries!TextbookSets(gr), seq) = FirstOf(TextbookSets(gr), seq)
<1>1. Queries!TextbookSets(gr).nullable = TextbookSets(gr).nullable
  BY SameGrammarOperators DEF Queries!TextbookSets, TextbookSets
<1>2. \A t : Queries!Beginning(gr, Nullable(gr), t) = Beginning(gr, Nullable(gr), t)
  BY DEF Queries!Beginning, Beginning, Queries!Least, Least, Queries!Begins, Begins,
         Queries!Nonterminals, Nonterminals, Queries!RuleIndex, RuleIndex
<1>3. Queries!TextbookSets(gr).first = TextbookSets(gr).first
  <2>1. /\ Queries!Nullable(gr) = Nullable(gr) /\ Queries!UsedSymbols(gr) = UsedSymbols(gr)
        /\ Queries!TerminalsAndEnd(gr) = TerminalsAndEnd(gr)
    BY SameGrammarOperators
  <2>. QED  BY <1>2, <2>1 DEF Queries!TextbookSets, TextbookSets
<1>. QED  BY <1>1, <1>3 DEF Queries!FirstOf, FirstOf

\* The answers of empty() that are stored are right where they say yes or, if no
\* symbol that can be empty is used twice, wherever.
TableFits(gr, table) ==
  /\ table \in EmptyTables(gr) /\ table.yes \subseteq Nullable(gr) /\ table.yes \cap table.no = {}
  /\ UsedOnce(gr, Nullable(gr)) /\ DefinesNoTerminal(gr) => table.no \cap Nullable(gr) = {}

LEMMA NothingFits == \A gr : TableFits(gr, NothingStored)
BY DEF TableFits, NothingStored, EmptyTables

LEMMA TailOfUsed ==
  ASSUME NEW gr, WellFormed(gr), NEW seq \in Tails(gr)
  PROVE  seq \in Seq(UsedSymbols(gr))
BY SameGrammarOperators, GrammarsAssumption, Queries!TailSymbols

\* empty() of a tail of a rule.
LEMMA EmptyOfTail ==
  ASSUME NEW gr, WellFormed(gr), NEW table, TableFits(gr, table), NEW seq \in Tails(gr)
  PROVE  /\ IsEmptySeq(gr, table, seq) => AllIn(seq, Nullable(gr))
         /\ UsedOnce(gr, Nullable(gr)) /\ DefinesNoTerminal(gr) /\ AllIn(seq, Nullable(gr))
              => IsEmptySeq(gr, table, seq)
<1>0. \A S : Queries!AllIn(seq, S) <=> AllIn(seq, S)
  BY DEF Queries!AllIn, AllIn
<1>1. /\ Queries!WellFormed(gr) /\ table \in Queries!EmptyTables(gr) /\ table.yes \subseteq Queries!Nullable(gr)
      /\ seq \in Queries!Tails(gr) /\ \A other \in Grammars : Queries!WellFormed(other)
      /\ seq \in Seq(Queries!UsedSymbols(gr))
  BY SameGrammarOperators, TailOfUsed, GrammarsAssumption DEF TableFits
<1>2. Queries!IsEmptySeq(gr, table, seq) => Queries!AllIn(seq, Queries!Nullable(gr))
  BY <1>1, Queries!EmptyIsSound
<1>3. ASSUME UsedOnce(gr, Nullable(gr)), DefinesNoTerminal(gr)
      PROVE  Queries!IsEmptySeq(gr, table, seq) <=> Queries!AllIn(seq, Queries!Nullable(gr))
  <2>1. Queries!UsedOnce(gr, Queries!Nullable(gr)) /\ Queries!DefinesNoTerminal(gr)
    BY <1>3, SameGrammarOperators DEF Queries!DefinesNoTerminal, DefinesNoTerminal
  <2>2. Queries!RightTable(gr, TRUE, table)
    BY <1>1, <1>3, SameGrammarOperators DEF Queries!RightTable, TableFits
  <2>. QED  BY <1>1, <2>1, <2>2, Queries!EmptyIsExact
<1>4. Queries!IsEmptySeq(gr, table, seq) = IsEmptySeq(gr, table, seq) /\ Queries!Nullable(gr) = Nullable(gr)
  BY SameEmpty, SameGrammarOperators
<1>. QED  BY <1>0, <1>2, <1>3, <1>4

\* first() of a tail of a rule, and the table of empty() after it.
LEMMA FirstOfTailIsRight ==
  ASSUME NEW gr, WellFormed(gr), NEW table, TableFits(gr, table), NEW seq \in Tails(gr)
  PROVE  LET first == FirstOfSeq(gr, table, seq)
         IN  /\ first.answer \subseteq FirstOf(TextbookSets(gr), seq) /\ TableFits(gr, first.empty)
             /\ UsedOnce(gr, Nullable(gr)) /\ DefinesNoTerminal(gr)
                  => first.answer = FirstOf(TextbookSets(gr), seq)
<1>. DEFINE all   == UsedOnce(gr, Nullable(gr)) /\ DefinesNoTerminal(gr)
            first == FirstOfSeq(gr, table, seq)
<1>1. /\ Queries!WellFormed(gr) /\ seq \in Seq(Queries!UsedSymbols(gr))
      /\ \A other \in Grammars : Queries!WellFormed(other)
  BY SameGrammarOperators, TailOfUsed, GrammarsAssumption
<1>2. Queries!Allows(gr, all)
  BY SameGrammarOperators DEF Queries!Allows, Queries!DefinesNoTerminal, DefinesNoTerminal
<1>3. Queries!Grown(gr, all, table, table)
  BY SameGrammarOperators DEF TableFits, Queries!Grown, Queries!RightTable
<1>4. Queries!RightFirst(gr, all, NoAnswers)
  <2>1. DOMAIN NoAnswers = {}
    BY DEF NoAnswers
  <2>. QED  BY <2>1 DEF Queries!RightFirst, Queries!IsTable
<1>5. Queries!FirstOfStored(gr, NoAnswers, table, seq) = first
  BY SameFirst
<1>6. Queries!Starting(gr, seq, Len(seq)) = FirstOf(TextbookSets(gr), seq)
  BY <1>1, SameTextbook, Queries!StartingIsFirstOf
<1>. HIDE DEF first, all
<1>7. /\ Queries!Grown(gr, all, table, first.empty) /\ first.answer \subseteq FirstOf(TextbookSets(gr), seq)
      /\ all => first.answer = FirstOf(TextbookSets(gr), seq)
  <2>. DEFINE x == Queries!FirstOfStored(gr, NoAnswers, table, seq)
  <2>1. /\ x \in Queries!BeginResult(gr) /\ Queries!Grown(gr, all, table, x.empty)
        /\ x.answer \subseteq Queries!Starting(gr, seq, Len(seq))
        /\ all => x.answer = Queries!Starting(gr, seq, Len(seq))
    BY <1>1, <1>2, <1>3, <1>4, Queries!FirstOfStoredIsRight
  <2>2. x = first
    BY <1>5
  <2>. HIDE DEF x
  <2>. QED  BY <1>6, <2>1, <2>2
<1>8. TableFits(gr, first.empty)
  BY <1>7, SameGrammarOperators DEF TableFits, Queries!Grown, Queries!RightTable, all
<1>. QED  BY <1>7, <1>8 DEF first, all

LEMMA FittingDefinesNone ==
  ASSUME NEW gr, GrammarFits(gr) PROVE DefinesNoTerminal(gr)
BY DEF GrammarFits, DefinesNoTerminal, Nonterminals, TerminalsAndEnd, RuleIndex

-----------------------------------------------------------------------------
(* The way back over the symbols of a right-hand side *)

\* get_back_transitions() of the transitions tr.
Before(tr, k, s) == {e[1] : e \in {t \in tr : t[2] = s /\ t[3] = k}}

\* from[m] are the states from which the symbols of rhs between m and P lead to i.
WayFrom(o, from, tr, rhs, i, P) ==
  from = [m \in o .. P |-> IF m = P THEN {i} ELSE UNION {Before(tr, k, rhs[m + 1]) : k \in from[m + 1]}]

IsWay(from, tr, rhs, i, P) == WayFrom(0, from, tr, rhs, i, P)

LEMMA OneStepLonger ==
  ASSUME NEW tr, NEW rhs, NEW i, NEW P \in Nat, NEW o \in Nat, o < P,
         NEW f, WayFrom(o + 1, f, tr, rhs, i, P)
  PROVE  \E from : WayFrom(o, from, tr, rhs, i, P)
<1>. DEFINE U(from, m) == IF m = P THEN {i} ELSE UNION {Before(tr, k, rhs[m + 1]) : k \in from[m + 1]}
            h == [m \in o .. P |-> IF m = o THEN U(f, o) ELSE f[m]]
<1>1. \A m \in o + 1 .. P : m \in o .. P /\ m # o /\ m \in Int
  OBVIOUS
<1>2. \A m \in o + 1 .. P : h[m] = f[m]
  BY <1>1
<1>3. ASSUME NEW m \in o .. P, m # P PROVE h[m + 1] = f[m + 1]
  <2>1. m + 1 \in o + 1 .. P
    <3>. HIDE DEF h
    <3>. QED  BY <1>3
  <2>. QED  BY <1>2, <2>1
<1>4. \A m \in o .. P : U(h, m) = U(f, m)
  <2>. HIDE DEF h
  <2>. QED  BY <1>3
<1>5. ASSUME NEW m \in o .. P PROVE h[m] = U(h, m)
  <2>1. CASE m = o
    <3>1. h[m] = U(f, m)
      BY <2>1
    <3>. QED  BY <1>4, <3>1
  <2>2. CASE m # o
    <3>1. m \in o + 1 .. P
      <4>. HIDE DEF h
      <4>. QED  BY <2>2
    <3>2. h[m] = f[m]
      BY <1>2, <3>1
    <3>3. f[m] = U(f, m)
      <4>1. f = [n \in o + 1 .. P |-> U(f, n)]
        BY DEF WayFrom
      <4>. HIDE DEF h, U
      <4>. QED  BY <3>1, <4>1
    <3>. QED  BY <1>4, <3>2, <3>3
  <2>. QED  BY <2>1, <2>2
<1>6. h = [m \in o .. P |-> h[m]]
  OBVIOUS
<1>7. h = [m \in o .. P |-> U(h, m)]
  <2>. HIDE DEF h, U
  <2>. QED  BY <1>5, <1>6
<1>8. WayFrom(o, h, tr, rhs, i, P)
  <2>. HIDE DEF h
  <2>. QED  BY <1>7 DEF WayFrom
<1>. QED  BY <1>8

LEMMA WayExists ==
  ASSUME NEW tr, NEW rhs, NEW i, NEW P \in Nat
  PROVE  \E from : IsWay(from, tr, rhs, i, P)
<1>. DEFINE C == {n \in Nat : n <= P => \E from : WayFrom(P - n, from, tr, rhs, i, P)}
<1>1. 0 \in C
  <2>. DEFINE f == [m \in P .. P |-> {i}]
  <2>1. \A m \in P .. P : m = P
    OBVIOUS
  <2>2. WayFrom(P, f, tr, rhs, i, P)
    BY <2>1 DEF WayFrom
  <2>3. P - 0 = P
    OBVIOUS
  <2>. QED  BY <2>2, <2>3
<1>2. ASSUME NEW n \in C PROVE n + 1 \in C
  <2>1. n \in Nat /\ n + 1 \in Nat
    OBVIOUS
  <2>. SUFFICES ASSUME n + 1 <= P PROVE \E from : WayFrom(P - (n + 1), from, tr, rhs, i, P)
    BY <2>1
  <2>2. PICK f : WayFrom(P - n, f, tr, rhs, i, P)
    OBVIOUS
  <2>3. P - (n + 1) \in Nat /\ P - (n + 1) < P /\ (P - (n + 1)) + 1 = P - n
    BY <2>1
  <2>. QED  BY <2>2, <2>3, OneStepLonger
<1>3. C = Nat
  <2>. HIDE DEF C
  <2>0. C \subseteq Nat
    BY DEF C
  <2>. QED  BY <1>1, <1>2, <2>0, SetInduction
<1>4. P \in C
  <2>. HIDE DEF C
  <2>. QED  BY <1>3
<1>5. P - P = 0 /\ P <= P
  OBVIOUS
<1>. QED  BY <1>4, <1>5 DEF IsWay

LeadsOn(from, tr, rhs, m, k) ==
  k \in from[m] <=> \E b \in from[m + 1] : k \in Before(tr, b, rhs[m + 1])

LEMMA WayFacts ==
  ASSUME NEW tr, NEW rhs, NEW i, NEW P \in Nat, NEW from, IsWay(from, tr, rhs, i, P)
  PROVE  from[P] = {i} /\ \A m \in 0 .. P - 1 : \A k : LeadsOn(from, tr, rhs, m, k)
<1>1. ASSUME NEW m \in 0 .. P
      PROVE  from[m] = IF m = P THEN {i} ELSE UNION {Before(tr, k, rhs[m + 1]) : k \in from[m + 1]}
  BY DEF IsWay, WayFrom
<1>2. P \in 0 .. P /\ \A m \in 0 .. P - 1 : m \in 0 .. P /\ m # P
  OBVIOUS
<1>3. ASSUME NEW m \in 0 .. P - 1
      PROVE  from[m] = UNION {Before(tr, k, rhs[m + 1]) : k \in from[m + 1]}
  BY <1>1, <1>2
<1>4. ASSUME NEW m \in 0 .. P - 1, NEW k PROVE LeadsOn(from, tr, rhs, m, k)
  BY <1>3 DEF LeadsOn
<1>5. from[P] = {i}
  BY <1>1, <1>2
<1>. QED  BY <1>4, <1>5

\* A walk meets no state at two read positions.
NoneTwice(from, P) == \A m, n \in 0 .. P - 1 : m # n => from[m] \cap from[n] = {}

\* What the walk has done once an entry of the queue is dealt with.
Passed(tr, rhs, k, m, vis, R) == IF m = 0 THEN k \in R ELSE Before(tr, k, rhs[m]) \subseteq vis

\* The walk stays on the way, and if it meets no state at two read positions then
\* a state it has met is dealt with or in the queue; R are the states at the
\* beginning of the way that are dealt with.
Walks(tr, rhs, P, from, q, vis, R) ==
  /\ q \in Seq([state : Nat, pos : 0 .. P])
  /\ \A at \in ToSet(q) : at.state \in from[at.pos]
  /\ \A k \in vis : \E m \in 0 .. P - 1 : k \in from[m]
  /\ NoneTwice(from, P) =>
       \A m \in 0 .. P : \A k \in from[m] :
         m = P \/ k \in vis => [state |-> k, pos |-> m] \in ToSet(q) \/ Passed(tr, rhs, k, m, vis, R)

LEMMA WalkBegins ==
  ASSUME NEW tr, NEW rhs, NEW i \in Nat, NEW P \in Nat, NEW from, IsWay(from, tr, rhs, i, P), NEW R
  PROVE  Walks(tr, rhs, P, from, <<[state |-> i, pos |-> P]>>, {}, R)
<1>. DEFINE at == [state |-> i, pos |-> P]
<1>1. from[P] = {i}
  BY WayFacts
<1>2. at \in [state : Nat, pos : 0 .. P] /\ at.state = i /\ at.pos = P
  OBVIOUS
<1>3. <<at>> \in Seq([state : Nat, pos : 0 .. P]) /\ ToSet(<<at>>) = {at}
  <2>. HIDE DEF at
  <2>. QED  BY <1>2 DEF ToSet
<1>4. \A m \in 0 .. P : \A k \in from[m] : m = P => [state |-> k, pos |-> m] = at
  BY <1>1
<1>. HIDE DEF at
<1>. QED  BY <1>1, <1>2, <1>3, <1>4 DEF Walks, at

LEMMA WalkEnds ==
  ASSUME NEW tr, NEW rhs, NEW i, NEW P \in Nat, NEW from, IsWay(from, tr, rhs, i, P), NEW vis, NEW R,
         Walks(tr, rhs, P, from, <<>>, vis, R), NoneTwice(from, P)
  PROVE  from[0] \subseteq R
<1>. DEFINE T == {m \in 0 .. P : \A k \in from[m] : m = P \/ k \in vis}
<1>1. \A m \in 0 .. P : \A k \in from[m] : m = P \/ k \in vis => Passed(tr, rhs, k, m, vis, R)
  BY DEF Walks, ToSet
<1>2. ASSUME NEW m \in 0 .. P - 1, m + 1 \in T PROVE m \in T
  <2>1. m \in 0 .. P /\ m + 1 \in 0 .. P /\ m + 1 # 0
    OBVIOUS
  <2>2. ASSUME NEW k \in from[m] PROVE k \in vis
    <3>1. PICK b \in from[m + 1] : k \in Before(tr, b, rhs[m + 1])
      <4>1. LeadsOn(from, tr, rhs, m, k)
        BY WayFacts
      <4>. QED  BY <4>1 DEF LeadsOn
    <3>2. Passed(tr, rhs, b, m + 1, vis, R)
      BY <1>1, <1>2, <2>1
    <3>. QED  BY <2>1, <3>1, <3>2 DEF Passed
  <2>. QED  BY <2>1, <2>2
<1>3. P \in T
  OBVIOUS
<1>4. 0 \in T
  <2>. HIDE DEF T
  <2>1. \A m \in 0 .. P : m \in T
    BY <1>2, <1>3, DownwardInduction
  <2>. QED  BY <2>1
<1>5. ASSUME NEW k \in from[0] PROVE k \in R
  <2>1. Passed(tr, rhs, k, 0, vis, R)
    BY <1>1, <1>4
  <2>. QED  BY <2>1 DEF Passed
<1>. QED  BY <1>5

EntryBack(k, m) == [state |-> k, pos |-> m - 1]

OneBack(S, m) ==
  LET new == InOrder(S) IN [k \in DOMAIN new |-> [state |-> new[k], pos |-> m - 1]]

\* What a round of the walk does to the queue and the visited states.
StepsBack(tr, rhs, at, q, vis, q2, vis2) ==
  LET new == Before(tr, at.state, rhs[at.pos]) \ vis
  IN  /\ q2 = Tail(q) \o OneBack(new, at.pos)
      /\ vis2 = vis \cup ToSet(InOrder(new))

LEMMA QueueOneBack ==
  ASSUME NEW N \in Nat, NEW P \in Nat, NEW S, S \subseteq 1 .. N, NEW m \in 1 .. P
  PROVE  /\ OneBack(S, m) \in Seq([state : Nat, pos : 0 .. P])
         /\ \A a : a \in ToSet(OneBack(S, m)) <=> \E k \in S : a = EntryBack(k, m)
<1>. DEFINE new   == InOrder(S)
            added == [k \in DOMAIN new |-> [state |-> new[k], pos |-> m - 1]]
<1>1. new \in Seq(S) /\ ToSet(new) = S
  BY InOrderFacts
<1>2. m - 1 \in 0 .. P
  OBVIOUS
<1>. HIDE DEF new
<1>3. \A k \in DOMAIN new : new[k] \in S /\ new[k] \in Nat
  <2>1. \A x \in S : x \in Nat
    OBVIOUS
  <2>2. \A k \in DOMAIN new : new[k] \in S
    BY <1>1
  <2>. QED  BY <2>1, <2>2
<1>4. DOMAIN new = 1 .. Len(new) /\ Len(new) \in Nat
  BY <1>1
<1>5. added \in Seq([state : Nat, pos : 0 .. P])
  BY <1>2, <1>3, <1>4
<1>6. ToSet(added) = {[state |-> k, pos |-> m - 1] : k \in S}
  BY <1>1 DEF ToSet
<1>. HIDE DEF added
<1>7. OneBack(S, m) = added
  BY DEF OneBack, new, added
<1>. QED  BY <1>5, <1>6, <1>7 DEF EntryBack

LEMMA WalkStep ==
  ASSUME NEW N \in Nat, NEW tr, tr \subseteq (1 .. N) \X Symbol \X (1 .. N), NEW rhs,
         NEW i, NEW P \in Nat, NEW from, IsWay(from, tr, rhs, i, P),
         NEW q, NEW vis, NEW R, Walks(tr, rhs, P, from, q, vis, R), q # <<>>,
         Head(q).pos # 0, NEW q2, NEW vis2, StepsBack(tr, rhs, Head(q), q, vis, q2, vis2)
  PROVE  Walks(tr, rhs, P, from, q2, vis2, R)
<1>. DEFINE at  == Head(q)
            new == Before(tr, at.state, rhs[at.pos]) \ vis
<1>1. /\ at \in [state : Nat, pos : 0 .. P] /\ Tail(q) \in Seq([state : Nat, pos : 0 .. P])
      /\ ToSet(q) = {at} \cup ToSet(Tail(q))
  BY HeadAndTail DEF Walks
<1>2. at.pos \in 1 .. P /\ at.pos - 1 \in 0 .. P - 1 /\ at.pos - 1 + 1 = at.pos
  BY <1>1
<1>3. Before(tr, at.state, rhs[at.pos]) \subseteq 1 .. N
  BY DEF Before
<1>4. /\ q2 \in Seq([state : Nat, pos : 0 .. P])
      /\ ToSet(q2) = ToSet(Tail(q)) \cup {[state |-> k, pos |-> at.pos - 1] : k \in new}
      /\ vis2 = vis \cup new
  <2>. DEFINE added == OneBack(new, at.pos)
              E     == [state : Nat, pos : 0 .. P]
  <2>1. new \subseteq 1 .. N
    BY <1>3
  <2>. HIDE DEF at, new
  <2>2. ToSet(InOrder(new)) = new
    BY <2>1, InOrderFacts
  <2>3. added \in Seq(E) /\ ToSet(added) = {[state |-> k, pos |-> at.pos - 1] : k \in new}
    <3>1. ASSUME NEW S \in SUBSET (1 .. N), NEW m \in 1 .. P
          PROVE  /\ OneBack(S, m) \in Seq([state : Nat, pos : 0 .. P])
                 /\ \A a : a \in ToSet(OneBack(S, m)) <=> \E k \in S : a = EntryBack(k, m)
      BY QueueOneBack
    <3>2. at.pos \in 1 .. P /\ new \in SUBSET (1 .. N)
      BY <1>2, <2>1
    <3>. HIDE DEF added
    <3>3. /\ added \in Seq(E)
          /\ \A a : a \in ToSet(added) <=> \E k \in new : a = EntryBack(k, at.pos)
      BY ONLY <3>1, <3>2 DEF E, added
    <3>. QED  BY <3>3 DEF EntryBack
  <2>4. q2 = Tail(q) \o added /\ vis2 = vis \cup ToSet(InOrder(new))
    BY DEF StepsBack, at, new
  <2>5. Tail(q) \in Seq(E)
    BY <1>1
  <2>. HIDE DEF added, E
  <2>6. Tail(q) \o added \in Seq(E) /\ ToSet(Tail(q) \o added) = ToSet(Tail(q)) \cup ToSet(added)
    <3>1. \A x, y : x \in Seq(E) /\ y \in Seq(E) => x \o y \in Seq(E) /\ ToSet(x \o y) = ToSet(x) \cup ToSet(y)
      BY JoinedSet
    <3>. QED  BY <2>3, <2>5, <3>1
  <2>. QED  BY <2>2, <2>3, <2>4, <2>6 DEF E
<1>5. at.state \in from[at.pos]
  BY <1>1 DEF Walks
<1>6. ASSUME NEW k \in Before(tr, at.state, rhs[at.pos]) PROVE k \in from[at.pos - 1]
  <2>1. LeadsOn(from, tr, rhs, at.pos - 1, k)
    BY <1>2, WayFacts
  <2>. QED  BY <1>2, <1>5, <2>1 DEF LeadsOn
<1>7. ASSUME NEW a \in ToSet(q2) PROVE a.state \in from[a.pos]
  <2>1. CASE a \in ToSet(Tail(q))
    BY <1>1, <2>1 DEF Walks
  <2>2. CASE a \notin ToSet(Tail(q))
    <3>1. PICK k \in new : a = [state |-> k, pos |-> at.pos - 1]
      BY <1>4, <2>2
    <3>. QED  BY <1>6, <3>1
  <2>. QED  BY <2>1, <2>2
<1>8. ASSUME NEW k \in vis2 PROVE \E m \in 0 .. P - 1 : k \in from[m]
  <2>1. CASE k \in vis
    BY <2>1 DEF Walks
  <2>2. CASE k \in new
    BY <1>2, <1>6, <2>2
  <2>. QED  BY <1>4, <2>1, <2>2
<1>9. ASSUME NoneTwice(from, P), NEW m \in 0 .. P, NEW k \in from[m], m = P \/ k \in vis2
      PROVE  [state |-> k, pos |-> m] \in ToSet(q2) \/ Passed(tr, rhs, k, m, vis2, R)
  <2>1. CASE m = P \/ k \in vis
    <3>1. [state |-> k, pos |-> m] \in ToSet(q) \/ Passed(tr, rhs, k, m, vis, R)
      BY <1>9, <2>1 DEF Walks
    <3>2. CASE [state |-> k, pos |-> m] \in ToSet(Tail(q))
      BY <1>4, <3>2
    <3>3. CASE [state |-> k, pos |-> m] = at
      <4>1. k = at.state /\ m = at.pos
        BY <3>3
      <4>2. Before(tr, k, rhs[m]) \subseteq vis2
        BY <1>4, <4>1
      <4>. QED  BY <4>1, <4>2 DEF Passed
    <3>4. CASE Passed(tr, rhs, k, m, vis, R)
      BY <1>4, <3>4 DEF Passed
    <3>. QED  BY <1>1, <3>1, <3>2, <3>3, <3>4
  <2>2. CASE m # P /\ k \notin vis
    <3>1. k \in new /\ m \in 0 .. P - 1
      BY <1>4, <1>9, <2>2
    <3>2. k \in from[at.pos - 1]
      BY <1>6, <3>1
    <3>3. m = at.pos - 1
      BY <1>2, <1>9, <3>1, <3>2 DEF NoneTwice
    <3>. QED  BY <1>4, <3>1, <3>3
  <2>. QED  BY <2>1, <2>2
<1>. QED  BY <1>4, <1>7, <1>8, <1>9 DEF Walks

LEMMA WalkArrives ==
  ASSUME NEW tr, NEW rhs, NEW P \in Nat, NEW from, NEW q, NEW vis, NEW R,
         Walks(tr, rhs, P, from, q, vis, R), q # <<>>, Head(q).pos = 0, NEW R2
  PROVE  /\ Head(q).state \in from[0]
         /\ R \subseteq R2 /\ Head(q).state \in R2 => Walks(tr, rhs, P, from, Tail(q), vis, R2)
<1>. DEFINE at == Head(q)
<1>1. /\ at \in [state : Nat, pos : 0 .. P] /\ Tail(q) \in Seq([state : Nat, pos : 0 .. P])
      /\ ToSet(q) = {at} \cup ToSet(Tail(q))
  BY HeadAndTail DEF Walks
<1>2. at.state \in from[0]
  BY <1>1 DEF Walks
<1>. SUFFICES ASSUME R \subseteq R2, at.state \in R2 PROVE Walks(tr, rhs, P, from, Tail(q), vis, R2)
  BY <1>2
<1>3. ASSUME NoneTwice(from, P), NEW m \in 0 .. P, NEW k \in from[m], m = P \/ k \in vis
      PROVE  [state |-> k, pos |-> m] \in ToSet(Tail(q)) \/ Passed(tr, rhs, k, m, vis, R2)
  <2>1. [state |-> k, pos |-> m] \in ToSet(q) \/ Passed(tr, rhs, k, m, vis, R)
    BY <1>3 DEF Walks
  <2>2. CASE [state |-> k, pos |-> m] = at
    <3>1. k = at.state /\ m = 0
      BY <2>2
    <3>. QED  BY <3>1 DEF Passed
  <2>3. CASE Passed(tr, rhs, k, m, vis, R)
    BY <2>3 DEF Passed
  <2>. QED  BY <1>1, <2>1, <2>2, <2>3
<1>. QED  BY <1>1, <1>3 DEF Walks

-----------------------------------------------------------------------------
(* The inductive invariant *)

ReadingItems  == ItemsThat(ReadsNonterminal)
FinishedItems == ItemsThat(IsFinalItem)

From(src) == Origins(src[1], src[2])

\* What a walk may count as dealt with at the beginning of its way: a state that is
\* related, and for Lookback one that has no transition over the left-hand side.
InIncludes(src) == {p \in Nat : <<p, LhsOf(src)>> \in includes[SourceKey(src)]}
InLookback(src) ==
  {p \in Nat : HasTransition(p, LhsOf(src)) => <<p, LhsOf(src)>> \in Pairs(lookback, LookbackKey(src))}

WalkOf(src, R) ==
  Walks(transitions, Rhs(g, src[2]), src[2].pos, From(src), queue, visited, R)

Straightly(src) == NoneTwice(From(src), src[2].pos)

\* Nothing is related before the states are there, and empty() stores nothing.
InPhase ==
  /\ phase \in {"states", "includes", "lookback"}
  /\ phase = "states" => queue = <<>> /\ includes = NoRelation
  /\ phase # "states" => Done
  /\ phase # "lookback" => lookback = NoRelation
  /\ emptyTable = NothingStored

SourcesFit ==
  /\ phase = "includes" => sources \subseteq ReadingItems
  /\ phase = "lookback" => sources \subseteq FinishedItems

KeysFit ==
  \A key \in DOMAIN includes :
    /\ key = <<key[1], key[2]>> /\ key[1] \in DOMAIN states /\ IsNonterminal(g, key[2])
    /\ \E item \in states[key[1]] : Reads(g, item, key[2])

Walking ==
  \A src \in {source} : queue # <<>> =>
    /\ phase = "includes" => /\ src \in ReadingItems /\ RestIsEmpty(src[2])
                             /\ SourceKey(src) \in DOMAIN includes
                             /\ WalkOf(src, InIncludes(src))
    /\ phase = "lookback" => src \in FinishedItems /\ WalkOf(src, InLookback(src))

\* A pair of Includes comes from an item of the state that reads the symbol.
IncludesFrom(key, pair, item) ==
  /\ Reads(g, item, key[2]) /\ RestIsEmpty(item)
  /\ \E p \in Origins(key[1], item)[0] : pair = <<p, g.rules[item.rule].lhs>>

IncludesJustified ==
  \A key \in DOMAIN includes : \A pair \in includes[key] :
    \E item \in states[key[1]] : IncludesFrom(key, pair, item)

WalkInProgress(src) == queue # <<>> /\ source = src

\* An item that has been visited has all it relates in the relation, unless the
\* walk from it goes on.
IncludesFull ==
  phase # "states" =>
    \A src \in ReadingItems :
      \/ phase = "includes" /\ (src \in sources \/ WalkInProgress(src))
      \/ /\ SourceKey(src) \in DOMAIN includes
         /\ RestIsEmpty(src[2]) /\ Straightly(src) => From(src)[0] \subseteq InIncludes(src)

\* A pair of Lookback comes from the way back from a final item of the rule.
LookbackFrom(key, pair, src) ==
  /\ key = LookbackKey(src)
  /\ \E m \in 0 .. src[2].pos : \E p \in From(src)[m] :
       HasTransition(p, LhsOf(src)) /\ pair = <<p, LhsOf(src)>>

LookbackJustified ==
  \A key \in DOMAIN lookback : \A pair \in lookback[key] :
    \E src \in FinishedItems : LookbackFrom(key, pair, src)

LookbackFull ==
  phase = "lookback" =>
    \A src \in FinishedItems :
      src \in sources \/ WalkInProgress(src) \/ (Straightly(src) => From(src)[0] \subseteq InLookback(src))

RelInv ==
  /\ IInv
  /\ InPhase
  /\ SourcesFit
  /\ KeysFit
  /\ Walking
  /\ IncludesJustified
  /\ IncludesFull
  /\ LookbackJustified
  /\ LookbackFull

LEMMA IsReadingItem ==
  ASSUME NEW src
  PROVE  src \in ReadingItems <=>
           \E i \in DOMAIN states : \E item \in states[i] : ReadsNonterminal(item) /\ src = <<i, item>>
BY DEF ReadingItems, ItemsThat

LEMMA IsFinishedItem ==
  ASSUME NEW src
  PROVE  src \in FinishedItems <=>
           \E i \in DOMAIN states : \E item \in states[i] : IsFinalItem(item) /\ src = <<i, item>>
BY DEF FinishedItems, ItemsThat

LEMMA SourceFacts ==
  ASSUME IInv, NEW src \in ReadingItems \cup FinishedItems
  PROVE  /\ src[1] \in DOMAIN states /\ src[1] \in Nat
         /\ src[2] \in states[src[1]] /\ src[2] \in Item(g) /\ src[2].pos \in Nat
         /\ src = <<src[1], src[2]>>
         /\ src \in ReadingItems => ReadsNonterminal(src[2])
         /\ src \in FinishedItems => IsFinal(g, src[2])
<1>1. TypeOK
  BY DEF IInv
<1>2. PICK i \in DOMAIN states : \E x \in states[i] : src = <<i, x>>
  BY IsReadingItem, IsFinishedItem
<1>. DEFINE item == src[2]
<1>0. item \in states[i] /\ src = <<i, item>>
  BY <1>2
<1>3. item \in Item(g) /\ i \in Nat
  BY <1>0, <1>1, StateFacts
<1>4. src \in ReadingItems => ReadsNonterminal(item)
  <2>. SUFFICES ASSUME src \in ReadingItems PROVE ReadsNonterminal(item)
    OBVIOUS
  <2>1. PICK j \in DOMAIN states : \E x \in states[j] : ReadsNonterminal(x) /\ src = <<j, x>>
    BY IsReadingItem
  <2>. QED  BY <2>1
<1>5. src \in FinishedItems => IsFinal(g, item)
  <2>. SUFFICES ASSUME src \in FinishedItems PROVE IsFinal(g, item)
    OBVIOUS
  <2>1. PICK j \in DOMAIN states : \E x \in states[j] : IsFinalItem(x) /\ src = <<j, x>>
    BY IsFinishedItem
  <2>. QED  BY <2>1 DEF IsFinalItem
<1>6. src[1] = i
  BY <1>0
<1>7. item.pos \in Nat
  BY <1>3 DEF Item
<1>. QED  BY <1>0, <1>3, <1>4, <1>5, <1>6, <1>7

LEMMA WayOfSource ==
  ASSUME NEW src, src[2].pos \in Nat
  PROVE  IsWay(From(src), transitions, Rhs(g, src[2]), src[1], src[2].pos)
<1>. DEFINE body(from) == [m \in 0 .. src[2].pos |->
              IF m = src[2].pos THEN {src[1]}
              ELSE UNION {Back(k, Rhs(g, src[2])[m + 1]) : k \in from[m + 1]}]
<1>1. PICK way : IsWay(way, transitions, Rhs(g, src[2]), src[1], src[2].pos)
  BY WayExists
<1>2. \A from : IsWay(from, transitions, Rhs(g, src[2]), src[1], src[2].pos) <=> from = body(from)
  BY DEF IsWay, WayFrom, Back, Before
<1>3. From(src) = CHOOSE from : from = body(from)
  BY DEF From, Origins
<1>4. way = body(way)
  BY <1>1, <1>2
<1>. HIDE DEF body
<1>5. From(src) = body(From(src))
  BY <1>3, <1>4
<1>. QED  BY <1>2, <1>5

LEMMA TransitionsInRange ==
  ASSUME IInv
  PROVE  Len(states) \in Nat /\ transitions \subseteq (1 .. Len(states)) \X Symbol \X (1 .. Len(states))
BY StateFacts DEF IInv, TypeOK

-----------------------------------------------------------------------------
(* What a step leaves as it was *)

LEMMA SameOrigins ==
  ASSUME UNCHANGED vars, NEW i, NEW item
  PROVE  Origins(i, item)' = Origins(i, item)
BY DEF vars, Origins, Back, Rhs

LEMMA SameWay ==
  ASSUME UNCHANGED vars, NEW src
  PROVE  From(src)' = From(src) /\ (Straightly(src)' <=> Straightly(src))
BY SameOrigins DEF From, Straightly

LEMMA SameItems ==
  ASSUME UNCHANGED vars
  PROVE  ReadingItems' = ReadingItems /\ FinishedItems' = FinishedItems
<1>1. ReadingItems' = ReadingItems
  BY DEF vars, ReadingItems, ItemsThat, ReadsNonterminal, IsFinal, IsNonterminal, ReadSymbol, Rhs
<1>2. FinishedItems' = FinishedItems
  BY DEF vars, FinishedItems, ItemsThat, IsFinalItem, IsFinal, Rhs
<1>. QED  BY <1>1, <1>2

LEMMA SameGrammar ==
  ASSUME UNCHANGED vars, NEW src, NEW item, NEW i, NEW s
  PROVE  /\ LhsOf(src)' = LhsOf(src) /\ SourceKey(src)' = SourceKey(src)
         /\ Rest(item)' = Rest(item) /\ LookbackKey(src)' = LookbackKey(src)
         /\ (Reads(g, item, s)' <=> Reads(g, item, s))
         /\ (IsNonterminal(g, s)' <=> IsNonterminal(g, s))
         /\ (HasTransition(i, s)' <=> HasTransition(i, s))
BY DEF vars, LhsOf, SourceKey, Rest, LookbackKey, Reads, IsFinal, ReadSymbol, Rhs, IsNonterminal,
       HasTransition

LEMMA SameRest ==
  ASSUME UNCHANGED <<vars, emptyTable>>, NEW item
  PROVE  RestIsEmpty(item)' <=> RestIsEmpty(item)
BY DEF vars, RestIsEmpty, Rest, Rhs

LEMMA SameInv ==
  ASSUME IInv, UNCHANGED vars
  PROVE  IInv' /\ (Done' <=> Done)
<1>1. [Next]_vars
  OBVIOUS
<1>2. IInv'
  BY <1>1, NextInv
<1>3. Done' <=> Done
  BY DEF vars, Done
<1>. QED  BY <1>2, <1>3

-----------------------------------------------------------------------------
(* The walks *)

\* A round of a walk, whose states at the beginning of its way are dealt with.
Round(R) ==
  IF Head(queue).pos = 0
    THEN Head(queue).state \in R /\ queue' = Tail(queue) /\ visited' = visited
    ELSE StepBackFrom(Head(queue))

LEMMA WalkStarts ==
  ASSUME IInv, NEW src \in ReadingItems \cup FinishedItems, StartWalk(src), NEW R
  PROVE  /\ source' = src /\ queue' # <<>>
         /\ Walks(transitions, Rhs(g, src[2]), src[2].pos, From(src), queue', visited', R)
<1>1. src[1] \in Nat /\ src[2].pos \in Nat
  BY SourceFacts
<1>2. IsWay(From(src), transitions, Rhs(g, src[2]), src[1], src[2].pos)
  BY <1>1, WayOfSource
<1>3. queue' = <<[state |-> src[1], pos |-> src[2].pos]>> /\ visited' = {} /\ source' = src
  BY DEF StartWalk
<1>4. \A R2 : Walks(transitions, Rhs(g, src[2]), src[2].pos, From(src),
                    <<[state |-> src[1], pos |-> src[2].pos]>>, {}, R2)
  BY <1>1, <1>2, WalkBegins
<1>. QED  BY <1>3, <1>4

LEMMA WalkGoesOn ==
  ASSUME IInv, NEW src \in ReadingItems \cup FinishedItems, source = src, queue # <<>>,
         NEW R, NEW R2, WalkOf(src, R), R \subseteq R2, Round(R2)
  PROVE  /\ Walks(transitions, Rhs(g, src[2]), src[2].pos, From(src), queue', visited', R2)
         /\ queue' = <<>> /\ Straightly(src) => From(src)[0] \subseteq R2
<1>. DEFINE tr == transitions
            rhs == Rhs(g, src[2])
            P == src[2].pos
            from == From(src)
            at == Head(queue)
<1>1. P \in Nat
  BY SourceFacts
<1>2. IsWay(from, tr, rhs, src[1], P)
  BY <1>1, WayOfSource
<1>3. Walks(tr, rhs, P, from, queue, visited, R)
  BY DEF WalkOf
<1>4. Walks(tr, rhs, P, from, queue', visited', R2)
  <2>1. CASE at.pos = 0
    <3>1. at.state \in R2 /\ queue' = Tail(queue) /\ visited' = visited
      BY <2>1 DEF Round
    <3>. HIDE DEF tr, rhs, P, from
    <3>2. Walks(tr, rhs, P, from, Tail(queue), visited, R2)
      BY <1>1, <1>3, <2>1, <3>1, WalkArrives
    <3>. QED  BY <3>1, <3>2
  <2>2. CASE at.pos # 0
    <3>1. Len(states) \in Nat /\ tr \subseteq (1 .. Len(states)) \X Symbol \X (1 .. Len(states))
      BY TransitionsInRange
    <3>2. StepsBack(tr, rhs, at, queue, visited, queue', visited')
      BY <2>2 DEF Round, StepBackFrom, StepsBack, OneBack, Back, Before
    <3>3. Walks(tr, rhs, P, from, queue, visited, R2)
      <4>. HIDE DEF tr, rhs, P, from
      <4>. QED  BY <1>3 DEF Walks, Passed
    <3>. HIDE DEF tr, rhs, P, from
    <3>. QED  BY <1>1, <1>2, <2>2, <3>1, <3>2, <3>3, WalkStep
  <2>. QED  BY <2>1, <2>2
<1>5. ASSUME queue' = <<>>, Straightly(src) PROVE from[0] \subseteq R2
  <2>1. NoneTwice(from, P)
    BY <1>5 DEF Straightly
  <2>. HIDE DEF tr, rhs, P, from
  <2>2. Walks(tr, rhs, P, from, <<>>, visited', R2)
    BY <1>4, <1>5
  <2>. QED  BY <1>1, <1>2, <2>1, <2>2, WalkEnds
<1>. QED  BY <1>4, <1>5

-----------------------------------------------------------------------------
(* One lemma per action *)

LEMMA RelInitInv == RelInit => RelInv
<1>. SUFFICES ASSUME RelInit PROVE RelInv
  OBVIOUS
<1>1. IInv
  BY InitInv DEF RelInit
<1>2. phase = "states" /\ queue = <<>> /\ DOMAIN includes = {} /\ DOMAIN lookback = {}
  BY DEF RelInit, NoRelation
<1>3. InPhase
  BY DEF InPhase, RelInit
<1>. QED
  BY <1>1, <1>2, <1>3 DEF RelInv, SourcesFit, KeysFit, Walking, IncludesJustified, IncludesFull,
                          LookbackJustified, LookbackFull

LEMMA ConstructStatesInv ==
  ASSUME RelInv, ConstructStates
  PROVE  RelInv'
<1>1. IInv'
  BY NextInv DEF RelInv, ConstructStates
<1>2. /\ phase' = "states" /\ queue' = <<>> /\ includes' = NoRelation /\ lookback' = NoRelation
      /\ emptyTable' = NothingStored
  BY DEF RelInv, InPhase, ConstructStates, walkVars, relationVars
<1>3. DOMAIN includes' = {} /\ DOMAIN lookback' = {}
  BY <1>2 DEF NoRelation
<1>4. InPhase'
  BY <1>2 DEF InPhase
<1>. QED
  BY <1>1, <1>2, <1>3, <1>4 DEF RelInv, SourcesFit, KeysFit, Walking, IncludesJustified, IncludesFull,
                                LookbackJustified, LookbackFull

LEMMA BeginIncludesInv ==
  ASSUME RelInv, BeginIncludes
  PROVE  RelInv'
<1>1. UNCHANGED vars /\ IInv' /\ (Done' <=> Done) /\ Done
  BY SameInv DEF RelInv, BeginIncludes
<1>2. /\ phase' = "includes" /\ queue' = <<>> /\ includes' = NoRelation /\ lookback' = NoRelation
      /\ emptyTable' = NothingStored /\ sources' = ReadingItems
  BY DEF RelInv, InPhase, BeginIncludes, walkVars, relationVars, ReadingItems
<1>3. DOMAIN includes' = {} /\ DOMAIN lookback' = {}
  BY <1>2 DEF NoRelation
<1>4. InPhase'
  BY <1>1, <1>2 DEF InPhase
<1>5. SourcesFit' /\ IncludesFull'
  BY <1>1, <1>2, SameItems DEF SourcesFit, IncludesFull
<1>. QED
  BY <1>1, <1>2, <1>3, <1>4, <1>5 DEF RelInv, KeysFit, Walking, IncludesJustified,
                                      LookbackJustified, LookbackFull

LEMMA RelateFacts ==
  ASSUME NEW relation, NEW key, NEW pairs
  PROVE  LET new == Relate(relation, key, pairs)
         IN  /\ DOMAIN new = DOMAIN relation \cup {key}
             /\ \A k \in DOMAIN relation : relation[k] \subseteq new[k]
             /\ \A k \in DOMAIN new : \A pair \in new[k] :
                  (k \in DOMAIN relation /\ pair \in relation[k]) \/ (k = key /\ pair \in pairs)
             /\ pairs \subseteq new[key]
             /\ \A k : Pairs(relation, k) \subseteq Pairs(new, k)
BY DEF Relate, Pairs

\* Nothing is taken out of Includes.
IncludesGrow == \A key \in DOMAIN includes : key \in DOMAIN includes' /\ includes[key] \subseteq includes'[key]

LEMMA MoreIncludes ==
  ASSUME UNCHANGED vars, IncludesGrow, NEW src, SourceKey(src) \in DOMAIN includes
  PROVE  SourceKey(src)' \in DOMAIN includes' /\ InIncludes(src) \subseteq InIncludes(src)'
<1>1. SourceKey(src)' = SourceKey(src) /\ LhsOf(src)' = LhsOf(src)
  BY SameGrammar
<1>2. includes[SourceKey(src)] \subseteq includes'[SourceKey(src)] /\ SourceKey(src) \in DOMAIN includes'
  BY DEF IncludesGrow
<1>. QED  BY <1>1, <1>2 DEF InIncludes

\* An item that has all it relates keeps it.
LEMMA StaysFull ==
  ASSUME UNCHANGED <<vars, emptyTable>>, IncludesGrow, NEW src, SourceKey(src) \in DOMAIN includes,
         RestIsEmpty(src[2]) /\ Straightly(src) => From(src)[0] \subseteq InIncludes(src)
  PROVE  /\ SourceKey(src)' \in DOMAIN includes'
         /\ (RestIsEmpty(src[2]) /\ Straightly(src) => From(src)[0] \subseteq InIncludes(src))'
<1>1. SourceKey(src)' \in DOMAIN includes' /\ InIncludes(src) \subseteq InIncludes(src)'
  BY MoreIncludes
<1>2. RestIsEmpty(src[2])' <=> RestIsEmpty(src[2])
  BY SameRest
<1>3. From(src)' = From(src) /\ (Straightly(src)' <=> Straightly(src))
  BY SameWay
<1>. QED  BY <1>1, <1>2, <1>3

LEMMA StaysJustified ==
  ASSUME UNCHANGED <<vars, emptyTable>>, NEW key, NEW pair, NEW item, IncludesFrom(key, pair, item)
  PROVE  IncludesFrom(key, pair, item)'
<1>1. (Reads(g, item, key[2])' <=> Reads(g, item, key[2])) /\ (RestIsEmpty(item)' <=> RestIsEmpty(item))
  BY SameGrammar, SameRest
<1>2. Origins(key[1], item)' = Origins(key[1], item)
  BY SameOrigins
<1>3. g' = g
  BY DEF vars
<1>. QED  BY <1>1, <1>2, <1>3 DEF IncludesFrom

LEMMA VisitIncludeInv ==
  ASSUME RelInv, NEW src \in sources, VisitInclude(src)
  PROVE  RelInv'
<1>1. UNCHANGED vars /\ IInv' /\ (Done' <=> Done) /\ IInv /\ UNCHANGED <<vars, emptyTable>>
  BY SameInv DEF RelInv, VisitInclude
<1>2. /\ phase = "includes" /\ phase' = "includes" /\ queue = <<>> /\ lookback' = lookback
      /\ emptyTable' = emptyTable /\ sources' = sources \ {src} /\ src \in ReadingItems
      /\ includes' = Relate(includes, SourceKey(src), {})
  BY DEF RelInv, SourcesFit, VisitInclude
<1>3. ReadingItems' = ReadingItems /\ states' = states /\ g' = g
  BY <1>1, SameItems DEF vars
<1>4. /\ DOMAIN includes' = DOMAIN includes \cup {SourceKey(src)}
      /\ \A key \in DOMAIN includes : includes[key] \subseteq includes'[key]
      /\ \A key \in DOMAIN includes' : \A pair \in includes'[key] :
           key \in DOMAIN includes /\ pair \in includes[key]
  BY <1>2, RelateFacts
<1>5. IncludesGrow
  BY <1>4 DEF IncludesGrow
<1>6. InPhase' /\ SourcesFit'
  BY <1>1, <1>2, <1>3 DEF RelInv, InPhase, SourcesFit
<1>7. KeysFit'
  <2>1. /\ SourceKey(src) = <<SourceKey(src)[1], SourceKey(src)[2]>>
        /\ SourceKey(src)[1] \in DOMAIN states
        /\ IsNonterminal(g, SourceKey(src)[2])
        /\ \E item \in states[SourceKey(src)[1]] : Reads(g, item, SourceKey(src)[2])
    <3>1. /\ src[1] \in DOMAIN states /\ src[2] \in states[src[1]] /\ ReadsNonterminal(src[2])
          /\ SourceKey(src)[1] = src[1] /\ SourceKey(src)[2] = ReadSymbol(g, src[2])
      BY <1>1, <1>2, SourceFacts DEF SourceKey
    <3>. QED  BY <3>1 DEF SourceKey, ReadsNonterminal, Reads
  <2>2. \A key \in DOMAIN includes' :
          /\ key = <<key[1], key[2]>> /\ key[1] \in DOMAIN states /\ IsNonterminal(g, key[2])
          /\ \E item \in states[key[1]] : Reads(g, item, key[2])
    BY <1>4, <2>1 DEF RelInv, KeysFit
  <2>. QED  BY <1>3, <2>2 DEF KeysFit, IsNonterminal
<1>8. Walking'
  <2>. SUFFICES ASSUME NEW s, s = source', queue' # <<>>
                PROVE  (/\ s \in ReadingItems /\ RestIsEmpty(s[2])
                        /\ SourceKey(s) \in DOMAIN includes
                        /\ WalkOf(s, InIncludes(s)))'
    BY <1>2 DEF Walking
  <2>1. RestIsEmpty(src[2]) /\ StartWalk(src)
    BY <1>2 DEF VisitInclude, walkVars
  <2>2. s = src
    BY <2>1 DEF StartWalk
  <2>3. \A R : Walks(transitions, Rhs(g, s[2]), s[2].pos, From(s), queue', visited', R)
    BY <1>1, <1>2, <2>1, <2>2, WalkStarts
  <2>4. RestIsEmpty(s[2])'
    BY <1>1, <2>1, <2>2, SameRest
  <2>5. SourceKey(s)' = SourceKey(s) /\ From(s)' = From(s)
    BY <1>1, SameGrammar, SameWay
  <2>6. WalkOf(s, InIncludes(s))'
    BY <1>1, <2>3, <2>5 DEF WalkOf, vars, Rhs
  <2>. QED  BY <1>2, <1>3, <1>4, <2>2, <2>4, <2>5, <2>6
<1>9. IncludesJustified'
  <2>. SUFFICES ASSUME NEW key \in DOMAIN includes', NEW pair \in includes'[key]
                PROVE  \E item \in states[key[1]] : IncludesFrom(key, pair, item)'
    BY <1>3 DEF IncludesJustified
  <2>1. key \in DOMAIN includes /\ pair \in includes[key]
    BY <1>4
  <2>2. PICK item \in states[key[1]] : IncludesFrom(key, pair, item)
    BY <2>1 DEF RelInv, IncludesJustified
  <2>. QED  BY <1>1, <2>2, StaysJustified
<1>10. IncludesFull'
  <2>. SUFFICES ASSUME NEW s \in ReadingItems, s \notin sources', ~WalkInProgress(s)'
                PROVE  (/\ SourceKey(s) \in DOMAIN includes
                        /\ RestIsEmpty(s[2]) /\ Straightly(s) => From(s)[0] \subseteq InIncludes(s))'
    BY <1>2, <1>3 DEF IncludesFull
  <2>1. CASE s = src
    <3>1. ~RestIsEmpty(s[2])
      <4>. SUFFICES ASSUME RestIsEmpty(s[2]) PROVE FALSE
        OBVIOUS
      <4>1. StartWalk(s)
        BY <2>1 DEF VisitInclude
      <4>. QED  BY <4>1 DEF StartWalk, WalkInProgress
    <3>2. ~RestIsEmpty(s[2])' /\ SourceKey(s)' = SourceKey(s)
      BY <1>1, <3>1, SameRest, SameGrammar
    <3>. QED  BY <1>4, <2>1, <3>2
  <2>2. CASE s # src
    <3>1. s \notin sources /\ ~WalkInProgress(s)
      BY <1>2, <2>2 DEF WalkInProgress
    <3>2. /\ SourceKey(s) \in DOMAIN includes
          /\ RestIsEmpty(s[2]) /\ Straightly(s) => From(s)[0] \subseteq InIncludes(s)
      BY <1>2, <3>1 DEF RelInv, IncludesFull
    <3>. QED  BY <1>1, <1>5, <3>2, StaysFull
  <2>. QED  BY <2>1, <2>2
<1>11. LookbackJustified' /\ LookbackFull'
  <2>1. lookback' = NoRelation
    BY <1>2 DEF RelInv, InPhase
  <2>2. DOMAIN lookback' = {}
    BY <2>1 DEF NoRelation
  <2>. QED  BY <1>2, <2>2 DEF LookbackJustified, LookbackFull
<1>. QED  BY <1>1, <1>6, <1>7, <1>8, <1>9, <1>10, <1>11 DEF RelInv

LEMMA WalkIncludeInv ==
  ASSUME RelInv, WalkInclude
  PROVE  RelInv'
<1>. DEFINE at == Head(queue)
<1>1. UNCHANGED vars /\ IInv' /\ (Done' <=> Done) /\ IInv /\ UNCHANGED <<vars, emptyTable>>
  BY SameInv DEF RelInv, WalkInclude
<1>2. /\ phase = "includes" /\ phase' = "includes" /\ queue # <<>> /\ lookback' = lookback
      /\ sources' = sources /\ source' = source
  BY DEF WalkInclude
<1>3. ReadingItems' = ReadingItems /\ states' = states /\ g' = g
  BY <1>1, SameItems DEF vars
<1>4. PICK src \in ReadingItems :
        /\ source = src /\ RestIsEmpty(src[2]) /\ SourceKey(src) \in DOMAIN includes
        /\ WalkOf(src, InIncludes(src))
  BY <1>2 DEF RelInv, Walking
<1>. DEFINE key == SourceKey(src)
            new == <<at.state, LhsOf(src)>>
<1>5. includes' = IF at.pos = 0 THEN Relate(includes, key, {new}) ELSE includes
  BY <1>4 DEF WalkInclude
<1>6. /\ DOMAIN includes' = DOMAIN includes
      /\ \A k \in DOMAIN includes : includes[k] \subseteq includes'[k]
      /\ \A k \in DOMAIN includes' : \A pair \in includes'[k] :
           pair \in includes[k] \/ (at.pos = 0 /\ k = key /\ pair = new)
      /\ at.pos = 0 => new \in includes'[key]
  <2>1. CASE at.pos = 0
    <3>. HIDE DEF key, new
    <3>1. includes' = Relate(includes, key, {new}) /\ key \in DOMAIN includes
      BY <1>4, <1>5, <2>1 DEF key
    <3>2. /\ DOMAIN includes' = DOMAIN includes \cup {key}
          /\ \A k \in DOMAIN includes : includes[k] \subseteq includes'[k]
          /\ \A k \in DOMAIN includes' : \A pair \in includes'[k] :
               (k \in DOMAIN includes /\ pair \in includes[k]) \/ (k = key /\ pair \in {new})
          /\ {new} \subseteq includes'[key]
      BY <3>1, RelateFacts
    <3>. QED  BY <2>1, <3>1, <3>2
  <2>2. CASE at.pos # 0
    BY <1>5, <2>2
  <2>. QED  BY <2>1, <2>2
<1>7. IncludesGrow
  BY <1>6 DEF IncludesGrow
<1>8. at.state \in Nat /\ at.state \in From(src)[at.pos]
  <2>1. queue \in Seq([state : Nat, pos : 0 .. src[2].pos])
    BY <1>4 DEF WalkOf, Walks
  <2>2. at \in [state : Nat, pos : 0 .. src[2].pos] /\ at \in ToSet(queue)
    BY <1>2, <2>1, HeadAndTail
  <2>. QED  BY <1>4, <2>2 DEF WalkOf, Walks
<1>9. LhsOf(src)' = LhsOf(src) /\ SourceKey(src)' = SourceKey(src) /\ From(src)' = From(src)
      /\ InIncludes(src) \subseteq InIncludes(src)'
  BY <1>1, <1>4, <1>7, SameGrammar, SameWay, MoreIncludes
<1>10. at.pos = 0 => at.state \in InIncludes(src)'
  BY <1>6, <1>8, <1>9 DEF InIncludes
<1>11. /\ Walks(transitions, Rhs(g, src[2]), src[2].pos, From(src), queue', visited', InIncludes(src)')
       /\ queue' = <<>> /\ Straightly(src) => From(src)[0] \subseteq InIncludes(src)'
  <2>1. Round(InIncludes(src)')
    BY <1>4, <1>10 DEF Round, WalkInclude
  <2>. QED  BY <1>1, <1>2, <1>4, <1>9, <2>1, WalkGoesOn
<1>12. InPhase' /\ SourcesFit' /\ KeysFit'
  <2>1. InPhase' /\ SourcesFit'
    BY <1>1, <1>2, <1>3 DEF RelInv, InPhase, SourcesFit
  <2>2. \A k \in DOMAIN includes' :
          /\ k = <<k[1], k[2]>> /\ k[1] \in DOMAIN states /\ IsNonterminal(g, k[2])
          /\ \E item \in states[k[1]] : Reads(g, item, k[2])
    BY <1>6 DEF RelInv, KeysFit
  <2>. QED  BY <1>3, <2>1, <2>2 DEF KeysFit, IsNonterminal
<1>13. Walking'
  <2>1. WalkOf(src, InIncludes(src))'
    BY <1>1, <1>9, <1>11 DEF WalkOf, vars, Rhs
  <2>2. RestIsEmpty(src[2])'
    BY <1>1, <1>4, SameRest
  <2>. QED  BY <1>2, <1>3, <1>4, <1>6, <1>9, <2>1, <2>2 DEF Walking
<1>14. IncludesJustified'
  <2>. SUFFICES ASSUME NEW k \in DOMAIN includes', NEW pair \in includes'[k]
                PROVE  \E item \in states[k[1]] : IncludesFrom(k, pair, item)'
    BY <1>3 DEF IncludesJustified
  <2>1. CASE pair \in includes[k]
    <3>1. PICK item \in states[k[1]] : IncludesFrom(k, pair, item)
      BY <1>6, <2>1 DEF RelInv, IncludesJustified
    <3>. QED  BY <1>1, <3>1, StaysJustified
  <2>2. CASE at.pos = 0 /\ k = key /\ pair = new
    <3>1. src[2] \in states[src[1]] /\ ReadsNonterminal(src[2])
      BY <1>1, <1>4, SourceFacts
    <3>2. k[1] = src[1] /\ k[2] = ReadSymbol(g, src[2])
      BY <2>2 DEF SourceKey
    <3>3. Reads(g, src[2], k[2])
      BY <3>1, <3>2 DEF ReadsNonterminal, Reads
    <3>4. pair = <<at.state, g.rules[src[2].rule].lhs>> /\ at.state \in Origins(k[1], src[2])[0]
      BY <1>8, <2>2, <3>2 DEF LhsOf, From
    <3>5. IncludesFrom(k, pair, src[2])
      BY <1>4, <3>3, <3>4 DEF IncludesFrom
    <3>6. IncludesFrom(k, pair, src[2])'
      <4>1. \A item : IncludesFrom(k, pair, item) => IncludesFrom(k, pair, item)'
        BY <1>1, StaysJustified
      <4>. QED  BY <3>5, <4>1
    <3>. QED  BY <3>1, <3>2, <3>6
  <2>. QED  BY <1>6, <2>1, <2>2
<1>15. IncludesFull'
  <2>. SUFFICES ASSUME NEW s \in ReadingItems, s \notin sources', ~WalkInProgress(s)'
                PROVE  (/\ SourceKey(s) \in DOMAIN includes
                        /\ RestIsEmpty(s[2]) /\ Straightly(s) => From(s)[0] \subseteq InIncludes(s))'
    BY <1>2, <1>3 DEF IncludesFull
  <2>1. CASE s = src
    <3>1. queue' = <<>>
      BY <1>2, <1>4, <2>1 DEF WalkInProgress
    <3>2. Straightly(src)' <=> Straightly(src)
      BY <1>1, SameWay
    <3>. QED  BY <1>4, <1>6, <1>9, <1>11, <2>1, <3>1, <3>2
  <2>2. CASE s # src
    <3>1. s \notin sources /\ ~WalkInProgress(s)
      BY <1>2, <1>4, <2>2 DEF WalkInProgress
    <3>2. /\ SourceKey(s) \in DOMAIN includes
          /\ RestIsEmpty(s[2]) /\ Straightly(s) => From(s)[0] \subseteq InIncludes(s)
      BY <1>2, <3>1 DEF RelInv, IncludesFull
    <3>. QED  BY <1>1, <1>7, <3>2, StaysFull
  <2>. QED  BY <2>1, <2>2
<1>16. LookbackJustified' /\ LookbackFull'
  <2>1. lookback' = NoRelation
    BY <1>2 DEF RelInv, InPhase
  <2>2. DOMAIN lookback' = {}
    BY <2>1 DEF NoRelation
  <2>. QED  BY <1>2, <2>2 DEF LookbackJustified, LookbackFull
<1>. QED  BY <1>1, <1>12, <1>13, <1>14, <1>15, <1>16 DEF RelInv

LEMMA BeginLookbackInv ==
  ASSUME RelInv, BeginLookback
  PROVE  RelInv'
<1>1. UNCHANGED vars /\ IInv' /\ (Done' <=> Done) /\ IInv /\ UNCHANGED <<vars, emptyTable>>
  BY SameInv DEF RelInv, BeginLookback, relationVars
<1>2. /\ phase = "includes" /\ phase' = "lookback" /\ queue = <<>> /\ queue' = <<>>
      /\ includes' = includes /\ lookback' = lookback /\ emptyTable' = emptyTable
      /\ sources = {} /\ sources' = FinishedItems
  BY DEF BeginLookback, walkVars, relationVars, FinishedItems
<1>3. /\ ReadingItems' = ReadingItems /\ FinishedItems' = FinishedItems
      /\ states' = states /\ g' = g
  BY <1>1, SameItems DEF vars
<1>4. IncludesGrow
  BY <1>2 DEF IncludesGrow
<1>5. InPhase' /\ SourcesFit' /\ Walking' /\ LookbackFull'
  BY <1>1, <1>2, <1>3 DEF RelInv, InPhase, SourcesFit, Walking, LookbackFull
<1>6. KeysFit'
  BY <1>2, <1>3 DEF RelInv, KeysFit, IsNonterminal
<1>7. IncludesJustified'
  <2>. SUFFICES ASSUME NEW key \in DOMAIN includes, NEW pair \in includes[key]
                PROVE  \E item \in states[key[1]] : IncludesFrom(key, pair, item)'
    BY <1>2, <1>3 DEF IncludesJustified
  <2>1. PICK item \in states[key[1]] : IncludesFrom(key, pair, item)
    BY DEF RelInv, IncludesJustified
  <2>. QED  BY <1>1, <2>1, StaysJustified
<1>8. IncludesFull'
  <2>. SUFFICES ASSUME NEW s \in ReadingItems
                PROVE  (/\ SourceKey(s) \in DOMAIN includes
                        /\ RestIsEmpty(s[2]) /\ Straightly(s) => From(s)[0] \subseteq InIncludes(s))'
    BY <1>2, <1>3 DEF IncludesFull
  <2>1. /\ SourceKey(s) \in DOMAIN includes
        /\ RestIsEmpty(s[2]) /\ Straightly(s) => From(s)[0] \subseteq InIncludes(s)
    BY <1>2 DEF RelInv, IncludesFull, WalkInProgress
  <2>. QED  BY <1>1, <1>4, <2>1, StaysFull
<1>9. LookbackJustified'
  <2>1. DOMAIN lookback' = {}
    BY <1>2 DEF RelInv, InPhase, NoRelation
  <2>. QED  BY <2>1 DEF LookbackJustified
<1>. QED  BY <1>1, <1>5, <1>6, <1>7, <1>8, <1>9 DEF RelInv

\* What a step of Lookback leaves of the invariant.
LEMMA IncludesStay ==
  ASSUME RelInv, UNCHANGED <<vars, includes, emptyTable>>, phase = "lookback", phase' = "lookback"
  PROVE  IInv' /\ InPhase' /\ KeysFit' /\ IncludesJustified' /\ IncludesFull'
<1>1. IInv' /\ (Done' <=> Done) /\ IInv /\ UNCHANGED vars /\ UNCHANGED <<vars, emptyTable>>
  BY SameInv DEF RelInv
<1>2. ReadingItems' = ReadingItems /\ states' = states /\ g' = g
  BY <1>1, SameItems DEF vars
<1>3. InPhase'
  BY <1>1 DEF RelInv, InPhase
<1>4. KeysFit'
  BY <1>2 DEF RelInv, KeysFit, IsNonterminal
<1>5. IncludesJustified'
  <2>. SUFFICES ASSUME NEW key \in DOMAIN includes, NEW pair \in includes[key]
                PROVE  \E item \in states[key[1]] : IncludesFrom(key, pair, item)'
    BY <1>2 DEF IncludesJustified
  <2>1. PICK item \in states[key[1]] : IncludesFrom(key, pair, item)
    BY DEF RelInv, IncludesJustified
  <2>. QED  BY <1>1, <2>1, StaysJustified
<1>6. IncludesFull'
  <2>. SUFFICES ASSUME NEW s \in ReadingItems
                PROVE  (/\ SourceKey(s) \in DOMAIN includes
                        /\ RestIsEmpty(s[2]) /\ Straightly(s) => From(s)[0] \subseteq InIncludes(s))'
    BY <1>2 DEF IncludesFull
  <2>1. /\ SourceKey(s) \in DOMAIN includes
        /\ RestIsEmpty(s[2]) /\ Straightly(s) => From(s)[0] \subseteq InIncludes(s)
    BY DEF RelInv, IncludesFull
  <2>2. IncludesGrow
    BY DEF IncludesGrow
  <2>. QED  BY <1>1, <2>1, <2>2, StaysFull
<1>. QED  BY <1>1, <1>3, <1>4, <1>5, <1>6

LEMMA LookbackStays ==
  ASSUME UNCHANGED vars, NEW key, NEW pair, NEW src, LookbackFrom(key, pair, src)
  PROVE  LookbackFrom(key, pair, src)'
<1>1. LookbackKey(src)' = LookbackKey(src) /\ LhsOf(src)' = LhsOf(src) /\ From(src)' = From(src)
  BY SameGrammar, SameWay
<1>2. \A p, s : HasTransition(p, s)' <=> HasTransition(p, s)
  BY SameGrammar
<1>. QED  BY <1>1, <1>2 DEF LookbackFrom

LEMMA NextLookback ==
  ASSUME UNCHANGED vars, NEW src
  PROVE  InLookback(src)' = {p \in Nat : HasTransition(p, LhsOf(src)) =>
                               <<p, LhsOf(src)>> \in Pairs(lookback', LookbackKey(src))}
<1>1. LookbackKey(src)' = LookbackKey(src) /\ LhsOf(src)' = LhsOf(src)
  BY SameGrammar
<1>2. \A p, s : HasTransition(p, s)' <=> HasTransition(p, s)
  BY SameGrammar
<1>. QED  BY <1>1, <1>2 DEF InLookback

LEMMA MoreLookback ==
  ASSUME UNCHANGED vars, NEW src,
         Pairs(lookback, LookbackKey(src)) \subseteq Pairs(lookback', LookbackKey(src))
  PROVE  InLookback(src) \subseteq InLookback(src)'
BY NextLookback DEF InLookback

LEMMA VisitLookbackInv ==
  ASSUME RelInv, NEW src \in sources, VisitLookback(src)
  PROVE  RelInv'
<1>1. /\ phase = "lookback" /\ phase' = "lookback" /\ queue = <<>> /\ lookback' = lookback
      /\ sources' = sources \ {src} /\ src \in FinishedItems /\ StartWalk(src)
      /\ UNCHANGED vars /\ UNCHANGED <<vars, includes, emptyTable>>
  BY DEF RelInv, SourcesFit, VisitLookback, relationVars
<1>2. IInv' /\ InPhase' /\ KeysFit' /\ IncludesJustified' /\ IncludesFull' /\ IInv
  BY <1>1, IncludesStay DEF RelInv
<1>3. FinishedItems' = FinishedItems
  BY <1>1, SameItems
<1>4. SourcesFit'
  BY <1>1, <1>3 DEF RelInv, SourcesFit
<1>5. source' = src /\ queue' # <<>>
      /\ \A R : Walks(transitions, Rhs(g, src[2]), src[2].pos, From(src), queue', visited', R)
  BY <1>1, <1>2, WalkStarts
<1>6. Walking'
  <2>1. From(src)' = From(src)
    BY <1>1, SameWay
  <2>2. WalkOf(src, InLookback(src))'
    BY <1>1, <1>5, <2>1 DEF WalkOf, vars, Rhs
  <2>. QED  BY <1>1, <1>3, <1>5, <2>2 DEF Walking
<1>7. LookbackJustified'
  <2>. SUFFICES ASSUME NEW key \in DOMAIN lookback, NEW pair \in lookback[key]
                PROVE  \E s \in FinishedItems : LookbackFrom(key, pair, s)'
    BY <1>1, <1>3 DEF LookbackJustified
  <2>1. PICK s \in FinishedItems : LookbackFrom(key, pair, s)
    BY DEF RelInv, LookbackJustified
  <2>. QED  BY <1>1, <2>1, LookbackStays
<1>8. LookbackFull'
  <2>. SUFFICES ASSUME NEW s \in FinishedItems, s \notin sources', ~WalkInProgress(s)'
                PROVE  (Straightly(s) => From(s)[0] \subseteq InLookback(s))'
    BY <1>1, <1>3 DEF LookbackFull
  <2>1. s # src
    BY <1>5 DEF WalkInProgress
  <2>2. s \notin sources /\ ~WalkInProgress(s)
    BY <1>1, <2>1 DEF WalkInProgress
  <2>3. Straightly(s) => From(s)[0] \subseteq InLookback(s)
    BY <1>1, <2>2 DEF RelInv, LookbackFull
  <2>4. InLookback(s) \subseteq InLookback(s)'
    BY <1>1, MoreLookback
  <2>5. From(s)' = From(s) /\ (Straightly(s)' <=> Straightly(s))
    BY <1>1, SameWay
  <2>. QED  BY <2>3, <2>4, <2>5
<1>. QED  BY <1>2, <1>4, <1>6, <1>7, <1>8 DEF RelInv

LEMMA WalkLookbackInv ==
  ASSUME RelInv, WalkLookback
  PROVE  RelInv'
<1>. DEFINE at == Head(queue)
<1>1. /\ phase = "lookback" /\ phase' = "lookback" /\ queue # <<>>
      /\ sources' = sources /\ source' = source
      /\ UNCHANGED vars /\ UNCHANGED <<vars, includes, emptyTable>>
  BY DEF WalkLookback
<1>2. IInv' /\ InPhase' /\ KeysFit' /\ IncludesJustified' /\ IncludesFull' /\ IInv
  BY <1>1, IncludesStay DEF RelInv
<1>3. FinishedItems' = FinishedItems
  BY <1>1, SameItems
<1>4. SourcesFit'
  BY <1>1, <1>3 DEF RelInv, SourcesFit
<1>5. PICK src \in FinishedItems : source = src /\ WalkOf(src, InLookback(src))
  BY <1>1 DEF RelInv, Walking
<1>. DEFINE key == LookbackKey(src)
            new == <<at.state, LhsOf(src)>>
            is  == HasTransition(at.state, LhsOf(src))
<1>6. lookback' = IF is THEN Relate(lookback, key, {new}) ELSE lookback
  BY <1>5 DEF WalkLookback, IsOrigin
<1>7. /\ \A k : Pairs(lookback, k) \subseteq Pairs(lookback', k)
      /\ \A k \in DOMAIN lookback' : \A pair \in lookback'[k] :
           (k \in DOMAIN lookback /\ pair \in lookback[k]) \/ (is /\ k = key /\ pair = new)
      /\ is => new \in Pairs(lookback', key)
  <2>1. CASE is
    <3>. HIDE DEF key, new, is
    <3>1. lookback' = Relate(lookback, key, {new})
      BY <1>6, <2>1
    <3>2. /\ DOMAIN lookback' = DOMAIN lookback \cup {key}
          /\ \A k : Pairs(lookback, k) \subseteq Pairs(lookback', k)
          /\ \A k \in DOMAIN lookback' : \A pair \in lookback'[k] :
               (k \in DOMAIN lookback /\ pair \in lookback[k]) \/ (k = key /\ pair \in {new})
          /\ {new} \subseteq lookback'[key]
      BY <3>1, RelateFacts
    <3>3. new \in Pairs(lookback', key)
      BY <3>2 DEF Pairs
    <3>. QED  BY <2>1, <3>2, <3>3
  <2>2. CASE ~is
    BY <1>6, <2>2
  <2>. QED  BY <2>1, <2>2
<1>8. at.state \in Nat /\ at.pos \in 0 .. src[2].pos /\ at.state \in From(src)[at.pos]
  <2>1. queue \in Seq([state : Nat, pos : 0 .. src[2].pos])
    BY <1>5 DEF WalkOf, Walks
  <2>2. at \in [state : Nat, pos : 0 .. src[2].pos] /\ at \in ToSet(queue)
    BY <1>1, <2>1, HeadAndTail
  <2>. QED  BY <1>5, <2>2 DEF WalkOf, Walks
<1>9. /\ LhsOf(src)' = LhsOf(src) /\ LookbackKey(src)' = LookbackKey(src) /\ From(src)' = From(src)
      /\ InLookback(src) \subseteq InLookback(src)'
  BY <1>1, <1>7, SameGrammar, SameWay, MoreLookback
<1>10. at.state \in InLookback(src)'
  <2>1. InLookback(src)' = {p \in Nat : HasTransition(p, LhsOf(src)) =>
                              <<p, LhsOf(src)>> \in Pairs(lookback', LookbackKey(src))}
    BY <1>1, NextLookback
  <2>. QED  BY <1>7, <1>8, <2>1
<1>11. /\ Walks(transitions, Rhs(g, src[2]), src[2].pos, From(src), queue', visited', InLookback(src)')
       /\ queue' = <<>> /\ Straightly(src) => From(src)[0] \subseteq InLookback(src)'
  <2>1. Round(InLookback(src)')
    BY <1>5, <1>10 DEF Round, WalkLookback
  <2>. QED  BY <1>1, <1>2, <1>5, <1>9, <2>1, WalkGoesOn
<1>12. Walking'
  <2>1. WalkOf(src, InLookback(src))'
    BY <1>1, <1>9, <1>11 DEF WalkOf, vars, Rhs
  <2>. QED  BY <1>1, <1>3, <1>5, <2>1 DEF Walking
<1>13. LookbackJustified'
  <2>. SUFFICES ASSUME NEW k \in DOMAIN lookback', NEW pair \in lookback'[k]
                PROVE  \E s \in FinishedItems : LookbackFrom(k, pair, s)'
    BY <1>3 DEF LookbackJustified
  <2>1. CASE k \in DOMAIN lookback /\ pair \in lookback[k]
    <3>1. PICK s \in FinishedItems : LookbackFrom(k, pair, s)
      BY <2>1 DEF RelInv, LookbackJustified
    <3>. QED  BY <1>1, <3>1, LookbackStays
  <2>2. CASE is /\ k = key /\ pair = new
    <3>1. LookbackFrom(k, pair, src)
      BY <1>8, <2>2 DEF LookbackFrom
    <3>. QED  BY <1>1, <3>1, LookbackStays
  <2>. QED  BY <1>7, <2>1, <2>2
<1>14. LookbackFull'
  <2>. SUFFICES ASSUME NEW s \in FinishedItems, s \notin sources', ~WalkInProgress(s)'
                PROVE  (Straightly(s) => From(s)[0] \subseteq InLookback(s))'
    BY <1>1, <1>3 DEF LookbackFull
  <2>1. From(s)' = From(s) /\ (Straightly(s)' <=> Straightly(s)) /\ InLookback(s) \subseteq InLookback(s)'
    BY <1>1, <1>7, SameWay, MoreLookback
  <2>2. CASE s = src
    <3>1. queue' = <<>>
      BY <1>1, <1>5, <2>2 DEF WalkInProgress
    <3>. QED  BY <1>11, <2>1, <2>2, <3>1
  <2>3. CASE s # src
    <3>1. s \notin sources /\ ~WalkInProgress(s)
      BY <1>1, <1>5, <2>3 DEF WalkInProgress
    <3>2. Straightly(s) => From(s)[0] \subseteq InLookback(s)
      BY <1>1, <3>1 DEF RelInv, LookbackFull
    <3>. QED  BY <2>1, <3>2
  <2>. QED  BY <2>2, <2>3
<1>. QED  BY <1>2, <1>4, <1>12, <1>13, <1>14 DEF RelInv

LEMMA RelStutterInv ==
  ASSUME RelInv, UNCHANGED relationsVars
  PROVE  RelInv'
<1>1. /\ UNCHANGED vars /\ UNCHANGED <<vars, emptyTable>> /\ phase' = phase /\ sources' = sources
      /\ source' = source /\ queue' = queue /\ visited' = visited /\ includes' = includes
      /\ lookback' = lookback /\ emptyTable' = emptyTable
  BY DEF relationsVars, walkVars, relationVars
<1>2. IInv' /\ (Done' <=> Done) /\ IInv
  BY <1>1, SameInv DEF RelInv
<1>3. /\ ReadingItems' = ReadingItems /\ FinishedItems' = FinishedItems
      /\ states' = states /\ g' = g
  BY <1>1, SameItems DEF vars
<1>4. IncludesGrow
  BY <1>1 DEF IncludesGrow
<1>5. InPhase' /\ SourcesFit' /\ KeysFit'
  BY <1>1, <1>2, <1>3 DEF RelInv, InPhase, SourcesFit, KeysFit, IsNonterminal
<1>6. \A src : /\ From(src)' = From(src) /\ SourceKey(src)' = SourceKey(src)
               /\ (Straightly(src)' <=> Straightly(src)) /\ InLookback(src) \subseteq InLookback(src)'
               /\ (RestIsEmpty(src[2])' <=> RestIsEmpty(src[2]))
               /\ (WalkInProgress(src)' <=> WalkInProgress(src))
  BY <1>1, SameWay, SameGrammar, MoreLookback, SameRest DEF WalkInProgress
<1>7. Walking'
  <2>. SUFFICES ASSUME NEW src, src = source, queue # <<>>
                PROVE  (/\ phase = "includes" => /\ src \in ReadingItems /\ RestIsEmpty(src[2])
                                                 /\ SourceKey(src) \in DOMAIN includes
                                                 /\ WalkOf(src, InIncludes(src))
                        /\ phase = "lookback" => src \in FinishedItems /\ WalkOf(src, InLookback(src)))'
    BY <1>1 DEF Walking
  <2>1. /\ phase = "includes" => /\ src \in ReadingItems /\ RestIsEmpty(src[2])
                                 /\ SourceKey(src) \in DOMAIN includes
                                 /\ WalkOf(src, InIncludes(src))
        /\ phase = "lookback" => src \in FinishedItems /\ WalkOf(src, InLookback(src))
    BY DEF RelInv, Walking
  <2>2. InIncludes(src)' = InIncludes(src) /\ InLookback(src)' = InLookback(src)
    <3>1. LhsOf(src)' = LhsOf(src)
      BY <1>1, SameGrammar
    <3>2. InLookback(src)' = InLookback(src)
      BY <1>1, NextLookback DEF InLookback
    <3>. QED  BY <1>1, <1>6, <3>1, <3>2 DEF InIncludes
  <2>3. /\ WalkOf(src, InIncludes(src))' <=> WalkOf(src, InIncludes(src))
        /\ WalkOf(src, InLookback(src))' <=> WalkOf(src, InLookback(src))
    BY <1>1, <1>3, <1>6, <2>2 DEF WalkOf, vars, Rhs
  <2>. QED  BY <1>1, <1>3, <1>6, <2>1, <2>3
<1>8. IncludesJustified'
  <2>. SUFFICES ASSUME NEW key \in DOMAIN includes, NEW pair \in includes[key]
                PROVE  \E item \in states[key[1]] : IncludesFrom(key, pair, item)'
    BY <1>1, <1>3 DEF IncludesJustified
  <2>1. PICK item \in states[key[1]] : IncludesFrom(key, pair, item)
    BY DEF RelInv, IncludesJustified
  <2>. QED  BY <1>1, <2>1, StaysJustified
<1>9. IncludesFull'
  <2>. SUFFICES ASSUME phase # "states", NEW s \in ReadingItems,
                       ~(phase = "includes" /\ (s \in sources \/ WalkInProgress(s)))
                PROVE  (/\ SourceKey(s) \in DOMAIN includes
                        /\ RestIsEmpty(s[2]) /\ Straightly(s) => From(s)[0] \subseteq InIncludes(s))'
    BY <1>1, <1>3, <1>6 DEF IncludesFull
  <2>1. /\ SourceKey(s) \in DOMAIN includes
        /\ RestIsEmpty(s[2]) /\ Straightly(s) => From(s)[0] \subseteq InIncludes(s)
    BY DEF RelInv, IncludesFull
  <2>. QED  BY <1>1, <1>4, <2>1, StaysFull
<1>10. LookbackJustified'
  <2>. SUFFICES ASSUME NEW key \in DOMAIN lookback, NEW pair \in lookback[key]
                PROVE  \E s \in FinishedItems : LookbackFrom(key, pair, s)'
    BY <1>1, <1>3 DEF LookbackJustified
  <2>1. PICK s \in FinishedItems : LookbackFrom(key, pair, s)
    BY DEF RelInv, LookbackJustified
  <2>. QED  BY <1>1, <2>1, LookbackStays
<1>11. LookbackFull'
  <2>. SUFFICES ASSUME phase = "lookback", NEW s \in FinishedItems, s \notin sources, ~WalkInProgress(s)
                PROVE  (Straightly(s) => From(s)[0] \subseteq InLookback(s))'
    BY <1>1, <1>3, <1>6 DEF LookbackFull
  <2>1. Straightly(s) => From(s)[0] \subseteq InLookback(s)
    BY DEF RelInv, LookbackFull
  <2>. QED  BY <1>6, <2>1
<1>. QED  BY <1>2, <1>5, <1>7, <1>8, <1>9, <1>10, <1>11 DEF RelInv

LEMMA RelStepInv == RelInv /\ [RelStep]_relationsVars => RelInv'
<1>. SUFFICES ASSUME RelInv, [RelStep]_relationsVars PROVE RelInv'
  OBVIOUS
<1>1. CASE ConstructStates
  BY <1>1, ConstructStatesInv
<1>2. CASE BeginIncludes
  BY <1>2, BeginIncludesInv
<1>3. CASE WalkInclude
  BY <1>3, WalkIncludeInv
<1>4. CASE BeginLookback
  BY <1>4, BeginLookbackInv
<1>5. CASE WalkLookback
  BY <1>5, WalkLookbackInv
<1>6. ASSUME NEW src \in sources, VisitInclude(src) PROVE RelInv'
  BY <1>6, VisitIncludeInv
<1>7. ASSUME NEW src \in sources, VisitLookback(src) PROVE RelInv'
  BY <1>7, VisitLookbackInv
<1>8. CASE UNCHANGED relationsVars
  BY <1>8, RelStutterInv
<1>. QED
  BY <1>1, <1>2, <1>3, <1>4, <1>5, <1>6, <1>7, <1>8 DEF RelStep

LEMMA RelInvariant == RelSpec => []RelInv
BY RelInitInv, RelStepInv, PTL DEF RelSpec

-----------------------------------------------------------------------------
(* The relations against their definitions *)

LEMMA RestIsTail ==
  ASSUME IInv, NEW i \in DOMAIN states, NEW item \in states[i], ~IsFinal(g, item)
  PROVE  /\ item.rule \in RuleIndex(g)
         /\ item.pos + 1 \in DOMAIN g.rules[item.rule].rhs
         /\ Rest(item) = Suffix(g.rules[item.rule].rhs, item.pos + 1)
         /\ Rest(item) \in Tails(g)
<1>1. WellFormed(g) /\ item \in Item(g)
  BY StateFacts DEF IInv
<1>2. item.rule \in RuleIndex(g) /\ item.pos \in Nat /\ item.pos < Len(Rhs(g, item))
  <2>1. g.rules[item.rule] \in Rule
    BY <1>1, ElementOfSeq DEF WellFormed, Item, RuleIndex
  <2>2. Len(Rhs(g, item)) \in Nat
    BY <2>1 DEF Rule, Rhs
  <2>. QED  BY <1>1, <2>2 DEF Item, IsFinal
<1>3. g.rules[item.rule].rhs \in Seq(Symbol)
  <2>1. g.rules[item.rule] \in Rule
    BY <1>1, <1>2, ElementOfSeq DEF WellFormed, RuleIndex
  <2>. QED  BY <2>1 DEF Rule
<1>. QED  BY <1>2, <1>3 DEF Rest, Rhs, Tails

LEMMA IncludesSoundInv == RelInv => IncludesSound
<1>. SUFFICES ASSUME RelInv, NEW key \in DOMAIN includes, NEW pair \in includes[key]
              PROVE  pair \in TrueIncludes(key)
  BY DEF IncludesSound
<1>0. IInv /\ WellFormed(g) /\ emptyTable = NothingStored /\ key[1] \in DOMAIN states
  BY GrammarsAssumption DEF RelInv, IInv, TypeOK, InPhase, KeysFit
<1>1. PICK item \in states[key[1]] : IncludesFrom(key, pair, item)
  BY DEF RelInv, IncludesJustified
<1>2. Reads(g, item, key[2]) /\ RestIsEmpty(item)
  BY <1>1 DEF IncludesFrom
<1>3. AllIn(Rest(item), Nullable(g))
  <2>1. CASE Rest(item) = <<>>
    BY <2>1 DEF AllIn
  <2>2. CASE IsEmptySeq(g, NothingStored, Rest(item))
    <3>1. Rest(item) \in Tails(g)
      BY <1>0, <1>2, RestIsTail DEF Reads
    <3>. QED  BY <1>0, <2>2, <3>1, NothingFits, EmptyOfTail
  <2>. QED  BY <1>0, <1>2, <2>1, <2>2 DEF RestIsEmpty
<1>. QED  BY <1>1, <1>2, <1>3 DEF IncludesFrom, TrueIncludes

\* Includes never relates a pair that its definition does not: empty() is right
\* where it says yes and the walks do not leave the way back.
THEOREM IncludesIsSound == RelSpec => []IncludesSound
BY IncludesSoundInv, RelInvariant, PTL

\* On the way back from an item, the states have the item at each read position.
LEMMA ItemsOnTheWay ==
  ASSUME IInv, NEW i \in DOMAIN states, NEW item \in states[i]
  PROVE  \A m \in 0 .. item.pos : \A k \in Origins(i, item)[m] :
           k \in DOMAIN states /\ [rule |-> item.rule, pos |-> m] \in states[k]
<1>. DEFINE Holds(m, k) == k \in DOMAIN states /\ [rule |-> item.rule, pos |-> m] \in states[k]
            P == item.pos
            rhs == Rhs(g, item)
            from == Origins(i, item)
            T == {m \in 0 .. P : \A k \in from[m] : Holds(m, k)}
<1>1. /\ item \in Item(g) /\ P \in Nat /\ item = [rule |-> item.rule, pos |-> P]
      /\ \A k \in DOMAIN states : states[k] \subseteq Item(g)
  BY StateFacts DEF IInv, Item
<1>2. IsWay(from, transitions, rhs, i, P)
  <2>1. <<i, item>>[1] = i /\ <<i, item>>[2] = item /\ From(<<i, item>>) = Origins(i, item)
    BY DEF From
  <2>2. IsWay(From(<<i, item>>), transitions, Rhs(g, <<i, item>>[2]), <<i, item>>[1], <<i, item>>[2].pos)
    BY <1>1, <2>1, WayOfSource
  <2>. QED  BY <2>1, <2>2
<1>3. P \in T
  <2>1. from[P] = {i}
    <3>1. P \in Nat
      BY <1>1
    <3>. HIDE DEF from, P, rhs, T
    <3>2. from = [m \in 0 .. P |-> IF m = P THEN {i} ELSE UNION {Before(transitions, k, rhs[m + 1]) : k \in from[m + 1]}]
      BY ONLY <1>2 DEF IsWay, WayFrom
    <3>3. P \in 0 .. P
      BY ONLY <3>1
    <3>. QED  BY ONLY <3>2, <3>3
  <2>. QED  BY <1>1, <2>1
<1>4. ASSUME NEW m \in 0 .. P - 1, m + 1 \in T PROVE m \in T
  <2>. SUFFICES ASSUME NEW k \in from[m] PROVE Holds(m, k)
    BY <1>1
  <2>1. LeadsOn(from, transitions, rhs, m, k)
    BY <1>1, <1>2, WayFacts
  <2>2. PICK b \in from[m + 1] : k \in Before(transitions, b, rhs[m + 1])
    BY <2>1 DEF LeadsOn
  <2>3. PICK e \in transitions : e[1] = k /\ e[2] = rhs[m + 1] /\ e[3] = b
    BY <2>2 DEF Before
  <2>4. k \in DOMAIN states
    BY <2>3 DEF IInv, TypeOK
  <2>. DEFINE next == [rule |-> item.rule, pos |-> m + 1]
  <2>5. next \in states[e[3]] /\ IsKernel(next)
    BY <1>4, <2>2, <2>3 DEF IsKernel
  <2>6. PICK prev \in states[k] : Reads(g, prev, e[2]) /\ next = Step(prev) /\ prev \in Item(g)
    BY <2>3, <2>5, SteppedOver
  <2>7. next.rule = prev.rule /\ next.pos = prev.pos + 1 /\ prev.pos \in Nat
    BY <2>6, SteppedItem
  <2>8. prev.rule = item.rule /\ prev.pos = m
    BY <1>4, <2>7
  <2>9. prev = [rule |-> item.rule, pos |-> m]
    BY <2>6, <2>8 DEF Item
  <2>. QED  BY <2>4, <2>6, <2>9
<1>5. \A m \in 0 .. P : m \in T
  <2>. HIDE DEF T
  <2>. QED  BY <1>1, <1>3, <1>4, DownwardInduction
<1>. QED  BY <1>5

\* A rule that is not the start rule begins where its left-hand side leads on.
LEMMA RuleBegan ==
  ASSUME IInv, Done, GrammarFits(g), NEW i \in DOMAIN states, NEW item \in states[i], IsFinal(g, item),
         NEW p \in Origins(i, item)[0]
  PROVE  HasTransition(p, g.rules[item.rule].lhs)
<1>1. item \in Item(g) /\ item.pos \in Nat /\ item.rule \in RuleIndex(g)
  BY StateFacts DEF IInv, Item
<1>2. p \in DOMAIN states /\ NewItem(item.rule) \in states[p]
  BY <1>1, ItemsOnTheWay DEF NewItem
<1>3. item.rule # StartRule
  <2>. SUFFICES ASSUME item.rule = StartRule PROVE FALSE
    OBVIOUS
  <2>1. item.pos < 2
    BY StartItems
  <2>2. PICK s : g.rules[StartRule].rhs = <<s, EndSymbol>>
    BY DEF GrammarFits
  <2>3. Len(<<s, EndSymbol>>) = 2
    OBVIOUS
  <2>. QED  BY <2>1, <2>2, <2>3 DEF IsFinal, Rhs
<1>4. RuleBegins(Built, p, item.rule)
  BY <1>1, <1>2, BuiltFits DEF AutomatonFits, Built
<1>5. Leads(Built, p, g.rules[item.rule].lhs)
  BY <1>2, <1>3, <1>4 DEF RuleBegins, Built
<1>. QED  BY <1>5 DEF Leads, Built, HasTransition

LEMMA StraightItem ==
  ASSUME NEW i, NEW item
  PROVE  /\ From(<<i, item>>) = Origins(i, item)
         /\ Straight(i, item) <=> Straightly(<<i, item>>)
<1>1. <<i, item>>[1] = i /\ <<i, item>>[2] = item
  OBVIOUS
<1>. QED  BY <1>1 DEF From, Straight, Straightly, NoneTwice

LEMMA IncludesCompleteInv ==
  ASSUME RelInv, GrammarFits(g) PROVE IncludesComplete
<1>. SUFFICES ASSUME phase = "lookback", Apart, NEW key \in DOMAIN includes,
                     \A item \in states[key[1]] : Reads(g, item, key[2]) => Straight(key[1], item),
                     NEW pair \in TrueIncludes(key)
              PROVE  pair \in includes[key]
  BY DEF IncludesComplete
<1>0. /\ IInv /\ WellFormed(g) /\ emptyTable = NothingStored /\ key[1] \in DOMAIN states
      /\ IsNonterminal(g, key[2]) /\ key = <<key[1], key[2]>>
  BY GrammarsAssumption DEF RelInv, IInv, TypeOK, InPhase, KeysFit
<1>1. PICK item \in states[key[1]] :
        /\ Reads(g, item, key[2]) /\ AllIn(Rest(item), Nullable(g))
        /\ \E p \in Origins(key[1], item)[0] : pair = <<p, g.rules[item.rule].lhs>>
  BY DEF TrueIncludes
<1>2. PICK p \in Origins(key[1], item)[0] : pair = <<p, g.rules[item.rule].lhs>>
  BY <1>1
<1>. DEFINE src == <<key[1], item>>
<1>3. src \in ReadingItems
  <2>1. ReadsNonterminal(item)
    BY <1>0, <1>1 DEF ReadsNonterminal, Reads
  <2>. QED  BY <1>0, <2>1, IsReadingItem
<1>4. RestIsEmpty(item)
  <2>1. Rest(item) \in Tails(g)
    BY <1>0, <1>1, RestIsTail DEF Reads
  <2>2. UsedOnce(g, Nullable(g)) /\ DefinesNoTerminal(g)
    BY <1>0, FittingDefinesNone DEF Apart
  <2>3. IsEmptySeq(g, NothingStored, Rest(item))
    BY <1>0, <1>1, <2>1, <2>2, NothingFits, EmptyOfTail
  <2>. QED  BY <1>0, <2>3 DEF RestIsEmpty
<1>5. Straightly(src) /\ From(src) = Origins(key[1], item)
  BY <1>1, StraightItem
<1>6. src[1] = key[1] /\ src[2] = item
  OBVIOUS
<1>7. SourceKey(src) \in DOMAIN includes /\ From(src)[0] \subseteq InIncludes(src)
  <2>. HIDE DEF src
  <2>. QED  BY <1>3, <1>4, <1>5, <1>6 DEF RelInv, IncludesFull
<1>8. <<p, LhsOf(src)>> \in includes[SourceKey(src)]
  <2>. HIDE DEF src
  <2>. QED  BY <1>2, <1>5, <1>7 DEF InIncludes
<1>9. SourceKey(src) = <<key[1], key[2]>>
  BY <1>1 DEF SourceKey, Reads
<1>. QED  BY <1>0, <1>2, <1>8, <1>9 DEF LhsOf

\* Includes relates every pair of its definition where no walk meets a state at
\* two read positions and no symbol that can be empty is used twice: empty() then
\* says yes of every rest that can be empty.
THEOREM IncludesIsComplete ==
  ASSUME \A gr \in Grammars : GrammarFits(gr)
  PROVE  RelSpec => []IncludesComplete
<1>1. RelInv => IncludesComplete
  <2>1. RelInv => g \in Grammars
    BY DEF RelInv, IInv, TypeOK
  <2>. QED  BY <2>1, IncludesCompleteInv
<1>. QED  BY <1>1, RelInvariant, PTL

LEMMA LookbackExactInv ==
  ASSUME RelInv, GrammarFits(g) PROVE LookbackExact
<1>. SUFFICES ASSUME RelInv, RelDone, NEW i \in DOMAIN states, NEW item \in states[i], IsFinal(g, item)
              PROVE  LET key == <<i, item.rule>>
                         OnTheWay == UNION {Origins(i, item)[m] : m \in 1 .. item.pos}
                     IN  /\ Straight(i, item) => TrueLookback(i, item) \subseteq Pairs(lookback, key)
                         /\ (\A k \in OnTheWay : ~HasTransition(k, g.rules[item.rule].lhs))
                              => Pairs(lookback, key) \subseteq TrueLookback(i, item)
  BY DEF LookbackExact
<1>. DEFINE src == <<i, item>>
            lhs == g.rules[item.rule].lhs
            key == <<i, item.rule>>
<1>1. /\ IInv /\ Done /\ phase = "lookback" /\ queue = <<>> /\ sources = {}
  BY DEF RelInv, IInv, TypeOK, InPhase, RelDone
<1>2. src \in FinishedItems
  BY IsFinishedItem DEF IsFinalItem
<1>3. src[1] = i /\ src[2] = item /\ LhsOf(src) = lhs /\ LookbackKey(src) = key /\ From(src) = Origins(i, item)
  BY StraightItem DEF LhsOf, LookbackKey
<1>4. item \in Item(g) /\ item.pos \in Nat /\ item.rule \in RuleIndex(g)
  BY <1>1, <1>2, <1>3, SourceFacts DEF Item
<1>5. ASSUME Straight(i, item), NEW p \in Origins(i, item)[0]
      PROVE  <<p, lhs>> \in Pairs(lookback, key)
  <2>1. p \in InLookback(src)
    <3>. HIDE DEF src
    <3>1. Straightly(src)
      BY <1>5, StraightItem DEF src
    <3>. QED  BY <1>1, <1>2, <1>3, <1>5, <3>1 DEF RelInv, LookbackFull, WalkInProgress
  <2>2. HasTransition(p, lhs)
    BY <1>1, <1>4, <1>5, RuleBegan
  <2>. HIDE DEF src
  <2>. QED  BY <1>3, <2>1, <2>2 DEF InLookback
<1>6. ASSUME \A m \in 1 .. item.pos : \A k \in Origins(i, item)[m] : ~HasTransition(k, lhs),
             NEW pair \in Pairs(lookback, key)
      PROVE  pair \in TrueLookback(i, item)
  <2>1. key \in DOMAIN lookback /\ pair \in lookback[key]
    BY <1>6 DEF Pairs
  <2>2. PICK s \in FinishedItems : LookbackFrom(key, pair, s)
    BY <2>1 DEF RelInv, LookbackJustified
  <2>3. /\ s[1] \in DOMAIN states /\ s[2] \in Item(g) /\ s = <<s[1], s[2]>> /\ IsFinal(g, s[2])
    BY <1>1, <2>2, SourceFacts
  <2>4. s[1] = i /\ s[2].rule = item.rule
    BY <2>2 DEF LookbackFrom, LookbackKey
  <2>5. s[2] = item
    BY <1>4, <2>3, <2>4 DEF Item, IsFinal, Rhs
  <2>6. PICK m \in 0 .. item.pos : \E p \in Origins(i, item)[m] : HasTransition(p, lhs) /\ pair = <<p, lhs>>
    BY <2>2, <2>4, <2>5 DEF LookbackFrom, From, LhsOf
  <2>7. m = 0
    BY <1>4, <1>6, <2>6
  <2>. QED  BY <2>6, <2>7 DEF TrueLookback
<1>. QED  BY <1>5, <1>6 DEF TrueLookback

\* Lookback relates every state a rule may have begun in where no walk meets a
\* state at two read positions, since a rule is only begun where its left-hand
\* side leads on; and nothing else unless a state on the way has a transition over
\* the left-hand side.
THEOREM LookbackIsExact ==
  ASSUME \A gr \in Grammars : GrammarFits(gr)
  PROVE  RelSpec => []LookbackExact
<1>1. RelInv => LookbackExact
  <2>1. RelInv => g \in Grammars
    BY DEF RelInv, IInv, TypeOK
  <2>. QED  BY <2>1, LookbackExactInv
<1>. QED  BY <1>1, RelInvariant, PTL

\* The assertions of the walks: the pair has a key to go to, and a state behind the
\* beginning of the way has a transition back over the symbol before the read
\* position.
WayGoesOn ==
  queue # <<>> =>
    /\ phase = "includes" => SourceKey(source) \in DOMAIN includes
    /\ Head(queue).pos # 0 => Back(Head(queue).state, Rhs(g, source[2])[Head(queue).pos]) # {}

\* No assertion of Includes and Lookback fails.
THEOREM AssertionsOfWalks == RelSpec => []WayGoesOn
<1>1. RelInv => WayGoesOn
  <2>. SUFFICES ASSUME RelInv, queue # <<>> PROVE
         /\ phase = "includes" => SourceKey(source) \in DOMAIN includes
         /\ Head(queue).pos # 0 => Back(Head(queue).state, Rhs(g, source[2])[Head(queue).pos]) # {}
    BY DEF WayGoesOn
  <2>. DEFINE at == Head(queue)
  <2>1. phase = "includes" => SourceKey(source) \in DOMAIN includes
    BY DEF RelInv, Walking
  <2>2. IInv /\ (phase = "includes" \/ phase = "lookback")
    BY DEF RelInv, InPhase
  <2>3. PICK src \in ReadingItems \cup FinishedItems : \E R : source = src /\ WalkOf(src, R)
    BY <2>2 DEF RelInv, Walking
  <2>4. /\ src[1] \in DOMAIN states /\ src[2] \in states[src[1]] /\ src[2].pos \in Nat
    BY <2>2, <2>3, SourceFacts
  <2>5. at.pos \in 0 .. src[2].pos /\ at.state \in From(src)[at.pos]
    <3>1. queue \in Seq([state : Nat, pos : 0 .. src[2].pos])
      BY <2>3 DEF WalkOf, Walks
    <3>2. at \in [state : Nat, pos : 0 .. src[2].pos] /\ at \in ToSet(queue)
      BY <3>1, HeadAndTail
    <3>. QED  BY <2>3, <3>2 DEF WalkOf, Walks
  <2>. DEFINE item == [rule |-> src[2].rule, pos |-> at.pos]
  <2>6. at.state \in DOMAIN states /\ item \in states[at.state]
    BY <2>2, <2>4, <2>5, ItemsOnTheWay DEF From
  <2>7. ASSUME at.pos # 0 PROVE Back(at.state, Rhs(g, src[2])[at.pos]) # {}
    <3>1. at.state # 1
      BY <2>2, <2>6, <2>7, StartItems
    <3>2. PICK e \in transitions : e[3] = at.state
      BY <2>2, <2>6, <3>1 DEF IInv, Reachable
    <3>3. PICK prev \in states[e[1]] : Reads(g, prev, e[2]) /\ item = Step(prev) /\ prev \in Item(g)
      BY <2>2, <2>5, <2>6, <2>7, <3>2, SteppedOver DEF IsKernel
    <3>4. Rhs(g, item)[item.pos] = e[2]
      BY <3>3, SteppedItem
    <3>5. Rhs(g, src[2])[at.pos] = e[2]
      BY <3>4 DEF Rhs
    <3>. QED  BY <3>2, <3>5 DEF Back
  <2>. QED  BY <2>1, <2>3, <2>7
<1>. QED  BY <1>1, RelInvariant, PTL

-----------------------------------------------------------------------------
(* Growing a set by rounds *)

\* f[n] is what n rounds make.
IsGrowth(f, Grow, N) == f = [n \in 0 .. N |-> IF n = 0 THEN {} ELSE Grow[f[n - 1]]]

LEMMA GrowthFacts ==
  ASSUME NEW N \in Nat, NEW Grow, NEW f, IsGrowth(f, Grow, N)
  PROVE  f[0] = {} /\ \A n \in 0 .. N - 1 : f[n + 1] = Grow[f[n]]
<1>1. \A n \in 0 .. N : f[n] = IF n = 0 THEN {} ELSE Grow[f[n - 1]]
  BY DEF IsGrowth
<1>2. 0 \in 0 .. N
  OBVIOUS
<1>3. \A n \in 0 .. N - 1 : n + 1 \in 0 .. N /\ n + 1 # 0 /\ (n + 1) - 1 = n
  OBVIOUS
<1>. QED  BY <1>1, <1>2, <1>3

LEMMA GrowthExists ==
  ASSUME NEW Grow
  PROVE  \A N \in Nat : \E f : IsGrowth(f, Grow, N)
<1>. DEFINE C == {N \in Nat : \E f : IsGrowth(f, Grow, N)}
<1>1. 0 \in C
  <2>1. \A n \in 0 .. 0 : n = 0
    OBVIOUS
  <2>2. IsGrowth([n \in 0 .. 0 |-> {}], Grow, 0)
    BY <2>1 DEF IsGrowth
  <2>. QED  BY <2>2
<1>2. ASSUME NEW N \in C PROVE N + 1 \in C
  <2>1. PICK f : IsGrowth(f, Grow, N)
    OBVIOUS
  <2>. DEFINE h == [n \in 0 .. N + 1 |-> IF n = N + 1 THEN Grow[f[N]] ELSE f[n]]
  <2>2. N \in Nat /\ N + 1 \in Nat /\ N + 1 # 0 /\ (N + 1) - 1 = N /\ N # N + 1 /\ N \in 0 .. N + 1
    OBVIOUS
  <2>3. f[0] = {} /\ \A n \in 0 .. N - 1 : f[n + 1] = Grow[f[n]]
    BY <2>1, <2>2, GrowthFacts
  <2>4. \A n \in 0 .. N : n \in 0 .. N + 1 /\ n # N + 1
    BY <2>2
  <2>5. \A n \in 0 .. N : h[n] = f[n]
    BY <2>4
  <2>6. ASSUME NEW n \in 0 .. N + 1 PROVE h[n] = IF n = 0 THEN {} ELSE Grow[h[n - 1]]
    <3>1. CASE n = 0
      <4>1. 0 \in 0 .. N
        BY <2>2
      <4>. QED  BY <2>3, <2>5, <3>1, <4>1
    <3>2. CASE n = N + 1
      <4>1. h[n] = Grow[f[N]] /\ n - 1 = N
        BY <2>2, <3>2
      <4>2. h[N] = f[N]
        BY <2>2, <2>5
      <4>. HIDE DEF h
      <4>. QED  BY <2>2, <3>2, <4>1, <4>2
    <3>3. CASE n # 0 /\ n # N + 1
      <4>. HIDE DEF h
      <4>1. n - 1 \in 0 .. N - 1 /\ (n - 1) + 1 = n /\ n \in 0 .. N /\ n - 1 \in 0 .. N
        BY <2>2, <3>3
      <4>2. f[(n - 1) + 1] = Grow[f[n - 1]]
        BY <2>3, <4>1
      <4>. QED  BY <2>5, <3>3, <4>1, <4>2
    <3>. QED  BY <3>1, <3>2, <3>3
  <2>7. h = [n \in 0 .. N + 1 |-> h[n]]
    OBVIOUS
  <2>. HIDE DEF h
  <2>8. IsGrowth(h, Grow, N + 1)
    BY <2>6, <2>7 DEF IsGrowth
  <2>. QED  BY <2>2, <2>8
<1>3. C = Nat
  <2>. HIDE DEF C
  <2>0. C \subseteq Nat
    BY DEF C
  <2>. QED  BY <1>1, <1>2, <2>0, SetInduction
<1>. QED  BY <1>3

LEMMA GrownIsLast ==
  ASSUME NEW Grow, NEW All, IsFiniteSet(All)
  PROVE  \E f : IsGrowth(f, Grow, Cardinality(All)) /\ Grown(Grow, All) = f[Cardinality(All)]
<1>. DEFINE N == Cardinality(All)
            last == CHOOSE f : IsGrowth(f, Grow, N)
<1>1. N \in Nat
  BY FS_CardinalityType
<1>2. IsGrowth(last, Grow, N)
  BY <1>1, GrowthExists
<1>3. Grown(Grow, All) = last[N]
  BY DEF Grown, IsGrowth
<1>. QED  BY <1>2, <1>3

\* Nothing grows out of a set that Grow does not lead out of.
LEMMA GrownWithin ==
  ASSUME NEW All, IsFiniteSet(All), NEW Grow \in [SUBSET All -> SUBSET All],
         NEW M, \A S \in SUBSET All : S \subseteq M => Grow[S] \subseteq M
  PROVE  Grown(Grow, All) \subseteq All /\ Grown(Grow, All) \subseteq M
<1>. DEFINE N == Cardinality(All)
<1>1. N \in Nat
  BY FS_CardinalityType
<1>2. PICK f : IsGrowth(f, Grow, N) /\ Grown(Grow, All) = f[N]
  BY GrownIsLast
<1>3. f[0] = {} /\ \A n \in 0 .. N - 1 : f[n + 1] = Grow[f[n]]
  BY <1>1, <1>2, GrowthFacts
<1>. DEFINE T == {n \in Nat : n <= N => f[n] \in SUBSET All /\ f[n] \subseteq M}
<1>. HIDE DEF N
<1>4. 0 \in T
  BY <1>3
<1>5. ASSUME NEW n \in T PROVE n + 1 \in T
  <2>. SUFFICES ASSUME n + 1 <= N PROVE f[n + 1] \in SUBSET All /\ f[n + 1] \subseteq M
    OBVIOUS
  <2>1. n \in 0 .. N - 1 /\ n <= N
    BY <1>1
  <2>2. f[n] \in SUBSET All /\ f[n] \subseteq M
    BY <2>1
  <2>. QED  BY <1>3, <2>1, <2>2
<1>6. T = Nat
  <2>. HIDE DEF T
  <2>0. T \subseteq Nat
    BY DEF T
  <2>. QED  BY <1>4, <1>5, <2>0, SetInduction
<1>. QED  BY <1>1, <1>2, <1>6

\* If no round takes anything away, the last one has nothing left to add.
LEMMA GrownIsClosed ==
  ASSUME NEW All, IsFiniteSet(All), NEW Grow \in [SUBSET All -> SUBSET All],
         \A S \in SUBSET All : S \subseteq Grow[S]
  PROVE  Grow[Grown(Grow, All)] = Grown(Grow, All)
<1>. DEFINE N == Cardinality(All)
<1>1. N \in Nat
  BY FS_CardinalityType
<1>2. PICK f : IsGrowth(f, Grow, N) /\ Grown(Grow, All) = f[N]
  BY GrownIsLast
<1>3. f[0] = {} /\ \A n \in 0 .. N - 1 : f[n + 1] = Grow[f[n]]
  BY <1>1, <1>2, GrowthFacts
<1>. DEFINE T == {n \in Nat : n <= N => /\ f[n] \in SUBSET All
                                        /\ Grow[f[n]] = f[n] \/ Cardinality(f[n]) >= n}
<1>4. 0 \in T
  <2>. HIDE DEF N
  <2>1. Cardinality({}) = 0 /\ f[0] \in SUBSET All /\ f[0] = {}
    BY <1>3, FS_EmptySet
  <2>2. Cardinality(f[0]) >= 0
    BY <2>1
  <2>. QED  BY <2>1, <2>2
<1>5. ASSUME NEW n \in T PROVE n + 1 \in T
  <2>. HIDE DEF N
  <2>. SUFFICES ASSUME n + 1 <= N
                PROVE  f[n + 1] \in SUBSET All /\ (Grow[f[n + 1]] = f[n + 1] \/ Cardinality(f[n + 1]) >= n + 1)
    OBVIOUS
  <2>1. n \in 0 .. N - 1 /\ n <= N
    BY <1>1
  <2>2. f[n] \in SUBSET All /\ (Grow[f[n]] = f[n] \/ Cardinality(f[n]) >= n) /\ f[n + 1] = Grow[f[n]]
    BY <1>3, <2>1
  <2>3. CASE Grow[f[n]] # f[n]
    <3>1. f[n] \subseteq f[n + 1] /\ f[n + 1] \in SUBSET All /\ f[n] # f[n + 1]
      BY <2>2, <2>3
    <3>2. IsFiniteSet(f[n + 1]) /\ IsFiniteSet(f[n])
      BY <3>1, FS_Subset
    <3>3. Cardinality(f[n]) \in Nat /\ Cardinality(f[n + 1]) \in Nat
      BY <3>2, FS_CardinalityType
    <3>4. Cardinality(f[n]) < Cardinality(f[n + 1])
      BY <3>1, <3>2, <3>3, FS_Subset
    <3>. QED  BY <2>2, <2>3, <3>1, <3>3, <3>4
  <2>. QED  BY <2>2, <2>3
<1>6. T = Nat
  <2>. HIDE DEF T
  <2>0. T \subseteq Nat
    BY DEF T
  <2>. QED  BY <1>4, <1>5, <2>0, SetInduction
<1>7. f[N] \in SUBSET All /\ (Grow[f[N]] = f[N] \/ Cardinality(f[N]) >= N)
  <2>. HIDE DEF N
  <2>. QED  BY <1>1, <1>6
<1>8. CASE Cardinality(f[N]) >= N
  <2>1. IsFiniteSet(f[N]) /\ Cardinality(f[N]) \in Nat
    BY <1>7, FS_Subset, FS_CardinalityType
  <2>2. f[N] = All
    BY <1>1, <1>7, <1>8, <2>1, FS_Subset
  <2>. QED  BY <1>2, <2>2
<1>. QED  BY <1>2, <1>7, <1>8

-----------------------------------------------------------------------------
(* The way back from an item *)

LEMMA OriginsFacts ==
  ASSUME IInv, NEW i \in DOMAIN states, NEW item \in states[i]
  PROVE  /\ item.pos \in Nat
         /\ Origins(i, item)[item.pos] = {i}
         /\ \A m \in 0 .. item.pos - 1 :
              \A k : LeadsOn(Origins(i, item), transitions, Rhs(g, item), m, k)
<1>1. item.pos \in Nat
  BY StateFacts DEF IInv, Item
<1>2. <<i, item>>[1] = i /\ <<i, item>>[2] = item /\ From(<<i, item>>) = Origins(i, item)
  BY DEF From
<1>3. IsWay(From(<<i, item>>), transitions, Rhs(g, <<i, item>>[2]), <<i, item>>[1], <<i, item>>[2].pos)
  BY <1>1, <1>2, WayOfSource
<1>4. IsWay(Origins(i, item), transitions, Rhs(g, item), i, item.pos)
  BY <1>2, <1>3
<1>. HIDE DEF Origins
<1>5. /\ Origins(i, item)[item.pos] = {i}
      /\ \A m \in 0 .. item.pos - 1 : \A k : LeadsOn(Origins(i, item), transitions, Rhs(g, item), m, k)
  BY ONLY <1>1, <1>4, WayFacts
<1>. QED  BY <1>1, <1>5

\* What a rule has where it begins, it has at the end of the way.
LEMMA CarriedAlong ==
  ASSUME IInv, NEW i \in DOMAIN states, NEW item \in states[i], NEW F,
         \A x \in Places(states) : Propagated(g, states, transitions, F, x) => x \in F,
         NEW p \in Origins(i, item)[0], <<p, NewItem(item.rule)>> \in F
  PROVE  <<i, item>> \in F
<1>. DEFINE P == item.pos
            from == Origins(i, item)
            At(m) == [rule |-> item.rule, pos |-> m]
            T == {m \in Nat : m <= P => \E k \in from[m] : <<k, At(m)>> \in F}
<1>1. /\ item \in Item(g) /\ P \in Nat /\ item = At(P) /\ from[P] = {i} /\ P <= Len(Rhs(g, item))
      /\ Len(Rhs(g, item)) \in Nat
  <2>1. item \in Item(g) /\ WellFormed(g)
    BY StateFacts DEF IInv
  <2>2. g.rules[item.rule] \in Rule
    BY <2>1, ElementOfSeq DEF WellFormed, Item, RuleIndex
  <2>3. Len(Rhs(g, item)) \in Nat
    BY <2>2 DEF Rhs, Rule
  <2>4. from[P] = {i} /\ P \in Nat
    BY OriginsFacts
  <2>. QED  BY <2>1, <2>3, <2>4 DEF Item, Rhs
<1>2. 0 \in T
  BY DEF NewItem
<1>3. ASSUME NEW m \in T PROVE m + 1 \in T
  <2>. SUFFICES ASSUME m + 1 <= P PROVE \E k \in from[m + 1] : <<k, At(m + 1)>> \in F
    OBVIOUS
  <2>1. m \in 0 .. P - 1 /\ m <= P /\ m \in Nat
    BY <1>1
  <2>2. PICK k \in from[m] : <<k, At(m)>> \in F
    BY <2>1
  <2>3. LeadsOn(from, transitions, Rhs(g, item), m, k)
    BY <2>1, OriginsFacts
  <2>4. PICK b \in from[m + 1] : k \in Before(transitions, b, Rhs(g, item)[m + 1])
    BY <2>2, <2>3 DEF LeadsOn
  <2>5. PICK e \in transitions : e[1] = k /\ e[2] = Rhs(g, item)[m + 1] /\ e[3] = b
    BY <2>4 DEF Before
  <2>6. k \in DOMAIN states /\ At(m) \in states[k] /\ b \in DOMAIN states /\ At(m + 1) \in states[b]
    <3>1. m \in 0 .. P /\ m + 1 \in 0 .. P
      BY <1>1, <2>1
    <3>. QED  BY <2>2, <2>4, <3>1, ItemsOnTheWay
  <2>7. Reads(g, At(m), e[2]) /\ At(m + 1) = Step(At(m))
    <3>1. At(m).rule = item.rule /\ At(m).pos = m /\ m < Len(Rhs(g, item))
      BY <1>1, <2>1
    <3>2. At(m + 1) = Step(At(m))
      BY <2>1 DEF Step
    <3>. QED  BY <1>1, <2>1, <2>5, <3>1, <3>2 DEF Reads, IsFinal, ReadSymbol, Rhs
  <2>. DEFINE y == <<b, At(m + 1)>>
  <2>8. y \in Places(states) /\ y[1] = b /\ y[2] = At(m + 1)
    BY <2>6 DEF Places
  <2>9. Propagated(g, states, transitions, F, y)
    <3>. HIDE DEF y
    <3>. QED  BY <2>2, <2>5, <2>6, <2>7, <2>8 DEF Propagated
  <2>10. y \in F
    <3>. HIDE DEF y
    <3>. QED  BY <2>8, <2>9
  <2>. QED  BY <2>4, <2>10
<1>4. T = Nat
  <2>. HIDE DEF T
  <2>0. T \subseteq Nat
    BY DEF T
  <2>. QED  BY <1>2, <1>3, <2>0, SetInduction
<1>5. \E k \in from[P] : <<k, At(P)>> \in F
  <2>1. P \in T /\ P <= P
    <3>. HIDE DEF T
    <3>. QED  BY <1>1, <1>4
  <2>. HIDE DEF At, from, P
  <2>. QED  BY <2>1
<1>. QED  BY <1>1, <1>5

\* A transition takes the item along, and with it where its rule may have begun.
LEMMA OneSymbolOn ==
  ASSUME IInv, NEW e \in transitions, NEW item \in states[e[1]], Reads(g, item, e[2])
  PROVE  /\ e[1] \in DOMAIN states /\ e[3] \in DOMAIN states /\ item \in Item(g)
         /\ Step(item) \in states[e[3]] /\ Step(item).rule = item.rule
         /\ Origins(e[1], item)[0] \subseteq Origins(e[3], Step(item))[0]
<1>. DEFINE i == e[1]
            j == e[3]
            next == Step(item)
            P == item.pos
            from == Origins(i, item)
            on == Origins(j, next)
<1>1. i \in DOMAIN states /\ j \in DOMAIN states /\ item \in Item(g)
  BY StateFacts DEF IInv, TypeOK
<1>2. next \in states[j]
  <2>1. next \in Goto(g, states[i], e[2])
    BY DEF Goto
  <2>. QED  BY <2>1 DEF IInv, EdgesAreGoto, Kernel
<1>3. next.rule = item.rule /\ next.pos = P + 1 /\ P \in Nat /\ Rhs(g, next)[P + 1] = e[2] /\ Rhs(g, next) = Rhs(g, item)
  BY <1>1, SteppedItem DEF Rhs
<1>4. from[P] = {i} /\ \A m \in 0 .. P - 1 : \A k : LeadsOn(from, transitions, Rhs(g, item), m, k)
  BY <1>1, OriginsFacts
<1>5. on[P + 1] = {j} /\ \A m \in 0 .. P : \A k : LeadsOn(on, transitions, Rhs(g, item), m, k)
  <2>1. on[next.pos] = {j} /\ \A m \in 0 .. next.pos - 1 : \A k : LeadsOn(on, transitions, Rhs(g, next), m, k)
    BY <1>1, <1>2, OriginsFacts
  <2>2. (P + 1) - 1 = P
    BY <1>3
  <2>. QED  BY <1>3, <2>1, <2>2
<1>. DEFINE T == {m \in 0 .. P : from[m] \subseteq on[m]}
<1>. HIDE DEF next, from, on
<1>6. P \in T
  <2>1. i \in Before(transitions, j, Rhs(g, item)[P + 1])
    BY <1>3 DEF Before
  <2>2. P \in 0 .. P
    BY <1>3
  <2>3. i \in on[P]
    BY <1>5, <2>1, <2>2 DEF LeadsOn
  <2>. QED  BY <1>4, <2>2, <2>3
<1>7. ASSUME NEW m \in 0 .. P - 1, m + 1 \in T PROVE m \in T
  <2>1. m \in 0 .. P
    BY <1>3
  <2>2. ASSUME NEW k \in from[m] PROVE k \in on[m]
    <3>1. PICK b \in from[m + 1] : k \in Before(transitions, b, Rhs(g, item)[m + 1])
      BY <1>4, <2>2 DEF LeadsOn
    <3>2. b \in on[m + 1]
      BY <1>7, <3>1
    <3>. QED  BY <1>5, <2>1, <3>1, <3>2 DEF LeadsOn
  <2>. QED  BY <2>1, <2>2
<1>8. \A m \in 0 .. P : m \in T
  <2>. HIDE DEF T
  <2>. QED  BY <1>3, <1>6, <1>7, DownwardInduction
<1>9. 0 \in 0 .. P
  BY <1>3
<1>10. from[0] \subseteq on[0]
  BY <1>8, <1>9
<1>. QED  BY <1>1, <1>2, <1>3, <1>10 DEF next, from, on

-----------------------------------------------------------------------------
(* What may follow the items *)

BeginsAt(gr, st, sets, t) ==
  {x \in Places(st) : ~IsFinal(gr, x[2]) /\ t \in FirstOf(sets, AfterNext(gr, x[2]))}

PassesAt(gr, st, sets) ==
  {x \in Places(st) : ~IsFinal(gr, x[2]) /\ NullableSeq(sets, AfterNext(gr, x[2]))}

\* One of the three reasons to add a place to S.
Adds(gr, st, tr, sets, t, S, x) ==
  \/ Spontaneous(gr, st, BeginsAt(gr, st, sets, t), x)
  \/ Inherited(gr, st, PassesAt(gr, st, sets), S, x)
  \/ Propagated(gr, st, tr, S, x)

AddingRound(gr, st, tr, sets, t) ==
  [S \in SUBSET Places(st) |-> {x \in Places(st) : x \in S \/ Adds(gr, st, tr, sets, t, S, x)}]

LEMMA FollowedByRounds ==
  ASSUME NEW gr, NEW st, NEW tr, NEW sets, NEW t
  PROVE  FollowedBy(gr, st, tr, sets, t) = Grown(AddingRound(gr, st, tr, sets, t), Places(st))
BY DEF FollowedBy, AddingRound, Adds, BeginsAt, PassesAt

\* Nothing that has a reason to be there is missing ...
LEMMA FollowedByCloses ==
  ASSUME NEW gr, NEW st, NEW tr, NEW sets, NEW t, IsFiniteSet(Places(st))
  PROVE  /\ FollowedBy(gr, st, tr, sets, t) \subseteq Places(st)
         /\ \A x \in Places(st) : Adds(gr, st, tr, sets, t, FollowedBy(gr, st, tr, sets, t), x)
                                    => x \in FollowedBy(gr, st, tr, sets, t)
<1>. DEFINE All == Places(st)
            Grow == AddingRound(gr, st, tr, sets, t)
            F == FollowedBy(gr, st, tr, sets, t)
<1>1. \A S \in SUBSET All : Grow[S] = {x \in All : x \in S \/ Adds(gr, st, tr, sets, t, S, x)}
  BY DEF AddingRound
<1>2. Grow \in [SUBSET All -> SUBSET All]
  BY DEF AddingRound
<1>3. F = Grown(Grow, All)
  BY FollowedByRounds
<1>. HIDE DEF All, Grow, F
<1>4. \A S \in SUBSET All : S \subseteq Grow[S]
  BY <1>1
<1>5. IsFiniteSet(All)
  BY DEF All
<1>6. Grow[Grown(Grow, All)] = Grown(Grow, All)
  BY ONLY <1>2, <1>4, <1>5, GrownIsClosed
<1>7. \A S \in SUBSET All : S \subseteq All => Grow[S] \subseteq All
  BY <1>2
<1>8. F \subseteq All
  BY ONLY <1>2, <1>3, <1>5, <1>7, GrownWithin
<1>9. F = {x \in All : x \in F \/ Adds(gr, st, tr, sets, t, F, x)}
  BY ONLY <1>1, <1>3, <1>6, <1>8
<1>10. \A x \in All : Adds(gr, st, tr, sets, t, F, x) => x \in F
  BY ONLY <1>9
<1>. QED  BY <1>8, <1>10 DEF All, F

\* ... and nothing else is there.
LEMMA FollowedByIsLeast ==
  ASSUME NEW gr, NEW st, NEW tr, NEW sets, NEW t, IsFiniteSet(Places(st)), NEW M,
         \A x \in Places(st) : Adds(gr, st, tr, sets, t, M, x) => x \in M
  PROVE  FollowedBy(gr, st, tr, sets, t) \subseteq M
<1>. DEFINE All == Places(st)
            Grow == AddingRound(gr, st, tr, sets, t)
<1>1. \A S \in SUBSET All : Grow[S] = {x \in All : x \in S \/ Adds(gr, st, tr, sets, t, S, x)}
  BY DEF AddingRound
<1>2. Grow \in [SUBSET All -> SUBSET All]
  BY DEF AddingRound
<1>3. ASSUME NEW S, S \subseteq M, NEW x, Adds(gr, st, tr, sets, t, S, x) PROVE Adds(gr, st, tr, sets, t, M, x)
  <2>1. Inherited(gr, st, PassesAt(gr, st, sets), S, x) => Inherited(gr, st, PassesAt(gr, st, sets), M, x)
    BY <1>3 DEF Inherited
  <2>2. Propagated(gr, st, tr, S, x) => Propagated(gr, st, tr, M, x)
    BY <1>3 DEF Propagated
  <2>. QED  BY <1>3, <2>1, <2>2 DEF Adds
<1>4. FollowedBy(gr, st, tr, sets, t) = Grown(Grow, All)
  BY FollowedByRounds
<1>5. \A x \in All : Adds(gr, st, tr, sets, t, M, x) => x \in M
  OBVIOUS
<1>6. IsFiniteSet(All)
  OBVIOUS
<1>. HIDE DEF All, Grow
<1>7. \A S \in SUBSET All : S \subseteq M => Grow[S] \subseteq M
  BY ONLY <1>1, <1>3, <1>5
<1>8. Grown(Grow, All) \subseteq M
  BY ONLY <1>2, <1>6, <1>7, GrownWithin
<1>. QED  BY <1>4, <1>8

-----------------------------------------------------------------------------
(* The automaton is finite *)

LEMMA FiniteImage ==
  ASSUME NEW S, IsFiniteSet(S), NEW f
  PROVE  IsFiniteSet({f[x] : x \in S})
<1>. DEFINE h == [x \in S |-> f[x]]
            T == {f[x] : x \in S}
<1>1. h \in Surjection(S, T)
  BY DEF Surjection
<1>. QED  BY ONLY <1>1, IsFiniteSet(S), FS_Surjection

LEMMA FiniteUnion ==
  ASSUME NEW S, IsFiniteSet(S), NEW f, \A x \in S : IsFiniteSet(f[x])
  PROVE  IsFiniteSet(UNION {f[x] : x \in S})
<1>. DEFINE U == {f[x] : x \in S}
<1>1. IsFiniteSet(U)
  BY FiniteImage
<1>2. \A T \in U : IsFiniteSet(T)
  OBVIOUS
<1>. HIDE DEF U
<1>3. IsFiniteSet(UNION U)
  BY ONLY <1>1, <1>2, FS_UNION
<1>. QED  BY <1>3 DEF U

LEMMA FiniteItems ==
  ASSUME NEW gr, WellFormed(gr) PROVE IsFiniteSet(Item(gr))
<1>. DEFINE R == RuleIndex(gr)
            P(r) == 0 .. Len(gr.rules[r].rhs)
            f == [r \in R |-> {[rule |-> r, pos |-> p] : p \in P(r)}]
<1>1. IsFiniteSet(R)
  <2>1. Len(gr.rules) \in Int /\ 1 \in Int
    BY DEF WellFormed
  <2>2. IsFiniteSet(1 .. Len(gr.rules))
    BY ONLY <2>1, FS_Interval
  <2>. QED  BY <2>2 DEF RuleIndex
<1>2. ASSUME NEW r \in R PROVE Len(gr.rules[r].rhs) \in Nat
  <2>1. gr.rules[r] \in Rule
    BY ElementOfSeq DEF WellFormed, RuleIndex
  <2>. QED  BY <2>1 DEF Rule
<1>3. ASSUME NEW r \in R PROVE IsFiniteSet(f[r])
  <2>. DEFINE h == [p \in P(r) |-> [rule |-> r, pos |-> p]]
  <2>1. IsFiniteSet(P(r))
    <3>1. Len(gr.rules[r].rhs) \in Int /\ 0 \in Int
      BY <1>2
    <3>. QED  BY ONLY <3>1, FS_Interval
  <2>2. IsFiniteSet({h[p] : p \in P(r)})
    <3>. HIDE DEF h, P
    <3>. QED  BY <2>1, FiniteImage
  <2>3. f[r] = {h[p] : p \in P(r)}
    OBVIOUS
  <2>. QED  BY <2>2, <2>3
<1>4. IsFiniteSet(UNION {f[r] : r \in R})
  <2>. HIDE DEF f, R
  <2>. QED  BY <1>1, <1>3, FiniteUnion
<1>5. Item(gr) \subseteq UNION {f[r] : r \in R}
  <2>. SUFFICES ASSUME NEW item \in Item(gr) PROVE item \in f[item.rule] /\ item.rule \in R
    OBVIOUS
  <2>1. item.rule \in R /\ item.pos \in Nat /\ item.pos <= Len(gr.rules[item.rule].rhs)
        /\ item = [rule |-> item.rule, pos |-> item.pos]
    BY DEF Item, Rhs
  <2>2. item.pos \in P(item.rule)
    BY <1>2, <2>1
  <2>. QED  BY <2>1, <2>2
<1>. QED  BY <1>4, <1>5, FS_Subset

LEMMA FinitePlaces ==
  ASSUME TypeOK PROVE IsFiniteSet(Places(states))
<1>. DEFINE D == 1 .. Len(states)
<1>1. WellFormed(g) /\ DOMAIN states = D /\ Len(states) \in Nat /\ \A i \in D : states[i] \subseteq Item(g)
  BY StateFacts
<1>2. IsFiniteSet(D)
  BY <1>1, FS_Interval
<1>3. IsFiniteSet(D \X Item(g))
  BY <1>1, <1>2, FiniteItems, FS_Product
<1>4. Places(states) \subseteq D \X Item(g)
  BY <1>1 DEF Places
<1>. QED  BY <1>3, <1>4, FS_Subset

-----------------------------------------------------------------------------
(* What the relations are when they are used *)

\* Every item that reads a nonterminal has made a key.
ReadingKeys == \A src \in ReadingItems : SourceKey(src) \in DOMAIN includes

IncludesWhole ==
  Apart => \A key \in DOMAIN includes :
             (\A item \in states[key[1]] : Reads(g, item, key[2]) => Straight(key[1], item))
               => TrueIncludes(key) \subseteq includes[key]

OnTheWay(i, item) == UNION {Origins(i, item)[m] : m \in 1 .. item.pos}

LookbackWhole ==
  \A src \in FinishedItems :
    /\ Straight(src[1], src[2]) => TrueLookback(src[1], src[2]) \subseteq Pairs(lookback, LookbackKey(src))
    /\ (\A k \in OnTheWay(src[1], src[2]) : ~HasTransition(k, LhsOf(src)))
         => Pairs(lookback, LookbackKey(src)) \subseteq TrueLookback(src[1], src[2])

RelationsMade ==
  /\ IInv /\ Done /\ KeysFit /\ ReadingKeys
  /\ IncludesSound /\ IncludesWhole
  /\ LookbackJustified /\ LookbackWhole

LEMMA RelationsAreMade ==
  ASSUME RelInv, RelDone, GrammarFits(g) PROVE RelationsMade
<1>1. /\ IInv /\ KeysFit /\ LookbackJustified /\ IncludesFull /\ InPhase
      /\ phase = "lookback" /\ queue = <<>> /\ sources = {} /\ Done
  BY DEF RelInv, RelDone, InPhase
<1>2. ReadingKeys
  BY <1>1 DEF IncludesFull, ReadingKeys
<1>3. IncludesSound
  BY IncludesSoundInv
<1>4. IncludesWhole
  BY <1>1, IncludesCompleteInv DEF IncludesComplete, IncludesWhole
<1>5. LookbackWhole
  <2>. SUFFICES ASSUME NEW src \in FinishedItems
                PROVE  /\ Straight(src[1], src[2]) => TrueLookback(src[1], src[2]) \subseteq Pairs(lookback, LookbackKey(src))
                       /\ (\A k \in OnTheWay(src[1], src[2]) : ~HasTransition(k, LhsOf(src)))
                            => Pairs(lookback, LookbackKey(src)) \subseteq TrueLookback(src[1], src[2])
    BY DEF LookbackWhole
  <2>1. src[1] \in DOMAIN states /\ src[2] \in states[src[1]] /\ IsFinal(g, src[2])
    BY <1>1, SourceFacts
  <2>2. LookbackExact
    BY LookbackExactInv
  <2>. QED  BY <2>1, <2>2 DEF LookbackExact, RelDone, LookbackKey, LhsOf, OnTheWay
<1>. QED  BY <1>1, <1>2, <1>3, <1>4, <1>5 DEF RelationsMade

LEMMA SameOfItem ==
  ASSUME UNCHANGED vars, NEW i, NEW item
  PROVE  /\ Straight(i, item)' <=> Straight(i, item)
         /\ TrueLookback(i, item)' = TrueLookback(i, item)
         /\ OnTheWay(i, item)' = OnTheWay(i, item)
<1>1. Origins(i, item)' = Origins(i, item) /\ g' = g
  BY SameOrigins DEF vars
<1>. QED  BY <1>1 DEF Straight, TrueLookback, OnTheWay

LEMMA SameTrueIncludes ==
  ASSUME UNCHANGED vars, NEW key
  PROVE  TrueIncludes(key)' = TrueIncludes(key)
<1>1. \A i, item : Origins(i, item)' = Origins(i, item)
  BY SameOrigins
<1>2. \A item : Rest(item)' = Rest(item)
  BY SameGrammar
<1>3. g' = g /\ states' = states
  BY DEF vars
<1>. QED  BY <1>1, <1>2, <1>3 DEF TrueIncludes

LEMMA SameMade ==
  ASSUME RelationsMade, UNCHANGED vars, UNCHANGED <<includes, lookback>>
  PROVE  RelationsMade'
<1>1. IInv' /\ Done'
  BY SameInv DEF RelationsMade
<1>2. g' = g /\ states' = states /\ includes' = includes /\ lookback' = lookback
  BY DEF vars
<1>3. ReadingItems' = ReadingItems /\ FinishedItems' = FinishedItems
  BY SameItems
<1>4. \A src : /\ LhsOf(src)' = LhsOf(src) /\ SourceKey(src)' = SourceKey(src)
               /\ LookbackKey(src)' = LookbackKey(src) /\ From(src)' = From(src)
  BY SameGrammar, SameWay
<1>5. \A i, s : HasTransition(i, s)' <=> HasTransition(i, s)
  BY SameGrammar
<1>6. \A i, item : /\ Straight(i, item)' <=> Straight(i, item)
                   /\ TrueLookback(i, item)' = TrueLookback(i, item)
                   /\ OnTheWay(i, item)' = OnTheWay(i, item)
  BY SameOfItem
<1>7. \A key : TrueIncludes(key)' = TrueIncludes(key)
  BY SameTrueIncludes
<1>8. KeysFit'
  BY <1>2 DEF RelationsMade, KeysFit, IsNonterminal
<1>9. ReadingKeys'
  BY <1>2, <1>3, <1>4 DEF RelationsMade, ReadingKeys
<1>10. IncludesSound'
  BY <1>2, <1>7 DEF RelationsMade, IncludesSound
<1>11. IncludesWhole'
  BY <1>2, <1>6, <1>7 DEF RelationsMade, IncludesWhole, Apart
<1>12. LookbackJustified'
  <2>1. \A key, pair, src : LookbackFrom(key, pair, src)' <=> LookbackFrom(key, pair, src)
    BY <1>4, <1>5 DEF LookbackFrom
  <2>. QED  BY <1>2, <1>3, <2>1 DEF RelationsMade, LookbackJustified
<1>13. LookbackWhole'
  BY <1>2, <1>3, <1>4, <1>5, <1>6 DEF RelationsMade, LookbackWhole, Pairs
<1>. QED  BY <1>1, <1>8, <1>9, <1>10, <1>11, <1>12, <1>13 DEF RelationsMade

-----------------------------------------------------------------------------
(* Read *)

Sets == TextbookSets(g)

\* The answers of empty() that are stored are right.
TableRight == TableFits(g, emptyTable)

ReadJustified ==
  \A key \in DOMAIN read :
    /\ key = <<key[1], key[2]>> /\ key[1] \in DOMAIN states /\ IsNonterminal(g, key[2])
    /\ read[key] \subseteq TrueRead(Sets, key)

\* An item that has been visited has what its rest begins with in the operation.
ReadWhole ==
  \A src \in ReadingItems :
    \/ phase = "read" /\ src \in sources
    \/ /\ SourceKey(src) \in DOMAIN read
       /\ Apart => FirstOf(Sets, Rest(src[2])) \subseteq read[SourceKey(src)]

Reading ==
  /\ phase \in {"read", "follow", "lookahead"}
  /\ RelationsMade /\ TableRight /\ ReadJustified /\ ReadWhole
  /\ phase = "read" => sources \subseteq ReadingItems

ReadInv == (RelInv /\ read = NoRelation) \/ Reading

LEMMA SetsOfGrammar == Sets.nullable = Nullable(g)
BY DEF Sets, TextbookSets

LEMMA SameTrueRead ==
  ASSUME UNCHANGED vars, NEW key
  PROVE  TrueRead(Sets, key)' = TrueRead(Sets, key)
<1>1. \A item : Rest(item)' = Rest(item)
  BY SameGrammar
<1>2. g' = g /\ states' = states
  BY DEF vars
<1>3. Sets' = Sets
  BY <1>2 DEF Sets
<1>. QED  BY <1>1, <1>2, <1>3 DEF TrueRead

\* Nothing but Read changes what it has read.
LEMMA SameReading ==
  ASSUME Reading, UNCHANGED <<vars, includes, lookback, read, emptyTable>>,
         phase' \in {"read", "follow", "lookahead"},
         phase = "read" /\ phase' # "read" => sources = {},
         phase' = "read" => phase = "read" /\ sources' = sources
  PROVE  Reading'
<1>0. UNCHANGED vars /\ UNCHANGED <<includes, lookback>> /\ read' = read /\ emptyTable' = emptyTable
  OBVIOUS
<1>1. RelationsMade'
  BY <1>0, SameMade DEF Reading
<1>2. g' = g /\ states' = states
  BY <1>0 DEF vars
<1>3. ReadingItems' = ReadingItems
  BY <1>0, SameItems
<1>4. \A src : SourceKey(src)' = SourceKey(src) /\ Rest(src[2])' = Rest(src[2])
  BY <1>0, SameGrammar
<1>5. TableRight'
  BY <1>0, <1>2 DEF Reading, TableRight
<1>6. ReadJustified'
  <2>1. \A key : TrueRead(Sets, key)' = TrueRead(Sets, key)
    BY <1>0, SameTrueRead
  <2>. QED  BY <1>0, <1>2, <2>1 DEF Reading, ReadJustified, IsNonterminal
<1>7. ReadWhole'
  <2>1. Sets' = Sets /\ (Apart' <=> Apart)
    BY <1>2 DEF Sets, Apart
  <2>. QED  BY <1>0, <1>3, <1>4, <2>1 DEF Reading, ReadWhole
<1>. QED  BY <1>1, <1>3, <1>5, <1>6, <1>7 DEF Reading

LEMMA BeginReadInv ==
  ASSUME RelInv, read = NoRelation, BeginRead, GrammarFits(g)
  PROVE  Reading'
<1>1. /\ UNCHANGED vars /\ UNCHANGED <<includes, lookback>> /\ read' = read /\ emptyTable' = emptyTable
      /\ phase' = "read" /\ sources' = ReadingItems /\ RelDone
  BY DEF BeginRead, ReadingItems, relationVars
<1>2. RelationsMade /\ emptyTable = NothingStored
  BY <1>1, RelationsAreMade DEF RelInv, InPhase
<1>3. RelationsMade'
  BY <1>1, <1>2, SameMade
<1>4. ReadingItems' = ReadingItems
  BY <1>1, SameItems
<1>5. TableRight'
  BY <1>1, <1>2, NothingFits DEF TableRight
<1>6. ReadJustified'
  BY <1>1 DEF NoRelation, ReadJustified
<1>7. ReadWhole'
  BY <1>1, <1>4 DEF ReadWhole
<1>. QED  BY <1>1, <1>3, <1>4, <1>5, <1>6, <1>7 DEF Reading

\* What first() gives for the rest of an item.
LEMMA FirstOfRest ==
  ASSUME Reading, GrammarFits(g), NEW src \in ReadingItems
  PROVE  LET first == FirstOfSeq(g, emptyTable, Rest(src[2]))
         IN  /\ first.answer \subseteq FirstOf(Sets, Rest(src[2])) /\ TableFits(g, first.empty)
             /\ Apart => first.answer = FirstOf(Sets, Rest(src[2]))
<1>. DEFINE tail == Rest(src[2])
            first == FirstOfSeq(g, emptyTable, tail)
<1>1. tail \in Tails(g)
  <2>1. IInv
    BY DEF Reading, RelationsMade
  <2>2. src[1] \in DOMAIN states /\ src[2] \in states[src[1]] /\ ~IsFinal(g, src[2])
    BY <2>1, SourceFacts DEF ReadsNonterminal
  <2>. QED  BY <2>1, <2>2, RestIsTail
<1>2. WellFormed(g) /\ TableFits(g, emptyTable) /\ DefinesNoTerminal(g)
  BY GrammarsAssumption, FittingDefinesNone DEF Reading, RelationsMade, IInv, TypeOK, TableRight
<1>. HIDE DEF tail
<1>3. /\ first.answer \subseteq FirstOf(TextbookSets(g), tail) /\ TableFits(g, first.empty)
      /\ UsedOnce(g, Nullable(g)) => first.answer = FirstOf(TextbookSets(g), tail)
  BY <1>1, <1>2, FirstOfTailIsRight
<1>. QED  BY <1>3 DEF tail, Sets, Apart

LEMMA VisitReadInv ==
  ASSUME Reading, GrammarFits(g), NEW src \in sources, VisitRead(src)
  PROVE  Reading'
<1>. DEFINE first == FirstOfSeq(g, emptyTable, Rest(src[2]))
            key == SourceKey(src)
<1>1. /\ UNCHANGED vars /\ UNCHANGED <<includes, lookback>>
      /\ phase = "read" /\ phase' = "read" /\ sources' = sources \ {src}
      /\ read' = Relate(read, key, first.answer) /\ emptyTable' = first.empty
  BY DEF VisitRead, ReadWith
<1>2. src \in ReadingItems
  BY <1>1 DEF Reading
<1>3. /\ first.answer \subseteq FirstOf(Sets, Rest(src[2])) /\ TableFits(g, first.empty)
      /\ Apart => first.answer = FirstOf(Sets, Rest(src[2]))
  BY <1>2, FirstOfRest
<1>. HIDE DEF first, key
<1>4. RelationsMade'
  BY <1>1, SameMade DEF Reading
<1>5. g' = g /\ states' = states
  BY <1>1 DEF vars
<1>6. ReadingItems' = ReadingItems
  BY <1>1, SameItems
<1>7. \A s : SourceKey(s)' = SourceKey(s) /\ Rest(s[2])' = Rest(s[2])
  BY <1>1, SameGrammar
<1>8. TableRight'
  BY <1>1, <1>3, <1>5 DEF TableRight
<1>9. /\ DOMAIN read' = DOMAIN read \cup {key}
      /\ \A k \in DOMAIN read : read[k] \subseteq read'[k]
      /\ \A k \in DOMAIN read' : \A t \in read'[k] :
           (k \in DOMAIN read /\ t \in read[k]) \/ (k = key /\ t \in first.answer)
      /\ first.answer \subseteq read'[key]
  <2>. DEFINE answer == first.answer
              new == Relate(read, key, answer)
  <2>1. read' = new
    BY <1>1
  <2>. HIDE DEF answer
  <2>2. /\ DOMAIN new = DOMAIN read \cup {key}
        /\ \A k \in DOMAIN read : read[k] \subseteq new[k]
        /\ \A k \in DOMAIN new : \A t \in new[k] :
             (k \in DOMAIN read /\ t \in read[k]) \/ (k = key /\ t \in answer)
        /\ answer \subseteq new[key]
    BY RelateFacts
  <2>. HIDE DEF new
  <2>. QED  BY <2>1, <2>2 DEF answer
<1>10. ReadJustified'
  <2>1. /\ key = <<key[1], key[2]>> /\ key[1] \in DOMAIN states /\ IsNonterminal(g, key[2])
        /\ FirstOf(Sets, Rest(src[2])) \subseteq TrueRead(Sets, key)
    <3>1. /\ IInv /\ src[1] \in DOMAIN states /\ src[2] \in states[src[1]] /\ ReadsNonterminal(src[2])
      BY <1>2, SourceFacts DEF Reading, RelationsMade
    <3>2. key = <<src[1], ReadSymbol(g, src[2])>> /\ key[1] = src[1] /\ key[2] = ReadSymbol(g, src[2])
      BY DEF key, SourceKey
    <3>3. Reads(g, src[2], key[2])
      BY <3>1, <3>2 DEF Reads, ReadsNonterminal
    <3>. QED  BY <3>1, <3>2, <3>3 DEF ReadsNonterminal, TrueRead
  <2>2. \A k : TrueRead(Sets, k)' = TrueRead(Sets, k)
    BY <1>1, SameTrueRead
  <2>3. ASSUME NEW k \in DOMAIN read'
        PROVE  /\ k = <<k[1], k[2]>> /\ k[1] \in DOMAIN states /\ IsNonterminal(g, k[2])
               /\ read'[k] \subseteq TrueRead(Sets, k)
    BY <1>3, <1>9, <2>1 DEF Reading, ReadJustified
  <2>. QED  BY <1>5, <2>2, <2>3 DEF ReadJustified, IsNonterminal
<1>11. ReadWhole'
  <2>1. Sets' = Sets /\ (Apart' <=> Apart)
    BY <1>5 DEF Sets, Apart
  <2>2. ASSUME NEW s \in ReadingItems, s \notin sources'
        PROVE  /\ SourceKey(s) \in DOMAIN read'
               /\ Apart => FirstOf(Sets, Rest(s[2])) \subseteq read'[SourceKey(s)]
    <3>1. CASE s = src
      BY <1>3, <1>9, <3>1 DEF key
    <3>2. CASE s # src
      <4>1. /\ SourceKey(s) \in DOMAIN read
            /\ Apart => FirstOf(Sets, Rest(s[2])) \subseteq read[SourceKey(s)]
        BY <1>1, <2>2, <3>2 DEF Reading, ReadWhole
      <4>. QED  BY <1>9, <4>1
    <3>. QED  BY <3>1, <3>2
  <2>. QED  BY <1>1, <1>6, <1>7, <2>1, <2>2 DEF ReadWhole
<1>12. sources' \subseteq ReadingItems'
  BY <1>1, <1>6 DEF Reading
<1>. QED  BY <1>1, <1>4, <1>8, <1>10, <1>11, <1>12 DEF Reading

LEMMA ReadStepInv ==
  ASSUME \A gr \in Grammars : GrammarFits(gr), ReadInv, [LkNext]_lookaheadsVars
  PROVE  ReadInv'
<1>1. g \in Grammars /\ GrammarFits(g)
  BY DEF ReadInv, Reading, RelationsMade, RelInv, IInv, TypeOK
<1>2. CASE ComputeRelations
  <2>1. RelInv /\ read = NoRelation
    <3>1. ~Reading
      BY <1>2 DEF Reading, ComputeRelations, RelStep, ConstructStates, BeginIncludes, WalkInclude,
                  BeginLookback, WalkLookback, VisitInclude, VisitLookback
    <3>. QED  BY <3>1 DEF ReadInv
  <2>2. RelInv'
    BY <1>2, <2>1, RelStepInv DEF ComputeRelations
  <2>. QED  BY <1>2, <2>1, <2>2 DEF ComputeRelations, ReadInv
<1>3. CASE BeginRead
  <2>1. phase = "lookback"
    BY <1>3 DEF BeginRead, RelDone
  <2>2. RelInv /\ read = NoRelation
    BY <2>1 DEF ReadInv, Reading
  <2>. QED  BY <1>1, <1>3, <2>2, BeginReadInv DEF ReadInv
<1>. DEFINE Quiet == /\ phase \in {"read", "follow", "lookahead"}
                     /\ UNCHANGED <<vars, includes, lookback, read, emptyTable>>
                     /\ phase' \in {"read", "follow", "lookahead"}
                     /\ phase = "read" /\ phase' # "read" => sources = {}
                     /\ phase' = "read" => phase = "read" /\ sources' = sources
<1>4. ASSUME Quiet PROVE ReadInv'
  <2>1. Reading
    BY <1>4 DEF ReadInv, RelInv, InPhase
  <2>. QED  BY <1>4, <2>1, SameReading DEF ReadInv
<1>5. ASSUME NEW src \in sources, VisitRead(src) PROVE ReadInv'
  <2>1. Reading
    BY <1>5 DEF VisitRead, ReadInv, RelInv, InPhase
  <2>. QED  BY <1>1, <1>5, <2>1, VisitReadInv DEF ReadInv
<1>6. CASE BeginFollow
  BY <1>4, <1>6 DEF BeginFollow, relationVars
<1>7. CASE DigraphStep
  BY <1>4, <1>7 DEF DigraphStep, relationVars
<1>8. CASE CalculateLookahead
  BY <1>4, <1>8 DEF CalculateLookahead, relationVars
<1>9. CASE UNCHANGED lookaheadsVars
  <2>1. UNCHANGED relationsVars /\ read' = read
    BY <1>9 DEF lookaheadsVars
  <2>2. CASE RelInv /\ read = NoRelation
    <3>1. RelInv'
      BY <2>1, <2>2, RelStepInv
    <3>. QED  BY <2>1, <2>2, <3>1 DEF ReadInv
  <2>3. CASE Reading
    BY <1>4, <2>1, <2>3 DEF Reading, relationsVars, relationVars
  <2>. QED  BY <2>2, <2>3 DEF ReadInv
<1>. QED  BY <1>2, <1>3, <1>5, <1>6, <1>7, <1>8, <1>9 DEF LkNext, LkStep

\* The operation is what it should be as soon as every item has been visited.
LEMMA ReadIsTrue ==
  ASSUME Reading, phase # "read", NEW key \in DOMAIN read
  PROVE  /\ read[key] \subseteq TrueRead(Sets, key)
         /\ Apart => read[key] = TrueRead(Sets, key)
<1>1. /\ key[1] \in DOMAIN states /\ IsNonterminal(g, key[2]) /\ key = <<key[1], key[2]>>
      /\ read[key] \subseteq TrueRead(Sets, key)
  BY DEF Reading, ReadJustified
<1>2. ASSUME Apart, NEW item \in states[key[1]], Reads(g, item, key[2])
      PROVE  FirstOf(Sets, Rest(item)) \subseteq read[key]
  <2>. DEFINE src == <<key[1], item>>
  <2>1. src \in ReadingItems
    <3>1. ReadsNonterminal(item)
      BY <1>1, <1>2 DEF ReadsNonterminal, Reads
    <3>. QED  BY <1>1, <3>1, IsReadingItem
  <2>2. SourceKey(src) = key /\ src[2] = item
    BY <1>1, <1>2 DEF SourceKey, Reads
  <2>. HIDE DEF src
  <2>. QED  BY <1>2, <2>1, <2>2 DEF Reading, ReadWhole
<1>3. Apart => TrueRead(Sets, key) \subseteq read[key]
  BY <1>2 DEF TrueRead
<1>. QED  BY <1>1, <1>3

LEMMA LkInitReadInv == LkInit => ReadInv
BY RelInitInv DEF LkInit, ReadInv

\* Read never claims of a state and nonterminal what cannot be read next, and says
\* all that can where no symbol that can be empty is used twice, although first()
\* relies on stored answers of empty().
THEOREM ReadIsExact ==
  ASSUME \A gr \in Grammars : GrammarFits(gr)
  PROVE  LkSpec => []ReadExact
<1>1. LkInit => ReadInv
  BY LkInitReadInv
<1>2. ReadInv /\ [LkNext]_lookaheadsVars => ReadInv'
  BY ReadStepInv
<1>3. ReadInv => ReadExact
  <2>1. ASSUME ReadInv, phase = "follow" PROVE Reading
    BY <2>1 DEF ReadInv, RelInv, InPhase
  <2>. QED  BY <2>1, ReadIsTrue DEF ReadExact, Sets
<1>. QED  BY <1>1, <1>2, <1>3, PTL DEF LkSpec

-----------------------------------------------------------------------------
(* Follow *)

Digraphs == INSTANCE DigraphProofs WITH
  Value     <- Symbol,
  Relations <- UNION {[keys -> SUBSET Node] : keys \in SUBSET Node},
  Bases     <- [Node -> SUBSET Symbol],
  rel       <- includes,
  base      <- [n \in Node |-> ReadOf(n)],
  f         <- follow

LEMMA DigraphAssumptions ==
  /\ \A R \in UNION {[keys -> SUBSET Node] : keys \in SUBSET Node} :
       \E keys \in SUBSET Node : R \in [keys -> SUBSET Node]
  /\ Infinity \in Nat \ {0}
BY MaximumAssumption

LEMMA DigraphStepIsNext == DigraphStep => Digraphs!Next
<1>1. ASSUME NEW x PROVE FollowDigraph!TraverseRoot(x) => Digraphs!TraverseRoot(x)
  BY DEF FollowDigraph!TraverseRoot, Digraphs!TraverseRoot, FollowDigraph!Enter, Digraphs!Enter,
         FollowDigraph!Related, Digraphs!Related, FollowDigraph!InitialValue, Digraphs!InitialValue
<1>2. ASSUME NEW x PROVE FollowDigraph!TraverseRelated(x) => Digraphs!TraverseRelated(x)
  BY DEF FollowDigraph!TraverseRelated, Digraphs!TraverseRelated, FollowDigraph!Enter, Digraphs!Enter,
         FollowDigraph!Related, Digraphs!Related, FollowDigraph!InitialValue, Digraphs!InitialValue,
         FollowDigraph!Top, Digraphs!Top, FollowDigraph!WaitsFor, Digraphs!WaitsFor
<1>3. ASSUME NEW x PROVE FollowDigraph!Merge(x) => Digraphs!Merge(x)
  BY DEF FollowDigraph!Merge, Digraphs!Merge, FollowDigraph!Mergeable, Digraphs!Mergeable,
         FollowDigraph!HasMerged, Digraphs!HasMerged, FollowDigraph!Top, Digraphs!Top,
         FollowDigraph!Lower, Digraphs!Lower
<1>4. FollowDigraph!Return => Digraphs!Return
  BY DEF FollowDigraph!Return, Digraphs!Return, FollowDigraph!Top, Digraphs!Top,
         FollowDigraph!Bottom, Digraphs!Bottom, FollowDigraph!Component, Digraphs!Component
<1>. QED  BY <1>1, <1>2, <1>3, <1>4 DEF DigraphStep, Digraphs!Next

LEMMA FirstOfTail ==
  ASSUME NEW gr, WellFormed(gr), NEW tail \in Tails(gr)
  PROVE  FirstOf(TextbookSets(gr), tail) \subseteq TerminalsAndEnd(gr)
<1>1. \A s \in UsedSymbols(gr) : TextbookSets(gr).first[s] \subseteq TerminalsAndEnd(gr)
  BY DEF TextbookSets
<1>2. \A p \in DOMAIN tail : tail[p] \in UsedSymbols(gr)
  BY TailOfUsed
<1>. QED  BY <1>1, <1>2 DEF FirstOf

LEMMA ReadTerminals ==
  ASSUME Reading, NEW n
  PROVE  ReadOf(n) \subseteq TerminalsAndEnd(g)
<1>. SUFFICES ASSUME n \in DOMAIN read, NEW t \in read[n] PROVE t \in TerminalsAndEnd(g)
  BY DEF ReadOf, Pairs
<1>1. IInv /\ n[1] \in DOMAIN states /\ t \in TrueRead(Sets, n)
  BY DEF Reading, ReadJustified, RelationsMade
<1>2. PICK item \in states[n[1]] : Reads(g, item, n[2]) /\ t \in FirstOf(Sets, Rest(item))
  BY <1>1 DEF TrueRead
<1>3. Rest(item) \in Tails(g) /\ WellFormed(g)
  BY <1>1, <1>2, RestIsTail, StateFacts DEF Reads, IInv
<1>. QED  BY <1>2, <1>3, FirstOfTail DEF Sets

\* Node is large enough for the automata.
EveryNode == (Nat \ {0}) \X Symbol \subseteq Node

LEMMA NodeOfState ==
  ASSUME EveryNode, IInv, NEW i \in DOMAIN states, NEW item \in states[i]
  PROVE  /\ <<i, g.rules[item.rule].lhs>> \in Node
         /\ \A s : Reads(g, item, s) => <<i, s>> \in Node /\ s \in Symbol
<1>1. WellFormed(g) /\ item \in Item(g) /\ i \in Nat \ {0}
  BY StateFacts DEF IInv
<1>2. g.rules[item.rule] \in Rule
  BY <1>1, ElementOfSeq DEF WellFormed, Item, RuleIndex
<1>3. g.rules[item.rule].lhs \in Symbol
  BY <1>2 DEF Rule
<1>4. \A s : Reads(g, item, s) => s \in Symbol
  BY <1>1, StepItem DEF Reads
<1>. QED  BY <1>1, <1>3, <1>4 DEF EveryNode

LEMMA NodesOfIncludes ==
  ASSUME EveryNode, RelationsMade, NEW key \in DOMAIN includes
  PROVE  key \in Node /\ includes[key] \subseteq Node
<1>1. IInv /\ key = <<key[1], key[2]>> /\ key[1] \in DOMAIN states
  BY DEF RelationsMade, KeysFit
<1>2. PICK item \in states[key[1]] : Reads(g, item, key[2])
  BY DEF RelationsMade, KeysFit
<1>3. key \in Node
  BY <1>1, <1>2, NodeOfState
<1>4. ASSUME NEW pair \in includes[key] PROVE pair \in Node
  <2>1. pair \in TrueIncludes(key)
    BY DEF RelationsMade, IncludesSound
  <2>2. PICK x \in states[key[1]] : \E p \in Origins(key[1], x)[0] : pair = <<p, g.rules[x.rule].lhs>>
    BY <2>1 DEF TrueIncludes
  <2>3. PICK p \in Origins(key[1], x)[0] : pair = <<p, g.rules[x.rule].lhs>>
    BY <2>2
  <2>4. x.pos \in Nat
    BY <1>1, OriginsFacts
  <2>5. p \in DOMAIN states /\ NewItem(x.rule) \in states[p]
    BY <1>1, <2>4, ItemsOnTheWay DEF NewItem
  <2>6. NewItem(x.rule).rule = x.rule
    BY DEF NewItem
  <2>. QED  BY <1>1, <2>3, <2>5, <2>6, NodeOfState
<1>. QED  BY <1>3, <1>4

IsRelation(R) == R = [key \in DOMAIN R |-> R[key]]

LEMMA RelateIsRelation ==
  ASSUME NEW R, NEW key, NEW pairs PROVE IsRelation(Relate(R, key, pairs))
BY DEF IsRelation, Relate

\* digraph_algo() has not begun.
Idle ==
  /\ follow = [n \in Node |-> {}] /\ depths = [n \in Node |-> 0]
  /\ stack = <<>> /\ frames = <<>> /\ roots = {}

Calculated ==
  frames = <<>> /\ roots = {} /\ lookahead = [key \in DOMAIN lookback |-> LookaheadOf(key)]

FollowInv ==
  /\ ReadInv /\ IsRelation(includes)
  /\ \/ phase \notin {"follow", "lookahead"} /\ Idle
     \/ /\ phase \in {"follow", "lookahead"} /\ Digraphs!Inv /\ Digraphs!PairsInv
        /\ phase = "lookahead" => Calculated

LEMMA LkInitFollowInv == LkInit => FollowInv
<1>. SUFFICES ASSUME LkInit PROVE FollowInv
  OBVIOUS
<1>1. ReadInv
  BY LkInitReadInv
<1>2. phase = "states" /\ includes = NoRelation
  BY DEF LkInit, RelInit
<1>3. Idle
  BY DEF LkInit, Idle
<1>4. IsRelation(includes)
  BY <1>2 DEF IsRelation, NoRelation
<1>. QED  BY <1>1, <1>2, <1>3, <1>4 DEF FollowInv

LEMMA DigraphBegins == Digraphs!Init => Digraphs!Inv /\ Digraphs!PairsInv
BY DigraphAssumptions, Digraphs!InitInv, Digraphs!InitPairsInv

LEMMA BeginFollowInv ==
  ASSUME EveryNode, GrammarFits(g), Reading, IsRelation(includes), Idle, BeginFollow
  PROVE  Digraphs!Inv' /\ Digraphs!PairsInv'
<1>1. /\ includes' = includes /\ read' = read /\ follow' = follow /\ depths' = depths
      /\ stack' = stack /\ frames' = frames /\ roots' = DOMAIN includes
  BY DEF BeginFollow, relationVars
<1>2. includes \in UNION {[keys -> SUBSET Node] : keys \in SUBSET Node}
  <2>1. DOMAIN includes \in SUBSET Node /\ \A key \in DOMAIN includes : includes[key] \in SUBSET Node
    BY NodesOfIncludes DEF Reading
  <2>2. includes \in [DOMAIN includes -> SUBSET Node]
    BY <2>1 DEF IsRelation
  <2>. QED  BY <2>1, <2>2
<1>3. [n \in Node |-> ReadOf(n)] \in [Node -> SUBSET Symbol]
  <2>1. TerminalsAndEnd(g) \subseteq Symbol
    BY DEF Reading, GrammarFits, TerminalsAndEnd
  <2>. QED  BY <2>1, ReadTerminals
<1>4. Digraphs!Init'
  <2>1. [n \in Node |-> ReadOf(n)]' = [n \in Node |-> ReadOf(n)]
    BY <1>1 DEF ReadOf
  <2>. QED  BY <1>1, <1>2, <1>3, <2>1 DEF Digraphs!Init, Idle
<1>5. (Digraphs!Init => Digraphs!Inv /\ Digraphs!PairsInv)'
  BY DigraphBegins, PTL
<1>. QED  BY <1>4, <1>5

LEMMA DigraphKeeps ==
  ASSUME Digraphs!Inv, Digraphs!PairsInv, DigraphStep \/ UNCHANGED <<includes, read, digraphVars>>
  PROVE  Digraphs!Inv' /\ Digraphs!PairsInv'
<1>1. Digraphs!Next \/ UNCHANGED Digraphs!vars
  <2>1. CASE DigraphStep
    BY <2>1, DigraphStepIsNext
  <2>2. CASE UNCHANGED <<includes, read, digraphVars>>
    <3>1. [n \in Node |-> ReadOf(n)]' = [n \in Node |-> ReadOf(n)]
      BY <2>2 DEF ReadOf
    <3>. QED  BY <2>2, <3>1 DEF digraphVars, Digraphs!vars
  <2>. QED  BY <2>1, <2>2
<1>. QED  BY <1>1, DigraphAssumptions, Digraphs!NextInv, Digraphs!NextPairsInv

LEMMA FollowStepInv ==
  ASSUME EveryNode, \A gr \in Grammars : GrammarFits(gr), FollowInv, [LkNext]_lookaheadsVars
  PROVE  FollowInv'
<1>0. g \in Grammars /\ GrammarFits(g)
  BY DEF FollowInv, ReadInv, Reading, RelationsMade, RelInv, IInv, TypeOK
<1>1. ReadInv'
  BY ReadStepInv DEF FollowInv
<1>2. phase \in {"follow", "lookahead"} => Reading
  BY DEF FollowInv, ReadInv, RelInv, InPhase
<1>3. CASE ComputeRelations
  <2>1. phase \notin {"follow", "lookahead"} /\ phase' \notin {"follow", "lookahead"}
    BY <1>3 DEF ComputeRelations, RelStep, ConstructStates, BeginIncludes, WalkInclude,
                BeginLookback, WalkLookback, VisitInclude, VisitLookback
  <2>2. Idle /\ Idle'
    BY <1>3, <2>1 DEF FollowInv, Idle, ComputeRelations, digraphVars
  <2>3. IsRelation(includes')
    <3>1. \/ includes' = includes
          \/ \E key, pairs : includes' = Relate(includes, key, pairs)
      BY <1>3 DEF ComputeRelations, RelStep, ConstructStates, BeginIncludes, WalkInclude,
                  BeginLookback, WalkLookback, VisitInclude, VisitLookback, relationVars
    <3>. QED  BY <3>1, RelateIsRelation DEF FollowInv
  <2>. QED  BY <1>1, <2>1, <2>2, <2>3 DEF FollowInv
<1>4. ASSUME BeginRead \/ \E src \in sources : VisitRead(src) PROVE FollowInv'
  <2>1. phase \notin {"follow", "lookahead"} /\ phase' \notin {"follow", "lookahead"}
    BY <1>4 DEF BeginRead, RelDone, VisitRead
  <2>2. Idle /\ Idle'
    BY <1>4, <2>1 DEF FollowInv, Idle, BeginRead, VisitRead, digraphVars
  <2>3. includes' = includes
    BY <1>4 DEF BeginRead, VisitRead, relationVars
  <2>. QED  BY <1>1, <2>1, <2>2, <2>3 DEF FollowInv
<1>5. CASE BeginFollow
  <2>1. phase = "read" /\ phase' = "follow" /\ includes' = includes
    BY <1>5 DEF BeginFollow, relationVars
  <2>2. Reading /\ Idle
    BY <2>1 DEF FollowInv, ReadInv, RelInv, InPhase
  <2>3. Digraphs!Inv' /\ Digraphs!PairsInv'
    BY <1>0, <1>5, <2>2, BeginFollowInv DEF FollowInv
  <2>. QED  BY <1>1, <2>1, <2>3 DEF FollowInv
<1>6. CASE DigraphStep
  <2>1. phase = "follow" /\ phase' = "follow" /\ includes' = includes
    BY <1>6 DEF DigraphStep, relationVars
  <2>2. Digraphs!Inv' /\ Digraphs!PairsInv'
    BY <1>6, <2>1, DigraphKeeps DEF FollowInv
  <2>. QED  BY <1>1, <2>1, <2>2 DEF FollowInv
<1>7. CASE CalculateLookahead
  <2>1. /\ phase = "follow" /\ phase' = "lookahead" /\ UNCHANGED <<includes, read, digraphVars>>
        /\ lookback' = lookback /\ follow' = follow
    BY <1>7 DEF CalculateLookahead, relationVars, digraphVars
  <2>2. Digraphs!Inv' /\ Digraphs!PairsInv'
    BY <2>1, DigraphKeeps DEF FollowInv
  <2>3. Calculated'
    BY <1>7, <2>1 DEF CalculateLookahead, Calculated, LookaheadOf, digraphVars
  <2>. QED  BY <1>1, <2>1, <2>2, <2>3 DEF FollowInv
<1>8. CASE UNCHANGED lookaheadsVars
  <2>1. /\ phase' = phase /\ UNCHANGED <<includes, read, digraphVars>> /\ lookahead' = lookahead
        /\ lookback' = lookback /\ includes' = includes
    BY <1>8 DEF lookaheadsVars, relationsVars, relationVars
  <2>2. CASE phase \notin {"follow", "lookahead"}
    <3>1. Idle'
      BY <2>1, <2>2 DEF FollowInv, Idle, digraphVars
    <3>. QED  BY <1>1, <2>1, <2>2, <3>1 DEF FollowInv
  <2>3. CASE phase \in {"follow", "lookahead"}
    <3>1. Digraphs!Inv' /\ Digraphs!PairsInv'
      BY <2>1, <2>3, DigraphKeeps DEF FollowInv
    <3>2. Calculated => Calculated'
      BY <2>1 DEF Calculated, LookaheadOf, digraphVars
    <3>. QED  BY <1>1, <2>1, <2>3, <3>1, <3>2 DEF FollowInv
  <2>. QED  BY <2>2, <2>3
<1>. QED  BY <1>3, <1>4, <1>5, <1>6, <1>7, <1>8 DEF LkNext, LkStep

-----------------------------------------------------------------------------
(* Lookahead *)

FollowedByT(t) == FollowedBy(g, states, transitions, Sets, t)

LEMMA FollowedByTFacts ==
  ASSUME IInv, NEW t
  PROVE  /\ FollowedByT(t) \subseteq Places(states)
         /\ \A x \in Places(states) :
              Adds(g, states, transitions, Sets, t, FollowedByT(t), x) => x \in FollowedByT(t)
<1>1. IsFiniteSet(Places(states))
  BY FinitePlaces DEF IInv
<1>. QED  BY <1>1, FollowedByCloses DEF FollowedByT

LEMMA IsLookahead ==
  ASSUME NEW key, NEW t
  PROVE  /\ key \in DOMAIN LALRLookaheads(g, states, transitions) <=>
              \E x \in Places(states) : IsFinal(g, x[2]) /\ key = <<x[1], x[2].rule>>
         /\ key \in DOMAIN LALRLookaheads(g, states, transitions) =>
              (t \in LALRLookaheads(g, states, transitions)[key] <=>
                 /\ t \in TerminalsAndEnd(g)
                 /\ \E x \in FollowedByT(t) \cap Places(states) :
                      IsFinal(g, x[2]) /\ x[1] = key[1] /\ x[2].rule = key[2])
<1>. DEFINE final == {x \in Places(states) : IsFinal(g, x[2])}
            L == UNION {{<<x, u>> : x \in final \cap FollowedByT(u)} : u \in TerminalsAndEnd(g)}
            keys == {<<x[1], x[2].rule>> : x \in final}
            of(k) == {l[2] : l \in {m \in L : m[1][1] = k[1] /\ m[1][2].rule = k[2]}}
<1>1. LALRLookaheads(g, states, transitions) = [k \in keys |-> of(k)]
  BY DEF LALRLookaheads, FollowedByT, Sets
<1>2. \A x, u : <<x, u>> \in L <=> u \in TerminalsAndEnd(g) /\ x \in final \cap FollowedByT(u)
  OBVIOUS
<1>3. \A l \in L : l = <<l[1], l[2]>>
  OBVIOUS
<1>4. t \in of(key) <=> \E x : <<x, t>> \in L /\ x[1] = key[1] /\ x[2].rule = key[2]
  <2>. HIDE DEF L
  <2>1. ASSUME t \in of(key) PROVE \E x : <<x, t>> \in L /\ x[1] = key[1] /\ x[2].rule = key[2]
    <3>1. PICK l \in L : l[1][1] = key[1] /\ l[1][2].rule = key[2] /\ t = l[2]
      BY <2>1
    <3>. QED  BY <1>3, <3>1
  <2>2. ASSUME NEW x, <<x, t>> \in L, x[1] = key[1], x[2].rule = key[2] PROVE t \in of(key)
    <3>. DEFINE l == <<x, t>>
    <3>1. l \in L /\ l[1] = x /\ l[2] = t
      BY <2>2
    <3>2. l \in {m \in L : m[1][1] = key[1] /\ m[1][2].rule = key[2]}
      BY <2>2, <3>1
    <3>. QED  BY <3>1, <3>2
  <2>. QED  BY <2>1, <2>2
<1>5. key \in keys <=> \E x \in Places(states) : IsFinal(g, x[2]) /\ key = <<x[1], x[2].rule>>
  OBVIOUS
<1>. HIDE DEF L, of, keys
<1>6. DOMAIN LALRLookaheads(g, states, transitions) = keys
  BY <1>1
<1>7. key \in keys => LALRLookaheads(g, states, transitions)[key] = of(key)
  BY <1>1
<1>. QED  BY <1>2, <1>4, <1>5, <1>6, <1>7

\* The two ways for the beginning of a rule to be followed by t.
LEMMA PredictedFollowed ==
  ASSUME IInv, NEW i \in DOMAIN states, NEW pre \in states[i], NEW r \in RuleIndex(g),
         Reads(g, pre, g.rules[r].lhs), NewItem(r) \in states[i], NEW t,
         \/ t \in FirstOf(Sets, Rest(pre))
         \/ AllIn(Rest(pre), Nullable(g)) /\ <<i, pre>> \in FollowedByT(t)
  PROVE  <<i, NewItem(r)>> \in FollowedByT(t)
<1>. DEFINE x == <<i, NewItem(r)>>
            y == <<i, pre>>
<1>1. /\ x \in Places(states) /\ y \in Places(states)
      /\ x[1] = i /\ x[2] = NewItem(r) /\ y[1] = i /\ y[2] = pre
  BY DEF Places
<1>2. x[2] \in Predicted(g, pre) /\ ~IsFinal(g, pre) /\ AfterNext(g, pre) = Rest(pre)
  BY <1>1 DEF Predicted, Reads, AfterNext, Rest
<1>. HIDE DEF x, y
<1>3. ASSUME t \in FirstOf(Sets, Rest(pre)) PROVE Adds(g, states, transitions, Sets, t, FollowedByT(t), x)
  <2>1. y \in BeginsAt(g, states, Sets, t)
    BY <1>1, <1>2, <1>3 DEF BeginsAt
  <2>2. Spontaneous(g, states, BeginsAt(g, states, Sets, t), x)
    BY <1>1, <1>2, <2>1 DEF Spontaneous, y
  <2>. QED  BY <2>2 DEF Adds
<1>4. ASSUME AllIn(Rest(pre), Nullable(g)), y \in FollowedByT(t)
      PROVE  Adds(g, states, transitions, Sets, t, FollowedByT(t), x)
  <2>1. y \in PassesAt(g, states, Sets)
    BY <1>1, <1>2, <1>4, SetsOfGrammar DEF PassesAt, NullableSeq
  <2>2. Inherited(g, states, PassesAt(g, states, Sets), FollowedByT(t), x)
    BY <1>1, <1>2, <1>4, <2>1 DEF Inherited, y
  <2>. QED  BY <2>2 DEF Adds
<1>5. x \in FollowedByT(t)
  BY <1>1, <1>3, <1>4, FollowedByTFacts DEF y
<1>. QED  BY <1>5 DEF x

\* ... and of its end, if its beginning is.
LEMMA EndFollowed ==
  ASSUME IInv, NEW i \in DOMAIN states, NEW item \in states[i], NEW t,
         NEW p \in Origins(i, item)[0], <<p, NewItem(item.rule)>> \in FollowedByT(t)
  PROVE  <<i, item>> \in FollowedByT(t)
<1>1. \A x \in Places(states) : Propagated(g, states, transitions, FollowedByT(t), x) => x \in FollowedByT(t)
  BY FollowedByTFacts DEF Adds
<1>. QED  BY <1>1, CarriedAlong

\* The nodes that t follows: where the rules of the symbol begin, t may follow them.
FollowedNodes(t) ==
  {n \in Node : \A r \in RuleIndex(g) :
     n[1] \in DOMAIN states /\ g.rules[r].lhs = n[2] /\ NewItem(r) \in states[n[1]]
       => <<n[1], NewItem(r)>> \in FollowedByT(t)}

\* Read and Includes do not lead out of them.
LEMMA FollowSpreads ==
  ASSUME Reading, NEW t PROVE Digraphs!Spreads(t, FollowedNodes(t))
<1>0. IInv
  BY DEF Reading, RelationsMade
<1>. DEFINE S == FollowedNodes(t)
<1>1. ASSUME NEW x \in Node, t \in ReadOf(x) PROVE x \in S
  <2>1. x \in DOMAIN read /\ t \in TrueRead(Sets, x)
    BY <1>1 DEF ReadOf, Pairs, Reading, ReadJustified
  <2>2. PICK pre \in states[x[1]] : Reads(g, pre, x[2]) /\ t \in FirstOf(Sets, Rest(pre))
    BY <2>1 DEF TrueRead
  <2>3. ASSUME NEW r \in RuleIndex(g), x[1] \in DOMAIN states, g.rules[r].lhs = x[2], NewItem(r) \in states[x[1]]
        PROVE  <<x[1], NewItem(r)>> \in FollowedByT(t)
    BY <1>0, <2>2, <2>3, PredictedFollowed
  <2>. QED  BY <2>3 DEF FollowedNodes
<1>2. ASSUME NEW x \in Node, NEW y \in Pairs(includes, x), y \in S PROVE x \in S
  <2>1. x \in DOMAIN includes /\ y \in TrueIncludes(x)
    BY <1>2 DEF Pairs, Reading, RelationsMade, IncludesSound
  <2>2. PICK pre \in states[x[1]] :
          /\ Reads(g, pre, x[2]) /\ AllIn(Rest(pre), Nullable(g))
          /\ \E p \in Origins(x[1], pre)[0] : y = <<p, g.rules[pre.rule].lhs>>
    BY <2>1 DEF TrueIncludes
  <2>3. PICK p \in Origins(x[1], pre)[0] : y = <<p, g.rules[pre.rule].lhs>>
    BY <2>2
  <2>4. x[1] \in DOMAIN states
    BY <2>1 DEF Reading, RelationsMade, KeysFit
  <2>5. pre.rule \in RuleIndex(g) /\ pre.pos \in Nat
    BY <1>0, <2>4, StateFacts DEF IInv, Item
  <2>6. p \in DOMAIN states /\ NewItem(pre.rule) \in states[p]
    BY <1>0, <2>4, <2>5, ItemsOnTheWay DEF NewItem
  <2>7. <<p, NewItem(pre.rule)>> \in FollowedByT(t)
    BY <1>2, <2>3, <2>5, <2>6 DEF FollowedNodes
  <2>8. <<x[1], pre>> \in FollowedByT(t)
    BY <1>0, <2>4, <2>7, EndFollowed
  <2>9. ASSUME NEW r \in RuleIndex(g), g.rules[r].lhs = x[2], NewItem(r) \in states[x[1]]
        PROVE  <<x[1], NewItem(r)>> \in FollowedByT(t)
    BY <1>0, <2>2, <2>4, <2>8, <2>9, PredictedFollowed
  <2>. QED  BY <2>9 DEF FollowedNodes
<1>3. \A x : Digraphs!Related(x) = Pairs(includes, x)
  BY DEF Digraphs!Related, Pairs
<1>. QED  BY <1>1, <1>2, <1>3 DEF Digraphs!Spreads

LEMMA LeastIsFollowed ==
  ASSUME Reading, NEW n \in Node, NEW t \in Digraphs!Least(n)
  PROVE  t \in TerminalsAndEnd(g) /\ n \in FollowedNodes(t)
<1>1. \A S \in SUBSET Node : Digraphs!Spreads(t, S) => n \in S
  BY DEF Digraphs!Least
<1>2. n \in FollowedNodes(t)
  <2>1. FollowedNodes(t) \in SUBSET Node
    BY DEF FollowedNodes
  <2>. QED  BY <1>1, <2>1, FollowSpreads
<1>3. ASSUME t \notin TerminalsAndEnd(g) PROVE FALSE
  <2>1. Digraphs!Spreads(t, {})
    BY <1>3, ReadTerminals DEF Digraphs!Spreads
  <2>. QED  BY <1>1, <2>1
<1>. QED  BY <1>2, <1>3

\* No lookahead is too many, unless a rule has its left-hand side within.
LEMMA LookaheadsSound ==
  ASSUME EveryNode, FollowInv, phase = "lookahead", NoneWithin, NEW key \in DOMAIN lookahead
  PROVE  /\ key \in DOMAIN lookback
         /\ lookahead[key] \subseteq LALRLookaheads(g, states, transitions)[key]
<1>1. /\ Reading /\ Digraphs!Sound /\ IInv
      /\ lookahead = [k \in DOMAIN lookback |-> LookaheadOf(k)]
  BY DEF FollowInv, ReadInv, RelInv, InPhase, Digraphs!Inv, Calculated, Reading, RelationsMade
<1>2. key \in DOMAIN lookback /\ lookahead[key] = LookaheadOf(key)
  BY <1>1
<1>3. ASSUME NEW t \in LookaheadOf(key) PROVE t \in LALRLookaheads(g, states, transitions)[key]
  <2>1. PICK n \in lookback[key] : t \in follow[n]
    BY <1>3 DEF LookaheadOf
  <2>2. PICK src \in FinishedItems : LookbackFrom(key, n, src)
    BY <1>1, <1>2, <2>1 DEF Reading, RelationsMade, LookbackJustified
  <2>. DEFINE i == src[1]
              item == src[2]
  <2>3. /\ i \in DOMAIN states /\ item \in states[i] /\ IsFinal(g, item) /\ item.pos \in Nat
        /\ key = <<i, item.rule>> /\ key = LookbackKey(src) /\ item \in Item(g)
    BY <1>1, <2>2, SourceFacts DEF LookbackFrom, LookbackKey
  <2>4. n \in TrueLookback(i, item)
    <3>1. \A k \in OnTheWay(i, item) : ~HasTransition(k, LhsOf(src))
      BY DEF NoneWithin, OnTheWay, FinalItems, FinishedItems
    <3>2. n \in Pairs(lookback, LookbackKey(src))
      BY <1>2, <2>1, <2>3 DEF Pairs
    <3>. QED  BY <1>1, <3>1, <3>2 DEF Reading, RelationsMade, LookbackWhole
  <2>5. PICK p \in Origins(i, item)[0] : n = <<p, g.rules[item.rule].lhs>>
    BY <2>4 DEF TrueLookback
  <2>6. p \in DOMAIN states /\ NewItem(item.rule) \in states[p] /\ NewItem(item.rule).rule = item.rule
    BY <1>1, <2>3, ItemsOnTheWay DEF NewItem
  <2>7. n \in Node /\ item.rule \in RuleIndex(g)
    BY <1>1, <2>3, <2>5, <2>6, NodeOfState DEF Item
  <2>8. t \in Digraphs!Least(n)
    BY <1>1, <2>1, <2>7 DEF Digraphs!Sound
  <2>9. t \in TerminalsAndEnd(g) /\ n \in FollowedNodes(t)
    BY <1>1, <2>7, <2>8, LeastIsFollowed
  <2>10. <<p, NewItem(item.rule)>> \in FollowedByT(t)
    BY <2>5, <2>6, <2>7, <2>9 DEF FollowedNodes
  <2>. DEFINE x == <<i, item>>
  <2>11. x \in FollowedByT(t) /\ x \in Places(states) /\ x[1] = i /\ x[2] = item
    BY <1>1, <2>3, <2>10, EndFollowed DEF Places
  <2>12. key \in DOMAIN LALRLookaheads(g, states, transitions)
    <3>. HIDE DEF x
    <3>. QED  BY <2>3, <2>11, IsLookahead
  <2>13. \E y \in FollowedByT(t) \cap Places(states) :
           IsFinal(g, y[2]) /\ y[1] = key[1] /\ y[2].rule = key[2]
    <3>1. key[1] = i /\ key[2] = item.rule
      BY <2>3
    <3>. HIDE DEF x
    <3>. QED  BY <2>3, <2>11, <3>1
  <2>. QED  BY <2>9, <2>12, <2>13, IsLookahead
<1>. QED  BY <1>2, <1>3

LEMMA LeastHas ==
  ASSUME Digraphs!TypeOK, NEW x \in Node
  PROVE  /\ ReadOf(x) \subseteq Digraphs!Least(x)
         /\ \A y \in Pairs(includes, x) : Digraphs!Least(y) \subseteq Digraphs!Least(x)
<1>1. Digraphs!Related(x) = Pairs(includes, x)
  BY DEF Digraphs!Related, Pairs
<1>2. /\ includes \in UNION {[keys -> SUBSET Node] : keys \in SUBSET Node}
      /\ [n \in Node |-> ReadOf(n)] \in [Node -> SUBSET Symbol]
  BY DEF Digraphs!TypeOK
<1>3. /\ [n \in Node |-> ReadOf(n)][x] \subseteq Digraphs!Least(x)
      /\ \A y \in Digraphs!Related(x) : Digraphs!Least(y) \subseteq Digraphs!Least(x)
  BY <1>2, DigraphAssumptions, Digraphs!LeastContains
<1>. QED  BY <1>1, <1>3

\* The places of the rules whose left-hand side t follows where they may have begun.
BegunBefore(t) ==
  {x \in Places(states) :
     \E p \in Origins(x[1], x[2])[0] : t \in Digraphs!Least(<<p, g.rules[x[2].rule].lhs>>)}

\* What follows a symbol in a state is in Read or comes over Includes.
LEMMA FollowsOfState ==
  ASSUME EveryNode, GrammarFits(g), Reading, phase # "read", Digraphs!TypeOK, Apart, AllStraight,
         NEW i \in DOMAIN states, NEW pre \in states[i], NEW r \in RuleIndex(g),
         Reads(g, pre, g.rules[r].lhs), NEW t,
         \/ t \in FirstOf(Sets, Rest(pre))
         \/ AllIn(Rest(pre), Nullable(g)) /\ <<i, pre>> \in BegunBefore(t)
  PROVE  t \in Digraphs!Least(<<i, g.rules[r].lhs>>)
<1>. DEFINE B == g.rules[r].lhs
            key == <<i, B>>
<1>0. IInv /\ RelationsMade
  BY DEF Reading, RelationsMade
<1>1. IsNonterminal(g, B)
  BY DEF GrammarFits, IsNonterminal
<1>2. key \in Node /\ key[1] = i /\ key[2] = B
  BY <1>0, NodeOfState
<1>3. \A item \in states[i] : Reads(g, item, B) => ReadsNonterminal(item)
  BY <1>1 DEF Reads, ReadsNonterminal
<1>4. \A item \in states[i] : Reads(g, item, B) => Straight(i, item)
  <2>. SUFFICES ASSUME NEW item \in states[i], Reads(g, item, B) PROVE Straight(i, item)
    OBVIOUS
  <2>1. <<i, item>> \in ItemsThat(LAMBDA x : IsFinalItem(x) \/ ReadsNonterminal(x))
    BY <1>3 DEF ItemsThat
  <2>. QED  BY <2>1 DEF AllStraight
<1>5. <<i, pre>> \in ReadingItems /\ SourceKey(<<i, pre>>) = key
  BY <1>3, IsReadingItem DEF SourceKey, Reads
<1>. HIDE DEF key
<1>6. ASSUME t \in FirstOf(Sets, Rest(pre)) PROVE t \in Digraphs!Least(key)
  <2>1. key \in DOMAIN read /\ FirstOf(Sets, Rest(pre)) \subseteq read[key]
    <3>. DEFINE src == <<i, pre>>
    <3>1. src[2] = pre
      OBVIOUS
    <3>. HIDE DEF src
    <3>. QED  BY <1>5, <3>1 DEF src, Reading, ReadWhole
  <2>2. t \in ReadOf(key)
    BY <1>6, <2>1 DEF ReadOf, Pairs
  <2>. QED  BY <1>2, <2>2, LeastHas
<1>7. ASSUME AllIn(Rest(pre), Nullable(g)), <<i, pre>> \in BegunBefore(t) PROVE t \in Digraphs!Least(key)
  <2>1. PICK p \in Origins(i, pre)[0] : t \in Digraphs!Least(<<p, g.rules[pre.rule].lhs>>)
    BY <1>7 DEF BegunBefore
  <2>2. key \in DOMAIN includes
    BY <1>0, <1>5 DEF RelationsMade, ReadingKeys
  <2>3. <<p, g.rules[pre.rule].lhs>> \in TrueIncludes(key)
    BY <1>2, <1>7 DEF TrueIncludes
  <2>4. TrueIncludes(key) \subseteq includes[key]
    BY <1>0, <1>2, <1>4, <2>2 DEF RelationsMade, IncludesWhole
  <2>5. <<p, g.rules[pre.rule].lhs>> \in Pairs(includes, key)
    BY <2>2, <2>3, <2>4 DEF Pairs
  <2>. QED  BY <1>2, <2>1, <2>5, LeastHas
<1>8. t \in Digraphs!Least(key)
  BY <1>6, <1>7
<1>. QED  BY <1>8 DEF key

LEMMA FollowedIsBegun ==
  ASSUME EveryNode, GrammarFits(g), Reading, phase # "read", Digraphs!TypeOK, Apart, AllStraight, NEW t
  PROVE  FollowedByT(t) \subseteq BegunBefore(t)
<1>0. IInv
  BY DEF Reading, RelationsMade
<1>. DEFINE M == BegunBefore(t)
<1>1. ASSUME NEW x \in Places(states), NEW pre \in states[x[1]], x[2] \in Predicted(g, pre),
             \/ t \in FirstOf(Sets, Rest(pre))
             \/ AllIn(Rest(pre), Nullable(g)) /\ <<x[1], pre>> \in M
      PROVE  x \in M
  <2>1. x[1] \in DOMAIN states /\ x[2] \in states[x[1]]
    BY DEF Places
  <2>2. PICK r \in RuleIndex(g) : x[2] = NewItem(r) /\ Reads(g, pre, g.rules[r].lhs)
    BY <1>1 DEF Predicted
  <2>3. t \in Digraphs!Least(<<x[1], g.rules[r].lhs>>)
    BY <1>1, <2>1, <2>2, FollowsOfState
  <2>4. x[2].rule = r /\ x[2].pos = 0
    BY <2>2 DEF NewItem
  <2>5. x[1] \in Origins(x[1], x[2])[0]
    BY <1>0, <2>1, <2>4, OriginsFacts
  <2>. QED  BY <2>3, <2>4, <2>5 DEF BegunBefore
<1>2. ASSUME NEW x \in Places(states), Propagated(g, states, transitions, M, x) PROVE x \in M
  <2>1. PICK e \in transitions : /\ e[3] = x[1]
                                 /\ \E pre \in states[e[1]] :
                                      Reads(g, pre, e[2]) /\ x[2] = Step(pre) /\ <<e[1], pre>> \in M
    BY <1>2 DEF Propagated
  <2>2. PICK pre \in states[e[1]] : Reads(g, pre, e[2]) /\ x[2] = Step(pre) /\ <<e[1], pre>> \in M
    BY <2>1
  <2>3. PICK p \in Origins(e[1], pre)[0] : t \in Digraphs!Least(<<p, g.rules[pre.rule].lhs>>)
    BY <2>2 DEF BegunBefore
  <2>4. x[2].rule = pre.rule /\ p \in Origins(x[1], x[2])[0]
    BY <1>0, <2>1, <2>2, OneSymbolOn
  <2>. QED  BY <2>3, <2>4 DEF BegunBefore
<1>3. ASSUME NEW x \in Places(states), Adds(g, states, transitions, Sets, t, M, x) PROVE x \in M
  <2>1. CASE Spontaneous(g, states, BeginsAt(g, states, Sets, t), x)
    <3>1. PICK pre \in states[x[1]] : x[2] \in Predicted(g, pre) /\ <<x[1], pre>> \in BeginsAt(g, states, Sets, t)
      BY <2>1 DEF Spontaneous
    <3>2. t \in FirstOf(Sets, Rest(pre))
      BY <3>1 DEF BeginsAt, AfterNext, Rest
    <3>. QED  BY <1>1, <3>1, <3>2
  <2>2. CASE Inherited(g, states, PassesAt(g, states, Sets), M, x)
    <3>1. PICK pre \in states[x[1]] : /\ x[2] \in Predicted(g, pre)
                                      /\ <<x[1], pre>> \in PassesAt(g, states, Sets) /\ <<x[1], pre>> \in M
      BY <2>2 DEF Inherited
    <3>2. AllIn(Rest(pre), Nullable(g))
      BY <3>1, SetsOfGrammar DEF PassesAt, NullableSeq, AfterNext, Rest
    <3>. QED  BY <1>1, <3>1, <3>2
  <2>. QED  BY <1>2, <1>3, <2>1, <2>2 DEF Adds
<1>4. IsFiniteSet(Places(states))
  BY <1>0, FinitePlaces DEF IInv
<1>. QED  BY <1>3, <1>4, FollowedByIsLeast DEF FollowedByT

LEMMA FiniteKeys ==
  ASSUME RelationsMade PROVE IsFiniteSet(DOMAIN includes)
<1>1. IInv /\ IsFiniteSet(Places(states))
  BY FinitePlaces DEF RelationsMade, IInv
<1>. DEFINE f == [x \in Places(states) |-> <<x[1], ReadSymbol(g, x[2])>>]
            T == {f[x] : x \in Places(states)}
<1>2. IsFiniteSet(T)
  <2>. HIDE DEF f
  <2>. QED  BY <1>1, FiniteImage
<1>3. ASSUME NEW key \in DOMAIN includes PROVE key \in T
  <2>1. key = <<key[1], key[2]>> /\ key[1] \in DOMAIN states
    BY DEF RelationsMade, KeysFit
  <2>2. PICK item \in states[key[1]] : Reads(g, item, key[2])
    BY DEF RelationsMade, KeysFit
  <2>. DEFINE x == <<key[1], item>>
  <2>3. x \in Places(states) /\ x[1] = key[1] /\ x[2] = item
    BY <2>1 DEF Places
  <2>4. f[x] = key
    BY <2>1, <2>2, <2>3 DEF Reads
  <2>. HIDE DEF x, f
  <2>. QED  BY <2>3, <2>4
<1>. QED  BY <1>2, <1>3, FS_Subset

\* An order of the keys in which each comes after those it is related to leaves no
\* loop, whatever other nodes there are.
LEMMA NoLoops ==
  ASSUME RelationsMade, Loopless PROVE Digraphs!Loopless
<1>. DEFINE keys == DOMAIN includes
            Grow == [S \in SUBSET keys |-> {n \in keys : includes[n] \cap keys \subseteq S \cup {n}}]
<1>. SUFFICES ASSUME NEW S \in SUBSET Node, S # {},
                     \A x \in S : ~(Digraphs!Related(x) \cap S \subseteq {x})
              PROVE  FALSE
  BY DEF Digraphs!Loopless
<1>1. \A x \in S : x \in keys /\ ~(includes[x] \cap S \subseteq {x})
  BY DEF Digraphs!Related
<1>2. IsFiniteSet(keys) /\ keys = Grown(Grow, keys)
  BY FiniteKeys DEF Loopless
<1>3. Grow \in [SUBSET keys -> SUBSET keys]
  OBVIOUS
<1>4. \A T \in SUBSET keys : T \subseteq keys \ S => Grow[T] \subseteq keys \ S
  <2>. SUFFICES ASSUME NEW T \in SUBSET keys, T \subseteq keys \ S, NEW n \in Grow[T] PROVE n \in keys \ S
    OBVIOUS
  <2>1. n \in keys /\ includes[n] \cap keys \subseteq T \cup {n}
    OBVIOUS
  <2>2. ASSUME n \in S PROVE FALSE
    <3>1. PICK y \in includes[n] \cap S : y # n
      BY <1>1, <2>2
    <3>. QED  BY <1>1, <2>1, <2>2, <3>1
  <2>. QED  BY <2>1, <2>2
<1>. DEFINE M == keys \ S
<1>. HIDE DEF keys, Grow, M
<1>5. \A T \in SUBSET keys : T \subseteq M => Grow[T] \subseteq M
  BY <1>4 DEF M
<1>6. Grown(Grow, keys) \subseteq M
  BY ONLY <1>2, <1>3, <1>5, GrownWithin
<1>. QED  BY <1>1, <1>2, <1>6 DEF M

\* No lookahead is missing, unless something was cut off.
LEMMA LookaheadsComplete ==
  ASSUME EveryNode, GrammarFits(g), FollowInv, phase = "lookahead", Apart, AllStraight, Loopless,
         NEW key \in DOMAIN LALRLookaheads(g, states, transitions),
         NEW t \in LALRLookaheads(g, states, transitions)[key]
  PROVE  t \in lookahead[key]
<1>1. /\ Reading /\ RelationsMade /\ IInv /\ Done /\ Digraphs!TypeOK /\ Digraphs!LooplessExact /\ Digraphs!RootsVisited
      /\ frames = <<>> /\ roots = {} /\ lookahead = [k \in DOMAIN lookback |-> LookaheadOf(k)]
  BY DEF FollowInv, ReadInv, RelInv, InPhase, Digraphs!Inv, Digraphs!PairsInv, Calculated, Reading, RelationsMade
<1>2. PICK x \in FollowedByT(t) \cap Places(states) : IsFinal(g, x[2]) /\ x[1] = key[1] /\ x[2].rule = key[2]
  BY IsLookahead
<1>3. PICK z \in Places(states) : key = <<z[1], z[2].rule>>
  BY IsLookahead
<1>. DEFINE i == x[1]
            item == x[2]
            lhs == g.rules[item.rule].lhs
            src == <<i, item>>
<1>4. i \in DOMAIN states /\ item \in states[i] /\ key = <<i, item.rule>> /\ src = x
  BY <1>2, <1>3 DEF Places
<1>5. PICK p \in Origins(i, item)[0] : t \in Digraphs!Least(<<p, lhs>>)
  <2>1. x \in BegunBefore(t)
    BY <1>1, <1>2, FollowedIsBegun
  <2>. QED  BY <2>1 DEF BegunBefore
<1>. DEFINE n == <<p, lhs>>
<1>6. n \in Pairs(lookback, key)
  <2>1. src \in FinishedItems /\ src[1] = i /\ src[2] = item /\ LookbackKey(src) = key
    BY <1>2, <1>4, IsFinishedItem DEF IsFinalItem, LookbackKey
  <2>2. src \in ItemsThat(LAMBDA y : IsFinalItem(y) \/ ReadsNonterminal(y))
    BY <1>2, <1>4 DEF ItemsThat, IsFinalItem
  <2>3. Straight(i, item)
    BY <2>1, <2>2 DEF AllStraight
  <2>4. n \in TrueLookback(i, item)
    BY <1>5 DEF TrueLookback
  <2>. QED  BY <1>1, <2>1, <2>3, <2>4 DEF RelationsMade, LookbackWhole
<1>7. n \in DOMAIN includes /\ n \in Node
  <2>1. HasTransition(p, lhs)
    BY <1>1, <1>2, <1>4, RuleBegan
  <2>2. PICK e \in transitions : e[1] = p /\ e[2] = lhs
    BY <2>1 DEF HasTransition
  <2>3. p \in DOMAIN states /\ lhs \in NextSymbols(g, states[p])
    BY <1>1, <2>2 DEF IInv, TypeOK, EdgesAreGoto
  <2>4. PICK pre \in states[p] : ~IsFinal(g, pre) /\ ReadSymbol(g, pre) = lhs
    BY <2>3 DEF NextSymbols
  <2>5. IsNonterminal(g, lhs)
    <3>1. item.rule \in RuleIndex(g)
      BY <1>1, <1>4, StateFacts DEF IInv, Item
    <3>. QED  BY <3>1 DEF GrammarFits, IsNonterminal
  <2>6. <<p, pre>> \in ReadingItems /\ SourceKey(<<p, pre>>) = n
    BY <2>3, <2>4, <2>5, IsReadingItem DEF ReadsNonterminal, SourceKey
  <2>7. n \in DOMAIN includes
    BY <1>1, <2>6 DEF RelationsMade, ReadingKeys
  <2>. QED  BY <1>1, <2>7, NodesOfIncludes
<1>8. t \in follow[n]
  <2>1. Digraphs!Loopless
    BY <1>1, NoLoops
  <2>2. n \notin Digraphs!Active
    BY <1>1 DEF Digraphs!Active
  <2>3. depths[n] # 0
    BY <1>1, <1>7 DEF Digraphs!RootsVisited
  <2>4. follow[n] = Digraphs!Least(n)
    BY <1>1, <1>7, <2>1, <2>2, <2>3 DEF Digraphs!LooplessExact
  <2>. QED  BY <1>5, <2>4
<1>9. key \in DOMAIN lookback /\ n \in lookback[key]
  BY <1>6 DEF Pairs
<1>. HIDE DEF n
<1>10. t \in LookaheadOf(key)
  BY <1>8, <1>9 DEF LookaheadOf
<1>. QED  BY <1>1, <1>9, <1>10

\* The lookaheads are those of LALR(1) by their definition, in whatever order
\* digraph_algo() works: none is missing unless a walk or empty() cut something off
\* or Includes has a loop, and none is too many unless a rule has its left-hand
\* side within.
THEOREM LookaheadsAreExact ==
  ASSUME \A gr \in Grammars : GrammarFits(gr), EveryNode
  PROVE  LkSpec => []LookaheadsExact
<1>1. LkInit => FollowInv
  BY LkInitFollowInv
<1>2. FollowInv /\ [LkNext]_lookaheadsVars => FollowInv'
  BY FollowStepInv
<1>3. FollowInv => LookaheadsExact
  <2>. SUFFICES ASSUME FollowInv, phase = "lookahead"
                PROVE  LET true == LALRLookaheads(g, states, transitions)
                       IN  /\ Apart /\ AllStraight /\ Loopless => \A key \in DOMAIN true : true[key] \subseteq lookahead[key]
                           /\ NoneWithin => \A key \in DOMAIN lookahead : lookahead[key] \subseteq true[key]
    BY DEF LookaheadsExact, LkDone
  <2>1. GrammarFits(g)
    BY DEF FollowInv, ReadInv, Reading, RelationsMade, RelInv, IInv, TypeOK
  <2>. QED  BY <2>1, LookaheadsSound, LookaheadsComplete
<1>. QED  BY <1>1, <1>2, <1>3, PTL DEF LkSpec

\* Every set of Lookahead is a set of terminals, those with the lookaheads that are
\* too many included.
LEMMA LookaheadsAreTerminals ==
  ASSUME EveryNode, FollowInv, phase = "lookahead"
  PROVE  lookahead \in [DOMAIN lookahead -> SUBSET TerminalsAndEnd(g)]
<1>1. /\ Reading /\ Digraphs!Sound /\ IInv
      /\ lookahead = [k \in DOMAIN lookback |-> LookaheadOf(k)]
  BY DEF FollowInv, ReadInv, RelInv, InPhase, Digraphs!Inv, Calculated, Reading, RelationsMade
<1>2. ASSUME NEW key \in DOMAIN lookback, NEW t \in LookaheadOf(key) PROVE t \in TerminalsAndEnd(g)
  <2>1. PICK n \in lookback[key] : t \in follow[n]
    BY <1>2 DEF LookaheadOf
  <2>2. PICK src \in FinishedItems : LookbackFrom(key, n, src)
    BY <1>1, <1>2, <2>1 DEF Reading, RelationsMade, LookbackJustified
  <2>. DEFINE i == src[1]
              item == src[2]
  <2>3. i \in DOMAIN states /\ item \in states[i] /\ item \in Item(g)
    BY <1>1, <2>2, SourceFacts
  <2>4. PICK m \in 0 .. item.pos : \E p \in Origins(i, item)[m] : n = <<p, g.rules[item.rule].lhs>>
    BY <2>2 DEF LookbackFrom, From, LhsOf
  <2>5. PICK p \in Origins(i, item)[m] : n = <<p, g.rules[item.rule].lhs>>
    BY <2>4
  <2>. DEFINE at == [rule |-> item.rule, pos |-> m]
  <2>6. p \in DOMAIN states /\ at \in states[p] /\ at.rule = item.rule
    BY <1>1, <2>3, ItemsOnTheWay
  <2>7. n \in Node
    BY <1>1, <2>5, <2>6, NodeOfState
  <2>8. t \in Digraphs!Least(n)
    BY <1>1, <2>1, <2>7 DEF Digraphs!Sound
  <2>. QED  BY <1>1, <2>7, <2>8, LeastIsFollowed
<1>. QED  BY <1>1, <1>2

\* Of grammars as the builders leave them, the phases before calculate() leave what
\* the theorems about the parsing table take for granted: an automaton as it has to
\* be, and lookaheads that are terminals, whatever is wrong with them otherwise.
THEOREM LeavesLookaheads ==
  ASSUME \A gr \in Grammars : GrammarFits(gr), EveryNode
  PROVE  LkSpec => [](LkDone => /\ AutomatonFits(Built)
                                /\ lookahead \in [DOMAIN lookahead -> SUBSET TerminalsAndEnd(g)])
<1>1. LkInit => FollowInv
  BY LkInitFollowInv
<1>2. FollowInv /\ [LkNext]_lookaheadsVars => FollowInv'
  BY FollowStepInv
<1>3. FollowInv => (LkDone => /\ AutomatonFits(Built)
                              /\ lookahead \in [DOMAIN lookahead -> SUBSET TerminalsAndEnd(g)])
  <2>. SUFFICES ASSUME FollowInv, phase = "lookahead"
                PROVE  /\ AutomatonFits(Built)
                       /\ lookahead \in [DOMAIN lookahead -> SUBSET TerminalsAndEnd(g)]
    BY DEF LkDone
  <2>1. IInv /\ Done
    BY DEF FollowInv, ReadInv, Reading, RelationsMade, RelInv, InPhase
  <2>2. GrammarFits(g)
    BY <2>1 DEF IInv, TypeOK
  <2>. QED  BY <2>1, <2>2, BuiltFits, LookaheadsAreTerminals
<1>. QED  BY <1>1, <1>2, <1>3, PTL DEF LkSpec

=============================================================================
