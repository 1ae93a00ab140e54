------------------------ MODULE GrammarQueriesProofs ------------------------
(***************************************************************************)
(* empty(), first() and follow() against the textbook sets of the grammar. *)
(*                                                                         *)
(* That they claim nothing too much is an induction over the depth of the  *)
(* calls.  That they claim all where no symbol that can be empty is used   *)
(* twice has a different reason for each.  A call of empty() gives up at   *)
(* visited symbols: what can be empty without the symbols visited before   *)
(* it can be empty without those visited on the way to it too, as the only *)
(* place of each of them is in what has been visited.  first() and         *)
(* follow() search the grammar: once they return, the symbols visited are  *)
(* closed but for the terminals found.                                     *)
(***************************************************************************)
EXTENDS GrammarQueries, FlattenProofs, FiniteSetTheorems

-----------------------------------------------------------------------------
(* Loops *)

LEMMA UpTo ==
  ASSUME NEW N \in Nat, NEW T, 0 \in T, \A k \in 1 .. N : k - 1 \in T => k \in T
  PROVE  \A k \in 0 .. N : k \in T
<1>. DEFINE M == {k \in Nat : k <= N => k \in T}
<1>1. 0 \in M
  OBVIOUS
<1>2. ASSUME NEW k \in M PROVE k + 1 \in M
  <2>. SUFFICES ASSUME k + 1 <= N PROVE k + 1 \in T
    OBVIOUS
  <2>1. k \in T /\ k + 1 \in 1 .. N /\ (k + 1) - 1 = k
    OBVIOUS
  <2>2. (k + 1) - 1 \in T
    BY <2>1
  <2>. QED  BY <2>1, <2>2
<1>3. M \subseteq Nat
  OBVIOUS
<1>. HIDE DEF M
<1>4. M = Nat
  BY <1>1, <1>2, <1>3, SetInduction
<1>. QED  BY <1>4 DEF M

\* A loop makes each result from the one before.
CanLoop(N, R, base, Go)   == N \in Nat /\ base \in R /\ Go \in [1 .. N -> [R -> R]]
LoopOf(f, N, R, base, Go) == /\ f \in [0 .. N -> R] /\ f[0] = base
                             /\ \A k \in 1 .. N : f[k] = Go[k][f[k - 1]]

LEMMA LoopExists ==
  ASSUME NEW N, NEW R, NEW base, NEW Go, CanLoop(N, R, base, Go)
  PROVE  \E f : LoopOf(f, N, R, base, Go)
<1>. USE DEF CanLoop
<1>. DEFINE Made(n, f) == /\ f \in [0 .. n -> R] /\ f[0] = base
                          /\ \A k \in 1 .. n : f[k] = Go[k][f[k - 1]]
            T == {n \in Nat : \E f \in [0 .. n -> R] : Made(n, f)}
<1>1. 0 \in T
  <2>. DEFINE f == [k \in 0 .. 0 |-> base]
  <2>1. f \in [0 .. 0 -> R] /\ f[0] = base /\ 1 .. 0 = {}
    OBVIOUS
  <2>. HIDE DEF f
  <2>2. Made(0, f)
    BY <2>1
  <2>. QED  BY <2>1, <2>2
<1>2. ASSUME NEW n \in 1 .. N, n - 1 \in T PROVE n \in T
  <2>1. PICK f \in [0 .. n - 1 -> R] : Made(n - 1, f)
    BY <1>2
  <2>. DEFINE h == [k \in 0 .. n |-> IF k = n THEN Go[n][f[n - 1]] ELSE f[k]]
  <2>2. f[n - 1] \in R
    BY <2>1
  <2>3. Go[n] \in [R -> R]
    OBVIOUS
  <2>4. Go[n][f[n - 1]] \in R
    BY <2>2, <2>3
  <2>5. h \in [0 .. n -> R]
    <3>. SUFFICES ASSUME NEW k \in 0 .. n PROVE (IF k = n THEN Go[n][f[n - 1]] ELSE f[k]) \in R
      OBVIOUS
    <3>1. k # n => k \in 0 .. n - 1
      OBVIOUS
    <3>. QED  BY <2>1, <2>4, <3>1
  <2>6. h[0] = base
    BY <2>1
  <2>7. ASSUME NEW k \in 1 .. n PROVE h[k] = Go[k][h[k - 1]]
    <3>1. k - 1 \in 0 .. n /\ k - 1 # n /\ h[k - 1] = f[k - 1]
      OBVIOUS
    <3>2. k # n => k \in 1 .. n - 1
      OBVIOUS
    <3>3. h[k] = IF k = n THEN Go[n][f[n - 1]] ELSE f[k]
      OBVIOUS
    <3>. HIDE DEF h
    <3>. QED  BY <2>1, <3>1, <3>2, <3>3
  <2>. HIDE DEF h
  <2>8. n \in Nat /\ Made(n, h)
    BY <2>5, <2>6, <2>7
  <2>. HIDE DEF Made
  <2>9. \E f1 \in [0 .. n -> R] : Made(n, f1)
    BY <2>5, <2>8
  <2>. QED  BY ONLY <2>8, <2>9 DEF T
<1>. HIDE DEF T
<1>3. \A k \in 0 .. N : k \in T
  BY ONLY N \in Nat, <1>1, <1>2, UpTo
<1>4. PICK f \in [0 .. N -> R] : Made(N, f)
  <2>1. N \in T
    BY <1>3
  <2>. QED  BY <2>1 DEF T
<1>. QED  BY <1>4 DEF LoopOf

-----------------------------------------------------------------------------
(* The loops of empty() *)

EmptyResult(gr) == [answer : BOOLEAN, visited : SUBSET UsedSymbols(gr)]
EmptyFunction(gr)   == [UsedSymbols(gr) -> [SUBSET UsedSymbols(gr) -> EmptyResult(gr)]]

\* The symbols of a rule are symbols of the grammar.
LEMMA RuleSymbols ==
  ASSUME NEW gr, WellFormed(gr), NEW r \in RuleIndex(gr)
  PROVE  /\ gr.rules[r].lhs \in Nonterminals(gr) /\ gr.rules[r].lhs \in UsedSymbols(gr)
         /\ gr.rules[r].rhs \in Seq(UsedSymbols(gr))
         /\ Len(gr.rules) \in Nat
<1>1. gr.rules \in Seq(Rule) /\ r \in DOMAIN gr.rules
  BY DEF WellFormed, RuleIndex
<1>2. gr.rules[r] \in Rule /\ Len(gr.rules) \in Nat
  BY <1>1
<1>3. gr.rules[r].rhs \in Seq(Symbol)
  BY <1>2 DEF Rule
<1>. DEFINE rhs == gr.rules[r].rhs
<1>4. \A p \in DOMAIN rhs : rhs[p] \in UsedSymbols(gr)
  BY DEF UsedSymbols
<1>5. rhs \in Seq(UsedSymbols(gr))
  <2>. HIDE DEF rhs
  <2>1. rhs \in Seq(Symbol)
    BY <1>3 DEF rhs
  <2>. QED  BY <1>4, <2>1
<1>. QED  BY <1>2, <1>5 DEF Nonterminals, UsedSymbols

LEMMA EmptyNextType ==
  ASSUME NEW gr, NEW call \in EmptyFunction(gr), NEW s \in UsedSymbols(gr), NEW before \in EmptyResult(gr)
  PROVE  EmptyNext(call, s, before) \in EmptyResult(gr)
<1>1. before.visited \in SUBSET UsedSymbols(gr)
  BY DEF EmptyResult
<1>2. call[s][before.visited] \in EmptyResult(gr)
  BY <1>1 DEF EmptyFunction
<1>3. [answer |-> FALSE, visited |-> before.visited] \in EmptyResult(gr)
  BY <1>1 DEF EmptyResult
<1>. QED  BY <1>2, <1>3 DEF EmptyNext

EmptySequenceRun(f, gr, call, seq, visited) ==
  /\ f \in [0 .. Len(seq) -> EmptyResult(gr)]
  /\ f[0] = [answer |-> TRUE, visited |-> visited]
  /\ \A k \in 1 .. Len(seq) : f[k] = EmptyNext(call, seq[k], f[k - 1])
  /\ EmptySequence(call, seq, visited) = f[Len(seq)]

LEMMA EmptySequenceLoop ==
  ASSUME NEW gr, NEW call \in EmptyFunction(gr), NEW seq \in Seq(UsedSymbols(gr)),
         NEW visited \in SUBSET UsedSymbols(gr)
  PROVE  \E f : EmptySequenceRun(f, gr, call, seq, visited)
<1>. DEFINE N == Len(seq)
            R == EmptyResult(gr)
            base == [answer |-> TRUE, visited |-> visited]
            Go == [k \in 1 .. N |-> [x \in R |-> EmptyNext(call, seq[k], x)]]
            Is(f) == f = [k \in 0 .. N |-> IF k = 0 THEN base ELSE EmptyNext(call, seq[k], f[k - 1])]
            X == CHOOSE f : Is(f)
<1>0. N \in Nat /\ base \in R
  BY DEF EmptyResult
<1>1. \A k \in 1 .. N, x \in R : EmptyNext(call, seq[k], x) \in R
  <2>1. \A k \in 1 .. N : seq[k] \in UsedSymbols(gr)
    OBVIOUS
  <2>. QED  BY <2>1, EmptyNextType
<1>2. Go \in [1 .. N -> [R -> R]]
  BY <1>1
<1>3. PICK h : LoopOf(h, N, R, base, Go)
  <2>1. CanLoop(N, R, base, Go)
    BY <1>0, <1>2 DEF CanLoop
  <2>. HIDE DEF N, R, base, Go
  <2>. QED  BY ONLY <2>1, LoopExists
<1>4. Is(h)
  <2>1. ASSUME NEW k \in 1 .. N PROVE Go[k][h[k - 1]] = EmptyNext(call, seq[k], h[k - 1])
    <3>1. k - 1 \in 0 .. N
      BY <1>0
    <3>2. h[k - 1] \in R
      BY <1>3, <3>1 DEF LoopOf
    <3>. HIDE DEF R, N
    <3>. QED  BY <3>2
  <2>2. \A k \in 0 .. N : k # 0 => k \in 1 .. N
    BY <1>0
  <2>3. h = [k \in 0 .. N |-> h[k]]
    <3>. HIDE DEF N, R
    <3>. QED  BY <1>3 DEF LoopOf
  <2>. HIDE DEF N, R, Go, base
  <2>. QED  BY ONLY <1>3, <2>1, <2>2, <2>3 DEF LoopOf
<1>5. Is(X)
  <2>. HIDE DEF Is
  <2>. QED  BY <1>4
<1>6. /\ X[0] = base /\ \A k \in 1 .. N : X[k] = EmptyNext(call, seq[k], X[k - 1])
      /\ X = [k \in 0 .. N |-> X[k]]
  <2>1. 0 \in 0 .. N /\ \A k \in 1 .. N : k \in 0 .. N /\ k # 0
    BY <1>0
  <2>. HIDE DEF N, X, base
  <2>. QED  BY ONLY <1>5, <2>1
<1>7. \A k \in 0 .. N : X[k] \in R
  <2>. DEFINE T == {k \in 0 .. N : X[k] \in R}
  <2>. HIDE DEF X
  <2>1. 0 \in T
    <3>. HIDE DEF N, R, base
    <3>1. 0 \in 0 .. N
      BY <1>0
    <3>. QED  BY <1>0, <1>6, <3>1
  <2>2. ASSUME NEW k \in 1 .. N, k - 1 \in T PROVE k \in T
    <3>1. X[k - 1] \in R /\ k \in 0 .. N
      BY <2>2, <1>0
    <3>2. X[k] = EmptyNext(call, seq[k], X[k - 1])
      BY <1>6
    <3>. HIDE DEF N, R
    <3>. QED  BY <1>1, <3>1, <3>2
  <2>. HIDE DEF T, N
  <2>3. \A k \in 0 .. N : k \in T
    BY ONLY <1>0, <2>1, <2>2, UpTo
  <2>. QED  BY <2>3 DEF T
<1>8. EmptySequence(call, seq, visited) = X[N]
  BY DEF EmptySequence
<1>9. X \in [0 .. N -> R]
  <2>. HIDE DEF X, R, N
  <2>. QED  BY <1>6, <1>7
<1>. HIDE DEF X
<1>. QED  BY <1>6, <1>8, <1>9 DEF EmptySequenceRun

LEMMA EmptySequenceType ==
  ASSUME NEW gr, NEW call \in EmptyFunction(gr), NEW seq \in Seq(UsedSymbols(gr)),
         NEW visited \in SUBSET UsedSymbols(gr)
  PROVE  EmptySequence(call, seq, visited) \in EmptyResult(gr)
<1>1. Len(seq) \in 0 .. Len(seq)
  OBVIOUS
<1>2. PICK f : EmptySequenceRun(f, gr, call, seq, visited)
  BY EmptySequenceLoop
<1>. QED  BY <1>1, <1>2 DEF EmptySequenceRun

LEMMA EmptyRuleType ==
  ASSUME NEW gr, WellFormed(gr), NEW call \in EmptyFunction(gr), NEW s \in UsedSymbols(gr),
         NEW r \in RuleIndex(gr), NEW before \in EmptyResult(gr)
  PROVE  EmptyRule(call, s, gr.rules[r], before) \in EmptyResult(gr)
<1>1. before.visited \cup {s} \in SUBSET UsedSymbols(gr)
  BY DEF EmptyResult
<1>2. gr.rules[r].rhs \in Seq(UsedSymbols(gr))
  BY RuleSymbols
<1>3. EmptySequence(call, gr.rules[r].rhs, before.visited \cup {s}) \in EmptyResult(gr)
  BY <1>1, <1>2, EmptySequenceType
<1>. QED  BY <1>3 DEF EmptyRule

LEMMA RulesAreFinite ==
  ASSUME NEW gr, WellFormed(gr)
  PROVE  /\ Len(gr.rules) \in Nat /\ RuleIndex(gr) = 1 .. Len(gr.rules)
         /\ IsFiniteSet(Nonterminals(gr)) /\ Cardinality(Nonterminals(gr)) \in Nat
         /\ Depth(gr) = Cardinality(Nonterminals(gr)) + 1 /\ Depth(gr) \in Nat
<1>1. Len(gr.rules) \in Nat /\ RuleIndex(gr) = 1 .. Len(gr.rules)
  BY DEF WellFormed, RuleIndex
<1>2. IsFiniteSet(RuleIndex(gr))
  BY <1>1, FS_Interval
<1>. DEFINE f == [r \in RuleIndex(gr) |-> gr.rules[r].lhs]
<1>3. f \in Surjection(RuleIndex(gr), Nonterminals(gr))
  BY DEF Surjection, Nonterminals
<1>4. IsFiniteSet(Nonterminals(gr))
  BY ONLY <1>2, <1>3, FS_Surjection
<1>5. Cardinality(Nonterminals(gr)) \in Nat
  BY <1>4, FS_CardinalityType
<1>. QED  BY <1>1, <1>4, <1>5 DEF Depth

EmptyRulesRun(f, gr, call, s, visited) ==
  /\ f \in [0 .. Len(gr.rules) -> EmptyResult(gr)]
  /\ f[0] = [answer |-> FALSE, visited |-> visited]
  /\ \A k \in 1 .. Len(gr.rules) : f[k] = EmptyRule(call, s, gr.rules[k], f[k - 1])
  /\ EmptyRules(gr, call, s, visited) = f[Len(gr.rules)]

LEMMA EmptyRulesLoop ==
  ASSUME NEW gr, WellFormed(gr), NEW call \in EmptyFunction(gr), NEW s \in UsedSymbols(gr),
         NEW visited \in SUBSET UsedSymbols(gr)
  PROVE  \E f : EmptyRulesRun(f, gr, call, s, visited)
<1>. DEFINE N == Len(gr.rules)
            R == EmptyResult(gr)
            base == [answer |-> FALSE, visited |-> visited]
            Go == [k \in 1 .. N |-> [x \in R |-> EmptyRule(call, s, gr.rules[k], x)]]
            Is(f) == f = [k \in 0 .. N |-> IF k = 0 THEN base ELSE EmptyRule(call, s, gr.rules[k], f[k - 1])]
            X == CHOOSE f : Is(f)
<1>0. N \in Nat /\ base \in R
  BY RulesAreFinite DEF EmptyResult
<1>1. \A k \in 1 .. N, x \in R : EmptyRule(call, s, gr.rules[k], x) \in R
  BY RulesAreFinite, EmptyRuleType
<1>2. Go \in [1 .. N -> [R -> R]]
  BY <1>1
<1>3. PICK h : LoopOf(h, N, R, base, Go)
  <2>1. CanLoop(N, R, base, Go)
    BY <1>0, <1>2 DEF CanLoop
  <2>. HIDE DEF N, R, base, Go
  <2>. QED  BY ONLY <2>1, LoopExists
<1>4. Is(h)
  <2>1. ASSUME NEW k \in 1 .. N PROVE Go[k][h[k - 1]] = EmptyRule(call, s, gr.rules[k], h[k - 1])
    <3>1. k - 1 \in 0 .. N
      BY <1>0
    <3>2. h[k - 1] \in R
      BY <1>3, <3>1 DEF LoopOf
    <3>. HIDE DEF R, N
    <3>. QED  BY <3>2
  <2>2. \A k \in 0 .. N : k # 0 => k \in 1 .. N
    BY <1>0
  <2>3. h = [k \in 0 .. N |-> h[k]]
    <3>. HIDE DEF N, R
    <3>. QED  BY <1>3 DEF LoopOf
  <2>. HIDE DEF N, R, Go, base
  <2>. QED  BY ONLY <1>3, <2>1, <2>2, <2>3 DEF LoopOf
<1>5. Is(X)
  <2>. HIDE DEF Is
  <2>. QED  BY <1>4
<1>6. /\ X[0] = base /\ \A k \in 1 .. N : X[k] = EmptyRule(call, s, gr.rules[k], X[k - 1])
      /\ X = [k \in 0 .. N |-> X[k]]
  <2>1. 0 \in 0 .. N /\ \A k \in 1 .. N : k \in 0 .. N /\ k # 0
    BY <1>0
  <2>. HIDE DEF N, X, base
  <2>. QED  BY ONLY <1>5, <2>1
<1>7. \A k \in 0 .. N : X[k] \in R
  <2>. DEFINE T == {k \in 0 .. N : X[k] \in R}
  <2>. HIDE DEF X
  <2>1. 0 \in T
    <3>. HIDE DEF N, R, base
    <3>1. 0 \in 0 .. N
      BY <1>0
    <3>. QED  BY <1>0, <1>6, <3>1
  <2>2. ASSUME NEW k \in 1 .. N, k - 1 \in T PROVE k \in T
    <3>1. X[k - 1] \in R /\ k \in 0 .. N
      BY <2>2, <1>0
    <3>2. X[k] = EmptyRule(call, s, gr.rules[k], X[k - 1])
      BY <1>6
    <3>. HIDE DEF N, R
    <3>. QED  BY <1>1, <3>1, <3>2
  <2>. HIDE DEF T, N
  <2>3. \A k \in 0 .. N : k \in T
    BY ONLY <1>0, <2>1, <2>2, UpTo
  <2>. QED  BY <2>3 DEF T
<1>8. EmptyRules(gr, call, s, visited) = X[N]
  BY DEF EmptyRules
<1>9. X \in [0 .. N -> R]
  <2>. HIDE DEF X, R, N
  <2>. QED  BY <1>6, <1>7
<1>. HIDE DEF X
<1>. QED  BY <1>6, <1>8, <1>9 DEF EmptyRulesRun

LEMMA EmptySymbolType ==
  ASSUME NEW gr, WellFormed(gr), NEW table \in EmptyTables(gr), NEW call \in EmptyFunction(gr),
         NEW s \in UsedSymbols(gr), NEW visited \in SUBSET UsedSymbols(gr)
  PROVE  EmptySymbol(gr, table, call, s, visited) \in EmptyResult(gr)
<1>1. EmptyRules(gr, call, s, visited) \in EmptyResult(gr)
  <2>1. Len(gr.rules) \in 0 .. Len(gr.rules)
    BY RulesAreFinite
  <2>2. PICK f : EmptyRulesRun(f, gr, call, s, visited)
    BY EmptyRulesLoop
  <2>. QED  BY <2>1, <2>2 DEF EmptyRulesRun
<1>2. /\ [answer |-> s \in table.yes, visited |-> visited] \in EmptyResult(gr)
      /\ [answer |-> FALSE, visited |-> visited] \in EmptyResult(gr)
  BY DEF EmptyResult
<1>. QED  BY <1>1, <1>2 DEF EmptySymbol

EmptyCallsRun(f, gr, table) ==
  /\ f \in [0 .. Depth(gr) -> EmptyFunction(gr)]
  /\ f[0] = NoEmptyCall(gr)
  /\ \A k \in 1 .. Depth(gr) : f[k] = EmptyCall(gr, table, f[k - 1])
  /\ EmptyCalls(gr, table) = f[Depth(gr)]

LEMMA EmptyCallsLoop ==
  ASSUME NEW gr, WellFormed(gr), NEW table \in EmptyTables(gr)
  PROVE  \E f : EmptyCallsRun(f, gr, table)
<1>. DEFINE N == Depth(gr)
            R == EmptyFunction(gr)
            base == NoEmptyCall(gr)
            Go == [k \in 1 .. N |-> [x \in R |-> EmptyCall(gr, table, x)]]
            Is(f) == f = [k \in 0 .. N |-> IF k = 0 THEN base ELSE EmptyCall(gr, table, f[k - 1])]
            X == CHOOSE f : Is(f)
<1>0. N \in Nat /\ base \in R
  BY RulesAreFinite DEF EmptyResult, EmptyFunction, NoEmptyCall
<1>1. \A k \in 1 .. N, x \in R : EmptyCall(gr, table, x) \in R
  BY EmptySymbolType DEF EmptyCall, EmptyFunction
<1>2. Go \in [1 .. N -> [R -> R]]
  BY <1>1
<1>3. PICK h : LoopOf(h, N, R, base, Go)
  <2>1. CanLoop(N, R, base, Go)
    BY <1>0, <1>2 DEF CanLoop
  <2>. HIDE DEF N, R, base, Go
  <2>. QED  BY ONLY <2>1, LoopExists
<1>4. Is(h)
  <2>1. ASSUME NEW k \in 1 .. N PROVE Go[k][h[k - 1]] = EmptyCall(gr, table, h[k - 1])
    <3>1. k - 1 \in 0 .. N
      BY <1>0
    <3>2. h[k - 1] \in R
      BY <1>3, <3>1 DEF LoopOf
    <3>. HIDE DEF R, N
    <3>. QED  BY <3>2
  <2>2. \A k \in 0 .. N : k # 0 => k \in 1 .. N
    BY <1>0
  <2>3. h = [k \in 0 .. N |-> h[k]]
    <3>. HIDE DEF N, R
    <3>. QED  BY <1>3 DEF LoopOf
  <2>. HIDE DEF N, R, Go, base
  <2>. QED  BY ONLY <1>3, <2>1, <2>2, <2>3 DEF LoopOf
<1>5. Is(X)
  <2>. HIDE DEF Is
  <2>. QED  BY <1>4
<1>6. /\ X[0] = base /\ \A k \in 1 .. N : X[k] = EmptyCall(gr, table, X[k - 1])
      /\ X = [k \in 0 .. N |-> X[k]]
  <2>1. 0 \in 0 .. N /\ \A k \in 1 .. N : k \in 0 .. N /\ k # 0
    BY <1>0
  <2>. HIDE DEF N, X, base
  <2>. QED  BY ONLY <1>5, <2>1
<1>7. \A k \in 0 .. N : X[k] \in R
  <2>. DEFINE T == {k \in 0 .. N : X[k] \in R}
  <2>. HIDE DEF X
  <2>1. 0 \in T
    <3>. HIDE DEF N, R, base
    <3>1. 0 \in 0 .. N
      BY <1>0
    <3>. QED  BY <1>0, <1>6, <3>1
  <2>2. ASSUME NEW k \in 1 .. N, k - 1 \in T PROVE k \in T
    <3>1. X[k - 1] \in R /\ k \in 0 .. N
      BY <2>2, <1>0
    <3>2. X[k] = EmptyCall(gr, table, X[k - 1])
      BY <1>6
    <3>. HIDE DEF N, R
    <3>. QED  BY <1>1, <3>1, <3>2
  <2>. HIDE DEF T, N
  <2>3. \A k \in 0 .. N : k \in T
    BY ONLY <1>0, <2>1, <2>2, UpTo
  <2>. QED  BY <2>3 DEF T
<1>8. EmptyCalls(gr, table) = X[N]
  BY DEF EmptyCalls
<1>9. X \in [0 .. N -> R]
  <2>. HIDE DEF X, R, N
  <2>. QED  BY <1>6, <1>7
<1>. HIDE DEF X
<1>. QED  BY <1>6, <1>8, <1>9 DEF EmptyCallsRun

-----------------------------------------------------------------------------
(* empty() says yes only of what can be empty *)

EmptyClosed(gr, V, S) ==
  \A r \in RuleIndex(gr) :
    gr.rules[r].lhs \notin V /\ AllIn(gr.rules[r].rhs, S) => gr.rules[r].lhs \in S

\* The symbols that can be empty without using a rule of a symbol of V.
Avoiding(gr, V) ==
  {s \in Nonterminals(gr) : \A S \in SUBSET Nonterminals(gr) : EmptyClosed(gr, V, S) => s \in S}

LEMMA AvoidingLeast ==
  ASSUME NEW gr, NEW V, NEW S, EmptyClosed(gr, V, S)
  PROVE  Avoiding(gr, V) \subseteq S
<1>. DEFINE M == S \cap Nonterminals(gr)
<1>1. EmptyClosed(gr, V, M)
  <2>. SUFFICES ASSUME NEW r \in RuleIndex(gr), gr.rules[r].lhs \notin V, AllIn(gr.rules[r].rhs, M)
                PROVE  gr.rules[r].lhs \in M
    BY DEF EmptyClosed
  <2>1. AllIn(gr.rules[r].rhs, S)
    BY DEF AllIn
  <2>. QED  BY <2>1 DEF EmptyClosed, Nonterminals
<1>. QED  BY <1>1 DEF Avoiding

LEMMA AvoidingClosed ==
  ASSUME NEW gr, NEW V PROVE EmptyClosed(gr, V, Avoiding(gr, V))
<1>. SUFFICES ASSUME NEW r \in RuleIndex(gr), gr.rules[r].lhs \notin V,
                     AllIn(gr.rules[r].rhs, Avoiding(gr, V)),
                     NEW S \in SUBSET Nonterminals(gr), EmptyClosed(gr, V, S)
              PROVE  gr.rules[r].lhs \in S
  BY DEF EmptyClosed, Avoiding, Nonterminals
<1>1. Avoiding(gr, V) \subseteq S
  BY AvoidingLeast
<1>2. AllIn(gr.rules[r].rhs, S)
  BY <1>1 DEF AllIn
<1>. QED  BY <1>2 DEF EmptyClosed

LEMMA AvoidingApart ==
  ASSUME NEW gr, NEW V PROVE Avoiding(gr, V) \subseteq Nonterminals(gr) \ V
<1>. DEFINE M == Avoiding(gr, V) \ V
<1>1. EmptyClosed(gr, V, M)
  <2>. SUFFICES ASSUME NEW r \in RuleIndex(gr), gr.rules[r].lhs \notin V, AllIn(gr.rules[r].rhs, M)
                PROVE  gr.rules[r].lhs \in M
    BY DEF EmptyClosed
  <2>1. AllIn(gr.rules[r].rhs, Avoiding(gr, V))
    BY DEF AllIn
  <2>. QED  BY <2>1, AvoidingClosed DEF EmptyClosed
<1>2. Avoiding(gr, V) \subseteq M
  BY <1>1, AvoidingLeast
<1>. QED  BY <1>2 DEF Avoiding

LEMMA AvoidingLess ==
  ASSUME NEW gr, NEW V, NEW W, V \subseteq W PROVE Avoiding(gr, W) \subseteq Avoiding(gr, V)
<1>1. EmptyClosed(gr, W, Avoiding(gr, V))
  BY AvoidingClosed DEF EmptyClosed
<1>. QED  BY <1>1, AvoidingLeast

LEMMA AvoidingNothing == \A gr : Avoiding(gr, {}) = Nullable(gr)
BY DEF Avoiding, Nullable, Least, EmptyClosed

LEMMA NullableClosed ==
  ASSUME NEW gr, NEW r \in RuleIndex(gr), AllIn(gr.rules[r].rhs, Nullable(gr))
  PROVE  gr.rules[r].lhs \in Nullable(gr)
<1>1. EmptyClosed(gr, {}, Nullable(gr))
  BY AvoidingClosed, AvoidingNothing
<1>. QED  BY <1>1 DEF EmptyClosed

\* A function that answers as empty() may.
Truthful(gr, call) ==
  \A s \in UsedSymbols(gr), V \in SUBSET UsedSymbols(gr) : call[s][V].answer => s \in Nullable(gr)

LEMMA EmptySequenceTruth ==
  ASSUME NEW gr, NEW call \in EmptyFunction(gr), Truthful(gr, call),
         NEW seq \in Seq(UsedSymbols(gr)), NEW visited \in SUBSET UsedSymbols(gr),
         EmptySequence(call, seq, visited).answer
  PROVE  AllIn(seq, Nullable(gr))
<1>1. PICK f : EmptySequenceRun(f, gr, call, seq, visited)
  BY EmptySequenceLoop
<1>. DEFINE T == {k \in 0 .. Len(seq) : f[k].answer => \A j \in 1 .. k : seq[j] \in Nullable(gr)}
<1>2. 0 \in T
  OBVIOUS
<1>3. ASSUME NEW k \in 1 .. Len(seq), k - 1 \in T PROVE k \in T
  <2>. SUFFICES ASSUME f[k].answer PROVE \A j \in 1 .. k : seq[j] \in Nullable(gr)
    OBVIOUS
  <2>1. f[k] = EmptyNext(call, seq[k], f[k - 1]) /\ f[k - 1].visited \in SUBSET UsedSymbols(gr)
    <3>1. k - 1 \in 0 .. Len(seq)
      OBVIOUS
    <3>2. f[k - 1] \in EmptyResult(gr)
      BY <1>1, <3>1 DEF EmptySequenceRun
    <3>. QED  BY <1>1, <3>2 DEF EmptySequenceRun, EmptyResult
  <2>2. f[k - 1].answer /\ f[k] = call[seq[k]][f[k - 1].visited]
    BY <2>1 DEF EmptyNext
  <2>3. seq[k] \in Nullable(gr)
    BY <2>1, <2>2 DEF Truthful
  <2>4. \A j \in 1 .. k : j = k \/ j \in 1 .. k - 1
    OBVIOUS
  <2>. QED  BY <1>3, <2>2, <2>3, <2>4
<1>. HIDE DEF T
<1>4. \A k \in 0 .. Len(seq) : k \in T
  <2>1. Len(seq) \in Nat
    OBVIOUS
  <2>. QED  BY ONLY <2>1, <1>2, <1>3, UpTo
<1>5. Len(seq) \in T
  BY <1>4
<1>. QED  BY <1>1, <1>5 DEF T, EmptySequenceRun, AllIn

LEMMA EmptySymbolTruth ==
  ASSUME NEW gr, WellFormed(gr), NEW table \in EmptyTables(gr), table.yes \subseteq Nullable(gr),
         NEW call \in EmptyFunction(gr), Truthful(gr, call),
         NEW s \in UsedSymbols(gr), NEW visited \in SUBSET UsedSymbols(gr),
         EmptySymbol(gr, table, call, s, visited).answer
  PROVE  s \in Nullable(gr)
<1>1. CASE s \in table.yes \cup table.no
  BY <1>1 DEF EmptySymbol
<1>2. CASE ~(s \in table.yes \cup table.no)
  <2>1. EmptyRules(gr, call, s, visited).answer
    BY <1>2 DEF EmptySymbol
  <2>2. PICK f : EmptyRulesRun(f, gr, call, s, visited)
    BY EmptyRulesLoop
  <2>. DEFINE N == Len(gr.rules)
              T == {k \in 0 .. N : f[k].answer => s \in Nullable(gr)}
  <2>3. 0 \in T
    BY <2>2, RulesAreFinite DEF EmptyRulesRun
  <2>4. ASSUME NEW k \in 1 .. N, k - 1 \in T PROVE k \in T
    <3>. SUFFICES ASSUME f[k].answer, ~f[k - 1].answer PROVE s \in Nullable(gr)
      BY <2>4, RulesAreFinite
    <3>1. k - 1 \in 0 .. N /\ k \in RuleIndex(gr)
      BY RulesAreFinite
    <3>2. f[k] = EmptyRule(call, s, gr.rules[k], f[k - 1]) /\ f[k - 1].visited \in SUBSET UsedSymbols(gr)
      BY <2>2, <3>1 DEF EmptyRulesRun, EmptyResult
    <3>3. /\ gr.rules[k].lhs = s
          /\ EmptySequence(call, gr.rules[k].rhs, f[k - 1].visited \cup {s}).answer
      BY <3>2 DEF EmptyRule
    <3>4. gr.rules[k].rhs \in Seq(UsedSymbols(gr)) /\ f[k - 1].visited \cup {s} \in SUBSET UsedSymbols(gr)
      BY <3>1, <3>2, RuleSymbols
    <3>5. AllIn(gr.rules[k].rhs, Nullable(gr))
      BY <3>3, <3>4, EmptySequenceTruth
    <3>. QED  BY <3>1, <3>3, <3>5, NullableClosed
  <2>. HIDE DEF T
  <2>5. \A k \in 0 .. N : k \in T
    <3>1. N \in Nat
      BY RulesAreFinite
    <3>. QED  BY ONLY <3>1, <2>3, <2>4, UpTo
  <2>6. N \in T
    BY <2>5, RulesAreFinite
  <2>. QED  BY <2>1, <2>2, <2>6 DEF T, EmptyRulesRun
<1>. QED  BY <1>1, <1>2

LEMMA EmptyCallsTruth ==
  ASSUME NEW gr, WellFormed(gr), NEW table \in EmptyTables(gr), table.yes \subseteq Nullable(gr)
  PROVE  EmptyCalls(gr, table) \in EmptyFunction(gr) /\ Truthful(gr, EmptyCalls(gr, table))
<1>1. PICK f : EmptyCallsRun(f, gr, table)
  BY EmptyCallsLoop
<1>. DEFINE N == Depth(gr)
            T == {k \in 0 .. N : Truthful(gr, f[k])}
<1>0. N \in Nat
  BY RulesAreFinite
<1>2. 0 \in T
  BY <1>0, <1>1 DEF EmptyCallsRun, Truthful, NoEmptyCall
<1>3. ASSUME NEW k \in 1 .. N, k - 1 \in T PROVE k \in T
  <2>1. k - 1 \in 0 .. N /\ k \in 0 .. N
    BY <1>0
  <2>2. f[k] = EmptyCall(gr, table, f[k - 1]) /\ f[k - 1] \in EmptyFunction(gr)
    BY <1>1, <2>1 DEF EmptyCallsRun
  <2>3. \A s \in UsedSymbols(gr), V \in SUBSET UsedSymbols(gr) :
          f[k][s][V] = EmptySymbol(gr, table, f[k - 1], s, V)
    BY <2>2 DEF EmptyCall
  <2>4. Truthful(gr, f[k - 1])
    BY <1>3
  <2>5. Truthful(gr, f[k])
    BY <2>2, <2>3, <2>4, EmptySymbolTruth DEF Truthful
  <2>. QED  BY <2>1, <2>5
<1>. HIDE DEF T, N
<1>4. \A k \in 0 .. N : k \in T
  BY ONLY <1>0, <1>2, <1>3, UpTo
<1>5. N \in 0 .. N
  BY <1>0
<1>. QED  BY <1>1, <1>4, <1>5 DEF T, N, EmptyCallsRun

\* empty() says yes of a symbol or a sequence only if it can be empty.
LEMMA EmptyIsSound ==
  ASSUME NEW gr, WellFormed(gr), NEW table \in EmptyTables(gr), table.yes \subseteq Nullable(gr)
  PROVE  /\ \A s \in UsedSymbols(gr) : IsEmpty(gr, table, s) => s \in Nullable(gr)
         /\ \A seq \in Seq(UsedSymbols(gr)) : IsEmptySeq(gr, table, seq) => AllIn(seq, Nullable(gr))
<1>1. EmptyCalls(gr, table) \in EmptyFunction(gr) /\ Truthful(gr, EmptyCalls(gr, table))
  BY EmptyCallsTruth
<1>2. ASSUME NEW s \in UsedSymbols(gr), IsEmpty(gr, table, s) PROVE s \in Nullable(gr)
  BY <1>1, <1>2 DEF IsEmpty, Truthful
<1>3. ASSUME NEW seq \in Seq(UsedSymbols(gr)), IsEmptySeq(gr, table, seq) PROVE AllIn(seq, Nullable(gr))
  BY <1>1, <1>3, EmptySequenceTruth DEF IsEmptySeq
<1>. QED  BY <1>2, <1>3

-----------------------------------------------------------------------------
(* What a call of empty() visits *)

\* A symbol of a rule whose left-hand side is in new, nothing before it being in S.
ReachedFrom(gr, new, S, x) ==
  \E q \in RuleIndex(gr) : \E p \in DOMAIN gr.rules[q].rhs :
    /\ gr.rules[q].rhs[p] = x /\ gr.rules[q].lhs \in new
    /\ \A o \in 1 .. p - 1 : gr.rules[q].rhs[o] \notin S

LEMMA ReachedFromMore ==
  ASSUME NEW gr, NEW new, NEW more, NEW S, NEW less, NEW x, new \subseteq more, less \subseteq S,
         ReachedFrom(gr, new, S, x)
  PROVE  ReachedFrom(gr, more, less, x)
BY DEF ReachedFrom

\* The symbols visited on the way of a function: the symbol asked for, and others
\* that it came to behind symbols not visited before.
Trace(gr, s, V, W) ==
  /\ V \subseteq W /\ (W = V \/ s \in W)
  /\ \A x \in W \ V : x = s \/ ReachedFrom(gr, W \ V, V \cup {s}, x)

Traced(gr, call) ==
  \A s \in UsedSymbols(gr), V \in SUBSET UsedSymbols(gr) :
    s \notin V => Trace(gr, s, V, call[s][V].visited)

\* The same of the first k symbols of a sequence.
SequenceTrace(gr, seq, V, k, result) ==
  /\ V \subseteq result.visited
  /\ result.answer => \A j \in 1 .. k : seq[j] \notin V
  /\ \A x \in result.visited \ V :
       \/ \E j \in 1 .. k : x = seq[j] /\ \A i \in 1 .. j - 1 : seq[i] \notin V
       \/ \E j \in 1 .. k : ReachedFrom(gr, result.visited \ V, V \cup {seq[j]}, x)

LEMMA EmptyNextTrace ==
  ASSUME NEW gr, NEW call \in EmptyFunction(gr), Traced(gr, call),
         NEW seq \in Seq(UsedSymbols(gr)), NEW V \in SUBSET UsedSymbols(gr),
         NEW k \in 1 .. Len(seq), NEW before \in EmptyResult(gr),
         SequenceTrace(gr, seq, V, k - 1, before)
  PROVE  SequenceTrace(gr, seq, V, k, EmptyNext(call, seq[k], before))
<1>. DEFINE W == before.visited
            after == EmptyNext(call, seq[k], before)
            W2 == after.visited
<1>0. /\ W \in SUBSET UsedSymbols(gr) /\ seq[k] \in UsedSymbols(gr)
      /\ \A j \in 1 .. k - 1 : j \in 1 .. k
      /\ \A j \in 1 .. k : j = k \/ j \in 1 .. k - 1
      /\ k \in 1 .. k
  BY DEF EmptyResult
<1>1. ASSUME ~before.answer \/ seq[k] \in W PROVE SequenceTrace(gr, seq, V, k, after)
  <2>1. W2 = W /\ ~after.answer
    BY <1>1 DEF EmptyNext
  <2>. HIDE DEF after
  <2>. QED  BY <1>0, <2>1 DEF SequenceTrace
<1>2. ASSUME before.answer, seq[k] \notin W PROVE SequenceTrace(gr, seq, V, k, after)
  <2>1. after = call[seq[k]][W] /\ W2 = call[seq[k]][W].visited
    BY <1>2 DEF EmptyNext
  <2>2. Trace(gr, seq[k], W, W2)
    BY <1>0, <1>2, <2>1 DEF Traced
  <2>. HIDE DEF after
  <2>3. V \subseteq W /\ W \subseteq W2 /\ \A j \in 1 .. k - 1 : seq[j] \notin V
    BY <1>2, <2>2 DEF Trace, SequenceTrace
  <2>4. seq[k] \notin V
    BY <1>2, <2>3
  <2>5. ASSUME NEW x \in W2 \ V
        PROVE  \/ \E j \in 1 .. k : x = seq[j] /\ \A i \in 1 .. j - 1 : seq[i] \notin V
               \/ \E j \in 1 .. k : ReachedFrom(gr, W2 \ V, V \cup {seq[j]}, x)
    <3>1. CASE x \in W
      <4>1. CASE \E j \in 1 .. k - 1 : x = seq[j] /\ \A i \in 1 .. j - 1 : seq[i] \notin V
        BY <1>0, <4>1
      <4>2. CASE \E j \in 1 .. k - 1 : ReachedFrom(gr, W \ V, V \cup {seq[j]}, x)
        <5>1. PICK j \in 1 .. k - 1 : ReachedFrom(gr, W \ V, V \cup {seq[j]}, x)
          BY <4>2
        <5>2. W \ V \subseteq W2 \ V
          BY <2>3
        <5>3. ReachedFrom(gr, W2 \ V, V \cup {seq[j]}, x)
          BY <5>1, <5>2, ReachedFromMore
        <5>. QED  BY <1>0, <5>3
      <4>. QED  BY <3>1, <4>1, <4>2 DEF SequenceTrace
    <3>2. CASE x \notin W
      <4>1. CASE x = seq[k]
        BY <1>0, <2>3, <4>1
      <4>2. CASE ReachedFrom(gr, W2 \ W, W \cup {seq[k]}, x)
        <5>1. W2 \ W \subseteq W2 \ V /\ V \cup {seq[k]} \subseteq W \cup {seq[k]}
          BY <2>3
        <5>2. ReachedFrom(gr, W2 \ V, V \cup {seq[k]}, x)
          BY <4>2, <5>1, ReachedFromMore
        <5>. QED  BY <1>0, <5>2
      <4>. QED  BY <2>2, <3>2, <4>1, <4>2 DEF Trace
    <3>. QED  BY <3>1, <3>2
  <2>6. \A j \in 1 .. k : seq[j] \notin V
    BY <1>0, <2>3, <2>4
  <2>. QED  BY <2>3, <2>5, <2>6 DEF SequenceTrace
<1>. QED  BY <1>1, <1>2

LEMMA EmptySequenceTrace ==
  ASSUME NEW gr, NEW call \in EmptyFunction(gr), Traced(gr, call),
         NEW seq \in Seq(UsedSymbols(gr)), NEW V \in SUBSET UsedSymbols(gr),
         NEW f, EmptySequenceRun(f, gr, call, seq, V)
  PROVE  \A k \in 0 .. Len(seq) : SequenceTrace(gr, seq, V, k, f[k])
<1>. DEFINE T == {k \in 0 .. Len(seq) : SequenceTrace(gr, seq, V, k, f[k])}
<1>1. 0 \in T
  BY DEF EmptySequenceRun, SequenceTrace
<1>2. ASSUME NEW k \in 1 .. Len(seq), k - 1 \in T PROVE k \in T
  <2>1. k - 1 \in 0 .. Len(seq) /\ k \in 0 .. Len(seq)
    OBVIOUS
  <2>2. f[k - 1] \in EmptyResult(gr) /\ f[k] = EmptyNext(call, seq[k], f[k - 1])
    BY <2>1 DEF EmptySequenceRun
  <2>3. SequenceTrace(gr, seq, V, k - 1, f[k - 1])
    BY <1>2
  <2>4. SequenceTrace(gr, seq, V, k, f[k])
    BY <2>2, <2>3, EmptyNextTrace
  <2>. QED  BY <2>1, <2>4
<1>. HIDE DEF T
<1>3. \A k \in 0 .. Len(seq) : k \in T
  <2>1. Len(seq) \in Nat
    OBVIOUS
  <2>. QED  BY ONLY <2>1, <1>1, <1>2, UpTo
<1>. QED  BY <1>3 DEF T

\* The first k rules of s have brought the search to x.
ByRules(gr, new, S, s, k, x) ==
  \E q \in RuleIndex(gr) : \E p \in DOMAIN gr.rules[q].rhs :
    /\ gr.rules[q].rhs[p] = x /\ gr.rules[q].lhs \in new
    /\ gr.rules[q].lhs = s => q <= k
    /\ \A o \in 1 .. p - 1 : gr.rules[q].rhs[o] \notin S

RulesTrace(gr, s, V, k, W) ==
  /\ V \subseteq W /\ (W = V \/ s \in W)
  /\ \A x \in W \ V : x = s \/ ByRules(gr, W \ V, V \cup {s}, s, k, x)

LEMMA RulesTraceIsTrace ==
  ASSUME NEW gr, NEW s, NEW V, NEW k, NEW W, RulesTrace(gr, s, V, k, W) PROVE Trace(gr, s, V, W)
BY DEF RulesTrace, Trace, ByRules, ReachedFrom

LEMMA EmptyRuleTrace ==
  ASSUME NEW gr, WellFormed(gr), NEW call \in EmptyFunction(gr), Traced(gr, call),
         NEW s \in UsedSymbols(gr), NEW V \in SUBSET UsedSymbols(gr), s \notin V,
         NEW k \in RuleIndex(gr), NEW before \in EmptyResult(gr),
         RulesTrace(gr, s, V, k - 1, before.visited)
  PROVE  RulesTrace(gr, s, V, k, EmptyRule(call, s, gr.rules[k], before).visited)
<1>. DEFINE W == before.visited
            rhs == gr.rules[k].rhs
            V0 == W \cup {s}
            after == EmptyRule(call, s, gr.rules[k], before)
            W2 == after.visited
<1>0. k \in Nat /\ \A q \in RuleIndex(gr) : q \in Nat /\ (q <= k - 1 => q <= k)
  BY RulesAreFinite
<1>1. ASSUME NEW x \in W \ V, NEW more, W \ V \subseteq more, x # s
      PROVE  ByRules(gr, more, V \cup {s}, s, k, x)
  <2>1. ByRules(gr, W \ V, V \cup {s}, s, k - 1, x)
    BY <1>1 DEF RulesTrace
  <2>. QED  BY <1>0, <1>1, <2>1 DEF ByRules
<1>2. ASSUME before.answer \/ gr.rules[k].lhs # s PROVE RulesTrace(gr, s, V, k, W2)
  <2>1. W2 = W
    BY <1>2 DEF EmptyRule
  <2>. HIDE DEF after
  <2>. QED  BY <1>1, <2>1 DEF RulesTrace
<1>3. ASSUME ~before.answer, gr.rules[k].lhs = s PROVE RulesTrace(gr, s, V, k, W2)
  <2>1. rhs \in Seq(UsedSymbols(gr)) /\ V0 \in SUBSET UsedSymbols(gr) /\ V \subseteq W
    BY RuleSymbols DEF EmptyResult, RulesTrace
  <2>2. after = EmptySequence(call, rhs, V0)
    BY <1>3 DEF EmptyRule
  <2>3. PICK f : EmptySequenceRun(f, gr, call, rhs, V0)
    BY <2>1, EmptySequenceLoop
  <2>4. Len(rhs) \in 0 .. Len(rhs) /\ DOMAIN rhs = 1 .. Len(rhs)
    BY <2>1
  <2>5. SequenceTrace(gr, rhs, V0, Len(rhs), f[Len(rhs)])
    BY <2>1, <2>3, <2>4, EmptySequenceTrace
  <2>6. after = f[Len(rhs)]
    BY <2>2, <2>3 DEF EmptySequenceRun
  <2>. HIDE DEF after, rhs
  <2>7. V0 \subseteq W2
    BY <2>5, <2>6 DEF SequenceTrace
  <2>8. ASSUME NEW x \in W2 \ V, x # s PROVE ByRules(gr, W2 \ V, V \cup {s}, s, k, x)
    <3>1. CASE x \in W
      BY <1>1, <2>7, <2>8, <3>1
    <3>2. CASE x \notin W
      <4>1. CASE \E j \in 1 .. Len(rhs) : x = rhs[j] /\ \A i \in 1 .. j - 1 : rhs[i] \notin V0
        <5>1. PICK j \in 1 .. Len(rhs) : x = rhs[j] /\ \A i \in 1 .. j - 1 : rhs[i] \notin V0
          BY <4>1
        <5>2. gr.rules[k].lhs \in W2 \ V /\ k <= k
          BY <1>0, <1>3, <2>7
        <5>3. \A i \in 1 .. j - 1 : rhs[i] \notin V \cup {s}
          BY <2>1, <5>1
        <5>. QED  BY <2>4, <5>1, <5>2, <5>3 DEF ByRules, rhs
      <4>2. CASE \E j \in 1 .. Len(rhs) : ReachedFrom(gr, W2 \ V0, V0 \cup {rhs[j]}, x)
        <5>1. PICK j \in 1 .. Len(rhs) : ReachedFrom(gr, W2 \ V0, V0 \cup {rhs[j]}, x)
          BY <4>2
        <5>2. ReachedFrom(gr, W2 \ V0, V \cup {s}, x)
          BY <2>1, <5>1, ReachedFromMore
        <5>3. PICK q \in RuleIndex(gr) : \E p \in DOMAIN gr.rules[q].rhs :
                /\ gr.rules[q].rhs[p] = x /\ gr.rules[q].lhs \in W2 \ V0
                /\ \A o \in 1 .. p - 1 : gr.rules[q].rhs[o] \notin V \cup {s}
          BY <5>2 DEF ReachedFrom
        <5>4. gr.rules[q].lhs \in W2 \ V /\ gr.rules[q].lhs # s
          BY <2>1, <5>3
        <5>. QED  BY <5>3, <5>4 DEF ByRules
      <4>. QED  BY <2>5, <2>6, <2>8, <3>2, <4>1, <4>2 DEF SequenceTrace
    <3>. QED  BY <3>1, <3>2
  <2>. QED  BY <2>1, <2>7, <2>8 DEF RulesTrace
<1>. QED  BY <1>2, <1>3

LEMMA EmptyRulesTrace ==
  ASSUME NEW gr, WellFormed(gr), NEW call \in EmptyFunction(gr), Traced(gr, call),
         NEW s \in UsedSymbols(gr), NEW V \in SUBSET UsedSymbols(gr), s \notin V,
         NEW f, EmptyRulesRun(f, gr, call, s, V)
  PROVE  \A k \in 0 .. Len(gr.rules) : RulesTrace(gr, s, V, k, f[k].visited)
<1>. DEFINE N == Len(gr.rules)
            T == {k \in 0 .. N : RulesTrace(gr, s, V, k, f[k].visited)}
<1>0. N \in Nat
  BY RulesAreFinite
<1>1. 0 \in T
  BY <1>0 DEF EmptyRulesRun, RulesTrace
<1>2. ASSUME NEW k \in 1 .. N, k - 1 \in T PROVE k \in T
  <2>1. k - 1 \in 0 .. N /\ k \in 0 .. N /\ k \in RuleIndex(gr)
    BY RulesAreFinite
  <2>2. f[k - 1] \in EmptyResult(gr) /\ f[k] = EmptyRule(call, s, gr.rules[k], f[k - 1])
    BY <2>1 DEF EmptyRulesRun
  <2>3. RulesTrace(gr, s, V, k - 1, f[k - 1].visited)
    BY <1>2
  <2>4. RulesTrace(gr, s, V, k, f[k].visited)
    BY <2>1, <2>2, <2>3, EmptyRuleTrace
  <2>. QED  BY <2>1, <2>4
<1>. HIDE DEF T, N
<1>3. \A k \in 0 .. N : k \in T
  BY ONLY <1>0, <1>1, <1>2, UpTo
<1>. QED  BY <1>3 DEF T, N

LEMMA EmptySymbolTrace ==
  ASSUME NEW gr, WellFormed(gr), NEW table, NEW call \in EmptyFunction(gr), Traced(gr, call),
         NEW s \in UsedSymbols(gr), NEW V \in SUBSET UsedSymbols(gr), s \notin V
  PROVE  Trace(gr, s, V, EmptySymbol(gr, table, call, s, V).visited)
<1>1. CASE EmptySymbol(gr, table, call, s, V).visited = V
  BY <1>1 DEF Trace
<1>2. CASE EmptySymbol(gr, table, call, s, V) = EmptyRules(gr, call, s, V)
  <2>1. PICK f : EmptyRulesRun(f, gr, call, s, V)
    BY EmptyRulesLoop
  <2>2. Len(gr.rules) \in 0 .. Len(gr.rules)
    BY RulesAreFinite
  <2>3. RulesTrace(gr, s, V, Len(gr.rules), f[Len(gr.rules)].visited)
    BY <2>1, <2>2, EmptyRulesTrace
  <2>4. EmptyRules(gr, call, s, V) = f[Len(gr.rules)]
    BY <2>1 DEF EmptyRulesRun
  <2>. QED  BY <1>2, <2>3, <2>4, RulesTraceIsTrace
<1>. QED  BY <1>1, <1>2 DEF EmptySymbol

-----------------------------------------------------------------------------
(* empty() says yes of all that can be empty, if none of that is used twice *)

\* A symbol that can be empty has a rule that can be without it.
LEMMA AvoidingRule ==
  ASSUME NEW gr, NEW V, NEW s \in Avoiding(gr, V)
  PROVE  \E r \in RuleIndex(gr) :
           gr.rules[r].lhs = s /\ AllIn(gr.rules[r].rhs, Avoiding(gr, V \cup {s}))
<1>. DEFINE M == Avoiding(gr, V \cup {s})
<1>. SUFFICES ASSUME \A r \in RuleIndex(gr) : gr.rules[r].lhs = s => ~AllIn(gr.rules[r].rhs, M)
              PROVE  FALSE
  OBVIOUS
<1>1. EmptyClosed(gr, V \cup {s}, M)
  BY AvoidingClosed
<1>2. EmptyClosed(gr, V, M)
  <2>. HIDE DEF M
  <2>. QED  BY <1>1 DEF EmptyClosed
<1>3. s \in M
  BY <1>2, AvoidingLeast
<1>. QED  BY <1>3, AvoidingApart

\* What can be empty without V can be without G too, if all the places of the
\* symbols of G that can be empty are in rules of V or G, or beside it.
LEMMA Bypass ==
  ASSUME NEW gr, NEW V, NEW G, NEW x \in Avoiding(gr, V), x \notin G,
         \A z \in G \cap Nullable(gr) : \A q \in RuleIndex(gr) : \A p \in DOMAIN gr.rules[q].rhs :
           gr.rules[q].rhs[p] = z =>
             gr.rules[q].lhs \in V \cup G \/ \E o \in DOMAIN gr.rules[q].rhs : gr.rules[q].rhs[o] = x
  PROVE  x \in Avoiding(gr, V \cup G)
<1>. DEFINE A == Avoiding(gr, V \cup {x})
            B == Avoiding(gr, V \cup G \cup {x})
            M == {y \in A : y \in B \/ y \in G}
<1>1. /\ A \subseteq Nonterminals(gr) \ (V \cup {x}) /\ A \subseteq Nullable(gr)
      /\ EmptyClosed(gr, V \cup {x}, A) /\ EmptyClosed(gr, V \cup G \cup {x}, B)
  <2>1. A \subseteq Nullable(gr)
    <3>1. Avoiding(gr, V \cup {x}) \subseteq Avoiding(gr, {})
      BY AvoidingLess
    <3>. QED  BY <3>1, AvoidingNothing
  <2>. QED  BY <2>1, AvoidingApart, AvoidingClosed
<1>2. x \notin V
  BY AvoidingApart
<1>. HIDE DEF A, B
\* A rule of neither V nor x whose symbols are in M, or of x, has none of G.
<1>3. ASSUME NEW r \in RuleIndex(gr), AllIn(gr.rules[r].rhs, M), gr.rules[r].lhs \notin V,
             gr.rules[r].lhs \notin G
      PROVE  AllIn(gr.rules[r].rhs, B)
  <2>1. ASSUME NEW p \in DOMAIN gr.rules[r].rhs, gr.rules[r].rhs[p] \in G PROVE FALSE
    <3>1. gr.rules[r].rhs[p] \in G \cap Nullable(gr)
      BY <1>1, <1>3, <2>1 DEF AllIn
    <3>2. PICK o \in DOMAIN gr.rules[r].rhs : gr.rules[r].rhs[o] = x
      BY <1>3, <3>1
    <3>3. x \in A
      BY <1>3, <3>2 DEF AllIn
    <3>. QED  BY <1>1, <3>3
  <2>. QED  BY <1>3, <2>1 DEF AllIn
<1>4. EmptyClosed(gr, V \cup {x}, M)
  <2>. SUFFICES ASSUME NEW r \in RuleIndex(gr), gr.rules[r].lhs \notin V \cup {x},
                       AllIn(gr.rules[r].rhs, M)
                PROVE  gr.rules[r].lhs \in M
    BY DEF EmptyClosed
  <2>1. AllIn(gr.rules[r].rhs, A)
    BY DEF AllIn
  <2>2. gr.rules[r].lhs \in A
    BY <1>1, <2>1 DEF EmptyClosed
  <2>3. gr.rules[r].lhs \notin G => AllIn(gr.rules[r].rhs, B)
    BY <1>3
  <2>4. gr.rules[r].lhs \notin G => gr.rules[r].lhs \in B
    BY <1>1, <2>3 DEF EmptyClosed
  <2>. QED  BY <2>2, <2>4
<1>5. A \subseteq M
  BY <1>4, AvoidingLeast DEF A
<1>6. PICK r \in RuleIndex(gr) : gr.rules[r].lhs = x /\ AllIn(gr.rules[r].rhs, A)
  BY AvoidingRule DEF A
<1>7. AllIn(gr.rules[r].rhs, M)
  <2>. HIDE DEF M
  <2>. QED  BY <1>5, <1>6 DEF AllIn
<1>8. AllIn(gr.rules[r].rhs, B)
  BY <1>2, <1>3, <1>6, <1>7
<1>9. B \subseteq Avoiding(gr, V \cup G)
  BY AvoidingLess DEF B
<1>10. AllIn(gr.rules[r].rhs, Avoiding(gr, V \cup G))
  BY <1>8, <1>9 DEF AllIn
<1>11. EmptyClosed(gr, V \cup G, Avoiding(gr, V \cup G))
  BY AvoidingClosed
<1>. QED  BY <1>2, <1>6, <1>10, <1>11 DEF EmptyClosed

\* A symbol that can be empty has one place in right-hand sides.
LEMMA OnePlace ==
  ASSUME NEW gr, UsedOnce(gr, Nullable(gr)), NEW r \in RuleIndex(gr), NEW q \in RuleIndex(gr),
         NEW p \in DOMAIN gr.rules[r].rhs, NEW o \in DOMAIN gr.rules[q].rhs,
         gr.rules[r].rhs[p] \in Nullable(gr), gr.rules[q].rhs[o] = gr.rules[r].rhs[p]
  PROVE  q = r /\ o = p
BY DEF UsedOnce

\* How many left-hand sides a search may still visit.
Left(gr, V) == Cardinality(Nonterminals(gr) \ V)

LEMMA LeftFacts ==
  ASSUME NEW gr, WellFormed(gr), NEW V, NEW W, V \subseteq W
  PROVE  /\ Left(gr, V) \in Nat /\ Left(gr, W) \in Nat /\ Left(gr, W) <= Left(gr, V)
         /\ \A s \in Nonterminals(gr) : s \notin V /\ s \in W => Left(gr, W) < Left(gr, V)
<1>. DEFINE A == Nonterminals(gr) \ V
            B == Nonterminals(gr) \ W
<1>1. IsFiniteSet(A) /\ B \subseteq A
  <2>1. IsFiniteSet(Nonterminals(gr)) /\ A \subseteq Nonterminals(gr)
    BY RulesAreFinite
  <2>. HIDE DEF A
  <2>2. IsFiniteSet(A)
    BY <2>1, FS_Subset
  <2>. QED  BY <2>2 DEF A
<1>2. IsFiniteSet(B) /\ Cardinality(B) <= Cardinality(A) /\ (Cardinality(A) = Cardinality(B) => A = B)
  <2>. HIDE DEF A, B
  <2>1. B \in SUBSET A
    BY <1>1
  <2>. QED  BY ONLY <1>1, <2>1, FS_Subset
<1>3. Cardinality(A) \in Nat /\ Cardinality(B) \in Nat
  <2>. HIDE DEF A, B
  <2>. QED  BY <1>1, <1>2, FS_CardinalityType
<1>4. \A s \in Nonterminals(gr) : s \notin V /\ s \in W => A # B
  OBVIOUS
<1>. HIDE DEF A, B
<1>5. Left(gr, V) = Cardinality(A) /\ Left(gr, W) = Cardinality(B)
  BY DEF Left, A, B
<1>. QED  BY <1>2, <1>3, <1>4, <1>5

\* A function of n levels says yes of what can be empty without the visited symbols.
Complete(gr, call, n) ==
  \A s \in UsedSymbols(gr), V \in SUBSET UsedSymbols(gr) :
    s \notin V /\ s \in Avoiding(gr, V) /\ Left(gr, V) < n => call[s][V].answer

\* So does empty() of the end of a right-hand side.
LEMMA EmptySequenceComplete ==
  ASSUME NEW gr, WellFormed(gr), UsedOnce(gr, Nullable(gr)),
         NEW call \in EmptyFunction(gr), Traced(gr, call), NEW n \in Nat, Complete(gr, call, n),
         NEW r \in RuleIndex(gr), NEW from \in 0 .. Len(gr.rules[r].rhs),
         NEW V \in SUBSET UsedSymbols(gr), Left(gr, V) < n,
         NEW seq, seq = Suffix(gr.rules[r].rhs, from), AllIn(seq, Avoiding(gr, V))
  PROVE  EmptySequence(call, seq, V).answer
<1>. DEFINE rhs == gr.rules[r].rhs
<1>1. /\ rhs \in Seq(UsedSymbols(gr)) /\ seq \in Seq(UsedSymbols(gr)) /\ Len(seq) = Len(rhs) - from
      /\ \A j \in 1 .. Len(seq) : from + j \in DOMAIN rhs /\ seq[j] = rhs[from + j]
      /\ Len(seq) \in Nat /\ from \in Nat
  <2>1. rhs \in Seq(UsedSymbols(gr))
    BY RuleSymbols
  <2>. HIDE DEF rhs
  <2>2. seq = SubSeq(rhs, from + 1, Len(rhs)) /\ from \in 0 .. Len(rhs)
    BY DEF rhs, Suffix
  <2>. QED  BY <2>1, <2>2
<1>2. \A j \in 1 .. Len(seq) : seq[j] \in Avoiding(gr, V) /\ seq[j] \notin V /\ seq[j] \in Nullable(gr)
  <2>1. \A j \in 1 .. Len(seq) : seq[j] \in Avoiding(gr, V)
    BY <1>1 DEF AllIn
  <2>2. Avoiding(gr, V) \subseteq Avoiding(gr, {})
    BY AvoidingLess
  <2>. QED  BY <2>1, <2>2, AvoidingApart, AvoidingNothing
<1>3. PICK f : EmptySequenceRun(f, gr, call, seq, V)
  BY <1>1, EmptySequenceLoop
<1>. DEFINE T == {k \in 0 .. Len(seq) : f[k].answer}
<1>4. 0 \in T
  BY <1>1, <1>3 DEF EmptySequenceRun
<1>5. ASSUME NEW k \in 1 .. Len(seq), k - 1 \in T PROVE k \in T
  <2>. DEFINE W == f[k - 1].visited
              G == W \ V
              x == seq[k]
  <2>1. k - 1 \in 0 .. Len(seq) /\ k \in 0 .. Len(seq) /\ k \in Nat
    BY <1>1
  <2>2. /\ f[k - 1] \in EmptyResult(gr) /\ f[k] = EmptyNext(call, x, f[k - 1])
        /\ W \in SUBSET UsedSymbols(gr)
    BY <1>3, <2>1 DEF EmptySequenceRun, EmptyResult
  <2>3. SequenceTrace(gr, seq, V, k - 1, f[k - 1])
    BY <1>1, <1>3, <2>1, EmptySequenceTrace
  <2>4. V \subseteq W
    BY <2>3 DEF SequenceTrace
  <2>5. x \in Avoiding(gr, V) /\ x \notin V /\ x \in Nullable(gr) /\ from + k \in DOMAIN rhs /\ x = rhs[from + k]
    BY <1>1, <1>2
  <2>. HIDE DEF x
  \* A place of a visited symbol that can be empty is in this rule or one of G.
  <2>6. ASSUME NEW z \in G, z \in Nullable(gr), NEW q \in RuleIndex(gr), NEW p \in DOMAIN gr.rules[q].rhs,
               gr.rules[q].rhs[p] = z
        PROVE  \/ q = r /\ \E j \in 1 .. k - 1 : p = from + j
               \/ gr.rules[q].lhs \in G /\ \E j \in 1 .. k - 1 : \A o \in 1 .. p - 1 : gr.rules[q].rhs[o] # seq[j]
    <3>1. CASE \E j \in 1 .. k - 1 : z = seq[j]
      <4>1. PICK j \in 1 .. k - 1 : z = seq[j]
        BY <3>1
      <4>2. j \in 1 .. Len(seq)
        BY <1>1
      <4>3. from + j \in DOMAIN rhs /\ rhs[from + j] = z
        BY <1>1, <4>1, <4>2
      <4>4. q = r /\ p = from + j
        BY <2>6, <4>3, OnePlace
      <4>. QED  BY <4>1, <4>4
    <3>2. CASE \E j \in 1 .. k - 1 : ReachedFrom(gr, G, V \cup {seq[j]}, z)
      <4>1. PICK j \in 1 .. k - 1 : ReachedFrom(gr, G, V \cup {seq[j]}, z)
        BY <3>2
      <4>2. PICK q2 \in RuleIndex(gr) : \E p2 \in DOMAIN gr.rules[q2].rhs :
              /\ gr.rules[q2].rhs[p2] = z /\ gr.rules[q2].lhs \in G
              /\ \A o \in 1 .. p2 - 1 : gr.rules[q2].rhs[o] \notin V \cup {seq[j]}
        BY <4>1 DEF ReachedFrom
      <4>3. PICK p2 \in DOMAIN gr.rules[q2].rhs :
              /\ gr.rules[q2].rhs[p2] = z /\ gr.rules[q2].lhs \in G
              /\ \A o \in 1 .. p2 - 1 : gr.rules[q2].rhs[o] \notin V \cup {seq[j]}
        BY <4>2
      <4>4. q2 = q /\ p2 = p
        BY <2>6, <4>3, OnePlace
      <4>. QED  BY <4>3, <4>4
    <3>. QED  BY <2>3, <2>6, <3>1, <3>2 DEF SequenceTrace
  <2>7. x \notin G
    <3>. SUFFICES ASSUME x \in G PROVE FALSE
      OBVIOUS
    <3>1. CASE \E j \in 1 .. k - 1 : from + k = from + j
      BY <1>1, <2>1, <3>1
    <3>2. CASE \E j \in 1 .. k - 1 : \A o \in 1 .. from + k - 1 : rhs[o] # seq[j]
      <4>1. PICK j \in 1 .. k - 1 : \A o \in 1 .. from + k - 1 : rhs[o] # seq[j]
        BY <3>2
      <4>2. j \in 1 .. Len(seq) /\ from + j \in 1 .. from + k - 1
        BY <1>1, <2>1
      <4>. QED  BY <1>1, <4>1, <4>2
    <3>3. gr.rules[r].rhs[from + k] = x /\ from + k \in DOMAIN gr.rules[r].rhs
      BY <2>5
    <3>. HIDE DEF G
    <3>4. \/ \E j \in 1 .. k - 1 : from + k = from + j
          \/ \E j \in 1 .. k - 1 : \A o \in 1 .. from + k - 1 : gr.rules[r].rhs[o] # seq[j]
      BY <2>5, <2>6, <3>3
    <3>. QED  BY <3>1, <3>2, <3>4
  <2>8. x \in Avoiding(gr, V \cup G)
    <3>1. ASSUME NEW z \in G \cap Nullable(gr), NEW q \in RuleIndex(gr), NEW p \in DOMAIN gr.rules[q].rhs,
                 gr.rules[q].rhs[p] = z
          PROVE  gr.rules[q].lhs \in V \cup G \/ \E o \in DOMAIN gr.rules[q].rhs : gr.rules[q].rhs[o] = x
      <4>1. q = r \/ gr.rules[q].lhs \in G
        BY <2>6, <3>1
      <4>. QED  BY <2>5, <4>1
    <3>. HIDE DEF G
    <3>. QED  BY <2>5, <2>7, <3>1, Bypass
  <2>9. V \cup G = W /\ x \notin W
    BY <2>4, <2>5, <2>7
  <2>10. Left(gr, W) < n
    <3>1. Left(gr, W) \in Nat /\ Left(gr, V) \in Nat /\ Left(gr, W) <= Left(gr, V)
      BY <2>4, LeftFacts
    <3>. QED  BY <3>1
  <2>11. x \in UsedSymbols(gr)
    BY <1>1 DEF x
  <2>12. call[x][W].answer
    BY <2>2, <2>8, <2>9, <2>10, <2>11 DEF Complete
  <2>13. f[k] = call[x][W]
    BY <1>5, <2>2, <2>9 DEF EmptyNext
  <2>. QED  BY <2>1, <2>12, <2>13
<1>. HIDE DEF T
<1>6. \A k \in 0 .. Len(seq) : k \in T
  BY ONLY <1>1, <1>4, <1>5, UpTo
<1>7. Len(seq) \in T
  BY <1>1, <1>6
<1>. QED  BY <1>3, <1>7 DEF T, EmptySequenceRun

LEMMA EmptyRulesComplete ==
  ASSUME NEW gr, WellFormed(gr), UsedOnce(gr, Nullable(gr)),
         NEW call \in EmptyFunction(gr), Traced(gr, call), NEW n \in Nat, Complete(gr, call, n),
         NEW s \in UsedSymbols(gr), NEW V \in SUBSET UsedSymbols(gr), s \notin V,
         s \in Avoiding(gr, V), Left(gr, V) < n + 1
  PROVE  EmptyRules(gr, call, s, V).answer
<1>. DEFINE N == Len(gr.rules)
<1>1. N \in Nat /\ RuleIndex(gr) = 1 .. N
  BY RulesAreFinite
<1>2. PICK f : EmptyRulesRun(f, gr, call, s, V)
  BY EmptyRulesLoop
<1>3. PICK r \in RuleIndex(gr) : gr.rules[r].lhs = s /\ AllIn(gr.rules[r].rhs, Avoiding(gr, V \cup {s}))
  BY AvoidingRule
<1>. DEFINE rhs == gr.rules[r].rhs
            W == f[r - 1].visited
            G == W \ (V \cup {s})
            V0 == W \cup {s}
<1>4. /\ r - 1 \in 0 .. N /\ r \in 0 .. N /\ r \in Nat
      /\ f[r - 1] \in EmptyResult(gr) /\ f[r] = EmptyRule(call, s, gr.rules[r], f[r - 1])
      /\ W \in SUBSET UsedSymbols(gr) /\ V0 \in SUBSET UsedSymbols(gr)
  <2>1. r - 1 \in 0 .. N /\ r \in 0 .. N /\ r \in Nat
    BY <1>1
  <2>2. f[r - 1] \in EmptyResult(gr) /\ f[r] = EmptyRule(call, s, gr.rules[r], f[r - 1])
    BY <1>1, <1>2, <2>1 DEF EmptyRulesRun
  <2>. QED  BY <2>1, <2>2 DEF EmptyResult
<1>5. RulesTrace(gr, s, V, r - 1, W)
  BY <1>2, <1>4, EmptyRulesTrace
<1>6. V \subseteq W /\ V \cup {s} \cup G = V0
  BY <1>5 DEF RulesTrace
\* A visited symbol that can be empty has its place in a rule of a visited one.
<1>7. ASSUME NEW z \in G, z \in Nullable(gr), NEW q \in RuleIndex(gr), NEW p \in DOMAIN gr.rules[q].rhs,
             gr.rules[q].rhs[p] = z
      PROVE  gr.rules[q].lhs \in V0 /\ (gr.rules[q].lhs = s => q <= r - 1)
  <2>1. z \in W \ V /\ z # s
    OBVIOUS
  <2>2. ByRules(gr, W \ V, V \cup {s}, s, r - 1, z)
    BY <1>5, <2>1 DEF RulesTrace
  <2>3. PICK q2 \in RuleIndex(gr) : \E p2 \in DOMAIN gr.rules[q2].rhs :
          /\ gr.rules[q2].rhs[p2] = z /\ gr.rules[q2].lhs \in W \ V
          /\ gr.rules[q2].lhs = s => q2 <= r - 1
    BY <2>2 DEF ByRules
  <2>4. q2 = q
    BY <1>7, <2>3, OnePlace
  <2>. QED  BY <2>3, <2>4
<1>8. ASSUME NEW j \in DOMAIN rhs PROVE rhs[j] \in Avoiding(gr, V0)
  <2>. DEFINE x == rhs[j]
  <2>1. x \in Avoiding(gr, V \cup {s}) /\ x \in Nullable(gr)
    <3>1. x \in Avoiding(gr, V \cup {s})
      BY <1>3 DEF AllIn
    <3>2. Avoiding(gr, V \cup {s}) \subseteq Avoiding(gr, {})
      BY AvoidingLess
    <3>. QED  BY <3>1, <3>2, AvoidingNothing
  <2>2. x \notin G
    BY <1>3, <1>4, <1>7, <2>1
  <2>3. ASSUME NEW z \in G \cap Nullable(gr), NEW q \in RuleIndex(gr), NEW p \in DOMAIN gr.rules[q].rhs,
               gr.rules[q].rhs[p] = z
        PROVE  gr.rules[q].lhs \in (V \cup {s}) \cup G
    BY <1>6, <1>7, <2>3
  <2>. HIDE DEF x, G
  <2>4. x \in Avoiding(gr, (V \cup {s}) \cup G)
    BY <2>1, <2>2, <2>3, Bypass
  <2>. QED  BY <1>6, <2>4 DEF x
<1>9. Left(gr, V0) < n
  <2>1. s \in Nonterminals(gr)
    BY AvoidingApart
  <2>2. Left(gr, V0) \in Nat /\ Left(gr, V) \in Nat /\ Left(gr, V0) < Left(gr, V)
    BY <1>6, <2>1, LeftFacts
  <2>. QED  BY <2>2
<1>10. EmptySequence(call, rhs, V0).answer
  <2>1. rhs \in Seq(UsedSymbols(gr))
    BY RuleSymbols
  <2>2. rhs = Suffix(rhs, 0) /\ 0 \in 0 .. Len(rhs)
    <3>. HIDE DEF rhs
    <3>. QED  BY <2>1 DEF Suffix
  <2>3. AllIn(rhs, Avoiding(gr, V0))
    BY <1>8 DEF AllIn
  <2>. HIDE DEF V0
  <2>. QED  BY <1>4, <1>9, <2>2, <2>3, EmptySequenceComplete
<1>11. f[r].answer
  BY <1>3, <1>4, <1>10 DEF EmptyRule
<1>. DEFINE T == {k \in 0 .. N : k >= r => f[k].answer}
<1>12. 0 \in T
  BY <1>1, <1>4, <1>11
<1>13. ASSUME NEW k \in 1 .. N, k - 1 \in T PROVE k \in T
  <2>1. k - 1 \in 0 .. N /\ k \in 0 .. N
    BY <1>1
  <2>2. f[k] = EmptyRule(call, s, gr.rules[k], f[k - 1])
    BY <1>1, <1>2 DEF EmptyRulesRun
  <2>3. k > r => f[k - 1].answer
    BY <1>4, <1>13, <2>1
  <2>4. k > r => f[k].answer
    BY <2>2, <2>3 DEF EmptyRule
  <2>. QED  BY <1>4, <1>11, <2>1, <2>4
<1>. HIDE DEF T, N
<1>14. \A k \in 0 .. N : k \in T
  BY ONLY <1>1, <1>12, <1>13, UpTo
<1>15. N \in 0 .. N /\ N >= r
  BY <1>1, <1>4
<1>16. f[N].answer
  BY <1>14, <1>15 DEF T
<1>. QED  BY <1>2, <1>16 DEF EmptyRulesRun, N

\* The stored answers are right where they say yes, or (all) wherever.
RightTable(gr, all, table) ==
  /\ table \in EmptyTables(gr) /\ table.yes \subseteq Nullable(gr)
  /\ all => table.no \cap Nullable(gr) = {}

LEMMA EmptySymbolComplete ==
  ASSUME NEW gr, WellFormed(gr), UsedOnce(gr, Nullable(gr)), DefinesNoTerminal(gr),
         NEW table, RightTable(gr, TRUE, table),
         NEW call \in EmptyFunction(gr), Traced(gr, call), NEW n \in Nat, Complete(gr, call, n),
         NEW s \in UsedSymbols(gr), NEW V \in SUBSET UsedSymbols(gr), s \notin V,
         s \in Avoiding(gr, V), Left(gr, V) < n + 1
  PROVE  EmptySymbol(gr, table, call, s, V).answer
<1>1. s \in Nullable(gr) /\ s \in Nonterminals(gr)
  <2>1. Avoiding(gr, V) \subseteq Avoiding(gr, {})
    BY AvoidingLess
  <2>. QED  BY <2>1, AvoidingNothing, AvoidingApart
<1>2. IsNonterminal(gr, s)
  BY <1>1 DEF DefinesNoTerminal, TerminalsAndEnd, IsNonterminal
<1>3. s \notin table.no
  BY <1>1 DEF RightTable
<1>4. EmptyRules(gr, call, s, V).answer
  BY EmptyRulesComplete
<1>. QED  BY <1>2, <1>3, <1>4 DEF EmptySymbol

LEMMA EmptyCallsComplete ==
  ASSUME NEW gr, WellFormed(gr), UsedOnce(gr, Nullable(gr)), DefinesNoTerminal(gr),
         NEW table, RightTable(gr, TRUE, table)
  PROVE  /\ Traced(gr, EmptyCalls(gr, table))
         /\ Complete(gr, EmptyCalls(gr, table), Depth(gr))
<1>0. table \in EmptyTables(gr)
  BY DEF RightTable
<1>1. PICK f : EmptyCallsRun(f, gr, table)
  BY <1>0, EmptyCallsLoop
<1>. DEFINE N == Depth(gr)
            T == {k \in 0 .. N : Traced(gr, f[k]) /\ Complete(gr, f[k], k)}
<1>2. N \in Nat
  BY RulesAreFinite
<1>3. 0 \in T
  <2>1. f[0] = NoEmptyCall(gr)
    BY <1>1 DEF EmptyCallsRun
  <2>2. Traced(gr, f[0])
    BY <2>1 DEF Traced, Trace, NoEmptyCall
  <2>3. \A V : ~(Left(gr, V) < 0)
    <3>1. \A V : Left(gr, V) \in Nat
      BY LeftFacts
    <3>. QED  BY <3>1
  <2>4. Complete(gr, f[0], 0)
    BY <2>3 DEF Complete
  <2>. QED  BY <1>2, <2>2, <2>4
<1>4. ASSUME NEW k \in 1 .. N, k - 1 \in T PROVE k \in T
  <2>1. k - 1 \in 0 .. N /\ k \in 0 .. N /\ k - 1 \in Nat /\ (k - 1) + 1 = k
    BY <1>2
  <2>2. f[k] = EmptyCall(gr, table, f[k - 1]) /\ f[k - 1] \in EmptyFunction(gr)
    BY <1>1, <2>1 DEF EmptyCallsRun
  <2>3. \A s \in UsedSymbols(gr), V \in SUBSET UsedSymbols(gr) :
          f[k][s][V] = EmptySymbol(gr, table, f[k - 1], s, V)
    BY <2>2 DEF EmptyCall
  <2>4. Traced(gr, f[k - 1]) /\ Complete(gr, f[k - 1], k - 1)
    BY <1>4
  <2>5. Traced(gr, f[k])
    BY <2>2, <2>3, <2>4, EmptySymbolTrace DEF Traced
  <2>6. Complete(gr, f[k], k)
    <3>. SUFFICES ASSUME NEW s \in UsedSymbols(gr), NEW V \in SUBSET UsedSymbols(gr), s \notin V,
                         s \in Avoiding(gr, V), Left(gr, V) < k
                  PROVE  f[k][s][V].answer
      BY DEF Complete
    <3>1. EmptySymbol(gr, table, f[k - 1], s, V).answer
      BY <2>1, <2>2, <2>4, EmptySymbolComplete
    <3>. QED  BY <2>3, <3>1
  <2>. QED  BY <2>1, <2>5, <2>6
<1>. HIDE DEF T, N
<1>5. \A k \in 0 .. N : k \in T
  BY ONLY <1>2, <1>3, <1>4, UpTo
<1>6. N \in T
  BY <1>2, <1>5
<1>7. EmptyCalls(gr, table) = f[Depth(gr)]
  BY <1>1 DEF EmptyCallsRun
<1>. QED  BY <1>6, <1>7 DEF T, N

LEMMA TailSymbols ==
  ASSUME NEW gr, WellFormed(gr), NEW seq \in Tails(gr)
  PROVE  /\ seq \in Seq(UsedSymbols(gr))
         /\ \E r \in RuleIndex(gr) : \E p \in DOMAIN gr.rules[r].rhs :
              p \in 0 .. Len(gr.rules[r].rhs) /\ seq = Suffix(gr.rules[r].rhs, p)
<1>1. PICK r \in RuleIndex(gr) : \E p \in DOMAIN gr.rules[r].rhs : seq = Suffix(gr.rules[r].rhs, p)
  BY DEF Tails
<1>2. PICK p \in DOMAIN gr.rules[r].rhs : seq = Suffix(gr.rules[r].rhs, p)
  BY <1>1
<1>. DEFINE rhs == gr.rules[r].rhs
<1>3. rhs \in Seq(UsedSymbols(gr))
  BY RuleSymbols
<1>4. p \in DOMAIN rhs /\ seq = SubSeq(rhs, p + 1, Len(rhs))
  BY <1>2 DEF Suffix
<1>5. seq \in Seq(UsedSymbols(gr)) /\ p \in 0 .. Len(rhs)
  <2>. HIDE DEF rhs
  <2>. QED  BY <1>3, <1>4
<1>. QED  BY <1>2, <1>5

\* empty() says yes of what can be empty and of nothing else.
LEMMA EmptyIsExact ==
  ASSUME NEW gr, WellFormed(gr), UsedOnce(gr, Nullable(gr)), DefinesNoTerminal(gr),
         NEW table, RightTable(gr, TRUE, table)
  PROVE  /\ \A s \in UsedSymbols(gr) : IsEmpty(gr, table, s) <=> s \in Nullable(gr)
         /\ \A seq \in Tails(gr) : IsEmptySeq(gr, table, seq) <=> AllIn(seq, Nullable(gr))
<1>. DEFINE call == EmptyCalls(gr, table)
<1>0. table \in EmptyTables(gr) /\ table.yes \subseteq Nullable(gr)
  BY DEF RightTable
<1>1. call \in EmptyFunction(gr) /\ Traced(gr, call) /\ Complete(gr, call, Depth(gr))
  BY <1>0, EmptyCallsTruth, EmptyCallsComplete
<1>2. Left(gr, {}) < Depth(gr) /\ Depth(gr) \in Nat /\ Avoiding(gr, {}) = Nullable(gr)
  <2>1. Nonterminals(gr) \ {} = Nonterminals(gr)
    OBVIOUS
  <2>2. Left(gr, {}) = Cardinality(Nonterminals(gr))
    BY <2>1 DEF Left
  <2>. QED  BY <2>2, RulesAreFinite, AvoidingNothing
<1>. HIDE DEF call
<1>3. ASSUME NEW s \in UsedSymbols(gr), s \in Nullable(gr) PROVE IsEmpty(gr, table, s)
  <2>1. call[s][{}].answer
    BY <1>1, <1>2, <1>3 DEF Complete
  <2>. QED  BY <2>1 DEF IsEmpty, call
<1>4. ASSUME NEW seq \in Tails(gr), AllIn(seq, Nullable(gr)) PROVE IsEmptySeq(gr, table, seq)
  <2>1. PICK r \in RuleIndex(gr) : \E p \in DOMAIN gr.rules[r].rhs :
          p \in 0 .. Len(gr.rules[r].rhs) /\ seq = Suffix(gr.rules[r].rhs, p)
    BY TailSymbols
  <2>2. PICK p \in 0 .. Len(gr.rules[r].rhs) : seq = Suffix(gr.rules[r].rhs, p)
    BY <2>1
  <2>3. AllIn(seq, Avoiding(gr, {})) /\ {} \in SUBSET UsedSymbols(gr)
    BY <1>2, <1>4
  <2>4. EmptySequence(call, seq, {}).answer
    BY <1>1, <1>2, <2>2, <2>3, EmptySequenceComplete
  <2>. QED  BY <2>4 DEF IsEmptySeq, call
<1>5. \A seq \in Tails(gr) : IsEmptySeq(gr, table, seq) => AllIn(seq, Nullable(gr))
  BY <1>0, EmptyIsSound, TailSymbols
<1>. QED  BY <1>0, <1>3, <1>4, <1>5, EmptyIsSound

\* Both: what empty() says, and whether it says all (all).
Allows(gr, all) == all => UsedOnce(gr, Nullable(gr)) /\ DefinesNoTerminal(gr)

LEMMA EmptyCallsType ==
  ASSUME NEW gr, WellFormed(gr), NEW table \in EmptyTables(gr)
  PROVE  EmptyCalls(gr, table) \in EmptyFunction(gr)
<1>1. PICK f : EmptyCallsRun(f, gr, table)
  BY EmptyCallsLoop
<1>2. Depth(gr) \in 0 .. Depth(gr)
  BY RulesAreFinite
<1>. QED  BY <1>1, <1>2 DEF EmptyCallsRun

LEMMA StoreType ==
  ASSUME NEW gr, NEW table \in EmptyTables(gr), NEW s \in UsedSymbols(gr), NEW answer
  PROVE  Store(table, s, answer) \in EmptyTables(gr)
BY DEF Store, EmptyTables

\* A table with at least the answers of low, and no symbol with two.
Grown(gr, all, low, table) ==
  /\ RightTable(gr, all, table)
  /\ low.yes \subseteq table.yes /\ low.no \subseteq table.no /\ table.yes \cap table.no = {}

\* An answer that is stored is the one that is given.
LEMMA EmptyStored ==
  ASSUME NEW gr, WellFormed(gr), NEW table \in EmptyTables(gr), NEW s \in UsedSymbols(gr),
         s \in table.yes \cup table.no
  PROVE  IsEmpty(gr, table, s) = (s \in table.yes)
<1>1. PICK f : EmptyCallsRun(f, gr, table)
  BY EmptyCallsLoop
<1>2. Depth(gr) \in 1 .. Depth(gr)
  BY RulesAreFinite
<1>3. EmptyCalls(gr, table) = EmptyCall(gr, table, f[Depth(gr) - 1])
  BY <1>1, <1>2 DEF EmptyCallsRun
<1>4. EmptyCalls(gr, table)[s][{}] = EmptySymbol(gr, table, f[Depth(gr) - 1], s, {})
  BY <1>3 DEF EmptyCall
<1>. QED  BY <1>4 DEF IsEmpty, EmptySymbol

\* Storing what empty() says of a symbol keeps the table right.
LEMMA StoreRight ==
  ASSUME NEW gr, WellFormed(gr), NEW all, NEW low, Allows(gr, all), NEW table, Grown(gr, all, low, table),
         NEW s \in UsedSymbols(gr)
  PROVE  /\ Grown(gr, all, low, Store(table, s, IsEmpty(gr, table, s)))
         /\ IsEmpty(gr, table, s) => s \in Nullable(gr)
         /\ all => (IsEmpty(gr, table, s) <=> s \in Nullable(gr))
<1>1. /\ table \in EmptyTables(gr) /\ table.yes \subseteq Nullable(gr)
      /\ low.yes \subseteq table.yes /\ low.no \subseteq table.no /\ table.yes \cap table.no = {}
  BY DEF Grown, RightTable
<1>2. IsEmpty(gr, table, s) => s \in Nullable(gr)
  BY <1>1, EmptyIsSound
<1>3. all => (IsEmpty(gr, table, s) <=> s \in Nullable(gr))
  <2>. SUFFICES ASSUME all PROVE IsEmpty(gr, table, s) <=> s \in Nullable(gr)
    OBVIOUS
  <2>1. RightTable(gr, TRUE, table)
    BY DEF Grown, RightTable
  <2>. QED  BY <2>1, EmptyIsExact DEF Allows
<1>4. Grown(gr, all, low, Store(table, s, IsEmpty(gr, table, s)))
  <2>1. CASE IsEmpty(gr, table, s)
    <3>1. Store(table, s, IsEmpty(gr, table, s)) = [table EXCEPT !.yes = @ \cup {s}]
      BY <2>1 DEF Store
    <3>2. s \notin table.no
      BY <1>1, <2>1, EmptyStored
    <3>. QED  BY <1>1, <1>2, <2>1, <3>1, <3>2 DEF Grown, RightTable, EmptyTables
  <2>2. CASE ~IsEmpty(gr, table, s)
    <3>1. Store(table, s, IsEmpty(gr, table, s)) = [table EXCEPT !.no = @ \cup {s}]
      BY <2>2 DEF Store
    <3>2. s \notin table.yes
      BY <1>1, <2>2, EmptyStored
    <3>. QED  BY <1>1, <1>3, <2>2, <3>1, <3>2 DEF Grown, RightTable, EmptyTables
  <2>. QED  BY <2>1, <2>2
<1>. QED  BY <1>2, <1>3, <1>4

-----------------------------------------------------------------------------
(* The loops of first() *)

FindResult(gr)   == [answer : SUBSET UsedSymbols(gr), visited : SUBSET UsedSymbols(gr),
                     empty : EmptyTables(gr)]
FindFunction(gr) == [UsedSymbols(gr) -> [SUBSET UsedSymbols(gr) -> [EmptyTables(gr) -> FindResult(gr)]]]

\* What first() of a sequence returns.
BeginResult(gr)  == [answer : SUBSET UsedSymbols(gr), visited : SUBSET UsedSymbols(gr),
                     empty : EmptyTables(gr), through : BOOLEAN]

IsTable(gr, table) ==
  DOMAIN table \subseteq UsedSymbols(gr) /\ \A s \in DOMAIN table : table[s] \in SUBSET UsedSymbols(gr)

LEMMA FirstNextType ==
  ASSUME NEW gr, WellFormed(gr), NEW call \in FindFunction(gr), NEW s \in UsedSymbols(gr),
         NEW before \in BeginResult(gr)
  PROVE  FirstNext(gr, call, s, before) \in BeginResult(gr)
<1>. DEFINE one == call[s][before.visited][before.empty]
            skip == IsEmpty(gr, one.empty, s)
<1>1. one \in FindResult(gr)
  BY DEF BeginResult, FindFunction
<1>2. skip \in BOOLEAN
  <2>1. EmptyCalls(gr, one.empty) \in EmptyFunction(gr)
    BY <1>1, EmptyCallsType DEF FindResult
  <2>2. {} \in SUBSET UsedSymbols(gr)
    OBVIOUS
  <2>3. EmptyCalls(gr, one.empty)[s][{}] \in EmptyResult(gr)
    BY <2>1, <2>2 DEF EmptyFunction
  <2>. QED  BY <2>3 DEF IsEmpty, EmptyResult
<1>3. Store(one.empty, s, skip) \in EmptyTables(gr)
  BY <1>1, StoreType DEF FindResult
<1>. HIDE DEF one, skip
<1>4. [answer  |-> before.answer \cup one.answer, visited |-> one.visited,
       empty  |-> Store(one.empty, s, skip), through |-> skip] \in BeginResult(gr)
  BY <1>1, <1>2, <1>3 DEF FindResult, BeginResult
<1>. QED  BY <1>4 DEF FirstNext, FirstPast, FirstAdd, one, skip

FirstSequenceRun(f, gr, call, seq, visited, empty) ==
  /\ f \in [0 .. Len(seq) -> BeginResult(gr)]
  /\ f[0] = [answer |-> {}, visited |-> visited, empty |-> empty, through |-> TRUE]
  /\ \A k \in 1 .. Len(seq) : f[k] = FirstNext(gr, call, seq[k], f[k - 1])
  /\ FirstSequence(gr, call, seq, visited, empty) = f[Len(seq)]

LEMMA FirstSequenceLoop ==
  ASSUME NEW gr, WellFormed(gr), NEW call \in FindFunction(gr), NEW seq \in Seq(UsedSymbols(gr)),
         NEW visited \in SUBSET UsedSymbols(gr), NEW empty \in EmptyTables(gr)
  PROVE  \E f : FirstSequenceRun(f, gr, call, seq, visited, empty)
<1>. DEFINE N == Len(seq)
            R == BeginResult(gr)
            base == [answer |-> {}, visited |-> visited, empty |-> empty, through |-> TRUE]
            Go == [k \in 1 .. N |-> [x \in R |-> FirstNext(gr, call, seq[k], x)]]
            Is(f) == f = [k \in 0 .. N |-> IF k = 0 THEN base ELSE FirstNext(gr, call, seq[k], f[k - 1])]
            X == CHOOSE f : Is(f)
<1>0. N \in Nat /\ base \in R
  BY DEF BeginResult
<1>1. \A k \in 1 .. N, x \in R : FirstNext(gr, call, seq[k], x) \in R
  <2>1. \A k \in 1 .. N : seq[k] \in UsedSymbols(gr)
    OBVIOUS
  <2>. QED  BY <2>1, FirstNextType
<1>2. Go \in [1 .. N -> [R -> R]]
  BY <1>1
<1>3. PICK h : LoopOf(h, N, R, base, Go)
  <2>1. CanLoop(N, R, base, Go)
    BY <1>0, <1>2 DEF CanLoop
  <2>. HIDE DEF N, R, base, Go
  <2>. QED  BY ONLY <2>1, LoopExists
<1>4. Is(h)
  <2>1. ASSUME NEW k \in 1 .. N PROVE Go[k][h[k - 1]] = FirstNext(gr, call, seq[k], h[k - 1])
    <3>1. k - 1 \in 0 .. N
      BY <1>0
    <3>2. h[k - 1] \in R
      BY <1>3, <3>1 DEF LoopOf
    <3>. HIDE DEF R, N
    <3>. QED  BY <3>2
  <2>2. \A k \in 0 .. N : k # 0 => k \in 1 .. N
    BY <1>0
  <2>3. h = [k \in 0 .. N |-> h[k]]
    <3>. HIDE DEF N, R
    <3>. QED  BY <1>3 DEF LoopOf
  <2>. HIDE DEF N, R, Go, base
  <2>. QED  BY ONLY <1>3, <2>1, <2>2, <2>3 DEF LoopOf
<1>5. Is(X)
  <2>. HIDE DEF Is
  <2>. QED  BY <1>4
<1>6. /\ X[0] = base /\ \A k \in 1 .. N : X[k] = FirstNext(gr, call, seq[k], X[k - 1])
      /\ X = [k \in 0 .. N |-> X[k]]
  <2>1. 0 \in 0 .. N /\ \A k \in 1 .. N : k \in 0 .. N /\ k # 0
    BY <1>0
  <2>. HIDE DEF N, X, base
  <2>. QED  BY ONLY <1>5, <2>1
<1>7. \A k \in 0 .. N : X[k] \in R
  <2>. DEFINE T == {k \in 0 .. N : X[k] \in R}
  <2>. HIDE DEF X
  <2>1. 0 \in T
    <3>. HIDE DEF N, R, base
    <3>1. 0 \in 0 .. N
      BY <1>0
    <3>. QED  BY <1>0, <1>6, <3>1
  <2>2. ASSUME NEW k \in 1 .. N, k - 1 \in T PROVE k \in T
    <3>1. X[k - 1] \in R /\ k \in 0 .. N
      BY <2>2, <1>0
    <3>2. X[k] = FirstNext(gr, call, seq[k], X[k - 1])
      BY <1>6
    <3>. HIDE DEF N, R
    <3>. QED  BY <1>1, <3>1, <3>2
  <2>. HIDE DEF T, N
  <2>3. \A k \in 0 .. N : k \in T
    BY ONLY <1>0, <2>1, <2>2, UpTo
  <2>. QED  BY <2>3 DEF T
<1>8. FirstSequence(gr, call, seq, visited, empty) = X[N]
  BY DEF FirstSequence
<1>9. X \in [0 .. N -> R]
  <2>. HIDE DEF X, R, N
  <2>. QED  BY <1>6, <1>7
<1>. HIDE DEF X
<1>. QED  BY <1>6, <1>8, <1>9 DEF FirstSequenceRun

LEMMA FirstSequenceType ==
  ASSUME NEW gr, WellFormed(gr), NEW call \in FindFunction(gr), NEW seq \in Seq(UsedSymbols(gr)),
         NEW visited \in SUBSET UsedSymbols(gr), NEW empty \in EmptyTables(gr)
  PROVE  FirstSequence(gr, call, seq, visited, empty) \in BeginResult(gr)
<1>1. Len(seq) \in 0 .. Len(seq)
  OBVIOUS
<1>2. PICK f : FirstSequenceRun(f, gr, call, seq, visited, empty)
  BY FirstSequenceLoop
<1>. QED  BY <1>1, <1>2 DEF FirstSequenceRun

LEMMA FirstRuleType ==
  ASSUME NEW gr, WellFormed(gr), NEW call \in FindFunction(gr), NEW s, NEW r \in RuleIndex(gr),
         NEW before \in FindResult(gr)
  PROVE  FirstRule(gr, call, s, gr.rules[r], before) \in FindResult(gr)
<1>. DEFINE one == FirstSequence(gr, call, gr.rules[r].rhs, before.visited, before.empty)
<1>1. one \in BeginResult(gr)
  <2>1. gr.rules[r].rhs \in Seq(UsedSymbols(gr))
    BY RuleSymbols
  <2>2. before.visited \in SUBSET UsedSymbols(gr) /\ before.empty \in EmptyTables(gr)
    BY DEF FindResult
  <2>. QED  BY <2>1, <2>2, FirstSequenceType
<1>. HIDE DEF one
<1>2. [answer |-> before.answer \cup one.answer, visited |-> one.visited, empty |-> one.empty]
        \in FindResult(gr)
  BY <1>1 DEF FindResult, BeginResult
<1>. QED  BY <1>2 DEF FirstRule, FirstJoin, one

FirstRulesRun(f, gr, call, s, visited, empty) ==
  /\ f \in [0 .. Len(gr.rules) -> FindResult(gr)]
  /\ f[0] = [answer |-> {}, visited |-> visited, empty |-> empty]
  /\ \A k \in 1 .. Len(gr.rules) : f[k] = FirstRule(gr, call, s, gr.rules[k], f[k - 1])
  /\ FirstRules(gr, call, s, visited, empty) = f[Len(gr.rules)]

LEMMA FirstRulesLoop ==
  ASSUME NEW gr, WellFormed(gr), NEW call \in FindFunction(gr), NEW s,
         NEW visited \in SUBSET UsedSymbols(gr), NEW empty \in EmptyTables(gr)
  PROVE  \E f : FirstRulesRun(f, gr, call, s, visited, empty)
<1>. DEFINE N == Len(gr.rules)
            R == FindResult(gr)
            base == [answer |-> {}, visited |-> visited, empty |-> empty]
            Go == [k \in 1 .. N |-> [x \in R |-> FirstRule(gr, call, s, gr.rules[k], x)]]
            Is(f) == f = [k \in 0 .. N |-> IF k = 0 THEN base ELSE FirstRule(gr, call, s, gr.rules[k], f[k - 1])]
            X == CHOOSE f : Is(f)
<1>0. N \in Nat /\ base \in R
  BY RulesAreFinite DEF FindResult
<1>1. \A k \in 1 .. N, x \in R : FirstRule(gr, call, s, gr.rules[k], x) \in R
  BY RulesAreFinite, FirstRuleType
<1>2. Go \in [1 .. N -> [R -> R]]
  BY <1>1
<1>3. PICK h : LoopOf(h, N, R, base, Go)
  <2>1. CanLoop(N, R, base, Go)
    BY <1>0, <1>2 DEF CanLoop
  <2>. HIDE DEF N, R, base, Go
  <2>. QED  BY ONLY <2>1, LoopExists
<1>4. Is(h)
  <2>1. ASSUME NEW k \in 1 .. N PROVE Go[k][h[k - 1]] = FirstRule(gr, call, s, gr.rules[k], h[k - 1])
    <3>1. k - 1 \in 0 .. N
      BY <1>0
    <3>2. h[k - 1] \in R
      BY <1>3, <3>1 DEF LoopOf
    <3>. HIDE DEF R, N
    <3>. QED  BY <3>2
  <2>2. \A k \in 0 .. N : k # 0 => k \in 1 .. N
    BY <1>0
  <2>3. h = [k \in 0 .. N |-> h[k]]
    <3>. HIDE DEF N, R
    <3>. QED  BY <1>3 DEF LoopOf
  <2>. HIDE DEF N, R, Go, base
  <2>. QED  BY ONLY <1>3, <2>1, <2>2, <2>3 DEF LoopOf
<1>5. Is(X)
  <2>. HIDE DEF Is
  <2>. QED  BY <1>4
<1>6. /\ X[0] = base /\ \A k \in 1 .. N : X[k] = FirstRule(gr, call, s, gr.rules[k], X[k - 1])
      /\ X = [k \in 0 .. N |-> X[k]]
  <2>1. 0 \in 0 .. N /\ \A k \in 1 .. N : k \in 0 .. N /\ k # 0
    BY <1>0
  <2>. HIDE DEF N, X, base
  <2>. QED  BY ONLY <1>5, <2>1
<1>7. \A k \in 0 .. N : X[k] \in R
  <2>. DEFINE T == {k \in 0 .. N : X[k] \in R}
  <2>. HIDE DEF X
  <2>1. 0 \in T
    <3>. HIDE DEF N, R, base
    <3>1. 0 \in 0 .. N
      BY <1>0
    <3>. QED  BY <1>0, <1>6, <3>1
  <2>2. ASSUME NEW k \in 1 .. N, k - 1 \in T PROVE k \in T
    <3>1. X[k - 1] \in R /\ k \in 0 .. N
      BY <2>2, <1>0
    <3>2. X[k] = FirstRule(gr, call, s, gr.rules[k], X[k - 1])
      BY <1>6
    <3>. HIDE DEF N, R
    <3>. QED  BY <1>1, <3>1, <3>2
  <2>. HIDE DEF T, N
  <2>3. \A k \in 0 .. N : k \in T
    BY ONLY <1>0, <2>1, <2>2, UpTo
  <2>. QED  BY <2>3 DEF T
<1>8. FirstRules(gr, call, s, visited, empty) = X[N]
  BY DEF FirstRules
<1>9. X \in [0 .. N -> R]
  <2>. HIDE DEF X, R, N
  <2>. QED  BY <1>6, <1>7
<1>. HIDE DEF X
<1>. QED  BY <1>6, <1>8, <1>9 DEF FirstRulesRun

LEMMA FirstSymbolType ==
  ASSUME NEW gr, WellFormed(gr), NEW table, IsTable(gr, table), NEW call \in FindFunction(gr),
         NEW s \in UsedSymbols(gr), NEW visited \in SUBSET UsedSymbols(gr), NEW empty \in EmptyTables(gr)
  PROVE  FirstSymbol(gr, table, call, s, visited, empty) \in FindResult(gr)
<1>1. FirstRules(gr, call, s, visited \cup {s}, empty) \in FindResult(gr)
  <2>1. Len(gr.rules) \in 0 .. Len(gr.rules)
    BY RulesAreFinite
  <2>2. PICK f : FirstRulesRun(f, gr, call, s, visited \cup {s}, empty)
    BY FirstRulesLoop
  <2>. QED  BY <2>1, <2>2 DEF FirstRulesRun
<1>2. \A A \in SUBSET UsedSymbols(gr) : [answer |-> A, visited |-> visited, empty |-> empty] \in FindResult(gr)
  BY DEF FindResult
<1>3. {} \in SUBSET UsedSymbols(gr) /\ {s} \in SUBSET UsedSymbols(gr)
      /\ (s \in DOMAIN table => table[s] \in SUBSET UsedSymbols(gr))
  BY DEF IsTable
<1>. QED  BY <1>1, <1>2, <1>3 DEF FirstSymbol

FirstCallsRun(f, gr, table) ==
  /\ f \in [0 .. Depth(gr) -> FindFunction(gr)]
  /\ f[0] = NoCall(gr)
  /\ \A k \in 1 .. Depth(gr) : f[k] = FirstCall(gr, table, f[k - 1])
  /\ FirstCalls(gr, table) = f[Depth(gr)]

LEMMA FirstCallsLoop ==
  ASSUME NEW gr, WellFormed(gr), NEW table, IsTable(gr, table)
  PROVE  \E f : FirstCallsRun(f, gr, table)
<1>. DEFINE N == Depth(gr)
            R == FindFunction(gr)
            base == NoCall(gr)
            Go == [k \in 1 .. N |-> [x \in R |-> FirstCall(gr, table, x)]]
            Is(f) == f = [k \in 0 .. N |-> IF k = 0 THEN base ELSE FirstCall(gr, table, f[k - 1])]
            X == CHOOSE f : Is(f)
<1>0. N \in Nat /\ base \in R
  BY RulesAreFinite DEF FindResult, FindFunction, NoCall
<1>1. \A k \in 1 .. N, x \in R : FirstCall(gr, table, x) \in R
  BY FirstSymbolType DEF FirstCall, FindFunction
<1>2. Go \in [1 .. N -> [R -> R]]
  BY <1>1
<1>3. PICK h : LoopOf(h, N, R, base, Go)
  <2>1. CanLoop(N, R, base, Go)
    BY <1>0, <1>2 DEF CanLoop
  <2>. HIDE DEF N, R, base, Go
  <2>. QED  BY ONLY <2>1, LoopExists
<1>4. Is(h)
  <2>1. ASSUME NEW k \in 1 .. N PROVE Go[k][h[k - 1]] = FirstCall(gr, table, h[k - 1])
    <3>1. k - 1 \in 0 .. N
      BY <1>0
    <3>2. h[k - 1] \in R
      BY <1>3, <3>1 DEF LoopOf
    <3>. HIDE DEF R, N
    <3>. QED  BY <3>2
  <2>2. \A k \in 0 .. N : k # 0 => k \in 1 .. N
    BY <1>0
  <2>3. h = [k \in 0 .. N |-> h[k]]
    <3>. HIDE DEF N, R
    <3>. QED  BY <1>3 DEF LoopOf
  <2>. HIDE DEF N, R, Go, base
  <2>. QED  BY ONLY <1>3, <2>1, <2>2, <2>3 DEF LoopOf
<1>5. Is(X)
  <2>. HIDE DEF Is
  <2>. QED  BY <1>4
<1>6. /\ X[0] = base /\ \A k \in 1 .. N : X[k] = FirstCall(gr, table, X[k - 1])
      /\ X = [k \in 0 .. N |-> X[k]]
  <2>1. 0 \in 0 .. N /\ \A k \in 1 .. N : k \in 0 .. N /\ k # 0
    BY <1>0
  <2>. HIDE DEF N, X, base
  <2>. QED  BY ONLY <1>5, <2>1
<1>7. \A k \in 0 .. N : X[k] \in R
  <2>. DEFINE T == {k \in 0 .. N : X[k] \in R}
  <2>. HIDE DEF X
  <2>1. 0 \in T
    <3>. HIDE DEF N, R, base
    <3>1. 0 \in 0 .. N
      BY <1>0
    <3>. QED  BY <1>0, <1>6, <3>1
  <2>2. ASSUME NEW k \in 1 .. N, k - 1 \in T PROVE k \in T
    <3>1. X[k - 1] \in R /\ k \in 0 .. N
      BY <2>2, <1>0
    <3>2. X[k] = FirstCall(gr, table, X[k - 1])
      BY <1>6
    <3>. HIDE DEF N, R
    <3>. QED  BY <1>1, <3>1, <3>2
  <2>. HIDE DEF T, N
  <2>3. \A k \in 0 .. N : k \in T
    BY ONLY <1>0, <2>1, <2>2, UpTo
  <2>. QED  BY <2>3 DEF T
<1>8. FirstCalls(gr, table) = X[N]
  BY DEF FirstCalls
<1>9. X \in [0 .. N -> R]
  <2>. HIDE DEF X, R, N
  <2>. QED  BY <1>6, <1>7
<1>. HIDE DEF X
<1>. QED  BY <1>6, <1>8, <1>9 DEF FirstCallsRun

-----------------------------------------------------------------------------
(* The sets first() is to find *)

BeginClosed(gr, t, S) ==
  \A r \in RuleIndex(gr) :
    Begins(Nullable(gr), gr.rules[r].rhs, S \cup {t}) => gr.rules[r].lhs \in S

BeginningOf(gr, t) == Beginning(gr, Nullable(gr), t)

FirstSet(gr, s) == {t \in TerminalsAndEnd(gr) : s \in BeginningOf(gr, t)}

\* The nonterminals of BeginningOf.
BeginningLeast(gr, t) ==
  {s \in Nonterminals(gr) : \A S \in SUBSET Nonterminals(gr) : BeginClosed(gr, t, S) => s \in S}

LEMMA BeginningIsLeast == \A gr, t : BeginningOf(gr, t) = {t} \cup BeginningLeast(gr, t)
BY DEF BeginningOf, Beginning, BeginningLeast, Least, BeginClosed

LEMMA BeginsMore ==
  ASSUME NEW N, NEW seq, NEW S, NEW S2, S \subseteq S2, Begins(N, seq, S) PROVE Begins(N, seq, S2)
BY DEF Begins

LEMMA BeginningInClosed ==
  ASSUME NEW gr, NEW t, NEW S, BeginClosed(gr, t, S)
  PROVE  BeginningLeast(gr, t) \subseteq S
<1>. DEFINE M == S \cap Nonterminals(gr)
<1>1. BeginClosed(gr, t, M)
  <2>. SUFFICES ASSUME NEW r \in RuleIndex(gr), Begins(Nullable(gr), gr.rules[r].rhs, M \cup {t})
                PROVE  gr.rules[r].lhs \in M
    BY DEF BeginClosed
  <2>1. M \cup {t} \subseteq S \cup {t}
    OBVIOUS
  <2>2. Begins(Nullable(gr), gr.rules[r].rhs, S \cup {t})
    BY <2>1, BeginsMore
  <2>. QED  BY <2>2 DEF BeginClosed, Nonterminals
<1>. QED  BY <1>1 DEF BeginningLeast

LEMMA BeginningClosed ==
  ASSUME NEW gr, NEW t, NEW r \in RuleIndex(gr),
         Begins(Nullable(gr), gr.rules[r].rhs, BeginningOf(gr, t))
  PROVE  gr.rules[r].lhs \in BeginningOf(gr, t)
<1>1. ASSUME NEW S \in SUBSET Nonterminals(gr), BeginClosed(gr, t, S) PROVE gr.rules[r].lhs \in S
  <2>1. BeginningLeast(gr, t) \subseteq S
    BY <1>1, BeginningInClosed
  <2>2. BeginningOf(gr, t) \subseteq S \cup {t}
    BY <2>1, BeginningIsLeast
  <2>3. Begins(Nullable(gr), gr.rules[r].rhs, S \cup {t})
    BY <2>2, BeginsMore
  <2>. QED  BY <1>1, <2>3 DEF BeginClosed
<1>2. gr.rules[r].lhs \in Nonterminals(gr)
  BY DEF Nonterminals
<1>3. gr.rules[r].lhs \in BeginningLeast(gr, t)
  BY <1>1, <1>2 DEF BeginningLeast
<1>. QED  BY <1>3, BeginningIsLeast

\* What begins the symbols of a right-hand side up to one begins the left-hand side.
LEMMA FirstSetClosed ==
  ASSUME NEW gr, NEW r \in RuleIndex(gr), NEW p \in DOMAIN gr.rules[r].rhs,
         \A o \in 1 .. p - 1 : gr.rules[r].rhs[o] \in Nullable(gr)
  PROVE  FirstSet(gr, gr.rules[r].rhs[p]) \subseteq FirstSet(gr, gr.rules[r].lhs)
<1>. SUFFICES ASSUME NEW t \in TerminalsAndEnd(gr), gr.rules[r].rhs[p] \in BeginningOf(gr, t)
              PROVE  gr.rules[r].lhs \in BeginningOf(gr, t)
  BY DEF FirstSet
<1>1. Begins(Nullable(gr), gr.rules[r].rhs, BeginningOf(gr, t))
  BY DEF Begins
<1>. QED  BY <1>1, BeginningClosed

LEMMA FirstSetOfTerminal ==
  ASSUME NEW gr, NEW s \in TerminalsAndEnd(gr)
  PROVE  s \in FirstSet(gr, s) /\ (DefinesNoTerminal(gr) => FirstSet(gr, s) = {s})
<1>1. s \in FirstSet(gr, s)
  BY BeginningIsLeast DEF FirstSet
<1>2. ASSUME DefinesNoTerminal(gr), NEW t \in FirstSet(gr, s) PROVE t = s
  <2>1. s \notin Nonterminals(gr)
    BY <1>2 DEF DefinesNoTerminal
  <2>2. s \in {t} \cup BeginningLeast(gr, t)
    BY BeginningIsLeast DEF FirstSet
  <2>. QED  BY <2>1, <2>2 DEF BeginningLeast
<1>. QED  BY <1>1, <1>2

-----------------------------------------------------------------------------
(* A search that has visited W and found A *)

Covered(gr, y, A, W) == y \in W \/ FirstSet(gr, y) \subseteq A

\* All that the rules of x begin with is covered.
Explored(gr, x, A, W) ==
  \A r \in RuleIndex(gr) : gr.rules[r].lhs = x =>
    \A p \in DOMAIN gr.rules[r].rhs :
      (\A o \in 1 .. p - 1 : gr.rules[r].rhs[o] \in Nullable(gr)) => Covered(gr, gr.rules[r].rhs[p], A, W)

\* It had visited V before.
Searched(gr, A, V, W) ==
  (W \ V) \cap TerminalsAndEnd(gr) = {} /\ \A x \in W \ V : Explored(gr, x, A, W)

LEMMA CoveredMore ==
  ASSUME NEW gr, NEW y, NEW A, NEW B, NEW W, NEW X, A \subseteq B, W \subseteq X, Covered(gr, y, A, W)
  PROVE  Covered(gr, y, B, X)
BY DEF Covered

LEMMA ExploredMore ==
  ASSUME NEW gr, NEW y, NEW A, NEW B, NEW W, NEW X, A \subseteq B, W \subseteq X, Explored(gr, y, A, W)
  PROVE  Explored(gr, y, B, X)
BY DEF Explored, Covered

LEMMA SearchedMore ==
  ASSUME NEW gr, NEW A, NEW B, NEW V, NEW W, NEW X, W \subseteq X,
         Searched(gr, A, V, W), Searched(gr, B, W, X)
  PROVE  Searched(gr, A \cup B, V, X)
<1>1. (X \ V) \cap TerminalsAndEnd(gr) = {}
  BY DEF Searched
<1>2. ASSUME NEW x \in X \ V PROVE Explored(gr, x, A \cup B, X)
  <2>1. CASE x \in W
    <3>1. Explored(gr, x, A, W) /\ A \subseteq A \cup B
      BY <2>1 DEF Searched
    <3>. QED  BY <3>1, ExploredMore
  <2>2. CASE x \notin W
    <3>1. Explored(gr, x, B, X) /\ B \subseteq A \cup B /\ X \subseteq X
      BY <2>2 DEF Searched
    <3>. QED  BY <3>1, ExploredMore
  <2>. QED  BY <2>1, <2>2
<1>. QED  BY <1>1, <1>2 DEF Searched

\* A search from nothing visited has found all of what it covers.
LEMMA SearchComplete ==
  ASSUME NEW gr, NEW A, NEW W, Searched(gr, A, {}, W), NEW y, Covered(gr, y, A, W)
  PROVE  FirstSet(gr, y) \subseteq A
<1>. SUFFICES ASSUME NEW t \in TerminalsAndEnd(gr), y \in BeginningOf(gr, t), t \notin A, y \in W
              PROVE  FALSE
  BY DEF Covered, FirstSet
<1>. DEFINE L == BeginningLeast(gr, t)
            S == L \ W
<1>0. W \cap TerminalsAndEnd(gr) = {} /\ \A x \in W : Explored(gr, x, A, W)
  BY DEF Searched
<1>1. BeginClosed(gr, t, S)
  <2>. SUFFICES ASSUME NEW r \in RuleIndex(gr), Begins(Nullable(gr), gr.rules[r].rhs, S \cup {t})
                PROVE  gr.rules[r].lhs \in S
    BY DEF BeginClosed
  <2>1. PICK p \in DOMAIN gr.rules[r].rhs :
          /\ gr.rules[r].rhs[p] \in S \cup {t}
          /\ \A o \in 1 .. p - 1 : gr.rules[r].rhs[o] \in Nullable(gr)
    BY DEF Begins
  <2>2. gr.rules[r].rhs[p] \in BeginningOf(gr, t)
    BY <2>1, BeginningIsLeast
  <2>3. t \in FirstSet(gr, gr.rules[r].rhs[p]) /\ t \in FirstSet(gr, gr.rules[r].lhs)
    <3>1. t \in FirstSet(gr, gr.rules[r].rhs[p])
      BY <2>2 DEF FirstSet
    <3>. QED  BY <2>1, <3>1, FirstSetClosed
  <2>4. gr.rules[r].rhs[p] \notin W
    BY <1>0, <2>1
  <2>5. gr.rules[r].lhs \notin W
    <3>. SUFFICES ASSUME gr.rules[r].lhs \in W PROVE FALSE
      OBVIOUS
    <3>1. Covered(gr, gr.rules[r].rhs[p], A, W)
      BY <1>0, <2>1 DEF Explored
    <3>. QED  BY <2>3, <2>4, <3>1 DEF Covered
  <2>6. gr.rules[r].lhs \in L
    <3>1. S \cup {t} \subseteq BeginningOf(gr, t)
      BY BeginningIsLeast
    <3>2. Begins(Nullable(gr), gr.rules[r].rhs, BeginningOf(gr, t))
      BY <3>1, BeginsMore
    <3>3. ASSUME NEW M \in SUBSET Nonterminals(gr), BeginClosed(gr, t, M) PROVE gr.rules[r].lhs \in M
      <4>1. L \subseteq M
        BY <3>3, BeginningInClosed
      <4>. HIDE DEF L
      <4>2. S \cup {t} \subseteq M \cup {t}
        BY <4>1
      <4>3. Begins(Nullable(gr), gr.rules[r].rhs, M \cup {t})
        BY <4>2, BeginsMore
      <4>. QED  BY <3>3, <4>3 DEF BeginClosed
    <3>4. gr.rules[r].lhs \in Nonterminals(gr)
      BY DEF Nonterminals
    <3>. QED  BY <3>3, <3>4 DEF BeginningLeast
  <2>. QED  BY <2>5, <2>6
<1>2. L \subseteq S
  <2>. HIDE DEF S
  <2>. QED  BY <1>1, BeginningInClosed
<1>3. y \in L
  <2>1. y # t
    BY <1>0
  <2>. QED  BY <2>1, BeginningIsLeast
<1>. QED  BY <1>2, <1>3

-----------------------------------------------------------------------------
(* first() finds nothing too much, and (all) all of what it covers *)

\* What a call for s that had visited V returns, if it may visit n left-hand sides.
FoundFirst(gr, all, low, s, V, n, x) ==
  /\ x.answer \subseteq FirstSet(gr, s) /\ V \subseteq x.visited /\ Grown(gr, all, low, x.empty)
  /\ all /\ Left(gr, V) < n => Searched(gr, x.answer, V, x.visited) /\ Covered(gr, s, x.answer, x.visited)

FindsFirst(gr, all, low, call, n) ==
  \A s \in UsedSymbols(gr), V \in SUBSET UsedSymbols(gr), empty \in EmptyTables(gr) :
    Grown(gr, all, low, empty) => FoundFirst(gr, all, low, s, V, n, call[s][V][empty])

\* What the symbols of a sequence up to the k-th begin with.
Starting(gr, seq, k) ==
  {t \in TerminalsAndEnd(gr) : \E j \in 1 .. k :
     t \in FirstSet(gr, seq[j]) /\ \A i \in 1 .. j - 1 : seq[i] \in Nullable(gr)}

\* What the loop over a sequence has after k symbols.
FoundStart(gr, all, low, seq, V, n, k, x) ==
  /\ x.answer \subseteq Starting(gr, seq, k) /\ V \subseteq x.visited /\ Grown(gr, all, low, x.empty)
  /\ x.through => \A j \in 1 .. k : seq[j] \in Nullable(gr)
  /\ all => ((\A j \in 1 .. k : seq[j] \in Nullable(gr)) => x.through)
  /\ all /\ Left(gr, V) < n =>
       /\ Searched(gr, x.answer, V, x.visited)
       /\ \A j \in 1 .. k : (\A i \in 1 .. j - 1 : seq[i] \in Nullable(gr)) =>
                              Covered(gr, seq[j], x.answer, x.visited)

LEMMA FirstNextFinds ==
  ASSUME NEW gr, WellFormed(gr), NEW all, NEW low, Allows(gr, all), NEW n \in Nat,
         NEW call \in FindFunction(gr), FindsFirst(gr, all, low, call, n),
         NEW seq \in Seq(UsedSymbols(gr)), NEW V \in SUBSET UsedSymbols(gr),
         NEW k \in 1 .. Len(seq), NEW before \in BeginResult(gr),
         FoundStart(gr, all, low, seq, V, n, k - 1, before)
  PROVE  FoundStart(gr, all, low, seq, V, n, k, FirstNext(gr, call, seq[k], before))
<1>. DEFINE after == FirstNext(gr, call, seq[k], before)
            one   == call[seq[k]][before.visited][before.empty]
            skip  == IsEmpty(gr, one.empty, seq[k])
<1>0. /\ seq[k] \in UsedSymbols(gr) /\ k \in 1 .. k /\ k \in Nat
      /\ \A j \in 1 .. k - 1 : j \in 1 .. k
      /\ \A j \in 1 .. k : j = k \/ j \in 1 .. k - 1
      /\ before.visited \in SUBSET UsedSymbols(gr) /\ before.empty \in EmptyTables(gr)
      /\ before.answer \subseteq Starting(gr, seq, k - 1) /\ V \subseteq before.visited
      /\ Grown(gr, all, low, before.empty)
  BY DEF BeginResult, FoundStart
<1>1. Starting(gr, seq, k - 1) \subseteq Starting(gr, seq, k)
  BY <1>0 DEF Starting
<1>2. ASSUME ~before.through PROVE FoundStart(gr, all, low, seq, V, n, k, after)
  <2>1. after = before
    BY <1>2 DEF FirstNext
  <2>2. all => ~(\A j \in 1 .. k - 1 : seq[j] \in Nullable(gr))
    BY <1>2 DEF FoundStart
  <2>3. all => ~(\A j \in 1 .. k : seq[j] \in Nullable(gr))
    BY <1>0, <2>2
  <2>4. ASSUME all, Left(gr, V) < n, NEW j \in 1 .. k, \A i \in 1 .. j - 1 : seq[i] \in Nullable(gr)
        PROVE  Covered(gr, seq[j], before.answer, before.visited)
    <3>1. j # k
      BY <2>2, <2>4
    <3>. QED  BY <1>0, <2>4, <3>1 DEF FoundStart
  <2>5. all /\ Left(gr, V) < n => Searched(gr, before.answer, V, before.visited)
    BY DEF FoundStart
  <2>. HIDE DEF after
  <2>. QED  BY <1>0, <1>1, <1>2, <2>1, <2>3, <2>4, <2>5 DEF FoundStart
<1>3. ASSUME before.through PROVE FoundStart(gr, all, low, seq, V, n, k, after)
  <2>1. /\ after.answer = before.answer \cup one.answer /\ after.visited = one.visited
        /\ after.empty = Store(one.empty, seq[k], skip) /\ after.through = skip
    BY <1>3 DEF FirstNext, FirstPast, FirstAdd
  <2>2. FoundFirst(gr, all, low, seq[k], before.visited, n, one)
    BY <1>0 DEF FindsFirst
  <2>3. /\ one.answer \subseteq FirstSet(gr, seq[k]) /\ before.visited \subseteq one.visited
        /\ Grown(gr, all, low, one.empty)
    BY <2>2 DEF FoundFirst
  <2>. HIDE DEF after, one
  <2>4. /\ Grown(gr, all, low, after.empty)
        /\ after.through => seq[k] \in Nullable(gr)
        /\ all => (after.through <=> seq[k] \in Nullable(gr))
    BY <1>0, <2>1, <2>3, StoreRight
  <2>5. \A j \in 1 .. k - 1 : seq[j] \in Nullable(gr)
    BY <1>3 DEF FoundStart
  <2>6. FirstSet(gr, seq[k]) \subseteq Starting(gr, seq, k)
    BY <1>0, <2>5 DEF Starting, FirstSet
  <2>7. ASSUME all, Left(gr, V) < n
        PROVE  /\ Searched(gr, after.answer, V, after.visited)
               /\ \A j \in 1 .. k : (\A i \in 1 .. j - 1 : seq[i] \in Nullable(gr)) =>
                                      Covered(gr, seq[j], after.answer, after.visited)
    <3>1. Left(gr, before.visited) < n
      <4>1. Left(gr, V) \in Nat /\ Left(gr, before.visited) \in Nat /\ Left(gr, before.visited) <= Left(gr, V)
        BY <1>0, LeftFacts
      <4>. QED  BY <2>7, <4>1
    <3>2. Searched(gr, one.answer, before.visited, one.visited) /\ Covered(gr, seq[k], one.answer, one.visited)
      BY <2>2, <2>7, <3>1 DEF FoundFirst
    <3>3. Searched(gr, before.answer, V, before.visited)
      BY <2>7 DEF FoundStart
    <3>4. Searched(gr, after.answer, V, after.visited)
      BY <2>1, <2>3, <3>2, <3>3, SearchedMore
    <3>5. Covered(gr, seq[k], after.answer, after.visited)
      BY <2>1, <3>2, CoveredMore
    <3>6. ASSUME NEW j \in 1 .. k - 1, \A i \in 1 .. j - 1 : seq[i] \in Nullable(gr)
          PROVE  Covered(gr, seq[j], after.answer, after.visited)
      <4>1. Covered(gr, seq[j], before.answer, before.visited)
        BY <2>7, <3>6 DEF FoundStart
      <4>. QED  BY <2>1, <2>3, <4>1, CoveredMore
    <3>. QED  BY <1>0, <3>4, <3>5, <3>6
  <2>8. after.answer \subseteq Starting(gr, seq, k) /\ V \subseteq after.visited
    BY <1>0, <1>1, <2>1, <2>3, <2>6
  <2>. QED  BY <1>0, <2>4, <2>5, <2>7, <2>8 DEF FoundStart
<1>. QED  BY <1>2, <1>3

LEMMA FirstSequenceFinds ==
  ASSUME NEW gr, WellFormed(gr), NEW all, NEW low, Allows(gr, all), NEW n \in Nat,
         NEW call \in FindFunction(gr), FindsFirst(gr, all, low, call, n),
         NEW seq \in Seq(UsedSymbols(gr)), NEW V \in SUBSET UsedSymbols(gr),
         NEW empty \in EmptyTables(gr), Grown(gr, all, low, empty)
  PROVE  FoundStart(gr, all, low, seq, V, n, Len(seq), FirstSequence(gr, call, seq, V, empty))
<1>1. PICK f : FirstSequenceRun(f, gr, call, seq, V, empty)
  BY FirstSequenceLoop
<1>. DEFINE N == Len(seq)
            T == {k \in 0 .. N : FoundStart(gr, all, low, seq, V, n, k, f[k])}
<1>0. N \in Nat
  OBVIOUS
<1>2. 0 \in T
  <2>1. f[0] = [answer |-> {}, visited |-> V, empty |-> empty, through |-> TRUE] /\ 0 \in 0 .. N
    BY <1>0, <1>1 DEF FirstSequenceRun
  <2>2. V \ V = {}
    OBVIOUS
  <2>3. Searched(gr, {}, V, V)
    BY <2>2 DEF Searched
  <2>4. FoundStart(gr, all, low, seq, V, n, 0, f[0])
    BY <2>1, <2>3 DEF FoundStart
  <2>. QED  BY <2>1, <2>4
<1>3. ASSUME NEW k \in 1 .. N, k - 1 \in T PROVE k \in T
  <2>1. k - 1 \in 0 .. N /\ k \in 0 .. N
    BY <1>0
  <2>2. f[k - 1] \in BeginResult(gr) /\ f[k] = FirstNext(gr, call, seq[k], f[k - 1])
    BY <1>1, <2>1 DEF FirstSequenceRun
  <2>3. FoundStart(gr, all, low, seq, V, n, k - 1, f[k - 1])
    BY <1>3
  <2>4. FoundStart(gr, all, low, seq, V, n, k, f[k])
    BY <2>2, <2>3, FirstNextFinds
  <2>. QED  BY <2>1, <2>4
<1>. HIDE DEF T, N
<1>4. \A k \in 0 .. N : k \in T
  BY ONLY <1>0, <1>2, <1>3, UpTo
<1>5. N \in T
  BY <1>0, <1>4
<1>. QED  BY <1>1, <1>5 DEF T, N, FirstSequenceRun

\* What the loop over the rules of s has after k of them; V is with s.
FoundByRules(gr, all, low, s, V, n, k, x) ==
  /\ x.answer \subseteq FirstSet(gr, s) /\ V \subseteq x.visited /\ Grown(gr, all, low, x.empty)
  /\ all /\ (s \in Nonterminals(gr) => Left(gr, V) < n) =>
       /\ Searched(gr, x.answer, V, x.visited)
       /\ \A r \in 1 .. k : gr.rules[r].lhs = s =>
            \A p \in DOMAIN gr.rules[r].rhs :
              (\A o \in 1 .. p - 1 : gr.rules[r].rhs[o] \in Nullable(gr)) =>
                Covered(gr, gr.rules[r].rhs[p], x.answer, x.visited)

LEMMA FirstRuleFinds ==
  ASSUME NEW gr, WellFormed(gr), NEW all, NEW low, Allows(gr, all), NEW n \in Nat,
         NEW call \in FindFunction(gr), FindsFirst(gr, all, low, call, n),
         NEW s, NEW V \in SUBSET UsedSymbols(gr),
         NEW k \in RuleIndex(gr), NEW before \in FindResult(gr),
         FoundByRules(gr, all, low, s, V, n, k - 1, before)
  PROVE  FoundByRules(gr, all, low, s, V, n, k, FirstRule(gr, call, s, gr.rules[k], before))
<1>. DEFINE after == FirstRule(gr, call, s, gr.rules[k], before)
            rhs   == gr.rules[k].rhs
            one   == FirstSequence(gr, call, rhs, before.visited, before.empty)
<1>0. /\ k \in Nat /\ k # 0 /\ rhs \in Seq(UsedSymbols(gr)) /\ DOMAIN rhs = 1 .. Len(rhs)
      /\ \A r \in 1 .. k : r = k \/ r \in 1 .. k - 1
      /\ before.visited \in SUBSET UsedSymbols(gr) /\ before.empty \in EmptyTables(gr)
      /\ before.answer \subseteq FirstSet(gr, s) /\ V \subseteq before.visited
      /\ Grown(gr, all, low, before.empty)
  <2>1. k \in Nat /\ k # 0
    BY RulesAreFinite
  <2>2. rhs \in Seq(UsedSymbols(gr))
    BY RuleSymbols
  <2>. HIDE DEF rhs
  <2>. QED  BY <2>1, <2>2 DEF FindResult, FoundByRules
<1>1. ASSUME gr.rules[k].lhs # s PROVE FoundByRules(gr, all, low, s, V, n, k, after)
  <2>1. after = before
    BY <1>1 DEF FirstRule, FirstJoin
  <2>. HIDE DEF after
  <2>. QED  BY <1>0, <1>1, <2>1 DEF FoundByRules
<1>2. ASSUME gr.rules[k].lhs = s PROVE FoundByRules(gr, all, low, s, V, n, k, after)
  <2>1. /\ after.answer = before.answer \cup one.answer /\ after.visited = one.visited
        /\ after.empty = one.empty
    BY <1>2 DEF FirstRule, FirstJoin
  <2>. HIDE DEF rhs
  <2>2. FoundStart(gr, all, low, rhs, before.visited, n, Len(rhs), one)
    BY <1>0, FirstSequenceFinds
  <2>. HIDE DEF after, one
  <2>3. /\ one.answer \subseteq Starting(gr, rhs, Len(rhs)) /\ before.visited \subseteq one.visited
        /\ Grown(gr, all, low, one.empty)
    BY <2>2 DEF FoundStart
  <2>4. Starting(gr, rhs, Len(rhs)) \subseteq FirstSet(gr, s)
    <3>. SUFFICES ASSUME NEW t, NEW j \in 1 .. Len(rhs), t \in FirstSet(gr, rhs[j]),
                         \A i \in 1 .. j - 1 : rhs[i] \in Nullable(gr)
                  PROVE  t \in FirstSet(gr, s)
      BY DEF Starting
    <3>1. j \in DOMAIN gr.rules[k].rhs /\ t \in FirstSet(gr, gr.rules[k].rhs[j])
          /\ \A i \in 1 .. j - 1 : gr.rules[k].rhs[i] \in Nullable(gr)
      BY <1>0 DEF rhs
    <3>2. FirstSet(gr, gr.rules[k].rhs[j]) \subseteq FirstSet(gr, gr.rules[k].lhs)
      BY <3>1, FirstSetClosed
    <3>. QED  BY <1>2, <3>1, <3>2
  <2>5. ASSUME all, s \in Nonterminals(gr) => Left(gr, V) < n
        PROVE  /\ Searched(gr, after.answer, V, after.visited)
               /\ \A r \in 1 .. k : gr.rules[r].lhs = s =>
                    \A p \in DOMAIN gr.rules[r].rhs :
                      (\A o \in 1 .. p - 1 : gr.rules[r].rhs[o] \in Nullable(gr)) =>
                        Covered(gr, gr.rules[r].rhs[p], after.answer, after.visited)
    <3>1. Left(gr, before.visited) < n
      <4>1. s \in Nonterminals(gr)
        BY <1>2 DEF Nonterminals
      <4>2. Left(gr, V) \in Nat /\ Left(gr, before.visited) \in Nat /\ Left(gr, before.visited) <= Left(gr, V)
        BY <1>0, LeftFacts
      <4>. QED  BY <2>5, <4>1, <4>2
    <3>2. /\ Searched(gr, one.answer, before.visited, one.visited)
          /\ \A j \in 1 .. Len(rhs) : (\A i \in 1 .. j - 1 : rhs[i] \in Nullable(gr)) =>
                                         Covered(gr, rhs[j], one.answer, one.visited)
      BY <2>2, <2>5, <3>1 DEF FoundStart
    <3>3. Searched(gr, before.answer, V, before.visited)
      BY <2>5 DEF FoundByRules
    <3>4. Searched(gr, after.answer, V, after.visited)
      BY <2>1, <2>3, <3>2, <3>3, SearchedMore
    <3>5. ASSUME NEW r \in 1 .. k, gr.rules[r].lhs = s, NEW p \in DOMAIN gr.rules[r].rhs,
                 \A o \in 1 .. p - 1 : gr.rules[r].rhs[o] \in Nullable(gr)
          PROVE  Covered(gr, gr.rules[r].rhs[p], after.answer, after.visited)
      <4>1. CASE r = k
        <5>1. Covered(gr, rhs[p], one.answer, one.visited)
          BY <1>0, <3>2, <3>5, <4>1 DEF rhs
        <5>. QED  BY <2>1, <4>1, <5>1, CoveredMore DEF rhs
      <4>2. CASE r \in 1 .. k - 1
        <5>1. Covered(gr, gr.rules[r].rhs[p], before.answer, before.visited)
          BY <2>5, <3>5, <4>2 DEF FoundByRules
        <5>. QED  BY <2>1, <2>3, <5>1, CoveredMore
      <4>. QED  BY <1>0, <4>1, <4>2
    <3>. QED  BY <3>4, <3>5
  <2>6. after.answer \subseteq FirstSet(gr, s) /\ V \subseteq after.visited /\ Grown(gr, all, low, after.empty)
    BY <1>0, <2>1, <2>3, <2>4
  <2>. QED  BY <2>5, <2>6 DEF FoundByRules
<1>. QED  BY <1>1, <1>2

LEMMA FirstRulesFinds ==
  ASSUME NEW gr, WellFormed(gr), NEW all, NEW low, Allows(gr, all), NEW n \in Nat,
         NEW call \in FindFunction(gr), FindsFirst(gr, all, low, call, n),
         NEW s, NEW V \in SUBSET UsedSymbols(gr),
         NEW empty \in EmptyTables(gr), Grown(gr, all, low, empty)
  PROVE  FoundByRules(gr, all, low, s, V, n, Len(gr.rules), FirstRules(gr, call, s, V, empty))
<1>1. PICK f : FirstRulesRun(f, gr, call, s, V, empty)
  BY FirstRulesLoop
<1>. DEFINE N == Len(gr.rules)
            T == {k \in 0 .. N : FoundByRules(gr, all, low, s, V, n, k, f[k])}
<1>0. N \in Nat
  BY RulesAreFinite
<1>2. 0 \in T
  <2>1. f[0] = [answer |-> {}, visited |-> V, empty |-> empty] /\ 0 \in 0 .. N
    BY <1>0, <1>1 DEF FirstRulesRun
  <2>2. V \ V = {}
    OBVIOUS
  <2>3. Searched(gr, {}, V, V)
    BY <2>2 DEF Searched
  <2>4. FoundByRules(gr, all, low, s, V, n, 0, f[0])
    BY <2>1, <2>3 DEF FoundByRules
  <2>. QED  BY <2>1, <2>4
<1>3. ASSUME NEW k \in 1 .. N, k - 1 \in T PROVE k \in T
  <2>1. k - 1 \in 0 .. N /\ k \in 0 .. N /\ k \in RuleIndex(gr)
    BY <1>0, RulesAreFinite
  <2>2. f[k - 1] \in FindResult(gr) /\ f[k] = FirstRule(gr, call, s, gr.rules[k], f[k - 1])
    BY <1>1, <2>1 DEF FirstRulesRun
  <2>3. FoundByRules(gr, all, low, s, V, n, k - 1, f[k - 1])
    BY <1>3
  <2>4. FoundByRules(gr, all, low, s, V, n, k, f[k])
    BY <2>1, <2>2, <2>3, FirstRuleFinds
  <2>. QED  BY <2>1, <2>4
<1>. HIDE DEF T, N
<1>4. \A k \in 0 .. N : k \in T
  BY ONLY <1>0, <1>2, <1>3, UpTo
<1>5. N \in T
  BY <1>0, <1>4
<1>. QED  BY <1>1, <1>5 DEF T, N, FirstRulesRun

\* The answers of first() that are stored are right, or (all) complete too.
RightFirst(gr, all, table) ==
  /\ IsTable(gr, table)
  /\ \A s \in DOMAIN table : /\ table[s] \subseteq FirstSet(gr, s)
                             /\ all => table[s] = FirstSet(gr, s)

LEMMA FirstSymbolFinds ==
  ASSUME NEW gr, WellFormed(gr), NEW all, NEW low, Allows(gr, all), NEW n \in Nat,
         NEW table, RightFirst(gr, all, table),
         NEW call \in FindFunction(gr), FindsFirst(gr, all, low, call, n),
         NEW s \in UsedSymbols(gr), NEW V \in SUBSET UsedSymbols(gr),
         NEW empty \in EmptyTables(gr), Grown(gr, all, low, empty)
  PROVE  FoundFirst(gr, all, low, s, V, n + 1, FirstSymbol(gr, table, call, s, V, empty))
<1>. DEFINE x == FirstSymbol(gr, table, call, s, V, empty)
<1>1. Searched(gr, x.answer, V, V)
  <2>1. V \ V = {}
    OBVIOUS
  <2>. QED  BY <2>1 DEF Searched
<1>2. ASSUME s \in DOMAIN table PROVE FoundFirst(gr, all, low, s, V, n + 1, x)
  <2>1. x.answer = table[s] /\ x.visited = V /\ x.empty = empty
    BY <1>2 DEF FirstSymbol
  <2>2. table[s] \subseteq FirstSet(gr, s) /\ (all => table[s] = FirstSet(gr, s))
    BY <1>2 DEF RightFirst
  <2>. HIDE DEF x
  <2>. QED  BY <1>1, <2>1, <2>2 DEF FoundFirst, Covered
<1>3. ASSUME s \notin DOMAIN table, ~IsNonterminal(gr, s) PROVE FoundFirst(gr, all, low, s, V, n + 1, x)
  <2>1. x.answer = {s} /\ x.visited = V /\ x.empty = empty
    BY <1>3 DEF FirstSymbol
  <2>2. s \in FirstSet(gr, s) /\ (DefinesNoTerminal(gr) => FirstSet(gr, s) = {s})
    BY <1>3, FirstSetOfTerminal DEF IsNonterminal, TerminalsAndEnd
  <2>3. all => DefinesNoTerminal(gr)
    BY DEF Allows
  <2>. HIDE DEF x
  <2>. QED  BY <1>1, <2>1, <2>2, <2>3 DEF FoundFirst, Covered
<1>4. ASSUME s \notin DOMAIN table, IsNonterminal(gr, s), s \in V PROVE FoundFirst(gr, all, low, s, V, n + 1, x)
  <2>1. x.answer = {} /\ x.visited = V /\ x.empty = empty
    BY <1>4 DEF FirstSymbol
  <2>. HIDE DEF x
  <2>. QED  BY <1>1, <1>4, <2>1 DEF FoundFirst, Covered
<1>5. ASSUME s \notin DOMAIN table, IsNonterminal(gr, s), s \notin V PROVE FoundFirst(gr, all, low, s, V, n + 1, x)
  <2>. DEFINE V1 == V \cup {s}
  <2>1. x = FirstRules(gr, call, s, V1, empty)
    BY <1>5 DEF FirstSymbol
  <2>2. V1 \in SUBSET UsedSymbols(gr) /\ V \subseteq V1 /\ s \in V1
    OBVIOUS
  <2>. HIDE DEF V1, x
  <2>3. FoundByRules(gr, all, low, s, V1, n, Len(gr.rules), x)
    BY <2>1, <2>2, FirstRulesFinds
  <2>4. x.answer \subseteq FirstSet(gr, s) /\ V1 \subseteq x.visited /\ Grown(gr, all, low, x.empty)
    BY <2>3 DEF FoundByRules
  <2>5. ASSUME all, Left(gr, V) < n + 1
        PROVE  Searched(gr, x.answer, V, x.visited) /\ Covered(gr, s, x.answer, x.visited)
    <3>1. s \in Nonterminals(gr) => Left(gr, V1) < n
      <4>1. Left(gr, V) \in Nat /\ Left(gr, V1) \in Nat
            /\ (s \in Nonterminals(gr) => Left(gr, V1) < Left(gr, V))
        BY <1>5, <2>2, LeftFacts
      <4>. QED  BY <2>5, <4>1
    <3>2. Searched(gr, x.answer, V1, x.visited) /\ Explored(gr, s, x.answer, x.visited)
      BY <2>3, <2>5, <3>1 DEF FoundByRules, Explored, RuleIndex
    <3>3. s \notin TerminalsAndEnd(gr)
      BY <1>5 DEF IsNonterminal, TerminalsAndEnd
    <3>4. x.visited \ V \subseteq (x.visited \ V1) \cup {s}
      BY DEF V1
    <3>5. Searched(gr, x.answer, V, x.visited)
      BY <3>2, <3>3, <3>4 DEF Searched
    <3>. QED  BY <2>2, <2>4, <3>5 DEF Covered
  <2>. QED  BY <2>2, <2>4, <2>5 DEF FoundFirst
<1>. QED  BY <1>2, <1>3, <1>4, <1>5

LEMMA FirstCallsFinds ==
  ASSUME NEW gr, WellFormed(gr), NEW all, NEW low, Allows(gr, all), NEW table, RightFirst(gr, all, table)
  PROVE  FirstCalls(gr, table) \in FindFunction(gr) /\ FindsFirst(gr, all, low, FirstCalls(gr, table), Depth(gr))
<1>0. IsTable(gr, table)
  BY DEF RightFirst
<1>1. PICK f : FirstCallsRun(f, gr, table)
  BY <1>0, FirstCallsLoop
<1>. DEFINE N == Depth(gr)
            T == {k \in 0 .. N : FindsFirst(gr, all, low, f[k], k)}
<1>2. N \in Nat
  BY RulesAreFinite
<1>3. 0 \in T
  <2>1. f[0] = NoCall(gr)
    BY <1>1 DEF FirstCallsRun
  <2>2. \A s \in UsedSymbols(gr), V \in SUBSET UsedSymbols(gr), empty \in EmptyTables(gr) :
          f[0][s][V][empty] = [answer |-> {}, visited |-> V, empty |-> empty]
    BY <2>1 DEF NoCall
  <2>3. \A V : ~(Left(gr, V) < 0)
    <3>1. \A V : Left(gr, V) \in Nat
      BY LeftFacts
    <3>. QED  BY <3>1
  <2>4. FindsFirst(gr, all, low, f[0], 0)
    <3>. SUFFICES ASSUME NEW s \in UsedSymbols(gr), NEW V \in SUBSET UsedSymbols(gr),
                         NEW empty \in EmptyTables(gr), Grown(gr, all, low, empty)
                  PROVE  FoundFirst(gr, all, low, s, V, 0, f[0][s][V][empty])
      BY DEF FindsFirst
    <3>1. FoundFirst(gr, all, low, s, V, 0, [answer |-> {}, visited |-> V, empty |-> empty])
      BY <2>3 DEF FoundFirst
    <3>. QED  BY <2>2, <3>1
  <2>. QED  BY <1>2, <2>4
<1>4. ASSUME NEW k \in 1 .. N, k - 1 \in T PROVE k \in T
  <2>1. k - 1 \in 0 .. N /\ k \in 0 .. N /\ k - 1 \in Nat /\ (k - 1) + 1 = k
    BY <1>2
  <2>2. f[k] = FirstCall(gr, table, f[k - 1]) /\ f[k - 1] \in FindFunction(gr)
    BY <1>1, <2>1 DEF FirstCallsRun
  <2>3. \A s \in UsedSymbols(gr), V \in SUBSET UsedSymbols(gr), empty \in EmptyTables(gr) :
          f[k][s][V][empty] = FirstSymbol(gr, table, f[k - 1], s, V, empty)
    BY <2>2 DEF FirstCall
  <2>4. FindsFirst(gr, all, low, f[k - 1], k - 1)
    BY <1>4
  <2>5. ASSUME NEW s \in UsedSymbols(gr), NEW V \in SUBSET UsedSymbols(gr), NEW empty \in EmptyTables(gr),
               Grown(gr, all, low, empty)
        PROVE  FoundFirst(gr, all, low, s, V, k, f[k][s][V][empty])
    <3>1. FoundFirst(gr, all, low, s, V, (k - 1) + 1, FirstSymbol(gr, table, f[k - 1], s, V, empty))
      BY <2>1, <2>2, <2>4, <2>5, FirstSymbolFinds
    <3>. QED  BY <2>1, <2>3, <3>1
  <2>6. FindsFirst(gr, all, low, f[k], k)
    BY <2>5 DEF FindsFirst
  <2>. QED  BY <2>1, <2>6
<1>. HIDE DEF T, N
<1>5. \A k \in 0 .. N : k \in T
  BY ONLY <1>2, <1>3, <1>4, UpTo
<1>6. N \in T /\ N \in 0 .. N
  BY <1>2, <1>5
<1>. QED  BY <1>1, <1>6 DEF T, N, FirstCallsRun

LEMMA NothingVisited ==
  ASSUME NEW gr, WellFormed(gr) PROVE Left(gr, {}) < Depth(gr)
<1>1. Nonterminals(gr) \ {} = Nonterminals(gr)
  OBVIOUS
<1>2. Left(gr, {}) = Cardinality(Nonterminals(gr))
  BY <1>1 DEF Left
<1>. QED  BY <1>2, RulesAreFinite

\* first() of a symbol.
LEMMA FirstIsRight ==
  ASSUME NEW gr, WellFormed(gr), NEW all, NEW low, Allows(gr, all), NEW table, RightFirst(gr, all, table),
         NEW empty, Grown(gr, all, low, empty), NEW s \in UsedSymbols(gr)
  PROVE  LET x == FirstCalls(gr, table)[s][{}][empty]
         IN  /\ x \in FindResult(gr) /\ Grown(gr, all, low, x.empty)
             /\ x.answer \subseteq FirstSet(gr, s)
             /\ all => x.answer = FirstSet(gr, s)
<1>. DEFINE call == FirstCalls(gr, table)
            x == call[s][{}][empty]
<1>0. empty \in EmptyTables(gr) /\ {} \in SUBSET UsedSymbols(gr)
  BY DEF Grown, RightTable
<1>1. call \in FindFunction(gr) /\ FindsFirst(gr, all, low, call, Depth(gr))
  BY FirstCallsFinds
<1>. HIDE DEF call
<1>2. x \in FindResult(gr)
  BY <1>0, <1>1 DEF FindFunction
<1>3. FoundFirst(gr, all, low, s, {}, Depth(gr), x)
  BY <1>0, <1>1 DEF FindsFirst
<1>4. Left(gr, {}) < Depth(gr)
  BY NothingVisited
<1>. HIDE DEF x
<1>5. x.answer \subseteq FirstSet(gr, s) /\ Grown(gr, all, low, x.empty)
  BY <1>3 DEF FoundFirst
<1>6. ASSUME all PROVE FirstSet(gr, s) \subseteq x.answer
  <2>1. Searched(gr, x.answer, {}, x.visited) /\ Covered(gr, s, x.answer, x.visited)
    BY <1>3, <1>4, <1>6 DEF FoundFirst
  <2>. QED  BY <2>1, SearchComplete
<1>. QED  BY <1>2, <1>5, <1>6 DEF x, call

\* first() of a sequence.
LEMMA FirstOfStoredIsRight ==
  ASSUME NEW gr, WellFormed(gr), NEW all, NEW low, Allows(gr, all), NEW table, RightFirst(gr, all, table),
         NEW empty, Grown(gr, all, low, empty), NEW seq \in Seq(UsedSymbols(gr))
  PROVE  LET x == FirstOfStored(gr, table, empty, seq)
         IN  /\ x \in BeginResult(gr) /\ Grown(gr, all, low, x.empty)
             /\ x.answer \subseteq Starting(gr, seq, Len(seq))
             /\ all => x.answer = Starting(gr, seq, Len(seq))
<1>. DEFINE call == FirstCalls(gr, table)
            x == FirstSequence(gr, call, seq, {}, empty)
<1>0. empty \in EmptyTables(gr) /\ {} \in SUBSET UsedSymbols(gr) /\ Depth(gr) \in Nat
  BY RulesAreFinite DEF Grown, RightTable
<1>1. call \in FindFunction(gr) /\ FindsFirst(gr, all, low, call, Depth(gr))
  BY FirstCallsFinds
<1>. HIDE DEF call
<1>2. x \in BeginResult(gr)
  BY <1>0, <1>1, FirstSequenceType
<1>3. FoundStart(gr, all, low, seq, {}, Depth(gr), Len(seq), x)
  BY <1>0, <1>1, FirstSequenceFinds
<1>4. Left(gr, {}) < Depth(gr)
  BY NothingVisited
<1>5. FirstOfStored(gr, table, empty, seq) = x
  BY DEF FirstOfStored, call
<1>. HIDE DEF x
<1>6. x.answer \subseteq Starting(gr, seq, Len(seq)) /\ Grown(gr, all, low, x.empty)
  BY <1>3 DEF FoundStart
<1>7. ASSUME all, NEW t \in Starting(gr, seq, Len(seq)) PROVE t \in x.answer
  <2>1. PICK j \in 1 .. Len(seq) : t \in FirstSet(gr, seq[j]) /\ \A i \in 1 .. j - 1 : seq[i] \in Nullable(gr)
    BY <1>7 DEF Starting
  <2>2. Searched(gr, x.answer, {}, x.visited) /\ Covered(gr, seq[j], x.answer, x.visited)
    BY <1>3, <1>4, <1>7, <2>1 DEF FoundStart
  <2>. QED  BY <2>1, <2>2, SearchComplete
<1>. QED  BY <1>2, <1>5, <1>6, <1>7

\* What the terminals that begin a sequence are, for TextbookSets.
LEMMA StartingIsFirstOf ==
  ASSUME NEW gr, NEW seq \in Seq(UsedSymbols(gr))
  PROVE  Starting(gr, seq, Len(seq)) = FirstOf(TextbookSets(gr), seq)
<1>. DEFINE sets == TextbookSets(gr)
<1>1. sets.nullable = Nullable(gr) /\ sets.first = [s \in UsedSymbols(gr) |-> FirstSet(gr, s)]
  BY DEF TextbookSets, FirstSet, BeginningOf
<1>. HIDE DEF sets
<1>2. DOMAIN seq = 1 .. Len(seq) /\ \A p \in 1 .. Len(seq) : sets.first[seq[p]] = FirstSet(gr, seq[p])
  BY <1>1
<1>3. \A s : FirstSet(gr, s) \subseteq TerminalsAndEnd(gr)
  BY DEF FirstSet
<1>. QED  BY <1>1, <1>2, <1>3 DEF Starting, FirstOf, sets

-----------------------------------------------------------------------------
(* The loops of follow() *)

UsesSymbols(gr, rule) == rule.lhs \in UsedSymbols(gr) /\ rule.rhs \in Seq(UsedSymbols(gr))

LEMMA SuffixSymbols ==
  ASSUME NEW D, NEW seq \in Seq(D), NEW p \in DOMAIN seq
  PROVE  /\ Suffix(seq, p) \in Seq(D) /\ Len(Suffix(seq, p)) = Len(seq) - p
         /\ DOMAIN Suffix(seq, p) = 1 .. Len(seq) - p
         /\ \A j \in 1 .. Len(seq) - p : Suffix(seq, p)[j] = seq[p + j]
BY DEF Suffix

LEMMA FirstOfStoredType ==
  ASSUME NEW gr, WellFormed(gr), NEW first, IsTable(gr, first), NEW empty \in EmptyTables(gr),
         NEW seq \in Seq(UsedSymbols(gr))
  PROVE  FirstOfStored(gr, first, empty, seq) \in BeginResult(gr)
<1>1. PICK f : FirstCallsRun(f, gr, first)
  BY FirstCallsLoop
<1>2. Depth(gr) \in 0 .. Depth(gr)
  BY RulesAreFinite
<1>3. FirstCalls(gr, first) \in FindFunction(gr)
  BY <1>1, <1>2 DEF FirstCallsRun
<1>. QED  BY <1>3, FirstSequenceType DEF FirstOfStored

LEMMA FollowOccurrenceType ==
  ASSUME NEW gr, WellFormed(gr), NEW first, IsTable(gr, first), NEW call \in FindFunction(gr),
         NEW rule, UsesSymbols(gr, rule), NEW p \in DOMAIN rule.rhs, NEW before \in FindResult(gr)
  PROVE  FollowOccurrence(gr, first, call, rule, p, before) \in FindResult(gr)
<1>. DEFINE tail  == Suffix(rule.rhs, p)
            begin == FirstOfStored(gr, first, before.empty, tail)
            after == IF IsLast(gr, begin.empty, tail) THEN call[rule.lhs][before.visited][begin.empty]
                     ELSE [answer |-> {}, visited |-> before.visited, empty |-> begin.empty]
<1>1. before.visited \in SUBSET UsedSymbols(gr) /\ before.empty \in EmptyTables(gr)
      /\ before.answer \in SUBSET UsedSymbols(gr)
  BY DEF FindResult
<1>2. begin \in BeginResult(gr)
  <2>1. tail \in Seq(UsedSymbols(gr))
    BY SuffixSymbols DEF UsesSymbols
  <2>. QED  BY <1>1, <2>1, FirstOfStoredType
<1>. HIDE DEF begin, tail
<1>3. begin.answer \in SUBSET UsedSymbols(gr) /\ begin.empty \in EmptyTables(gr)
  BY <1>2 DEF BeginResult
<1>4. after \in FindResult(gr)
  <2>1. call[rule.lhs][before.visited][begin.empty] \in FindResult(gr)
    BY <1>1, <1>3 DEF FindFunction, UsesSymbols
  <2>2. [answer |-> {}, visited |-> before.visited, empty |-> begin.empty] \in FindResult(gr)
    BY <1>1, <1>3 DEF FindResult
  <2>. QED  BY <2>1, <2>2
<1>. HIDE DEF after
<1>5. [after EXCEPT !.answer = @ \cup before.answer \cup begin.answer] \in FindResult(gr)
  BY <1>1, <1>3, <1>4 DEF FindResult
<1>. QED  BY <1>5 DEF FollowOccurrence, FollowPast, after, begin, tail

LEMMA FollowAtType ==
  ASSUME NEW gr, WellFormed(gr), NEW first, IsTable(gr, first), NEW call \in FindFunction(gr), NEW s,
         NEW rule, UsesSymbols(gr, rule), NEW p \in DOMAIN rule.rhs, NEW before \in FindResult(gr)
  PROVE  FollowAt(gr, first, call, s, rule, p, before) \in FindResult(gr)
BY FollowOccurrenceType DEF FollowAt

FollowInRuleRun(f, gr, first, call, s, rule, start) ==
  /\ f \in [0 .. Len(rule.rhs) -> FindResult(gr)]
  /\ f[0] = start
  /\ \A k \in 1 .. Len(rule.rhs) : f[k] = FollowAt(gr, first, call, s, rule, k, f[k - 1])
  /\ FollowInRule(gr, first, call, s, rule, start) = f[Len(rule.rhs)]

LEMMA FollowInRuleLoop ==
  ASSUME NEW gr, WellFormed(gr), NEW first, IsTable(gr, first), NEW call \in FindFunction(gr), NEW s,
         NEW rule, UsesSymbols(gr, rule), NEW start \in FindResult(gr)
  PROVE  \E f : FollowInRuleRun(f, gr, first, call, s, rule, start)
<1>. DEFINE N == Len(rule.rhs)
            R == FindResult(gr)
            base == start
            Go == [k \in 1 .. N |-> [x \in R |-> FollowAt(gr, first, call, s, rule, k, x)]]
            Is(f) == f = [k \in 0 .. N |-> IF k = 0 THEN base ELSE FollowAt(gr, first, call, s, rule, k, f[k - 1])]
            X == CHOOSE f : Is(f)
<1>0. N \in Nat /\ base \in R
  BY DEF UsesSymbols
<1>1. \A k \in 1 .. N, x \in R : FollowAt(gr, first, call, s, rule, k, x) \in R
  <2>1. 1 .. N = DOMAIN rule.rhs
    BY DEF UsesSymbols
  <2>. QED  BY <2>1, FollowAtType
<1>2. Go \in [1 .. N -> [R -> R]]
  BY <1>1
<1>3. PICK h : LoopOf(h, N, R, base, Go)
  <2>1. CanLoop(N, R, base, Go)
    BY <1>0, <1>2 DEF CanLoop
  <2>. HIDE DEF N, R, base, Go
  <2>. QED  BY ONLY <2>1, LoopExists
<1>4. Is(h)
  <2>1. ASSUME NEW k \in 1 .. N PROVE Go[k][h[k - 1]] = FollowAt(gr, first, call, s, rule, k, h[k - 1])
    <3>1. k - 1 \in 0 .. N
      BY <1>0
    <3>2. h[k - 1] \in R
      BY <1>3, <3>1 DEF LoopOf
    <3>. HIDE DEF R, N
    <3>. QED  BY <3>2
  <2>2. \A k \in 0 .. N : k # 0 => k \in 1 .. N
    BY <1>0
  <2>3. h = [k \in 0 .. N |-> h[k]]
    <3>. HIDE DEF N, R
    <3>. QED  BY <1>3 DEF LoopOf
  <2>. HIDE DEF N, R, Go, base
  <2>. QED  BY ONLY <1>3, <2>1, <2>2, <2>3 DEF LoopOf
<1>5. Is(X)
  <2>. HIDE DEF Is
  <2>. QED  BY <1>4
<1>6. /\ X[0] = base /\ \A k \in 1 .. N : X[k] = FollowAt(gr, first, call, s, rule, k, X[k - 1])
      /\ X = [k \in 0 .. N |-> X[k]]
  <2>1. 0 \in 0 .. N /\ \A k \in 1 .. N : k \in 0 .. N /\ k # 0
    BY <1>0
  <2>. HIDE DEF N, X, base
  <2>. QED  BY ONLY <1>5, <2>1
<1>7. \A k \in 0 .. N : X[k] \in R
  <2>. DEFINE T == {k \in 0 .. N : X[k] \in R}
  <2>. HIDE DEF X
  <2>1. 0 \in T
    <3>. HIDE DEF N, R, base
    <3>1. 0 \in 0 .. N
      BY <1>0
    <3>. QED  BY <1>0, <1>6, <3>1
  <2>2. ASSUME NEW k \in 1 .. N, k - 1 \in T PROVE k \in T
    <3>1. X[k - 1] \in R /\ k \in 0 .. N
      BY <2>2, <1>0
    <3>2. X[k] = FollowAt(gr, first, call, s, rule, k, X[k - 1])
      BY <1>6
    <3>. HIDE DEF N, R
    <3>. QED  BY <1>1, <3>1, <3>2
  <2>. HIDE DEF T, N
  <2>3. \A k \in 0 .. N : k \in T
    BY ONLY <1>0, <2>1, <2>2, UpTo
  <2>. QED  BY <2>3 DEF T
<1>8. FollowInRule(gr, first, call, s, rule, start) = X[N]
  BY DEF FollowInRule
<1>9. X \in [0 .. N -> R]
  <2>. HIDE DEF X, R, N
  <2>. QED  BY <1>6, <1>7
<1>. HIDE DEF X
<1>. QED  BY <1>6, <1>8, <1>9 DEF FollowInRuleRun

LEMMA FollowInRuleType ==
  ASSUME NEW gr, WellFormed(gr), NEW first, IsTable(gr, first), NEW call \in FindFunction(gr), NEW s,
         NEW rule, UsesSymbols(gr, rule), NEW start \in FindResult(gr)
  PROVE  FollowInRule(gr, first, call, s, rule, start) \in FindResult(gr)
<1>1. PICK f : FollowInRuleRun(f, gr, first, call, s, rule, start)
  BY FollowInRuleLoop
<1>2. Len(rule.rhs) \in 0 .. Len(rule.rhs)
  BY DEF UsesSymbols
<1>. QED  BY <1>1, <1>2 DEF FollowInRuleRun

FollowRulesRun(f, gr, first, call, s, visited, empty) ==
  /\ f \in [0 .. Len(gr.rules) -> FindResult(gr)]
  /\ f[0] = [answer |-> {}, visited |-> visited, empty |-> empty]
  /\ \A k \in 1 .. Len(gr.rules) : f[k] = FollowInRule(gr, first, call, s, gr.rules[k], f[k - 1])
  /\ FollowRules(gr, first, call, s, visited, empty) = f[Len(gr.rules)]

LEMMA FollowRulesLoop ==
  ASSUME NEW gr, WellFormed(gr), NEW first, IsTable(gr, first), NEW call \in FindFunction(gr), NEW s,
         NEW visited \in SUBSET UsedSymbols(gr), NEW empty \in EmptyTables(gr)
  PROVE  \E f : FollowRulesRun(f, gr, first, call, s, visited, empty)
<1>. DEFINE N == Len(gr.rules)
            R == FindResult(gr)
            base == [answer |-> {}, visited |-> visited, empty |-> empty]
            Go == [k \in 1 .. N |-> [x \in R |-> FollowInRule(gr, first, call, s, gr.rules[k], x)]]
            Is(f) == f = [k \in 0 .. N |-> IF k = 0 THEN base ELSE FollowInRule(gr, first, call, s, gr.rules[k], f[k - 1])]
            X == CHOOSE f : Is(f)
<1>0. N \in Nat /\ base \in R
  BY RulesAreFinite DEF FindResult
<1>1. \A k \in 1 .. N, x \in R : FollowInRule(gr, first, call, s, gr.rules[k], x) \in R
  <2>1. \A k \in 1 .. N : UsesSymbols(gr, gr.rules[k])
    BY RulesAreFinite, RuleSymbols DEF UsesSymbols
  <2>. QED  BY <2>1, FollowInRuleType
<1>2. Go \in [1 .. N -> [R -> R]]
  BY <1>1
<1>3. PICK h : LoopOf(h, N, R, base, Go)
  <2>1. CanLoop(N, R, base, Go)
    BY <1>0, <1>2 DEF CanLoop
  <2>. HIDE DEF N, R, base, Go
  <2>. QED  BY ONLY <2>1, LoopExists
<1>4. Is(h)
  <2>1. ASSUME NEW k \in 1 .. N PROVE Go[k][h[k - 1]] = FollowInRule(gr, first, call, s, gr.rules[k], h[k - 1])
    <3>1. k - 1 \in 0 .. N
      BY <1>0
    <3>2. h[k - 1] \in R
      BY <1>3, <3>1 DEF LoopOf
    <3>. HIDE DEF R, N
    <3>. QED  BY <3>2
  <2>2. \A k \in 0 .. N : k # 0 => k \in 1 .. N
    BY <1>0
  <2>3. h = [k \in 0 .. N |-> h[k]]
    <3>. HIDE DEF N, R
    <3>. QED  BY <1>3 DEF LoopOf
  <2>. HIDE DEF N, R, Go, base
  <2>. QED  BY ONLY <1>3, <2>1, <2>2, <2>3 DEF LoopOf
<1>5. Is(X)
  <2>. HIDE DEF Is
  <2>. QED  BY <1>4
<1>6. /\ X[0] = base /\ \A k \in 1 .. N : X[k] = FollowInRule(gr, first, call, s, gr.rules[k], X[k - 1])
      /\ X = [k \in 0 .. N |-> X[k]]
  <2>1. 0 \in 0 .. N /\ \A k \in 1 .. N : k \in 0 .. N /\ k # 0
    BY <1>0
  <2>. HIDE DEF N, X, base
  <2>. QED  BY ONLY <1>5, <2>1
<1>7. \A k \in 0 .. N : X[k] \in R
  <2>. DEFINE T == {k \in 0 .. N : X[k] \in R}
  <2>. HIDE DEF X
  <2>1. 0 \in T
    <3>. HIDE DEF N, R, base
    <3>1. 0 \in 0 .. N
      BY <1>0
    <3>. QED  BY <1>0, <1>6, <3>1
  <2>2. ASSUME NEW k \in 1 .. N, k - 1 \in T PROVE k \in T
    <3>1. X[k - 1] \in R /\ k \in 0 .. N
      BY <2>2, <1>0
    <3>2. X[k] = FollowInRule(gr, first, call, s, gr.rules[k], X[k - 1])
      BY <1>6
    <3>. HIDE DEF N, R
    <3>. QED  BY <1>1, <3>1, <3>2
  <2>. HIDE DEF T, N
  <2>3. \A k \in 0 .. N : k \in T
    BY ONLY <1>0, <2>1, <2>2, UpTo
  <2>. QED  BY <2>3 DEF T
<1>8. FollowRules(gr, first, call, s, visited, empty) = X[N]
  BY DEF FollowRules
<1>9. X \in [0 .. N -> R]
  <2>. HIDE DEF X, R, N
  <2>. QED  BY <1>6, <1>7
<1>. HIDE DEF X
<1>. QED  BY <1>6, <1>8, <1>9 DEF FollowRulesRun

LEMMA FollowSymbolType ==
  ASSUME NEW gr, WellFormed(gr), NEW table, IsTable(gr, table), NEW first, IsTable(gr, first),
         NEW call \in FindFunction(gr),
         NEW s \in UsedSymbols(gr), NEW visited \in SUBSET UsedSymbols(gr), NEW empty \in EmptyTables(gr)
  PROVE  FollowSymbol(gr, table, first, call, s, visited, empty) \in FindResult(gr)
<1>1. FollowRules(gr, first, call, s, visited \cup {s}, empty) \in FindResult(gr)
  <2>1. Len(gr.rules) \in 0 .. Len(gr.rules)
    BY RulesAreFinite
  <2>2. PICK f : FollowRulesRun(f, gr, first, call, s, visited \cup {s}, empty)
    BY FollowRulesLoop
  <2>. QED  BY <2>1, <2>2 DEF FollowRulesRun
<1>2. \A A \in SUBSET UsedSymbols(gr) : [answer |-> A, visited |-> visited, empty |-> empty] \in FindResult(gr)
  BY DEF FindResult
<1>3. {} \in SUBSET UsedSymbols(gr) /\ (s \in DOMAIN table => table[s] \in SUBSET UsedSymbols(gr))
  BY DEF IsTable
<1>. QED  BY <1>1, <1>2, <1>3 DEF FollowSymbol

FollowCallsRun(f, gr, table, first) ==
  /\ f \in [0 .. Depth(gr) -> FindFunction(gr)]
  /\ f[0] = NoCall(gr)
  /\ \A k \in 1 .. Depth(gr) : f[k] = FollowCall(gr, table, first, f[k - 1])
  /\ FollowCalls(gr, table, first) = f[Depth(gr)]

LEMMA FollowCallsLoop ==
  ASSUME NEW gr, WellFormed(gr), NEW table, IsTable(gr, table), NEW first, IsTable(gr, first)
  PROVE  \E f : FollowCallsRun(f, gr, table, first)
<1>. DEFINE N == Depth(gr)
            R == FindFunction(gr)
            base == NoCall(gr)
            Go == [k \in 1 .. N |-> [x \in R |-> FollowCall(gr, table, first, x)]]
            Is(f) == f = [k \in 0 .. N |-> IF k = 0 THEN base ELSE FollowCall(gr, table, first, f[k - 1])]
            X == CHOOSE f : Is(f)
<1>0. N \in Nat /\ base \in R
  BY RulesAreFinite DEF FindResult, FindFunction, NoCall
<1>1. \A k \in 1 .. N, x \in R : FollowCall(gr, table, first, x) \in R
  BY FollowSymbolType DEF FollowCall, FindFunction
<1>2. Go \in [1 .. N -> [R -> R]]
  BY <1>1
<1>3. PICK h : LoopOf(h, N, R, base, Go)
  <2>1. CanLoop(N, R, base, Go)
    BY <1>0, <1>2 DEF CanLoop
  <2>. HIDE DEF N, R, base, Go
  <2>. QED  BY ONLY <2>1, LoopExists
<1>4. Is(h)
  <2>1. ASSUME NEW k \in 1 .. N PROVE Go[k][h[k - 1]] = FollowCall(gr, table, first, h[k - 1])
    <3>1. k - 1 \in 0 .. N
      BY <1>0
    <3>2. h[k - 1] \in R
      BY <1>3, <3>1 DEF LoopOf
    <3>. HIDE DEF R, N
    <3>. QED  BY <3>2
  <2>2. \A k \in 0 .. N : k # 0 => k \in 1 .. N
    BY <1>0
  <2>3. h = [k \in 0 .. N |-> h[k]]
    <3>. HIDE DEF N, R
    <3>. QED  BY <1>3 DEF LoopOf
  <2>. HIDE DEF N, R, Go, base
  <2>. QED  BY ONLY <1>3, <2>1, <2>2, <2>3 DEF LoopOf
<1>5. Is(X)
  <2>. HIDE DEF Is
  <2>. QED  BY <1>4
<1>6. /\ X[0] = base /\ \A k \in 1 .. N : X[k] = FollowCall(gr, table, first, X[k - 1])
      /\ X = [k \in 0 .. N |-> X[k]]
  <2>1. 0 \in 0 .. N /\ \A k \in 1 .. N : k \in 0 .. N /\ k # 0
    BY <1>0
  <2>. HIDE DEF N, X, base
  <2>. QED  BY ONLY <1>5, <2>1
<1>7. \A k \in 0 .. N : X[k] \in R
  <2>. DEFINE T == {k \in 0 .. N : X[k] \in R}
  <2>. HIDE DEF X
  <2>1. 0 \in T
    <3>. HIDE DEF N, R, base
    <3>1. 0 \in 0 .. N
      BY <1>0
    <3>. QED  BY <1>0, <1>6, <3>1
  <2>2. ASSUME NEW k \in 1 .. N, k - 1 \in T PROVE k \in T
    <3>1. X[k - 1] \in R /\ k \in 0 .. N
      BY <2>2, <1>0
    <3>2. X[k] = FollowCall(gr, table, first, X[k - 1])
      BY <1>6
    <3>. HIDE DEF N, R
    <3>. QED  BY <1>1, <3>1, <3>2
  <2>. HIDE DEF T, N
  <2>3. \A k \in 0 .. N : k \in T
    BY ONLY <1>0, <2>1, <2>2, UpTo
  <2>. QED  BY <2>3 DEF T
<1>8. FollowCalls(gr, table, first) = X[N]
  BY DEF FollowCalls
<1>9. X \in [0 .. N -> R]
  <2>. HIDE DEF X, R, N
  <2>. QED  BY <1>6, <1>7
<1>. HIDE DEF X
<1>. QED  BY <1>6, <1>8, <1>9 DEF FollowCallsRun

-----------------------------------------------------------------------------
(* The sets follow() is to find *)

\* What one place of a right-hand side asks of the symbol in it.
FollowAsked(gr, t, S, r, p) ==
  LET tail == Suffix(gr.rules[r].rhs, p)
  IN  \/ Begins(Nullable(gr), tail, BeginningOf(gr, t))
      \/ AllIn(tail, Nullable(gr)) /\ gr.rules[r].lhs \in S

FollowClosed(gr, t, S) ==
  \A r \in RuleIndex(gr) : \A p \in DOMAIN gr.rules[r].rhs :
    gr.rules[r].rhs[p] \in Nonterminals(gr) /\ FollowAsked(gr, t, S, r, p) => gr.rules[r].rhs[p] \in S

FollowedOf(gr, t) == Followed(gr, Nullable(gr), BeginningOf(gr, t))

FollowSet(gr, s) == {t \in TerminalsAndEnd(gr) : s \in FollowedOf(gr, t)}

LEMMA FollowedIsLeast ==
  \A gr, t : FollowedOf(gr, t) =
    {s \in Nonterminals(gr) : \A S \in SUBSET Nonterminals(gr) : FollowClosed(gr, t, S) => s \in S}
BY DEF FollowedOf, Followed, Least, FollowClosed, FollowAsked

LEMMA FollowedClosed ==
  ASSUME NEW gr, NEW t, NEW r \in RuleIndex(gr), NEW p \in DOMAIN gr.rules[r].rhs,
         gr.rules[r].rhs[p] \in Nonterminals(gr), FollowAsked(gr, t, FollowedOf(gr, t), r, p)
  PROVE  gr.rules[r].rhs[p] \in FollowedOf(gr, t)
<1>1. ASSUME NEW S \in SUBSET Nonterminals(gr), FollowClosed(gr, t, S) PROVE gr.rules[r].rhs[p] \in S
  <2>1. FollowedOf(gr, t) \subseteq S
    BY <1>1, FollowedIsLeast
  <2>2. FollowAsked(gr, t, S, r, p)
    BY <2>1 DEF FollowAsked
  <2>. QED  BY <1>1, <2>2 DEF FollowClosed
<1>. QED  BY <1>1, FollowedIsLeast

LEMMA FollowedInClosed ==
  ASSUME NEW gr, NEW t, NEW S \in SUBSET Nonterminals(gr), FollowClosed(gr, t, S)
  PROVE  FollowedOf(gr, t) \subseteq S
BY FollowedIsLeast

\* t begins a sequence if it is in Starting of all of it.
LEMMA BeginsIsStarting ==
  ASSUME NEW gr, NEW D, NEW seq \in Seq(D), NEW t \in TerminalsAndEnd(gr)
  PROVE  Begins(Nullable(gr), seq, BeginningOf(gr, t)) <=> t \in Starting(gr, seq, Len(seq))
<1>1. DOMAIN seq = 1 .. Len(seq)
  OBVIOUS
<1>. QED  BY <1>1 DEF Begins, Starting, FirstSet

\* What follows a symbol of a right-hand side.
LEMMA FollowSetClosed ==
  ASSUME NEW gr, WellFormed(gr), NEW r \in RuleIndex(gr), NEW p \in DOMAIN gr.rules[r].rhs,
         gr.rules[r].rhs[p] \in Nonterminals(gr),
         NEW tail, tail = Suffix(gr.rules[r].rhs, p)
  PROVE  /\ Starting(gr, tail, Len(tail)) \subseteq FollowSet(gr, gr.rules[r].rhs[p])
         /\ AllIn(tail, Nullable(gr)) =>
              FollowSet(gr, gr.rules[r].lhs) \subseteq FollowSet(gr, gr.rules[r].rhs[p])
<1>1. tail \in Seq(UsedSymbols(gr))
  BY RuleSymbols, SuffixSymbols
<1>2. ASSUME NEW t \in Starting(gr, tail, Len(tail)) PROVE t \in FollowSet(gr, gr.rules[r].rhs[p])
  <2>1. t \in TerminalsAndEnd(gr)
    BY DEF Starting
  <2>2. Begins(Nullable(gr), tail, BeginningOf(gr, t))
    BY <1>1, <2>1, BeginsIsStarting
  <2>3. FollowAsked(gr, t, FollowedOf(gr, t), r, p)
    BY <2>2 DEF FollowAsked
  <2>4. gr.rules[r].rhs[p] \in FollowedOf(gr, t)
    BY <2>3, FollowedClosed
  <2>. QED  BY <2>1, <2>4 DEF FollowSet
<1>3. ASSUME AllIn(tail, Nullable(gr)), NEW t \in FollowSet(gr, gr.rules[r].lhs)
      PROVE  t \in FollowSet(gr, gr.rules[r].rhs[p])
  <2>1. t \in TerminalsAndEnd(gr) /\ gr.rules[r].lhs \in FollowedOf(gr, t)
    BY DEF FollowSet
  <2>2. FollowAsked(gr, t, FollowedOf(gr, t), r, p)
    BY <1>3, <2>1 DEF FollowAsked
  <2>3. gr.rules[r].rhs[p] \in FollowedOf(gr, t)
    BY <2>2, FollowedClosed
  <2>. QED  BY <2>1, <2>3 DEF FollowSet
<1>. QED  BY <1>2, <1>3

-----------------------------------------------------------------------------
(* The search of follow() *)

CoveredAfter(gr, y, A, W) == y \in W \/ FollowSet(gr, y) \subseteq A

\* All that follows place p of rule r is found or will be.
PlaceCovered(gr, r, p, A, W) ==
  LET tail == Suffix(gr.rules[r].rhs, p)
  IN  /\ Starting(gr, tail, Len(tail)) \subseteq A
      /\ AllIn(tail, Nullable(gr)) => CoveredAfter(gr, gr.rules[r].lhs, A, W)

ExploredAfter(gr, x, A, W) ==
  \A r \in RuleIndex(gr) : \A p \in DOMAIN gr.rules[r].rhs :
    gr.rules[r].rhs[p] = x => PlaceCovered(gr, r, p, A, W)

SearchedAfter(gr, A, V, W) == \A x \in W \ V : ExploredAfter(gr, x, A, W)

LEMMA PlaceCoveredMore ==
  ASSUME NEW gr, NEW r, NEW p, NEW A, NEW B, NEW W, NEW X, A \subseteq B, W \subseteq X,
         PlaceCovered(gr, r, p, A, W)
  PROVE  PlaceCovered(gr, r, p, B, X)
BY DEF PlaceCovered, CoveredAfter

LEMMA ExploredAfterMore ==
  ASSUME NEW gr, NEW y, NEW A, NEW B, NEW W, NEW X, A \subseteq B, W \subseteq X,
         ExploredAfter(gr, y, A, W)
  PROVE  ExploredAfter(gr, y, B, X)
BY PlaceCoveredMore DEF ExploredAfter

LEMMA SearchedAfterMore ==
  ASSUME NEW gr, NEW A, NEW B, NEW C, NEW V, NEW W, NEW X, W \subseteq X, A \subseteq C, B \subseteq C,
         SearchedAfter(gr, A, V, W), SearchedAfter(gr, B, W, X)
  PROVE  SearchedAfter(gr, C, V, X)
<1>. SUFFICES ASSUME NEW x \in X \ V PROVE ExploredAfter(gr, x, C, X)
  BY DEF SearchedAfter
<1>1. CASE x \in W
  <2>1. ExploredAfter(gr, x, A, W)
    BY <1>1 DEF SearchedAfter
  <2>. QED  BY <2>1, ExploredAfterMore
<1>2. CASE x \notin W
  <2>1. ExploredAfter(gr, x, B, X) /\ X \subseteq X
    BY <1>2 DEF SearchedAfter
  <2>. QED  BY <2>1, ExploredAfterMore
<1>. QED  BY <1>1, <1>2

LEMMA SearchAfterComplete ==
  ASSUME NEW gr, WellFormed(gr), NEW A, NEW W, SearchedAfter(gr, A, {}, W),
         NEW y, CoveredAfter(gr, y, A, W)
  PROVE  FollowSet(gr, y) \subseteq A
<1>. SUFFICES ASSUME NEW t \in TerminalsAndEnd(gr), y \in FollowedOf(gr, t), t \notin A, y \in W
              PROVE  FALSE
  BY DEF CoveredAfter, FollowSet
<1>. DEFINE S == FollowedOf(gr, t) \ W
<1>0. \A x \in W : ExploredAfter(gr, x, A, W)
  BY DEF SearchedAfter
<1>1. FollowClosed(gr, t, S)
  <2>. SUFFICES ASSUME NEW r \in RuleIndex(gr), NEW p \in DOMAIN gr.rules[r].rhs,
                       gr.rules[r].rhs[p] \in Nonterminals(gr), FollowAsked(gr, t, S, r, p)
                PROVE  gr.rules[r].rhs[p] \in S
    BY DEF FollowClosed
  <2>. DEFINE tail == Suffix(gr.rules[r].rhs, p)
  <2>1. FollowAsked(gr, t, FollowedOf(gr, t), r, p)
    BY DEF FollowAsked
  <2>2. gr.rules[r].rhs[p] \in FollowedOf(gr, t)
    BY <2>1, FollowedClosed
  <2>3. ASSUME gr.rules[r].rhs[p] \in W PROVE FALSE
    <3>1. PlaceCovered(gr, r, p, A, W)
      BY <1>0, <2>3 DEF ExploredAfter
    <3>2. tail \in Seq(UsedSymbols(gr))
      BY RuleSymbols, SuffixSymbols
    <3>3. Starting(gr, tail, Len(tail)) \subseteq A
      BY <3>1 DEF PlaceCovered
    <3>4. ~Begins(Nullable(gr), tail, BeginningOf(gr, t))
      <4>. HIDE DEF tail
      <4>. QED  BY <3>2, <3>3, BeginsIsStarting
    <3>5. AllIn(tail, Nullable(gr)) /\ gr.rules[r].lhs \in S
      BY <3>4 DEF FollowAsked
    <3>6. CoveredAfter(gr, gr.rules[r].lhs, A, W)
      BY <3>1, <3>5 DEF PlaceCovered
    <3>7. t \in FollowSet(gr, gr.rules[r].lhs) /\ gr.rules[r].lhs \notin W
      BY <3>5 DEF FollowSet
    <3>. QED  BY <3>6, <3>7 DEF CoveredAfter
  <2>. QED  BY <2>2, <2>3
<1>2. S \in SUBSET Nonterminals(gr)
  BY FollowedIsLeast
<1>. HIDE DEF S
<1>3. FollowedOf(gr, t) \subseteq S
  BY <1>1, <1>2, FollowedInClosed
<1>. QED  BY <1>3 DEF S

-----------------------------------------------------------------------------
(* follow() finds nothing too much, and (all) all of what it covers *)

FoundFollow(gr, all, low, s, V, n, x) ==
  /\ x.answer \subseteq FollowSet(gr, s) /\ V \subseteq x.visited /\ Grown(gr, all, low, x.empty)
  /\ all /\ Left(gr, V) < n =>
       SearchedAfter(gr, x.answer, V, x.visited) /\ CoveredAfter(gr, s, x.answer, x.visited)

FindsFollow(gr, all, low, call, n) ==
  \A s \in Nonterminals(gr), V \in SUBSET UsedSymbols(gr), empty \in EmptyTables(gr) :
    Grown(gr, all, low, empty) => FoundFollow(gr, all, low, s, V, n, call[s][V][empty])

\* What the loops have after the places in D; V is with s.
FoundAtPlaces(gr, all, low, s, V, n, D, x) ==
  /\ x.answer \subseteq FollowSet(gr, s) /\ V \subseteq x.visited /\ Grown(gr, all, low, x.empty)
  /\ all /\ Left(gr, V) < n =>
       /\ SearchedAfter(gr, x.answer, V, x.visited)
       /\ \A r \in RuleIndex(gr) : \A p \in DOMAIN gr.rules[r].rhs :
            <<r, p>> \in D /\ gr.rules[r].rhs[p] = s => PlaceCovered(gr, r, p, x.answer, x.visited)

LEMMA IsLastRight ==
  ASSUME NEW gr, WellFormed(gr), NEW all, NEW low, Allows(gr, all), NEW empty, Grown(gr, all, low, empty),
         NEW tail \in Tails(gr)
  PROVE  /\ IsLast(gr, empty, tail) => AllIn(tail, Nullable(gr))
         /\ all => (AllIn(tail, Nullable(gr)) => IsLast(gr, empty, tail))
<1>1. empty \in EmptyTables(gr) /\ empty.yes \subseteq Nullable(gr) /\ tail \in Seq(UsedSymbols(gr))
  BY TailSymbols DEF Grown, RightTable
<1>2. AllIn(<<>>, Nullable(gr))
  BY DEF AllIn
<1>3. IsEmptySeq(gr, empty, tail) => AllIn(tail, Nullable(gr))
  BY <1>1, EmptyIsSound
<1>4. ASSUME all, AllIn(tail, Nullable(gr)) PROVE IsEmptySeq(gr, empty, tail)
  <2>1. RightTable(gr, TRUE, empty) /\ UsedOnce(gr, Nullable(gr)) /\ DefinesNoTerminal(gr)
    BY <1>4 DEF Grown, RightTable, Allows
  <2>. QED  BY <1>4, <2>1, EmptyIsExact
<1>. QED  BY <1>2, <1>3, <1>4 DEF IsLast

LEMMA FollowAtFinds ==
  ASSUME NEW gr, WellFormed(gr), NEW all, NEW low, Allows(gr, all), NEW n \in Nat,
         NEW first, RightFirst(gr, all, first),
         NEW call \in FindFunction(gr), FindsFollow(gr, all, low, call, n),
         NEW s \in Nonterminals(gr), NEW V \in SUBSET UsedSymbols(gr),
         NEW r \in RuleIndex(gr), NEW p \in DOMAIN gr.rules[r].rhs, NEW before \in FindResult(gr),
         NEW D, FoundAtPlaces(gr, all, low, s, V, n, D, before)
  PROVE  FoundAtPlaces(gr, all, low, s, V, n, D \cup {<<r, p>>},
                       FollowAt(gr, first, call, s, gr.rules[r], p, before))
<1>. DEFINE lhs   == gr.rules[r].lhs
            tail  == Suffix(gr.rules[r].rhs, p)
            begin == FirstOfStored(gr, first, before.empty, tail)
            one   == IF IsLast(gr, begin.empty, tail) THEN call[lhs][before.visited][begin.empty]
                     ELSE [answer |-> {}, visited |-> before.visited, empty |-> begin.empty]
            after == FollowAt(gr, first, call, s, gr.rules[r], p, before)
            E     == D \cup {<<r, p>>}
<1>0. /\ before.visited \in SUBSET UsedSymbols(gr) /\ before.empty \in EmptyTables(gr)
      /\ before.answer \subseteq FollowSet(gr, s) /\ V \subseteq before.visited
      /\ Grown(gr, all, low, before.empty)
  BY DEF FindResult, FoundAtPlaces
<1>1. ASSUME gr.rules[r].rhs[p] # s PROVE FoundAtPlaces(gr, all, low, s, V, n, E, after)
  <2>1. after = before
    BY <1>1 DEF FollowAt
  <2>2. ASSUME NEW r1 \in RuleIndex(gr), NEW p1 \in DOMAIN gr.rules[r1].rhs,
               <<r1, p1>> \in E, gr.rules[r1].rhs[p1] = s
        PROVE  <<r1, p1>> \in D
    BY <1>1, <2>2
  <2>. HIDE DEF after, E
  <2>. QED  BY <1>0, <2>1, <2>2 DEF FoundAtPlaces
<1>2. ASSUME gr.rules[r].rhs[p] = s PROVE FoundAtPlaces(gr, all, low, s, V, n, E, after)
  <2>1. after = [one EXCEPT !.answer = @ \cup before.answer \cup begin.answer]
    BY <1>2 DEF FollowAt, FollowOccurrence, FollowPast
  <2>2. tail \in Tails(gr) /\ tail \in Seq(UsedSymbols(gr)) /\ lhs \in Nonterminals(gr) /\ lhs \in UsedSymbols(gr)
    BY RuleSymbols, SuffixSymbols DEF Tails
  <2>. HIDE DEF tail, lhs
  <2>3. /\ begin \in BeginResult(gr) /\ Grown(gr, all, low, begin.empty)
        /\ begin.answer \subseteq Starting(gr, tail, Len(tail))
        /\ all => begin.answer = Starting(gr, tail, Len(tail))
    BY <1>0, <2>2, FirstOfStoredIsRight
  <2>. HIDE DEF begin
  <2>4. begin.empty \in EmptyTables(gr)
    BY <2>3 DEF BeginResult
  <2>5. /\ IsLast(gr, begin.empty, tail) => AllIn(tail, Nullable(gr))
        /\ all => (AllIn(tail, Nullable(gr)) => IsLast(gr, begin.empty, tail))
    BY <2>2, <2>3, IsLastRight
  <2>6. FoundFollow(gr, all, low, lhs, before.visited, n, call[lhs][before.visited][begin.empty])
    BY <1>0, <2>2, <2>3, <2>4 DEF FindsFollow
  <2>7. one \in FindResult(gr)
    <3>1. call[lhs][before.visited][begin.empty] \in FindResult(gr)
      BY <1>0, <2>2, <2>4 DEF FindFunction
    <3>2. [answer |-> {}, visited |-> before.visited, empty |-> begin.empty] \in FindResult(gr)
      BY <1>0, <2>4 DEF FindResult
    <3>. QED  BY <3>1, <3>2
  <2>8. /\ one.answer \subseteq FollowSet(gr, lhs) /\ (one.answer = {} \/ AllIn(tail, Nullable(gr)))
        /\ before.visited \subseteq one.visited /\ Grown(gr, all, low, one.empty)
    <3>1. CASE IsLast(gr, begin.empty, tail)
      <4>1. one = call[lhs][before.visited][begin.empty]
        BY <3>1
      <4>. QED  BY <2>5, <2>6, <3>1, <4>1 DEF FoundFollow
    <3>2. CASE ~IsLast(gr, begin.empty, tail)
      <4>1. one = [answer |-> {}, visited |-> before.visited, empty |-> begin.empty]
        BY <3>2
      <4>. HIDE DEF one
      <4>. QED  BY <2>3, <4>1
    <3>. QED  BY <3>1, <3>2
  <2>9. ASSUME all, Left(gr, V) < n
        PROVE  /\ SearchedAfter(gr, one.answer, before.visited, one.visited)
               /\ AllIn(tail, Nullable(gr)) => CoveredAfter(gr, lhs, one.answer, one.visited)
    <3>1. CASE IsLast(gr, begin.empty, tail)
      <4>1. one = call[lhs][before.visited][begin.empty]
        BY <3>1
      <4>2. Left(gr, V) \in Nat /\ Left(gr, before.visited) \in Nat /\ Left(gr, before.visited) <= Left(gr, V)
        BY <1>0, LeftFacts
      <4>3. Left(gr, before.visited) < n
        BY <2>9, <4>2
      <4>. HIDE DEF one
      <4>. QED  BY <2>6, <2>9, <4>1, <4>3 DEF FoundFollow
    <3>2. CASE ~IsLast(gr, begin.empty, tail)
      <4>1. one = [answer |-> {}, visited |-> before.visited, empty |-> begin.empty]
        BY <3>2
      <4>2. ~AllIn(tail, Nullable(gr))
        BY <2>5, <2>9, <3>2
      <4>3. before.visited \ before.visited = {}
        OBVIOUS
      <4>. HIDE DEF one
      <4>. QED  BY <4>1, <4>2, <4>3 DEF SearchedAfter
    <3>. QED  BY <3>1, <3>2
  <2>. HIDE DEF one
  <2>10. /\ after.answer = one.answer \cup before.answer \cup begin.answer
         /\ after.visited = one.visited /\ after.empty = one.empty
    BY <2>1, <2>7 DEF FindResult
  <2>. HIDE DEF after
  <2>11. /\ Starting(gr, tail, Len(tail)) \subseteq FollowSet(gr, s)
         /\ AllIn(tail, Nullable(gr)) => FollowSet(gr, lhs) \subseteq FollowSet(gr, s)
    BY <1>2, FollowSetClosed DEF tail, lhs
  <2>12. after.answer \subseteq FollowSet(gr, s) /\ V \subseteq after.visited /\ Grown(gr, all, low, after.empty)
    BY <1>0, <2>3, <2>8, <2>10, <2>11
  <2>13. ASSUME all, Left(gr, V) < n
         PROVE  /\ SearchedAfter(gr, after.answer, V, after.visited)
                /\ \A r1 \in RuleIndex(gr) : \A p1 \in DOMAIN gr.rules[r1].rhs :
                     <<r1, p1>> \in E /\ gr.rules[r1].rhs[p1] = s =>
                       PlaceCovered(gr, r1, p1, after.answer, after.visited)
    <3>1. SearchedAfter(gr, before.answer, V, before.visited)
      BY <2>13 DEF FoundAtPlaces
    <3>2. SearchedAfter(gr, after.answer, V, after.visited)
      <4>1. before.answer \subseteq after.answer /\ one.answer \subseteq after.answer
        BY <2>10
      <4>. QED  BY <2>8, <2>9, <2>10, <2>13, <3>1, <4>1, SearchedAfterMore
    <3>3. PlaceCovered(gr, r, p, after.answer, after.visited)
      <4>1. Starting(gr, tail, Len(tail)) \subseteq after.answer
        BY <2>3, <2>10, <2>13
      <4>2. AllIn(tail, Nullable(gr)) => CoveredAfter(gr, lhs, after.answer, after.visited)
        BY <2>9, <2>10, <2>13 DEF CoveredAfter
      <4>. QED  BY <4>1, <4>2 DEF PlaceCovered, tail, lhs
    <3>4. ASSUME NEW r1 \in RuleIndex(gr), NEW p1 \in DOMAIN gr.rules[r1].rhs,
                 <<r1, p1>> \in D, gr.rules[r1].rhs[p1] = s
          PROVE  PlaceCovered(gr, r1, p1, after.answer, after.visited)
      <4>1. PlaceCovered(gr, r1, p1, before.answer, before.visited)
        BY <2>13, <3>4 DEF FoundAtPlaces
      <4>2. before.answer \subseteq after.answer /\ before.visited \subseteq after.visited
        BY <2>8, <2>10
      <4>. QED  BY <4>1, <4>2, PlaceCoveredMore
    <3>5. \A r1, p1 : <<r1, p1>> \in E => <<r1, p1>> \in D \/ (r1 = r /\ p1 = p)
      OBVIOUS
    <3>. HIDE DEF E
    <3>. QED  BY <3>2, <3>3, <3>4, <3>5
  <2>. HIDE DEF E
  <2>. QED  BY <2>12, <2>13 DEF FoundAtPlaces
<1>. QED  BY <1>1, <1>2

\* The places of the rules up to the r-th, and of the first k symbols of the next.
PlacesUpTo(r)      == {place \in Nat \X Nat : place[1] <= r}
PlacesWithin(r, k) == {place \in Nat \X Nat : place[1] <= r - 1 \/ (place[1] = r /\ place[2] <= k)}

LEMMA FewerPlaces ==
  ASSUME NEW gr, NEW all, NEW low, NEW s, NEW V, NEW n, NEW D, NEW E, NEW x,
         FoundAtPlaces(gr, all, low, s, V, n, D, x),
         \A r \in RuleIndex(gr) : \A p \in DOMAIN gr.rules[r].rhs : <<r, p>> \in E => <<r, p>> \in D
  PROVE  FoundAtPlaces(gr, all, low, s, V, n, E, x)
BY DEF FoundAtPlaces

LEMMA FollowInRuleFinds ==
  ASSUME NEW gr, WellFormed(gr), NEW all, NEW low, Allows(gr, all), NEW n \in Nat,
         NEW first, RightFirst(gr, all, first),
         NEW call \in FindFunction(gr), FindsFollow(gr, all, low, call, n),
         NEW s \in Nonterminals(gr), NEW V \in SUBSET UsedSymbols(gr),
         NEW r \in RuleIndex(gr), NEW start \in FindResult(gr),
         FoundAtPlaces(gr, all, low, s, V, n, PlacesUpTo(r - 1), start)
  PROVE  FoundAtPlaces(gr, all, low, s, V, n, PlacesUpTo(r),
                       FollowInRule(gr, first, call, s, gr.rules[r], start))
<1>. DEFINE rule == gr.rules[r]
            N == Len(rule.rhs)
<1>0. /\ UsesSymbols(gr, rule) /\ IsTable(gr, first) /\ N \in Nat /\ DOMAIN rule.rhs = 1 .. N
      /\ r \in Nat /\ RuleIndex(gr) \subseteq Nat
      /\ \A q \in RuleIndex(gr) : DOMAIN gr.rules[q].rhs \subseteq Nat
  <2>1. \A q \in RuleIndex(gr) : gr.rules[q].rhs \in Seq(UsedSymbols(gr))
    BY RuleSymbols
  <2>2. \A q \in RuleIndex(gr) : DOMAIN gr.rules[q].rhs = 1 .. Len(gr.rules[q].rhs) /\ Len(gr.rules[q].rhs) \in Nat
    BY <2>1
  <2>. QED  BY <2>1, <2>2, RuleSymbols, RulesAreFinite DEF UsesSymbols, RightFirst
<1>1. PICK f : FollowInRuleRun(f, gr, first, call, s, rule, start)
  <2>. HIDE DEF rule
  <2>. QED  BY <1>0, FollowInRuleLoop
<1>. DEFINE T == {k \in 0 .. N : FoundAtPlaces(gr, all, low, s, V, n, PlacesWithin(r, k), f[k])}
<1>2. 0 \in T
  <2>1. f[0] = start /\ 0 \in 0 .. N
    BY <1>0, <1>1 DEF FollowInRuleRun
  <2>2. \A q \in RuleIndex(gr) : \A p \in DOMAIN gr.rules[q].rhs :
          <<q, p>> \in PlacesWithin(r, 0) => <<q, p>> \in PlacesUpTo(r - 1)
    <3>1. \A q \in RuleIndex(gr) : \A p \in DOMAIN gr.rules[q].rhs : p # 0 /\ p \in Nat
      <4>1. \A q \in RuleIndex(gr) : gr.rules[q].rhs \in Seq(UsedSymbols(gr))
        BY RuleSymbols
      <4>. QED  BY <4>1
    <3>. QED  BY <1>0, <3>1 DEF PlacesWithin, PlacesUpTo
  <2>3. FoundAtPlaces(gr, all, low, s, V, n, PlacesWithin(r, 0), start)
    BY <2>2, FewerPlaces
  <2>. QED  BY <2>1, <2>3
<1>3. ASSUME NEW k \in 1 .. N, k - 1 \in T PROVE k \in T
  <2>1. k - 1 \in 0 .. N /\ k \in 0 .. N /\ k \in DOMAIN rule.rhs /\ k \in Nat
    BY <1>0
  <2>2. f[k - 1] \in FindResult(gr) /\ f[k] = FollowAt(gr, first, call, s, rule, k, f[k - 1])
    BY <1>1, <2>1 DEF FollowInRuleRun
  <2>3. FoundAtPlaces(gr, all, low, s, V, n, PlacesWithin(r, k - 1), f[k - 1])
    BY <1>3
  <2>4. FoundAtPlaces(gr, all, low, s, V, n, PlacesWithin(r, k - 1) \cup {<<r, k>>}, f[k])
    <3>. DEFINE D == PlacesWithin(r, k - 1)
    <3>1. k \in DOMAIN gr.rules[r].rhs /\ f[k] = FollowAt(gr, first, call, s, gr.rules[r], k, f[k - 1])
      BY <2>1, <2>2
    <3>2. f[k - 1] \in FindResult(gr) /\ FoundAtPlaces(gr, all, low, s, V, n, D, f[k - 1])
      BY <2>2, <2>3
    <3>. HIDE DEF D, T, N, rule
    <3>3. FoundAtPlaces(gr, all, low, s, V, n, D \cup {<<r, k>>},
                        FollowAt(gr, first, call, s, gr.rules[r], k, f[k - 1]))
      BY <3>1, <3>2, FollowAtFinds
    <3>. QED  BY <3>1, <3>3 DEF D
  <2>5. PlacesWithin(r, k) \subseteq PlacesWithin(r, k - 1) \cup {<<r, k>>}
    BY <1>0, <2>1 DEF PlacesWithin
  <2>6. FoundAtPlaces(gr, all, low, s, V, n, PlacesWithin(r, k), f[k])
    BY <2>4, <2>5, FewerPlaces
  <2>. QED  BY <2>1, <2>6
<1>4. \A q \in RuleIndex(gr) : \A p \in DOMAIN gr.rules[q].rhs :
        <<q, p>> \in PlacesUpTo(r) => <<q, p>> \in PlacesWithin(r, N)
  <2>1. ASSUME NEW q \in RuleIndex(gr), NEW p \in DOMAIN gr.rules[q].rhs, q <= r
        PROVE  q <= r - 1 \/ (q = r /\ p <= N)
    <3>1. q \in Nat /\ r \in Nat /\ (q = r => p \in 1 .. N)
      BY <1>0
    <3>. HIDE DEF N
    <3>. QED  BY <1>0, <2>1, <3>1
  <2>2. \A q \in RuleIndex(gr) : \A p \in DOMAIN gr.rules[q].rhs : q \in Nat /\ p \in Nat
    BY <1>0
  <2>. HIDE DEF N
  <2>. QED  BY <2>1, <2>2 DEF PlacesUpTo, PlacesWithin
<1>. HIDE DEF T, N
<1>5. \A k \in 0 .. N : k \in T
  BY ONLY <1>0, <1>2, <1>3, UpTo
<1>6. N \in T
  BY <1>0, <1>5
<1>7. FoundAtPlaces(gr, all, low, s, V, n, PlacesUpTo(r), f[N])
  BY <1>4, <1>6, FewerPlaces DEF T
<1>. QED  BY <1>1, <1>7 DEF N, FollowInRuleRun

LEMMA FollowRulesFinds ==
  ASSUME NEW gr, WellFormed(gr), NEW all, NEW low, Allows(gr, all), NEW n \in Nat,
         NEW first, RightFirst(gr, all, first),
         NEW call \in FindFunction(gr), FindsFollow(gr, all, low, call, n),
         NEW s \in Nonterminals(gr), NEW V \in SUBSET UsedSymbols(gr),
         NEW empty \in EmptyTables(gr), Grown(gr, all, low, empty)
  PROVE  FoundAtPlaces(gr, all, low, s, V, n, PlacesUpTo(Len(gr.rules)),
                       FollowRules(gr, first, call, s, V, empty))
<1>0. IsTable(gr, first)
  BY DEF RightFirst
<1>1. PICK f : FollowRulesRun(f, gr, first, call, s, V, empty)
  BY <1>0, FollowRulesLoop
<1>. DEFINE N == Len(gr.rules)
            T == {k \in 0 .. N : FoundAtPlaces(gr, all, low, s, V, n, PlacesUpTo(k), f[k])}
<1>2. N \in Nat /\ RuleIndex(gr) = 1 .. N
  BY RulesAreFinite
<1>3. 0 \in T
  <2>1. f[0] = [answer |-> {}, visited |-> V, empty |-> empty] /\ 0 \in 0 .. N
    BY <1>1, <1>2 DEF FollowRulesRun
  <2>2. V \ V = {}
    OBVIOUS
  <2>3. SearchedAfter(gr, {}, V, V)
    BY <2>2 DEF SearchedAfter
  <2>4. \A r \in RuleIndex(gr) : \A p : <<r, p>> \notin PlacesUpTo(0)
    <3>. HIDE DEF N
    <3>. QED  BY <1>2 DEF PlacesUpTo
  <2>5. FoundAtPlaces(gr, all, low, s, V, n, PlacesUpTo(0), [answer |-> {}, visited |-> V, empty |-> empty])
    BY <2>3, <2>4 DEF FoundAtPlaces
  <2>. QED  BY <2>1, <2>5
<1>4. ASSUME NEW k \in 1 .. N, k - 1 \in T PROVE k \in T
  <2>1. k - 1 \in 0 .. N /\ k \in 0 .. N /\ k \in RuleIndex(gr)
    BY <1>2
  <2>2. f[k - 1] \in FindResult(gr) /\ f[k] = FollowInRule(gr, first, call, s, gr.rules[k], f[k - 1])
    BY <1>1, <2>1 DEF FollowRulesRun
  <2>3. FoundAtPlaces(gr, all, low, s, V, n, PlacesUpTo(k - 1), f[k - 1])
    BY <1>4
  <2>4. FoundAtPlaces(gr, all, low, s, V, n, PlacesUpTo(k), f[k])
    BY <2>1, <2>2, <2>3, FollowInRuleFinds
  <2>. QED  BY <2>1, <2>4
<1>. HIDE DEF T, N
<1>5. \A k \in 0 .. N : k \in T
  BY ONLY <1>2, <1>3, <1>4, UpTo
<1>6. N \in T
  BY <1>2, <1>5
<1>. QED  BY <1>1, <1>6 DEF T, N, FollowRulesRun

\* The answers of follow() that are stored are right, or (all) complete too.
RightFollow(gr, all, table) ==
  /\ IsTable(gr, table)
  /\ \A s \in DOMAIN table : /\ table[s] \subseteq FollowSet(gr, s)
                             /\ all => table[s] = FollowSet(gr, s)

LEMMA FollowSymbolFinds ==
  ASSUME NEW gr, WellFormed(gr), NEW all, NEW low, Allows(gr, all), NEW n \in Nat,
         NEW table, RightFollow(gr, all, table), NEW first, RightFirst(gr, all, first),
         NEW call \in FindFunction(gr), FindsFollow(gr, all, low, call, n),
         NEW s \in Nonterminals(gr), NEW V \in SUBSET UsedSymbols(gr),
         NEW empty \in EmptyTables(gr), Grown(gr, all, low, empty)
  PROVE  FoundFollow(gr, all, low, s, V, n + 1, FollowSymbol(gr, table, first, call, s, V, empty))
<1>. DEFINE x == FollowSymbol(gr, table, first, call, s, V, empty)
<1>1. SearchedAfter(gr, x.answer, V, V)
  <2>1. V \ V = {}
    OBVIOUS
  <2>. QED  BY <2>1 DEF SearchedAfter
<1>2. ASSUME s \in DOMAIN table PROVE FoundFollow(gr, all, low, s, V, n + 1, x)
  <2>1. x.answer = table[s] /\ x.visited = V /\ x.empty = empty
    BY <1>2 DEF FollowSymbol
  <2>2. table[s] \subseteq FollowSet(gr, s) /\ (all => table[s] = FollowSet(gr, s))
    BY <1>2 DEF RightFollow
  <2>. HIDE DEF x
  <2>. QED  BY <1>1, <2>1, <2>2 DEF FoundFollow, CoveredAfter
<1>3. ASSUME s \notin DOMAIN table, s \in V PROVE FoundFollow(gr, all, low, s, V, n + 1, x)
  <2>1. x.answer = {} /\ x.visited = V /\ x.empty = empty
    BY <1>3 DEF FollowSymbol
  <2>. HIDE DEF x
  <2>. QED  BY <1>1, <1>3, <2>1 DEF FoundFollow, CoveredAfter
<1>4. ASSUME s \notin DOMAIN table, s \notin V PROVE FoundFollow(gr, all, low, s, V, n + 1, x)
  <2>. DEFINE V1 == V \cup {s}
              D  == PlacesUpTo(Len(gr.rules))
  <2>1. x = FollowRules(gr, first, call, s, V1, empty)
    BY <1>4 DEF FollowSymbol
  <2>2. V1 \in SUBSET UsedSymbols(gr) /\ V \subseteq V1 /\ s \in V1
    BY DEF UsedSymbols
  <2>. HIDE DEF V1, x
  <2>3. FoundAtPlaces(gr, all, low, s, V1, n, D, x)
    BY <2>1, <2>2, FollowRulesFinds
  <2>4. \A r \in RuleIndex(gr) : \A p \in DOMAIN gr.rules[r].rhs : <<r, p>> \in D
    <3>1. \A r \in RuleIndex(gr) : gr.rules[r].rhs \in Seq(UsedSymbols(gr))
      BY RuleSymbols
    <3>2. \A r \in RuleIndex(gr) : r \in Nat /\ r <= Len(gr.rules) /\ DOMAIN gr.rules[r].rhs \subseteq Nat
      BY <3>1, RulesAreFinite
    <3>. QED  BY <3>2 DEF PlacesUpTo
  <2>. HIDE DEF D
  <2>5. x.answer \subseteq FollowSet(gr, s) /\ V1 \subseteq x.visited /\ Grown(gr, all, low, x.empty)
    BY <2>3 DEF FoundAtPlaces
  <2>6. ASSUME all, Left(gr, V) < n + 1
        PROVE  SearchedAfter(gr, x.answer, V, x.visited) /\ CoveredAfter(gr, s, x.answer, x.visited)
    <3>1. Left(gr, V1) < n
      <4>1. Left(gr, V) \in Nat /\ Left(gr, V1) \in Nat /\ Left(gr, V1) < Left(gr, V)
        BY <1>4, <2>2, LeftFacts
      <4>. QED  BY <2>6, <4>1
    <3>2. SearchedAfter(gr, x.answer, V1, x.visited)
      BY <2>3, <2>6, <3>1 DEF FoundAtPlaces
    <3>3. ExploredAfter(gr, s, x.answer, x.visited)
      BY <2>3, <2>4, <2>6, <3>1 DEF FoundAtPlaces, ExploredAfter
    <3>4. x.visited \ V \subseteq (x.visited \ V1) \cup {s}
      BY DEF V1
    <3>5. SearchedAfter(gr, x.answer, V, x.visited)
      BY <3>2, <3>3, <3>4 DEF SearchedAfter
    <3>. QED  BY <2>2, <2>5, <3>5 DEF CoveredAfter
  <2>. QED  BY <2>2, <2>5, <2>6 DEF FoundFollow
<1>. QED  BY <1>2, <1>3, <1>4

LEMMA FollowCallsFinds ==
  ASSUME NEW gr, WellFormed(gr), NEW all, NEW low, Allows(gr, all), NEW table, RightFollow(gr, all, table),
         NEW first, RightFirst(gr, all, first)
  PROVE  /\ FollowCalls(gr, table, first) \in FindFunction(gr)
         /\ FindsFollow(gr, all, low, FollowCalls(gr, table, first), Depth(gr))
<1>0. IsTable(gr, table) /\ IsTable(gr, first)
  BY DEF RightFollow, RightFirst
<1>1. PICK f : FollowCallsRun(f, gr, table, first)
  BY <1>0, FollowCallsLoop
<1>. DEFINE N == Depth(gr)
            T == {k \in 0 .. N : FindsFollow(gr, all, low, f[k], k)}
<1>2. N \in Nat /\ Nonterminals(gr) \subseteq UsedSymbols(gr)
  BY RulesAreFinite DEF UsedSymbols
<1>3. 0 \in T
  <2>1. f[0] = NoCall(gr)
    BY <1>1 DEF FollowCallsRun
  <2>2. \A s \in UsedSymbols(gr), V \in SUBSET UsedSymbols(gr), empty \in EmptyTables(gr) :
          f[0][s][V][empty] = [answer |-> {}, visited |-> V, empty |-> empty]
    BY <2>1 DEF NoCall
  <2>3. \A V : ~(Left(gr, V) < 0)
    <3>1. \A V : Left(gr, V) \in Nat
      BY LeftFacts
    <3>. QED  BY <3>1
  <2>4. FindsFollow(gr, all, low, f[0], 0)
    <3>. SUFFICES ASSUME NEW s \in Nonterminals(gr), NEW V \in SUBSET UsedSymbols(gr),
                         NEW empty \in EmptyTables(gr), Grown(gr, all, low, empty)
                  PROVE  FoundFollow(gr, all, low, s, V, 0, f[0][s][V][empty])
      BY DEF FindsFollow
    <3>1. FoundFollow(gr, all, low, s, V, 0, [answer |-> {}, visited |-> V, empty |-> empty])
      BY <2>3 DEF FoundFollow
    <3>. QED  BY <1>2, <2>2, <3>1
  <2>. QED  BY <1>2, <2>4
<1>4. ASSUME NEW k \in 1 .. N, k - 1 \in T PROVE k \in T
  <2>1. k - 1 \in 0 .. N /\ k \in 0 .. N /\ k - 1 \in Nat /\ (k - 1) + 1 = k
    BY <1>2
  <2>2. f[k] = FollowCall(gr, table, first, f[k - 1]) /\ f[k - 1] \in FindFunction(gr)
    BY <1>1, <2>1 DEF FollowCallsRun
  <2>3. \A s \in UsedSymbols(gr), V \in SUBSET UsedSymbols(gr), empty \in EmptyTables(gr) :
          f[k][s][V][empty] = FollowSymbol(gr, table, first, f[k - 1], s, V, empty)
    BY <2>2 DEF FollowCall
  <2>4. FindsFollow(gr, all, low, f[k - 1], k - 1)
    BY <1>4
  <2>5. ASSUME NEW s \in Nonterminals(gr), NEW V \in SUBSET UsedSymbols(gr), NEW empty \in EmptyTables(gr),
               Grown(gr, all, low, empty)
        PROVE  FoundFollow(gr, all, low, s, V, k, f[k][s][V][empty])
    <3>1. FoundFollow(gr, all, low, s, V, (k - 1) + 1, FollowSymbol(gr, table, first, f[k - 1], s, V, empty))
      BY <2>1, <2>2, <2>4, <2>5, FollowSymbolFinds
    <3>. QED  BY <1>2, <2>1, <2>3, <3>1
  <2>6. FindsFollow(gr, all, low, f[k], k)
    BY <2>5 DEF FindsFollow
  <2>. QED  BY <2>1, <2>6
<1>. HIDE DEF T
<1>5. \A k \in 0 .. N : k \in T
  <2>. HIDE DEF N
  <2>. QED  BY ONLY <1>2, <1>3, <1>4, UpTo
<1>. HIDE DEF N
<1>6. N \in T /\ N \in 0 .. N
  BY <1>2, <1>5
<1>. QED  BY <1>1, <1>6 DEF T, N, FollowCallsRun

LEMMA FollowIsRight ==
  ASSUME NEW gr, WellFormed(gr), NEW all, NEW low, Allows(gr, all), NEW table, RightFollow(gr, all, table),
         NEW first, RightFirst(gr, all, first),
         NEW empty, Grown(gr, all, low, empty), NEW s \in Nonterminals(gr)
  PROVE  LET x == FollowCalls(gr, table, first)[s][{}][empty]
         IN  /\ x \in FindResult(gr) /\ Grown(gr, all, low, x.empty)
             /\ x.answer \subseteq FollowSet(gr, s)
             /\ all => x.answer = FollowSet(gr, s)
<1>. DEFINE call == FollowCalls(gr, table, first)
            x == call[s][{}][empty]
<1>0. empty \in EmptyTables(gr) /\ {} \in SUBSET UsedSymbols(gr) /\ s \in UsedSymbols(gr)
  BY DEF Grown, RightTable, UsedSymbols
<1>1. call \in FindFunction(gr) /\ FindsFollow(gr, all, low, call, Depth(gr))
  BY FollowCallsFinds
<1>. HIDE DEF call
<1>2. x \in FindResult(gr)
  BY <1>0, <1>1 DEF FindFunction
<1>3. FoundFollow(gr, all, low, s, {}, Depth(gr), x)
  BY <1>0, <1>1 DEF FindsFollow
<1>4. Left(gr, {}) < Depth(gr)
  BY NothingVisited
<1>. HIDE DEF x
<1>5. x.answer \subseteq FollowSet(gr, s) /\ Grown(gr, all, low, x.empty)
  BY <1>3 DEF FoundFollow
<1>6. ASSUME all PROVE FollowSet(gr, s) \subseteq x.answer
  <2>1. SearchedAfter(gr, x.answer, {}, x.visited) /\ CoveredAfter(gr, s, x.answer, x.visited)
    BY <1>3, <1>4, <1>6 DEF FoundFollow
  <2>. QED  BY <2>1, SearchAfterComplete
<1>. QED  BY <1>2, <1>5, <1>6 DEF x, call

-----------------------------------------------------------------------------
(* The answers that are stored *)

LEMMA StoreSetFacts ==
  ASSUME NEW table, NEW s, NEW A
  PROVE  /\ DOMAIN StoreSet(table, s, A) = DOMAIN table \cup {s}
         /\ StoreSet(table, s, A)[s] = A
         /\ \A t \in DOMAIN table : t # s => StoreSet(table, s, A)[t] = table[t]
BY DEF StoreSet

LEMMA StoreSetStands ==
  ASSUME NEW table, NEW s, NEW A, s \in DOMAIN table => A = table[s]
  PROVE  \A t \in DOMAIN table : t \in DOMAIN StoreSet(table, s, A) /\ StoreSet(table, s, A)[t] = table[t]
BY DEF StoreSet

LEMMA StoreSetEach ==
  ASSUME NEW table, NEW s, NEW A
  PROVE  \A t \in DOMAIN StoreSet(table, s, A) :
           \/ t = s /\ StoreSet(table, s, A)[t] = A
           \/ t \in DOMAIN table /\ StoreSet(table, s, A)[t] = table[t]
BY DEF StoreSet

LEMMA StoreSetRight ==
  ASSUME NEW gr, NEW all, NEW table, NEW s \in UsedSymbols(gr), NEW A \in SUBSET UsedSymbols(gr)
  PROVE  /\ RightFirst(gr, all, table) /\ A \subseteq FirstSet(gr, s) /\ (all => A = FirstSet(gr, s))
              => RightFirst(gr, all, StoreSet(table, s, A))
         /\ RightFollow(gr, all, table) /\ A \subseteq FollowSet(gr, s) /\ (all => A = FollowSet(gr, s))
              => RightFollow(gr, all, StoreSet(table, s, A))
<1>. DEFINE new == StoreSet(table, s, A)
<1>1. \A t \in DOMAIN new : (t = s /\ new[t] = A) \/ (t \in DOMAIN table /\ new[t] = table[t])
  BY StoreSetEach
<1>2. IsTable(gr, table) => IsTable(gr, new)
  <2>. HIDE DEF new
  <2>. QED  BY <1>1 DEF IsTable
<1>. HIDE DEF new
<1>. QED  BY <1>1, <1>2 DEF RightFirst, RightFollow, new

\* first() and follow() of a symbol that is stored are what is stored.
LEMMA FirstStored ==
  ASSUME NEW gr, WellFormed(gr), NEW table, IsTable(gr, table), NEW empty \in EmptyTables(gr),
         NEW s \in UsedSymbols(gr), s \in DOMAIN table
  PROVE  FirstCalls(gr, table)[s][{}][empty].answer = table[s]
<1>1. PICK f : FirstCallsRun(f, gr, table)
  BY FirstCallsLoop
<1>2. Depth(gr) \in 1 .. Depth(gr)
  BY RulesAreFinite
<1>3. FirstCalls(gr, table) = FirstCall(gr, table, f[Depth(gr) - 1])
  BY <1>1, <1>2 DEF FirstCallsRun
<1>4. FirstCalls(gr, table)[s][{}][empty] = FirstSymbol(gr, table, f[Depth(gr) - 1], s, {}, empty)
  BY <1>3 DEF FirstCall
<1>. QED  BY <1>4 DEF FirstSymbol

LEMMA FollowStored ==
  ASSUME NEW gr, WellFormed(gr), NEW table, IsTable(gr, table), NEW first, IsTable(gr, first),
         NEW empty \in EmptyTables(gr), NEW s \in UsedSymbols(gr), s \in DOMAIN table
  PROVE  FollowCalls(gr, table, first)[s][{}][empty].answer = table[s]
<1>1. PICK f : FollowCallsRun(f, gr, table, first)
  BY FollowCallsLoop
<1>2. Depth(gr) \in 1 .. Depth(gr)
  BY RulesAreFinite
<1>3. FollowCalls(gr, table, first) = FollowCall(gr, table, first, f[Depth(gr) - 1])
  BY <1>1, <1>2 DEF FollowCallsRun
<1>4. FollowCalls(gr, table, first)[s][{}][empty] = FollowSymbol(gr, table, first, f[Depth(gr) - 1], s, {}, empty)
  BY <1>3 DEF FollowCall
<1>. QED  BY <1>4 DEF FollowSymbol

\* Whether the answers to this grammar are to be complete.
AllFound(gr) == UsedOnce(gr, Nullable(gr)) /\ DefinesNoTerminal(gr)

\* Inductive: every table is right of the grammar.
RightAnswers ==
  /\ g \in Grammars /\ exact = TextbookSets(g)
  /\ RightTable(g, AllFound(g), emptyTable) /\ emptyTable.yes \cap emptyTable.no = {}
  /\ RightFirst(g, AllFound(g), firstTable)
  /\ RightFollow(g, AllFound(g), followTable) /\ DOMAIN followTable \subseteq Nonterminals(g)

LEMMA RightAnswersFacts ==
  ASSUME RightAnswers
  PROVE  /\ WellFormed(g) /\ Allows(g, AllFound(g)) /\ emptyTable \in EmptyTables(g)
         /\ Grown(g, AllFound(g), emptyTable, emptyTable)
         /\ IsTable(g, firstTable) /\ IsTable(g, followTable)
         /\ Asked \subseteq Nonterminals(g) /\ Nonterminals(g) \subseteq UsedSymbols(g)
BY GrammarsAssumption DEF RightAnswers, Allows, AllFound, Grown, RightTable, RightFirst, RightFollow,
                          Asked, UsedSymbols

LEMMA RightAnswersInit ==
  Init => RightAnswers
<1>. SUFFICES ASSUME Init PROVE RightAnswers
  OBVIOUS
<1>1. NothingStored \in EmptyTables(g) /\ NothingStored.yes = {} /\ NothingStored.no = {}
  BY DEF NothingStored, EmptyTables
<1>2. DOMAIN NoAnswers = {}
  BY DEF NoAnswers
<1>3. RightTable(g, AllFound(g), NothingStored)
  BY <1>1 DEF RightTable
<1>4. RightFirst(g, AllFound(g), NoAnswers) /\ RightFollow(g, AllFound(g), NoAnswers)
  BY <1>2 DEF RightFirst, RightFollow, IsTable
<1>. QED  BY <1>1, <1>2, <1>3, <1>4 DEF Init, RightAnswers

\* What AnswersStand says of a step.
Stand ==
  /\ emptyTable.yes \subseteq emptyTable'.yes /\ emptyTable.no \subseteq emptyTable'.no
  /\ emptyTable'.yes \cap emptyTable'.no = {}
  /\ \A s \in DOMAIN firstTable : s \in DOMAIN firstTable' /\ firstTable'[s] = firstTable[s]
  /\ \A s \in DOMAIN followTable : s \in DOMAIN followTable' /\ followTable'[s] = followTable[s]

LEMMA AskEmptyStep ==
  ASSUME RightAnswers, NEW s \in Asked, AskEmpty(s) PROVE RightAnswers' /\ Stand
<1>1. s \in UsedSymbols(g)
  BY RightAnswersFacts
<1>2. Grown(g, AllFound(g), emptyTable, emptyTable')
  BY <1>1, RightAnswersFacts, StoreRight DEF AskEmpty
<1>3. UNCHANGED <<g, exact, firstTable, followTable>>
  BY DEF AskEmpty
<1>. QED  BY <1>2, <1>3 DEF RightAnswers, Stand, Grown

LEMMA AskFirstStep ==
  ASSUME RightAnswers, NEW s \in Asked, AskFirst(s) PROVE RightAnswers' /\ Stand
<1>. DEFINE x == FirstCalls(g, firstTable)[s][{}][emptyTable]
<1>1. s \in UsedSymbols(g)
  BY RightAnswersFacts
<1>2. /\ firstTable' = StoreSet(firstTable, s, x.answer) /\ emptyTable' = x.empty
      /\ UNCHANGED <<g, exact, followTable>>
  BY DEF AskFirst
<1>3. /\ x \in FindResult(g) /\ Grown(g, AllFound(g), emptyTable, x.empty)
      /\ x.answer \subseteq FirstSet(g, s)
      /\ AllFound(g) => x.answer = FirstSet(g, s)
  <2>1. RightFirst(g, AllFound(g), firstTable)
    BY DEF RightAnswers
  <2>. QED  BY <1>1, <2>1, RightAnswersFacts, FirstIsRight
<1>4. s \in DOMAIN firstTable => x.answer = firstTable[s]
  BY <1>1, RightAnswersFacts, FirstStored
<1>. HIDE DEF x
<1>5. \A t \in DOMAIN firstTable : t \in DOMAIN firstTable' /\ firstTable'[t] = firstTable[t]
  BY <1>2, <1>4, StoreSetStands
<1>6. RightFirst(g, AllFound(g), firstTable')
  <2>1. x.answer \in SUBSET UsedSymbols(g)
    BY <1>3 DEF FindResult
  <2>2. RightFirst(g, AllFound(g), firstTable)
    BY DEF RightAnswers
  <2>. QED  BY <1>1, <1>2, <1>3, <2>1, <2>2, StoreSetRight
<1>. QED  BY <1>2, <1>3, <1>5, <1>6 DEF RightAnswers, Stand, Grown

LEMMA AskFirstOfStep ==
  ASSUME RightAnswers, NEW seq \in Tails(g), AskFirstOf(seq) PROVE RightAnswers' /\ Stand
<1>. DEFINE x == FirstOfStored(g, firstTable, emptyTable, seq)
<1>1. seq \in Seq(UsedSymbols(g))
  BY RightAnswersFacts, TailSymbols
<1>2. emptyTable' = x.empty /\ UNCHANGED <<g, exact, firstTable, followTable>>
  BY DEF AskFirstOf
<1>3. Grown(g, AllFound(g), emptyTable, x.empty)
  <2>1. RightFirst(g, AllFound(g), firstTable)
    BY DEF RightAnswers
  <2>. QED  BY <1>1, <2>1, RightAnswersFacts, FirstOfStoredIsRight
<1>. HIDE DEF x
<1>. QED  BY <1>2, <1>3 DEF RightAnswers, Stand, Grown

LEMMA AskFollowStep ==
  ASSUME RightAnswers, NEW s \in Asked, AskFollow(s) PROVE RightAnswers' /\ Stand
<1>. DEFINE x == FollowCalls(g, followTable, firstTable)[s][{}][emptyTable]
<1>1. s \in Nonterminals(g) /\ s \in UsedSymbols(g)
  BY RightAnswersFacts
<1>2. /\ followTable' = StoreSet(followTable, s, x.answer) /\ emptyTable' = x.empty
      /\ UNCHANGED <<g, exact, firstTable>>
  BY DEF AskFollow
<1>3. /\ x \in FindResult(g) /\ Grown(g, AllFound(g), emptyTable, x.empty)
      /\ x.answer \subseteq FollowSet(g, s)
      /\ AllFound(g) => x.answer = FollowSet(g, s)
  <2>1. RightFirst(g, AllFound(g), firstTable) /\ RightFollow(g, AllFound(g), followTable)
    BY DEF RightAnswers
  <2>. QED  BY <1>1, <2>1, RightAnswersFacts, FollowIsRight
<1>4. s \in DOMAIN followTable => x.answer = followTable[s]
  BY <1>1, RightAnswersFacts, FollowStored
<1>. HIDE DEF x
<1>5. \A t \in DOMAIN followTable : t \in DOMAIN followTable' /\ followTable'[t] = followTable[t]
  BY <1>2, <1>4, StoreSetStands
<1>6. RightFollow(g, AllFound(g), followTable') /\ DOMAIN followTable' \subseteq Nonterminals(g)
  <2>1. x.answer \in SUBSET UsedSymbols(g)
    BY <1>3 DEF FindResult
  <2>2. RightFollow(g, AllFound(g), followTable) /\ DOMAIN followTable \subseteq Nonterminals(g)
    BY DEF RightAnswers
  <2>3. DOMAIN followTable' = DOMAIN followTable \cup {s}
    BY <1>2, StoreSetFacts
  <2>. QED  BY <1>1, <1>2, <1>3, <2>1, <2>2, <2>3, StoreSetRight
<1>. QED  BY <1>2, <1>3, <1>5, <1>6 DEF RightAnswers, Stand, Grown

LEMMA RightAnswersNext ==
  RightAnswers /\ [Next]_vars => RightAnswers' /\ [Stand]_vars
<1>. SUFFICES ASSUME RightAnswers, [Next]_vars PROVE RightAnswers' /\ [Stand]_vars
  OBVIOUS
<1>1. CASE UNCHANGED vars
  BY <1>1 DEF RightAnswers, vars
<1>2. ASSUME NEW s \in Asked, AskEmpty(s) PROVE RightAnswers' /\ Stand
  BY <1>2, AskEmptyStep
<1>3. ASSUME NEW s \in Asked, AskFirst(s) PROVE RightAnswers' /\ Stand
  BY <1>3, AskFirstStep
<1>4. ASSUME NEW s \in Asked, AskFollow(s) PROVE RightAnswers' /\ Stand
  BY <1>4, AskFollowStep
<1>5. ASSUME NEW seq \in Tails(g), AskFirstOf(seq) PROVE RightAnswers' /\ Stand
  BY <1>5, AskFirstOfStep
<1>. QED  BY <1>1, <1>2, <1>3, <1>4, <1>5 DEF Next

LEMMA AlwaysRight ==
  Spec => []RightAnswers
<1>1. RightAnswers /\ [Next]_vars => RightAnswers'
  BY RightAnswersNext
<1>. QED  BY <1>1, RightAnswersInit, PTL DEF Spec

\* What right tables say of the textbook sets.
LEMMA RightAnswersSay ==
  ASSUME RightAnswers
  PROVE  /\ Sound
         /\ DefinesNoTerminal(g) => ExactWhenApart
<1>1. /\ exact.nullable = Nullable(g)
      /\ exact.first = [s \in UsedSymbols(g) |-> FirstSet(g, s)]
      /\ exact.follow = [s \in Nonterminals(g) |-> FollowSet(g, s)]
  BY DEF RightAnswers, TextbookSets, FirstSet, BeginningOf, FollowSet, FollowedOf
<1>2. DOMAIN firstTable \subseteq UsedSymbols(g) /\ DOMAIN followTable \subseteq Nonterminals(g)
  BY DEF RightAnswers, RightFirst, IsTable
<1>3. ASSUME NEW seq \in Tails(g)
      PROVE  /\ IsEmptySeq(g, emptyTable, seq) => NullableSeq(exact, seq)
             /\ AllFound(g) => (NullableSeq(exact, seq) => IsEmptySeq(g, emptyTable, seq))
             /\ FirstAnswer(seq) \subseteq FirstOf(exact, seq)
             /\ AllFound(g) => FirstAnswer(seq) = FirstOf(exact, seq)
  <2>1. seq \in Seq(UsedSymbols(g))
    BY RightAnswersFacts, TailSymbols
  <2>2. IsEmptySeq(g, emptyTable, seq) => AllIn(seq, Nullable(g))
    BY <2>1, RightAnswersFacts, EmptyIsSound DEF RightAnswers, RightTable
  <2>3. AllFound(g) => (AllIn(seq, Nullable(g)) => IsEmptySeq(g, emptyTable, seq))
    <3>. SUFFICES ASSUME AllFound(g) PROVE AllIn(seq, Nullable(g)) => IsEmptySeq(g, emptyTable, seq)
      OBVIOUS
    <3>1. RightTable(g, TRUE, emptyTable) /\ UsedOnce(g, Nullable(g)) /\ DefinesNoTerminal(g)
      BY DEF RightAnswers, RightTable, AllFound
    <3>. QED  BY <3>1, RightAnswersFacts, EmptyIsExact
  <2>4. RightFirst(g, AllFound(g), firstTable)
    BY DEF RightAnswers
  <2>5. /\ FirstAnswer(seq) \subseteq Starting(g, seq, Len(seq))
        /\ AllFound(g) => FirstAnswer(seq) = Starting(g, seq, Len(seq))
    <3>. DEFINE x == FirstOfStored(g, firstTable, emptyTable, seq)
    <3>0. WellFormed(g) /\ Allows(g, AllFound(g)) /\ Grown(g, AllFound(g), emptyTable, emptyTable)
      BY RightAnswersFacts
    <3>1. /\ x.answer \subseteq Starting(g, seq, Len(seq))
          /\ AllFound(g) => x.answer = Starting(g, seq, Len(seq))
      <4>. DEFINE all == AllFound(g)
      <4>1. RightFirst(g, all, firstTable) /\ WellFormed(g) /\ Allows(g, all)
            /\ Grown(g, all, emptyTable, emptyTable)
        BY <2>4, <3>0
      <4>. HIDE DEF all
      <4>2. /\ x \in BeginResult(g) /\ Grown(g, all, emptyTable, x.empty)
            /\ x.answer \subseteq Starting(g, seq, Len(seq))
            /\ all => x.answer = Starting(g, seq, Len(seq))
        BY <2>1, <4>1, FirstOfStoredIsRight
      <4>. QED  BY <4>2 DEF all
    <3>. QED  BY <3>1 DEF FirstAnswer
  <2>6. Starting(g, seq, Len(seq)) = FirstOf(exact, seq)
    BY <2>1, StartingIsFirstOf DEF RightAnswers
  <2>. QED  BY <1>1, <2>2, <2>3, <2>5, <2>6 DEF NullableSeq
<1>4. Sound
  <2>1. emptyTable.yes \subseteq exact.nullable
    BY <1>1 DEF RightAnswers, RightTable
  <2>2. \A s \in DOMAIN firstTable : firstTable[s] \subseteq exact.first[s]
    BY <1>1, <1>2 DEF RightAnswers, RightFirst
  <2>3. \A s \in DOMAIN followTable : followTable[s] \subseteq exact.follow[s]
    BY <1>1, <1>2 DEF RightAnswers, RightFollow
  <2>. QED  BY <1>3, <2>1, <2>2, <2>3 DEF Sound
<1>5. ASSUME DefinesNoTerminal(g), Apart PROVE ExactWhenApart
  <2>0. AllFound(g)
    BY <1>1, <1>5 DEF AllFound, Apart
  <2>1. emptyTable.yes \subseteq exact.nullable /\ emptyTable.no \cap exact.nullable = {}
    BY <1>1, <2>0 DEF RightAnswers, RightTable
  <2>2. \A s \in DOMAIN firstTable : firstTable[s] = exact.first[s]
    BY <1>1, <1>2, <2>0 DEF RightAnswers, RightFirst
  <2>3. \A s \in DOMAIN followTable : followTable[s] = exact.follow[s]
    BY <1>1, <1>2, <2>0 DEF RightAnswers, RightFollow
  <2>4. \A seq \in Tails(g) : IsEmptySeq(g, emptyTable, seq) \in BOOLEAN /\ NullableSeq(exact, seq) \in BOOLEAN
    <3>1. ASSUME NEW seq \in Tails(g) PROVE IsEmptySeq(g, emptyTable, seq) \in BOOLEAN
      <4>1. EmptyCalls(g, emptyTable) \in EmptyFunction(g) /\ seq \in Seq(UsedSymbols(g))
            /\ {} \in SUBSET UsedSymbols(g)
        BY RightAnswersFacts, EmptyCallsType, TailSymbols
      <4>. QED  BY <4>1, EmptySequenceType DEF IsEmptySeq, EmptyResult
    <3>. QED  BY <3>1 DEF NullableSeq, AllIn
  <2>. QED  BY <1>3, <2>0, <2>1, <2>2, <2>3, <2>4 DEF ExactWhenApart
<1>. QED  BY <1>4, <1>5 DEF ExactWhenApart

-----------------------------------------------------------------------------
(* The theorems *)

\* Whatever was asked before, empty(), first() and follow() claim nothing that
\* the definitions do not say, for every grammar.
THEOREM AnswersAreSound ==
  Spec => []Sound
<1>1. RightAnswers => Sound
  BY RightAnswersSay
<1>. QED  BY <1>1, AlwaysRight, PTL

\* If no rule defines a terminal, all the answers to a grammar that uses no symbol
\* twice that can be empty are those of the definitions, whatever was asked before.
THEOREM AnswersAreExact ==
  ASSUME \A gr \in Grammars : DefinesNoTerminal(gr)
  PROVE  Spec => []ExactWhenApart
<1>1. RightAnswers => ExactWhenApart
  BY RightAnswersSay DEF RightAnswers
<1>. QED  BY <1>1, AlwaysRight, PTL

\* An answer that is stored stays, and no symbol gets two.
THEOREM StoredAnswersStand ==
  Spec => AnswersStand
<1>1. RightAnswers /\ [Next]_vars => [Stand]_vars
  BY RightAnswersNext
<1>. QED  BY <1>1, AlwaysRight, PTL DEF Spec, AnswersStand, Stand

=============================================================================
