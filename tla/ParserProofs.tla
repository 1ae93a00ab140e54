---------------------------- MODULE ParserProofs ----------------------------
(***************************************************************************)
(* Theorems about parse(): for every set of tables that prepare() may      *)
(* leave, whatever conflicts were settled in them and whatever the         *)
(* tokenizer hands out, the stack is a path of the automaton and no        *)
(* assertion of parse() fails; and the values on the stack are those of    *)
(* the tokens shifted, each once and in order.                             *)
(***************************************************************************)
EXTENDS ParserValues, FlattenProofs, SequenceTheorems, TLAPS

\* The condition of the theorems: the action of a rule of its own leaves its
\* arguments where parse() counts them.
ArgumentsStay ==
  \A k \in DOMAIN Prepared : \A r \in RuleIndex(Prepared[k].grammar) :
    Prepared[k].style[r] = "ByValue" => IsMidrule(Prepared[k].grammar.rules[r])

Entry(t, V) == [state : DOMAIN t.states, symbol : Symbol, value : V]

\* An item whose read position is behind entry k has its symbols on the stack up
\* to there, above the state it was begun in.
Placed(t, st, k, item) ==
  /\ item.pos < k
  /\ \A q \in 1 .. item.pos : st[k - item.pos + q].symbol = Rhs(t.grammar, item)[q]
  /\ [item EXCEPT !.pos = 0] \in t.states[st[k - item.pos].state]

ItemsFit(t, st, k) == \A item \in t.states[st[k].state] : Placed(t, st, k, item)

\* The symbols on top of the stack are those of a word.
Spells(st, word) == \A q \in 1 .. Len(word) : st[Len(st) - Len(word) + q].symbol = word[q]

\* A stack has the symbols of another one below it.
SameSymbols(lower, st) == \A k \in 1 .. Len(lower) : lower[k].symbol = st[k].symbol

EndsWith(a, word) == \A q \in 1 .. Len(word) : a[Len(a) - Len(word) + q] = word[q]

\* StackIsPath for every entry, with the shape of the entries.
PathOn(t, st) ==
  /\ \E V : st \in Seq(Entry(t, V))
  /\ st # <<>> /\ st[1].state = 1
  /\ \A k \in 2 .. Len(st) : <<st[k - 1].state, st[k].symbol, st[k].state>> \in t.transitions
  /\ \A k \in 1 .. Len(st) : ItemsFit(t, st, k)

\* The inductive invariant.
IInv ==
  /\ parser \in DOMAIN Prepared
  /\ PathOn(table, stack)
  /\ AssertionsHold

-----------------------------------------------------------------------------
(* Stacks *)

\* Where a rule is begun there is a goto for it.
LEMMA RuleHasGoto ==
  ASSUME NEW t, TableOK(t), NEW i \in DOMAIN t.states, NEW r \in RuleIndex(t.grammar) \ {StartRule},
         NewItem(r) \in t.states[i]
  PROVE  <<i, t.grammar.rules[r].lhs>> \in DOMAIN t.goto /\ MidruleFits(t, r, i)
<1>1. Leads(t, i, t.grammar.rules[r].lhs) /\ MidruleFits(t, r, i)
  BY DEF TableOK, AutomatonFits, RuleBegins
<1>2. t.grammar.rules[r].lhs \notin t.grammar.terminals
  BY DEF TableOK, GrammarFits
<1>. QED  BY <1>1, <1>2 DEF TableOK, Leads

\* An item of a state is a rule and a position in it.
LEMMA ItemShape ==
  ASSUME NEW t, TableOK(t), NEW i \in DOMAIN t.states, NEW item \in t.states[i]
  PROVE  /\ item \in [rule : RuleIndex(t.grammar), pos : Nat]
         /\ item.rule \in RuleIndex(t.grammar) /\ item.pos \in Nat
         /\ item.pos <= Len(Rhs(t.grammar, item))
<1>1. t.states \in Seq(SUBSET Item(t.grammar))
  BY DEF TableOK, AutomatonFits
<1>2. item \in Item(t.grammar)
  BY <1>1
<1>. QED
  BY <1>2 DEF Item

\* The state of an entry, and its items.
LEMMA StateOnStack ==
  ASSUME NEW t, TableOK(t), NEW st, PathOn(t, st), NEW k \in 1 .. Len(st)
  PROVE  /\ st[k].state \in DOMAIN t.states /\ st[k].symbol \in Symbol
         /\ Len(st) \in Nat
         /\ ItemsFit(t, st, k)
<1>1. PICK V : st \in Seq(Entry(t, V))
  BY DEF PathOn
<1>2. Len(st) \in Nat /\ st[k] \in Entry(t, V)
  BY <1>1, LenProperties, ElementOfSeq
<1>3. st[k].state \in DOMAIN t.states /\ st[k].symbol \in Symbol
  BY <1>2 DEF Entry
<1>. QED
  BY <1>2, <1>3 DEF PathOn

\* Only the states and symbols up to its entry matter to an item.
LEMMA SamePlace ==
  ASSUME NEW t, NEW st, NEW st2, NEW k \in Nat, NEW item, item.pos \in Nat,
         Placed(t, st, k, item),
         \A i \in 1 .. k : st2[i].state = st[i].state /\ st2[i].symbol = st[i].symbol
  PROVE  Placed(t, st2, k, item)
<1>1. item.pos < k
  BY DEF Placed
<1>2. k - item.pos \in 1 .. k /\ \A q \in 1 .. item.pos : k - item.pos + q \in 1 .. k
  BY <1>1
<1>3. st2[k - item.pos].state = st[k - item.pos].state
  BY <1>2
<1>4. \A q \in 1 .. item.pos : st2[k - item.pos + q].symbol = st[k - item.pos + q].symbol
  BY <1>2
<1>. QED
  BY <1>1, <1>3, <1>4 DEF Placed

\* The items of an entry fit the stack up to it.
LEMMA SameItems ==
  ASSUME NEW t, TableOK(t), NEW st, PathOn(t, st), NEW st2, NEW k \in 1 .. Len(st),
         \A i \in 1 .. k : st2[i].state = st[i].state /\ st2[i].symbol = st[i].symbol
  PROVE  ItemsFit(t, st2, k)
<1>1. /\ st[k].state \in DOMAIN t.states /\ Len(st) \in Nat
      /\ ItemsFit(t, st, k)
  BY StateOnStack
<1>2. st2[k].state = st[k].state
  BY <1>1
<1>3. ASSUME NEW item \in t.states[st[k].state]
      PROVE  Placed(t, st2, k, item)
  <2>1. item.pos \in Nat
    BY <1>1, ItemShape
  <2>2. Placed(t, st, k, item)
    BY <1>1 DEF ItemsFit
  <2>. QED
    BY <1>1, <2>1, <2>2, SamePlace
<1>. QED
  BY <1>2, <1>3 DEF ItemsFit

\* A transition from the state on top makes the stack a longer path.
LEMMA Pushed ==
  ASSUME NEW t, TableOK(t), NEW st, PathOn(t, st), NEW s \in Symbol, NEW j, NEW v,
         <<st[Len(st)].state, s, j>> \in t.transitions
  PROVE  PathOn(t, Append(st, [state |-> j, symbol |-> s, value |-> v]))
<1>. DEFINE top == [state |-> j, symbol |-> s, value |-> v]
            st2 == Append(st, top)
            n == Len(st)
<1>1. PICK V : st \in Seq(Entry(t, V))
  BY DEF PathOn
<1>2. j \in DOMAIN t.states
  BY DEF TableOK, AutomatonFits
<1>3. st \in Seq(Entry(t, V \cup {v})) /\ top \in Entry(t, V \cup {v})
  <2>1. Entry(t, V) \subseteq Entry(t, V \cup {v})
    BY DEF Entry
  <2>2. top \in Entry(t, V \cup {v})
    BY <1>2 DEF Entry
  <2>. QED
    BY <1>1, <2>1, <2>2, SeqMonotonic
<1>4. /\ st2 \in Seq(Entry(t, V \cup {v})) /\ Len(st2) = n + 1 /\ n \in Nat
      /\ \A k \in 1 .. n : st2[k] = st[k]
      /\ st2[n + 1] = top
  BY <1>3, AppendProperties, LenProperties
<1>T. st2[n + 1].state = j /\ st2[n + 1].symbol = s
  BY <1>4
<1>5. n >= 1 /\ st[1].state = 1
  BY <1>1, EmptySeq, LenProperties DEF PathOn
<1>. HIDE DEF st2, top
<1>6. \A k \in 2 .. n + 1 : <<st2[k - 1].state, st2[k].symbol, st2[k].state>> \in t.transitions
  <2>. SUFFICES ASSUME NEW k \in 2 .. n + 1
                PROVE  <<st2[k - 1].state, st2[k].symbol, st2[k].state>> \in t.transitions
    OBVIOUS
  <2>1. CASE k <= n
    <3>1. st2[k - 1] = st[k - 1] /\ st2[k] = st[k]
      BY <1>4, <2>1
    <3>. QED
      BY <1>4, <2>1, <3>1 DEF PathOn
  <2>2. CASE k = n + 1
    <3>1. st2[k - 1] = st[n]
      BY <1>4, <1>5, <2>2
    <3>. QED
      BY <1>T, <2>2, <3>1
  <2>. QED
    BY <1>4, <2>1, <2>2
<1>7. \A k \in 1 .. n : ItemsFit(t, st2, k)
  <2>. TAKE k \in 1 .. n
  <2>1. k \in 1 .. Len(st) /\ \A i \in 1 .. k : st2[i].state = st[i].state /\ st2[i].symbol = st[i].symbol
    BY <1>4
  <2>. QED
    BY <2>1, SameItems
<1>8. ItemsFit(t, st2, n + 1)
  <2>. SUFFICES ASSUME NEW item \in t.states[j]
                PROVE  Placed(t, st2, n + 1, item)
    BY <1>T DEF ItemsFit
  <2>1. item \in [rule : RuleIndex(t.grammar), pos : Nat] /\ item.pos \in Nat
    BY <1>2, ItemShape
  <2>2. CASE item.pos = 0
    <3>1. [item EXCEPT !.pos = 0] = item
      BY <2>1, <2>2
    <3>2. item.pos < n + 1 /\ n + 1 - item.pos = n + 1 /\ 1 .. item.pos = {}
      BY <1>4, <2>2
    <3>3. [item EXCEPT !.pos = 0] \in t.states[st2[n + 1 - item.pos].state]
      BY <1>T, <3>1, <3>2
    <3>4. \A q \in 1 .. item.pos : st2[n + 1 - item.pos + q].symbol = Rhs(t.grammar, item)[q]
      BY <3>2
    <3>. QED
      BY ONLY <1>4, <2>1, <3>2, <3>3, <3>4 DEF Placed
  <2>3. CASE item.pos > 0
    <3>. DEFINE back == [item EXCEPT !.pos = @ - 1]
    <3>1. back \in t.states[st[n].state] /\ Rhs(t.grammar, item)[item.pos] = s
      <4>1. CameOver(t, <<st[n].state, s, j>>)
        BY DEF TableOK, AutomatonFits
      <4>. QED
        BY <2>3, <4>1 DEF CameOver
    <3>2. /\ back.rule = item.rule /\ back.pos = item.pos - 1
          /\ [back EXCEPT !.pos = 0] = [item EXCEPT !.pos = 0]
      BY <2>1
    <3>. HIDE DEF back
    <3>3. Placed(t, st2, n, back)
      <4>1. ItemsFit(t, st2, n) /\ st2[n] = st[n]
        BY <1>4, <1>5, <1>7
      <4>. QED
        BY <3>1, <4>1 DEF ItemsFit
    <3>4. back.pos < n /\ n - back.pos = n + 1 - item.pos
      BY <1>4, <2>1, <3>2, <3>3 DEF Placed
    <3>5. item.pos < n + 1
      BY <1>4, <2>1, <3>2, <3>4
    <3>6. [item EXCEPT !.pos = 0] \in t.states[st2[n + 1 - item.pos].state]
      BY <3>2, <3>3, <3>4 DEF Placed
    <3>7. Rhs(t.grammar, back) = Rhs(t.grammar, item)
      BY <3>2 DEF Rhs
    <3>8. ASSUME NEW q \in 1 .. item.pos
          PROVE  st2[n + 1 - item.pos + q].symbol = Rhs(t.grammar, item)[q]
      <4>1. CASE q = item.pos
        <5>1. n + 1 - item.pos + q = n + 1
          BY <1>4, <2>1, <4>1
        <5>. QED
          BY <1>T, <3>1, <4>1, <5>1
      <4>2. CASE q # item.pos
        <5>1. q \in 1 .. back.pos
          BY <2>1, <3>2, <4>2
        <5>. QED
          BY <3>3, <3>4, <3>7, <5>1 DEF Placed
      <4>. QED
        BY <4>1, <4>2
    <3>. QED
      BY ONLY <1>4, <2>1, <3>5, <3>6, <3>8 DEF Placed
  <2>. QED
    BY <2>1, <2>2, <2>3
<1>9. st2[1].state = 1 /\ st2 # <<>>
  BY <1>4, <1>5 DEF PathOn
<1>10. \A k \in 1 .. n + 1 : ItemsFit(t, st2, k)
  BY <1>4, <1>7, <1>8
<1>. QED
  BY <1>4, <1>6, <1>9, <1>10 DEF PathOn, st2, top

\* What is left when entries are popped is a path.
LEMMA Cut ==
  ASSUME NEW t, TableOK(t), NEW st, PathOn(t, st), NEW m \in 1 .. Len(st)
  PROVE  PathOn(t, SubSeq(st, 1, m))
<1>. DEFINE st2 == SubSeq(st, 1, m)
<1>1. PICK V : st \in Seq(Entry(t, V))
  BY DEF PathOn
<1>2. /\ st2 \in Seq(Entry(t, V)) /\ Len(st2) = m /\ Len(st) \in Nat
      /\ \A k \in 1 .. m : st2[k] = st[k]
  BY <1>1, LenProperties, SubSeqProperties
<1>. HIDE DEF st2
<1>3. \A k \in 2 .. m : <<st2[k - 1].state, st2[k].symbol, st2[k].state>> \in t.transitions
  <2>. SUFFICES ASSUME NEW k \in 2 .. m
                PROVE  <<st2[k - 1].state, st2[k].symbol, st2[k].state>> \in t.transitions
    OBVIOUS
  <2>1. st2[k - 1] = st[k - 1] /\ st2[k] = st[k] /\ k \in 2 .. Len(st)
    BY <1>2
  <2>. QED
    BY <2>1 DEF PathOn
<1>4. \A k \in 1 .. m : ItemsFit(t, st2, k)
  <2>. TAKE k \in 1 .. m
  <2>1. k \in 1 .. Len(st) /\ \A i \in 1 .. k : st2[i].state = st[i].state /\ st2[i].symbol = st[i].symbol
    BY <1>2
  <2>. QED
    BY <2>1, SameItems
<1>5. st2 # <<>> /\ st2[1].state = 1
  BY <1>2, EmptySeq DEF PathOn
<1>. QED
  BY <1>2, <1>3, <1>4, <1>5 DEF PathOn, st2

\* Values may change where they are.
LEMMA SameShape ==
  ASSUME NEW t, TableOK(t), NEW st, PathOn(t, st), NEW st2,
         DOMAIN st2 = DOMAIN st,
         \A k \in DOMAIN st : st2[k] = [state |-> st[k].state, symbol |-> st[k].symbol, value |-> st2[k].value],
         st2 = [k \in DOMAIN st |-> st2[k]]
  PROVE  /\ PathOn(t, st2) /\ Len(st2) = Len(st)
         /\ \A k \in 1 .. Len(st) : st2[k].state = st[k].state /\ st2[k].symbol = st[k].symbol
<1>. DEFINE W == {st2[k].value : k \in DOMAIN st}
<1>1. PICK V : st \in Seq(Entry(t, V))
  BY DEF PathOn
<1>2. /\ Len(st) \in Nat /\ DOMAIN st = 1 .. Len(st) /\ Len(st) >= 1
      /\ \A k \in 1 .. Len(st) : st[k] \in Entry(t, V)
  BY <1>1, EmptySeq, LenProperties, ElementOfSeq DEF PathOn
<1>3. \A k \in 1 .. Len(st) : st2[k] \in Entry(t, W)
  <2>. TAKE k \in 1 .. Len(st)
  <2>1. st[k].state \in DOMAIN t.states /\ st[k].symbol \in Symbol
    BY <1>2 DEF Entry
  <2>2. st2[k].value \in W
    BY <1>2
  <2>3. st2[k] = [state |-> st[k].state, symbol |-> st[k].symbol, value |-> st2[k].value]
    BY <1>2
  <2>. HIDE DEF W
  <2>4. [state |-> st[k].state, symbol |-> st[k].symbol, value |-> st2[k].value] \in Entry(t, W)
    BY <2>1, <2>2 DEF Entry
  <2>. QED
    BY <2>3, <2>4
<1>. HIDE DEF W
<1>4. st2 \in [1 .. Len(st) -> Entry(t, W)]
  BY <1>2, <1>3
<1>5. st2 \in Seq(Entry(t, W))
  BY <1>2, <1>4, IsASeq
<1>6. Len(st2) = Len(st)
  BY <1>2, <1>4, <1>5, LenProperties
<1>7. \A k \in 1 .. Len(st) : st2[k].state = st[k].state /\ st2[k].symbol = st[k].symbol
  <2>. TAKE k \in 1 .. Len(st)
  <2>1. st2[k] = [state |-> st[k].state, symbol |-> st[k].symbol, value |-> st2[k].value]
    BY <1>2
  <2>. QED
    BY <2>1
<1>8. st2 # <<>> /\ st2[1].state = 1
  BY <1>2, <1>5, <1>6, <1>7, EmptySeq DEF PathOn
<1>9. \A k \in 2 .. Len(st) : <<st2[k - 1].state, st2[k].symbol, st2[k].state>> \in t.transitions
  <2>. SUFFICES ASSUME NEW k \in 2 .. Len(st)
                PROVE  <<st2[k - 1].state, st2[k].symbol, st2[k].state>> \in t.transitions
    OBVIOUS
  <2>1. k - 1 \in 1 .. Len(st) /\ k \in 1 .. Len(st)
    BY <1>2
  <2>2. /\ st2[k - 1].state = st[k - 1].state
        /\ st2[k].symbol = st[k].symbol /\ st2[k].state = st[k].state
    BY <1>7, <2>1
  <2>. QED
    BY <2>2 DEF PathOn
<1>10. \A k \in 1 .. Len(st) : ItemsFit(t, st2, k)
  <2>. TAKE k \in 1 .. Len(st)
  <2>1. k \in 1 .. Len(st) /\ \A i \in 1 .. k : st2[i].state = st[i].state /\ st2[i].symbol = st[i].symbol
    BY <1>2, <1>7
  <2>. QED
    BY <2>1, SameItems
<1>. QED
  BY <1>5, <1>6, <1>7, <1>8, <1>9, <1>10 DEF PathOn

-----------------------------------------------------------------------------
(* Reductions *)

\* The table of a parser is one of those that prepare() leaves.
LEMMA TableFits == IInv => TableOK(table) /\ Len(stack) \in Nat /\ Len(stack) >= 1
<1>. SUFFICES ASSUME IInv
              PROVE  TableOK(table) /\ Len(stack) \in Nat /\ Len(stack) >= 1
  OBVIOUS
<1>1. TableOK(table)
  BY TablesAssumption DEF IInv, table
<1>2. Len(stack) \in Nat /\ Len(stack) >= 1
  BY EmptySeq, LenProperties DEF IInv, PathOn
<1>. QED
  BY <1>1, <1>2

\* A rule that the table reduces by lies on the stack, in a state that has been
\* come to from one with a goto for its left-hand side.
LEMMA HandleOnStack ==
  ASSUME IInv, NEW s, HasAction(s), ActionOf(s).kind = "Reduce",
         NEW r, r = ActionOf(s).rule, NEW rule, rule = g.rules[r]
  PROVE  /\ r \in RuleIndex(g) \ {StartRule}
         /\ Len(rule.rhs) \in Nat /\ Len(stack) - Len(rule.rhs) \in 1 .. Len(stack)
         /\ Spells(stack, rule.rhs)
         /\ GotoKey(rule) \in DOMAIN table.goto
         /\ MidruleFits(table, r, GotoKey(rule)[1])
         /\ rule.lhs \in Symbol /\ rule.rhs \in Seq(Symbol)
<1>. DEFINE n == Len(stack)
            base == n - Len(rule.rhs)
<1>1. TableOK(table) /\ n \in Nat /\ n >= 1 /\ PathOn(table, stack)
  BY TableFits DEF IInv
<1>2. Top.state \in DOMAIN table.states /\ ItemsFit(table, stack, n)
  BY <1>1, StateOnStack DEF Top
<1>3. ActionFits(table, Top.state, s, ActionOf(s))
  <2>1. <<Top.state, s>> \in DOMAIN table.action
    BY DEF HasAction, EntryOf
  <2>2. ActionOf(s) = table.action[<<Top.state, s>>]
    BY DEF ActionOf, EntryOf
  <2>. QED
    BY <1>1, <2>1, <2>2 DEF TableOK
<1>4. r \in RuleIndex(g) \ {StartRule} /\ \E item \in table.states[Top.state] : item.rule = r /\ IsFinal(g, item)
  BY <1>3 DEF ActionFits, g
<1>5. PICK item \in table.states[Top.state] : item.rule = r /\ IsFinal(g, item)
  BY <1>4
<1>6. item \in [rule : RuleIndex(g), pos : Nat] /\ item.pos = Len(rule.rhs) /\ item.pos \in Nat
  <2>1. item \in [rule : RuleIndex(g), pos : Nat] /\ item.pos \in Nat
    BY <1>1, <1>2, ItemShape DEF g
  <2>. QED
    BY <1>5, <2>1 DEF IsFinal, Rhs
<1>7. Placed(table, stack, n, item)
  BY <1>2 DEF ItemsFit, Top
<1>8. rule.lhs \in Symbol /\ rule.rhs \in Seq(Symbol)
  <2>1. g.rules \in Seq(Rule)
    BY <1>1 DEF TableOK, GrammarFits, g
  <2>2. rule \in Rule
    BY <1>4, <2>1 DEF RuleIndex
  <2>. QED
    BY <2>2 DEF Rule
<1>9. base \in 1 .. n
  <2>1. item.pos < n
    BY <1>7 DEF Placed
  <2>. QED
    BY <1>1, <1>6, <2>1
<1>10. [item EXCEPT !.pos = 0] \in table.states[stack[base].state]
  BY <1>6, <1>7 DEF Placed
<1>11. Spells(stack, rule.rhs)
  <2>1. \A q \in 1 .. Len(rule.rhs) : stack[base + q].symbol = rule.rhs[q]
    BY <1>5, <1>6, <1>7 DEF Placed, Rhs, g
  <2>. QED
    BY <2>1 DEF Spells
<1>12. <<stack[base].state, rule.lhs>> \in DOMAIN table.goto /\ MidruleFits(table, r, stack[base].state)
  <2>. DEFINE begun == [item EXCEPT !.pos = 0]
  <2>1. begun.pos = 0 /\ begun.rule = r
    BY <1>5, <1>6
  <2>2. stack[base].state \in DOMAIN table.states
    BY <1>1, <1>9, StateOnStack
  <2>3. begun = NewItem(r)
    BY <1>5, <1>6 DEF NewItem
  <2>4. NewItem(r) \in table.states[stack[base].state]
    BY <1>10, <2>3
  <2>5. r \in RuleIndex(table.grammar) \ {StartRule}
    BY <1>4, <2>1 DEF g
  <2>. HIDE DEF begun
  <2>. QED
    BY <1>1, <2>2, <2>4, <2>5, RuleHasGoto DEF g
<1>13. GotoKey(rule) = <<stack[base].state, rule.lhs>>
  BY DEF GotoKey
<1>14. GotoKey(rule) \in DOMAIN table.goto /\ MidruleFits(table, r, GotoKey(rule)[1])
  BY <1>12, <1>13
<1>. QED
  BY ONLY <1>4, <1>6, <1>8, <1>9, <1>11, <1>14

\* The assertion on the size of the stack holds.
LEMMA EnoughOnStack ==
  ASSUME IInv, NEW s, HasAction(s), ActionOf(s).kind = "Reduce"
  PROVE  DeepEnough(g.rules[ActionOf(s).rule])
<1>. DEFINE r == ActionOf(s).rule
            rule == g.rules[r]
<1>1. /\ Len(rule.rhs) \in Nat /\ Len(stack) - Len(rule.rhs) \in 1 .. Len(stack)
      /\ MidruleFits(table, r, GotoKey(rule)[1])
  BY HandleOnStack
<1>2. TableOK(table) /\ Len(stack) \in Nat /\ Len(stack) >= 1 /\ PathOn(table, stack)
  BY TableFits DEF IInv
<1>3. CASE ~IsMidrule(rule)
  <2>1. Arity(rule) = Len(rule.rhs)
    BY <1>3 DEF Arity
  <2>. QED
    BY <1>1, <1>2, <2>1 DEF DeepEnough
<1>4. CASE IsMidrule(rule)
  <2>1. rule.rhs = <<>> /\ \E item \in table.states[GotoKey(rule)[1]] : item.pos = rule.midrule
    BY <1>1, <1>4 DEF MidruleFits, g
  <2>2. Len(rule.rhs) = 0
    BY <2>1
  <2>3. GotoKey(rule)[1] = stack[Len(stack)].state
    BY <1>2, <2>2 DEF GotoKey
  <2>4. PICK item \in table.states[stack[Len(stack)].state] : item.pos = rule.midrule
    BY <2>1, <2>3
  <2>5. Len(stack) \in 1 .. Len(stack)
    BY <1>2
  <2>6. stack[Len(stack)].state \in DOMAIN table.states /\ ItemsFit(table, stack, Len(stack))
    BY <1>2, <2>5, StateOnStack
  <2>7. item.pos \in Nat
    BY <1>2, <2>6, ItemShape
  <2>8. item.pos < Len(stack)
    BY <2>6 DEF ItemsFit, Placed
  <2>9. Arity(rule) = item.pos
    BY <1>4, <2>4 DEF Arity
  <2>. QED
    BY <1>2, <2>2, <2>7, <2>8, <2>9 DEF DeepEnough
<1>. QED
  BY <1>3, <1>4

\* Neither moving values out of entries nor giving some back moves an entry.
LEMMA MovedKeepsPath ==
  ASSUME IInv, NEW rule
  PROVE  /\ PathOn(table, MovedFrom(rule)) /\ Len(MovedFrom(rule)) = Len(stack)
         /\ \A k \in 1 .. Len(stack) : /\ MovedFrom(rule)[k].state = stack[k].state
                                       /\ MovedFrom(rule)[k].symbol = stack[k].symbol
<1>. DEFINE st2 == MovedFrom(rule)
<1>1. TableOK(table) /\ PathOn(table, stack)
  BY TableFits DEF IInv
<1>2. /\ DOMAIN st2 = DOMAIN stack
      /\ st2 = [k \in DOMAIN stack |-> st2[k]]
  BY DEF MovedFrom
<1>3. \A k \in DOMAIN stack : st2[k] = [state |-> stack[k].state, symbol |-> stack[k].symbol, value |-> st2[k].value]
  <2>. TAKE k \in DOMAIN stack
  <2>1. PICK V : stack \in Seq(Entry(table, V))
    BY <1>1 DEF PathOn
  <2>2. stack[k] \in Entry(table, V)
    BY <2>1, ElementOfSeq, LenProperties
  <2>3. st2[k] = [stack[k] EXCEPT !.value = NoValue] \/ st2[k] = stack[k]
    BY DEF MovedFrom
  <2>. HIDE DEF st2
  <2>. QED
    BY <2>2, <2>3 DEF Entry
<1>. HIDE DEF st2
<1>4. /\ PathOn(table, st2) /\ Len(st2) = Len(stack)
      /\ \A k \in 1 .. Len(stack) : st2[k].state = stack[k].state /\ st2[k].symbol = stack[k].symbol
  BY <1>1, <1>2, <1>3, SameShape
<1>. QED
  BY <1>4 DEF st2

LEMMA GivenBackKeepsPath ==
  ASSUME IInv, NEW rule, NEW style
  PROVE  /\ PathOn(table, GivenBack(rule, style)) /\ Len(GivenBack(rule, style)) = Len(stack)
         /\ \A k \in 1 .. Len(stack) : /\ GivenBack(rule, style)[k].state = stack[k].state
                                       /\ GivenBack(rule, style)[k].symbol = stack[k].symbol
<1>. DEFINE st2 == GivenBack(rule, style)
            moved == MovedFrom(rule)
            from == Len(stack) - Len(Remaining(rule, style))
<1>1. TableOK(table) /\ PathOn(table, stack) /\ PathOn(table, moved) /\ Len(moved) = Len(stack)
  BY TableFits, MovedKeepsPath DEF IInv
<1>2. DOMAIN stack = 1 .. Len(stack) /\ DOMAIN moved = 1 .. Len(moved) /\ DOMAIN moved = DOMAIN stack
  BY <1>1, LenProperties DEF PathOn
<1>3. \A k \in DOMAIN stack :
        st2[k] = IF k > from THEN [stack[k] EXCEPT !.value = Remaining(rule, style)[k - from]] ELSE moved[k]
  BY DEF GivenBack
<1>4. DOMAIN st2 = DOMAIN stack /\ st2 = [k \in DOMAIN stack |-> st2[k]]
  BY DEF GivenBack
<1>5. \A k \in DOMAIN stack : moved[k].state = stack[k].state /\ moved[k].symbol = stack[k].symbol
  BY <1>2, MovedKeepsPath
<1>. HIDE DEF st2, moved
<1>6. \A k \in DOMAIN stack : st2[k] = [state |-> stack[k].state, symbol |-> stack[k].symbol, value |-> st2[k].value]
  <2>. TAKE k \in DOMAIN stack
  <2>1. PICK V : stack \in Seq(Entry(table, V))
    BY <1>1 DEF PathOn
  <2>2. stack[k] \in Entry(table, V)
    BY <2>1, ElementOfSeq, LenProperties
  <2>3. PICK W : moved \in Seq(Entry(table, W))
    BY <1>1 DEF PathOn
  <2>4. moved[k] \in Entry(table, W)
    BY <1>2, <2>3, ElementOfSeq
  <2>5. CASE k > from
    <3>1. st2[k] = [stack[k] EXCEPT !.value = Remaining(rule, style)[k - from]]
      BY <1>3, <2>5
    <3>. QED
      BY <2>2, <3>1 DEF Entry
  <2>6. CASE ~(k > from)
    <3>1. st2[k] = moved[k]
      BY <1>3, <2>6
    <3>. QED
      BY <1>5, <2>4, <3>1 DEF Entry
  <2>. QED
    BY <2>5, <2>6
<1>7. /\ PathOn(table, st2) /\ Len(st2) = Len(stack)
      /\ \A k \in 1 .. Len(stack) : st2[k].state = stack[k].state /\ st2[k].symbol = stack[k].symbol
  BY <1>1, <1>4, <1>6, SameShape
<1>. QED
  BY <1>7 DEF st2

\* The entries that are left after the action of rule r has run.
Kept(r, rule) == IF IsMidrule(rule) THEN GivenBack(rule, table.style[r]) ELSE Popped(rule, table.style[r])

\* They are those below the right-hand side.
\* They are a path to the state under the right-hand side.
KeepsPath(r, rule) ==
  /\ PathOn(table, Kept(r, rule))
  /\ Len(Kept(r, rule)) = Len(stack) - Len(rule.rhs)
  /\ Kept(r, rule)[Len(Kept(r, rule))].state = stack[Len(stack) - Len(rule.rhs)].state
  /\ SameSymbols(Kept(r, rule), stack)

LEMMA KeptIsPath ==
  ASSUME IInv, ArgumentsStay, NEW s, HasAction(s), ActionOf(s).kind = "Reduce",
         NEW r, r = ActionOf(s).rule, NEW rule, rule = g.rules[r]
  PROVE  KeepsPath(r, rule)
<1>. DEFINE left == Kept(r, rule)
            n == Len(stack)
            style == table.style[r]
            moved == MovedFrom(rule)
<1>1. /\ r \in RuleIndex(g) \ {StartRule}
      /\ Len(rule.rhs) \in Nat /\ n - Len(rule.rhs) \in 1 .. n
      /\ MidruleFits(table, r, GotoKey(rule)[1])
  BY HandleOnStack
<1>2. TableOK(table) /\ n \in Nat /\ n >= 1 /\ PathOn(table, stack)
  BY TableFits DEF IInv
<1>3. CASE IsMidrule(rule)
  <2>1. rule.rhs = <<>> /\ Len(rule.rhs) = 0
    BY <1>1, <1>3 DEF MidruleFits, g
  <2>2. left = GivenBack(rule, style)
    BY <1>3 DEF Kept
  <2>3. /\ PathOn(table, left) /\ Len(left) = n
        /\ \A k \in 1 .. n : left[k].state = stack[k].state /\ left[k].symbol = stack[k].symbol
    BY <2>2, GivenBackKeepsPath
  <2>. QED
    BY <1>2, <2>1, <2>3 DEF KeepsPath, SameSymbols
<1>4. CASE ~IsMidrule(rule)
  <2>1. /\ PathOn(table, moved) /\ Len(moved) = n
        /\ \A k \in 1 .. n : moved[k].state = stack[k].state /\ moved[k].symbol = stack[k].symbol
    BY MovedKeepsPath
  <2>2. Arity(rule) = Len(rule.rhs)
    BY <1>4 DEF Arity
  <2>3. Len(Remaining(rule, style)) = Len(rule.rhs)
    <3>1. style \in {"None", "Read", "Move", "ByValue"}
      BY <1>1, <1>2 DEF TableOK, Styles, g
    <3>2. style # "ByValue"
      BY <1>1, <1>4 DEF ArgumentsStay, IInv, g, table
    <3>3. CASE style \in {"None", "Read"}
      <4>1. Remaining(rule, style) = [k \in 1 .. Len(rule.rhs) |-> stack[n - Len(rule.rhs) + k].value]
        BY <2>2, <3>3 DEF Remaining, Arguments
      <4>. QED
        BY <1>1, <4>1
    <3>4. CASE style = "Move"
      <4>1. Remaining(rule, style) = [k \in 1 .. Len(rule.rhs) |-> NoValue]
        BY <2>2, <3>4 DEF Remaining
      <4>. QED
        BY <1>1, <4>1
    <3>. QED
      BY <3>1, <3>2, <3>3, <3>4
  <2>. DEFINE m == n - Len(rule.rhs)
  <2>4. left = SubSeq(moved, 1, m)
    <3>1. Kept(r, rule) = Popped(rule, style)
      BY <1>4 DEF Kept
    <3>2. Popped(rule, style) = SubSeq(moved, 1, n - Len(Remaining(rule, style)))
      BY DEF Popped
    <3>. QED
      BY <2>3, <3>1, <3>2
  <2>5. m \in 1 .. n /\ m \in Nat /\ 1 .. m \subseteq 1 .. n
    <3>1. m \in 1 .. n
      BY <1>1
    <3>. HIDE DEF m, n
    <3>. QED
      BY <1>2, <3>1
  <2>. HIDE DEF moved, m
  <2>. HIDE DEF left
  <2>6. PathOn(table, left)
    BY <1>2, <2>1, <2>4, <2>5, Cut
  <2>7. Len(left) = m /\ \A k \in 1 .. m : left[k] = moved[k]
    <3>1. PICK V : moved \in Seq(Entry(table, V))
      BY <2>1 DEF PathOn
    <3>. QED
      BY <1>2, <2>1, <2>4, <2>5, <3>1, SubSeqProperties
  <2>8. /\ left[Len(left)].state = stack[m].state
        /\ SameSymbols(left, stack)
    BY <2>1, <2>5, <2>7 DEF SameSymbols
  <2>. QED
    BY <2>6, <2>7, <2>8 DEF KeepsPath, m, left
<1>. QED
  BY <1>3, <1>4

\* The stack after a reduction is a path again.
LEMMA ReducedIsPath ==
  ASSUME IInv, ArgumentsStay, NEW s, HasAction(s), ActionOf(s).kind = "Reduce",
         NEW r, r = ActionOf(s).rule, NEW rule, rule = g.rules[r], NEW value
  PROVE  PathOn(table, Reduced(rule, table.style[r], table.goto[GotoKey(rule)], value))
<1>. DEFINE left == Kept(r, rule)
            target == table.goto[GotoKey(rule)]
<1>1. /\ GotoKey(rule) \in DOMAIN table.goto /\ rule.lhs \in Symbol
  BY HandleOnStack
<1>2. PathOn(table, left) /\ left[Len(left)].state = GotoKey(rule)[1]
  <2>1. KeepsPath(r, rule)
    <3>1. /\ IInv /\ ArgumentsStay /\ HasAction(s) /\ ActionOf(s).kind = "Reduce"
          /\ r = ActionOf(s).rule /\ rule = g.rules[r]
      OBVIOUS
    <3>. QED
      BY ONLY <3>1, KeptIsPath
  <2>. QED
    BY <2>1 DEF GotoKey, KeepsPath
<1>3. TableOK(table)
  BY TableFits
<1>4. <<GotoKey(rule)[1], rule.lhs, target>> \in table.transitions
  <2>1. GotoKey(rule)[2] = rule.lhs
    BY DEF GotoKey
  <2>. QED
    BY <1>1, <1>3, <2>1 DEF TableOK
<1>5. Reduced(rule, table.style[r], target, value) = Append(left, [state |-> target, symbol |-> rule.lhs, value |-> value])
  BY DEF Reduced, Kept
<1>. HIDE DEF left, target
<1>6. PathOn(table, Append(left, [state |-> target, symbol |-> rule.lhs, value |-> value]))
  BY <1>1, <1>2, <1>3, <1>4, Pushed
<1>. QED
  BY <1>5, <1>6 DEF target

-----------------------------------------------------------------------------
(* The invariant *)

LEMMA Begins == Init => IInv
<1>. SUFFICES ASSUME Init
              PROVE  IInv
  OBVIOUS
<1>1. parser \in DOMAIN Prepared /\ stack = <<Bottom>> /\ outcome = Running
  BY DEF Init
<1>2. TableOK(table)
  BY <1>1, TablesAssumption DEF table
<1>3. 1 \in DOMAIN table.states
  <2>1. table.states \in Seq(SUBSET Item(table.grammar)) /\ table.states # <<>>
    BY <1>2 DEF TableOK, AutomatonFits
  <2>. QED
    BY <2>1, EmptySeq, LenProperties
<1>4. Bottom \in Entry(table, {NoValue})
  BY <1>2, <1>3 DEF Bottom, Entry, TableOK, GrammarFits
<1>5. stack \in Seq(Entry(table, {NoValue})) /\ Len(stack) = 1 /\ stack[1] = Bottom /\ stack # <<>>
  BY <1>1, <1>4
<1>6. ItemsFit(table, stack, 1)
  <2>. SUFFICES ASSUME NEW item \in table.states[1]
                PROVE  Placed(table, stack, 1, item)
    BY <1>5 DEF ItemsFit, Bottom
  <2>1. item.pos = 0
    BY <1>2 DEF TableOK, AutomatonFits
  <2>2. item \in [rule : RuleIndex(table.grammar), pos : Nat]
    BY <1>2, <1>3, ItemShape
  <2>3. [item EXCEPT !.pos = 0] = item
    BY <2>1, <2>2
  <2>4. stack[1].state = 1
    BY <1>5 DEF Bottom
  <2>. QED
    BY <2>1, <2>3, <2>4 DEF Placed
<1>7. PathOn(table, stack)
  BY <1>5, <1>6 DEF PathOn, Bottom
<1>. QED
  BY <1>1, <1>7 DEF IInv, AssertionsHold, Running

LEMMA Goes == ArgumentsStay /\ IInv /\ [Next]_vars => IInv'
<1>. SUFFICES ASSUME ArgumentsStay, IInv, [Next]_vars
              PROVE  IInv'
  OBVIOUS
<1>. USE DEF IInv
<1>1. TableOK(table) /\ PathOn(table, stack) /\ Len(stack) \in Nat /\ Len(stack) >= 1
  BY TableFits
<1>2. ASSUME UNCHANGED parser, PathOn(table, stack'), outcome'.kind \notin {"Empty", "StackTooSmall"}
      PROVE  IInv'
  BY <1>2 DEF table, AssertionsHold
<1>3. CASE NextToken
  <2>1. UNCHANGED <<parser, stack>> /\ outcome' \in {outcome, SyntaxError(NoMatch, Expected)}
    BY <1>3 DEF NextToken, Receive
  <2>. QED
    BY <1>1, <1>2, <2>1 DEF AssertionsHold, SyntaxError
<1>4. CASE Fail
  BY <1>1, <1>2, <1>4 DEF Fail, SyntaxError
<1>5. CASE Reduce
  <2>. DEFINE s == token[1].symbol
              r == ActionOf(s).rule
              rule == g.rules[r]
  <2>1. HasAction(s) /\ ActionOf(s).kind = "Reduce" /\ ReduceRule(r, rule, table.style[r]) /\ UNCHANGED parser
    BY <1>5 DEF Reduce, Does, ReduceBy
  <2>. HIDE DEF s
  <2>2. DeepEnough(rule)
    BY <2>1, EnoughOnStack
  <2>3. GotoKey(rule) \in DOMAIN table.goto
    BY <2>1, HandleOnStack
  <2>4. /\ stack' = Reduced(rule, table.style[r], table.goto[GotoKey(rule)], ValueOf(r, rule, table.style[r]))
        /\ UNCHANGED outcome
    BY <2>1, <2>2, <2>3 DEF ReduceRule
  <2>5. PathOn(table, stack')
    BY <2>1, <2>4, ReducedIsPath
  <2>. QED
    BY <1>2, <2>1, <2>4, <2>5 DEF AssertionsHold
<1>6. CASE Shift
  <2>. DEFINE s == token[1].symbol
              j == ActionOf(s).state
  <2>1. /\ HasAction(s) /\ ActionOf(s).kind = "Shift" /\ UNCHANGED <<parser, outcome>>
        /\ stack' = Append(stack, [state |-> j, symbol |-> s, value |-> token[1].value])
    BY <1>6 DEF Shift, Does
  <2>. HIDE DEF s
  <2>2. <<Top.state, s>> \in DOMAIN table.action /\ ActionOf(s) = table.action[<<Top.state, s>>]
    BY <2>1 DEF HasAction, ActionOf, EntryOf
  <2>3. ActionFits(table, Top.state, s, ActionOf(s)) /\ s \in Symbol
    BY <1>1, <2>2 DEF TableOK, GrammarFits
  <2>4. <<Top.state, s, j>> \in table.transitions
    BY <2>1, <2>3 DEF ActionFits
  <2>. HIDE DEF j
  <2>5. PathOn(table, stack')
    BY <1>1, <2>1, <2>3, <2>4, Pushed DEF Top
  <2>. QED
    BY <1>2, <2>1, <2>5 DEF AssertionsHold
<1>7. CASE Accept
  BY <1>1, <1>2, <1>7 DEF Accept, Returned
<1>8. CASE UNCHANGED vars
  BY <1>1, <1>2, <1>8 DEF vars, parserVars, AssertionsHold
<1>. QED
  BY <1>3, <1>4, <1>5, <1>6, <1>7, <1>8 DEF Next, Turn, Terminated

THEOREM Invariant == ArgumentsStay => (Spec => []IInv)
<1>. SUFFICES ASSUME ArgumentsStay
              PROVE  Spec => []IInv
  OBVIOUS
<1>1. IInv /\ [Next]_vars => IInv'
  BY Goes
<1>. QED
  BY <1>1, Begins, PTL DEF Spec

\* No assertion of parse() on the stack or the goto table fails, and parse() does
\* not fall out of its loop without a value.
THEOREM AssertionsAlwaysHold == ArgumentsStay => (Spec => []AssertionsHold)
<1>1. IInv => AssertionsHold
  BY DEF IInv
<1>. QED
  BY <1>1, Invariant, PTL

\* The states on the stack always spell its symbols, and the items of the state on
\* top have theirs on the stack.
THEOREM StackAlwaysIsPath == ArgumentsStay => (Spec => []StackIsPath)
<1>1. IInv => StackIsPath
  <2>. SUFFICES ASSUME IInv
                PROVE  StackIsPath
    OBVIOUS
  <2>1. Len(stack) \in 1 .. Len(stack)
    BY TableFits
  <2>2. ItemsFit(table, stack, Len(stack))
    BY <2>1 DEF IInv, PathOn
  <2>. QED
    BY <2>2 DEF IInv, PathOn, StackIsPath, ItemsFit, Placed, Top, g
<1>. QED
  BY <1>1, Invariant, PTL

-----------------------------------------------------------------------------
(* parse() implements Derivation *)

\* Everything that a sentential form is made of.
Vocabulary == Symbol \cup {NoMatch}

\* A sequence of tokens that the tokenizer may hand out.
IsTokens(gr, w) ==
  /\ \E T : w \in Seq(T)
  /\ \A k \in 1 .. Len(w) : w[k].symbol \in gr.terminals \cup {EndSymbol, NoMatch}

\* Tokens are terminals, and nothing is unread behind @end.
TokensInv ==
  /\ IsTokens(g, unread) /\ \A k \in 1 .. Len(unread) - 1 : unread[k].symbol # EndSymbol
  /\ IsTokens(g, token) /\ Len(token) \in 0 .. 1
  /\ token # <<>> /\ token[1].symbol = EndSymbol => unread = <<>>

LEMMA NamesOfTokens ==
  ASSUME NEW gr, gr.terminals \subseteq Symbol, EndSymbol \in Symbol, NEW w, IsTokens(gr, w)
  PROVE  /\ Names(w) \in Seq(Vocabulary) /\ Len(w) \in Nat /\ Len(Names(w)) = Len(w)
         /\ \A k \in 1 .. Len(w) : Names(w)[k] = w[k].symbol
<1>1. DOMAIN w = 1 .. Len(w) /\ Len(w) \in Nat
  BY LenProperties DEF IsTokens
<1>2. \A k \in 1 .. Len(w) : w[k].symbol \in Vocabulary
  BY DEF IsTokens, Vocabulary
<1>3. Names(w) \in [1 .. Len(w) -> Vocabulary]
  BY <1>1, <1>2 DEF Names
<1>4. Names(w) \in Seq(Vocabulary) /\ DOMAIN Names(w) = 1 .. Len(w)
  BY <1>1, <1>3, IsASeq
<1>5. Len(Names(w)) = Len(w)
  BY <1>1, <1>4, LenProperties
<1>6. \A k \in 1 .. Len(w) : Names(w)[k] = w[k].symbol
  BY <1>1 DEF Names
<1>. QED
  BY <1>1, <1>4, <1>5, <1>6

LEMMA SymbolsOfPath ==
  ASSUME NEW t, TableOK(t), NEW st, PathOn(t, st), NEW syms, syms = [k \in 1 .. Len(st) - 1 |-> st[k + 1].symbol]
  PROVE  /\ syms \in Seq(Vocabulary) /\ Len(st) \in Nat /\ Len(st) >= 1 /\ Len(syms) = Len(st) - 1
         /\ \A k \in 1 .. Len(st) - 1 : syms[k] = st[k + 1].symbol
<1>1. Len(st) \in Nat /\ Len(st) >= 1
  BY EmptySeq, LenProperties DEF PathOn
<1>2. \A k \in 1 .. Len(st) - 1 : st[k + 1].symbol \in Vocabulary
  <2>. TAKE k \in 1 .. Len(st) - 1
  <2>1. k + 1 \in 1 .. Len(st)
    BY <1>1
  <2>. QED
    BY <2>1, StateOnStack DEF Vocabulary
<1>3. syms \in [1 .. Len(st) - 1 -> Vocabulary] /\ Len(st) - 1 \in Nat
  BY <1>1, <1>2
<1>4. syms \in Seq(Vocabulary) /\ DOMAIN syms = 1 .. Len(st) - 1
  <2>. DEFINE n == Len(st) - 1
  <2>1. n \in Nat /\ syms \in [1 .. n -> Vocabulary]
    BY <1>3
  <2>. HIDE DEF n
  <2>2. syms \in Seq(Vocabulary) /\ DOMAIN syms = 1 .. n
    BY <2>1, IsASeq
  <2>. QED
    BY <2>2 DEF n
<1>5. Len(syms) = Len(st) - 1
  BY <1>3, <1>4, LenProperties
<1>. QED
  BY <1>1, <1>4, <1>5

\* A word that ends the first of two sequences after its p-th element, and what
\* is around it.
Splits(a, b, word, p) ==
  /\ SubSeq(a \o b, 1, p) = SubSeq(a, 1, p)
  /\ SubSeq(a \o b, Len(a) + 1, Len(a \o b)) = b
  /\ a \o b = SubSeq(a, 1, p) \o word \o b
  /\ Len(SubSeq(a, 1, p)) = p /\ \A i \in 1 .. p : SubSeq(a, 1, p)[i] = a[i]

LEMMA HandleEnds ==
  ASSUME NEW S, NEW a \in Seq(S), NEW b \in Seq(S), NEW rhs \in Seq(S), NEW p \in 0 .. Len(a),
         Len(rhs) = Len(a) - p, EndsWith(a, rhs)
  PROVE  Splits(a, b, rhs, p) /\ SubSeq(a, 1, p) \in Seq(S)
<1>1. /\ Len(a) \in Nat /\ Len(b) \in Nat /\ a \o b \in Seq(S)
      /\ Len(a \o b) = Len(a) + Len(b)
      /\ \A i \in 1 .. Len(a) + Len(b) : (a \o b)[i] = IF i <= Len(a) THEN a[i] ELSE b[i - Len(a)]
  BY LenProperties, ConcatProperties
<1>2. /\ SubSeq(a, 1, p) \in Seq(S) /\ Len(SubSeq(a, 1, p)) = p
      /\ \A i \in 1 .. p : SubSeq(a, 1, p)[i] = a[i]
  <2>1. \A i \in 1 .. p : a[i] \in S
    BY <1>1, ElementOfSeq
  <2>. QED
    BY <1>1, <2>1, SubSeqProperties
<1>3. SubSeq(a \o b, 1, p) = SubSeq(a, 1, p)
  <2>1. CASE p = 0
    BY <2>1, SubSeqEmpty
  <2>2. CASE p > 0
    <3>1. 1 \in 1 .. Len(a) /\ p \in 1 .. Len(a)
      BY <1>1, <2>2
    <3>. QED
      BY <3>1, SubSeqOfConcat1
  <2>. QED
    BY <1>1, <2>1, <2>2
<1>4. SubSeq(a \o b, Len(a) + 1, Len(a \o b)) = b
  <2>1. CASE Len(b) = 0
    <3>1. b = <<>>
      BY <2>1, EmptySeq
    <3>2. Len(a \o b) < Len(a) + 1
      BY <1>1, <2>1
    <3>. QED
      BY <1>1, <3>1, <3>2, SubSeqEmpty
  <2>2. CASE Len(b) > 0
    <3>1. /\ Len(a) + 1 \in Len(a) + 1 .. Len(a) + Len(b)
          /\ Len(a) + Len(b) \in Len(a) + 1 .. Len(a) + Len(b)
          /\ Len(a) + 1 - Len(a) = 1 /\ Len(a) + Len(b) - Len(a) = Len(b)
      BY <1>1, <2>2
    <3>2. SubSeq(a \o b, Len(a) + 1, Len(a) + Len(b)) = SubSeq(b, Len(a) + 1 - Len(a), Len(a) + Len(b) - Len(a))
      BY <3>1, SubSeqOfConcat2
    <3>. QED
      BY <1>1, <3>1, <3>2, SubSeqFull
  <2>. QED
    BY <1>1, <2>1, <2>2
<1>5. a = SubSeq(a, 1, p) \o rhs
  <2>. DEFINE c == SubSeq(a, 1, p) \o rhs
  <2>1. /\ c \in Seq(S) /\ Len(c) = Len(a)
        /\ \A i \in 1 .. p + Len(rhs) : c[i] = IF i <= p THEN SubSeq(a, 1, p)[i] ELSE rhs[i - p]
    BY <1>1, <1>2, ConcatProperties
  <2>2. ASSUME NEW i \in 1 .. Len(a)
        PROVE  c[i] = a[i]
    <3>1. CASE i <= p
      BY <1>1, <1>2, <2>1, <3>1
    <3>2. CASE i > p
      <4>1. i - p \in 1 .. Len(rhs) /\ p + (i - p) = i
        BY <1>1, <3>2
      <4>2. c[i] = rhs[i - p]
        BY <1>1, <2>1, <3>2
      <4>3. Len(a) - Len(rhs) + (i - p) = i
        BY <1>1
      <4>. QED
        BY <4>1, <4>2, <4>3 DEF EndsWith
    <3>. QED
      BY <1>1, <3>1, <3>2
  <2>. HIDE DEF c
  <2>3. c = a
    BY <2>1, <2>2, SeqEqual
  <2>. QED
    BY <2>3 DEF c
<1>. QED
  BY <1>2, <1>3, <1>4, <1>5 DEF Splits

\* What two sequences have in common, their concatenation has.
LEMMA ElementsOfConcat ==
  ASSUME NEW S, NEW a \in Seq(S), NEW b \in Seq(S), NEW T,
         \A k \in 1 .. Len(a) : a[k] \in T, \A k \in 1 .. Len(b) : b[k] \in T
  PROVE  \A k \in DOMAIN (a \o b) : (a \o b)[k] \in T
<1>1. /\ a \o b \in Seq(S) /\ Len(a \o b) = Len(a) + Len(b)
      /\ \A i \in 1 .. Len(a) + Len(b) : (a \o b)[i] = IF i <= Len(a) THEN a[i] ELSE b[i - Len(a)]
  BY ConcatProperties
<1>2. Len(a) \in Nat /\ Len(b) \in Nat /\ DOMAIN (a \o b) = 1 .. Len(a) + Len(b)
  BY <1>1, LenProperties
<1>3. ASSUME NEW k \in 1 .. Len(a) + Len(b)
      PROVE  (a \o b)[k] \in T
  <2>1. CASE k <= Len(a)
    BY <1>1, <1>2, <2>1
  <2>2. CASE ~(k <= Len(a))
    <3>1. k - Len(a) \in 1 .. Len(b)
      BY <1>2, <2>2
    <3>. QED
      BY <1>1, <2>2, <3>1
  <2>. QED
    BY <2>1, <2>2
<1>. QED
  BY <1>2, <1>3

\* A sequence is its first element and the rest of it.
LEMMA FirstAndRest ==
  ASSUME NEW S, NEW h \in Seq(S), NEW c \in Seq(S), NEW b \in Seq(S),
         Len(h) = 1, Len(b) = Len(c) + 1, b[1] = h[1], \A k \in 1 .. Len(c) : c[k] = b[k + 1]
  PROVE  h \o c = b
<1>. DEFINE d == h \o c
<1>1. /\ d \in Seq(S) /\ Len(d) = 1 + Len(c) /\ Len(c) \in Nat
      /\ \A i \in 1 .. 1 + Len(c) : d[i] = IF i <= 1 THEN h[i] ELSE c[i - 1]
  <2>1. /\ d \in Seq(S) /\ Len(d) = Len(h) + Len(c)
        /\ \A i \in 1 .. Len(h) + Len(c) : d[i] = IF i <= Len(h) THEN h[i] ELSE c[i - Len(h)]
    <3>1. h \in Seq(S) /\ c \in Seq(S)
      OBVIOUS
    <3>. QED
      BY ONLY <3>1, ConcatProperties
  <2>2. Len(c) \in Nat
    BY LenProperties
  <2>. HIDE DEF d
  <2>. QED
    BY <2>1, <2>2
<1>. HIDE DEF d
<1>2. ASSUME NEW i \in 1 .. Len(d)
      PROVE  d[i] = b[i]
  <2>1. CASE i = 1
    BY <1>1, <2>1
  <2>2. CASE i # 1
    <3>1. i - 1 \in 1 .. Len(c) /\ ~(i <= 1) /\ (i - 1) + 1 = i
      BY <1>1, <2>2
    <3>2. d[i] = c[i - 1]
      BY <1>1, <3>1
    <3>. QED
      BY <3>1, <3>2
  <2>. QED
    BY <2>1, <2>2
<1>3. d = b
  BY <1>1, <1>2, SeqEqual
<1>. QED
  BY <1>3 DEF d

\* A sequence is all but its last element, and that element.
LEMMA RestAndLast ==
  ASSUME NEW S, NEW a \in Seq(S), NEW h \in Seq(S), NEW c \in Seq(S),
         Len(h) = 1, Len(c) = Len(a) + 1, c[Len(a) + 1] = h[1], \A k \in 1 .. Len(a) : c[k] = a[k]
  PROVE  a \o h = c
<1>. DEFINE d == a \o h
<1>1. /\ d \in Seq(S) /\ Len(d) = Len(a) + 1 /\ Len(a) \in Nat
      /\ \A i \in 1 .. Len(a) + 1 : d[i] = IF i <= Len(a) THEN a[i] ELSE h[i - Len(a)]
  <2>1. /\ d \in Seq(S) /\ Len(d) = Len(a) + Len(h)
        /\ \A i \in 1 .. Len(a) + Len(h) : d[i] = IF i <= Len(a) THEN a[i] ELSE h[i - Len(a)]
    <3>1. a \in Seq(S) /\ h \in Seq(S)
      OBVIOUS
    <3>. QED
      BY ONLY <3>1, ConcatProperties
  <2>2. Len(a) \in Nat
    BY LenProperties
  <2>. HIDE DEF d
  <2>. QED
    BY <2>1, <2>2
<1>. HIDE DEF d
<1>2. ASSUME NEW i \in 1 .. Len(d)
      PROVE  d[i] = c[i]
  <2>1. CASE i <= Len(a)
    BY <1>1, <2>1
  <2>2. CASE ~(i <= Len(a))
    <3>1. i = Len(a) + 1 /\ i - Len(a) = 1
      BY <1>1, <2>2
    <3>. QED
      BY <1>1, <2>2, <3>1
  <2>. QED
    BY <2>1, <2>2
<1>3. d = c
  BY <1>1, <1>2, SeqEqual
<1>. QED
  BY <1>3 DEF d

LEMMA TokensBegin == Init => TokensInv
<1>. SUFFICES ASSUME Init
              PROVE  TokensInv
  OBVIOUS
<1>. DEFINE n == Len(input)
<1>1. /\ parser \in DOMAIN Prepared /\ input \in Inputs(g)
      /\ unread = Append(input, EndToken) /\ token = <<>>
  BY DEF Init
<1>2. /\ n \in Nat /\ input = [j \in 1 .. n |-> input[j]]
      /\ \A j \in 1 .. n : input[j].symbol \in g.terminals \cup {NoMatch}
  BY <1>1, InputsAssumption DEF g, table
<1>3. NoMatch # EndSymbol /\ EndSymbol \notin g.terminals
  BY <1>1, TablesAssumption, InputsAssumption DEF g, table, TableOK, GrammarFits
<1>. DEFINE T == {input[j] : j \in 1 .. n} \cup {EndToken}
<1>4. input \in Seq(T)
  <2>1. input \in [1 .. n -> T]
    BY <1>2
  <2>. HIDE DEF n, T
  <2>. QED
    BY <1>2, <2>1, IsASeq
<1>5. EndToken \in T
  OBVIOUS
<1>. HIDE DEF T
<1>6. /\ unread \in Seq(T) /\ Len(unread) = n + 1 /\ unread[n + 1] = EndToken
      /\ \A j \in 1 .. n : unread[j] = input[j]
  BY <1>1, <1>4, <1>5, AppendProperties
<1>7. IsTokens(g, unread)
  <2>. SUFFICES ASSUME NEW k \in 1 .. n + 1
                PROVE  unread[k].symbol \in g.terminals \cup {EndSymbol, NoMatch}
    BY <1>6 DEF IsTokens
  <2>1. CASE k = n + 1
    BY <1>6, <2>1 DEF EndToken
  <2>2. CASE k # n + 1
    BY <1>2, <1>6, <2>2
  <2>. QED
    BY <2>1, <2>2
<1>8. \A k \in 1 .. Len(unread) - 1 : unread[k].symbol # EndSymbol
  BY <1>2, <1>3, <1>6
<1>9. IsTokens(g, token) /\ Len(token) \in 0 .. 1
  <2>1. token \in Seq(T) /\ Len(token) = 0
    BY <1>1
  <2>. QED
    BY <2>1 DEF IsTokens
<1>. QED
  BY <1>1, <1>7, <1>8, <1>9 DEF TokensInv

LEMMA TokensGoOn == TokensInv /\ [Next]_vars => TokensInv'
<1>. SUFFICES ASSUME TokensInv, [Next]_vars
              PROVE  TokensInv'
  OBVIOUS
<1>1. UNCHANGED parser => UNCHANGED g
  BY DEF g, table
<1>2. CASE UNCHANGED <<parser, unread, token>>
  BY <1>1, <1>2 DEF TokensInv
<1>3. CASE UNCHANGED <<parser, unread>> /\ token' = <<>>
  <2>1. token' \in Seq({}) /\ Len(token') = 0
    BY <1>3
  <2>2. IsTokens(g, token')
    BY <2>1 DEF IsTokens
  <2>. QED
    BY <1>1, <1>3, <2>1, <2>2 DEF TokensInv
<1>4. CASE UNCHANGED parser /\ unread # <<>> /\ unread' = Tail(unread) /\ token' = <<Head(unread)>>
  <2>1. PICK T : unread \in Seq(T)
    BY DEF TokensInv, IsTokens
  <2>2. /\ Head(unread) = unread[1] /\ Head(unread) \in T
        /\ unread' \in Seq(T) /\ Len(unread') = Len(unread) - 1 /\ Len(unread) \in Nat /\ Len(unread) >= 1
        /\ \A k \in 1 .. Len(unread') : unread'[k] = unread[k + 1]
    BY <1>4, <2>1, HeadTailProperties, EmptySeq, LenProperties
  <2>3. \A k \in 1 .. Len(unread) : unread[k].symbol \in g.terminals \cup {EndSymbol, NoMatch}
    BY DEF TokensInv, IsTokens
  <2>4. IsTokens(g, unread')
    BY <2>2, <2>3 DEF IsTokens
  <2>5. \A k \in 1 .. Len(unread') - 1 : unread'[k].symbol # EndSymbol
    BY <2>2 DEF TokensInv
  <2>6. token' \in Seq(T) /\ Len(token') = 1 /\ token'[1] = unread[1]
    BY <1>4, <2>2
  <2>7. IsTokens(g, token')
    BY <2>2, <2>3, <2>6 DEF IsTokens
  <2>8. token'[1].symbol = EndSymbol => unread' = <<>>
    <3>. SUFFICES ASSUME unread[1].symbol = EndSymbol
                  PROVE  unread' = <<>>
      BY <2>6
    <3>1. Len(unread) = 1
      BY <2>2 DEF TokensInv
    <3>. QED
      BY <2>2, <3>1, EmptySeq
  <2>. QED
    BY <1>1, <1>4, <2>4, <2>5, <2>6, <2>7, <2>8 DEF TokensInv
<1>5. CASE NextToken
  <2>1. CASE Head(unread).symbol = NoMatch
    BY <1>2, <1>5, <2>1 DEF NextToken, Receive
  <2>2. CASE Head(unread).symbol # NoMatch
    BY <1>4, <1>5, <2>2 DEF NextToken, Receive
  <2>. QED
    BY <2>1, <2>2
<1>6. CASE Turn /\ UNCHANGED <<input, unread>>
  BY <1>2, <1>3, <1>6 DEF Turn, Fail, Reduce, Shift, Accept
<1>7. CASE UNCHANGED vars
  BY <1>2, <1>7 DEF vars, parserVars
<1>. QED
  BY <1>5, <1>6, <1>7 DEF Next, Terminated

Form == Symbols \o Names(token) \o Names(unread)

\* What the form is made of.
LEMMA PartsOfForm ==
  ASSUME IInv, TokensInv
  PROVE  /\ Symbols \in Seq(Vocabulary) /\ Len(stack) \in Nat /\ Len(stack) >= 1 /\ Len(Symbols) = Len(stack) - 1
         /\ \A k \in 1 .. Len(stack) - 1 : Symbols[k] = stack[k + 1].symbol
         /\ Names(token) \in Seq(Vocabulary) /\ Names(unread) \in Seq(Vocabulary)
         /\ Len(Names(token)) = Len(token) /\ Len(Names(unread)) = Len(unread) /\ Len(unread) \in Nat
         /\ \A k \in 1 .. Len(token) : Names(token)[k] = token[k].symbol
         /\ \A k \in 1 .. Len(unread) : Names(unread)[k] = unread[k].symbol
         /\ Form = Symbols \o (Names(token) \o Names(unread))
<1>1. TableOK(table) /\ PathOn(table, stack)
  BY TableFits DEF IInv
<1>2. g.terminals \subseteq Symbol /\ EndSymbol \in Symbol
  BY <1>1 DEF TableOK, GrammarFits, g
<1>3. /\ Symbols \in Seq(Vocabulary) /\ Len(stack) \in Nat /\ Len(stack) >= 1 /\ Len(Symbols) = Len(stack) - 1
      /\ \A k \in 1 .. Len(stack) - 1 : Symbols[k] = stack[k + 1].symbol
  BY <1>1, SymbolsOfPath DEF Symbols
<1>4. /\ Names(token) \in Seq(Vocabulary) /\ Len(Names(token)) = Len(token)
      /\ \A k \in 1 .. Len(token) : Names(token)[k] = token[k].symbol
  BY <1>2, NamesOfTokens DEF TokensInv
<1>5. /\ Names(unread) \in Seq(Vocabulary) /\ Len(Names(unread)) = Len(unread) /\ Len(unread) \in Nat
      /\ \A k \in 1 .. Len(unread) : Names(unread)[k] = unread[k].symbol
  BY <1>2, NamesOfTokens DEF TokensInv
<1>6. Form = Symbols \o (Names(token) \o Names(unread))
  BY <1>3, <1>4, <1>5, ConcatAssociative DEF Form
<1>. QED
  BY <1>3, <1>4, <1>5, <1>6

\* What is left to read has nothing in it that a rule derives.
LEMMA RestIsInput ==
  ASSUME IInv, TokensInv
  PROVE  Rightmost!Input(g, Names(token) \o Names(unread))
<1>. DEFINE a == Names(token)
            b == Names(unread)
<1>1. /\ a \in Seq(Vocabulary) /\ b \in Seq(Vocabulary) /\ Len(a) = Len(token) /\ Len(b) = Len(unread)
      /\ \A k \in 1 .. Len(token) : a[k] = token[k].symbol
      /\ \A k \in 1 .. Len(unread) : b[k] = unread[k].symbol
  BY PartsOfForm
<1>2. TableOK(table)
  BY TableFits
<1>3. /\ \A k \in 1 .. Len(a) : a[k] \in g.terminals \cup {EndSymbol, NoMatch}
      /\ \A k \in 1 .. Len(b) : b[k] \in g.terminals \cup {EndSymbol, NoMatch}
  BY <1>1 DEF TokensInv, IsTokens
<1>4. \A k \in DOMAIN (a \o b) : (a \o b)[k] \in g.terminals \cup {EndSymbol, NoMatch}
  <2>1. a \in Seq(Vocabulary) /\ b \in Seq(Vocabulary)
    BY <1>1
  <2>. HIDE DEF a, b
  <2>. QED
    BY <1>3, <2>1, ElementsOfConcat
<1>5. \A s \in g.terminals \cup {EndSymbol, NoMatch} : s \notin Rightmost!Derived(g)
  BY <1>2 DEF TableOK, GrammarFits, g, Rightmost!Derived, Rightmost!RuleIndex, RuleIndex
<1>. QED
  BY <1>4, <1>5 DEF Rightmost!Input

LEMMA RefinesInit == Init => Rightmost!Init
<1>. SUFFICES ASSUME Init
              PROVE  Rightmost!Init
  OBVIOUS
<1>1. IInv /\ TokensInv
  BY Begins, TokensBegin
<1>2. parser \in DOMAIN Prepared /\ token = <<>> /\ stack = <<Bottom>> /\ outcome = Running
  BY DEF Init
<1>3. g \in {Prepared[k].grammar : k \in DOMAIN Prepared}
  BY <1>2 DEF g, table
<1>4. /\ Symbols \in Seq(Vocabulary) /\ Len(Symbols) = Len(stack) - 1
      /\ Names(token) \in Seq(Vocabulary) /\ Names(unread) \in Seq(Vocabulary)
      /\ Len(Names(token)) = Len(token) /\ Len(Names(unread)) = Len(unread) /\ Len(unread) \in Nat
      /\ \A k \in 1 .. Len(unread) : Names(unread)[k] = unread[k].symbol
      /\ Form = Symbols \o (Names(token) \o Names(unread))
  BY <1>1, PartsOfForm
<1>5. Symbols = <<>> /\ Names(token) = <<>>
  <2>1. Len(stack) = 1 /\ Len(token) = 0
    BY <1>2
  <2>. QED
    BY <1>4, <2>1, EmptySeq
<1>6. Form = Names(unread) /\ Names(token) \o Names(unread) = Names(unread)
  BY <1>4, <1>5, ConcatEmptySeq
<1>7. Form # <<>> /\ Form[Len(Form)] = EndSymbol
  <2>1. Len(unread) >= 1 /\ unread[Len(unread)] = EndToken
    <3>1. Len(input) \in Nat /\ unread = Append(input, EndToken) /\ input = [j \in 1 .. Len(input) |-> input[j]]
      BY <1>2, InputsAssumption DEF Init, g, table
    <3>. DEFINE n == Len(input)
                T == {input[j] : j \in 1 .. n} \cup {EndToken}
    <3>2. input \in [1 .. n -> T] /\ EndToken \in T
      BY <3>1
    <3>. HIDE DEF T
    <3>3. input \in Seq(T)
      <4>. HIDE DEF n
      <4>1. n \in Nat
        BY <3>1 DEF n
      <4>. QED
        BY <3>2, <4>1, IsASeq
    <3>4. Len(unread) = n + 1 /\ unread[n + 1] = EndToken
      BY <3>1, <3>2, <3>3, AppendProperties
    <3>. QED
      BY <3>1, <3>4
  <2>2. Names(unread)[Len(unread)] = EndSymbol
    BY <1>4, <2>1 DEF EndToken
  <2>3. Names(unread) # <<>>
    BY <1>4, <2>1, EmptySeq
  <2>. QED
    BY <1>4, <1>6, <2>2, <2>3
<1>8. Rightmost!Input(g, Form)
  BY <1>1, <1>6, RestIsInput
<1>9. (outcome.kind = "Value") = FALSE
  BY <1>2 DEF Running
<1>. QED
  BY <1>3, <1>7, <1>8, <1>9 DEF Rightmost!Init, Form, EndSymbol, Rightmost!EndSymbol

-----------------------------------------------------------------------------
(* Every step is a step of Derivation or a stutter *)

Stutters == UNCHANGED <<g, Form, outcome.kind = "Value">>

LEMMA NextTokenStutters ==
  ASSUME IInv, TokensInv, IInv', TokensInv', NextToken
  PROVE  Stutters
<1>1. UNCHANGED <<parser, stack>> /\ outcome.kind # "Value" /\ outcome'.kind # "Value"
  BY DEF NextToken, Receive, Running, SyntaxError
<1>2. UNCHANGED <<g, Symbols>>
  BY <1>1 DEF g, table, Symbols
<1>3. CASE Head(unread).symbol = NoMatch
  <2>1. UNCHANGED <<token, unread>>
    BY <1>3 DEF NextToken, Receive
  <2>. QED
    BY <1>1, <1>2, <2>1 DEF Stutters, Form
<1>4. CASE Head(unread).symbol # NoMatch
  <2>. DEFINE h == Head(unread)
              A == Symbols
              B == Names(unread)
              B2 == Names(unread')
  <2>1. unread # <<>> /\ token = <<>> /\ token' = <<h>> /\ unread' = Tail(unread)
    BY <1>4 DEF NextToken, Receive
  <2>2. PICK T : unread \in Seq(T)
    BY DEF TokensInv, IsTokens
  <2>3. /\ h = unread[1] /\ Len(unread') = Len(unread) - 1 /\ Len(unread) >= 1
        /\ \A k \in 1 .. Len(unread') : unread'[k] = unread[k + 1]
    BY <2>1, <2>2, HeadTailProperties, EmptySeq, LenProperties
  <2>4. /\ A \in Seq(Vocabulary) /\ Names(token) \in Seq(Vocabulary) /\ B \in Seq(Vocabulary)
        /\ Len(Names(token)) = Len(token) /\ Len(B) = Len(unread) /\ Len(unread) \in Nat
        /\ \A k \in 1 .. Len(unread) : B[k] = unread[k].symbol
        /\ Form = A \o (Names(token) \o B)
    BY PartsOfForm
  <2>5. /\ A' = A /\ Names(token') \in Seq(Vocabulary) /\ B2 \in Seq(Vocabulary)
        /\ Len(Names(token')) = Len(token') /\ Len(B2) = Len(unread')
        /\ \A k \in 1 .. Len(token') : Names(token')[k] = token'[k].symbol
        /\ \A k \in 1 .. Len(unread') : B2[k] = unread'[k].symbol
        /\ Form' = A' \o (Names(token') \o B2)
    <3>1. TableOK(table)'
      BY <1>1, TableFits DEF table
    <3>2. (g.terminals \subseteq Symbol /\ EndSymbol \in Symbol)'
      BY <3>1 DEF TableOK, GrammarFits, g
    <3>3. /\ Names(token') \in Seq(Vocabulary) /\ Len(Names(token')) = Len(token')
          /\ \A k \in 1 .. Len(token') : Names(token')[k] = token'[k].symbol
      BY <3>2, NamesOfTokens DEF TokensInv
    <3>4. /\ B2 \in Seq(Vocabulary) /\ Len(B2) = Len(unread')
          /\ \A k \in 1 .. Len(unread') : B2[k] = unread'[k].symbol
      BY <3>2, NamesOfTokens DEF TokensInv
    <3>5. Form' = A' \o (Names(token') \o B2)
      <4>. DEFINE H == Names(token')
      <4>1. Form' = A' \o H \o B2
        BY DEF Form
      <4>2. A' \in Seq(Vocabulary) /\ H \in Seq(Vocabulary) /\ B2 \in Seq(Vocabulary)
        BY <1>2, <2>4, <3>3, <3>4
      <4>. HIDE DEF A, B2, H
      <4>3. A' \o H \o B2 = A' \o (H \o B2)
        BY <4>2, ConcatAssociative
      <4>. QED
        BY <4>1, <4>3 DEF H
    <3>. QED
      BY <1>2, <3>3, <3>4, <3>5
  <2>. HIDE DEF A, B, B2
  <2>6. Names(token) \o B = B
    <3>1. Len(Names(token)) = 0
      BY <2>1, <2>4
    <3>2. Names(token) = <<>>
      BY <2>4, <3>1, EmptySeq
    <3>. QED
      BY <2>4, <3>2, ConcatEmptySeq
  <2>7. Names(token') \o B2 = B
    <3>. DEFINE H == Names(token')
    <3>1. H \in Seq(Vocabulary) /\ Len(H) = Len(token') /\ \A k \in 1 .. Len(token') : H[k] = token'[k].symbol
      BY <2>5
    <3>. HIDE DEF H
    <3>2. Len(token') = 1 /\ token'[1] = unread[1]
      BY <2>1, <2>3
    <3>3. Len(H) = 1 /\ H[1] = unread[1].symbol
      BY <3>1, <3>2
    <3>4. Len(B) = Len(B2) + 1 /\ B[1] = H[1]
      BY <2>3, <2>4, <2>5, <3>3
    <3>5. ASSUME NEW k \in 1 .. Len(B2)
          PROVE  B2[k] = B[k + 1]
      <4>1. k + 1 \in 1 .. Len(unread) /\ k \in 1 .. Len(unread')
        BY <2>3, <2>4, <2>5
      <4>. QED
        BY <2>3, <2>4, <2>5, <4>1
    <3>6. B \in Seq(Vocabulary) /\ B2 \in Seq(Vocabulary)
      BY <2>4, <2>5
    <3>7. H \o B2 = B
      BY <3>1, <3>3, <3>4, <3>5, <3>6, FirstAndRest
    <3>. QED
      BY <3>7 DEF H
  <2>8. Form' = Form
    BY <2>4, <2>5, <2>6, <2>7
  <2>. QED
    BY <1>1, <1>2, <2>8 DEF Stutters
<1>. QED
  BY <1>3, <1>4

LEMMA ShiftStutters ==
  ASSUME IInv, TokensInv, IInv', Shift, UNCHANGED unread
  PROVE  Stutters
<1>. DEFINE s == token[1].symbol
            top == [state |-> ActionOf(s).state, symbol |-> s, value |-> token[1].value]
            A == Symbols
            A2 == Symbols'
            C == Names(unread)
<1>1. /\ token # <<>> /\ outcome.kind # "Value" /\ UNCHANGED <<parser, outcome>>
      /\ stack' = Append(stack, top) /\ token' = <<>>
  BY DEF Shift, Does, Remembers, Running
<1>2. TableOK(table) /\ TableOK(table') /\ PathOn(table, stack) /\ PathOn(table', stack') /\ UNCHANGED g
  <2>1. table' = table
    BY <1>1 DEF table
  <2>. QED
    BY <2>1, TableFits DEF IInv, g
<1>3. /\ A \in Seq(Vocabulary) /\ Len(stack) \in Nat /\ Len(stack) >= 1 /\ Len(A) = Len(stack) - 1
      /\ \A k \in 1 .. Len(stack) - 1 : A[k] = stack[k + 1].symbol
      /\ Names(token) \in Seq(Vocabulary) /\ C \in Seq(Vocabulary)
      /\ Len(Names(token)) = Len(token)
      /\ \A k \in 1 .. Len(token) : Names(token)[k] = token[k].symbol
  BY PartsOfForm
<1>4. /\ A2 \in Seq(Vocabulary) /\ Len(A2) = Len(stack') - 1
      /\ \A k \in 1 .. Len(stack') - 1 : A2[k] = stack'[k + 1].symbol
  BY <1>2, SymbolsOfPath DEF Symbols
<1>5. /\ Len(stack') = Len(stack) + 1
      /\ \A k \in 1 .. Len(stack) : stack'[k] = stack[k]
      /\ stack'[Len(stack) + 1] = top
  <2>. HIDE DEF top
  <2>1. PICK V : stack \in Seq(Entry(table, V))
    BY <1>2 DEF PathOn
  <2>2. Entry(table, V) \subseteq Entry(table, V) \cup {top}
    OBVIOUS
  <2>3. stack \in Seq(Entry(table, V) \cup {top})
    BY <2>1, <2>2, SeqMonotonic
  <2>. QED
    BY <1>1, <2>3, AppendProperties
<1>6. Len(token) = 1 /\ s \in Vocabulary
  <2>1. Len(token) = 1
    <3>1. \E T : token \in Seq(T)
      BY DEF TokensInv, IsTokens
    <3>2. Len(token) # 0
      BY <1>1, <3>1, EmptySeq
    <3>. QED
      BY <3>2 DEF TokensInv
  <2>2. Names(token)[1] = s
    BY <1>3, <2>1
  <2>3. Names(token)[1] \in Vocabulary
    <3>. DEFINE H == Names(token)
    <3>1. H \in Seq(Vocabulary) /\ Len(H) = 1
      BY <1>3, <2>1
    <3>. HIDE DEF H
    <3>2. H[1] \in Vocabulary
      BY <3>1, ElementOfSeq
    <3>. QED
      BY <3>2 DEF H
  <2>. QED
    BY <2>1, <2>2, <2>3
<1>. DEFINE H == Names(token)
<1>7. H \in Seq(Vocabulary) /\ Len(H) = 1 /\ H[1] = s
  BY <1>3, <1>6
<1>. HIDE DEF A, A2, C, H
<1>8. A \o H = A2
  <2>1. Len(A2) = Len(A) + 1 /\ Len(A) + 1 = Len(stack)
    BY <1>3, <1>4, <1>5
  <2>2. ASSUME NEW k \in 1 .. Len(A)
        PROVE  A2[k] = A[k]
    <3>1. k \in 1 .. Len(stack) - 1 /\ k \in 1 .. Len(stack') - 1 /\ k + 1 \in 1 .. Len(stack)
      BY <1>3, <1>5
    <3>2. A2[k] = stack'[k + 1].symbol
      BY <1>4, <3>1
    <3>3. stack'[k + 1] = stack[k + 1]
      BY <1>5, <3>1
    <3>4. A[k] = stack[k + 1].symbol
      BY <1>3, <3>1
    <3>. QED
      BY <3>2, <3>3, <3>4
  <2>3. A2[Len(A) + 1] = H[1]
    <3>1. Len(stack) \in 1 .. Len(stack') - 1
      BY <1>3, <1>5
    <3>. QED
      BY <1>4, <1>5, <1>7, <2>1, <3>1
  <2>4. A \in Seq(Vocabulary) /\ A2 \in Seq(Vocabulary)
    BY <1>3, <1>4
  <2>. QED
    BY <1>7, <2>1, <2>2, <2>3, <2>4, RestAndLast
<1>9. Form' = Form
  <2>1. Form = A \o H \o C
    BY DEF Form, A, H, C
  <2>2. Form' = A2 \o Names(token') \o C
    BY DEF Form, A2, C
  <2>3. Names(token') = <<>>
    BY <1>1 DEF Names
  <2>4. A2 \o <<>> = A2
    BY <1>4, ConcatEmptySeq
  <2>. QED
    BY <1>8, <2>1, <2>2, <2>3, <2>4
<1>. QED
  BY <1>1, <1>2, <1>9 DEF Stutters

LEMMA ReduceIsHandle ==
  ASSUME ArgumentsStay, IInv, TokensInv, IInv', Reduce, UNCHANGED unread
  PROVE  Rightmost!ReduceHandle
<1>. DEFINE s == token[1].symbol
            r == ActionOf(s).rule
            rule == g.rules[r]
            n == Len(stack)
            p == n - 1 - Len(rule.rhs)
            A == Symbols
            B == Names(token) \o Names(unread)
            A2 == Symbols'
<1>1. /\ HasAction(s) /\ ActionOf(s).kind = "Reduce" /\ ReduceRule(r, rule, table.style[r])
      /\ UNCHANGED <<parser, token>> /\ outcome.kind = "Running"
  BY DEF Reduce, Does, Remembers, ReduceBy, Running
<1>R. r = ActionOf(s).rule /\ rule = g.rules[r]
  OBVIOUS
<1>. HIDE DEF s, rule, r
<1>2. /\ r \in RuleIndex(g) \ {StartRule}
      /\ Len(rule.rhs) \in Nat /\ n - Len(rule.rhs) \in 1 .. n
      /\ Spells(stack, rule.rhs)
      /\ GotoKey(rule) \in DOMAIN table.goto
      /\ rule.lhs \in Symbol /\ rule.rhs \in Seq(Symbol)
  BY <1>1, <1>R, HandleOnStack
<1>3. /\ stack' = Reduced(rule, table.style[r], table.goto[GotoKey(rule)], ValueOf(r, rule, table.style[r]))
      /\ UNCHANGED outcome
  <2>1. DeepEnough(rule)
    BY <1>1, <1>R, EnoughOnStack
  <2>. QED
    BY <1>1, <1>2, <2>1 DEF ReduceRule
<1>. DEFINE left == Kept(r, rule)
            top == [state |-> table.goto[GotoKey(rule)], symbol |-> rule.lhs, value |-> ValueOf(r, rule, table.style[r])]
<1>4. stack' = Append(left, top)
  BY <1>3 DEF Reduced, Kept
<1>5. /\ PathOn(table, left) /\ Len(left) = n - Len(rule.rhs)
      /\ SameSymbols(left, stack)
  <2>1. KeepsPath(r, rule)
    <3>1. IInv /\ ArgumentsStay /\ HasAction(s) /\ ActionOf(s).kind = "Reduce"
      BY <1>1
    <3>. QED
      BY ONLY <1>R, <3>1, KeptIsPath
  <2>. QED
    BY <2>1 DEF KeepsPath
<1>6. top.symbol = rule.lhs
  OBVIOUS
<1>7. TableOK(table) /\ PathOn(table', stack') /\ UNCHANGED <<g, table>>
  BY <1>1, TableFits DEF IInv, g, table
<1>8. /\ A \in Seq(Vocabulary) /\ n \in Nat /\ n >= 1 /\ Len(A) = n - 1
      /\ \A k \in 1 .. n - 1 : A[k] = stack[k + 1].symbol
      /\ Names(token) \in Seq(Vocabulary) /\ Names(unread) \in Seq(Vocabulary)
      /\ Form = A \o B
  BY PartsOfForm
<1>9. /\ A2 \in Seq(Vocabulary) /\ Len(A2) = Len(stack') - 1
      /\ \A k \in 1 .. Len(stack') - 1 : A2[k] = stack'[k + 1].symbol
  <2>1. TableOK(table') /\ A2 = [k \in 1 .. Len(stack') - 1 |-> stack'[k + 1].symbol]
    BY <1>7 DEF Symbols
  <2>. HIDE DEF A2
  <2>. QED
    BY <1>7, <2>1, SymbolsOfPath
<1>. HIDE DEF left, top, A, A2
<1>10. /\ Len(stack') = Len(left) + 1 /\ Len(left) \in Nat
       /\ \A k \in 1 .. Len(left) : stack'[k] = left[k]
       /\ stack'[Len(left) + 1] = top
  <2>1. PICK V : left \in Seq(Entry(table, V))
    BY <1>5 DEF PathOn
  <2>2. Entry(table, V) \subseteq Entry(table, V) \cup {top}
    OBVIOUS
  <2>3. left \in Seq(Entry(table, V) \cup {top})
    BY <2>1, <2>2, SeqMonotonic
  <2>. QED
    BY <1>4, <2>3, AppendProperties, LenProperties
<1>11. p \in 0 .. Len(A) /\ Len(rule.rhs) = Len(A) - p /\ p \in Nat /\ Len(left) = p + 1
  BY <1>2, <1>5, <1>8
<1>12. EndsWith(A, rule.rhs)
  <2>. SUFFICES ASSUME NEW q \in 1 .. Len(rule.rhs)
                PROVE  A[Len(A) - Len(rule.rhs) + q] = rule.rhs[q]
    BY DEF EndsWith
  <2>. DEFINE k == Len(A) - Len(rule.rhs) + q
  <2>1. k \in 1 .. n - 1 /\ k + 1 = n - Len(rule.rhs) + q
    <3>1. n \in Nat /\ Len(rule.rhs) \in Nat /\ n - Len(rule.rhs) \in 1 .. n /\ q \in 1 .. Len(rule.rhs) /\ Len(A) = n - 1
      BY <1>2, <1>8
    <3>. QED
      BY ONLY <3>1
  <2>. HIDE DEF k
  <2>2. A[k] = stack[k + 1].symbol
    BY <1>8, <2>1
  <2>3. stack[n - Len(rule.rhs) + q].symbol = rule.rhs[q]
    BY <1>2 DEF Spells
  <2>4. A[k] = rule.rhs[q]
    BY <2>1, <2>2, <2>3
  <2>. QED
    BY <2>4 DEF k
<1>. HIDE DEF n, p
<1>13. B \in Seq(Vocabulary) /\ rule.rhs \in Seq(Vocabulary) /\ <<rule.lhs>> \in Seq(Vocabulary)
  <2>1. B \in Seq(Vocabulary)
    <3>1. Names(token) \in Seq(Vocabulary) /\ Names(unread) \in Seq(Vocabulary)
      BY <1>8
    <3>. QED
      BY ONLY <3>1, ConcatProperties
  <2>2. Symbol \subseteq Vocabulary
    BY DEF Vocabulary
  <2>. HIDE DEF B
  <2>3. rule.rhs \in Seq(Vocabulary)
    BY <1>2, <2>2, SeqMonotonic
  <2>4. <<rule.lhs>> \in Seq(Vocabulary)
    BY <1>2, <2>2
  <2>. QED
    BY <2>1, <2>3, <2>4
<1>. HIDE DEF B
<1>14. Splits(A, B, rule.rhs, p) /\ SubSeq(A, 1, p) \in Seq(Vocabulary)
  <2>1. A \in Seq(Vocabulary) /\ B \in Seq(Vocabulary) /\ rule.rhs \in Seq(Vocabulary)
    BY <1>8, <1>13
  <2>2. p \in 0 .. Len(A) /\ Len(rule.rhs) = Len(A) - p
    BY <1>11
  <2>. QED
    BY ONLY <1>12, <2>1, <2>2, HandleEnds
<1>15. A2 = SubSeq(A, 1, p) \o <<rule.lhs>>
  <2>. DEFINE before == SubSeq(A, 1, p)
              H == <<rule.lhs>>
  <2>1. before \in Seq(Vocabulary) /\ Len(before) = p /\ \A i \in 1 .. p : before[i] = A[i]
    BY <1>14 DEF Splits
  <2>2. H \in Seq(Vocabulary) /\ Len(H) = 1 /\ H[1] = rule.lhs
    BY <1>13
  <2>. HIDE DEF before, H
  <2>3. Len(A2) = Len(before) + 1
    BY <1>9, <1>10, <1>11, <2>1
  <2>4. ASSUME NEW k \in 1 .. Len(before)
        PROVE  A2[k] = before[k]
    <3>1. k \in 1 .. p /\ k + 1 \in 1 .. Len(left) /\ k \in 1 .. Len(stack') - 1 /\ k \in 1 .. n - 1
      BY <1>8, <1>10, <1>11, <2>1
    <3>2. A2[k] = left[k + 1].symbol
      BY <1>9, <1>10, <3>1
    <3>3. left[k + 1].symbol = stack[k + 1].symbol
      BY <1>5, <3>1 DEF SameSymbols
    <3>. QED
      BY <1>8, <2>1, <3>1, <3>2, <3>3
  <2>5. A2[Len(before) + 1] = H[1]
    <3>1. p + 1 \in 1 .. Len(stack') - 1 /\ (p + 1) + 1 = Len(left) + 1
      BY <1>10, <1>11
    <3>2. A2[p + 1] = top.symbol
      BY <1>9, <1>10, <3>1
    <3>. QED
      BY <1>6, <2>1, <2>2, <3>2
  <2>6. before \o H = A2
    BY <1>9, <2>1, <2>2, <2>3, <2>4, <2>5, RestAndLast
  <2>. QED
    BY <2>6 DEF before, H
<1>16. Form' = SubSeq(A, 1, p) \o <<rule.lhs>> \o B
  <2>. DEFINE H == Names(token)
              C == Names(unread)
  <2>1. Form' = A2 \o H \o C
    BY <1>1 DEF Form, A2
  <2>2. A2 \in Seq(Vocabulary) /\ H \in Seq(Vocabulary) /\ C \in Seq(Vocabulary)
    BY <1>8, <1>9
  <2>. HIDE DEF H, C
  <2>3. A2 \o H \o C = A2 \o (H \o C)
    BY <2>2, ConcatAssociative
  <2>. QED
    BY <1>15, <2>1, <2>3 DEF B, H, C
<1>17. Rightmost!Input(g, B)
  BY RestIsInput DEF B
<1>18. /\ p \in 0 .. Len(Form) /\ Len(A) \in p .. Len(Form)
       /\ Form = SubSeq(A, 1, p) \o rule.rhs \o B
       /\ SubSeq(Form, 1, p) = SubSeq(A, 1, p) /\ SubSeq(Form, Len(A) + 1, Len(Form)) = B
  <2>1. Len(Form) = Len(A) + Len(B) /\ Len(B) \in Nat /\ Len(A) \in Nat
    <3>1. A \in Seq(Vocabulary) /\ B \in Seq(Vocabulary) /\ Form = A \o B
      BY <1>8, <1>13 DEF B
    <3>. QED
      BY ONLY <3>1, ConcatProperties, LenProperties
  <2>2. Form = A \o B
    BY <1>8 DEF B
  <2>3. p \in 0 .. Len(Form) /\ Len(A) \in p .. Len(Form)
    <3>1. p \in 0 .. Len(A)
      BY <1>11
    <3>. QED
      BY ONLY <2>1, <3>1
  <2>4. /\ SubSeq(A \o B, 1, p) = SubSeq(A, 1, p)
        /\ SubSeq(A \o B, Len(A) + 1, Len(A \o B)) = B
        /\ A \o B = SubSeq(A, 1, p) \o rule.rhs \o B
    BY <1>14 DEF Splits
  <2>5. /\ SubSeq(Form, 1, p) = SubSeq(A, 1, p)
        /\ SubSeq(Form, Len(A) + 1, Len(Form)) = B
        /\ Form = SubSeq(A, 1, p) \o rule.rhs \o B
    BY ONLY <2>2, <2>4
  <2>. QED
    BY <2>3, <2>5
<1>19. /\ outcome.kind # "Value" /\ UNCHANGED <<g, outcome>>
       /\ r \in Rightmost!RuleIndex(g) \ {Rightmost!StartRule}
  BY <1>1, <1>2, <1>3, <1>7 DEF RuleIndex, Rightmost!RuleIndex, StartRule, Rightmost!StartRule
<1>. DEFINE q == Len(A)
            before == SubSeq(Form, 1, p)
            after == SubSeq(Form, q + 1, Len(Form))
<1>20. Rightmost!Handle(r, before, after) /\ Form' = before \o <<g.rules[r].lhs>> \o after
  BY <1>R, <1>16, <1>17, <1>18 DEF Rightmost!Handle, Form
<1>. QED
  BY <1>18, <1>19, <1>20 DEF Rightmost!ReduceHandle, Form

\* The stack of an accepting state has the start symbol on it and nothing else.
LEMMA AcceptingStack ==
  ASSUME IInv, NEW s, HasAction(s), ActionOf(s).kind = "Accept"
  PROVE  /\ s = EndSymbol /\ Len(stack) = 2
         /\ \E start \in Symbol : g.rules[StartRule].rhs = <<start, EndSymbol>> /\ stack[2].symbol = start
<1>. DEFINE n == Len(stack)
<1>2. TableOK(table) /\ PathOn(table, stack) /\ n \in Nat /\ n >= 1
  BY TableFits DEF IInv
<1>3. Top.state \in DOMAIN table.states /\ ItemsFit(table, stack, n)
  BY <1>2, StateOnStack DEF Top
<1>4. ActionFits(table, Top.state, s, ActionOf(s))
  <2>1. <<Top.state, s>> \in DOMAIN table.action /\ ActionOf(s) = table.action[<<Top.state, s>>]
    BY DEF HasAction, ActionOf, EntryOf
  <2>. QED
    BY <1>2, <2>1 DEF TableOK
<1>5. s = EndSymbol /\ \E item \in table.states[Top.state] : item.rule = StartRule /\ item.pos = 1
  BY <1>4 DEF ActionFits
<1>6. PICK item \in table.states[Top.state] : item.rule = StartRule /\ item.pos = 1
  BY <1>5
<1>7. PICK start \in Symbol : g.rules[StartRule].rhs = <<start, EndSymbol>>
  BY <1>2 DEF TableOK, GrammarFits, g
<1>8. Placed(table, stack, n, item)
  BY <1>3, <1>6 DEF ItemsFit, Top
<1>9. /\ n - 1 \in 1 .. n /\ 1 < n /\ stack[n].symbol = start
      /\ [item EXCEPT !.pos = 0] \in table.states[stack[n - 1].state]
  <2>1. 1 < n /\ [item EXCEPT !.pos = 0] \in table.states[stack[n - 1].state]
    BY <1>6, <1>8 DEF Placed
  <2>2. stack[n - 1 + 1].symbol = Rhs(table.grammar, item)[1]
    BY <1>6, <1>8 DEF Placed
  <2>3. Rhs(table.grammar, item)[1] = start
    BY <1>6, <1>7 DEF Rhs, g
  <2>4. n - 1 + 1 = n /\ n - 1 \in 1 .. n
    BY <1>2, <2>1
  <2>. QED
    BY <2>1, <2>2, <2>3, <2>4
<1>10. [item EXCEPT !.pos = 0] = NewItem(StartRule)
  BY <1>2, <1>3, <1>6, ItemShape DEF NewItem
<1>11. n = 2
  <2>1. stack[n - 1].state = 1
    <3>1. stack[n - 1].state \in DOMAIN table.states
      BY <1>2, <1>9, StateOnStack
    <3>2. NewItem(StartRule) \in table.states[stack[n - 1].state]
      BY <1>9, <1>10
    <3>3. \A i \in DOMAIN table.states : NewItem(StartRule) \in table.states[i] => i = 1
      BY <1>2 DEF TableOK, GrammarFits, AutomatonFits, RuleBegins
    <3>. QED
      BY ONLY <3>1, <3>2, <3>3
  <2>2. ~(n > 2)
    <3>. SUFFICES ASSUME n > 2
                  PROVE  FALSE
      OBVIOUS
    <3>1. n - 1 \in 2 .. n
      BY <1>2
    <3>2. <<stack[n - 1 - 1].state, stack[n - 1].symbol, stack[n - 1].state>> \in table.transitions
      BY <1>2, <3>1 DEF PathOn
    <3>. QED
      BY <1>2, <2>1, <3>2 DEF TableOK, AutomatonFits
  <2>3. n \in Nat /\ 1 < n
    BY <1>2, <1>9
  <2>. QED
    BY ONLY <2>2, <2>3
<1>. QED
  BY <1>5, <1>7, <1>9, <1>11

LEMMA AcceptAccepts ==
  ASSUME IInv, TokensInv, Accept, UNCHANGED unread
  PROVE  Rightmost!Accept
<1>. DEFINE s == token[1].symbol
<1>1. /\ HasAction(s) /\ ActionOf(s).kind = "Accept" /\ token # <<>>
      /\ UNCHANGED <<parser, token, stack>> /\ outcome.kind = "Running" /\ outcome'.kind = "Value"
  BY DEF Accept, Does, Remembers, Running, Returned
<1>2. TableOK(table) /\ PathOn(table, stack)
  BY TableFits DEF IInv
<1>3. s = EndSymbol /\ Len(stack) = 2
  BY <1>1, AcceptingStack
<1>4. PICK start \in Symbol : g.rules[StartRule].rhs = <<start, EndSymbol>> /\ stack[2].symbol = start
  BY <1>1, AcceptingStack
<1>5. unread = <<>> /\ Len(token) = 1
  <2>1. \E T : token \in Seq(T)
    BY DEF TokensInv, IsTokens
  <2>2. Len(token) # 0
    BY <1>1, <2>1, EmptySeq
  <2>. QED
    BY <1>1, <1>3, <2>2 DEF TokensInv
<1>. DEFINE A == Symbols
            H == Names(token)
            C == Names(unread)
<1>6. /\ A \in Seq(Vocabulary) /\ H \in Seq(Vocabulary) /\ C \in Seq(Vocabulary)
       /\ Len(A) = 1 /\ A[1] = start /\ Len(H) = 1 /\ H[1] = EndSymbol /\ Len(C) = 0
       /\ Form = A \o (H \o C)
  <2>1. /\ A \in Seq(Vocabulary) /\ Len(A) = Len(stack) - 1
        /\ \A k \in 1 .. Len(stack) - 1 : A[k] = stack[k + 1].symbol
        /\ H \in Seq(Vocabulary) /\ C \in Seq(Vocabulary)
        /\ Len(H) = Len(token) /\ Len(C) = Len(unread)
        /\ \A k \in 1 .. Len(token) : H[k] = token[k].symbol
        /\ Form = A \o (H \o C)
    BY PartsOfForm
  <2>2. Len(unread) = 0
    BY <1>5
  <2>. HIDE DEF A, H, C
  <2>. QED
    BY <1>3, <1>4, <1>5, <2>1, <2>2
<1>. HIDE DEF A, H, C
<1>7. Form = <<start, EndSymbol>>
  <2>1. C = <<>>
    BY <1>6, EmptySeq
  <2>2. H \o C = H
    BY <1>6, <2>1, ConcatEmptySeq
  <2>. DEFINE D == <<start, EndSymbol>>
  <2>3. D \in Seq(Vocabulary) /\ Len(D) = 2 /\ D[1] = start /\ D[2] = EndSymbol
    BY <1>2 DEF Vocabulary, TableOK, GrammarFits
  <2>. HIDE DEF D
  <2>4. /\ A \in Seq(Vocabulary) /\ H \in Seq(Vocabulary) /\ Len(H) = 1
        /\ Len(D) = Len(A) + 1 /\ D[Len(A) + 1] = H[1]
        /\ \A k \in 1 .. Len(A) : D[k] = A[k]
    BY <1>6, <2>3
  <2>5. A \o H = D
    BY ONLY <2>3, <2>4, RestAndLast
  <2>. QED
    BY <1>6, <2>2, <2>5 DEF D
<1>8. UNCHANGED <<g, Form>>
  BY <1>1 DEF g, table, Form, Symbols
<1>. QED
  BY <1>1, <1>4, <1>7, <1>8 DEF Rightmost!Accept, Form, Rightmost!StartRule, StartRule

LEMMA RefinesNext ==
  ArgumentsStay /\ IInv /\ TokensInv /\ IInv' /\ TokensInv' /\ [Next]_vars
    => [Rightmost!Next]_<<g, Symbols \o Names(token) \o Names(unread), outcome.kind = "Value">>
<1>. SUFFICES ASSUME ArgumentsStay, IInv, TokensInv, IInv', TokensInv', [Next]_vars
              PROVE  Rightmost!Next \/ Stutters
  BY DEF Stutters, Form
<1>1. CASE NextToken
  BY <1>1, NextTokenStutters
<1>2. CASE Fail /\ UNCHANGED <<input, unread>>
  <2>1. UNCHANGED <<parser, token, stack, unread>> /\ outcome.kind # "Value" /\ outcome'.kind # "Value"
    BY <1>2 DEF Fail, Remembers, Running, SyntaxError
  <2>. QED
    BY <2>1 DEF Stutters, Form, Symbols, g, table
<1>3. CASE Reduce /\ UNCHANGED <<input, unread>>
  BY <1>3, ReduceIsHandle DEF Rightmost!Next
<1>4. CASE Shift /\ UNCHANGED <<input, unread>>
  BY <1>4, ShiftStutters
<1>5. CASE Accept /\ UNCHANGED <<input, unread>>
  BY <1>5, AcceptAccepts DEF Rightmost!Next
<1>6. CASE UNCHANGED vars
  BY <1>6 DEF vars, parserVars, Stutters, Form, Symbols, g, table
<1>. QED
  BY <1>1, <1>2, <1>3, <1>4, <1>5, <1>6 DEF Next, Turn, Terminated

\* parse() is the rightmost derivation in reverse: every value it returns is for
\* an input that the rules derive, whatever the table, its conflicts and its
\* lookaheads, right or wrong.
THEOREM ImplementsDerivation == ArgumentsStay => (Spec => ReverseDerivation)
<1>. SUFFICES ASSUME ArgumentsStay
              PROVE  Spec => ReverseDerivation
  OBVIOUS
<1>1. Init => IInv /\ TokensInv
  BY Begins, TokensBegin
<1>2. IInv /\ TokensInv /\ [Next]_vars => (IInv /\ TokensInv)'
  BY Goes, TokensGoOn
<1>3. Init => Rightmost!Init
  BY RefinesInit
<1>4. IInv /\ TokensInv /\ IInv' /\ TokensInv' /\ [Next]_vars
        => [Rightmost!Next]_<<g, Symbols \o Names(token) \o Names(unread), outcome.kind = "Value">>
  BY RefinesNext
<1>. QED
  BY <1>1, <1>2, <1>3, <1>4, PTL DEF Spec, ReverseDerivation, Rightmost!Spec

-----------------------------------------------------------------------------
(* Hypotheses: a value is the sequence of what it was made of *)

TokensValued(D) ==
  /\ NoValue = <<>>
  /\ \A k \in DOMAIN Prepared : \A tokens \in Inputs(Prepared[k].grammar) :
       \A j \in 1 .. Len(tokens) : tokens[j] \in [symbol : Symbol \cup {NoMatch}, value : Seq(D)]

\* An action makes its value of all of its arguments; a midrule action that leaves
\* them where they are has nothing of its own.
ActionsCollect(D) ==
  \A k \in DOMAIN Prepared : \A r \in RuleIndex(Prepared[k].grammar) : \A args \in Seq(Seq(D)) :
    Perform(Prepared[k], r, args) =
      IF IsMidrule(Prepared[k].grammar.rules[r]) /\ Prepared[k].style[r] = "Read" THEN <<>> ELSE FlattenSeq(args)

-----------------------------------------------------------------------------
(* Values of entries *)

Valued(D, st) == Len(st) \in Nat /\ DOMAIN st = 1 .. Len(st) /\ \A k \in 1 .. Len(st) : st[k].value \in Seq(D)

ListOf(st) == [k \in DOMAIN st |-> st[k].value]

LEMMA ValuesOfList == \A st : Values(st) = FlattenSeq(ListOf(st))
BY DEF Values, ListOf

LEMMA ListOfValues ==
  ASSUME NEW D, NEW st, Valued(D, st)
  PROVE  /\ ListOf(st) \in Seq(Seq(D)) /\ Len(ListOf(st)) = Len(st)
         /\ \A k \in 1 .. Len(st) : ListOf(st)[k] = st[k].value
<1>1. Len(st) \in Nat /\ DOMAIN st = 1 .. Len(st)
  BY DEF Valued
<1>2. ListOf(st) = [k \in 1 .. Len(st) |-> st[k].value]
  BY <1>1 DEF ListOf
<1>3. [k \in 1 .. Len(st) |-> st[k].value] \in [1 .. Len(st) -> Seq(D)]
  BY DEF Valued
<1>4. ListOf(st) \in Seq(Seq(D))
  BY <1>1, <1>2, <1>3, IsASeq
<1>5. Len(ListOf(st)) = Len(st)
  BY <1>1, <1>2, <1>4, LenProperties
<1>. QED  BY <1>2, <1>4, <1>5

\* Entries with the same list of values have the same values.
LEMMA SameValues ==
  ASSUME NEW D, NEW st, Valued(D, st), NEW list \in Seq(Seq(D)), Len(list) = Len(st),
         \A k \in 1 .. Len(st) : st[k].value = list[k]
  PROVE  Values(st) = FlattenSeq(list)
<1>. DEFINE own == ListOf(st)
<1>1. own \in Seq(Seq(D)) /\ Len(own) = Len(st) /\ \A k \in 1 .. Len(st) : own[k] = st[k].value
  BY ListOfValues
<1>. HIDE DEF own
<1>2. \A k \in 1 .. Len(list) : own[k] = list[k]
  BY <1>1
<1>3. own = list
  BY <1>1, <1>2, SeqEqual
<1>. QED  BY <1>3, ValuesOfList DEF own

LEMMA ValuesOfMore ==
  ASSUME NEW D, NEW X, NEW st \in Seq(X), Valued(D, st), NEW e \in X, e.value \in Seq(D)
  PROVE  Valued(D, Append(st, e)) /\ Values(Append(st, e)) = Values(st) \o e.value
<1>. DEFINE more == Append(st, e)
            list == Append(ListOf(st), e.value)
            n == Len(st)
<1>1. n \in Nat /\ more \in Seq(X) /\ Len(more) = n + 1 /\ more[n + 1] = e /\ \A k \in 1 .. n : more[k] = st[k]
  BY AppendProperties, LenProperties
<1>2. ListOf(st) \in Seq(Seq(D)) /\ Len(ListOf(st)) = n /\ \A k \in 1 .. n : ListOf(st)[k] = st[k].value
  BY ListOfValues
<1>3. /\ list \in Seq(Seq(D)) /\ Len(list) = n + 1 /\ list[n + 1] = e.value
      /\ \A k \in 1 .. n : list[k] = st[k].value
  BY <1>1, <1>2, AppendProperties
<1>4. FlattenSeq(list) = Values(st) \o e.value
  BY <1>2, FlattenAppend, ValuesOfList
<1>. HIDE DEF more, list, n
<1>5. \A k \in 1 .. n + 1 : more[k].value = list[k] /\ list[k] \in Seq(D)
  <2>1. \A k \in 1 .. n + 1 : k \in 1 .. n \/ k = n + 1
    BY <1>1
  <2>2. \A k \in 1 .. n + 1 : list[k] \in Seq(D)
    BY <1>3, ElementOfSeq
  <2>. QED  BY <1>1, <1>3, <2>1, <2>2
<1>6. Valued(D, more)
  BY <1>1, <1>5, LenProperties DEF Valued
<1>7. Values(more) = FlattenSeq(list)
  BY <1>1, <1>3, <1>5, <1>6, SameValues
<1>. QED  BY <1>4, <1>6, <1>7 DEF more

-----------------------------------------------------------------------------
(* Reductions *)

LEMMA EntryIsRecord ==
  ASSUME NEW t, NEW V, NEW e \in Entry(t, V), NEW v
  PROVE  [e EXCEPT !.value = v].value = v
BY DEF Entry

\* The arguments are moved out of the entries on top.
LEMMA MovedValues ==
  ASSUME IInv, NoValue = <<>>, NEW rule, NEW k \in 1 .. Len(stack)
  PROVE  MovedFrom(rule)[k].value = IF k > Len(stack) - Arity(rule) THEN <<>> ELSE stack[k].value
<1>1. PICK V : stack \in Seq(Entry(table, V))
  BY DEF IInv, PathOn
<1>2. k \in DOMAIN stack /\ stack[k] \in Entry(table, V)
  BY <1>1, LenProperties, ElementOfSeq
<1>3. MovedFrom(rule)[k] = IF k > Len(stack) - Arity(rule) THEN [stack[k] EXCEPT !.value = NoValue] ELSE stack[k]
  BY <1>2 DEF MovedFrom
<1>4. [stack[k] EXCEPT !.value = NoValue].value = NoValue
  BY <1>2, EntryIsRecord
<1>. QED  BY <1>3, <1>4

LEMMA GivenBackValues ==
  ASSUME IInv, NEW rule, NEW style, NEW k \in 1 .. Len(stack)
  PROVE  LET from == Len(stack) - Len(Remaining(rule, style))
         IN  GivenBack(rule, style)[k].value = IF k > from THEN Remaining(rule, style)[k - from] ELSE MovedFrom(rule)[k].value
<1>. DEFINE from == Len(stack) - Len(Remaining(rule, style))
            back == Remaining(rule, style)[k - from]
<1>1. PICK V : stack \in Seq(Entry(table, V))
  BY DEF IInv, PathOn
<1>2. k \in DOMAIN stack /\ stack[k] \in Entry(table, V)
  BY <1>1, LenProperties, ElementOfSeq
<1>3. GivenBack(rule, style)[k] = IF k > from THEN [stack[k] EXCEPT !.value = back] ELSE MovedFrom(rule)[k]
  BY <1>2 DEF GivenBack
<1>. HIDE DEF from, back
<1>4. [stack[k] EXCEPT !.value = back].value = back
  BY <1>2, EntryIsRecord
<1>5. GivenBack(rule, style)[k].value = IF k > from THEN back ELSE MovedFrom(rule)[k].value
  BY <1>3, <1>4
<1>. QED  BY <1>5 DEF from, back

\* The arguments are as many as the stack has to give.
LEMMA ArgumentsOnStack ==
  ASSUME IInv, NEW s, HasAction(s), ActionOf(s).kind = "Reduce",
         NEW r, r = ActionOf(s).rule, NEW rule, rule = g.rules[r]
  PROVE  Arity(rule) \in 0 .. Len(stack) /\ Len(stack) \in Nat
<1>1. Arity(rule) <= Len(stack)
  BY EnoughOnStack DEF DeepEnough
<1>2. r \in RuleIndex(g) /\ Len(rule.rhs) \in Nat
  BY HandleOnStack
<1>3. TableOK(table) /\ Len(stack) \in Nat
  BY TableFits
<1>4. rule \in Rule
  BY <1>2, <1>3 DEF TableOK, GrammarFits, g, RuleIndex
<1>5. Arity(rule) \in Nat
  BY <1>2, <1>4 DEF Arity, IsMidrule, Rule
<1>. QED  BY <1>1, <1>3, <1>5

\* The entries that are left hold the values that are not in that of the rule.
KeepsValues(D, r, rule, value) ==
  /\ Arguments(rule) \in Seq(Seq(D)) /\ value \in Seq(D)
  /\ Valued(D, Kept(r, rule))
  /\ \A k \in 1 .. Len(Kept(r, rule)) : Kept(r, rule)[k].value \in {<<>>, stack[k].value}
  /\ Values(Kept(r, rule)) \o value = Values(stack)

LEMMA KeptValues ==
  ASSUME NEW D, IInv, ArgumentsStay, NoValue = <<>>, Valued(D, stack),
         NEW s, HasAction(s), ActionOf(s).kind = "Reduce",
         NEW r, r = ActionOf(s).rule, NEW rule, rule = g.rules[r],
         NEW style, style = table.style[r], style # "None",
         NEW value, value = IF IsMidrule(rule) /\ style = "Read" THEN <<>> ELSE FlattenSeq(Arguments(rule))
  PROVE  KeepsValues(D, r, rule, value)
<1>. DEFINE n == Len(stack)
            m == Arity(rule)
            base == n - m
            all == ListOf(stack)
            lower == SubSeq(all, 1, base)
            args == Arguments(rule)
            kept == Kept(r, rule)
<1>1. m \in 0 .. n /\ n \in Nat
  BY ArgumentsOnStack
<1>2. base \in 0 .. n /\ m \in Nat /\ n = base + m /\ base \in Nat
  BY <1>1
<1>3. all \in Seq(Seq(D)) /\ Len(all) = n /\ \A k \in 1 .. n : all[k] = stack[k].value
  BY ListOfValues
<1>4. args = [k \in 1 .. m |-> stack[base + k].value]
  BY DEF Arguments
<1>. HIDE DEF all, args, base, m, n
<1>5. args \in Seq(Seq(D)) /\ Len(args) = m /\ \A k \in 1 .. m : args[k] = all[base + k]
  <2>1. \A k \in 1 .. m : base + k \in 1 .. n
    BY <1>1, <1>2
  <2>2. \A k \in 1 .. m : stack[base + k].value = all[base + k] /\ all[base + k] \in Seq(D)
    BY <1>3, <2>1, ElementOfSeq
  <2>3. args \in [1 .. m -> Seq(D)]
    BY <1>4, <2>2
  <2>4. args \in Seq(Seq(D))
    BY <1>2, <2>3, IsASeq
  <2>5. Len(args) = m
    BY <1>2, <1>4, <2>4, LenProperties
  <2>. QED  BY <1>4, <2>2, <2>4, <2>5
<1>6. lower \in Seq(Seq(D)) /\ Len(lower) = base /\ \A k \in 1 .. base : lower[k] = all[k]
  <2>1. base \in 0 .. Len(all)
    BY <1>2, <1>3
  <2>. QED  BY <1>2, <1>3, <2>1, SubSeqProperties
<1>. HIDE DEF lower
<1>7. Values(stack) = FlattenSeq(lower) \o FlattenSeq(args)
  <2>. DEFINE both == lower \o args
  <2>1. /\ both \in Seq(Seq(D)) /\ Len(both) = base + m
        /\ \A k \in 1 .. base : both[k] = lower[k]
        /\ \A k \in 1 .. m : both[base + k] = args[k]
    <3>1. lower \in Seq(Seq(D)) /\ args \in Seq(Seq(D)) /\ base = Len(lower)
      BY <1>5, <1>6
    <3>2. /\ lower \o args \in Seq(Seq(D)) /\ Len(lower \o args) = base + Len(args)
          /\ \A k \in 1 .. base : (lower \o args)[k] = lower[k]
          /\ \A k \in 1 .. Len(args) : (lower \o args)[base + k] = args[k]
      BY ONLY <3>1, Joined
    <3>. QED  BY <1>5, <3>2
  <2>. HIDE DEF both
  <2>2. ASSUME NEW k \in 1 .. n PROVE both[k] = all[k]
    <3>1. CASE k \in 1 .. base
      BY <1>6, <2>1, <3>1
    <3>2. CASE k \notin 1 .. base
      <4>1. k - base \in 1 .. m /\ base + (k - base) = k
        BY <1>1, <1>2, <3>2
      <4>2. both[base + (k - base)] = args[k - base] /\ args[k - base] = all[base + (k - base)]
        BY ONLY <1>5, <2>1, <4>1
      <4>. QED  BY <4>1, <4>2
    <3>. QED  BY <3>1, <3>2
  <2>3. both = all
    <3>1. Len(both) = n /\ \A k \in 1 .. Len(both) : both[k] = all[k]
      BY <1>2, <2>1, <2>2
    <3>2. both \in Seq(Seq(D)) /\ all \in Seq(Seq(D)) /\ Len(both) = Len(all)
      BY <1>3, <2>1, <3>1
    <3>. QED  BY ONLY <3>1, <3>2, SeqEqual
  <2>4. FlattenSeq(both) = FlattenSeq(lower) \o FlattenSeq(args)
    BY <1>5, <1>6, FlattenConcat DEF both
  <2>5. Values(stack) = FlattenSeq(all)
    BY ValuesOfList DEF all
  <2>. QED  BY <2>3, <2>4, <2>5
<1>8. FlattenSeq(lower) \in Seq(D) /\ FlattenSeq(args) \in Seq(D) /\ <<>> \in Seq(D)
  BY <1>5, <1>6, FlattenType
<1>9. value \in Seq(D)
  BY <1>8 DEF args
<1>10. \A k \in 1 .. n : MovedFrom(rule)[k].value = IF k > base THEN <<>> ELSE all[k]
  <2>. TAKE k \in 1 .. n
  <2>1. MovedFrom(rule)[k].value = IF k > base THEN <<>> ELSE stack[k].value
    BY MovedValues DEF base, m, n
  <2>. QED  BY <1>3, <2>1
<1>11. PathOn(table, kept) /\ Len(kept) = n - Len(rule.rhs)
  <2>1. /\ IInv /\ ArgumentsStay /\ HasAction(s) /\ ActionOf(s).kind = "Reduce"
        /\ r = ActionOf(s).rule /\ rule = g.rules[r]
    OBVIOUS
  <2>2. KeepsPath(r, rule)
    BY ONLY <2>1, KeptIsPath
  <2>. QED  BY <2>2 DEF KeepsPath, kept, n
<1>12. Len(kept) \in Nat /\ DOMAIN kept = 1 .. Len(kept)
  BY <1>11, LenProperties DEF PathOn
<1>13. style \in {"Read", "Move", "ByValue"}
  <2>1. r \in RuleIndex(g) /\ TableOK(table)
    BY HandleOnStack, TableFits
  <2>. QED  BY <2>1 DEF TableOK, Styles, g
<1>. DEFINE back == Remaining(rule, style)
<1>14. back = CASE style = "Read" -> args [] style = "Move" -> [k \in 1 .. m |-> <<>>] [] style = "ByValue" -> <<>>
  BY <1>13 DEF Remaining, args, m
<1>15. Len(back) = IF style = "ByValue" THEN 0 ELSE m
  BY <1>2, <1>5, <1>13, <1>14
<1>. HIDE DEF back
<1>16. CASE ~IsMidrule(rule)
  <2>1. m = Len(rule.rhs) /\ Len(kept) = base /\ kept = SubSeq(MovedFrom(rule), 1, n - Len(back))
    BY <1>2, <1>11, <1>16 DEF Arity, m, base, kept, Kept, Popped, back, n
  <2>2. style # "ByValue"
    <3>1. r \in RuleIndex(g)
      BY HandleOnStack
    <3>. QED  BY <1>16, <3>1 DEF ArgumentsStay, IInv, g, table
  <2>3. kept = SubSeq(MovedFrom(rule), 1, base)
    BY <1>2, <1>15, <2>1, <2>2
  <2>. HIDE DEF kept
  <2>4. \A k \in 1 .. base : kept[k] = MovedFrom(rule)[k]
    <3>1. PICK V : MovedFrom(rule) \in Seq(Entry(table, V))
      BY MovedKeepsPath DEF PathOn
    <3>2. Len(MovedFrom(rule)) = n
      BY MovedKeepsPath DEF n
    <3>. QED  BY <1>2, <2>3, <3>1, <3>2, SubSeqProperties
  <2>5. \A k \in 1 .. base : kept[k].value = lower[k] /\ lower[k] \in Seq(D)
    <3>. TAKE k \in 1 .. base
    <3>1. k \in 1 .. n /\ ~(k > base)
      BY <1>1, <1>2
    <3>2. lower[k] \in Seq(D)
      BY <1>2, <1>6, ElementOfSeq
    <3>. QED  BY <1>6, <1>10, <2>4, <3>1, <3>2
  <2>6. Valued(D, kept)
    BY <1>12, <2>1, <2>5 DEF Valued
  <2>7. Values(kept) = FlattenSeq(lower)
    <3>1. Len(lower) = Len(kept) /\ \A k \in 1 .. Len(kept) : kept[k].value = lower[k]
      BY <1>6, <2>1, <2>5
    <3>. QED  BY <1>6, <2>6, <3>1, SameValues
  <2>8. value = FlattenSeq(args)
    BY <1>16 DEF args
  <2>9. \A k \in 1 .. Len(kept) : kept[k].value \in {<<>>, stack[k].value}
    <3>1. \A k \in 1 .. Len(kept) : k \in 1 .. base /\ k \in 1 .. n
      <4>1. Len(kept) = base /\ base \in 0 .. n /\ n \in Nat
        BY <1>1, <1>2, <2>1
      <4>. QED  BY ONLY <4>1
    <3>. QED  BY <1>3, <1>6, <2>5, <3>1
  <2>. QED  BY <1>5, <1>7, <1>9, <2>6, <2>7, <2>8, <2>9 DEF KeepsValues, kept, args
<1>17. ASSUME IsMidrule(rule)
       PROVE  /\ Len(kept) = n
              /\ \A k \in 1 .. n : kept[k].value = IF k > n - Len(back) THEN back[k - (n - Len(back))] ELSE MovedFrom(rule)[k].value
  <2>1. kept = GivenBack(rule, style)
    BY <1>17 DEF kept, Kept
  <2>2. Len(kept) = n
    BY <2>1, GivenBackKeepsPath DEF n
  <2>. HIDE DEF kept
  <2>. QED  BY <2>1, <2>2, GivenBackValues DEF n, back
<1>18. CASE IsMidrule(rule) /\ style = "Read"
  <2>. HIDE DEF kept
  <2>1. \A k \in 1 .. n : kept[k].value = all[k] /\ all[k] \in Seq(D)
    <3>. TAKE k \in 1 .. n
    <3>0. all[k] \in Seq(D)
      BY <1>3, ElementOfSeq
    <3>1. back = args /\ n - Len(back) = base
      BY <1>2, <1>5, <1>14, <1>18
    <3>2. CASE k > base
      <4>1. k - base \in 1 .. m /\ base + (k - base) = k
        BY <1>1, <1>2, <3>2
      <4>. QED  BY <1>5, <1>17, <1>18, <3>0, <3>1, <3>2, <4>1
    <3>3. CASE ~(k > base)
      BY <1>10, <1>17, <1>18, <3>0, <3>1, <3>3
    <3>. QED  BY <3>2, <3>3
  <2>2. Valued(D, kept)
    BY <1>12, <1>17, <1>18, <2>1 DEF Valued
  <2>3. Values(kept) = FlattenSeq(all) /\ FlattenSeq(all) = Values(stack)
    BY <1>3, <1>17, <1>18, <2>1, <2>2, SameValues, ValuesOfList DEF all
  <2>4. value = <<>> /\ FlattenSeq(all) \in Seq(D)
    BY <1>3, <1>18, FlattenType
  <2>5. Values(kept) \o value = Values(stack)
    BY <2>3, <2>4, ConcatEmptySeq
  <2>6. \A k \in 1 .. Len(kept) : kept[k].value \in {<<>>, stack[k].value}
    BY <1>3, <1>17, <1>18, <2>1
  <2>. QED  BY <1>5, <1>9, <2>2, <2>5, <2>6 DEF KeepsValues, kept, args
<1>19. CASE IsMidrule(rule) /\ style # "Read"
  <2>. DEFINE none == [k \in 1 .. m |-> <<>>]
              list == lower \o none
  <2>. HIDE DEF kept
  <2>1. none \in Seq(Seq(D)) /\ Len(none) = m /\ \A k \in 1 .. m : none[k] = <<>>
    <3>1. none \in [1 .. m -> Seq(D)]
      BY <1>8
    <3>2. none \in Seq(Seq(D))
      BY <1>2, <3>1, IsASeq
    <3>3. Len(none) = m
      BY <1>2, <3>2, LenProperties
    <3>. QED  BY <3>2, <3>3
  <2>. HIDE DEF none
  <2>2. /\ list \in Seq(Seq(D)) /\ Len(list) = base + m
        /\ \A k \in 1 .. base : list[k] = lower[k]
        /\ \A k \in 1 .. m : list[base + k] = none[k]
    <3>1. lower \in Seq(Seq(D)) /\ none \in Seq(Seq(D)) /\ base = Len(lower)
      BY <1>6, <2>1
    <3>2. /\ lower \o none \in Seq(Seq(D)) /\ Len(lower \o none) = base + Len(none)
          /\ \A k \in 1 .. base : (lower \o none)[k] = lower[k]
          /\ \A k \in 1 .. Len(none) : (lower \o none)[base + k] = none[k]
      BY ONLY <3>1, Joined
    <3>. QED  BY <2>1, <3>2
  <2>. HIDE DEF list
  <2>9. \A k \in 1 .. n : kept[k].value = IF k > base THEN <<>> ELSE all[k]
    <3>. TAKE k \in 1 .. n
    <3>1. CASE style = "Move"
      <4>1. back = [i \in 1 .. m |-> <<>>] /\ n - Len(back) = base
        BY <1>2, <1>14, <1>15, <3>1
      <4>2. k > base => k - base \in 1 .. m
        BY <1>1, <1>2
      <4>. QED  BY <1>10, <1>17, <1>19, <4>1, <4>2
    <3>2. CASE style = "ByValue"
      <4>1. n - Len(back) = n /\ ~(k > n)
        BY <1>1, <1>15, <3>2
      <4>. QED  BY <1>10, <1>17, <1>19, <4>1
    <3>. QED  BY <1>13, <1>19, <3>1, <3>2
  <2>3. \A k \in 1 .. n : kept[k].value = list[k] /\ list[k] \in Seq(D)
    <3>. TAKE k \in 1 .. n
    <3>0. list[k] \in Seq(D)
      BY <1>2, <2>2, ElementOfSeq
    <3>1. kept[k].value = IF k > base THEN <<>> ELSE all[k]
      BY <2>9
    <3>2. list[k] = IF k > base THEN <<>> ELSE all[k]
      <4>1. CASE k > base
        <5>1. k - base \in 1 .. m /\ base + (k - base) = k
          BY <1>1, <1>2, <4>1
        <5>2. list[base + (k - base)] = none[k - base] /\ none[k - base] = <<>>
          BY ONLY <2>1, <2>2, <5>1
        <5>. QED  BY <4>1, <5>1, <5>2
      <4>2. CASE ~(k > base)
        <5>1. k \in 1 .. base
          BY <1>1, <1>2, <4>2
        <5>. QED  BY <1>6, <2>2, <4>2, <5>1
      <4>. QED  BY <4>1, <4>2
    <3>. QED  BY <3>0, <3>1, <3>2
  <2>4. Valued(D, kept)
    BY <1>12, <1>17, <1>19, <2>3 DEF Valued
  <2>8. \A k \in 1 .. Len(kept) : kept[k].value \in {<<>>, stack[k].value}
    BY <1>3, <1>17, <1>19, <2>9
  <2>5. Values(kept) = FlattenSeq(list)
    BY <1>2, <1>17, <1>19, <2>2, <2>3, <2>4, SameValues
  <2>6. FlattenSeq(list) = FlattenSeq(lower)
    <3>1. FlattenSeq(list) = FlattenSeq(lower) \o FlattenSeq(none)
      BY <1>6, <2>1, FlattenConcat DEF list
    <3>2. FlattenSeq(none) = <<>>
      BY <2>1, FlattenEmpties
    <3>. QED  BY <1>8, <3>1, <3>2, ConcatEmptySeq
  <2>7. value = FlattenSeq(args)
    BY <1>19 DEF args
  <2>. QED  BY <1>5, <1>7, <1>9, <2>4, <2>5, <2>6, <2>7, <2>8 DEF KeepsValues, kept, args
<1>. QED  BY <1>16, <1>18, <1>19

-----------------------------------------------------------------------------
(* Tokens *)

TokenOf(D) == [symbol : Symbol \cup {NoMatch}, value : Seq(D)]

\* All that the tokenizer hands out, and how many tokens it has handed out.
All == Append(input, EndToken)
Handed == Len(input) + 1 - Len(unread)

\* What is unread is what has not been handed out, and the token is the last one
\* that was.
LinedUp(D) ==
  /\ input \in Seq(TokenOf(D)) /\ \A k \in 1 .. Len(input) : input[k].symbol # EndSymbol
  /\ unread \in Seq(TokenOf(D)) /\ Len(unread) <= Len(input) + 1
  /\ \A k \in 1 .. Len(unread) : unread[k] = All[Handed + k]
  /\ token = <<>> \/ (Handed >= 1 /\ token = <<All[Handed]>>)

LEMMA AllTokens ==
  ASSUME NEW D, input \in Seq(TokenOf(D)), NoValue = <<>>, EndSymbol \in Symbol
  PROVE  /\ Len(input) \in Nat /\ EndToken \in TokenOf(D)
         /\ All \in Seq(TokenOf(D)) /\ Len(All) = Len(input) + 1
         /\ All[Len(input) + 1] = EndToken /\ \A k \in 1 .. Len(input) : All[k] = input[k]
<1>1. EndToken \in TokenOf(D)
  BY DEF EndToken, TokenOf
<1>2. Len(input) \in Nat
  BY LenProperties
<1>. QED  BY <1>1, <1>2, AppendProperties DEF All

LEMMA LinesUp ==
  ASSUME NEW D, TokensValued(D), Init
  PROVE  LinedUp(D)
<1>1. /\ parser \in DOMAIN Prepared /\ input \in Inputs(g) /\ unread = Append(input, EndToken) /\ token = <<>>
  BY DEF Init
<1>2. TableOK(table) /\ NoMatch # EndSymbol
  BY <1>1, TablesAssumption, InputsAssumption DEF table
<1>3. /\ Len(input) \in Nat /\ input = [j \in 1 .. Len(input) |-> input[j]]
      /\ \A j \in 1 .. Len(input) : input[j].symbol \in g.terminals \cup {NoMatch}
  BY <1>1, InputsAssumption DEF g, table
<1>4. \A j \in 1 .. Len(input) : input[j] \in TokenOf(D)
  BY <1>1 DEF TokensValued, TokenOf, g, table
<1>5. \A j \in 1 .. Len(input) : input[j].symbol # EndSymbol
  BY <1>2, <1>3 DEF TableOK, GrammarFits, g
<1>6. input \in Seq(TokenOf(D))
  <2>1. input \in [1 .. Len(input) -> TokenOf(D)]
    BY <1>3, <1>4
  <2>. QED  BY <1>3, <2>1, IsASeq
<1>7. /\ All \in Seq(TokenOf(D)) /\ Len(All) = Len(input) + 1 /\ unread = All
  BY <1>1, <1>2, <1>6, AllTokens DEF TokensValued, TableOK, GrammarFits, All
<1>8. \A k \in 1 .. Len(unread) : unread[k] = All[Handed + k]
  <2>1. Handed = 0
    BY <1>3, <1>7 DEF Handed
  <2>. QED  BY <1>7, <2>1
<1>. QED  BY <1>1, <1>3, <1>5, <1>6, <1>7, <1>8 DEF LinedUp

LEMMA HandsOn ==
  ASSUME NEW D, NoValue = <<>>, EndSymbol \in Symbol, LinedUp(D),
         unread # <<>>, unread' = Tail(unread), token = <<>>, token' = <<Head(unread)>>, UNCHANGED input
  PROVE  LinedUp(D)' /\ Consumed' = Consumed
<1>1. /\ input \in Seq(TokenOf(D)) /\ unread \in Seq(TokenOf(D)) /\ Len(unread) <= Len(input) + 1
      /\ \A k \in 1 .. Len(unread) : unread[k] = All[Handed + k]
  BY DEF LinedUp
<1>2. /\ Head(unread) = unread[1] /\ unread' \in Seq(TokenOf(D)) /\ Len(unread') = Len(unread) - 1
      /\ Len(unread) \in Nat /\ Len(unread) >= 1 /\ Len(input) \in Nat
      /\ \A k \in 1 .. Len(unread') : unread'[k] = unread[k + 1]
  BY <1>1, HeadTailProperties, EmptySeq, LenProperties
<1>3. Handed' = Handed + 1 /\ Handed \in Nat /\ All' = All
  BY <1>1, <1>2 DEF Handed, All, EndToken
<1>4. \A k \in 1 .. Len(unread') : unread'[k] = All'[Handed' + k]
  <2>. TAKE k \in 1 .. Len(unread')
  <2>1. k + 1 \in 1 .. Len(unread) /\ Handed + (k + 1) = Handed + 1 + k
    BY <1>2, <1>3
  <2>2. unread[k + 1] = All[Handed + (k + 1)]
    BY <1>1, <2>1
  <2>. QED  BY <1>2, <1>3, <2>1, <2>2
<1>5. Handed' >= 1 /\ token' = <<All'[Handed']>>
  <2>1. unread[1] = All[Handed + 1]
    BY <1>1, <1>2
  <2>. QED  BY <1>2, <1>3, <2>1
<1>6. LinedUp(D)'
  BY <1>1, <1>2, <1>4, <1>5 DEF LinedUp
<1>7. Len(token) = 0 /\ Len(token') = 1
  OBVIOUS
<1>8. Len(input') + 1 - Len(unread') - Len(token') = Len(input) + 1 - Len(unread) - Len(token)
  BY <1>2, <1>7
<1>. QED  BY <1>6, <1>8 DEF Consumed

\* What a token is consumed for is one more token of the input.
LEMMA ConsumesOne ==
  ASSUME NEW D, NoValue = <<>>, EndSymbol \in Symbol, LinedUp(D), token # <<>>, token[1].symbol # EndSymbol,
         token' = <<>>, UNCHANGED <<input, unread>>
  PROVE  /\ LinedUp(D)' /\ token[1] \in TokenOf(D)
         /\ Consumed \in Seq(TokenOf(D)) /\ Consumed' = Append(Consumed, token[1])
<1>1. /\ input \in Seq(TokenOf(D)) /\ unread \in Seq(TokenOf(D)) /\ Len(unread) <= Len(input) + 1
      /\ Handed >= 1 /\ token = <<All[Handed]>>
  BY DEF LinedUp
<1>2. /\ Len(input) \in Nat /\ All \in Seq(TokenOf(D)) /\ Len(All) = Len(input) + 1
      /\ All[Len(input) + 1] = EndToken /\ \A k \in 1 .. Len(input) : All[k] = input[k]
  BY <1>1, AllTokens
<1>3. Len(unread) \in Nat /\ Handed \in 1 .. Len(input) + 1
  BY <1>1, <1>2, LenProperties DEF Handed
<1>4. token[1] = All[Handed] /\ Len(token) = 1 /\ Len(token') = 0
  BY <1>1
<1>5. Handed # Len(input) + 1
  BY <1>2, <1>4 DEF EndToken
<1>6. Handed \in 1 .. Len(input) /\ token[1] = input[Handed] /\ token[1] \in TokenOf(D)
  <2>1. Handed \in 1 .. Len(input)
    BY <1>2, <1>3, <1>5
  <2>. QED  BY <1>1, <1>2, <1>4, <2>1, ElementOfSeq
<1>7. Consumed = SubSeq(input, 1, Handed - 1) /\ Consumed' = SubSeq(input, 1, Handed)
  <2>1. Len(input) + 1 - Len(unread) - Len(token) = Handed - 1 /\ Len(input') + 1 - Len(unread') - Len(token') = Handed
    BY <1>2, <1>3, <1>4 DEF Handed
  <2>. QED  BY <2>1 DEF Consumed
<1>8. LinedUp(D)'
  BY DEF LinedUp, All, Handed, EndToken
<1>. DEFINE a == SubSeq(input, 1, Handed - 1)
            b == SubSeq(input, 1, Handed)
            c == Append(a, input[Handed])
<1>9. a \in Seq(TokenOf(D)) /\ Len(a) = Handed - 1 /\ \A k \in 1 .. Handed - 1 : a[k] = input[k]
  <2>1. Handed - 1 \in 0 .. Len(input)
    BY <1>2, <1>6
  <2>. QED  BY <1>1, <2>1, SubSeqProperties
<1>10. b \in Seq(TokenOf(D)) /\ Len(b) = Handed /\ \A k \in 1 .. Handed : b[k] = input[k]
  BY <1>1, <1>2, <1>6, SubSeqProperties
<1>11. /\ c \in Seq(TokenOf(D)) /\ Len(c) = Handed /\ c[Handed] = input[Handed]
       /\ \A k \in 1 .. Handed - 1 : c[k] = input[k]
  <2>1. Handed - 1 + 1 = Handed
    BY <1>6
  <2>. QED  BY <1>6, <1>9, <2>1, AppendProperties
<1>. HIDE DEF a, b, c
<1>12. Len(b) = Len(c) /\ \A k \in 1 .. Len(b) : b[k] = c[k]
  <2>1. \A k \in 1 .. Handed : k \in 1 .. Handed - 1 \/ k = Handed
    BY <1>6
  <2>. QED  BY <1>10, <1>11, <2>1
<1>13. b = c
  BY <1>10, <1>11, <1>12, SeqEqual
<1>. QED  BY <1>6, <1>7, <1>8, <1>9, <1>13 DEF a, b, c

\* At @end all of the input has been consumed.
LEMMA EndConsumesAll ==
  ASSUME NEW D, NoValue = <<>>, EndSymbol \in Symbol, LinedUp(D), token # <<>>, token[1].symbol = EndSymbol
  PROVE  Consumed = input
<1>1. /\ input \in Seq(TokenOf(D)) /\ unread \in Seq(TokenOf(D)) /\ Len(unread) <= Len(input) + 1
      /\ Handed >= 1 /\ token = <<All[Handed]>>
      /\ \A k \in 1 .. Len(input) : input[k].symbol # EndSymbol
  BY DEF LinedUp
<1>2. /\ Len(input) \in Nat /\ \A k \in 1 .. Len(input) : All[k] = input[k]
  BY <1>1, AllTokens
<1>3. Len(unread) \in Nat /\ Handed \in 1 .. Len(input) + 1
  BY <1>1, <1>2, LenProperties DEF Handed
<1>4. token[1] = All[Handed] /\ Len(token) = 1
  BY <1>1
<1>5. Handed \notin 1 .. Len(input)
  BY <1>1, <1>2, <1>4
<1>6. Len(input) + 1 - Len(unread) - Len(token) = Len(input)
  BY <1>2, <1>3, <1>4, <1>5 DEF Handed
<1>7. Consumed = SubSeq(input, 1, Len(input))
  BY <1>6 DEF Consumed
<1>. HIDE DEF Consumed
<1>. DEFINE a == SubSeq(input, 1, Len(input))
<1>8. a \in Seq(TokenOf(D)) /\ Len(a) = Len(input) /\ \A k \in 1 .. Len(input) : a[k] = input[k]
  BY <1>1, <1>2, SubSeqProperties
<1>. HIDE DEF a
<1>9. a = input
  BY <1>1, <1>8, SeqEqual
<1>. QED  BY <1>7, <1>9 DEF a

-----------------------------------------------------------------------------
(* Steps *)

\* The values of tokens, one more token.
LEMMA TokensAreValued ==
  ASSUME NEW D, NEW w \in Seq(TokenOf(D))
  PROVE  Valued(D, w)
<1>1. Len(w) \in Nat /\ DOMAIN w = 1 .. Len(w) /\ \A k \in 1 .. Len(w) : w[k] \in TokenOf(D)
  BY LenProperties, ElementOfSeq
<1>. QED  BY <1>1 DEF TokenOf, Valued

LEMMA ConsumedValues ==
  ASSUME NEW D, NEW w \in Seq(TokenOf(D)), NEW x \in TokenOf(D)
  PROVE  Values(Append(w, x)) = Values(w) \o x.value /\ x.value \in Seq(D)
<1>1. x.value \in Seq(D) /\ Valued(D, w)
  BY TokensAreValued DEF TokenOf
<1>2. Values(Append(w, x)) = Values(w) \o x.value
  BY <1>1, ValuesOfMore
<1>. QED  BY <1>1, <1>2

\* An entry pushed on a path.
LEMMA PushedValues ==
  ASSUME NEW D, NEW t, NEW st, PathOn(t, st), Valued(D, st), NEW e, e.value \in Seq(D)
  PROVE  /\ Valued(D, Append(st, e)) /\ Values(Append(st, e)) = Values(st) \o e.value
         /\ Append(st, e)[1] = st[1]
<1>1. PICK V : st \in Seq(Entry(t, V))
  BY DEF PathOn
<1>. DEFINE X == Entry(t, V) \cup {e}
<1>2. st \in Seq(X) /\ e \in X
  <2>1. Entry(t, V) \subseteq X /\ e \in X
    OBVIOUS
  <2>. HIDE DEF X
  <2>. QED  BY <1>1, <2>1, SeqMonotonic
<1>. HIDE DEF X
<1>3. Len(st) \in Nat /\ Len(st) >= 1
  BY <1>2, EmptySeq, LenProperties DEF PathOn
<1>4. Append(st, e)[1] = st[1]
  BY <1>2, <1>3, AppendProperties
<1>5. Valued(D, Append(st, e)) /\ Values(Append(st, e)) = Values(st) \o e.value
  BY <1>2, ValuesOfMore
<1>. QED  BY <1>4, <1>5

\* The values on the stack are those consumed; the entry at the bottom has none.
StackInv(D) == Valued(D, stack) /\ stack[1].value = <<>> /\ Values(stack) = Values(Consumed)

\* The inductive invariant.
ValuesInv(D) ==
  /\ IInv /\ LinedUp(D)
  /\ EveryRuleActs => StackInv(D)
  /\ ValueIsOfInput

LEMMA ValuesBegin ==
  ASSUME NEW D, TokensValued(D)
  PROVE  Init => ValuesInv(D)
<1>. SUFFICES ASSUME Init PROVE ValuesInv(D)
  OBVIOUS
<1>1. IInv /\ LinedUp(D) /\ NoValue = <<>>
  BY Begins, LinesUp DEF TokensValued
<1>2. /\ unread = Append(input, EndToken) /\ token = <<>> /\ stack = <<Bottom>> /\ outcome.kind = "Running"
  BY DEF Init, Running
<1>3. stack[1].value = <<>> /\ Len(stack) = 1 /\ stack = Append(<<>>, Bottom) /\ Bottom.value = <<>>
  BY <1>1, <1>2 DEF Bottom
<1>4. <<>> \in Seq(D) /\ <<>> \in Seq({Bottom}) /\ Len(<<>>) = 0 /\ <<>> \in Seq(Seq(D))
  OBVIOUS
<1>5. Valued(D, <<>>)
  BY <1>4, LenProperties DEF Valued
<1>6. Values(<<>>) = <<>>
  <2>1. Values(<<>>) = FlattenSeq(<<>>)
    <3>1. \A k \in 1 .. Len(<<>>) : <<>>[k].value = <<>>[k]
      OBVIOUS
    <3>2. <<>> \in Seq(Seq(D)) /\ Len(<<>>) = Len(<<>>)
      OBVIOUS
    <3>. QED  BY ONLY <1>5, <3>1, <3>2, SameValues
  <2>. QED  BY <2>1, FlattenNothing
<1>7. Valued(D, stack) /\ Values(stack) = <<>> \o <<>>
  <2>1. <<>> \in Seq({Bottom}) /\ Valued(D, <<>>) /\ Bottom \in {Bottom} /\ Bottom.value \in Seq(D)
    BY <1>3, <1>4, <1>5
  <2>2. Valued(D, Append(<<>>, Bottom)) /\ Values(Append(<<>>, Bottom)) = Values(<<>>) \o Bottom.value
    BY ONLY <2>1, ValuesOfMore
  <2>. QED  BY <1>3, <1>6, <2>2
<1>8. Consumed = <<>>
  <2>1. input \in Seq(TokenOf(D)) /\ Len(input) \in Nat
    BY <1>1, LenProperties DEF LinedUp
  <2>2. TableOK(table)
    BY <1>1, TableFits
  <2>3. Len(unread) = Len(input) + 1 /\ Len(token) = 0
    BY <1>1, <1>2, <2>1, <2>2, AllTokens DEF All, TableOK, GrammarFits
  <2>4. Len(input) + 1 - Len(unread) - Len(token) = 0
    BY <2>1, <2>3
  <2>5. Consumed = SubSeq(input, 1, 0)
    BY <2>4 DEF Consumed
  <2>6. SubSeq(input, 1, 0) \in Seq(TokenOf(D)) /\ Len(SubSeq(input, 1, 0)) = 0
    BY <2>1, SubSeqProperties
  <2>. QED  BY <2>5, <2>6, EmptySeq
<1>9. Values(stack) = Values(Consumed)
  BY <1>4, <1>6, <1>7, <1>8, ConcatEmptySeq
<1>. QED  BY <1>1, <1>2, <1>3, <1>7, <1>9 DEF ValuesInv, StackInv, ValueIsOfInput

LEMMA ShiftKeepsValues ==
  ASSUME NEW D, TokensValued(D), ValuesInv(D), EveryRuleActs, Shift, UNCHANGED <<input, unread>>
  PROVE  LinedUp(D)' /\ StackInv(D)'
<1>. DEFINE s == token[1].symbol
            e == [state |-> ActionOf(s).state, symbol |-> s, value |-> token[1].value]
<1>1. /\ IInv /\ LinedUp(D) /\ StackInv(D) /\ NoValue = <<>>
      /\ token # <<>> /\ HasAction(s) /\ ActionOf(s).kind = "Shift"
      /\ stack' = Append(stack, e) /\ token' = <<>>
  BY DEF ValuesInv, Shift, Does, Remembers, TokensValued
<1>2. TableOK(table) /\ PathOn(table, stack)
  BY <1>1, TableFits DEF IInv
<1>3. s # EndSymbol
  <2>1. ActionFits(table, Top.state, s, ActionOf(s))
    BY <1>1, <1>2 DEF TableOK, HasAction, ActionOf, EntryOf
  <2>. QED  BY <1>1, <2>1 DEF ActionFits
<1>4. EndSymbol \in Symbol
  BY <1>2 DEF TableOK, GrammarFits
<1>5. /\ LinedUp(D)' /\ token[1] \in TokenOf(D)
      /\ Consumed \in Seq(TokenOf(D)) /\ Consumed' = Append(Consumed, token[1])
  BY <1>1, <1>3, <1>4, ConsumesOne
<1>6. Values(Consumed') = Values(Consumed) \o token[1].value /\ token[1].value \in Seq(D)
  BY <1>5, ConsumedValues
<1>7. e.value = token[1].value
  OBVIOUS
<1>. HIDE DEF e, s
<1>8. Valued(D, stack') /\ Values(stack') = Values(stack) \o e.value /\ stack'[1] = stack[1]
  <2>1. PathOn(table, stack) /\ Valued(D, stack) /\ e.value \in Seq(D)
    BY <1>1, <1>2, <1>6, <1>7 DEF StackInv
  <2>2. /\ Valued(D, Append(stack, e)) /\ Values(Append(stack, e)) = Values(stack) \o e.value
        /\ Append(stack, e)[1] = stack[1]
    BY ONLY <2>1, PushedValues
  <2>. QED  BY <1>1, <2>2
<1>9. StackInv(D)'
  BY <1>1, <1>6, <1>7, <1>8 DEF StackInv
<1>. QED  BY <1>5, <1>9

LEMMA ReduceKeepsValues ==
  ASSUME NEW D, ArgumentsStay, TokensValued(D), ActionsCollect(D), ValuesInv(D), EveryRuleActs,
         Reduce, UNCHANGED <<input, unread>>
  PROVE  StackInv(D)'
<1>. DEFINE s == token[1].symbol
            r == ActionOf(s).rule
            rule == g.rules[r]
            style == table.style[r]
            value == ValueOf(r, rule, style)
            target == table.goto[GotoKey(rule)]
            e == [state |-> target, symbol |-> rule.lhs, value |-> value]
            kept == Kept(r, rule)
<1>1. /\ IInv /\ StackInv(D) /\ NoValue = <<>> /\ PathOn(table, stack) /\ parser \in DOMAIN Prepared
      /\ HasAction(s) /\ ActionOf(s).kind = "Reduce" /\ ReduceRule(r, rule, style) /\ UNCHANGED <<token, parser>>
  BY DEF ValuesInv, IInv, Reduce, Does, ReduceBy, TokensValued
<1>2. r = ActionOf(s).rule /\ rule = g.rules[r] /\ style = table.style[r]
  OBVIOUS
<1>3. GotoKey(rule) \in DOMAIN table.goto /\ r \in RuleIndex(g)
  BY <1>1, HandleOnStack
<1>4. stack' = Append(kept, e)
  <2>1. DeepEnough(rule)
    BY <1>1, EnoughOnStack
  <2>. QED  BY <1>1, <1>3, <2>1 DEF ReduceRule, Reduced, Kept
<1>5. e.value = value
  OBVIOUS
<1>6. style # "None"
  <2>1. TableOK(table)
    BY <1>1, TableFits
  <2>2. r \in DOMAIN table.style
    BY <1>3, <2>1 DEF TableOK, g
  <2>. QED  BY <2>2 DEF EveryRuleActs
<1>7. value = Perform(table, r, Arguments(rule))
  BY <1>6 DEF ValueOf
<1>. HIDE DEF s, r, rule, style, value, target, e, kept
<1>. DEFINE made == IF IsMidrule(rule) /\ style = "Read" THEN <<>> ELSE FlattenSeq(Arguments(rule))
<1>8. made = IF IsMidrule(rule) /\ style = "Read" THEN <<>> ELSE FlattenSeq(Arguments(rule))
  OBVIOUS
<1>. HIDE DEF made
<1>9. Valued(D, stack)
  BY <1>1 DEF StackInv
<1>10. KeepsValues(D, r, rule, made)
  <2>1. /\ IInv /\ ArgumentsStay /\ NoValue = <<>> /\ Valued(D, stack) /\ HasAction(s) /\ ActionOf(s).kind = "Reduce"
        /\ r = ActionOf(s).rule /\ rule = g.rules[r] /\ style = table.style[r] /\ style # "None"
        /\ made = IF IsMidrule(rule) /\ style = "Read" THEN <<>> ELSE FlattenSeq(Arguments(rule))
    BY <1>1, <1>2, <1>6, <1>8, <1>9
  <2>. QED  BY ONLY <2>1, KeptValues
<1>11. value = made
  BY <1>1, <1>2, <1>3, <1>7, <1>8, <1>10 DEF KeepsValues, ActionsCollect, table, g
<1>12. PathOn(table, kept)
  <2>1. /\ IInv /\ ArgumentsStay /\ HasAction(s) /\ ActionOf(s).kind = "Reduce"
        /\ r = ActionOf(s).rule /\ rule = g.rules[r]
    BY <1>1, <1>2
  <2>2. KeepsPath(r, rule)
    BY ONLY <2>1, KeptIsPath
  <2>. QED  BY <2>2 DEF KeepsPath, kept
<1>13. /\ Valued(D, kept) /\ Values(kept) \o made = Values(stack) /\ made \in Seq(D)
       /\ \A k \in 1 .. Len(kept) : kept[k].value \in {<<>>, stack[k].value}
  BY <1>10 DEF KeepsValues, kept
<1>14. Valued(D, stack') /\ Values(stack') = Values(kept) \o e.value /\ stack'[1] = kept[1]
  <2>1. PathOn(table, kept) /\ Valued(D, kept) /\ e.value \in Seq(D)
    BY <1>5, <1>11, <1>12, <1>13
  <2>2. /\ Valued(D, Append(kept, e)) /\ Values(Append(kept, e)) = Values(kept) \o e.value
        /\ Append(kept, e)[1] = kept[1]
    BY ONLY <2>1, PushedValues
  <2>. QED  BY <1>4, <2>2
<1>15. kept[1].value = <<>>
  <2>1. 1 \in 1 .. Len(kept)
    <3>1. PICK V : kept \in Seq(Entry(table, V))
      BY <1>12 DEF PathOn
    <3>. QED  BY <1>12, <3>1, EmptySeq, LenProperties DEF PathOn
  <2>2. kept[1].value \in {<<>>, stack[1].value}
    BY <1>13, <2>1
  <2>. QED  BY <1>1, <2>2 DEF StackInv
<1>16. UNCHANGED Consumed
  BY <1>1 DEF Consumed
<1>. QED  BY <1>1, <1>5, <1>11, <1>13, <1>14, <1>15, <1>16 DEF StackInv

LEMMA AcceptReturnsValues ==
  ASSUME NEW D, TokensValued(D), ValuesInv(D), EveryRuleActs, Accept
  PROVE  Top.value = Values(input)
<1>. DEFINE s == token[1].symbol
<1>1. IInv /\ LinedUp(D) /\ StackInv(D) /\ NoValue = <<>> /\ token # <<>> /\ HasAction(s) /\ ActionOf(s).kind = "Accept"
  BY DEF ValuesInv, Accept, Does, Remembers, TokensValued
<1>2. s = EndSymbol /\ Len(stack) = 2
  BY <1>1, AcceptingStack
<1>3. EndSymbol \in Symbol
  BY <1>1, TableFits DEF TableOK, GrammarFits
<1>4. Consumed = input
  BY <1>1, <1>2, <1>3, EndConsumesAll
<1>. DEFINE list == Append(Append(<<>>, <<>>), Top.value)
<1>5. stack[1].value = <<>> /\ Top.value = stack[2].value /\ Top.value \in Seq(D) /\ Valued(D, stack)
  BY <1>1, <1>2 DEF StackInv, Valued, Top
<1>6. <<>> \in Seq(D) /\ <<>> \in Seq(Seq(D)) /\ Append(<<>>, <<>>) \in Seq(Seq(D))
  OBVIOUS
<1>7. list \in Seq(Seq(D)) /\ Len(list) = 2 /\ list[1] = <<>> /\ list[2] = Top.value
  BY <1>5
<1>8. FlattenSeq(list) = Top.value
  <2>1. FlattenSeq(list) = FlattenSeq(Append(<<>>, <<>>)) \o Top.value
    BY <1>5, <1>6, FlattenAppend
  <2>2. FlattenSeq(Append(<<>>, <<>>)) = FlattenSeq(<<>>) \o <<>>
    BY <1>6, FlattenAppend
  <2>3. <<>> \o <<>> = <<>> /\ <<>> \o Top.value = Top.value
    BY <1>5, <1>6, ConcatEmptySeq
  <2>. QED  BY <2>1, <2>2, <2>3, FlattenNothing
<1>. HIDE DEF list
<1>9. Values(stack) = FlattenSeq(list)
  <2>1. \A k \in 1 .. Len(stack) : k = 1 \/ k = 2
    BY <1>2
  <2>2. Len(list) = Len(stack) /\ \A k \in 1 .. Len(stack) : stack[k].value = list[k]
    BY <1>2, <1>5, <1>7, <2>1
  <2>. QED  BY <1>5, <1>7, <2>2, SameValues
<1>. QED  BY <1>1, <1>4, <1>8, <1>9 DEF StackInv

LEMMA ValuesGoOn ==
  ASSUME NEW D, ArgumentsStay, TokensValued(D), ActionsCollect(D)
  PROVE  ValuesInv(D) /\ [Next]_vars => ValuesInv(D)'
<1>. SUFFICES ASSUME ValuesInv(D), [Next]_vars PROVE ValuesInv(D)'
  OBVIOUS
<1>1. IInv' /\ IInv /\ LinedUp(D) /\ (EveryRuleActs => StackInv(D)) /\ ValueIsOfInput /\ NoValue = <<>>
  BY Goes DEF ValuesInv, TokensValued
<1>2. EndSymbol \in Symbol
  BY <1>1, TableFits DEF TableOK, GrammarFits
<1>3. UNCHANGED parser /\ UNCHANGED input
  BY DEF Next, NextToken, Receive, Turn, Fail, Reduce, Shift, Accept, Terminated, vars, parserVars
<1>4. UNCHANGED EveryRuleActs
  BY <1>3 DEF EveryRuleActs, table
<1>5. CASE UNCHANGED <<unread, token, stack>> /\ ValueIsOfInput'
  <2>1. LinedUp(D)' /\ UNCHANGED Consumed
    BY <1>1, <1>3, <1>5 DEF LinedUp, All, Handed, EndToken, Consumed
  <2>2. StackInv(D) => StackInv(D)'
    BY <1>5, <2>1 DEF StackInv
  <2>. QED  BY <1>1, <1>4, <1>5, <2>1, <2>2 DEF ValuesInv
<1>6. outcome'.kind # "Value" => ValueIsOfInput'
  BY DEF ValueIsOfInput
<1>7. CASE NextToken
  <2>1. CASE Head(unread).symbol = NoMatch
    BY <1>5, <1>6, <1>7, <2>1 DEF NextToken, Receive, SyntaxError
  <2>2. CASE Head(unread).symbol # NoMatch
    <3>1. /\ unread # <<>> /\ unread' = Tail(unread) /\ token = <<>> /\ token' = <<Head(unread)>>
          /\ UNCHANGED <<stack, outcome>>
      BY <1>7, <2>2 DEF NextToken, Receive
    <3>2. LinedUp(D)' /\ UNCHANGED Consumed
      BY <1>1, <1>2, <1>3, <3>1, HandsOn
    <3>3. StackInv(D) => StackInv(D)'
      BY <3>1, <3>2 DEF StackInv
    <3>4. ValueIsOfInput'
      BY <1>1, <1>3, <1>4, <3>1 DEF ValueIsOfInput
    <3>. QED  BY <1>1, <1>4, <3>2, <3>3, <3>4 DEF ValuesInv
  <2>. QED  BY <2>1, <2>2
<1>8. CASE Fail /\ UNCHANGED <<input, unread>>
  BY <1>5, <1>6, <1>8 DEF Fail, SyntaxError
<1>9. CASE Reduce /\ UNCHANGED <<input, unread>>
  <2>1. EveryRuleActs => StackInv(D)'
    BY <1>9, ReduceKeepsValues
  <2>2. LinedUp(D)'
    BY <1>1, <1>3, <1>9 DEF LinedUp, All, Handed, EndToken, Reduce
  <2>3. outcome'.kind # "Value"
    <3>1. outcome' \in {outcome, Empty, StackTooSmall} /\ outcome = Running
      BY <1>9 DEF Reduce, ReduceBy, ReduceRule, Does, Remembers
    <3>. QED  BY <3>1 DEF Empty, StackTooSmall, Running
  <2>. QED  BY <1>1, <1>4, <1>6, <2>1, <2>2, <2>3 DEF ValuesInv
<1>10. CASE Shift /\ UNCHANGED <<input, unread>>
  <2>1. EveryRuleActs => StackInv(D)' /\ LinedUp(D)'
    BY <1>10, ShiftKeepsValues
  <2>2. LinedUp(D)'
    <3>. DEFINE s == token[1].symbol
    <3>1. token # <<>> /\ HasAction(s) /\ ActionOf(s).kind = "Shift" /\ token' = <<>>
      BY <1>10 DEF Shift, Does, Remembers
    <3>2. ActionFits(table, Top.state, s, ActionOf(s))
      BY <1>1, <3>1, TableFits DEF TableOK, HasAction, ActionOf, EntryOf
    <3>3. s # EndSymbol
      BY <3>1, <3>2 DEF ActionFits
    <3>. QED  BY <1>1, <1>2, <1>10, <3>1, <3>3, ConsumesOne
  <2>3. outcome'.kind # "Value"
    BY <1>10 DEF Shift, Does, Remembers, Running
  <2>. QED  BY <1>1, <1>4, <1>6, <2>1, <2>2, <2>3 DEF ValuesInv
<1>11. CASE Accept /\ UNCHANGED <<input, unread>>
  <2>1. UNCHANGED <<token, stack>> /\ outcome' = Returned(Top.value)
    BY <1>11 DEF Accept
  <2>2. EveryRuleActs => Top.value = Values(input)
    BY <1>11, AcceptReturnsValues
  <2>3. ValueIsOfInput'
    BY <1>3, <1>4, <2>1, <2>2 DEF ValueIsOfInput, Returned
  <2>. QED  BY <1>5, <1>11, <2>1, <2>3
<1>12. CASE UNCHANGED vars
  <2>1. UNCHANGED <<unread, token, stack, outcome>>
    BY <1>12 DEF vars, parserVars
  <2>2. ValueIsOfInput'
    BY <1>1, <1>3, <1>4, <2>1 DEF ValueIsOfInput
  <2>. QED  BY <1>5, <2>1, <2>2
<1>. QED  BY <1>7, <1>8, <1>9, <1>10, <1>11, <1>12 DEF Next, Turn, Terminated

-----------------------------------------------------------------------------
(* Theorems *)

LEMMA ValuesInvariant ==
  ASSUME NEW D, ArgumentsStay, TokensValued(D), ActionsCollect(D)
  PROVE  Spec => []ValuesInv(D)
<1>1. Init => ValuesInv(D)
  BY ValuesBegin
<1>2. ValuesInv(D) /\ [Next]_vars => ValuesInv(D)'
  BY ValuesGoOn
<1>. QED  BY <1>1, <1>2, PTL DEF Spec

\* Where every rule has an action, the values on the stack of parse() are those of
\* the tokens shifted, each once and in order, for every table, every input and
\* every action that makes its value of all of its arguments: no value is lost,
\* duplicated or reordered by a midrule action that borrows, keeps or gives back.
THEOREM ValuesAlwaysInOrder ==
  ASSUME NEW D, ArgumentsStay, TokensValued(D), ActionsCollect(D)
  PROVE  Spec => []ValuesInOrder
<1>1. Spec => []ValuesInv(D)
  BY ValuesInvariant
<1>2. ValuesInv(D) => ValuesInOrder
  BY DEF ValuesInv, StackInv, ValuesInOrder
<1>. QED  BY <1>1, <1>2, PTL

\* The value parse() returns is made of the values of all the tokens of the input,
\* each once and in order.
THEOREM ReturnedValueIsOfInput ==
  ASSUME NEW D, ArgumentsStay, TokensValued(D), ActionsCollect(D)
  PROVE  Spec => []ValueIsOfInput
<1>1. Spec => []ValuesInv(D)
  BY ValuesInvariant
<1>2. ValuesInv(D) => ValueIsOfInput
  BY DEF ValuesInv
<1>. QED  BY <1>1, <1>2, PTL

=============================================================================
