------------------------- MODULE ParsingTableProofs -------------------------
(***************************************************************************)
(* Proofs about ParsingTable::calculate(), for every automaton with        *)
(* functional transitions, all lookaheads and all precedences.             *)
(***************************************************************************)
EXTENDS ParsingTable, PreparedTable, SequenceTheorems, TLAPS

-----------------------------------------------------------------------------
(* Tables *)

\* A table with an entry set has that entry and its others as they were.
LEMMA WithEntry ==
  ASSUME NEW table, NEW key, NEW value
  PROVE  /\ DOMAIN With(table, key, value) = DOMAIN table \cup {key}
         /\ With(table, key, value)[key] = value
         /\ \A k \in DOMAIN table : k # key => With(table, key, value)[k] = table[k]
BY DEF With

\* emplace() sets the entry of a new key and changes no other.
LEMMA EmplacedEntry ==
  ASSUME NEW table, NEW key, NEW value
  PROVE  /\ DOMAIN Emplaced(table, key, value) = DOMAIN table \cup {key}
         /\ key \notin DOMAIN table => Emplaced(table, key, value)[key] = value
         /\ \A k \in DOMAIN table : Emplaced(table, key, value)[k] = table[k]
<1>1. CASE key \in DOMAIN table
  BY <1>1 DEF Emplaced
<1>2. CASE key \notin DOMAIN table
  BY <1>2 DEF Emplaced, With
<1>. QED  BY <1>1, <1>2

LEMMA AppendedIssues ==
  ASSUME NEW S, NEW s \in Seq(S), NEW x \in S
  PROVE  /\ Append(s, x) \in Seq(S)
         /\ {Append(s, x)[n] : n \in DOMAIN Append(s, x)} = {s[n] : n \in DOMAIN s} \cup {x}
<1>. DEFINE t == Append(s, x)
<1>1. t \in Seq(S) /\ Len(t) = Len(s) + 1 /\ t[Len(s) + 1] = x /\ DOMAIN t = 1 .. Len(s) + 1
      /\ DOMAIN s = 1 .. Len(s) /\ Len(s) \in Nat
  OBVIOUS
<1>2. \A n \in 1 .. Len(s) : t[n] = s[n]
  OBVIOUS
<1>. HIDE DEF t
<1>3. ASSUME NEW n \in DOMAIN t PROVE t[n] \in {s[m] : m \in DOMAIN s} \cup {x}
  <2>1. n \in 1 .. Len(s) \/ n = Len(s) + 1
    BY <1>1
  <2>. QED  BY <2>1, <1>1, <1>2
<1>4. \A n \in DOMAIN s : s[n] \in {t[m] : m \in DOMAIN t}
  <2>1. \A n \in DOMAIN s : n \in DOMAIN t
    BY <1>1
  <2>. QED  BY <2>1, <1>1, <1>2
<1>5. x \in {t[m] : m \in DOMAIN t}
  <2>1. Len(s) + 1 \in DOMAIN t
    BY <1>1
  <2>. QED  BY <2>1, <1>1
<1>6. {t[n] : n \in DOMAIN t} = {s[n] : n \in DOMAIN s} \cup {x}
  BY <1>3, <1>4, <1>5
<1>. QED  BY <1>1, <1>6 DEF t

-----------------------------------------------------------------------------
(* The inductive invariant *)

\* What is known of the automaton, which no step changes.
AutomatonOK ==
  /\ g.rules \in Seq(Rule)
  /\ EndSymbol \notin g.terminals \cup DOMAIN g.precedence
  /\ states \in Seq(SUBSET Item(g))
  /\ transitions \subseteq (DOMAIN states) \X (Symbol \ {EndSymbol}) \X (DOMAIN states)
  /\ \A d, e \in transitions : d[1] = e[1] /\ d[2] = e[2] => d = e
  /\ lookahead \in [DOMAIN lookahead -> SUBSET Symbol]

FinalItems(i) == {item \in states[i] : IsFinal(g, item)}

\* The order of the loops of calculate(): the items of a state wait until its
\* transitions are added, and the lookaheads are those of an item taken before.
FillingOrder ==
  /\ edges \subseteq {e \in transitions : e[1] = current}
  /\ current = 0 => items = {} /\ symbols = {}
  /\ current > 0 => items \subseteq FinalItems(current)
  /\ edges # {} => items = FinalItems(current) /\ symbols = {}
  /\ symbols # {} => /\ rule \in RuleIndex(g)
                     /\ symbols \subseteq SymbolsOf(current, rule)
                     /\ \E item \in FinalItems(current) : item.rule = rule
                     /\ \A item \in items : item.rule # rule
  /\ \A key \in DOMAIN goto : key[1] <= current

Inv == AutomatonOK /\ TypeOK /\ FillingOrder /\ NothingInTheWay

-----------------------------------------------------------------------------
(* Types *)

LEMMA SymbolsOfType ==
  ASSUME AutomatonOK, NEW i, NEW r
  PROVE  SymbolsOf(i, r) \subseteq Symbol
BY DEF AutomatonOK, SymbolsOf

\* A rule has one final item.
LEMMA OneFinalItem ==
  ASSUME NEW a \in Item(g), NEW b \in Item(g),
         IsFinal(g, a), IsFinal(g, b), a.rule = b.rule
  PROVE  a = b
BY DEF Item, IsFinal, Rhs

LEMMA FinalItemsType ==
  ASSUME AutomatonOK, NEW i \in DOMAIN states
  PROVE  FinalItems(i) \subseteq Item(g)
BY DEF AutomatonOK, FinalItems

LEMMA EndIsSymbol ==
  ASSUME AutomatonOK, NEW i \in DOMAIN states, \E item \in states[i] : IsAccepting(g, item)
  PROVE  EndSymbol \in Symbol
<1>1. PICK item \in states[i] : IsAccepting(g, item)
  OBVIOUS
<1>2. item \in Item(g)
  BY DEF AutomatonOK
<1>. DEFINE rhs == g.rules[item.rule].rhs
<1>3. rhs \in Seq(Symbol) /\ item.pos \in Nat /\ item.pos <= Len(rhs)
  <2>1. item.rule \in 1 .. Len(g.rules) /\ item.pos \in Nat /\ item.pos <= Len(rhs)
    BY <1>2 DEF Item, Rhs, RuleIndex
  <2>2. g.rules[item.rule] \in Rule
    BY <2>1 DEF AutomatonOK
  <2>. QED  BY <2>1, <2>2 DEF Rule
<1>4. item.pos # Len(rhs) /\ rhs[item.pos + 1] = EndSymbol
  BY <1>1 DEF IsAccepting, Reads, IsFinal, ReadSymbol, Rhs
<1>5. item.pos + 1 \in 1 .. Len(rhs)
  BY <1>3, <1>4
<1>. QED  BY <1>3, <1>4, <1>5

LEMMA InitInv ==
  ASSUME Init
  PROVE  Inv
<1>1. PICK a \in Automata : g = a.grammar /\ states = a.states
                            /\ transitions = a.transitions /\ lookahead = a.lookahead
  BY DEF Init
<1>2. AutomatonOK
  <2>1. a.grammar.rules \in Seq(Rule)
    BY AutomataAssumption DEF AutomataAssumption, WellFormed
  <2>2. EndSymbol \notin a.grammar.terminals \cup DOMAIN a.grammar.precedence
    BY AutomataAssumption DEF AutomataAssumption
  <2>3. a.states \in Seq(SUBSET Item(a.grammar))
    BY AutomataAssumption DEF AutomataAssumption
  <2>4. a.transitions \subseteq (DOMAIN a.states) \X (Symbol \ {EndSymbol}) \X (DOMAIN a.states)
    BY AutomataAssumption DEF AutomataAssumption
  <2>5. \A d, e \in a.transitions : d[1] = e[1] /\ d[2] = e[2] => d = e
    BY AutomataAssumption DEF AutomataAssumption
  <2>6. /\ a.lookahead \in [DOMAIN a.lookahead -> SUBSET (a.grammar.terminals \cup {EndSymbol})]
        /\ a.grammar.terminals \cup {EndSymbol} \subseteq Symbol
    BY AutomataAssumption DEF AutomataAssumption
  <2>7. lookahead \in [DOMAIN lookahead -> SUBSET Symbol]
    BY <1>1, <2>6
  <2>. QED  BY <1>1, <2>1, <2>2, <2>3, <2>4, <2>5, <2>7 DEF AutomatonOK
<1>3. /\ current = 0 /\ edges = {} /\ items = {} /\ rule = 0 /\ symbols = {}
      /\ DOMAIN action = {} /\ DOMAIN goto = {} /\ goto = [key \in {} |-> Accept] /\ report = <<>>
  BY DEF Init, EmptyTable
<1>4. TypeOK
  <2>1. 0 \in 0 .. Len(states) /\ 0 \in 0 .. Len(g.rules)
    BY <1>2 DEF AutomatonOK
  <2>2. <<>> \in Seq(Issue)
    OBVIOUS
  <2>3. goto \in [DOMAIN goto -> DOMAIN states]
    BY <1>3
  <2>. QED  BY <1>3, <2>1, <2>2, <2>3 DEF TypeOK
<1>. QED  BY <1>2, <1>3, <1>4 DEF Inv, FillingOrder, NothingInTheWay

-----------------------------------------------------------------------------
(* Steps *)

LEMMA AutomatonFixed ==
  ASSUME AutomatonOK, UNCHANGED automatonVars
  PROVE  AutomatonOK'
BY DEF AutomatonOK, automatonVars

\* The entries that the new state may get have keys of their own.
LEMMA EnterStateInv ==
  ASSUME Inv, EnterState
  PROVE  Inv'
<1>. USE DEF Inv
<1>1. AutomatonOK /\ TypeOK /\ FillingOrder /\ NothingInTheWay /\ AutomatonOK'
  BY AutomatonFixed DEF EnterState
<1>. DEFINE next == current + 1
<1>2. /\ current \in Nat /\ next \in DOMAIN states /\ next \in 0 .. Len(states) /\ next > current /\ next > 0
  BY <1>1 DEF TypeOK, AutomatonOK, EnterState
<1>3. /\ edges = {} /\ items = {} /\ symbols = {} /\ current' = next
      /\ edges' = {e \in transitions : e[1] = next} /\ items' = FinalItems(next)
      /\ rule' = rule /\ symbols' = {} /\ goto' = goto /\ report' = report
      /\ UNCHANGED <<g, states, transitions, lookahead>>
  BY DEF EnterState, FinalItems, automatonVars
<1>4. /\ DOMAIN action' \subseteq DOMAIN action \cup {<<next, EndSymbol>>}
      /\ \A key \in DOMAIN action' : \/ key \in DOMAIN action /\ action'[key] = action[key]
                                     \/ /\ key = <<next, EndSymbol>> /\ action'[key] = Accept
                                        /\ \E item \in states[next] : IsAccepting(g, item)
  <2>. DEFINE new == <<next, EndSymbol>>
              table == Emplaced(action, new, Accept)
  <2>1. CASE \E item \in states[next] : IsAccepting(g, item)
    <3>1. action' = table
      BY <2>1 DEF EnterState
    <3>2. new \notin DOMAIN action
      BY <1>1, <1>2 DEF NothingInTheWay
    <3>3. /\ DOMAIN table = DOMAIN action \cup {new} /\ table[new] = Accept
          /\ \A k \in DOMAIN action : table[k] = action[k]
      BY <3>2, EmplacedEntry
    <3>. QED  BY <2>1, <3>1, <3>3
  <2>2. CASE ~\E item \in states[next] : IsAccepting(g, item)
    BY <2>2 DEF EnterState
  <2>. QED  BY <2>1, <2>2
<1>. HIDE DEF next
<1>5. TypeOK'
  <2>1. items' \subseteq Item(g)
    BY <1>1, <1>2, <1>3, FinalItemsType
  <2>2. ASSUME NEW key \in DOMAIN action'
        PROVE  /\ key \in (DOMAIN states) \X Symbol
               /\ action'[key] \in {Accept} \cup {Shift(k) : k \in DOMAIN states} \cup {Reduce(r) : r \in RuleIndex(g)}
    BY <1>1, <1>2, <1>4, EndIsSymbol DEF TypeOK
  <2>3. Item(g)' = Item(g) /\ Issue' = Issue /\ RuleIndex(g)' = RuleIndex(g)
    BY <1>3 DEF Item, Issue, RuleIndex, Rhs
  <2>. QED  BY <1>1, <1>2, <1>3, <2>1, <2>2, <2>3 DEF TypeOK
<1>6. FillingOrder'
  <2>1. FinalItems(current)' = FinalItems(next)
    BY <1>3 DEF FinalItems
  <2>2. \A key \in DOMAIN goto : key[1] \in Nat /\ key[1] <= next
    BY <1>1, <1>2 DEF FillingOrder, TypeOK, AutomatonOK
  <2>. QED  BY <1>2, <1>3, <2>1, <2>2 DEF FillingOrder
<1>7. NothingInTheWay'
  <2>1. ASSUME NEW e \in edges' PROVE <<e[1], e[2]>> \notin DOMAIN action' \cup DOMAIN goto'
    <3>1. e \in transitions /\ e[1] = next /\ e[2] # EndSymbol
      BY <1>1, <1>3 DEF AutomatonOK
    <3>2. \A key \in DOMAIN action \cup DOMAIN goto : key[1] <= current
      BY <1>1 DEF FillingOrder, NothingInTheWay
    <3>3. <<e[1], e[2]>> \notin DOMAIN action \cup DOMAIN goto
      BY <3>1, <3>2, <1>2
    <3>. QED  BY <1>3, <1>4, <3>1, <3>3
  <2>2. ASSUME NEW key \in DOMAIN action' PROVE key[1] <= current'
    BY <1>1, <1>2, <1>3, <1>4 DEF NothingInTheWay, TypeOK, AutomatonOK
  <2>. QED  BY <2>1, <2>2 DEF NothingInTheWay
<1>. QED  BY <1>1, <1>5, <1>6, <1>7

\* What add_state_transition() does, its key being new.
LEMMA TransitionAdded ==
  ASSUME Inv, NEW e \in edges, AddTransition(e)
  PROVE  /\ e \in transitions /\ e[1] = current /\ e[2] \in Symbol \ {EndSymbol}
         /\ e[1] \in DOMAIN states /\ e[3] \in DOMAIN states
         /\ edges' = edges \ {e}
         /\ report' = report
         /\ UNCHANGED <<automatonVars, current, items, rule, symbols>>
         /\ <<e[1], e[2]>> \notin DOMAIN action \cup DOMAIN goto
         /\ \A key \in DOMAIN action : key \in DOMAIN action' /\ action'[key] = action[key]
         /\ \A key \in DOMAIN action' : \/ key \in DOMAIN action /\ action'[key] = action[key]
                                        \/ key = <<e[1], e[2]>> /\ action'[key] = Shift(e[3])
         /\ IsTerminal(g, e[2]) => <<e[1], e[2]>> \in DOMAIN action' /\ goto' = goto
         /\ ~IsTerminal(g, e[2]) => action' = action /\ goto' = Emplaced(goto, <<e[1], e[2]>>, e[3])
<1>. DEFINE key == <<e[1], e[2]>>
<1>1. /\ e \in transitions /\ e[1] = current /\ e[2] \in Symbol \ {EndSymbol}
      /\ e[1] \in DOMAIN states /\ e[3] \in DOMAIN states
  BY DEF Inv, FillingOrder, AutomatonOK
<1>2. key \notin DOMAIN action \cup DOMAIN goto
  BY DEF Inv, NothingInTheWay
<1>3. /\ edges' = edges \ {e}
      /\ UNCHANGED <<automatonVars, current, items, rule, symbols>>
  BY DEF AddTransition
<1>4. CASE IsTerminal(g, e[2])
  <2>1. action' = Emplaced(action, key, Shift(e[3])) /\ report' = report /\ goto' = goto
    BY <1>2, <1>4 DEF AddTransition, IsKind
  <2>2. /\ DOMAIN action' = DOMAIN action \cup {key} /\ action'[key] = Shift(e[3])
        /\ \A k \in DOMAIN action : action'[k] = action[k]
    <3>. DEFINE table == Emplaced(action, key, Shift(e[3]))
    <3>1. /\ DOMAIN table = DOMAIN action \cup {key} /\ table[key] = Shift(e[3])
          /\ \A k \in DOMAIN action : table[k] = action[k]
      <4>1. key \notin DOMAIN action
        BY <1>2
      <4>. HIDE DEF key
      <4>. QED  BY <4>1, EmplacedEntry
    <3>. QED  BY <2>1, <3>1
  <2>3. \A k \in DOMAIN action' : \/ k \in DOMAIN action /\ action'[k] = action[k]
                                  \/ k = key /\ action'[k] = Shift(e[3])
    BY <2>2
  <2>4. \A k \in DOMAIN action : k \in DOMAIN action' /\ action'[k] = action[k]
    BY <2>2
  <2>5. key \in DOMAIN action'
    BY <2>2
  <2>. QED  BY <1>1, <1>2, <1>3, <1>4, <2>1, <2>3, <2>4, <2>5
<1>5. CASE ~IsTerminal(g, e[2])
  <2>1. goto' = Emplaced(goto, key, e[3]) /\ action' = action /\ report' = report
    BY <1>5 DEF AddTransition
  <2>. QED  BY <1>1, <1>2, <1>3, <1>5, <2>1
<1>. QED  BY <1>4, <1>5

LEMMA AddTransitionInv ==
  ASSUME Inv, NEW e \in edges, AddTransition(e)
  PROVE  Inv'
<1>1. AutomatonOK /\ TypeOK /\ FillingOrder /\ NothingInTheWay /\ AutomatonOK'
  BY TransitionAdded, AutomatonFixed DEF Inv
<1>2. /\ e \in transitions /\ e[1] = current /\ e[2] \in Symbol \ {EndSymbol}
      /\ e[1] \in DOMAIN states /\ e[3] \in DOMAIN states
      /\ edges' = edges \ {e} /\ report' = report
      /\ UNCHANGED <<g, states, transitions, lookahead, current, items, rule, symbols>>
  BY TransitionAdded DEF automatonVars
<1>. DEFINE new == <<e[1], e[2]>>
<1>3. \A key \in DOMAIN action' : \/ key \in DOMAIN action /\ action'[key] = action[key]
                                  \/ key = new /\ action'[key] = Shift(e[3])
  BY TransitionAdded
<1>4. /\ \A key \in DOMAIN goto' : \/ key \in DOMAIN goto /\ goto'[key] = goto[key]
                                   \/ key = new /\ goto'[key] = e[3] /\ IsNonterminal(g, e[2])
      /\ goto' \in [DOMAIN goto' -> DOMAIN states]
  <2>1. CASE IsTerminal(g, e[2])
    <3>1. goto' = goto
      BY <2>1, TransitionAdded
    <3>. QED  BY <1>1, <3>1 DEF TypeOK
  <2>2. CASE ~IsTerminal(g, e[2])
    <3>1. goto' = Emplaced(goto, new, e[3]) /\ new \notin DOMAIN goto
      BY <2>2, TransitionAdded
    <3>2. DOMAIN goto' = DOMAIN goto \cup {new} /\ goto'[new] = e[3]
          /\ \A k \in DOMAIN goto : goto'[k] = goto[k]
      <4>. DEFINE table == Emplaced(goto, new, e[3])
      <4>1. DOMAIN table = DOMAIN goto \cup {new} /\ table[new] = e[3]
            /\ \A k \in DOMAIN goto : table[k] = goto[k]
        BY <3>1, EmplacedEntry
      <4>. QED  BY <3>1, <4>1
    <3>3. \A k \in DOMAIN goto' : goto'[k] \in DOMAIN states
      BY <1>1, <1>2, <3>2 DEF TypeOK
    <3>4. goto' = [k \in DOMAIN goto' |-> goto'[k]]
      <4>1. goto' = [k \in DOMAIN goto \cup {new} |-> IF k = new THEN e[3] ELSE goto[k]]
        BY <3>1 DEF Emplaced, With
      <4>. QED  BY <4>1
    <3>. QED  BY <1>2, <2>2, <3>2, <3>3, <3>4 DEF IsNonterminal, IsTerminal
  <2>. QED  BY <2>1, <2>2
<1>5. TypeOK'
  <2>1. Item(g)' = Item(g) /\ Issue' = Issue /\ RuleIndex(g)' = RuleIndex(g)
    BY <1>2 DEF Item, Issue, RuleIndex, Rhs
  <2>2. ASSUME NEW key \in DOMAIN action'
        PROVE  /\ key \in (DOMAIN states) \X Symbol
               /\ action'[key] \in {Accept} \cup {Shift(k) : k \in DOMAIN states} \cup {Reduce(r) : r \in RuleIndex(g)}
    <3>1. CASE key \in DOMAIN action /\ action'[key] = action[key]
      BY <1>1, <3>1 DEF TypeOK
    <3>2. CASE key = new /\ action'[key] = Shift(e[3])
      BY <1>2, <3>2
    <3>. QED  BY <1>3, <3>1, <3>2
  <2>3. ASSUME NEW key \in DOMAIN goto' PROVE key[1] \in DOMAIN states /\ IsNonterminal(g, key[2])
    BY <1>1, <1>2, <1>4 DEF TypeOK
  <2>4. \A key \in DOMAIN goto' : IsNonterminal(g, key[2])'
    BY <1>2, <2>3 DEF IsNonterminal
  <2>. QED  BY <1>1, <1>2, <1>4, <2>1, <2>2, <2>3, <2>4 DEF TypeOK
<1>6. FillingOrder'
  <2>1. FinalItems(current)' = FinalItems(current)
    BY <1>2 DEF FinalItems
  <2>2. \A key \in DOMAIN goto' : key[1] <= current
    BY <1>1, <1>2, <1>4 DEF FillingOrder, TypeOK, AutomatonOK
  <2>3. symbols = {} /\ items = FinalItems(current)
    BY <1>1 DEF FillingOrder
  <2>. QED  BY <1>1, <1>2, <2>1, <2>2, <2>3 DEF FillingOrder
<1>7. NothingInTheWay'
  <2>1. ASSUME NEW d \in edges' PROVE <<d[1], d[2]>> \notin DOMAIN action' \cup DOMAIN goto'
    <3>1. d \in edges /\ d # e /\ d \in transitions
      BY <1>1, <1>2 DEF FillingOrder
    <3>2. <<d[1], d[2]>> # new
      BY <1>1, <1>2, <3>1 DEF AutomatonOK
    <3>. QED  BY <1>1, <1>3, <1>4, <3>1, <3>2 DEF NothingInTheWay
  <2>2. ASSUME NEW key \in DOMAIN action' PROVE key[1] <= current
    BY <1>1, <1>2, <1>3 DEF NothingInTheWay, TypeOK, AutomatonOK
  <2>. QED  BY <1>2, <2>1, <2>2 DEF NothingInTheWay
<1>. QED  BY <1>1, <1>5, <1>6, <1>7 DEF Inv

LEMMA TakeItemInv ==
  ASSUME Inv, NEW item \in items, TakeItem(item)
  PROVE  Inv'
<1>1. AutomatonOK /\ TypeOK /\ FillingOrder /\ NothingInTheWay /\ AutomatonOK'
  BY AutomatonFixed DEF TakeItem, Inv
<1>2. /\ edges = {} /\ symbols = {} /\ items' = items \ {item} /\ rule' = item.rule
      /\ symbols' = SymbolsOf(current, item.rule)
      /\ UNCHANGED <<g, states, transitions, lookahead, current, edges, action, goto, report>>
  BY DEF TakeItem, automatonVars, tableVars
<1>3. current > 0 /\ items \subseteq FinalItems(current) /\ item \in FinalItems(current)
  BY <1>1 DEF FillingOrder, TypeOK
<1>4. items \subseteq Item(g) /\ item.rule \in RuleIndex(g)
  BY <1>1 DEF TypeOK, Item
<1>5. TypeOK'
  <2>1. Item(g)' = Item(g) /\ Issue' = Issue /\ RuleIndex(g)' = RuleIndex(g)
    BY <1>2 DEF Item, Issue, RuleIndex, Rhs
  <2>2. item.rule \in 0 .. Len(g.rules)
    BY <1>1, <1>4 DEF RuleIndex, AutomatonOK
  <2>3. symbols' \subseteq Symbol
    BY <1>1, <1>2, SymbolsOfType
  <2>4. \A key \in DOMAIN goto : IsNonterminal(g, key[2])'
    BY <1>1, <1>2 DEF TypeOK, IsNonterminal
  <2>. QED  BY <1>1, <1>2, <1>4, <2>1, <2>2, <2>3, <2>4 DEF TypeOK
<1>6. FillingOrder'
  <2>1. FinalItems(current)' = FinalItems(current) /\ SymbolsOf(current, item.rule)' = SymbolsOf(current, item.rule)
        /\ RuleIndex(g)' = RuleIndex(g)
    BY <1>2 DEF FinalItems, SymbolsOf, RuleIndex
  <2>2. \A other \in items' : other.rule # item.rule
    BY <1>2, <1>3, <1>4, OneFinalItem DEF FinalItems
  <2>3. SymbolsOf(current, rule)' = SymbolsOf(current, item.rule)
    BY <1>2 DEF SymbolsOf
  <2>. QED  BY <1>1, <1>2, <1>3, <1>4, <2>1, <2>2, <2>3 DEF FillingOrder
<1>7. NothingInTheWay'
  BY <1>1, <1>2 DEF NothingInTheWay
<1>. QED  BY <1>1, <1>5, <1>6, <1>7 DEF Inv

\* What add_reduction() does: it sets or keeps one entry.
LEMMA ReductionAdded ==
  ASSUME Inv, NEW s \in symbols, AddReduction(s)
  PROVE  /\ current \in DOMAIN states /\ current > 0 /\ s \in Symbol /\ rule \in RuleIndex(g)
         /\ edges = {} /\ s \in SymbolsOf(current, rule)
         /\ symbols' = symbols \ {s}
         /\ UNCHANGED <<g, states, transitions, lookahead, current, edges, items, rule, goto>>
         /\ \A key \in DOMAIN action' :
              \/ key \in DOMAIN action /\ action'[key] = action[key]
              \/ /\ key = <<current, s>> /\ action'[key] = Reduce(rule)
                 /\ key \in DOMAIN action => /\ Comparable(rule, s)
                                             /\ Greater(StackPrecedence(rule), SymbolPrecedence(s))
         /\ DOMAIN action \subseteq DOMAIN action'
         /\ <<current, s>> \in DOMAIN action'
<1>. DEFINE key == <<current, s>>
<1>1. /\ current \in DOMAIN states /\ current > 0 /\ s \in Symbol /\ rule \in RuleIndex(g)
      /\ edges = {} /\ s \in SymbolsOf(current, rule)
  <2>1. symbols # {} /\ s \in Symbol
    BY DEF Inv, TypeOK
  <2>2. current # 0 /\ edges = {} /\ rule \in RuleIndex(g) /\ s \in SymbolsOf(current, rule)
    BY <2>1 DEF Inv, FillingOrder
  <2>3. current \in DOMAIN states /\ current > 0
    BY <2>2 DEF Inv, TypeOK, AutomatonOK
  <2>. QED  BY <2>1, <2>2, <2>3
<1>2. /\ symbols' = symbols \ {s}
      /\ UNCHANGED <<g, states, transitions, lookahead, current, edges, items, rule, goto>>
  BY DEF AddReduction, automatonVars
<1>3. \/ /\ action' = With(action, key, Reduce(rule))
         /\ \/ key \notin DOMAIN action
            \/ Comparable(rule, s) /\ Greater(StackPrecedence(rule), SymbolPrecedence(s))
      \/ action' = action /\ key \in DOMAIN action
  BY DEF AddReduction, PlaceReduction, KeepEntry, ReplaceEntry, ReportConflict
<1>4. CASE action' = action /\ key \in DOMAIN action
  BY <1>1, <1>2, <1>4
<1>5. CASE /\ action' = With(action, key, Reduce(rule))
           /\ \/ key \notin DOMAIN action
              \/ Comparable(rule, s) /\ Greater(StackPrecedence(rule), SymbolPrecedence(s))
  <2>. DEFINE table == With(action, key, Reduce(rule))
  <2>1. /\ DOMAIN table = DOMAIN action \cup {key} /\ table[key] = Reduce(rule)
        /\ \A k \in DOMAIN action : k # key => table[k] = action[k]
    BY DEF With
  <2>2. ASSUME NEW k \in DOMAIN action'
        PROVE  \/ k \in DOMAIN action /\ action'[k] = action[k]
               \/ k = key /\ action'[k] = Reduce(rule)
    <3>1. CASE k = key
      BY <1>5, <2>1, <3>1
    <3>2. CASE k # key
      BY <1>5, <2>1, <3>2
    <3>. QED  BY <3>1, <3>2
  <2>3. DOMAIN action' = DOMAIN action \cup {key}
    BY <1>5, <2>1
  <2>. QED  BY <1>1, <1>2, <1>5, <2>2, <2>3
<1>. QED  BY <1>3, <1>4, <1>5

\* The report grows by a conflict with the entry in the way, or not at all.
LEMMA ReductionReported ==
  ASSUME Inv, NEW s \in symbols, AddReduction(s)
  PROVE  /\ report' \in Seq(Issue)
         /\ \/ /\ report' = report
               /\ \/ <<current, s>> \notin DOMAIN action \/ Comparable(rule, s)
                  \/ ~IsKind(<<current, s>>, "Shift") /\ ~IsKind(<<current, s>>, "Reduce")
            \/ /\ IsKind(<<current, s>>, "Shift") /\ ~Comparable(rule, s)
               /\ Issues' = Issues \cup {ShiftReduceConflict(current, s, rule)}
            \/ /\ IsKind(<<current, s>>, "Reduce") /\ ~Comparable(rule, s)
               /\ Issues' = Issues \cup {ReduceReduceConflict(current, action[<<current, s>>].rule, rule)}
<1>. DEFINE key == <<current, s>>
<1>1. current \in DOMAIN states /\ s \in Symbol /\ rule \in RuleIndex(g) /\ report \in Seq(Issue)
  BY ReductionAdded DEF Inv, TypeOK
<1>2. \/ report' = report /\ (key \notin DOMAIN action \/ Comparable(rule, s))
      \/ ~Comparable(rule, s) /\ report' = WithConflict(key)
  BY DEF AddReduction, PlaceReduction, KeepEntry, ReplaceEntry, ReportConflict
<1>3. CASE report' = report /\ (key \notin DOMAIN action \/ Comparable(rule, s))
  BY <1>1, <1>3
<1>4. CASE ~Comparable(rule, s) /\ IsKind(key, "Reduce") /\ report' = WithConflict(key)
  <2>. DEFINE issue == ReduceReduceConflict(current, action[key].rule, rule)
  <2>1. action[key].rule \in RuleIndex(g)
    BY <1>4 DEF IsKind, Inv, TypeOK, Reduce, Shift, Accept
  <2>2. issue \in Issue
    BY <1>1, <2>1 DEF Issue, ReduceReduceConflict
  <2>3. report' = Append(report, issue)
    BY <1>4 DEF WithConflict
  <2>4. Append(report, issue) \in Seq(Issue) /\ Issues' = Issues \cup {issue}
    BY <1>1, <2>2, <2>3, AppendedIssues DEF Issues
  <2>. QED  BY <1>4, <2>3, <2>4
<1>5. CASE ~Comparable(rule, s) /\ ~IsKind(key, "Reduce") /\ report' = WithConflict(key)
  <2>. DEFINE issue == ShiftReduceConflict(current, s, rule)
  <2>1. CASE IsKind(key, "Shift")
    <3>1. issue \in Issue
      BY <1>1 DEF Issue, ShiftReduceConflict
    <3>2. report' = Append(report, issue)
      BY <1>5, <2>1 DEF WithConflict
    <3>3. Append(report, issue) \in Seq(Issue) /\ Issues' = Issues \cup {issue}
      BY <1>1, <3>1, <3>2, AppendedIssues DEF Issues
    <3>. QED  BY <1>5, <2>1, <3>2, <3>3
  <2>2. CASE ~IsKind(key, "Shift")
    BY <1>1, <1>5, <2>2 DEF WithConflict
  <2>. QED  BY <2>1, <2>2
<1>. QED  BY <1>2, <1>3, <1>4, <1>5

LEMMA AddReductionInv ==
  ASSUME Inv, NEW s \in symbols, AddReduction(s)
  PROVE  Inv'
<1>1. AutomatonOK /\ TypeOK /\ FillingOrder /\ NothingInTheWay /\ AutomatonOK'
  BY AutomatonFixed DEF AddReduction, Inv
<1>2. /\ current \in DOMAIN states /\ current > 0 /\ s \in Symbol /\ rule \in RuleIndex(g)
      /\ edges = {} /\ symbols' = symbols \ {s}
      /\ UNCHANGED <<g, states, transitions, lookahead, current, edges, items, rule, goto>>
  BY ReductionAdded
<1>3. \A key \in DOMAIN action' : \/ key \in DOMAIN action /\ action'[key] = action[key]
                                  \/ key = <<current, s>> /\ action'[key] = Reduce(rule)
  BY ReductionAdded
<1>4. TypeOK'
  <2>1. Item(g)' = Item(g) /\ Issue' = Issue /\ RuleIndex(g)' = RuleIndex(g)
    BY <1>2 DEF Item, Issue, RuleIndex, Rhs
  <2>2. ASSUME NEW key \in DOMAIN action'
        PROVE  /\ key \in (DOMAIN states) \X Symbol
               /\ action'[key] \in {Accept} \cup {Shift(k) : k \in DOMAIN states} \cup {Reduce(r) : r \in RuleIndex(g)}
    <3>1. CASE key \in DOMAIN action /\ action'[key] = action[key]
      BY <1>1, <3>1 DEF TypeOK
    <3>2. CASE key = <<current, s>> /\ action'[key] = Reduce(rule)
      BY <1>2, <3>2
    <3>. QED  BY <1>3, <3>1, <3>2
  <2>3. report' \in Seq(Issue)
    BY ReductionReported
  <2>4. \A key \in DOMAIN goto : IsNonterminal(g, key[2])'
    BY <1>1, <1>2 DEF TypeOK, IsNonterminal
  <2>. QED  BY <1>1, <1>2, <2>1, <2>2, <2>3, <2>4 DEF TypeOK
<1>5. FillingOrder'
  <2>1. FinalItems(current)' = FinalItems(current) /\ RuleIndex(g)' = RuleIndex(g)
        /\ SymbolsOf(current, rule)' = SymbolsOf(current, rule)
    BY <1>2 DEF FinalItems, RuleIndex, SymbolsOf
  <2>. QED  BY <1>1, <1>2, <2>1 DEF FillingOrder
<1>6. NothingInTheWay'
  <2>1. \A key \in DOMAIN action' : key[1] <= current
    BY <1>1, <1>2, <1>3 DEF NothingInTheWay, AutomatonOK
  <2>. QED  BY <1>2, <2>1 DEF NothingInTheWay
<1>. QED  BY <1>1, <1>4, <1>5, <1>6 DEF Inv

LEMMA StutterInv ==
  ASSUME Inv, UNCHANGED vars
  PROVE  Inv'
BY DEF Inv, AutomatonOK, TypeOK, FillingOrder, NothingInTheWay, vars, automatonVars, tableVars,
       FinalItems, SymbolsOf, Item, Issue, RuleIndex, Rhs, IsFinal, IsNonterminal

LEMMA NextInv ==
  ASSUME Inv, [Next]_vars
  PROVE  Inv'
BY EnterStateInv, AddTransitionInv, TakeItemInv, AddReductionInv, StutterInv DEF Next, Terminated

\* The filling keeps its types for every automaton.
THEOREM TypeCorrect == Spec => []TypeOK
<1>1. Spec => []Inv
  BY InitInv, NextInv, PTL DEF Spec
<1>. QED  BY <1>1, PTL DEF Inv

\* Neither the accept entry of a state nor one of its transitions ever finds an
\* entry in its place: the assertions of add_accept() and add_state_transition()
\* hold for every automaton, and its report of a conflict is never made.
THEOREM EntriesNeverCollide == Spec => []NothingInTheWay
<1>1. Spec => []Inv
  BY InitInv, NextInv, PTL DEF Spec
<1>. QED  BY <1>1, PTL DEF Inv

-----------------------------------------------------------------------------
(* What has been tried *)

\* Until the first lookahead of an item is added, nothing new is tried.
LEMMA TriedStays ==
  ASSUME Inv, EnterState \/ (\E e \in edges : AddTransition(e)) \/ (\E item \in items : TakeItem(item)),
         NEW i, NEW r, NEW s
  PROVE  Tried(i, r, s)' <=> Tried(i, r, s)
<1>1. FillingOrder /\ current \in Nat /\ states \in Seq(SUBSET Item(g)) /\ items \subseteq Item(g)
  BY DEF Inv, TypeOK, AutomatonOK
<1>2. CASE EnterState
  <2>1. /\ edges = {} /\ items = {} /\ symbols = {} /\ current' = current + 1
        /\ items' = FinalItems(current + 1)
        /\ UNCHANGED <<g, states, transitions, lookahead, rule, symbols>>
    BY <1>2 DEF EnterState, automatonVars, FinalItems
  <2>2. Tried(i, r, s) <=> /\ i \in 1 .. current
                           /\ \E item \in states[i] : item.rule = r /\ IsFinal(g, item)
                           /\ s \in SymbolsOf(i, r)
    BY <2>1 DEF Tried
  <2>3. SymbolsOf(i, r)' = SymbolsOf(i, r)
    BY <2>1 DEF SymbolsOf
  <2>4. CASE i = current + 1
    <3>1. ~Tried(i, r, s)
      BY <1>1, <2>2, <2>4
    <3>2. ~Tried(i, r, s)'
      BY <2>1, <2>4 DEF Tried, FinalItems
    <3>. QED  BY <3>1, <3>2
  <2>5. CASE i # current + 1
    <3>1. i \in 1 .. current' <=> i \in 1 .. current
      BY <1>1, <2>1, <2>5
    <3>. QED  BY <2>1, <2>2, <2>3, <2>5, <3>1 DEF Tried
  <2>. QED  BY <2>4, <2>5
<1>3. ASSUME NEW e \in edges, AddTransition(e) PROVE Tried(i, r, s)' <=> Tried(i, r, s)
  <2>1. UNCHANGED <<g, states, transitions, lookahead, current, items, rule, symbols>>
    BY <1>3, TransitionAdded DEF automatonVars
  <2>2. items = FinalItems(current) /\ edges # {}
    BY <1>1, <1>3 DEF FillingOrder
  <2>3. SymbolsOf(i, r)' = SymbolsOf(i, r)
    BY <2>1 DEF SymbolsOf
  <2>4. CASE i = current
    BY <2>1, <2>2, <2>4 DEF Tried, FinalItems
  <2>5. CASE i # current
    BY <2>1, <2>3, <2>5 DEF Tried
  <2>. QED  BY <2>4, <2>5
<1>4. ASSUME NEW item \in items, TakeItem(item) PROVE Tried(i, r, s)' <=> Tried(i, r, s)
  <2>1. /\ edges = {} /\ symbols = {} /\ items' = items \ {item} /\ rule' = item.rule
        /\ symbols' = SymbolsOf(current, item.rule)
        /\ UNCHANGED <<g, states, transitions, lookahead, current, edges>>
    BY <1>4 DEF TakeItem, automatonVars
  <2>2. SymbolsOf(i, r)' = SymbolsOf(i, r)
    BY <2>1 DEF SymbolsOf
  <2>3. CASE i # current
    BY <2>1, <2>2, <2>3 DEF Tried
  <2>4. CASE i = current /\ r = item.rule
    <3>1. ~Tried(i, r, s)
      BY <1>4, <2>4 DEF Tried
    <3>2. ~Tried(i, r, s)'
      BY <2>1, <2>2, <2>4 DEF Tried
    <3>. QED  BY <3>1, <3>2
  <2>5. CASE i = current /\ r # item.rule
    BY <2>1, <2>2, <2>5 DEF Tried
  <2>. QED  BY <2>3, <2>4, <2>5
<1>. QED  BY <1>2, <1>3, <1>4

\* A reduction adds what it tries, and nothing else.
LEMMA TriedGrows ==
  ASSUME Inv, NEW s \in symbols, AddReduction(s), NEW i, NEW r, NEW t
  PROVE  Tried(i, r, t)' <=> Tried(i, r, t) \/ (i = current /\ r = rule /\ t = s)
<1>1. FillingOrder /\ current \in Nat /\ symbols # {}
  BY DEF Inv, TypeOK, AutomatonOK
<1>2. /\ edges = {} /\ symbols' = symbols \ {s} /\ s \in SymbolsOf(current, rule) /\ current > 0
      /\ UNCHANGED <<g, states, transitions, lookahead, current, edges, items, rule>>
  BY ReductionAdded
<1>3. /\ \E item \in states[current] : item.rule = rule /\ IsFinal(g, item)
      /\ \A item \in items : item.rule # rule
  BY <1>1 DEF FillingOrder, FinalItems
<1>4. SymbolsOf(i, r)' = SymbolsOf(i, r)
  BY <1>2 DEF SymbolsOf
<1>5. CASE i = current /\ r = rule
  <2>1. Tried(i, r, t) <=> t \in SymbolsOf(i, r) /\ t \notin symbols
    BY <1>1, <1>2, <1>3, <1>5 DEF Tried
  <2>2. Tried(i, r, t)' <=> t \in SymbolsOf(i, r) /\ t \notin symbols \ {s}
    BY <1>1, <1>2, <1>3, <1>4, <1>5 DEF Tried
  <2>. QED  BY <1>2, <1>5, <2>1, <2>2
<1>6. CASE ~(i = current /\ r = rule)
  BY <1>2, <1>4, <1>6 DEF Tried
<1>. QED  BY <1>5, <1>6

\* A step is one of the three kinds that matter for the table.
LEMMA StepKinds ==
  ASSUME [Next]_vars
  PROVE  \/ EnterState
         \/ \E e \in edges : AddTransition(e)
         \/ \E item \in items : TakeItem(item)
         \/ \E s \in symbols : AddReduction(s)
         \/ UNCHANGED vars
BY DEF Next, Terminated

\* Comparisons of precedences depend on the grammar alone.
LEMMA SamePrecedences ==
  ASSUME UNCHANGED automatonVars, NEW r, NEW s
  PROVE  /\ SymbolPrecedence(s)' = SymbolPrecedence(s)
         /\ StackPrecedence(r)' = StackPrecedence(r)
         /\ Comparable(r, s)' <=> Comparable(r, s)
<1>1. g' = g
  BY DEF automatonVars
<1>2. SymbolPrecedence(s)' = SymbolPrecedence(s)
  BY <1>1 DEF SymbolPrecedence
<1>3. StackPrecedence(r)' = StackPrecedence(r)
  BY <1>1 DEF StackPrecedence, SymbolPrecedence, TerminalsOf, IsTerminal
<1>. QED  BY <1>2, <1>3 DEF Comparable

LEMMA AutomatonUnchanged ==
  ASSUME [Next]_vars
  PROVE  UNCHANGED automatonVars
BY StepKinds DEF EnterState, AddTransition, TakeItem, AddReduction, vars

\* What one step does to the action table.
LEMMA ActionStep ==
  ASSUME Inv, [Next]_vars
  PROVE  /\ DOMAIN action \subseteq DOMAIN action'
         /\ \A key \in DOMAIN action' :
              \/ key \in DOMAIN action /\ action'[key] = action[key]
              \/ /\ EnterState /\ key = <<current + 1, EndSymbol>> /\ action'[key] = Accept
                 /\ \E item \in states[current + 1] : IsAccepting(g, item)
              \/ \E e \in edges : /\ AddTransition(e) /\ key = <<e[1], e[2]>> /\ action'[key] = Shift(e[3])
              \/ \E s \in symbols : /\ AddReduction(s) /\ key = <<current, s>> /\ action'[key] = Reduce(rule)
                                    /\ key \in DOMAIN action =>
                                         /\ Comparable(rule, s)
                                         /\ Greater(StackPrecedence(rule), SymbolPrecedence(s))
<1>1. CASE EnterState
  <2>. DEFINE new == <<current + 1, EndSymbol>>
              table == Emplaced(action, new, Accept)
  <2>1. new \notin DOMAIN action
    BY DEF Inv, NothingInTheWay, TypeOK, AutomatonOK
  <2>2. /\ DOMAIN table = DOMAIN action \cup {new} /\ table[new] = Accept
        /\ \A k \in DOMAIN action : table[k] = action[k]
    BY <2>1, EmplacedEntry
  <2>3. CASE \E item \in states[current + 1] : IsAccepting(g, item)
    <3>1. action' = table
      BY <1>1, <2>3 DEF EnterState
    <3>. QED  BY <1>1, <2>2, <2>3, <3>1
  <2>4. CASE ~\E item \in states[current + 1] : IsAccepting(g, item)
    BY <1>1, <2>4 DEF EnterState
  <2>. QED  BY <2>3, <2>4
<1>2. ASSUME NEW e \in edges, AddTransition(e)
      PROVE  /\ DOMAIN action \subseteq DOMAIN action'
             /\ \A key \in DOMAIN action' :
                  \/ key \in DOMAIN action /\ action'[key] = action[key]
                  \/ key = <<e[1], e[2]>> /\ action'[key] = Shift(e[3])
  BY <1>2, TransitionAdded
<1>3. CASE (\E item \in items : TakeItem(item)) \/ UNCHANGED vars
  BY <1>3 DEF TakeItem, vars, tableVars
<1>4. ASSUME NEW s \in symbols, AddReduction(s)
      PROVE  /\ DOMAIN action \subseteq DOMAIN action'
             /\ \A key \in DOMAIN action' :
                  \/ key \in DOMAIN action /\ action'[key] = action[key]
                  \/ /\ key = <<current, s>> /\ action'[key] = Reduce(rule)
                     /\ key \in DOMAIN action => /\ Comparable(rule, s)
                                                 /\ Greater(StackPrecedence(rule), SymbolPrecedence(s))
  BY <1>4, ReductionAdded
<1>. QED  BY <1>1, <1>2, <1>3, <1>4, StepKinds

LEMMA TriedIsKept ==
  ASSUME Inv, [Next]_vars, NEW i, NEW r, NEW s, Tried(i, r, s)
  PROVE  Tried(i, r, s)'
<1>1. CASE UNCHANGED vars
  BY <1>1 DEF vars, automatonVars, Tried, SymbolsOf
<1>2. CASE \E t \in symbols : AddReduction(t)
  BY <1>2, TriedGrows
<1>. QED  BY <1>1, <1>2, TriedStays, StepKinds

-----------------------------------------------------------------------------
(* Entries come from the automaton *)

\* EntriesJustified of one entry.
Justified(key, entry) ==
  \/ entry.kind = "Shift" /\ <<key[1], key[2], entry.state>> \in transitions
  \/ entry.kind = "Reduce" /\ Tried(key[1], entry.rule, key[2])
  \/ /\ entry.kind = "Accept" /\ key[2] = EndSymbol
     /\ \E item \in states[key[1]] : IsAccepting(g, item)

LEMMA JustifiedEntries ==
  EntriesJustified <=> \A key \in DOMAIN action : \A entry : entry = action[key] => Justified(key, entry)
BY DEF EntriesJustified, Justified, IsKind

LEMMA JustifiedIsKept ==
  ASSUME Inv, [Next]_vars, NEW key, NEW entry, Justified(key, entry)
  PROVE  Justified(key, entry)'
<1>1. UNCHANGED <<g, states, transitions, lookahead>>
  BY AutomatonUnchanged DEF automatonVars
<1>2. Tried(key[1], entry.rule, key[2]) => Tried(key[1], entry.rule, key[2])'
  BY TriedIsKept
<1>3. \A item : IsAccepting(g, item)' <=> IsAccepting(g, item)
  BY <1>1 DEF IsAccepting, Reads, IsFinal, ReadSymbol, Rhs
<1>. QED  BY <1>1, <1>2, <1>3 DEF Justified

LEMMA JustifiedStep ==
  ASSUME Inv, EntriesJustified, [Next]_vars
  PROVE  EntriesJustified'
<1>0. EntriesJustified' <=> \A key \in DOMAIN action' : \A entry : entry = action'[key] => Justified(key, entry)'
  <2>1. (EntriesJustified <=> \A key \in DOMAIN action : \A entry : entry = action[key] => Justified(key, entry))'
    BY JustifiedEntries, PTL
  <2>. QED  BY <2>1
<1>. SUFFICES ASSUME NEW key \in DOMAIN action', NEW entry, entry = action'[key]
              PROVE  Justified(key, entry)'
  BY <1>0
<1>1. UNCHANGED <<g, states, transitions, lookahead>>
  BY AutomatonUnchanged DEF automatonVars
<1>2. CASE key \in DOMAIN action /\ action'[key] = action[key]
  <2>1. Justified(key, entry)
    BY <1>2, JustifiedEntries
  <2>. QED  BY <2>1, JustifiedIsKept
<1>3. CASE /\ EnterState /\ key = <<current + 1, EndSymbol>> /\ action'[key] = Accept
           /\ \E item \in states[current + 1] : IsAccepting(g, item)
  <2>1. entry.kind = "Accept" /\ key[1] = current + 1 /\ key[2] = EndSymbol
    BY <1>3 DEF Accept
  <2>2. Justified(key, entry)
    BY <1>3, <2>1 DEF Justified
  <2>. QED  BY <2>2, JustifiedIsKept
<1>4. ASSUME NEW e \in edges, AddTransition(e), key = <<e[1], e[2]>>, action'[key] = Shift(e[3])
      PROVE  Justified(key, entry)'
  <2>1. e \in transitions /\ <<e[1], e[2], e[3]>> = e
    BY DEF Inv, FillingOrder, AutomatonOK
  <2>2. entry.kind = "Shift" /\ entry.state = e[3]
    BY <1>4 DEF Shift
  <2>3. Justified(key, entry)
    BY <1>4, <2>1, <2>2 DEF Justified
  <2>. QED  BY <2>3, JustifiedIsKept
<1>5. ASSUME NEW s \in symbols, AddReduction(s), key = <<current, s>>, action'[key] = Reduce(rule)
      PROVE  Justified(key, entry)'
  <2>1. entry.kind = "Reduce" /\ entry.rule = rule /\ key[1] = current /\ key[2] = s
    BY <1>5 DEF Reduce
  <2>2. Tried(key[1], entry.rule, key[2])'
    BY <1>5, <2>1, TriedGrows
  <2>. QED  BY <2>1, <2>2 DEF Justified
<1>. QED  BY <1>2, <1>3, <1>4, <1>5, ActionStep

\* Every action of the table has its reason in the automaton: what a parser shifts
\* is a transition and what it reduces by is a final item with that lookahead.
THEOREM ActionsHaveReasons == Spec => []EntriesJustified
<1>1. Init => EntriesJustified
  BY DEF Init, EntriesJustified, EmptyTable
<1>2. Inv /\ EntriesJustified /\ [Next]_vars => Inv' /\ EntriesJustified'
  BY NextInv, JustifiedStep
<1>. QED  BY InitInv, <1>1, <1>2, PTL DEF Spec

-----------------------------------------------------------------------------
(* Shifts and accept entries are kept *)

\* An entry that a transition may have under its key.
Beats(e, entry) ==
  \/ entry = Shift(e[3])
  \/ /\ entry.kind = "Reduce"
     /\ Comparable(entry.rule, e[2])
     /\ Greater(StackPrecedence(entry.rule), SymbolPrecedence(e[2]))

ShiftKept(e) ==
  <<e[1], e[2]>> \in DOMAIN action /\ \A entry : entry = action[<<e[1], e[2]>>] => Beats(e, entry)

AcceptsKept ==
  \A i \in 1 .. current : (\E item \in states[i] : IsAccepting(g, item)) => IsKind(<<i, EndSymbol>>, "Accept")

LEMMA KeptShifts ==
  ShiftsKept <=> /\ \A e \in transitions \ edges : e[1] <= current /\ IsTerminal(g, e[2]) => ShiftKept(e)
                 /\ AcceptsKept
BY DEF ShiftsKept, ShiftKept, AcceptsKept, Beats, IsKind, Shift

LEMMA BeatsIsKept ==
  ASSUME UNCHANGED automatonVars, NEW e, NEW entry, Beats(e, entry)
  PROVE  Beats(e, entry)'
<1>1. /\ Comparable(entry.rule, e[2])' <=> Comparable(entry.rule, e[2])
      /\ StackPrecedence(entry.rule)' = StackPrecedence(entry.rule)
      /\ SymbolPrecedence(e[2])' = SymbolPrecedence(e[2])
  BY SamePrecedences
<1>. QED  BY <1>1 DEF Beats, Greater

LEMMA ShiftKeptStep ==
  ASSUME Inv, [Next]_vars, NEW e \in transitions, ShiftKept(e)
  PROVE  ShiftKept(e)'
<1>. DEFINE key == <<e[1], e[2]>>
<1>1. key \in DOMAIN action /\ key \in DOMAIN action'
  BY ActionStep DEF ShiftKept
<1>2. ASSUME NEW entry, entry = action'[key] PROVE Beats(e, entry)'
  <2>1. CASE action'[key] = action[key]
    BY <1>2, <2>1, AutomatonUnchanged, BeatsIsKept DEF ShiftKept
  <2>2. CASE action'[key] # action[key]
    <3>1. key # <<current + 1, EndSymbol>>
      BY DEF Inv, AutomatonOK
    <3>2. \A d \in edges : key # <<d[1], d[2]>>
      BY <1>1 DEF Inv, NothingInTheWay
    <3>3. PICK s \in symbols : /\ key = <<current, s>> /\ action'[key] = Reduce(rule)
                               /\ Comparable(rule, s) /\ Greater(StackPrecedence(rule), SymbolPrecedence(s))
      BY <1>1, <2>2, <3>1, <3>2, ActionStep
    <3>4. s = e[2] /\ entry.kind = "Reduce" /\ entry.rule = rule
      BY <1>2, <3>3 DEF Reduce
    <3>5. Beats(e, entry)
      BY <3>3, <3>4 DEF Beats
    <3>. QED  BY <3>5, AutomatonUnchanged, BeatsIsKept
  <2>. QED  BY <2>1, <2>2
<1>. QED  BY <1>1, <1>2 DEF ShiftKept

LEMMA AcceptsKeptStep ==
  ASSUME Inv, [Next]_vars, AcceptsKept
  PROVE  AcceptsKept'
<1>. SUFFICES ASSUME NEW i \in 1 .. current', \E item \in states'[i] : IsAccepting(g, item)'
              PROVE  IsKind(<<i, EndSymbol>>, "Accept")'
  BY DEF AcceptsKept
<1>. DEFINE key == <<i, EndSymbol>>
<1>1. UNCHANGED <<g, states, transitions, lookahead>> /\ current \in Nat
  BY AutomatonUnchanged DEF automatonVars, Inv, TypeOK, AutomatonOK
<1>2. \E item \in states[i] : IsAccepting(g, item)
  BY <1>1 DEF IsAccepting, Reads, IsFinal, ReadSymbol, Rhs
<1>3. CASE i \in 1 .. current
  <2>1. key \in DOMAIN action /\ action[key].kind = "Accept" /\ key \in DOMAIN action'
    BY <1>2, <1>3, ActionStep DEF AcceptsKept, IsKind
  <2>2. \A d \in edges : key # <<d[1], d[2]>>
    BY <2>1 DEF Inv, NothingInTheWay
  <2>3. \A s \in symbols : key = <<current, s>> => ~Comparable(rule, s)
    BY DEF Comparable, SymbolPrecedence, Inv, AutomatonOK
  <2>4. action'[key] = action[key] \/ action'[key] = Accept
    BY <2>1, <2>2, <2>3, ActionStep
  <2>. QED  BY <2>1, <2>4 DEF IsKind, Accept
<1>4. CASE i \notin 1 .. current
  <2>1. EnterState /\ i = current + 1
    <3>1. CASE EnterState
      BY <1>1, <1>4, <3>1 DEF EnterState
    <3>2. CASE ~EnterState
      BY <1>4, <3>2, StepKinds DEF AddTransition, TakeItem, AddReduction, vars
    <3>. QED  BY <3>1, <3>2
  <2>. DEFINE table == Emplaced(action, key, Accept)
  <2>2. key \notin DOMAIN action
    BY <1>1, <2>1 DEF Inv, NothingInTheWay
  <2>3. action' = table
    BY <1>2, <2>1 DEF EnterState
  <2>4. DOMAIN table = DOMAIN action \cup {key} /\ table[key] = Accept
    BY <2>2, EmplacedEntry
  <2>. QED  BY <2>3, <2>4 DEF IsKind, Accept
<1>. QED  BY <1>3, <1>4

LEMMA ShiftsKeptStep ==
  ASSUME Inv, [Next]_vars, ShiftsKept
  PROVE  ShiftsKept'
<1>1. UNCHANGED <<g, states, transitions, lookahead>> /\ current \in Nat
  BY AutomatonUnchanged DEF automatonVars, Inv, TypeOK, AutomatonOK
<1>2. AcceptsKept'
  BY KeptShifts, AcceptsKeptStep
<1>3. ASSUME NEW e \in transitions \ edges', e[1] <= current', IsTerminal(g, e[2]) PROVE ShiftKept(e)'
  <2>1. CASE e \notin edges /\ e[1] <= current
    BY <1>3, <2>1, KeptShifts, ShiftKeptStep
  <2>2. CASE ~(e \notin edges /\ e[1] <= current)
    <3>0. e[1] \in Nat
      BY DEF Inv, AutomatonOK
    <3>1. CASE EnterState
      <4>1. current' = current + 1 /\ edges = {} /\ edges' = {d \in transitions : d[1] = current + 1}
        BY <3>1 DEF EnterState
      <4>2. e[1] = current + 1
        BY <1>1, <1>3, <2>2, <3>0, <4>1
      <4>. QED  BY <1>3, <4>1, <4>2
    <3>2. CASE \E d \in edges : AddTransition(d)
      <4>1. PICK d \in edges : AddTransition(d)
        BY <3>2
      <4>2. d = e
        BY <1>3, <2>2, <4>1 DEF AddTransition
      <4>3. action'[<<e[1], e[2]>>] = Shift(e[3]) /\ <<e[1], e[2]>> \in DOMAIN action'
        BY <1>3, <4>1, <4>2, TransitionAdded
      <4>. QED  BY <4>3 DEF ShiftKept, Beats
    <3>3. CASE (\E item \in items : TakeItem(item)) \/ (\E s \in symbols : AddReduction(s)) \/ UNCHANGED vars
      BY <1>3, <2>2, <3>3 DEF TakeItem, AddReduction, vars
    <3>. QED  BY <3>1, <3>2, <3>3, StepKinds
  <2>. QED  BY <2>1, <2>2
<1>4. (ShiftsKept <=> /\ \A e \in transitions \ edges : e[1] <= current /\ IsTerminal(g, e[2]) => ShiftKept(e)
                      /\ AcceptsKept)'
  BY KeptShifts, PTL
<1>. QED  BY <1>1, <1>2, <1>3, <1>4 DEF IsTerminal

\* A shift is lost to a reduction of a greater precedence only, and accept never:
\* every conflict that precedence does not decide leaves the shift in the table.
THEOREM ShiftsWin == Spec => []ShiftsKept
<1>1. Init => ShiftsKept
  <2>. SUFFICES ASSUME Init PROVE ShiftsKept
    OBVIOUS
  <2>1. current = 0 /\ AutomatonOK
    BY InitInv DEF Init, Inv
  <2>2. \A e \in transitions : ~(e[1] <= current)
    BY <2>1 DEF AutomatonOK
  <2>. QED  BY <2>1, <2>2 DEF ShiftsKept
<1>2. Inv /\ ShiftsKept /\ [Next]_vars => Inv' /\ ShiftsKept'
  BY NextInv, ShiftsKeptStep
<1>. QED  BY InitInv, <1>1, <1>2, PTL DEF Spec

-----------------------------------------------------------------------------
(* Reductions are in the table or in the report *)

\* What is reported stays reported.
LEMMA IssuesGrow ==
  ASSUME Inv, [Next]_vars
  PROVE  Issues \subseteq Issues'
<1>1. CASE EnterState \/ (\E item \in items : TakeItem(item)) \/ UNCHANGED vars
  BY <1>1 DEF EnterState, TakeItem, vars, tableVars, Issues
<1>2. CASE \E e \in edges : AddTransition(e)
  BY <1>2, TransitionAdded DEF Issues
<1>3. CASE \E s \in symbols : AddReduction(s)
  <2>1. PICK s \in symbols : AddReduction(s)
    BY <1>3
  <2>2. CASE report' = report
    BY <2>2 DEF Issues
  <2>3. CASE report' # report
    BY <2>1, <2>3, ReductionReported
  <2>. QED  BY <2>2, <2>3
<1>. QED  BY <1>1, <1>2, <1>3, StepKinds

\* The entry under <<i, s>> is the reduction by r, or the report says why not.
Answered(i, r, s, entry) ==
  \/ entry.kind = "Accept"
  \/ entry.kind = "Shift" /\ ShiftReduceConflict(i, s, r) \in Issues
  \/ /\ entry.kind = "Reduce"
     /\ entry.rule = r \/ ReduceReduceConflict(i, entry.rule, r) \in Issues

NotLost(i, r, s) ==
  <<i, s>> \in DOMAIN action /\ \A entry : entry = action[<<i, s>>] => Answered(i, r, s, entry)

LEMMA NothingLost ==
  NothingLostInSilence <=>
    \A i \in 1 .. current : \A r \in RuleIndex(g) : \A s \in SymbolsOf(i, r) :
      Tried(i, r, s) /\ SymbolPrecedence(s) = NoPrecedence => NotLost(i, r, s)
BY DEF NothingLostInSilence, NotLost, Answered, IsKind

\* No step changes an entry under a lookahead without a precedence that a
\* reduction has been tried for.
LEMMA TriedEntryStays ==
  ASSUME Inv, [Next]_vars, NEW i, NEW r, NEW s, Tried(i, r, s),
         <<i, s>> \in DOMAIN action, SymbolPrecedence(s) = NoPrecedence
  PROVE  <<i, s>> \in DOMAIN action' /\ action'[<<i, s>>] = action[<<i, s>>]
<1>. DEFINE key == <<i, s>>
<1>1. key # <<current + 1, EndSymbol>>
  BY DEF Tried, Inv, TypeOK
<1>2. \A e \in edges : key # <<e[1], e[2]>>
  BY DEF Inv, NothingInTheWay
<1>3. \A t \in symbols : key = <<current, t>> => ~Comparable(rule, t)
  BY DEF Comparable, NoPrecedence, G!NoPrecedence
<1>. QED  BY <1>1, <1>2, <1>3, ActionStep

LEMMA NotLostStep ==
  ASSUME Inv, [Next]_vars, NEW i, NEW r, NEW s, Tried(i, r, s), NotLost(i, r, s),
         SymbolPrecedence(s) = NoPrecedence
  PROVE  NotLost(i, r, s)'
<1>1. <<i, s>> \in DOMAIN action' /\ action'[<<i, s>>] = action[<<i, s>>]
  BY TriedEntryStays DEF NotLost
<1>2. ASSUME NEW entry, Answered(i, r, s, entry) PROVE Answered(i, r, s, entry)'
  BY <1>2, IssuesGrow DEF Answered
<1>. QED  BY <1>1, <1>2 DEF NotLost

\* A reduction that is tried is placed, or reported against the entry there.
LEMMA ReductionNotLost ==
  ASSUME Inv, NEW s \in symbols, AddReduction(s), SymbolPrecedence(s) = NoPrecedence
  PROVE  NotLost(current, rule, s)'
<1>. DEFINE key == <<current, s>>
<1>1. ~Comparable(rule, s)
  BY DEF Comparable, NoPrecedence, G!NoPrecedence
<1>2. /\ key \in DOMAIN action' /\ current' = current /\ rule' = rule
      /\ \/ key \in DOMAIN action /\ action'[key] = action[key]
         \/ key \notin DOMAIN action /\ action'[key] = Reduce(rule)
  BY <1>1, ReductionAdded
<1>3. ASSUME NEW entry, entry = action'[key] PROVE Answered(current, rule, s, entry)'
  <2>1. CASE action'[key] = Reduce(rule)
    BY <1>2, <1>3, <2>1 DEF Answered, Reduce
  <2>2. CASE key \in DOMAIN action /\ action'[key] = action[key]
    <3>1. entry.kind \in {"Accept", "Shift", "Reduce"}
      BY <1>3, <2>2 DEF Inv, TypeOK, Accept, Shift, Reduce
    <3>2. \A kind : IsKind(key, kind) <=> entry.kind = kind
      BY <1>3, <2>2 DEF IsKind
    <3>3. CASE entry.kind = "Accept"
      BY <3>3 DEF Answered
    <3>4. CASE entry.kind = "Shift"
      <4>1. ShiftReduceConflict(current, s, rule) \in Issues'
        BY <1>1, <2>2, <3>2, <3>4, ReductionReported
      <4>. QED  BY <1>2, <3>4, <4>1 DEF Answered, ShiftReduceConflict
    <3>5. CASE entry.kind = "Reduce"
      <4>1. ReduceReduceConflict(current, entry.rule, rule) \in Issues'
        BY <1>1, <1>3, <2>2, <3>2, <3>5, ReductionReported
      <4>. QED  BY <1>2, <3>5, <4>1 DEF Answered, ReduceReduceConflict
    <3>. QED  BY <3>1, <3>3, <3>4, <3>5
  <2>. QED  BY <1>2, <2>1, <2>2
<1>. QED  BY <1>2, <1>3 DEF NotLost

LEMMA NothingLostStep ==
  ASSUME Inv, [Next]_vars, NothingLostInSilence
  PROVE  NothingLostInSilence'
<1>0. UNCHANGED <<g, states, transitions, lookahead>> /\ UNCHANGED automatonVars
  BY AutomatonUnchanged DEF automatonVars
<1>1. ASSUME NEW i, NEW r \in RuleIndex(g), NEW s, Tried(i, r, s)', SymbolPrecedence(s) = NoPrecedence
      PROVE  NotLost(i, r, s)'
  <2>1. CASE Tried(i, r, s)
    <3>1. NotLost(i, r, s)
      BY <1>1, <2>1, NothingLost DEF Tried
    <3>. QED  BY <1>1, <2>1, <3>1, NotLostStep
  <2>2. CASE ~Tried(i, r, s)
    <3>1. ~UNCHANGED vars
      BY <1>1, <2>2 DEF vars, automatonVars, Tried, SymbolsOf
    <3>2. PICK t \in symbols : AddReduction(t)
      BY <1>1, <2>2, <3>1, StepKinds, TriedStays
    <3>3. i = current /\ r = rule /\ s = t
      BY <1>1, <2>2, <3>2, TriedGrows
    <3>4. current' = current /\ rule' = rule
      BY <3>2, ReductionAdded
    <3>5. NotLost(current, rule, t)'
      BY <1>1, <3>2, <3>3, ReductionNotLost
    <3>. QED  BY <3>3, <3>4, <3>5 DEF NotLost, Answered
  <2>. QED  BY <2>1, <2>2
<1>2. (NothingLostInSilence <=>
         \A i \in 1 .. current : \A r \in RuleIndex(g) : \A s \in SymbolsOf(i, r) :
           Tried(i, r, s) /\ SymbolPrecedence(s) = NoPrecedence => NotLost(i, r, s))'
  BY NothingLost, PTL
<1>3. RuleIndex(g)' = RuleIndex(g) /\ \A s : SymbolPrecedence(s)' = SymbolPrecedence(s)
  BY <1>0 DEF RuleIndex, SymbolPrecedence
<1>. QED  BY <1>1, <1>2, <1>3

\* A reduction that the automaton calls for is in the table or in the report,
\* unless its lookahead has a precedence or the state accepts: ParserReport is
\* complete for grammars without precedences.
THEOREM ReportIsComplete == Spec => []NothingLostInSilence
<1>1. Init => NothingLostInSilence
  BY DEF Init, NothingLostInSilence
<1>2. Inv /\ NothingLostInSilence /\ [Next]_vars => Inv' /\ NothingLostInSilence'
  BY NextInv, NothingLostStep
<1>. QED  BY InitInv, <1>1, <1>2, PTL DEF Spec

-----------------------------------------------------------------------------
(* Reported conflicts are real *)

\* ReportedConflictsExist of one issue.
Exists(issue) ==
  IF issue.kind = "ShiftReduce"
    THEN /\ Tried(issue.state, issue.rule, issue.symbol)
         /\ \E e \in transitions : e[1] = issue.state /\ e[2] = issue.symbol
         /\ ~Comparable(issue.rule, issue.symbol)
    ELSE \E s \in SymbolsOf(issue.state, issue.rule1) :
           /\ Tried(issue.state, issue.rule1, s) /\ Tried(issue.state, issue.rule2, s)
           /\ ~Comparable(issue.rule2, s)

LEMMA ExistingConflicts ==
  ReportedConflictsExist <=> \A issue \in Issues : Exists(issue)
BY DEF ReportedConflictsExist, Exists

LEMMA ExistsIsKept ==
  ASSUME Inv, [Next]_vars, NEW issue, Exists(issue)
  PROVE  Exists(issue)'
<1>1. UNCHANGED automatonVars /\ UNCHANGED <<transitions, lookahead>>
  BY AutomatonUnchanged DEF automatonVars
<1>2. CASE issue.kind = "ShiftReduce"
  <2>1. Tried(issue.state, issue.rule, issue.symbol)'
    BY <1>2, TriedIsKept DEF Exists
  <2>2. ~Comparable(issue.rule, issue.symbol)'
    BY <1>1, <1>2, SamePrecedences DEF Exists
  <2>. QED  BY <1>1, <1>2, <2>1, <2>2 DEF Exists
<1>3. CASE issue.kind # "ShiftReduce"
  <2>1. PICK s \in SymbolsOf(issue.state, issue.rule1) :
           /\ Tried(issue.state, issue.rule1, s) /\ Tried(issue.state, issue.rule2, s)
           /\ ~Comparable(issue.rule2, s)
    BY <1>3 DEF Exists
  <2>2. Tried(issue.state, issue.rule1, s)' /\ Tried(issue.state, issue.rule2, s)'
    BY <2>1, TriedIsKept
  <2>3. ~Comparable(issue.rule2, s)'
    BY <1>1, <2>1, SamePrecedences
  <2>4. s \in SymbolsOf(issue.state, issue.rule1)'
    BY <1>1, <2>1 DEF SymbolsOf
  <2>. QED  BY <1>3, <2>2, <2>3, <2>4 DEF Exists
<1>. QED  BY <1>2, <1>3

LEMMA ConflictsExistStep ==
  ASSUME Inv, EntriesJustified, [Next]_vars, ReportedConflictsExist
  PROVE  ReportedConflictsExist'
<1>0. (ReportedConflictsExist <=> \A issue \in Issues : Exists(issue))'
  BY ExistingConflicts, PTL
<1>. SUFFICES ASSUME NEW issue, issue \in Issues' PROVE Exists(issue)'
  BY <1>0
<1>1. CASE issue \in Issues
  BY <1>1, ExistingConflicts, ExistsIsKept
<1>2. CASE issue \notin Issues
  <2>1. report' # report
    BY <1>2 DEF Issues
  <2>2. PICK s \in symbols : AddReduction(s)
    BY <2>1, StepKinds, TransitionAdded DEF EnterState, TakeItem, vars, tableVars
  <2>. DEFINE key == <<current, s>>
  <2>3. UNCHANGED automatonVars /\ UNCHANGED <<transitions, lookahead>>
    BY AutomatonUnchanged DEF automatonVars
  <2>0. PICK i, r : i = current /\ r = rule
    OBVIOUS
  <2>4. ~Comparable(r, s)'
    <3>1. ~Comparable(rule, s)
      BY <2>1, <2>2, ReductionReported
    <3>. QED  BY <2>0, <2>3, <3>1, SamePrecedences
  <2>5. Tried(i, r, s)'
    BY <2>0, <2>2, TriedGrows
  <2>6. CASE IsKind(key, "Shift") /\ issue = ShiftReduceConflict(current, s, rule)
    <3>1. key \in DOMAIN action /\ action[key].kind = "Shift"
      BY <2>6 DEF IsKind
    <3>2. <<key[1], key[2], action[key].state>> \in transitions
      BY <3>1 DEF EntriesJustified, IsKind
    <3>3. \E e \in transitions : e[1] = i /\ e[2] = s
      BY <2>0, <3>2
    <3>4. /\ issue.kind = "ShiftReduce" /\ issue.state = i
          /\ issue.symbol = s /\ issue.rule = r
      BY <2>0, <2>6 DEF ShiftReduceConflict
    <3>. QED  BY <2>3, <2>4, <2>5, <3>3, <3>4 DEF Exists
  <2>7. CASE IsKind(key, "Reduce") /\ issue = ReduceReduceConflict(current, action[key].rule, rule)
    <3>1. key \in DOMAIN action /\ action[key].kind = "Reduce"
      BY <2>7 DEF IsKind
    <3>2. PICK other : other = action[key].rule
      OBVIOUS
    <3>3. Tried(i, other, s)
      BY <2>0, <3>1, <3>2 DEF EntriesJustified, IsKind
    <3>4. Tried(i, other, s)'
      BY <3>3, TriedIsKept
    <3>5. s \in SymbolsOf(i, other)'
      BY <2>3, <3>3 DEF Tried, SymbolsOf
    <3>6. /\ issue.kind = "ReduceReduce" /\ issue.state = i
          /\ issue.rule1 = other /\ issue.rule2 = r
      BY <2>0, <2>7, <3>2 DEF ReduceReduceConflict
    <3>. QED  BY <2>4, <2>5, <3>4, <3>5, <3>6 DEF Exists
  <2>. QED  BY <1>2, <2>1, <2>2, <2>6, <2>7, ReductionReported
<1>. QED  BY <1>1, <1>2

\* What ParserReport lists are conflicts of the automaton that no precedence of the
\* lookahead and the later rule decides: no grammar gets a report for nothing.
THEOREM ReportIsSound == Spec => []ReportedConflictsExist
<1>1. Init => EntriesJustified /\ ReportedConflictsExist
  BY DEF Init, EntriesJustified, EmptyTable, ReportedConflictsExist, Issues
<1>2. Inv /\ EntriesJustified /\ ReportedConflictsExist /\ [Next]_vars
        => Inv' /\ EntriesJustified' /\ ReportedConflictsExist'
  BY NextInv, JustifiedStep, ConflictsExistStep
<1>. QED  BY InitInv, <1>1, <1>2, PTL DEF Spec

-----------------------------------------------------------------------------
(***************************************************************************)
(* The table is what Resolution says of the automaton.  The reductions of  *)
(* a state are tried in the order of its final items, so at any time the   *)
(* entry under a key is settled by the transitions and by the items tried  *)
(* so far (AsSettled); an item that is tried next comes after all of them  *)
(* (TakenInOrder).                                                         *)
(***************************************************************************)

(* The order of items and of precedences *)

LEMMA ItemsAreOrdered ==
  ASSUME NEW a \in Item(g), NEW b \in Item(g)
  PROVE  /\ ~(ItemLess(a, b) /\ ItemLess(b, a))
         /\ a # b => ItemLess(a, b) \/ ItemLess(b, a)
<1>1. /\ a.rule \in Int /\ b.rule \in Int /\ a.pos \in Nat /\ b.pos \in Nat
      /\ a = [rule |-> a.rule, pos |-> a.pos] /\ b = [rule |-> b.rule, pos |-> b.pos]
  BY DEF Item, RuleIndex
<1>2. a # b => a.rule # b.rule \/ a.pos # b.pos
  BY <1>1
<1>. QED  BY <1>1, <1>2 DEF ItemLess, IsKernel

LEMMA SameOrder ==
  ASSUME NEW a, NEW b
  PROVE  G!ItemLess(a, b) <=> ItemLess(a, b)
BY DEF ItemLess, IsKernel, StartRule, G!ItemLess, G!IsKernel, G!StartRule

IsFirst(item, S) == item \in S /\ \A other \in S : ~ItemLess(other, item)
IsLast(item, S)  == item \in S /\ \A other \in S : ~ItemLess(item, other)

LEMMA TheFirst ==
  ASSUME NEW S \in SUBSET Item(g), NEW item, IsFirst(item, S)
  PROVE  FirstItem(S) = item
<1>1. ASSUME NEW x \in S, \A other \in S : ~G!ItemLess(other, x) PROVE x = item
  BY <1>1, ItemsAreOrdered, SameOrder DEF IsFirst
<1>2. item \in S /\ \A other \in S : ~G!ItemLess(other, item)
  BY SameOrder DEF IsFirst
<1>. QED  BY <1>1, <1>2 DEF FirstItem

LEMMA TheLast ==
  ASSUME NEW S \in SUBSET Item(g), NEW item, IsLast(item, S)
  PROVE  LastItem(S) = item
<1>1. ASSUME NEW x \in S, \A other \in S : ~G!ItemLess(x, other) PROVE x = item
  BY <1>1, ItemsAreOrdered, SameOrder DEF IsLast
<1>2. item \in S /\ \A other \in S : ~G!ItemLess(item, other)
  BY SameOrder DEF IsLast
<1>. QED  BY <1>1, <1>2 DEF LastItem

\* The precedences of symbols have a level and an associativity.
PrecedencesOK ==
  \A s \in DOMAIN g.precedence : g.precedence[s] \in [level : Nat, assoc : {"Left", "Right"}]

\* Of two precedences either Less or Greater holds.
LEMMA OneIsGreater ==
  ASSUME Inv, PrecedencesOK, NEW r \in RuleIndex(g), NEW s, Comparable(r, s)
  PROVE  Greater(StackPrecedence(r), SymbolPrecedence(s)) <=>
           ~Less(StackPrecedence(r), SymbolPrecedence(s))
<1>. DEFINE Real == [level : Nat, assoc : {"Left", "Right"}]
<1>1. ASSUME NEW t, SymbolPrecedence(t) # G!NoPrecedence PROVE SymbolPrecedence(t) \in Real
  BY <1>1 DEF SymbolPrecedence, PrecedencesOK
<1>2. g.rules[r].precedence \in Real \cup {NoPrecedence}
  <2>1. g.rules[r] \in Rule
    BY DEF Inv, AutomatonOK, RuleIndex
  <2>2. g.rules[r].precedence \in Precedence
    BY <2>1 DEF Rule
  <2>. QED  BY <2>2 DEF Precedence
<1>3. StackPrecedence(r) \in Real
  <2>1. StackPrecedence(r) # G!NoPrecedence /\ NoPrecedence = G!NoPrecedence
    BY DEF Comparable, NoPrecedence, G!NoPrecedence
  <2>. QED  BY <1>1, <1>2, <2>1 DEF StackPrecedence
<1>4. SymbolPrecedence(s) \in Real
  BY <1>1 DEF Comparable
<1>. QED  BY <1>3, <1>4 DEF Less, Greater

-----------------------------------------------------------------------------
(* Settling one entry *)

\* A reduction by the item takes an entry that is there.
Wins(item, s) ==
  Comparable(item.rule, s) /\ ~Less(StackPrecedence(item.rule), SymbolPrecedence(s))

\* The candidates that meet an entry: all but the one that fills an empty one.
Winners(first, I, C, s) == {item \in (IF I = {} THEN C \ {first} ELSE C) : Wins(item, s)}

\* entries, of one or no action, are what the actions I that a state begins
\* with and the reductions by the items C come to.
Settled(entries, I, C, s) ==
  \/ C = {} /\ entries = I
  \/ \E first \in C :
       /\ IsFirst(first, C)
       /\ \/ /\ Winners(first, I, C, s) = {}
             /\ entries = (IF I = {} THEN {Reduce(first.rule)} ELSE I)
          \/ \E last : /\ IsLast(last, Winners(first, I, C, s))
                       /\ entries = {Reduce(last.rule)}

LEMMA SettledIsResolved ==
  ASSUME Inv, NEW i \in DOMAIN states, NEW s, NEW entries,
         Settled(entries, Initial(i, s), Candidates(i, s), s)
  PROVE  entries = Resolved(i, s)
<1>. DEFINE I == Initial(i, s)
            C == Candidates(i, s)
<1>1. C \subseteq Item(g)
  BY DEF Candidates, Inv, AutomatonOK
<1>2. Resolved(i, s) = IF C = {} THEN I
                       ELSE IF Winners(FirstItem(C), I, C, s) # {}
                              THEN {Reduce(LastItem(Winners(FirstItem(C), I, C, s)).rule)}
                       ELSE IF I # {} THEN I
                       ELSE {Reduce(FirstItem(C).rule)}
  BY DEF Resolved, Winners, Wins
<1>3. Settled(entries, I, C, s)
  OBVIOUS
<1>. HIDE DEF I, C
<1>4. CASE C = {}
  BY <1>2, <1>3, <1>4 DEF Settled
<1>5. CASE C # {}
  <2>1. PICK first \in C :
          /\ IsFirst(first, C)
          /\ \/ /\ Winners(first, I, C, s) = {}
                /\ entries = (IF I = {} THEN {Reduce(first.rule)} ELSE I)
             \/ \E last : /\ IsLast(last, Winners(first, I, C, s))
                          /\ entries = {Reduce(last.rule)}
    BY <1>3, <1>5 DEF Settled
  <2>2. FirstItem(C) = first
    BY <1>1, <2>1, TheFirst
  <2>3. CASE Winners(first, I, C, s) = {} /\ entries = (IF I = {} THEN {Reduce(first.rule)} ELSE I)
    BY <1>2, <1>5, <2>2, <2>3
  <2>4. ASSUME NEW last, IsLast(last, Winners(first, I, C, s)), entries = {Reduce(last.rule)}
        PROVE  entries = Resolved(i, s)
    <3>1. Winners(first, I, C, s) \in SUBSET Item(g) /\ Winners(first, I, C, s) # {}
      BY <1>1, <2>4 DEF Winners, IsLast
    <3>2. LastItem(Winners(first, I, C, s)) = last
      BY <2>4, <3>1, TheLast
    <3>. QED  BY <1>2, <1>5, <2>2, <2>4, <3>1, <3>2
  <2>. QED  BY <2>1, <2>3, <2>4
<1>. QED  BY <1>4, <1>5

\* One more candidate, after all the others, is settled by what add_reduction()
\* does with it.
LEMMA SettledWithOneMore ==
  ASSUME NEW entries, NEW more, NEW I, NEW C \in SUBSET Item(g), NEW s,
         NEW new \in Item(g), \A item \in C : ItemLess(item, new),
         Settled(entries, I, C, s),
         more = IF entries = {} \/ Wins(new, s) THEN {Reduce(new.rule)} ELSE entries
  PROVE  Settled(more, I, C \cup {new}, s)
<1>. DEFINE D == C \cup {new}
<1>1. new \notin C /\ \A item \in C : ~ItemLess(new, item)
  BY ItemsAreOrdered
<1>4. ~ItemLess(new, new)
  BY ItemsAreOrdered
<1>2. CASE C = {}
  <2>1. entries = I /\ D = {new}
    BY <1>2 DEF Settled
  <2>2. IsFirst(new, D)
    BY <1>4, <2>1 DEF IsFirst
  <2>3. CASE I = {}
    <3>1. Winners(new, I, D, s) = {} /\ more = {Reduce(new.rule)}
      BY <2>1, <2>3 DEF Winners
    <3>. QED  BY <2>2, <2>3, <3>1 DEF Settled
  <2>4. CASE I # {} /\ Wins(new, s)
    <3>1. Winners(new, I, D, s) = {new} /\ more = {Reduce(new.rule)}
      BY <2>1, <2>4 DEF Winners
    <3>2. IsLast(new, Winners(new, I, D, s))
      BY <1>4, <3>1 DEF IsLast
    <3>. QED  BY <2>2, <3>1, <3>2 DEF Settled
  <2>5. CASE I # {} /\ ~Wins(new, s)
    <3>1. Winners(new, I, D, s) = {} /\ more = I
      BY <2>1, <2>5 DEF Winners
    <3>. QED  BY <2>2, <2>5, <3>1 DEF Settled
  <2>. QED  BY <2>3, <2>4, <2>5
<1>3. CASE C # {}
  <2>1. PICK first \in C :
          /\ IsFirst(first, C)
          /\ \/ /\ Winners(first, I, C, s) = {}
                /\ entries = (IF I = {} THEN {Reduce(first.rule)} ELSE I)
             \/ \E last : /\ IsLast(last, Winners(first, I, C, s))
                          /\ entries = {Reduce(last.rule)}
    BY <1>3 DEF Settled
  <2>2. IsFirst(first, D)
    BY <1>1, <2>1 DEF IsFirst
  <2>3. entries # {}
    BY <2>1
  <2>4. CASE Wins(new, s)
    <3>1. Winners(first, I, D, s) = Winners(first, I, C, s) \cup {new} /\ more = {Reduce(new.rule)}
      BY <1>1, <2>4 DEF Winners
    <3>2. IsLast(new, Winners(first, I, D, s))
      <4>1. Winners(first, I, C, s) \subseteq C
        BY DEF Winners
      <4>. QED  BY <1>1, <1>4, <3>1, <4>1 DEF IsLast
    <3>. QED  BY <2>2, <3>1, <3>2 DEF Settled
  <2>5. CASE ~Wins(new, s)
    <3>1. Winners(first, I, D, s) = Winners(first, I, C, s) /\ more = entries
      BY <2>3, <2>5 DEF Winners
    <3>. QED  BY <2>1, <2>2, <3>1 DEF Settled
  <2>. QED  BY <2>4, <2>5
<1>. QED  BY <1>2, <1>3

-----------------------------------------------------------------------------
(* The inductive invariant *)

\* The shift or the accept that has been entered for a state and a symbol.
Begun(i, s) ==
  {Shift(e[3]) : e \in {x \in transitions \ edges : x[1] = i /\ x[2] = s /\ G!IsTerminal(g, s)}} \cup
  {Accept : item \in {x \in states[i] : G!Reads(g, x, s) /\ s = G!EndSymbol}}

\* The candidates that have been tried.
Added(i, s) == {item \in Candidates(i, s) : Tried(i, item.rule, s)}

Entries(i, s) == IF <<i, s>> \in DOMAIN action THEN {action[<<i, s>>]} ELSE {}

SettledAt(i, s) ==
  \A entries, I, C : entries = Entries(i, s) /\ I = Begun(i, s) /\ C = Added(i, s)
                      => Settled(entries, I, C, s)

AsSettled == \A i \in 1 .. current : \A s \in g.terminals \cup {EndSymbol} : SettledAt(i, s)

Taken == FinalItems(current) \ items

\* The items of the current state are taken in their order, and the one that is
\* being added was the last.
TakenInOrder ==
  current > 0 => /\ \A a \in Taken : \A b \in items : ItemLess(a, b)
                 /\ \A a \in Taken : \A b \in Taken : b.rule = rule /\ a # b => ItemLess(a, b)

ResolutionInv == Inv /\ PrecedencesOK /\ TakenInOrder /\ AsSettled

LEMMA InitResolutionInv ==
  ASSUME Init
  PROVE  ResolutionInv
<1>1. Inv /\ current = 0
  BY InitInv DEF Init
<1>2. PrecedencesOK
  <2>1. PICK a \in Automata : g = a.grammar
    BY DEF Init
  <2>2. \A s \in DOMAIN a.grammar.precedence : a.grammar.precedence[s] \in Precedence \ {NoPrecedence}
    BY AutomataAssumption DEF AutomataAssumption
  <2>. QED  BY <2>1, <2>2 DEF PrecedencesOK, Precedence
<1>. QED  BY <1>1, <1>2 DEF ResolutionInv, TakenInOrder, AsSettled

LEMMA TakenInOrderStep ==
  ASSUME Inv, TakenInOrder, [Next]_vars
  PROVE  TakenInOrder'
<1>0. /\ UNCHANGED <<g, states, transitions, lookahead>> /\ current \in 0 .. Len(states)
      /\ states \in Seq(SUBSET Item(g)) /\ FillingOrder
  BY AutomatonUnchanged DEF automatonVars, Inv, TypeOK, AutomatonOK
<1>1. \A i : FinalItems(i)' = FinalItems(i)
  BY <1>0 DEF FinalItems
<1>2. CASE EnterState
  <2>1. current' = current + 1 /\ items' = FinalItems(current + 1)
    BY <1>2 DEF EnterState, FinalItems
  <2>2. Taken' = {}
    BY <1>0, <2>1 DEF Taken, FinalItems
  <2>. QED  BY <2>2 DEF TakenInOrder
<1>3. CASE \E e \in edges : AddTransition(e)
  <2>1. current' = current /\ items' = items /\ rule' = rule
    BY <1>3 DEF AddTransition
  <2>2. Taken' = Taken
    BY <1>1, <2>1 DEF Taken
  <2>. QED  BY <2>1, <2>2 DEF TakenInOrder
<1>4. ASSUME NEW item \in items, TakeItem(item) PROVE TakenInOrder'
  <2>1. /\ current' = current /\ items' = items \ {item} /\ rule' = item.rule /\ IsNext(item)
    BY <1>4 DEF TakeItem
  <2>2. current > 0 /\ current \in DOMAIN states /\ items \subseteq FinalItems(current)
    BY <1>0, <1>4 DEF FillingOrder
  <2>3. FinalItems(current) \subseteq Item(g)
    BY <2>2, FinalItemsType DEF Inv
  <2>4. Taken' = Taken \cup {item}
    BY <1>1, <2>1, <2>2 DEF Taken
  <2>5. \A b \in items' : ItemLess(item, b)
    BY <2>1, <2>2, <2>3, ItemsAreOrdered DEF IsNext
  <2>6. \A b \in Taken : b.rule # item.rule
    <3>1. \A b \in Taken : b \in FinalItems(current) /\ b # item
      BY DEF Taken
    <3>. QED  BY <2>2, <2>3, <3>1, OneFinalItem DEF FinalItems
  <2>. QED  BY <2>1, <2>2, <2>4, <2>5, <2>6 DEF TakenInOrder
<1>5. CASE (\E s \in symbols : AddReduction(s)) \/ UNCHANGED vars
  <2>1. current' = current /\ items' = items /\ rule' = rule
    BY <1>5 DEF AddReduction, vars
  <2>2. Taken' = Taken
    BY <1>1, <2>1 DEF Taken
  <2>. QED  BY <2>1, <2>2 DEF TakenInOrder
<1>. QED  BY <1>2, <1>3, <1>4, <1>5, StepKinds

\* Settled depends on the automaton alone.
LEMMA SettledIsKept ==
  ASSUME UNCHANGED automatonVars, NEW entries, NEW I, NEW C, NEW s
  PROVE  Settled(entries, I, C, s)' <=> Settled(entries, I, C, s)
<1>1. \A item : Wins(item, s)' <=> Wins(item, s)
  <2>. TAKE item
  <2>1. /\ SymbolPrecedence(s)' = SymbolPrecedence(s)
        /\ StackPrecedence(item.rule)' = StackPrecedence(item.rule)
        /\ Comparable(item.rule, s)' <=> Comparable(item.rule, s)
    BY SamePrecedences
  <2>. QED  BY <2>1 DEF Wins, Less
<1>. QED  BY <1>1 DEF Settled, Winners, IsFirst, IsLast

\* What a step leaves alone stays settled.
LEMMA SettledStays ==
  ASSUME UNCHANGED automatonVars, NEW i, NEW s, SettledAt(i, s),
         Entries(i, s)' = Entries(i, s), Begun(i, s)' = Begun(i, s), Added(i, s)' = Added(i, s)
  PROVE  SettledAt(i, s)'
BY SettledIsKept DEF SettledAt

LEMMA CandidatesFixed ==
  ASSUME UNCHANGED automatonVars, NEW i, NEW s
  PROVE  Candidates(i, s)' = Candidates(i, s)
<1>1. UNCHANGED <<g, states, transitions, lookahead>>
  BY DEF automatonVars
<1>2. \A item : /\ G!IsFinal(g, item)' <=> G!IsFinal(g, item)
                /\ SymbolsOf(i, item.rule)' = SymbolsOf(i, item.rule)
  BY <1>1 DEF SymbolsOf, G!IsFinal, G!Rhs
<1>. QED  BY <1>1, <1>2 DEF Candidates

\* The transitions of other states and the accept entry are no matter of edges.
LEMMA BegunFixed ==
  ASSUME UNCHANGED automatonVars, NEW i, NEW s,
         \A e \in transitions : e[1] = i /\ e[2] = s => (e \in edges <=> e \in edges')
  PROVE  Begun(i, s)' = Begun(i, s)
<1>1. UNCHANGED <<g, states, transitions, lookahead>>
  BY DEF automatonVars
<1>2. \A x : G!Reads(g, x, s)' <=> G!Reads(g, x, s)
  BY <1>1 DEF G!Reads, G!IsFinal, G!Rhs, G!ReadSymbol
<1>3. G!IsTerminal(g, s)' <=> G!IsTerminal(g, s)
  BY <1>1 DEF G!IsTerminal
<1>. QED  BY <1>1, <1>2, <1>3 DEF Begun

LEMMA AddedFixed ==
  ASSUME UNCHANGED automatonVars, NEW i, NEW s,
         \A r : Tried(i, r, s)' <=> Tried(i, r, s)
  PROVE  Added(i, s)' = Added(i, s)
<1>1. Candidates(i, s)' = Candidates(i, s)
  BY CandidatesFixed
<1>2. \A item : Tried(i, item.rule, s)' <=> Tried(i, item.rule, s)
  OBVIOUS
<1>. QED  BY <1>1, <1>2 DEF Added

LEMMA SettledOnEntry ==
  ASSUME Inv, AsSettled, EnterState
  PROVE  AsSettled'
<1>0. /\ UNCHANGED automatonVars /\ UNCHANGED <<g, states, transitions, lookahead>>
      /\ current' = current + 1 /\ current \in Nat /\ current + 1 \in DOMAIN states
      /\ edges = {} /\ edges' = {e \in transitions : e[1] = current + 1}
      /\ transitions \subseteq (DOMAIN states) \X (Symbol \ {EndSymbol}) \X (DOMAIN states)
  BY DEF EnterState, automatonVars, Inv, TypeOK, AutomatonOK
<1>1. ASSUME NEW i \in 1 .. current, NEW s \in g.terminals \cup {EndSymbol} PROVE SettledAt(i, s)'
  <2>1. Entries(i, s)' = Entries(i, s)
    <3>1. <<i, s>> # <<current + 1, EndSymbol>>
      BY <1>0
    <3>2. <<i, s>> \in DOMAIN action' <=> <<i, s>> \in DOMAIN action
      BY <3>1 DEF EnterState, Emplaced, With
    <3>3. <<i, s>> \in DOMAIN action => action'[<<i, s>>] = action[<<i, s>>]
      BY <3>1 DEF EnterState, Emplaced, With
    <3>. QED  BY <3>2, <3>3 DEF Entries
  <2>2. Begun(i, s)' = Begun(i, s)
    <3>1. \A e \in transitions : e[1] = i => e \notin edges /\ e \notin edges'
      BY <1>0
    <3>. QED  BY <1>0, <3>1, BegunFixed
  <2>3. Added(i, s)' = Added(i, s)
    BY <1>0, TriedStays, AddedFixed
  <2>4. SettledAt(i, s)
    BY DEF AsSettled
  <2>. QED  BY <1>0, <2>1, <2>2, <2>3, <2>4, SettledStays
<1>2. ASSUME NEW i, i = current + 1, NEW s \in g.terminals \cup {EndSymbol} PROVE SettledAt(i, s)'
  <2>1. Added(i, s)' = {}
    <3>1. \A r : ~Tried(i, r, s)
      BY <1>0, <1>2 DEF Tried
    <3>2. \A r : ~Tried(i, r, s)'
      BY <3>1, TriedStays
    <3>3. \A item : ~Tried(i, item.rule, s)'
      BY <3>2
    <3>. QED  BY <3>3 DEF Added
  <2>. DEFINE Accepts == s = EndSymbol /\ \E item \in states[i] : IsAccepting(g, item)
  <2>2. Begun(i, s)' = IF Accepts THEN {Accept} ELSE {}
    <3>1. {x \in transitions' \ edges' : x[1] = i /\ x[2] = s /\ G!IsTerminal(g, s)'} = {}
      BY <1>0, <1>2
    <3>2. \A x : G!Reads(g, x, s)' <=> Reads(g, x, s)
      BY <1>0 DEF G!Reads, G!IsFinal, G!Rhs, G!ReadSymbol, Reads, IsFinal, Rhs, ReadSymbol
    <3>3. G!EndSymbol = EndSymbol
      BY DEF G!EndSymbol, EndSymbol
    <3>4. Begun(i, s)' = {Accept : item \in {x \in states[i] : Reads(g, x, s) /\ s = EndSymbol}}
      BY <1>0, <3>1, <3>2, <3>3 DEF Begun
    <3>5. CASE Accepts
      <4>1. \E x \in states[i] : Reads(g, x, s) /\ s = EndSymbol
        BY <3>5 DEF IsAccepting
      <4>. QED  BY <3>4, <3>5, <4>1
    <3>6. CASE ~Accepts
      BY <3>4, <3>6 DEF IsAccepting
    <3>. QED  BY <3>5, <3>6
  <2>3. Entries(i, s)' = IF Accepts THEN {Accept} ELSE {}
    <3>1. \A key \in DOMAIN action : key[1] <= current
      BY DEF Inv, NothingInTheWay
    <3>2. <<i, s>> \notin DOMAIN action /\ <<i, EndSymbol>> \notin DOMAIN action
      BY <1>0, <1>2, <3>1
    <3>3. CASE \E item \in states[i] : IsAccepting(g, item)
      <4>1. action' = With(action, <<i, EndSymbol>>, Accept)
        BY <1>2, <3>2, <3>3 DEF EnterState, Emplaced
      <4>2. DOMAIN action' = DOMAIN action \cup {<<i, EndSymbol>>} /\ action'[<<i, EndSymbol>>] = Accept
        BY <4>1 DEF With
      <4>. QED  BY <1>0, <3>2, <3>3, <4>2 DEF Entries
    <3>4. CASE ~\E item \in states[i] : IsAccepting(g, item)
      <4>1. action' = action
        BY <1>2, <3>4 DEF EnterState
      <4>. QED  BY <1>0, <3>2, <3>4, <4>1 DEF Entries
    <3>. QED  BY <3>3, <3>4
  <2>4. \A entries, I, C : C = {} /\ entries = I => Settled(entries, I, C, s)'
    BY DEF Settled
  <2>. QED  BY <1>0, <2>1, <2>2, <2>3, <2>4 DEF SettledAt
<1>3. \A i \in 1 .. current' : i \in 1 .. current \/ i = current + 1
  BY <1>0
<1>. QED  BY <1>0, <1>1, <1>2, <1>3 DEF AsSettled

LEMMA SettledWithTransition ==
  ASSUME Inv, AsSettled, NEW e \in edges, AddTransition(e)
  PROVE  AsSettled'
<1>0. /\ UNCHANGED automatonVars /\ UNCHANGED <<g, states, transitions, lookahead>>
      /\ current' = current /\ edges' = edges \ {e} /\ e \in transitions /\ e[1] = current
  BY TransitionAdded DEF automatonVars
<1>. SUFFICES ASSUME NEW i \in 1 .. current, NEW s \in g.terminals \cup {EndSymbol} PROVE SettledAt(i, s)'
  BY <1>0 DEF AsSettled
<1>1. Added(i, s)' = Added(i, s)
  BY <1>0, TriedStays, AddedFixed
<1>2. SettledAt(i, s)
  BY DEF AsSettled
<1>3. CASE <<i, s>> # <<e[1], e[2]>>
  <2>1. Entries(i, s)' = Entries(i, s)
    <3>1. \A key \in DOMAIN action : key \in DOMAIN action' /\ action'[key] = action[key]
      BY TransitionAdded
    <3>2. \A key \in DOMAIN action' : key \in DOMAIN action \/ key = <<e[1], e[2]>>
      BY TransitionAdded
    <3>. QED  BY <1>3, <3>1, <3>2 DEF Entries
  <2>2. Begun(i, s)' = Begun(i, s)
    BY <1>0, <1>3, BegunFixed
  <2>. QED  BY <1>0, <1>1, <1>2, <2>1, <2>2, SettledStays
<1>4. CASE <<i, s>> = <<e[1], e[2]>>
  <2>0. i = current /\ s = e[2] /\ s \in g.terminals /\ IsTerminal(g, e[2])
    BY <1>0, <1>4, TransitionAdded DEF IsTerminal
  <2>1. Added(i, s) = {}
    <3>1. \A r : ~Tried(i, r, s)
      BY <1>0, <2>0 DEF Tried
    <3>2. \A item : ~Tried(i, item.rule, s)
      BY <3>1
    <3>. QED  BY <3>2 DEF Added
  <2>2. Entries(i, s) = {} /\ Entries(i, s)' = {Shift(e[3])}
    <3>1. <<i, s>> \notin DOMAIN action
      BY <1>4, TransitionAdded
    <3>2. <<i, s>> \in DOMAIN action'
      BY <1>4, <2>0, TransitionAdded
    <3>3. action'[<<i, s>>] = Shift(e[3])
      BY <1>4, <3>1, <3>2, TransitionAdded
    <3>. QED  BY <3>1, <3>2, <3>3 DEF Entries
  <2>3. Begun(i, s) = {}
    BY <1>2, <2>1, <2>2 DEF SettledAt, Settled
  <2>4. Begun(i, s)' = {Shift(e[3])}
    <3>1. \A d \in transitions : d[1] = i /\ d[2] = s => d = e
      BY <1>0, <2>0 DEF Inv, AutomatonOK
    <3>2. {x \in transitions' \ edges' : x[1] = i /\ x[2] = s /\ G!IsTerminal(g, s)'} = {e}
      BY <1>0, <2>0, <3>1 DEF G!IsTerminal
    <3>3. \A x : G!Reads(g, x, s)' <=> G!Reads(g, x, s)
      BY <1>0 DEF G!Reads, G!IsFinal, G!Rhs, G!ReadSymbol
    <3>4. {Accept : item \in {x \in states'[i] : G!Reads(g, x, s)' /\ s = G!EndSymbol}} = {}
      BY <1>0, <2>3, <3>3 DEF Begun
    <3>. QED  BY <3>2, <3>4 DEF Begun
  <2>5. \A entries, I, C : C = {} /\ entries = I => Settled(entries, I, C, s)'
    BY DEF Settled
  <2>. QED  BY <1>1, <2>1, <2>2, <2>4, <2>5 DEF SettledAt
<1>. QED  BY <1>3, <1>4

LEMMA SettledWithReduction ==
  ASSUME Inv, PrecedencesOK, TakenInOrder, AsSettled, NEW t \in symbols, AddReduction(t)
  PROVE  AsSettled'
<1>0. /\ UNCHANGED automatonVars /\ UNCHANGED <<g, states, transitions, lookahead>>
      /\ current' = current /\ edges' = edges /\ items' = items /\ current > 0 /\ current \in DOMAIN states
      /\ rule \in RuleIndex(g)
  BY ReductionAdded DEF automatonVars
<1>. SUFFICES ASSUME NEW i \in 1 .. current, NEW s \in g.terminals \cup {EndSymbol} PROVE SettledAt(i, s)'
  BY <1>0 DEF AsSettled
<1>1. Begun(i, s)' = Begun(i, s)
  BY <1>0, BegunFixed
<1>2. SettledAt(i, s)
  BY DEF AsSettled
<1>3. CASE <<i, s>> # <<current, t>>
  <2>1. Entries(i, s)' = Entries(i, s)
    <3>1. \A key \in DOMAIN action' : key # <<current, t>> => key \in DOMAIN action /\ action'[key] = action[key]
      BY ReductionAdded
    <3>2. DOMAIN action \subseteq DOMAIN action'
      BY ReductionAdded
    <3>. QED  BY <1>3, <3>1, <3>2 DEF Entries
  <2>2. Added(i, s)' = Added(i, s)
    <3>1. \A r : Tried(i, r, s)' <=> Tried(i, r, s)
      BY <1>3, TriedGrows
    <3>. QED  BY <1>0, <3>1, AddedFixed
  <2>. QED  BY <1>0, <1>1, <1>2, <2>1, <2>2, SettledStays
<1>4. CASE <<i, s>> = <<current, t>>
  <2>0. i = current /\ s = t
    BY <1>4
  <2>1. PICK new \in FinalItems(current) : new.rule = rule
    BY DEF Inv, FillingOrder
  <2>2. FinalItems(current) \subseteq Item(g) /\ \A item : G!IsFinal(g, item) <=> IsFinal(g, item)
    BY <1>0, FinalItemsType DEF Inv, G!IsFinal, IsFinal, G!Rhs, Rhs
  <2>3. new \notin items /\ new \in Taken /\ s \in SymbolsOf(i, rule)
    BY <2>0, <2>1, ReductionAdded DEF Inv, FillingOrder, Taken
  <2>4. Added(i, s)' = Added(i, s) \cup {new}
    <3>1. Candidates(i, s)' = Candidates(i, s)
      BY <1>0, CandidatesFixed
    <3>2. \A item : Tried(i, item.rule, s)' <=> Tried(i, item.rule, s) \/ item.rule = rule
      BY <2>0, TriedGrows
    <3>3. \A item \in Candidates(i, s) : item.rule = rule <=> item = new
      BY <2>0, <2>1, <2>2, OneFinalItem DEF Candidates, FinalItems
    <3>4. new \in Candidates(i, s)
      BY <2>0, <2>1, <2>2, <2>3 DEF Candidates, FinalItems
    <3>. QED  BY <3>1, <3>2, <3>3, <3>4 DEF Added
  <2>5. Added(i, s) \subseteq Item(g) /\ \A item \in Added(i, s) : ItemLess(item, new)
    <3>. SUFFICES ASSUME NEW item \in Added(i, s) PROVE item \in Item(g) /\ ItemLess(item, new)
      OBVIOUS
    <3>1. item \in FinalItems(current) /\ Tried(i, item.rule, s)
      BY <2>0, <2>2 DEF Added, Candidates, FinalItems
    <3>2. item \notin items /\ item.rule # rule
      BY <2>0, <3>1 DEF Tried
    <3>. QED  BY <1>0, <2>1, <2>2, <2>3, <3>1, <3>2 DEF TakenInOrder, Taken
  <2>6. Entries(i, s)' = IF Entries(i, s) = {} \/ Wins(new, s) THEN {Reduce(new.rule)} ELSE Entries(i, s)
    <3>. DEFINE key == <<current, t>>
    <3>1. Wins(new, s) <=> Comparable(rule, s) /\ Greater(StackPrecedence(rule), SymbolPrecedence(s))
      BY <1>0, <2>1, OneIsGreater DEF Wins
    <3>2. ~Wins(new, s) <=> ~Comparable(rule, s) \/ Less(StackPrecedence(rule), SymbolPrecedence(s))
      BY <2>1 DEF Wins
    <3>3. CASE PlaceReduction(key)
      <4>1. key \in DOMAIN action' /\ action'[key] = Reduce(rule) /\ key \notin DOMAIN action
        BY <3>3 DEF PlaceReduction, With
      <4>. QED  BY <1>4, <2>1, <4>1 DEF Entries
    <3>4. CASE ReplaceEntry(key)
      <4>1. key \in DOMAIN action' /\ action'[key] = Reduce(rule) /\ Wins(new, s)
        BY <2>0, <3>1, <3>4 DEF ReplaceEntry, With
      <4>. QED  BY <1>4, <2>1, <4>1 DEF Entries
    <3>5. CASE KeepEntry(key) \/ ReportConflict(key)
      <4>1. key \in DOMAIN action /\ action' = action /\ ~Wins(new, s)
        BY <2>0, <3>2, <3>5 DEF KeepEntry, ReportConflict
      <4>. QED  BY <1>4, <4>1 DEF Entries
    <3>. QED  BY <3>3, <3>4, <3>5 DEF AddReduction
  <2>7. ASSUME NEW entries, NEW more, NEW I, NEW C, NEW D, entries = Entries(i, s), I = Begun(i, s), C = Added(i, s),
               more = Entries(i, s)', D = C \cup {new}
        PROVE  Settled(more, I, D, s)'
    <3>1. Settled(entries, I, C, s) /\ C \in SUBSET Item(g) /\ \A item \in C : ItemLess(item, new)
      BY <1>2, <2>5, <2>7 DEF SettledAt
    <3>2. more = IF entries = {} \/ Wins(new, s) THEN {Reduce(new.rule)} ELSE entries
      BY <2>6, <2>7
    <3>3. new \in Item(g)
      BY <2>2
    <3>4. Settled(more, I, D, s)
      BY <2>7, <3>1, <3>2, <3>3, SettledWithOneMore
    <3>. QED  BY <1>0, <3>4, SettledIsKept
  <2>8. ASSUME NEW more, NEW I, NEW D, more = Entries(i, s)', I = Begun(i, s)', D = Added(i, s)'
        PROVE  Settled(more, I, D, s)'
    <3>1. PICK entries, C : entries = Entries(i, s) /\ C = Added(i, s)
      OBVIOUS
    <3>. QED  BY <1>1, <2>4, <2>7, <2>8, <3>1
  <2>. QED  BY <2>8 DEF SettledAt
<1>. QED  BY <1>3, <1>4

LEMMA AsSettledStep ==
  ASSUME ResolutionInv, [Next]_vars
  PROVE  AsSettled'
<1>. USE DEF ResolutionInv
<1>1. CASE (\E item \in items : TakeItem(item)) \/ UNCHANGED vars
  <2>0. UNCHANGED automatonVars /\ action' = action /\ edges' = edges /\ current' = current
        /\ UNCHANGED <<g, states, transitions, lookahead>>
    BY <1>1, AutomatonUnchanged DEF TakeItem, vars, tableVars, automatonVars
  <2>. SUFFICES ASSUME NEW i \in 1 .. current, NEW s \in g.terminals \cup {EndSymbol} PROVE SettledAt(i, s)'
    BY <2>0 DEF AsSettled
  <2>1. \A r : Tried(i, r, s)' <=> Tried(i, r, s)
    <3>1. CASE UNCHANGED vars
      BY <3>1 DEF vars, automatonVars, Tried, SymbolsOf
    <3>. QED  BY <1>1, <3>1, TriedStays
  <2>2. Entries(i, s)' = Entries(i, s)
    BY <2>0 DEF Entries
  <2>3. Begun(i, s)' = Begun(i, s)
    BY <2>0, BegunFixed
  <2>4. Added(i, s)' = Added(i, s)
    BY <2>0, <2>1, AddedFixed
  <2>. QED  BY <2>0, <2>2, <2>3, <2>4, SettledStays DEF AsSettled
<1>. QED  BY <1>1, SettledOnEntry, SettledWithTransition, SettledWithReduction, StepKinds

LEMMA NextResolutionInv ==
  ASSUME ResolutionInv, [Next]_vars
  PROVE  ResolutionInv'
<1>1. PrecedencesOK'
  BY AutomatonUnchanged DEF ResolutionInv, PrecedencesOK, automatonVars
<1>. QED  BY <1>1, NextInv, TakenInOrderStep, AsSettledStep DEF ResolutionInv

\* When the table is filled, everything has begun and every candidate is tried.
LEMMA DoneIsResolved ==
  ASSUME ResolutionInv
  PROVE  TableAsResolved
<1>. SUFFICES ASSUME Done, NEW i \in DOMAIN states, NEW s \in g.terminals \cup {EndSymbol}
              PROVE  Resolved(i, s) = Entries(i, s)
  BY DEF TableAsResolved, Entries
<1>1. Inv /\ edges = {} /\ items = {} /\ symbols = {} /\ i \in 1 .. current
  BY DEF ResolutionInv, Done, Inv, AutomatonOK
<1>2. Begun(i, s) = Initial(i, s)
  BY <1>1 DEF Begun, Initial
<1>3. Added(i, s) = Candidates(i, s)
  <2>1. \A item : G!IsFinal(g, item) <=> IsFinal(g, item)
    BY DEF G!IsFinal, IsFinal, G!Rhs, Rhs
  <2>2. \A item \in Candidates(i, s) : Tried(i, item.rule, s)
    BY <1>1, <2>1 DEF Candidates, Tried
  <2>. QED  BY <2>2 DEF Added
<1>4. PICK entries : entries = Entries(i, s)
  OBVIOUS
<1>5. Settled(entries, Initial(i, s), Candidates(i, s), s)
  BY <1>1, <1>2, <1>3, <1>4 DEF ResolutionInv, AsSettled, SettledAt
<1>. QED  BY <1>1, <1>4, <1>5, SettledIsResolved

\* The table is a function of the automaton and the lookaheads: precedences and
\* the order of the rules settle every entry, and neither the order that the
\* unordered lookaheads come in nor that of the transitions decides anything.
THEOREM TableIsResolution == Spec => []TableAsResolved
<1>1. Spec => []ResolutionInv
  BY InitResolutionInv, NextResolutionInv, PTL DEF Spec
<1>. QED  BY <1>1, DoneIsResolved, PTL

-----------------------------------------------------------------------------
(* What parse() relies on *)

\* The automaton that is being filled, and the tables when they are.
Given == [grammar |-> g, states |-> states, transitions |-> transitions]

Filled(style) == [grammar |-> g, states |-> states, transitions |-> transitions,
                  action |-> action, goto |-> goto, style |-> style]

\* The automaton is one of the given ones; keys are terminals, and every entry of
\* the goto table is a transition and every transition gets its entry.
FillInv ==
  /\ Inv /\ EntriesJustified
  /\ \E a \in Automata : g = a.grammar /\ states = a.states /\ transitions = a.transitions /\ lookahead = a.lookahead
  /\ \A key \in DOMAIN action :
       \/ key[2] \in g.terminals \cup {EndSymbol}
       \/ \E r \in RuleIndex(g) : key[2] \in SymbolsOf(key[1], r)
  /\ \A key \in DOMAIN goto : <<key[1], key[2], goto[key]>> \in transitions
  /\ \A e \in transitions \ edges :
       e[1] <= current /\ ~IsTerminal(g, e[2]) => <<e[1], e[2]>> \in DOMAIN goto

LEMMA InitFillInv ==
  ASSUME Init
  PROVE  FillInv
<1>1. Inv /\ current = 0 /\ DOMAIN action = {} /\ DOMAIN goto = {}
  BY InitInv DEF Init, EmptyTable
<1>2. \E a \in Automata : g = a.grammar /\ states = a.states /\ transitions = a.transitions /\ lookahead = a.lookahead
  BY DEF Init
<1>3. \A e \in transitions : ~(e[1] <= current)
  BY <1>1 DEF Inv, AutomatonOK
<1>. QED  BY <1>1, <1>2, <1>3 DEF FillInv, EntriesJustified

\* What one step does to the goto table.
LEMMA GotoStep ==
  ASSUME Inv, [Next]_vars
  PROVE  /\ \A key \in DOMAIN goto : key \in DOMAIN goto' /\ goto'[key] = goto[key]
         /\ \A key \in DOMAIN goto' :
              \/ key \in DOMAIN goto /\ goto'[key] = goto[key]
              \/ \E e \in edges : AddTransition(e) /\ key = <<e[1], e[2]>> /\ goto'[key] = e[3]
         /\ \A e \in edges : AddTransition(e) /\ ~IsTerminal(g, e[2]) => <<e[1], e[2]>> \in DOMAIN goto'
<1>1. CASE goto' = goto /\ ~\E e \in edges : AddTransition(e) /\ ~IsTerminal(g, e[2])
  BY <1>1
<1>2. ASSUME NEW e \in edges, AddTransition(e), ~IsTerminal(g, e[2])
      PROVE  /\ DOMAIN goto' = DOMAIN goto \cup {<<e[1], e[2]>>} /\ goto'[<<e[1], e[2]>>] = e[3]
             /\ \A key \in DOMAIN goto : goto'[key] = goto[key]
             /\ \A d \in edges : AddTransition(d) => d = e
  <2>. DEFINE new == <<e[1], e[2]>>
              table == Emplaced(goto, new, e[3])
  <2>1. goto' = table /\ new \notin DOMAIN goto /\ edges' = edges \ {e}
    BY <1>2, TransitionAdded
  <2>2. /\ DOMAIN table = DOMAIN goto \cup {new} /\ table[new] = e[3]
        /\ \A key \in DOMAIN goto : table[key] = goto[key]
    BY <2>1, EmplacedEntry
  <2>3. ASSUME NEW d \in edges, AddTransition(d) PROVE d = e
    <3>1. edges' = edges \ {d}
      BY <2>3, TransitionAdded
    <3>. QED  BY <2>1, <3>1
  <2>. QED  BY <2>1, <2>2, <2>3
<1>3. CASE \E e \in edges : AddTransition(e) /\ ~IsTerminal(g, e[2])
  <2>1. PICK e \in edges : AddTransition(e) /\ ~IsTerminal(g, e[2])
    BY <1>3
  <2>. QED  BY <1>2, <2>1
<1>4. CASE ~\E e \in edges : AddTransition(e) /\ ~IsTerminal(g, e[2])
  <2>1. goto' = goto
    BY <1>4, StepKinds, TransitionAdded DEF EnterState, TakeItem, AddReduction, vars, tableVars
  <2>. QED  BY <1>1, <1>4, <2>1
<1>. QED  BY <1>3, <1>4

LEMMA NextFillInv ==
  ASSUME FillInv, [Next]_vars
  PROVE  FillInv'
<1>1. Inv /\ EntriesJustified /\ Inv' /\ EntriesJustified'
  BY NextInv, JustifiedStep DEF FillInv
<1>2. UNCHANGED <<g, states, transitions, lookahead>>
  BY AutomatonUnchanged DEF automatonVars
<1>3. \E a \in Automata : g' = a.grammar /\ states' = a.states /\ transitions' = a.transitions /\ lookahead' = a.lookahead
  BY <1>2 DEF FillInv
<1>4. ASSUME NEW key \in DOMAIN action'
      PROVE  \/ key[2] \in g.terminals \cup {EndSymbol}
             \/ \E r \in RuleIndex(g) : key[2] \in SymbolsOf(key[1], r)
  <2>1. CASE key \in DOMAIN action
    BY <2>1 DEF FillInv
  <2>2. CASE key = <<current + 1, EndSymbol>>
    BY <2>2
  <2>3. ASSUME NEW e \in edges, AddTransition(e), key = <<e[1], e[2]>>, action'[key] = Shift(e[3]), key \notin DOMAIN action
        PROVE  key[2] \in g.terminals
    <3>1. CASE IsTerminal(g, e[2])
      BY <2>3, <3>1 DEF IsTerminal
    <3>2. CASE ~IsTerminal(g, e[2])
      <4>1. action' = action
        BY <1>1, <2>3, <3>2, TransitionAdded
      <4>. QED  BY <2>3, <4>1
    <3>. QED  BY <3>1, <3>2
  <2>4. ASSUME NEW s \in symbols, AddReduction(s), key = <<current, s>>
        PROVE  \E r \in RuleIndex(g) : key[2] \in SymbolsOf(key[1], r)
    <3>1. rule \in RuleIndex(g) /\ s \in SymbolsOf(current, rule)
      BY <1>1, <2>4, ReductionAdded
    <3>. QED  BY <2>4, <3>1
  <2>. QED  BY <1>1, <2>1, <2>2, <2>3, <2>4, ActionStep
<1>5. \A key \in DOMAIN action' :
         \/ key[2] \in g'.terminals \cup {EndSymbol}
         \/ \E r \in RuleIndex(g') : key[2] \in SymbolsOf(key[1], r)'
  <2>1. \A i, r : SymbolsOf(i, r)' = SymbolsOf(i, r)
    BY <1>2 DEF SymbolsOf
  <2>. QED  BY <1>2, <1>4, <2>1
<1>6. ASSUME NEW key \in DOMAIN goto' PROVE <<key[1], key[2], goto'[key]>> \in transitions
  <2>1. CASE key \in DOMAIN goto /\ goto'[key] = goto[key]
    BY <2>1 DEF FillInv
  <2>2. ASSUME NEW e \in edges, AddTransition(e), key = <<e[1], e[2]>>, goto'[key] = e[3]
        PROVE  <<key[1], key[2], goto'[key]>> \in transitions
    <3>1. e \in transitions /\ e = <<e[1], e[2], e[3]>>
      BY <1>1 DEF Inv, FillingOrder, AutomatonOK
    <3>. QED  BY <2>2, <3>1
  <2>. QED  BY <1>1, <2>1, <2>2, GotoStep
<1>7. ASSUME NEW e \in transitions \ edges', e[1] <= current', ~IsTerminal(g, e[2])
      PROVE  <<e[1], e[2]>> \in DOMAIN goto'
  <2>1. CASE e \notin edges /\ e[1] <= current
    <3>1. <<e[1], e[2]>> \in DOMAIN goto
      BY <1>7, <2>1 DEF FillInv
    <3>. QED  BY <1>1, <3>1, GotoStep
  <2>2. CASE e \in edges
    <3>1. AddTransition(e)
      <4>1. \A d \in edges : AddTransition(d) => edges' = edges \ {d}
        BY <1>1, TransitionAdded
      <4>2. CASE EnterState
        BY <2>2, <4>2 DEF EnterState
      <4>3. CASE \E d \in edges : AddTransition(d)
        BY <1>7, <2>2, <4>1, <4>3
      <4>4. CASE (\E item \in items : TakeItem(item)) \/ (\E s \in symbols : AddReduction(s)) \/ UNCHANGED vars
        BY <1>7, <2>2, <4>4 DEF TakeItem, AddReduction, vars
      <4>. QED  BY <4>2, <4>3, <4>4, StepKinds
    <3>. QED  BY <1>1, <1>7, <2>2, <3>1, GotoStep
  <2>3. CASE ~(e[1] <= current)
    <3>1. EnterState
      BY <1>7, <2>3, StepKinds DEF AddTransition, TakeItem, AddReduction, vars
    <3>2. e[1] = current + 1
      <4>1. e[1] \in Nat /\ current \in Nat /\ current' = current + 1
        BY <1>1, <3>1 DEF Inv, AutomatonOK, TypeOK, EnterState
      <4>. QED  BY <1>7, <2>3, <4>1
    <3>3. e \in edges'
      BY <3>1, <3>2 DEF EnterState
    <3>. QED  BY <1>7, <3>3
  <2>. QED  BY <2>1, <2>2, <2>3
<1>. QED
  BY <1>1, <1>2, <1>3, <1>5, <1>6, <1>7 DEF FillInv, IsTerminal

LEMMA SameAutomatonFits ==
  ASSUME NEW t, NEW u, t.grammar = u.grammar, t.states = u.states, t.transitions = u.transitions, AutomatonFits(t)
  PROVE  AutomatonFits(u)
<1>1. \A e : CameOver(t, e) => CameOver(u, e)
  BY DEF CameOver
<1>2. \A i, r : RuleBegins(t, i, r) => RuleBegins(u, i, r)
  BY DEF RuleBegins, Leads, MidruleFits
<1>. QED  BY <1>1, <1>2 DEF AutomatonFits

\* Only the start rule reads @end, as its second symbol.
LEMMA ReadsEnd ==
  ASSUME GrammarFits(g), NEW item \in Item(g), IsAccepting(g, item)
  PROVE  item.rule = StartRule /\ item.pos = 1
<1>1. /\ item.rule \in RuleIndex(g) /\ item.pos \in Nat /\ item.pos <= Len(g.rules[item.rule].rhs)
      /\ item.pos # Len(g.rules[item.rule].rhs) /\ g.rules[item.rule].rhs[item.pos + 1] = EndSymbol
  BY DEF Item, IsAccepting, Reads, IsFinal, ReadSymbol, Rhs
<1>2. g.rules[item.rule].rhs \in Seq(Symbol)
  <2>1. g.rules[item.rule] \in Rule
    BY <1>1 DEF GrammarFits, RuleIndex
  <2>. QED  BY <2>1 DEF Rule
<1>3. item.pos + 1 \in DOMAIN g.rules[item.rule].rhs
  BY <1>1, <1>2
<1>4. item.rule = StartRule
  BY <1>1, <1>3 DEF GrammarFits
<1>5. PICK s \in Symbol \ {EndSymbol} : g.rules[StartRule].rhs = <<s, EndSymbol>>
  BY DEF GrammarFits
<1>6. Len(<<s, EndSymbol>>) = 2 /\ <<s, EndSymbol>>[1] # EndSymbol
  BY <1>5
<1>7. item.pos < 2 /\ item.pos # 0
  BY <1>1, <1>4, <1>5, <1>6
<1>. QED  BY <1>1, <1>4, <1>7

LEMMA EndOfStart ==
  ASSUME GrammarFits(g), NEW item \in Item(g), IsFinal(g, item), item.rule = StartRule
  PROVE  item.pos = 2
<1>1. PICK s \in Symbol \ {EndSymbol} : g.rules[StartRule].rhs = <<s, EndSymbol>>
  BY DEF GrammarFits
<1>2. Len(<<s, EndSymbol>>) = 2
  OBVIOUS
<1>. QED  BY <1>1, <1>2 DEF IsFinal, Rhs

LEMMA EntryFits ==
  ASSUME FillInv, GrammarFits(g), AutomatonFits(Given), NEW key \in DOMAIN action, NEW style
  PROVE  ActionFits(Filled(style), key[1], key[2], action[key])
<1>. DEFINE entry == action[key]
<1>1. Inv /\ AutomatonOK /\ Justified(key, entry) /\ key[1] \in DOMAIN states
  BY JustifiedEntries DEF FillInv, Inv, TypeOK
<1>2. \A item \in states[key[1]] : item \in Item(g)
  BY <1>1 DEF AutomatonOK
<1>3. /\ Filled(style).grammar = g /\ Filled(style).states = states /\ Filled(style).transitions = transitions
  BY DEF Filled
<1>. HIDE DEF entry
<1>4. CASE entry.kind = "Shift" /\ <<key[1], key[2], entry.state>> \in transitions
  <2>1. key[2] # EndSymbol
    BY <1>1, <1>4 DEF AutomatonOK
  <2>. QED  BY <1>3, <1>4, <2>1 DEF ActionFits, entry
<1>5. CASE entry.kind = "Reduce" /\ Tried(key[1], entry.rule, key[2])
  <2>1. PICK item \in states[key[1]] : item.rule = entry.rule /\ IsFinal(g, item)
    BY <1>5 DEF Tried
  <2>2. item \in Item(g) /\ item.rule \in RuleIndex(g)
    BY <1>2 DEF Item
  <2>3. item.rule # StartRule
    <3>1. item.rule = StartRule => item.pos < 2
      BY <1>1 DEF AutomatonFits, Given
    <3>. QED  BY <2>1, <2>2, <3>1, EndOfStart
  <2>. QED  BY <1>3, <1>5, <2>1, <2>2, <2>3 DEF ActionFits, entry
<1>6. CASE /\ entry.kind = "Accept" /\ key[2] = EndSymbol
           /\ \E item \in states[key[1]] : IsAccepting(g, item)
  BY <1>2, <1>3, <1>6, ReadsEnd DEF ActionFits, entry
<1>. QED  BY <1>1, <1>4, <1>5, <1>6 DEF Justified

\* What prepare() hands to calculate().
PreparedAutomata ==
  \A a \in Automata : GrammarFits(a.grammar) /\ AutomatonFits(a)

LEMMA FilledFits ==
  ASSUME PreparedAutomata, FillInv, Done, NEW style \in [RuleIndex(g) -> Styles]
  PROVE  TableOK(Filled(style))
<1>1. PICK a \in Automata : g = a.grammar /\ states = a.states /\ transitions = a.transitions /\ lookahead = a.lookahead
  BY DEF FillInv
<1>2. GrammarFits(g)
  BY <1>1 DEF PreparedAutomata
<1>. DEFINE t == Filled(style)
<1>3. /\ t.grammar = g /\ t.states = states /\ t.transitions = transitions
      /\ t.action = action /\ t.goto = goto /\ t.style = style
  BY DEF Filled
<1>4. AutomatonFits(Given) /\ AutomatonFits(t)
  <2>1. AutomatonFits(a)
    BY DEF PreparedAutomata
  <2>2. Given.grammar = g /\ Given.states = states /\ Given.transitions = transitions
    BY DEF Given
  <2>. HIDE DEF t
  <2>. QED  BY <1>1, <1>3, <2>1, <2>2, SameAutomatonFits
<1>5. TypeOK /\ AutomatonOK /\ current = Len(states) /\ edges = {}
  BY DEF FillInv, Inv, Done
<1>6. DOMAIN action \subseteq (DOMAIN states) \X (g.terminals \cup {EndSymbol})
  <2>1. ASSUME NEW key \in DOMAIN action PROVE key[2] \in g.terminals \cup {EndSymbol}
    <3>1. CASE key[2] \in g.terminals \cup {EndSymbol}
      BY <3>1
    <3>2. ASSUME NEW r \in RuleIndex(g), key[2] \in SymbolsOf(key[1], r)
          PROVE  key[2] \in g.terminals \cup {EndSymbol}
      <4>1. <<key[1], r>> \in DOMAIN lookahead /\ key[2] \in lookahead[<<key[1], r>>]
        BY <3>2 DEF SymbolsOf
      <4>2. a.lookahead \in [DOMAIN a.lookahead -> SUBSET (a.grammar.terminals \cup {EndSymbol})]
        BY AutomataAssumption DEF AutomataAssumption
      <4>. QED  BY <1>1, <4>1, <4>2
    <3>. QED  BY <3>1, <3>2 DEF FillInv
  <2>2. DOMAIN action \subseteq (DOMAIN states) \X Symbol
    BY <1>5 DEF TypeOK
  <2>. QED  BY <2>1, <2>2
<1>7. \A key \in DOMAIN action : ActionFits(t, key[1], key[2], action[key])
  BY <1>2, <1>4, EntryFits
<1>8. \A key \in DOMAIN goto : <<key[1], key[2], goto[key]>> \in transitions
  BY DEF FillInv
<1>9. ASSUME NEW e \in transitions, e[2] \notin g.terminals PROVE <<e[1], e[2]>> \in DOMAIN goto
  <2>1. e[1] <= current
    BY <1>5 DEF AutomatonOK
  <2>. QED  BY <1>5, <1>9, <2>1 DEF FillInv, IsTerminal
<1>. HIDE DEF t
<1>. QED
  BY <1>2, <1>3, <1>4, <1>6, <1>7, <1>8, <1>9 DEF TableOK, t

\* Of an automaton as construct_states() leaves it, calculate() makes tables that
\* parse() can rely on, whatever the actions of the rules do with their arguments.
THEOREM LeavesTable ==
  ASSUME PreparedAutomata
  PROVE  Spec => [](Done => \A style \in [RuleIndex(g) -> Styles] : TableOK(Filled(style)))
<1>1. FillInv => (Done => \A style \in [RuleIndex(g) -> Styles] : TableOK(Filled(style)))
  BY FilledFits
<1>. QED  BY <1>1, InitFillInv, NextFillInv, PTL DEF Spec

=============================================================================
