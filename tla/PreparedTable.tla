--------------------------- MODULE PreparedTable ---------------------------
(***************************************************************************)
(* What prepare() leaves for parse(), stage by stage: the grammar the      *)
(* builders make, the automaton construct_states() makes of it, and the    *)
(* tables that are filled from both.                                       *)
(*                                                                         *)
(* A table is a record [grammar, states, transitions, action, goto, style] *)
(* whose keys and actions are those of ParsingTable; style says what the   *)
(* action of each rule does to the vector of arguments it is given:        *)
(*   "None"     there is no action                                         *)
(*   "Read"     the arguments are left as they were                        *)
(*   "Move"     the arguments are moved from                               *)
(*   "ByValue"  the vector itself is moved into the action                 *)
(***************************************************************************)
EXTENDS Grammar

CONSTANT NoMatch           \* the symbol of an input that no token matches

Styles == {"None", "Read", "Move", "ByValue"}

IsMidrule(rule) == rule.midrule # NoMidrule

-----------------------------------------------------------------------------
(* The grammar *)

\* The symbol of a midrule is defined by one empty rule and used in one place,
\* behind as many symbols as it borrows.
MidruleInPlace(gr, r) ==
  IsMidrule(gr.rules[r]) =>
    /\ gr.rules[r].rhs = <<>>
    /\ \A q \in RuleIndex(gr) : \A p \in DOMAIN gr.rules[q].rhs :
         gr.rules[q].rhs[p] = gr.rules[r].lhs => p = gr.rules[r].midrule + 1

\* What the builders leave: names that begin with @ are used by the start rule
\* alone, and no rule defines a terminal.
GrammarFits(gr) ==
  /\ gr.rules \in Seq(Rule) /\ gr.terminals \subseteq Symbol \ {EndSymbol}
  /\ EndSymbol \in Symbol /\ StartSymbol \in Symbol
  /\ StartRule \in RuleIndex(gr)
  /\ \E s \in Symbol \ {EndSymbol} : gr.rules[StartRule].rhs = <<s, EndSymbol>>
  /\ \A r \in RuleIndex(gr) :
       /\ gr.rules[r].lhs \notin gr.terminals \cup {EndSymbol, NoMatch}
       /\ r # StartRule => \A p \in DOMAIN gr.rules[r].rhs : gr.rules[r].rhs[p] # EndSymbol
       /\ MidruleInPlace(gr, r)

-----------------------------------------------------------------------------
(* The automaton *)

\* Every kernel item of a state was stepped to over the symbol of any transition
\* that leads there.
CameOver(t, e) ==
  \A item \in t.states[e[3]] :
    item.pos > 0 => /\ [item EXCEPT !.pos = @ - 1] \in t.states[e[1]]
                    /\ Rhs(t.grammar, item)[item.pos] = e[2]

Leads(t, i, s) == \E e \in t.transitions : e[1] = i /\ e[2] = s

\* A midrule borrows what the rule it is in the middle of has read.
MidruleFits(t, r, i) ==
  IsMidrule(t.grammar.rules[r]) =>
    t.grammar.rules[r].rhs = <<>> /\ \E item \in t.states[i] : item.pos = t.grammar.rules[r].midrule

\* A rule is begun where its left-hand side leads on.
RuleBegins(t, i, r) ==
  NewItem(r) \in t.states[i] =>
    IF r = StartRule THEN i = 1
    ELSE Leads(t, i, t.grammar.rules[r].lhs) /\ MidruleFits(t, r, i)

\* What construct_states() leaves.
AutomatonFits(t) ==
  /\ t.states \in Seq(SUBSET Item(t.grammar)) /\ t.states # <<>>
  /\ \A item \in t.states[1] : item.pos = 0
  /\ t.transitions \subseteq (DOMAIN t.states) \X (Symbol \ {EndSymbol}) \X (DOMAIN t.states)
  /\ \A d, e \in t.transitions : d[1] = e[1] /\ d[2] = e[2] => d = e
  /\ \A e \in t.transitions : e[3] # 1 /\ CameOver(t, e)
  /\ \A i \in DOMAIN t.states :
       /\ \A r \in RuleIndex(t.grammar) : RuleBegins(t, i, r)
       /\ \A item \in t.states[i] : item.rule = StartRule => item.pos < 2

-----------------------------------------------------------------------------
(* The tables *)

\* What an entry of the action table is there for.
ActionFits(t, i, s, action) ==
  \/ action.kind = "Shift" /\ s # EndSymbol /\ <<i, s, action.state>> \in t.transitions
  \/ /\ action.kind = "Reduce" /\ action.rule \in RuleIndex(t.grammar) \ {StartRule}
     /\ \E item \in t.states[i] : item.rule = action.rule /\ IsFinal(t.grammar, item)
  \/ /\ action.kind = "Accept" /\ s = EndSymbol
     /\ \E item \in t.states[i] : item.rule = StartRule /\ item.pos = 1

\* What prepare() leaves, whatever the conflicts were settled for.
TableOK(t) ==
  /\ GrammarFits(t.grammar)
  /\ AutomatonFits(t)
  /\ DOMAIN t.action \subseteq (DOMAIN t.states) \X (t.grammar.terminals \cup {EndSymbol})
  /\ \A key \in DOMAIN t.action : ActionFits(t, key[1], key[2], t.action[key])
  /\ \A key \in DOMAIN t.goto : <<key[1], key[2], t.goto[key]>> \in t.transitions
  /\ \A e \in t.transitions : e[2] \notin t.grammar.terminals => <<e[1], e[2]>> \in DOMAIN t.goto
  /\ t.style \in [RuleIndex(t.grammar) -> Styles]

=============================================================================
