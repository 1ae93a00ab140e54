------------------------------ MODULE Grammar ------------------------------
(***************************************************************************)
(* The context-free grammar a pog parser is generated from, and the LR(0)  *)
(* items over its rules: what Grammar, Rule, Symbol and Item keep once     *)
(* prepare() has run every token and rule builder.                         *)
(*                                                                         *)
(* A grammar g is a record:                                                *)
(*   g.symbols    the symbols in the order of their indices                *)
(*   g.terminals  the symbols of kind Terminal                             *)
(*   g.rules      the rules in the order of their indices (from 1 here,    *)
(*                from 0 in the code), each with its lhs, its rhs, its     *)
(*                precedence and its midrule size                          *)
(*   g.precedence the precedence of each symbol                            *)
(* EndSymbol is the only symbol of kind End; every other symbol is a       *)
(* nonterminal.  set_start_symbol() adds rule "@start -> S @end" before    *)
(* any builder runs, so the start rule is always the first one.            *)
(*                                                                         *)
(* An item is a record [rule, pos]: a rule index and a read position.      *)
(***************************************************************************)
EXTENDS Integers, Sequences, FiniteSets

CONSTANT Symbol            \* names of symbols of any grammar

StartSymbol == "@start"
EndSymbol   == "@end"
StartRule   == 1

NoPrecedence == [level |-> -1, assoc |-> "None"]
Precedence   == [level : Nat, assoc : {"Left", "Right"}] \cup {NoPrecedence}
NoMidrule    == -1

Rule == [lhs : Symbol, rhs : Seq(Symbol), precedence : Precedence,
         midrule : Nat \cup {NoMidrule}]

IsTerminal(g, s)    == s \in g.terminals
IsNonterminal(g, s) == s # EndSymbol /\ s \notin g.terminals

RuleIndex(g) == 1 .. Len(g.rules)

\* What the builders guarantee of every grammar that reaches the generator.
\* Names that begin with @ are reserved, so no rule but the first uses them.
WellFormed(g) ==
  /\ g.rules \in Seq(Rule)
  /\ g.rules # <<>>
  /\ \A r \in DOMAIN g.rules :
        StartSymbol \notin {g.rules[r].rhs[p] : p \in DOMAIN g.rules[r].rhs}
  /\ g.rules[StartRule].lhs = StartSymbol
  /\ \E s \in Symbol \ {EndSymbol} : g.rules[StartRule].rhs = <<s, EndSymbol>>

RulesOfSymbol(g, s) == {r \in RuleIndex(g) : g.rules[r].lhs = s}

\* Symbols are ordered by the index they got when they were added.
SymbolLess(g, s, t) ==
  \E i, j \in DOMAIN g.symbols : g.symbols[i] = s /\ g.symbols[j] = t /\ i < j

\* The tables of answers of empty(), first() and follow() before anything is asked.
NoAnswers == [s \in {} |-> {}]

-----------------------------------------------------------------------------
(* Items *)

Rhs(g, item) == g.rules[item.rule].rhs

Item(g) == {item \in [rule : RuleIndex(g), pos : Nat] :
              item.pos <= Len(Rhs(g, item))}

IsFinal(g, item)     == item.pos = Len(Rhs(g, item))
IsKernel(item)       == item.pos > 0 \/ item.rule = StartRule
ReadSymbol(g, item)  == Rhs(g, item)[item.pos + 1]
Reads(g, item, s)    == ~IsFinal(g, item) /\ ReadSymbol(g, item) = s

NewItem(r) == [rule |-> r, pos |-> 0]
Step(item) == [item EXCEPT !.pos = @ + 1]

IsAccepting(g, item) == Reads(g, item, EndSymbol)

\* An item is ordered after the kernel items, then by rule and read position.
ItemLess(a, b) ==
  \/ IsKernel(a) /\ ~IsKernel(b)
  \/ /\ IsKernel(a) = IsKernel(b)
     /\ a.rule < b.rule \/ (a.rule = b.rule /\ a.pos < b.pos)

-----------------------------------------------------------------------------
(* Sets of items *)

Kernel(items) == {item \in items : IsKernel(item)}

\* The new items that visiting an item adds to a set: those of its next symbol.
Predicted(g, item) ==
  {NewItem(r) : r \in {q \in RuleIndex(g) : Reads(g, item, g.rules[q].lhs)}}

\* The items of a set that read a symbol, stepped over it.
Goto(g, items, s) == {Step(item) : item \in {i \in items : Reads(g, i, s)}}

\* Final items read nothing and @end is never shifted.
NextSymbols(g, items) ==
  {ReadSymbol(g, i) : i \in {j \in items : ~IsFinal(g, j)}} \ {EndSymbol}

Closed(g, items) == \A item \in items : Predicted(g, item) \subseteq items

\* items is the least closed set that contains kernel.
IsClosureOf(g, items, kernel) ==
  /\ kernel \subseteq items
  /\ Closed(g, items)
  /\ \A S \in SUBSET items : kernel \subseteq S /\ Closed(g, S) => S = items

=============================================================================
