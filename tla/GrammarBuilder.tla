--------------------------- MODULE GrammarBuilder ---------------------------
(***************************************************************************)
(* How a grammar is built from the user's declarations: Grammar::add_symbol*)
(* and add_rule, TokenBuilder::done() and RuleBuilder::done().             *)
(*                                                                         *)
(* A declaration is a record [start, tokens, rules]:                       *)
(*   start   the name given to set_start_symbol(), called before prepare() *)
(*   tokens  one record [symbol, precedence] per token builder, symbol     *)
(*           being NoSymbol for a token that is only skipped               *)
(*   rules   one record [lhs, productions] per rule builder; a production  *)
(*           is a record [parts, precedence] whose parts are the sequences *)
(*           of names between its actions (one more part than it has       *)
(*           midrule actions)                                              *)
(***************************************************************************)
EXTENDS Grammar, SequencesExt

CONSTANTS
  NoSymbol,                \* the empty symbol name of a token builder
  MidruleName(_, _, _)     \* "_<lhs>#<production>.<part>"

EmptyGrammar ==
  [symbols |-> <<StartSymbol, EndSymbol>>, terminals |-> {},
   rules |-> <<>>, precedence |-> [s \in {} |-> NoPrecedence]]

\* The kind of a symbol is the one it was first added with.
AddSymbol(gr, kind, name) ==
  IF name \in ToSet(gr.symbols)
    THEN gr
    ELSE [gr EXCEPT !.symbols = Append(@, name),
                    !.terminals = IF kind = "Terminal" THEN @ \cup {name} ELSE @]

AddRule(gr, lhs, rhs, precedence, midrule) ==
  [gr EXCEPT !.rules = Append(@, [lhs |-> lhs, rhs |-> rhs,
                                  precedence |-> precedence, midrule |-> midrule])]

SetStartSymbol(gr, name) ==
  AddRule(AddSymbol(gr, "Nonterminal", name),
          StartSymbol, <<name, EndSymbol>>, NoPrecedence, NoMidrule)

\* A later token with the same symbol overwrites its precedence.
SetPrecedence(gr, name, precedence) ==
  [gr EXCEPT !.precedence = (name :> precedence) @@ @]

TokenDone(gr, token) ==
  IF token.symbol = NoSymbol
    THEN gr
    ELSE LET added == AddSymbol(gr, "Terminal", token.symbol)
         IN  IF token.precedence = NoPrecedence
               THEN added
               ELSE SetPrecedence(added, token.symbol, token.precedence)

AddNonterminals(gr, names) ==
  FoldLeft(LAMBDA acc, name : AddSymbol(acc, "Nonterminal", name), gr, names)

\* Part i of production n of a rule builder, midrules counted from 0; the
\* symbols of the parts before it are already in rhs.
PartDone(gr, lhs, n, production, i, rhs) ==
  LET named == AddNonterminals(gr, production.parts[i])
      mid   == MidruleName(lhs, n - 1, i - 1)
  IN  IF i = Len(production.parts)
        THEN AddRule(named, lhs, rhs, production.precedence, NoMidrule)
        ELSE AddRule(AddSymbol(named, "Nonterminal", mid),
                     mid, <<>>, NoPrecedence, Len(rhs))

\* Right-hand side up to part i, with the midrule symbols of the parts before.
PartialRhs(lhs, n, parts, i) ==
  FlattenSeq([k \in 1 .. i |->
                IF k = 1 THEN parts[k]
                ELSE <<MidruleName(lhs, n - 1, k - 2)>> \o parts[k]])

ProductionDone(gr, lhs, n, production) ==
  FoldLeft(LAMBDA acc, i :
             PartDone(acc, lhs, n, production, i,
                      PartialRhs(lhs, n, production.parts, i)),
           gr, [i \in 1 .. Len(production.parts) |-> i])

RuleDone(gr, rule) ==
  IF rule.productions = <<>>
    THEN gr
    ELSE FoldLeft(LAMBDA acc, n :
                    ProductionDone(acc, rule.lhs, n, rule.productions[n]),
                  AddSymbol(gr, "Nonterminal", rule.lhs),
                  [n \in 1 .. Len(rule.productions) |-> n])

\* What prepare() leaves in the grammar.
GrammarOf(d) ==
  FoldLeft(RuleDone, FoldLeft(TokenDone, SetStartSymbol(EmptyGrammar, d.start), d.tokens),
           d.rules)

=============================================================================
