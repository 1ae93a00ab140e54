----------------------------- MODULE MCAutomata -----------------------------
(***************************************************************************)
(* Automata with LALR(1) lookaheads, and the tables they make, from        *)
(* grammars without the generator's own phases, which other runs check.    *)
(***************************************************************************)
EXTENDS MCGrammars

LALRReference == INSTANCE LALR

RECURSIVE Closure(_, _)
Closure(gr, S) ==
  LET next == S \cup UNION {Predicted(gr, item) : item \in S}
  IN  IF next = S THEN S ELSE Closure(gr, next)

\* The states and transitions once those from state i on are followed.
RECURSIVE Explore(_, _, _, _)
Explore(gr, sts, trans, i) ==
  IF i > Len(sts) THEN [states |-> sts, transitions |-> trans]
  ELSE LET syms    == SelectSeq(gr.symbols, LAMBDA s : s \in NextSymbols(gr, sts[i]))
           To(s)   == Closure(gr, Goto(gr, sts[i], s))
           all     == FoldLeft(LAMBDA acc, s : IF To(s) \in ToSet(acc) THEN acc ELSE Append(acc, To(s)), sts, syms)
           At(S)   == CHOOSE k \in DOMAIN all : all[k] = S
       IN  Explore(gr, all, trans \cup {<<i, s, At(To(s))>> : s \in ToSet(syms)}, i + 1)

AutomatonOf(gr) ==
  LET found == Explore(gr, <<Closure(gr, {NewItem(StartRule)})>>, {}, 1)
  IN  [grammar |-> gr, states |-> found.states, transitions |-> found.transitions,
       lookahead |-> LALRReference!LALRLookaheads(gr, found.states, found.transitions)]

\* The table of an automaton by the rules that settle its conflicts.
TableModule(a) == INSTANCE Resolution WITH
  g <- a.grammar, states <- a.states, transitions <- a.transitions, lookahead <- a.lookahead

\* The function, with its values computed once.
Tabulated(f) == f @@ <<>>

Keys(a) == (DOMAIN a.states) \X (a.grammar.terminals \cup {EndSymbol})

\* The function that picks one element of every set that is not empty.
Picked(f) == [key \in {k \in DOMAIN f : f[k] # {}} |-> CHOOSE x \in f[key] : TRUE]

ActionTable(a) == Picked([key \in Keys(a) |-> TableModule(a)!Resolved(key[1], key[2])])

GotoTable(a) ==
  Picked([key \in (DOMAIN a.states) \X {s \in ToSet(a.grammar.symbols) : IsNonterminal(a.grammar, s)} |->
            {e[3] : e \in {x \in a.transitions : <<x[1], x[2]>> = key}}])

\* No state has two actions for one symbol.
ConflictFree(a) ==
  \A key \in Keys(a) :
    Cardinality(TableModule(a)!Candidates(key[1], key[2])) + Cardinality(TableModule(a)!Initial(key[1], key[2])) <= 1

\* The parser of an automaton, prepared; the actions of its rules and its midrules
\* treat their arguments as given.
ParserOf(a, rule, midrule) ==
  [grammar |-> a.grammar, states |-> a.states, transitions |-> a.transitions,
   action |-> Tabulated(ActionTable(a)), goto |-> Tabulated(GotoTable(a)), exact |-> ConflictFree(a),
   style |-> [r \in DOMAIN a.grammar.rules |-> IF a.grammar.rules[r].midrule = NoMidrule THEN rule ELSE midrule]]

\* The parsers of declarations <<declaration, rule, midrule>>.
ParsersOf(declared) ==
  [k \in DOMAIN declared |-> ParserOf(AutomatonOf(GrammarOf(declared[k][1])), declared[k][2], declared[k][3])]

=============================================================================
