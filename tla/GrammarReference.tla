-------------------------- MODULE GrammarReference --------------------------
(***************************************************************************)
(* The textbook sets of a context-free grammar as least solutions of their *)
(* equations: which symbols derive the empty string, and which terminals   *)
(* begin or follow what a symbol derives.  Grammar::empty(), first() and   *)
(* follow() are meant to compute them.                                     *)
(***************************************************************************)
EXTENDS Grammar

Nonterminals(gr) == {gr.rules[r].lhs : r \in RuleIndex(gr)}

TerminalsAndEnd(gr) == gr.terminals \cup {EndSymbol}

\* No rule defines a terminal.
DefinesNoTerminal(gr) == Nonterminals(gr) \cap TerminalsAndEnd(gr) = {}

Suffix(seq, p) == SubSeq(seq, p + 1, Len(seq))

\* What stands behind a symbol of a right-hand side.
Tails(gr) ==
  UNION {{Suffix(gr.rules[r].rhs, p) : p \in DOMAIN gr.rules[r].rhs} : r \in RuleIndex(gr)}

\* The symbols of the rules, those that no rule defines too.
UsedSymbols(gr) ==
  Nonterminals(gr) \cup TerminalsAndEnd(gr) \cup
  UNION {{gr.rules[r].rhs[p] : p \in DOMAIN gr.rules[r].rhs} : r \in RuleIndex(gr)}

AllIn(seq, S) == \A p \in DOMAIN seq : seq[p] \in S

\* No symbol of S stands in two places of right-hand sides.
UsedOnce(gr, S) ==
  \A r, q \in RuleIndex(gr) : \A p \in DOMAIN gr.rules[r].rhs, o \in DOMAIN gr.rules[q].rhs :
    gr.rules[r].rhs[p] \in S /\ gr.rules[r].rhs[p] = gr.rules[q].rhs[o] => r = q /\ p = o

\* The symbols in every set of nonterminals closed under the grammar's rules.
Least(gr, IsClosed(_)) ==
  {s \in Nonterminals(gr) : \A S \in SUBSET Nonterminals(gr) : IsClosed(S) => s \in S}

Nullable(gr) ==
  Least(gr, LAMBDA S : \A r \in RuleIndex(gr) :
                         AllIn(gr.rules[r].rhs, S) => gr.rules[r].lhs \in S)

\* What begins seq up to symbols that derive the empty string is in S.
Begins(nullable, seq, S) ==
  \E p \in DOMAIN seq : seq[p] \in S /\ \A q \in 1 .. p - 1 : seq[q] \in nullable

\* The symbols that derive something that begins with t.
Beginning(gr, nullable, t) ==
  {t} \cup Least(gr, LAMBDA S : \A r \in RuleIndex(gr) :
                       Begins(nullable, gr.rules[r].rhs, S \cup {t}) => gr.rules[r].lhs \in S)

\* The nonterminals that t follows in something the start symbol derives, given
\* the symbols whose strings it begins.
Followed(gr, nullable, beginning) ==
  Least(gr, LAMBDA S :
    \A r \in RuleIndex(gr) : \A p \in DOMAIN gr.rules[r].rhs :
      LET tail == Suffix(gr.rules[r].rhs, p)
      IN  /\ gr.rules[r].rhs[p] \in Nonterminals(gr)
          /\ \/ Begins(nullable, tail, beginning)
             \/ AllIn(tail, nullable) /\ gr.rules[r].lhs \in S
          => gr.rules[r].rhs[p] \in S)

\* The sets of a grammar together: the terminals that begin and follow each
\* symbol and the symbols that derive the empty string.
TextbookSets(gr) ==
  LET nullable  == Nullable(gr)
      beginning == [t \in TerminalsAndEnd(gr) |-> Beginning(gr, nullable, t)]
      followed  == [t \in TerminalsAndEnd(gr) |-> Followed(gr, nullable, beginning[t])]
  IN  [nullable |-> nullable,
       first    |-> [s \in UsedSymbols(gr) |->
                       {t \in TerminalsAndEnd(gr) : s \in beginning[t]}],
       follow   |-> [s \in Nonterminals(gr) |->
                       {t \in TerminalsAndEnd(gr) : s \in followed[t]}]]

NullableSeq(sets, seq) == AllIn(seq, sets.nullable)

\* The terminals that begin what a sequence derives.
FirstOf(sets, seq) ==
  UNION {sets.first[seq[p]] : p \in {q \in DOMAIN seq :
           \A k \in 1 .. q - 1 : seq[k] \in sets.nullable}}

=============================================================================
