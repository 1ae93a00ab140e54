----------------------------- MODULE Languages ------------------------------
(***************************************************************************)
(* The language of a grammar up to a length, by definition: the words each *)
(* symbol derives and the prefixes of the words it derives, as least       *)
(* solutions of the rules.  Every nonterminal is taken to derive a word.   *)
(***************************************************************************)
EXTENDS Grammar

\* Words of the one followed by words of the other, up to length n.
Joined(U, V, n) == {w \in {u \o v : u \in U, v \in V} : Len(w) <= n}

Nonterminals(gr) == {gr.rules[r].lhs : r \in RuleIndex(gr)}

OfSymbol(langs, s) == IF s \in DOMAIN langs THEN langs[s] ELSE {<<s>>}

RECURSIVE OfSequence(_, _, _)
OfSequence(langs, rhs, n) ==
  IF rhs = <<>> THEN {<<>>}
  ELSE Joined(OfSymbol(langs, Head(rhs)), OfSequence(langs, Tail(rhs), n), n)

RECURSIVE LeastWords(_, _, _)
LeastWords(gr, n, langs) ==
  LET next == [A \in Nonterminals(gr) |->
                 UNION {OfSequence(langs, gr.rules[r].rhs, n) : r \in RulesOfSymbol(gr, A)}]
  IN  IF next = langs THEN langs ELSE LeastWords(gr, n, next)

\* The words of at most n terminals that each nonterminal derives.
Words(gr, n) == LeastWords(gr, n, [A \in Nonterminals(gr) |-> {}])

PrefixesOfSymbol(prefixes, s) == IF s \in DOMAIN prefixes THEN prefixes[s] ELSE {<<>>, <<s>>}

\* A prefix of a sequence is words of some symbols and a prefix of the next one.
PrefixesOfSequence(words, prefixes, rhs, n) ==
  {<<>>} \cup UNION {Joined(OfSequence(words, SubSeq(rhs, 1, i - 1), n),
                            PrefixesOfSymbol(prefixes, rhs[i]), n) : i \in DOMAIN rhs}

RECURSIVE LeastPrefixes(_, _, _, _)
LeastPrefixes(gr, n, words, prefixes) ==
  LET next == [A \in Nonterminals(gr) |->
                 UNION {PrefixesOfSequence(words, prefixes, gr.rules[r].rhs, n) : r \in RulesOfSymbol(gr, A)}]
  IN  IF next = prefixes THEN prefixes ELSE LeastPrefixes(gr, n, words, next)

\* The prefixes of at most n terminals of the words each nonterminal derives.
SymbolPrefixes(gr, n) == LeastPrefixes(gr, n, Words(gr, n), [A \in Nonterminals(gr) |-> {}])

\* The words and the prefixes of words that parse() has to tell from others,
\* with the @end that the start rule has behind them.
Sentences(gr, n) == Words(gr, n)[StartSymbol]
ViablePrefixes(gr, n) == SymbolPrefixes(gr, n)[StartSymbol]

=============================================================================
