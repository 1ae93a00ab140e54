---------------------------- MODULE MCAutomaton ----------------------------
(***************************************************************************)
(* The automata of the grammars of the parser tests and of one more.      *)
(***************************************************************************)
EXTENDS Automaton, MCGrammars

MCGrammarSet ==
  GrammarsOf({RepeatingAs, SameNumberOfAsAndBs, LalrButNotLrNorNqlalr, Precedences,
   Conflicts1, Conflicts2, Conflicts3, IndirectLeftRecursion, EndOrLater,
   MidruleActions, PartOfKernel})

MCSymbol == UNION {ToSet(gr.symbols) : gr \in MCGrammarSet}

=============================================================================
