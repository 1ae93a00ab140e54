---------------------------- MODULE MCLookaheads ----------------------------
(***************************************************************************)
(* Grammars for the relations and operations: those of the parser tests,   *)
(* three shapes on which the walks differ from the definitions, and two    *)
(* families of small grammars.                                             *)
(***************************************************************************)
EXTENDS Lookaheads, MCGrammars

\* Rules that loop, share prefixes and end with symbols that can be empty.
Family ==
  SmallGrammars({<<"a", "A">>, <<"a", "B">>}, {<<>>, <<"a", "a", "B">>}) \cup
  SmallGrammars({<<"A", "B">>, <<"b">>}, {<<>>, <<"A", "b">>}) \cup
  SmallGrammars({<<"a", "A">>, <<"A", "B">>, <<"b">>}, {<<>>, <<"a", "B">>})

MCGrammarSet ==
  Family \cup
  GrammarsOf({RepeatingAs, SameNumberOfAsAndBs, LalrButNotLrNorNqlalr, TwoOperators,
   Conflicts1, Conflicts2, Conflicts3, IndirectLeftRecursion, EndOrLater, MidruleActions,
   NullableTwice, LoopingPrefix, MiddleOfRule})

OnlyMiddleOfRule  == GrammarsOf({MiddleOfRule})
OnlyLoopOfIncludes == GrammarsOf({LoopOfIncludes})
OnlyNullableTwice == GrammarsOf({NullableTwice})

MCSymbol == UNION {ToSet(gr.symbols) : gr \in MCGrammarSet}

MCNode ==
  (1 .. 16) \X (MCSymbol \ UNION {gr.terminals \cup {StartSymbol, EndSymbol} : gr \in MCGrammarSet})

\* They are grammars as the builders leave them.
Prepared == INSTANCE PreparedTable WITH NoMatch <- MCNoSymbol

ASSUME MCGrammarsFit == \A gr \in MCGrammarSet : Prepared!GrammarFits(gr)

=============================================================================
