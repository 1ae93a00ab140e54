--------------------------- MODULE GrammarQueries ---------------------------
(***************************************************************************)
(* A program that asks a grammar for empty(), first() and follow() in any  *)
(* order, as Includes, Read and the tests do.  The answers to sequences    *)
(* are not stored, but first() of a sequence stores empty() of its symbols.*)
(***************************************************************************)
EXTENDS GrammarSets

CONSTANT Grammars          \* the grammars that may be asked

ASSUME GrammarsAssumption == \A gr \in Grammars : WellFormed(gr)

VARIABLES
  g,            \* the grammar, fixed
  emptyTable,   \* _empty_table
  firstTable,   \* _first_table
  followTable,  \* _follow_table
  exact         \* the textbook sets of the grammar, to compare with

vars == <<g, emptyTable, firstTable, followTable, exact>>

\* @start has no name that could be asked for.
Asked == Nonterminals(g) \ {StartSymbol}

Init ==
  /\ g \in Grammars
  /\ emptyTable = NothingStored
  /\ firstTable = NoAnswers
  /\ followTable = NoAnswers
  /\ exact = TextbookSets(g)

\* Mutant: the symbols visited on the way are stored as not empty.
AskEmptyAll(s) ==
  LET result == EmptyCalls(g, emptyTable)[s][{}]
  IN  /\ emptyTable' = Store([emptyTable EXCEPT !.no = @ \cup (result.visited \ {s})], s, result.answer)
      /\ UNCHANGED <<g, exact, firstTable, followTable>>

AskEmpty(s) ==
  /\ emptyTable' = Store(emptyTable, s, IsEmpty(g, emptyTable, s))
  /\ UNCHANGED <<g, exact, firstTable, followTable>>

\* The table with the answer to s in it.
StoreSet(table, s, answer) ==
  [t \in DOMAIN table \cup {s} |-> IF t = s THEN answer ELSE table[t]]

AskFirst(s) ==
  LET result == FirstCalls(g, firstTable)[s][{}][emptyTable]
  IN  /\ firstTable' = StoreSet(firstTable, s, result.answer)
      /\ emptyTable' = result.empty
      /\ UNCHANGED <<g, exact, followTable>>

AskFirstOf(seq) ==
  /\ emptyTable' = FirstOfStored(g, firstTable, emptyTable, seq).empty
  /\ UNCHANGED <<g, exact, firstTable, followTable>>

AskFollow(s) ==
  LET result == FollowCalls(g, followTable, firstTable)[s][{}][emptyTable]
  IN  /\ followTable' = StoreSet(followTable, s, result.answer)
      /\ emptyTable' = result.empty
      /\ UNCHANGED <<g, exact, firstTable>>

Next ==
  \/ \E s \in Asked : AskEmpty(s) \/ AskFirst(s) \/ AskFollow(s)
  \/ \E seq \in Tails(g) : AskFirstOf(seq)

Spec == Init /\ [][Next]_vars

-----------------------------------------------------------------------------
(* Properties *)

FirstAnswer(seq) == FirstOfStored(g, firstTable, emptyTable, seq).answer

\* No answer claims too much, whatever was asked before: cutting the recursion
\* off at visited symbols only loses answers and storing one spreads no error.
Sound ==
  /\ emptyTable.yes \subseteq exact.nullable
  /\ \A s \in DOMAIN firstTable : firstTable[s] \subseteq exact.first[s]
  /\ \A s \in DOMAIN followTable : followTable[s] \subseteq exact.follow[s]
  /\ \A seq \in Tails(g) : /\ IsEmptySeq(g, emptyTable, seq) => NullableSeq(exact, seq)
                           /\ FirstAnswer(seq) \subseteq FirstOf(exact, seq)

\* No symbol that derives the empty string is used twice.
Apart == UsedOnce(g, exact.nullable)

\* If no symbol that derives the empty string is used twice, all the answers are
\* those of the definitions, whatever was asked before.
ExactWhenApart ==
  Apart =>
    /\ emptyTable.yes \subseteq exact.nullable /\ emptyTable.no \cap exact.nullable = {}
    /\ \A s \in DOMAIN firstTable : firstTable[s] = exact.first[s]
    /\ \A s \in DOMAIN followTable : followTable[s] = exact.follow[s]
    /\ \A seq \in Tails(g) : /\ IsEmptySeq(g, emptyTable, seq) = NullableSeq(exact, seq)
                             /\ FirstAnswer(seq) = FirstOf(exact, seq)

\* An answer that is stored is the one that is given from then on, although the
\* answers it was made from may be others by now.
AnswersStand ==
  [][/\ emptyTable.yes \subseteq emptyTable'.yes /\ emptyTable.no \subseteq emptyTable'.no
     /\ emptyTable'.yes \cap emptyTable'.no = {}
     /\ \A s \in DOMAIN firstTable : s \in DOMAIN firstTable' /\ firstTable'[s] = firstTable[s]
     /\ \A s \in DOMAIN followTable : s \in DOMAIN followTable' /\ followTable'[s] = followTable[s]]_vars

=============================================================================
