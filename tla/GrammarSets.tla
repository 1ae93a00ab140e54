---------------------------- MODULE GrammarSets ----------------------------
(***************************************************************************)
(* Grammar::empty(), first() and follow() with the tables that cache their *)
(* answers.  Each is a recursion over the rules that carries the set of    *)
(* symbols it has visited and shares it with everything it calls; the      *)
(* public functions start with an empty one and those of a single symbol   *)
(* store their answer.  The private ones read the tables, so an answer     *)
(* depends on the questions asked before.                                  *)
(*                                                                         *)
(* A private function returns a record: the answer, the visited symbols    *)
(* after it and, where public empty() is called inside, the new table of   *)
(* empty().  call is the private function of a symbol, as the loops over   *)
(* rules and right-hand sides see it; it maps a symbol and what the code   *)
(* passes by reference to such a record.  A loop is the function after:    *)
(* what has been found once so many symbols or rules have been seen.       *)
(***************************************************************************)
EXTENDS GrammarReference, SequencesExt

\* _empty_table: the symbols it says yes of and those it says no of.
EmptyTables(gr) == [yes : SUBSET UsedSymbols(gr), no : SUBSET UsedSymbols(gr)]

NothingStored == [yes |-> {}, no |-> {}]

Store(table, s, answer) ==
  IF answer THEN [table EXCEPT !.yes = @ \cup {s}] ELSE [table EXCEPT !.no = @ \cup {s}]

\* Every call that calls another one has visited one more left-hand side.
Depth(gr) == Cardinality(Nonterminals(gr)) + 1

-----------------------------------------------------------------------------
(* empty() *)

\* Mutant: a symbol that was visited before counts as empty.
EmptyNextOptimistic(call, s, before) ==
  IF ~before.answer \/ s \in before.visited THEN before ELSE call[s][before.visited]

\* What the next symbol of a sequence makes of the result so far.
EmptyNext(call, s, before) ==
  IF ~before.answer THEN before
  ELSE IF s \in before.visited THEN [answer |-> FALSE, visited |-> before.visited]
  ELSE call[s][before.visited]

EmptySequence(call, seq, visited) ==
  LET after[k \in 0 .. Len(seq)] ==
        IF k = 0 THEN [answer |-> TRUE, visited |-> visited]
        ELSE EmptyNext(call, seq[k], after[k - 1])
  IN  after[Len(seq)]

\* What the next rule makes of it.
EmptyRule(call, s, rule, before) ==
  IF before.answer \/ rule.lhs # s THEN before
  ELSE EmptySequence(call, rule.rhs, before.visited \cup {s})

EmptyRules(gr, call, s, visited) ==
  LET after[r \in 0 .. Len(gr.rules)] ==
        IF r = 0 THEN [answer |-> FALSE, visited |-> visited]
        ELSE EmptyRule(call, s, gr.rules[r], after[r - 1])
  IN  after[Len(gr.rules)]

EmptySymbol(gr, table, call, s, visited) ==
  IF s \in table.yes \cup table.no THEN [answer |-> s \in table.yes, visited |-> visited]
  ELSE IF ~IsNonterminal(gr, s) THEN [answer |-> FALSE, visited |-> visited]
  ELSE EmptyRules(gr, call, s, visited)

\* The private function, given the one it calls; and the one that is never called.
EmptyCall(gr, table, call) ==
  [s \in UsedSymbols(gr) |-> [visited \in SUBSET UsedSymbols(gr) |->
     EmptySymbol(gr, table, call, s, visited)]]

NoEmptyCall(gr) ==
  [s \in UsedSymbols(gr) |-> [visited \in SUBSET UsedSymbols(gr) |->
     [answer |-> FALSE, visited |-> visited]]]

EmptyCalls(gr, table) ==
  LET calls[n \in 0 .. Depth(gr)] ==
        IF n = 0 THEN NoEmptyCall(gr) ELSE EmptyCall(gr, table, calls[n - 1])
  IN  calls[Depth(gr)]

\* Mutant: the answer that is stored for the symbol itself is not looked up.
IsEmptyAfresh(gr, table, s) == EmptyRules(gr, EmptyCalls(gr, table), s, {}).answer

\* The public functions.
IsEmpty(gr, table, s) == EmptyCalls(gr, table)[s][{}].answer

IsEmptySeq(gr, table, seq) == EmptySequence(EmptyCalls(gr, table), seq, {}).answer

-----------------------------------------------------------------------------
(* first() *)

\* What is known past the next symbol of a sequence, given first() and empty() of it.
FirstAdd(s, before, one, skip) ==
  [answer |-> before.answer \cup one.answer, visited |-> one.visited,
   empty  |-> Store(one.empty, s, skip), through |-> skip]

FirstPast(gr, s, before, one) == FirstAdd(s, before, one, IsEmpty(gr, one.empty, s))

\* Mutant: what follows an empty symbol is not considered.
FirstOfHead(gr, call, s, before) ==
  IF ~before.through THEN before
  ELSE [FirstPast(gr, s, before, call[s][before.visited][before.empty]) EXCEPT !.through = FALSE]

\* What the next symbol of a sequence adds, if all before it can be empty.
FirstNext(gr, call, s, before) ==
  IF ~before.through THEN before
  ELSE FirstPast(gr, s, before, call[s][before.visited][before.empty])

FirstSequence(gr, call, seq, visited, empty) ==
  LET after[k \in 0 .. Len(seq)] ==
        IF k = 0 THEN [answer |-> {}, visited |-> visited, empty |-> empty, through |-> TRUE]
        ELSE FirstNext(gr, call, seq[k], after[k - 1])
  IN  after[Len(seq)]

\* What a rule adds, given first() of its right-hand side.
FirstJoin(before, one) ==
  [answer |-> before.answer \cup one.answer, visited |-> one.visited, empty |-> one.empty]

FirstRule(gr, call, s, rule, before) ==
  IF rule.lhs # s THEN before
  ELSE FirstJoin(before, FirstSequence(gr, call, rule.rhs, before.visited, before.empty))

FirstRules(gr, call, s, visited, empty) ==
  LET after[r \in 0 .. Len(gr.rules)] ==
        IF r = 0 THEN [answer |-> {}, visited |-> visited, empty |-> empty]
        ELSE FirstRule(gr, call, s, gr.rules[r], after[r - 1])
  IN  after[Len(gr.rules)]

FirstSymbol(gr, table, call, s, visited, empty) ==
  IF s \in DOMAIN table THEN [answer |-> table[s], visited |-> visited, empty |-> empty]
  ELSE IF ~IsNonterminal(gr, s) THEN [answer |-> {s}, visited |-> visited, empty |-> empty]
  ELSE IF s \in visited THEN [answer |-> {}, visited |-> visited, empty |-> empty]
  ELSE FirstRules(gr, call, s, visited \cup {s}, empty)

FirstCall(gr, table, call) ==
  [s \in UsedSymbols(gr) |-> [visited \in SUBSET UsedSymbols(gr) |-> [empty \in EmptyTables(gr) |->
     FirstSymbol(gr, table, call, s, visited, empty)]]]

\* The one that is never called, of follow() too.
NoCall(gr) ==
  [s \in UsedSymbols(gr) |-> [visited \in SUBSET UsedSymbols(gr) |-> [empty \in EmptyTables(gr) |->
     [answer |-> {}, visited |-> visited, empty |-> empty]]]]

FirstCalls(gr, table) ==
  LET calls[n \in 0 .. Depth(gr)] ==
        IF n = 0 THEN NoCall(gr) ELSE FirstCall(gr, table, calls[n - 1])
  IN  calls[Depth(gr)]

\* The public function for a sequence, given the answers of first() that are stored.
FirstOfStored(gr, table, empty, seq) == FirstSequence(gr, FirstCalls(gr, table), seq, {}, empty)

\* The same when none is.
FirstOfSeq(gr, empty, seq) == FirstOfStored(gr, NoAnswers, empty, seq)

-----------------------------------------------------------------------------
(* follow() *)

\* empty(tail), or no tail at all.
IsLast(gr, empty, tail) == tail = <<>> \/ IsEmptySeq(gr, empty, tail)

\* What is found with an occurrence, given first() of what stands behind it.
FollowPast(gr, call, rule, tail, before, begin) ==
  LET after == IF IsLast(gr, begin.empty, tail) THEN call[rule.lhs][before.visited][begin.empty]
               ELSE [answer |-> {}, visited |-> before.visited, empty |-> begin.empty]
  IN  [after EXCEPT !.answer = @ \cup before.answer \cup begin.answer]

\* What an occurrence of a symbol in a right-hand side adds to what was there before.
FollowOccurrence(gr, first, call, rule, p, before) ==
  FollowPast(gr, call, rule, Suffix(rule.rhs, p), before,
             FirstOfStored(gr, first, before.empty, Suffix(rule.rhs, p)))

FollowAt(gr, first, call, s, rule, p, before) ==
  IF rule.rhs[p] # s THEN before ELSE FollowOccurrence(gr, first, call, rule, p, before)

FollowInRule(gr, first, call, s, rule, start) ==
  LET after[p \in 0 .. Len(rule.rhs)] ==
        IF p = 0 THEN start ELSE FollowAt(gr, first, call, s, rule, p, after[p - 1])
  IN  after[Len(rule.rhs)]

FollowRules(gr, first, call, s, visited, empty) ==
  LET after[r \in 0 .. Len(gr.rules)] ==
        IF r = 0 THEN [answer |-> {}, visited |-> visited, empty |-> empty]
        ELSE FollowInRule(gr, first, call, s, gr.rules[r], after[r - 1])
  IN  after[Len(gr.rules)]

FollowSymbol(gr, table, first, call, s, visited, empty) ==
  IF s \in DOMAIN table THEN [answer |-> table[s], visited |-> visited, empty |-> empty]
  ELSE IF s \in visited THEN [answer |-> {}, visited |-> visited, empty |-> empty]
  ELSE FollowRules(gr, first, call, s, visited \cup {s}, empty)

FollowCall(gr, table, first, call) ==
  [s \in UsedSymbols(gr) |-> [visited \in SUBSET UsedSymbols(gr) |-> [empty \in EmptyTables(gr) |->
     FollowSymbol(gr, table, first, call, s, visited, empty)]]]

FollowCalls(gr, table, first) ==
  LET calls[n \in 0 .. Depth(gr)] ==
        IF n = 0 THEN NoCall(gr) ELSE FollowCall(gr, table, first, calls[n - 1])
  IN  calls[Depth(gr)]

=============================================================================
