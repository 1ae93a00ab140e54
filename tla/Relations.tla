----------------------------- MODULE Relations -----------------------------
(***************************************************************************)
(* Includes::calculate() and Lookback::calculate(), which prepare() runs   *)
(* after construct_states().  Both visit every item of every state and     *)
(* walk back through the automaton over the symbols before its read        *)
(* position.  The walk is a breadth-first search whose visited set holds   *)
(* states alone, without the read position they were reached at.           *)
(*                                                                         *)
(* A pair <<i, s>> is StateAndSymbol, <<i, r>> is StateAndRule; a relation *)
(* maps its keys to sets of pairs.                                         *)
(***************************************************************************)
EXTENDS Automaton, GrammarSets

VARIABLES
  phase,       \* the step of prepare() in progress
  sources,     \* the items, with their states, calculate() has still to visit
  source,      \* the one it walks back from
  queue,       \* to_process: states and read positions in the rule of source
  visited,     \* visited_states
  includes,    \* _relation of Includes
  lookback,    \* _relation of Lookback
  emptyTable   \* _empty_table of the grammar

walkVars      == <<source, queue, visited>>
relationVars  == <<includes, lookback, emptyTable>>
relationsVars == <<vars, phase, sources, walkVars, relationVars>>

NoRelation == [key \in {} |-> {}]

Pairs(relation, key) == IF key \in DOMAIN relation THEN relation[key] ELSE {}

\* _relation[key] is extended, and is there from now on.
Relate(relation, key, pairs) ==
  [k \in DOMAIN relation \cup {key} |->
     IF k = key THEN Pairs(relation, key) \cup pairs ELSE relation[k]]

SourceLess(x, y) == x[1] < y[1] \/ (x[1] = y[1] /\ ItemLess(x[2], y[2]))

\* The items of the states that satisfy a condition.
ItemsThat(Holds(_)) ==
  UNION {{<<i, item>> : item \in {x \in states[i] : Holds(x)}} : i \in DOMAIN states}

\* The loops visit them in order.
IsNextSource(src) == src \in sources /\ \A other \in sources : ~SourceLess(other, src)

ReadsNonterminal(item) == ~IsFinal(g, item) /\ IsNonterminal(g, ReadSymbol(g, item))
Rest(item)             == Suffix(Rhs(g, item), item.pos + 1)

RelInit ==
  /\ Init
  /\ phase = "states"
  /\ sources = {}
  /\ source = <<1, NewItem(StartRule)>>
  /\ queue = <<>>
  /\ visited = {}
  /\ includes = NoRelation
  /\ lookback = NoRelation
  /\ emptyTable = NothingStored

ConstructStates ==
  /\ phase = "states"
  /\ ~Done
  /\ Next
  /\ UNCHANGED <<phase, sources, walkVars, relationVars>>

-----------------------------------------------------------------------------
(* The walk back *)

\* get_back_transitions()
Back(i, s) == {e[1] : e \in {t \in transitions : t[2] = s /\ t[3] = i}}

\* Mutant: the states visited by the walk before stay visited.
StartWalkAgain(src) ==
  /\ source' = src
  /\ queue' = <<[state |-> src[1], pos |-> src[2].pos]>>
  /\ UNCHANGED visited

StartWalk(src) ==
  /\ source' = src
  /\ queue' = <<[state |-> src[1], pos |-> src[2].pos]>>
  /\ visited' = {}

InOrder(S) == CHOOSE seq \in SetToSeqs(S) : \A m, n \in DOMAIN seq : m < n => seq[m] < seq[n]

\* The states before the one at the front of the queue that the walk has not
\* visited join the queue, one read position further to the left.
StepBackFrom(at) ==
  LET new == InOrder(Back(at.state, Rhs(g, source[2])[at.pos]) \ visited)
  IN  /\ queue' = Tail(queue) \o [k \in DOMAIN new |-> [state |-> new[k], pos |-> at.pos - 1]]
      /\ visited' = visited \cup ToSet(new)

LhsOf(src) == g.rules[src[2].rule].lhs

-----------------------------------------------------------------------------
(* Includes::calculate() *)

BeginIncludes ==
  /\ phase = "states" /\ Done
  /\ phase' = "includes"
  /\ sources' = ItemsThat(ReadsNonterminal)
  /\ UNCHANGED <<vars, walkVars, relationVars>>

\* Mutant: the rest of the right-hand side is not looked at.
RestIsAlwaysEmpty(item) == TRUE

RestIsEmpty(item) == Rest(item) = <<>> \/ IsEmptySeq(g, emptyTable, Rest(item))

SourceKey(src) == <<src[1], ReadSymbol(g, src[2])>>

\* Every item that reads a nonterminal makes a key; only those whose rest can be
\* empty are walked back from.
VisitInclude(src) ==
  /\ phase = "includes" /\ queue = <<>> /\ IsNextSource(src)
  /\ includes' = Relate(includes, SourceKey(src), {})
  /\ sources' = sources \ {src}
  /\ IF RestIsEmpty(src[2]) THEN StartWalk(src) ELSE UNCHANGED walkVars
  /\ UNCHANGED <<vars, phase, lookback, emptyTable>>

WalkInclude ==
  /\ phase = "includes" /\ queue # <<>>
  /\ IF Head(queue).pos = 0
       THEN /\ includes' = Relate(includes, SourceKey(source),
                                   {<<Head(queue).state, LhsOf(source)>>})
            /\ queue' = Tail(queue)
            /\ UNCHANGED visited
       ELSE StepBackFrom(Head(queue)) /\ UNCHANGED includes
  /\ UNCHANGED <<vars, phase, sources, source, lookback, emptyTable>>

-----------------------------------------------------------------------------
(* Lookback::calculate() *)

IsFinalItem(item) == IsFinal(g, item)

BeginLookback ==
  /\ phase = "includes" /\ queue = <<>> /\ sources = {}
  /\ phase' = "lookback"
  /\ sources' = ItemsThat(IsFinalItem)
  /\ UNCHANGED <<vars, walkVars, relationVars>>

VisitLookback(src) ==
  /\ phase = "lookback" /\ queue = <<>> /\ IsNextSource(src)
  /\ sources' = sources \ {src}
  /\ StartWalk(src)
  /\ UNCHANGED <<vars, phase, relationVars>>

LookbackKey(src) == <<src[1], src[2].rule>>

HasTransition(i, s) == \E e \in transitions : e[1] = i /\ e[2] = s

\* Mutant: the state the rule began in is not related.
IsOriginLate(at) == at.pos > 0 /\ HasTransition(at.state, LhsOf(source))

\* The condition on which the state at the front of the queue is related: a
\* transition over the left-hand side, at whatever read position.
IsOrigin(at) == HasTransition(at.state, LhsOf(source))

WalkLookback ==
  /\ phase = "lookback" /\ queue # <<>>
  /\ LET at == Head(queue)
     IN  /\ lookback' = IF IsOrigin(at)
                          THEN Relate(lookback, LookbackKey(source), {<<at.state, LhsOf(source)>>})
                          ELSE lookback
         /\ IF at.pos = 0
              THEN queue' = Tail(queue) /\ UNCHANGED visited
              ELSE StepBackFrom(at)
  /\ UNCHANGED <<vars, phase, sources, source, includes, emptyTable>>

RelDone == phase = "lookback" /\ queue = <<>> /\ sources = {}

RelStep ==
  \/ ConstructStates
  \/ BeginIncludes \/ WalkInclude
  \/ BeginLookback \/ WalkLookback
  \/ \E src \in sources : VisitInclude(src) \/ VisitLookback(src)

RelSpec == RelInit /\ [][RelStep]_relationsVars

-----------------------------------------------------------------------------
(* Properties *)

\* The states from which the symbols of an item of state i between position m and
\* its read position lead to i, for each m.
Origins(i, item) ==
  LET from[m \in 0 .. item.pos] ==
        IF m = item.pos THEN {i} ELSE UNION {Back(k, Rhs(g, item)[m + 1]) : k \in from[m + 1]}
  IN  from

\* (i, B) includes (p, A), as includes.h defines it: an item A -> a <*> B b of
\* state i, b can be empty, and a leads from p to i.
TrueIncludes(key) ==
  LET nullable == Nullable(g)
  IN  UNION {{<<p, g.rules[item.rule].lhs>> : p \in Origins(key[1], item)[0]} :
               item \in {x \in states[key[1]] : Reads(g, x, key[2]) /\ AllIn(Rest(x), nullable)}}

\* (i, A -> x <*>) lookbacks (p, A): x leads from p to i.
TrueLookback(i, item) == {<<p, g.rules[item.rule].lhs>> : p \in Origins(i, item)[0]}

\* The walk meets no state at two read positions.
Straight(i, item) ==
  \A m, n \in 0 .. item.pos - 1 :
    m # n => Origins(i, item)[m] \cap Origins(i, item)[n] = {}

\* No symbol that can be empty is used twice in right-hand sides.
Apart == UsedOnce(g, Nullable(g))

\* Includes relates nothing that the definition does not, for any grammar.
IncludesSound == \A key \in DOMAIN includes : includes[key] \subseteq TrueIncludes(key)

\* Includes is complete where no symbol that can be empty is used twice and no
\* walk meets a state at two read positions.
IncludesComplete ==
  phase = "lookback" /\ Apart =>
    \A key \in DOMAIN includes :
      (\A item \in states[key[1]] : Reads(g, item, key[2]) => Straight(key[1], item))
        => TrueIncludes(key) \subseteq includes[key]

\* Lookback relates every state a rule may have begun in, if no walk meets a
\* state at two read positions, and nothing else unless a state further on the
\* way has a transition over the left-hand side too.
LookbackExact ==
  RelDone =>
    \A i \in DOMAIN states : \A item \in {x \in states[i] : IsFinal(g, x)} :
      LET key == <<i, item.rule>>
          OnTheWay == UNION {Origins(i, item)[m] : m \in 1 .. item.pos}
      IN  /\ Straight(i, item) => TrueLookback(i, item) \subseteq Pairs(lookback, key)
          /\ (\A k \in OnTheWay : ~HasTransition(k, g.rules[item.rule].lhs))
               => Pairs(lookback, key) \subseteq TrueLookback(i, item)

\* Includes is the relation that its header defines.
IncludesAsDefined ==
  phase = "lookback" => \A key \in DOMAIN includes : includes[key] = TrueIncludes(key)

=============================================================================
