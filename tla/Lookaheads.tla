----------------------------- MODULE Lookaheads -----------------------------
(***************************************************************************)
(* Read, Follow and Lookahead: the operations prepare() calculates from    *)
(* the relations, each a map from states with symbols or rules to sets of  *)
(* terminals.  Follow is digraph_algo() on Includes and Read, with its     *)
(* steps in any order the unordered containers may give.                   *)
(***************************************************************************)
EXTENDS Relations, LALR

CONSTANTS
  Node,              \* the states with symbols that the automata may have
  Infinity           \* std::numeric_limits<std::size_t>::max()

ASSUME MaximumAssumption == Infinity \in Nat \ {0}

VARIABLES
  read,        \* _operation of Read
  follow,      \* _operation of Follow, {} for a key that is not there yet
  depths, stack, frames, roots,   \* digraph_algo()
  lookahead    \* _operation of Lookahead

digraphVars    == <<follow, depths, stack, frames, roots>>
lookaheadsVars == <<relationsVars, read, digraphVars, lookahead>>

ReadOf(node) == Pairs(read, node)

\* It may be given any relation of the nodes and any function to start from.
FollowDigraph ==
  INSTANCE Digraph WITH Value     <- Symbol,
                        Relations <- UNION {[keys -> SUBSET Node] : keys \in SUBSET Node},
                        Bases     <- [Node -> SUBSET Symbol],
                        rel       <- includes,
                        base      <- [n \in Node |-> ReadOf(n)],
                        f         <- follow

LkInit ==
  /\ RelInit
  /\ read = NoRelation
  /\ follow = [n \in Node |-> {}]
  /\ depths = [n \in Node |-> 0]
  /\ stack = <<>> /\ frames = <<>> /\ roots = {}
  /\ lookahead = NoRelation

ComputeRelations ==
  /\ ~RelDone
  /\ RelStep
  /\ UNCHANGED <<read, digraphVars, lookahead>>

BeginRead ==
  /\ RelDone
  /\ phase' = "read"
  /\ sources' = ItemsThat(ReadsNonterminal)
  /\ UNCHANGED <<vars, walkVars, relationVars, read, digraphVars, lookahead>>

\* Mutant: a later item of the state that reads the symbol replaces the set.
ReadReplaced(key, symbols) == [k \in {key} |-> symbols] @@ read

ReadWith(key, symbols) == Relate(read, key, symbols)

\* first() of the rest of the item; it stores empty() of the symbols it asks.
VisitRead(src) ==
  /\ phase = "read" /\ IsNextSource(src)
  /\ LET first == FirstOfSeq(g, emptyTable, Rest(src[2]))
     IN  /\ read' = ReadWith(SourceKey(src), first.answer)
         /\ emptyTable' = first.empty
  /\ sources' = sources \ {src}
  /\ UNCHANGED <<vars, phase, walkVars, includes, lookback, digraphVars, lookahead>>

BeginFollow ==
  /\ phase = "read" /\ sources = {}
  /\ phase' = "follow"
  /\ roots' = DOMAIN includes
  /\ UNCHANGED <<vars, sources, walkVars, relationVars, read, follow, depths, stack, frames, lookahead>>

DigraphStep ==
  /\ phase = "follow"
  /\ UNCHANGED <<vars, phase, sources, walkVars, relationVars, read, lookahead>>
  /\ \/ \E x \in Node : \/ FollowDigraph!TraverseRoot(x)
                        \/ FollowDigraph!TraverseRelated(x)
                        \/ FollowDigraph!Merge(x)
     \/ FollowDigraph!Return

\* Mutant: only one of the related sets is taken.
LookaheadOfOne(key) == follow[CHOOSE n \in lookback[key] : TRUE]

LookaheadOf(key) == UNION {follow[n] : n \in lookback[key]}

\* The union of the sets of what a state and rule look back to.
CalculateLookahead ==
  /\ phase = "follow" /\ frames = <<>> /\ roots = {}
  /\ phase' = "lookahead"
  /\ lookahead' = [key \in DOMAIN lookback |-> LookaheadOf(key)]
  /\ UNCHANGED <<vars, sources, walkVars, relationVars, read, digraphVars>>

LkDone == phase = "lookahead"

LkStep ==
  \/ ComputeRelations
  \/ BeginRead
  \/ \E src \in sources : VisitRead(src)
  \/ BeginFollow \/ DigraphStep
  \/ CalculateLookahead

LkNext == LkStep \/ (LkDone /\ UNCHANGED lookaheadsVars)

LkSpec == LkInit /\ [][LkNext]_lookaheadsVars

-----------------------------------------------------------------------------
(* Properties *)

\* (i, B) reads what can begin the rest of an item of state i that reads B.
TrueRead(sets, key) ==
  UNION {FirstOf(sets, Rest(item)) : item \in {x \in states[key[1]] : Reads(g, x, key[2])}}

\* What is read right after a nonterminal: exact although first() asks empty()
\* with stored answers, if no symbol that can be empty is used twice.
ReadExact ==
  phase = "follow" /\ roots = DOMAIN includes =>
    LET sets == TextbookSets(g)
    IN  \A key \in DOMAIN read :
          /\ read[key] \subseteq TrueRead(sets, key)
          /\ Apart => read[key] = TrueRead(sets, key)

FinalItems == ItemsThat(IsFinalItem)

\* No walk meets a state at two read positions.
AllStraight ==
  \A src \in ItemsThat(LAMBDA item : IsFinalItem(item) \/ ReadsNonterminal(item)) :
    Straight(src[1], src[2])

\* No state within a rule has a transition over its left-hand side.
NoneWithin ==
  \A src \in FinalItems : \A m \in 1 .. src[2].pos :
    \A k \in Origins(src[1], src[2])[m] : ~HasTransition(k, LhsOf(src))

\* No loop of Includes goes through two nodes or more: its keys can be gone through
\* in an order in which a key comes after the others it is related to.
Loopless ==
  LET keys == DOMAIN includes
  IN  keys = Grown([S \in SUBSET keys |-> {n \in keys : includes[n] \cap keys \subseteq S \cup {n}}], keys)

\* The lookaheads are those of LALR(1), in whatever order digraph_algo() works:
\* none is missing unless the walks or empty() cut something off or Includes has a
\* loop, and none is too many unless a rule has its left-hand side within.
LookaheadsExact ==
  LkDone =>
    LET true == LALRLookaheads(g, states, transitions)
    IN  /\ Apart /\ AllStraight /\ Loopless => \A key \in DOMAIN true : true[key] \subseteq lookahead[key]
        /\ NoneWithin => \A key \in DOMAIN lookahead : lookahead[key] \subseteq true[key]

\* The lookaheads are those of LALR(1).
LookaheadsAreLALR ==
  LkDone =>
    LET true == LALRLookaheads(g, states, transitions)
    IN  \A key \in DOMAIN lookahead : lookahead[key] = true[key]

=============================================================================
