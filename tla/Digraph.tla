------------------------------ MODULE Digraph ------------------------------
(***************************************************************************)
(* digraph_algo(): from the sets a base function gives to the nodes of a   *)
(* relation, the sets that also hold everything the related nodes have.    *)
(* Follow::calculate() runs it on the includes relation and Read.          *)
(*                                                                         *)
(* digraph_traverse() is recursive: "frames" is the stack of its calls,    *)
(* each with the node x it is for, the depth it found the explicit stack   *)
(* at, the related nodes it has not finished with and, while it waits for  *)
(* a recursive call, the node of that call.  The containers are unordered: *)
(* any key of the relation may be the next root, any related node the next *)
(* one.  A depth of 0 stands for a node that is not in "depths" yet.       *)
(***************************************************************************)
EXTENDS Integers, Sequences, FiniteSets

CONSTANTS
  Node,        \* StateAndSymbol, in the parser
  Value,       \* Symbol, in the parser
  Relations,   \* the relations it may be given: keys to sets of nodes
  Bases,       \* the functions it may be given: nodes to sets of values
  Infinity     \* std::numeric_limits<std::size_t>::max()

ASSUME RelationsAssumption ==
  \A R \in Relations : \E keys \in SUBSET Node : R \in [keys -> SUBSET Node]
ASSUME BasesAssumption == Bases \subseteq [Node -> SUBSET Value]
ASSUME InfinityAssumption == Infinity \in Nat \ {0}

VARIABLES
  rel,         \* the relation, fixed
  base,        \* base_f, fixed
  f,           \* F, {} for a node that is not there yet
  depths,      \* N
  stack,       \* the explicit stack of nodes
  frames,      \* the calls of digraph_traverse() in progress
  roots        \* keys the loop of digraph_algo() has still to traverse

vars == <<rel, base, f, depths, stack, frames, roots>>

Related(x) == IF x \in DOMAIN rel THEN rel[x] ELSE {}

Lower(a, b) == IF a < b THEN a ELSE b

Top == frames[Len(frames)]

Init ==
  /\ rel \in Relations
  /\ base \in Bases
  /\ f = [x \in Node |-> {}]
  /\ depths = [x \in Node |-> 0]
  /\ stack = <<>>
  /\ frames = <<>>
  /\ roots = DOMAIN rel

InitialValue(x) == base[x]

\* A call of digraph_traverse() begins, on top of the calls in "callers".
Enter(x, callers) ==
  /\ stack' = Append(stack, x)
  /\ depths' = [depths EXCEPT ![x] = Len(stack) + 1]
  /\ f' = [f EXCEPT ![x] = InitialValue(x)]
  /\ frames' = Append(callers, [node |-> x, depth |-> Len(stack) + 1,
                                todo |-> Related(x), waiting |-> {}])

\* Mutant: a key that was visited from another one is not traversed as a root.
TraverseNewRoot(x) ==
  /\ frames = <<>>
  /\ x \in roots
  /\ roots' = roots \ {x}
  /\ IF depths[x] = 0 THEN Enter(x, <<>>) ELSE UNCHANGED <<f, depths, stack, frames>>
  /\ UNCHANGED <<rel, base>>

\* The loop of digraph_algo(): every key is traversed, also one that the
\* traversal of another key has visited.
TraverseRoot(x) ==
  /\ frames = <<>>
  /\ x \in roots
  /\ roots' = roots \ {x}
  /\ Enter(x, <<>>)
  /\ UNCHANGED <<rel, base>>

\* Mutant: what the recursive call computed is not merged.
WaitsForNothing(call, y) == [call EXCEPT !.todo = @ \ {y}]

WaitsFor(call, y) == [call EXCEPT !.waiting = {y}]

\* The top call makes a recursive call for a node not visited before.
TraverseRelated(y) ==
  /\ frames # <<>>
  /\ Top.waiting = {}
  /\ y \in Top.todo
  /\ depths[y] = 0
  /\ Enter(y, [frames EXCEPT ![Len(frames)] = WaitsFor(Top, y)])
  /\ UNCHANGED <<rel, base, roots>>

\* The related node the top call may merge now.
Mergeable(y) ==
  IF Top.waiting = {} THEN y \in Top.todo /\ depths[y] # 0 ELSE y \in Top.waiting

\* Mutant: a related node whose component is not complete yet is left for later;
\* on a loop each call then waits for one that is still in progress.
HasMergedIfComplete(call, y) ==
  [call EXCEPT !.todo = IF depths[y] = Infinity THEN @ \ {y} ELSE @, !.waiting = {}]

HasMerged(call, y) == [call EXCEPT !.todo = @ \ {y}, !.waiting = {}]

\* Mutant: the union goes the wrong way.
MergeBack(y) ==
  /\ frames # <<>>
  /\ Mergeable(y)
  /\ depths' = [depths EXCEPT ![y] = Lower(depths[Top.node], depths[y])]
  /\ f' = [f EXCEPT ![y] = @ \cup f[Top.node]]
  /\ frames' = [frames EXCEPT ![Len(frames)] = HasMerged(Top, y)]
  /\ UNCHANGED <<rel, base, stack, roots>>

\* The top call merges the set of a related node into its own.  It is N[y]
\* that is lowered, not N[x].
Merge(y) ==
  /\ frames # <<>>
  /\ Mergeable(y)
  /\ depths' = [depths EXCEPT ![y] = Lower(depths[Top.node], depths[y])]
  /\ f' = [f EXCEPT ![Top.node] = @ \cup f[y]]
  /\ frames' = [frames EXCEPT ![Len(frames)] = HasMerged(Top, y)]
  /\ UNCHANGED <<rel, base, stack, roots>>

\* The nodes from the last x of the stack up to its top.
Bottom(x) ==
  CHOOSE k \in DOMAIN stack : stack[k] = x /\ \A j \in DOMAIN stack : stack[j] = x => j <= k
Component(x) == {stack[k] : k \in Bottom(x) .. Len(stack)}

\* The top call returns; if the depth of its node is the one it had, the stack
\* is popped down to the node and all the popped nodes get its set.
Return ==
  /\ frames # <<>>
  /\ Top.todo = {} /\ Top.waiting = {}
  /\ IF depths[Top.node] = Top.depth
       THEN /\ stack' = SubSeq(stack, 1, Bottom(Top.node) - 1)
            /\ depths' = [n \in Node |-> IF n \in Component(Top.node)
                                           THEN Infinity ELSE depths[n]]
            /\ f' = [n \in Node |-> IF n \in Component(Top.node)
                                      THEN f[Top.node] ELSE f[n]]
       ELSE UNCHANGED <<stack, depths, f>>
  /\ frames' = SubSeq(frames, 1, Len(frames) - 1)
  /\ UNCHANGED <<rel, base, roots>>

Done == frames = <<>> /\ roots = {}

Terminated == Done /\ UNCHANGED vars

Next ==
  \/ \E x \in Node : TraverseRoot(x) \/ TraverseRelated(x) \/ Merge(x)
  \/ Return
  \/ Terminated

Spec     == Init /\ [][Next]_vars
FairSpec == Spec /\ WF_vars(Next)

-----------------------------------------------------------------------------
(* Properties *)

\* The nodes of S have value v as the definition of F demands: those whose base
\* has it, and those related to a node that has it.
Spreads(v, S) ==
  /\ \A x \in Node : v \in base[x] => x \in S
  /\ \A x \in Node : \A y \in Related(x) : y \in S => x \in S

\* F: the values that every solution gives to x.
Least(x) == {v \in Value : \A S \in SUBSET Node : Spreads(v, S) => x \in S}

Active == {frames[k].node : k \in DOMAIN frames}

\* No node is related to itself through others.
Loopless == \A S \in SUBSET Node : S # {} => \E x \in S : Related(x) \cap S \subseteq {x}

\* Every variable keeps its type, and what a call has still to do is a part of
\* what is related to its node.
TypeOK ==
  /\ rel \in Relations
  /\ base \in Bases
  /\ f \in [Node -> SUBSET Value]
  /\ depths \in [Node -> Nat]
  /\ stack \in Seq(Node)
  /\ frames \in Seq([node : Node, depth : Nat, todo : SUBSET Node, waiting : SUBSET Node])
  /\ roots \subseteq DOMAIN rel
  /\ \A k \in DOMAIN frames :
       frames[k].todo \cup frames[k].waiting \subseteq Related(frames[k].node)

\* Nothing is ever in F(x) that the definition of F does not put there, in any
\* order of traversal and on any relation, cyclic or not: no set is copied to
\* a node that does not reach the one it came from.
Sound == \A x \in Node : f[x] \subseteq Least(x)

\* The recursion never enters a node whose call is still in progress, and the
\* explicit stack is popped no further than the call that returns.
CallsNest ==
  /\ \A i, j \in DOMAIN frames : frames[i].node = frames[j].node => i = j
  /\ \A k \in DOMAIN frames : /\ frames[k].depth \in DOMAIN stack
                              /\ stack[frames[k].depth] = frames[k].node

\* On a relation without a loop through two nodes or more, a node whose call has
\* returned has all of F, and traversing it again as a root takes nothing away
\* once it has returned.
LooplessExact ==
  Loopless => \A x \in Node \ Active : depths[x] # 0 => f[x] = Least(x)

\* The nodes that x leads to.
Reach(x) ==
  {y \in Node : \A S \in SUBSET Node :
     Related(x) \subseteq S /\ (\A n \in S : Related(n) \subseteq S) => y \in S}

Loop(x) == {y \in Reach(x) : x \in Reach(y)}

\* Traversing every key again makes up for the components that are never merged
\* where a loop has two nodes: a node of one has all of F in the end, if it leads
\* to no other loop.  (A node that leads to the loop from outside, or a node of a
\* longer loop, may miss values for good, in an order the hash of the keys gives.)
PairsExact ==
  Done =>
    \A x \in DOMAIN rel :
      Cardinality(Loop(x)) = 2 /\ (\A y \in Reach(x) \ Loop(x) : Loop(y) \subseteq {y})
        => f[x] = Least(x)

\* digraph_algo() returns, whatever loops the relation has.
Termination == <>Done

=============================================================================
