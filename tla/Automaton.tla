----------------------------- MODULE Automaton -----------------------------
(***************************************************************************)
(* Automaton::construct_states(): the worklist that builds the LR(0)       *)
(* automaton of a grammar.  A state is its set of items; its index in the  *)
(* code is its position in "states" (from 1 here).  The code compares and  *)
(* hashes states by their kernel items only, because it computes the       *)
(* closure of a state just once, after it has been found to be new.        *)
(*                                                                         *)
(* The deque of closure() is a set here: any pending item may be the next  *)
(* one, so every behaviour of the code is one of the model, and the        *)
(* properties say that the order does not matter.  The deque of states is  *)
(* kept in order, since it decides how the states are numbered.            *)
(***************************************************************************)
EXTENDS Grammar

CONSTANT Grammars          \* the grammars a parser may be generated from

ASSUME GrammarsAssumption == \A gr \in Grammars : WellFormed(gr)

VARIABLES
  g,           \* the grammar, fixed
  states,      \* _states: sequence of sets of items
  transitions, \* _transitions of all states: triples <<state, symbol, state>>
  toProcess,   \* indices of the states whose transitions are to be computed
  current,     \* the state taken from toProcess last, 0 before the first
  prepared,    \* prepared_states of the current state: symbol -> kernel
  closing      \* items of the newest state that closure() has still to visit

vars == <<g, states, transitions, toProcess, current, prepared, closing>>

NoPrepared == [s \in {} |-> {}]

-----------------------------------------------------------------------------

Init ==
  /\ g \in Grammars
  /\ states = <<{NewItem(StartRule)}>>
  /\ closing = {NewItem(StartRule)}
  /\ transitions = {}
  /\ toProcess = <<1>>
  /\ current = 0
  /\ prepared = NoPrepared

\* Mutant: predicts the rules that use the next symbol, not those that define it.
AddedByUse(item) ==
  {NewItem(r) : r \in {q \in RuleIndex(g) : \E p \in DOMAIN g.rules[q].rhs :
                                               Reads(g, item, g.rules[q].rhs[p])}}
    \ states[Len(states)]

\* Mutant: items the state already has are visited again.
AddedAgain(item) == Predicted(g, item)

\* The items add_item() finds to be new when closure() visits an item.
Added(item) == Predicted(g, item) \ states[Len(states)]

\* Mutant: items that a visit adds are not visited themselves.
VisitItemOnce(item) ==
  /\ item \in closing
  /\ states' = [states EXCEPT ![Len(states)] = @ \cup Added(item)]
  /\ closing' = closing \ {item}
  /\ UNCHANGED <<g, transitions, toProcess, current, prepared>>

\* One round of the loop of closure().
VisitItem(item) ==
  /\ item \in closing
  /\ states' = [states EXCEPT ![Len(states)] = @ \cup Added(item)]
  /\ closing' = (closing \ {item}) \cup Added(item)
  /\ UNCHANGED <<g, transitions, toProcess, current, prepared>>

\* Take the next state and step its items over every symbol they read.
TakeState ==
  /\ closing = {}
  /\ prepared = NoPrepared
  /\ toProcess # <<>>
  /\ current' = Head(toProcess)
  /\ toProcess' = Tail(toProcess)
  /\ prepared' = [s \in NextSymbols(g, states[Head(toProcess)])
                    |-> Goto(g, states[Head(toProcess)], s)]
  /\ UNCHANGED <<g, states, transitions, closing>>

\* prepared_states is a map: its symbols come in the order of their indices.
IsNextPrepared(s) ==
  /\ closing = {}
  /\ s \in DOMAIN prepared
  /\ \A t \in DOMAIN prepared : ~SymbolLess(g, t, s)

WithoutPrepared(s) == [t \in (DOMAIN prepared) \ {s} |-> prepared[t]]

TransitionsTo(s, k) == transitions \cup {<<current, s, k>>}

\* Mutant: compares all the items of the states.
StatesLikeByItems(kernel) == {k \in DOMAIN states : states[k] = kernel}

\* Mutant: the kernel of the new state may be a part of the other one.
StatesLikeByPart(kernel) ==
  {k \in DOMAIN states : Kernel(kernel) \subseteq Kernel(states[k])}

\* The lookup of add_state().
StatesLike(kernel) == {k \in DOMAIN states : Kernel(states[k]) = Kernel(kernel)}

\* add_state() finds a state with this kernel: only the transition is new.
FindState(s) ==
  /\ IsNextPrepared(s)
  /\ \E k \in StatesLike(prepared[s]) : transitions' = TransitionsTo(s, k)
  /\ prepared' = WithoutPrepared(s)
  /\ UNCHANGED <<g, states, toProcess, current, closing>>

NewIndex == Len(states) + 1

\* Mutant: new states are not queued.
NotQueued(k) == toProcess

Queued(k) == Append(toProcess, k)

\* add_state() appends a new state, closure() starts on it and it is queued.
AddState(s) ==
  /\ IsNextPrepared(s)
  /\ StatesLike(prepared[s]) = {}
  /\ states' = Append(states, prepared[s])
  /\ closing' = prepared[s]
  /\ transitions' = TransitionsTo(s, NewIndex)
  /\ toProcess' = Queued(NewIndex)
  /\ prepared' = WithoutPrepared(s)
  /\ UNCHANGED <<g, current>>

Done == closing = {} /\ prepared = NoPrepared /\ toProcess = <<>>

Terminated == Done /\ UNCHANGED vars

Next ==
  \/ \E item \in closing : VisitItem(item)
  \/ TakeState
  \/ \E s \in DOMAIN prepared : FindState(s) \/ AddState(s)
  \/ Terminated

Spec     == Init /\ [][Next]_vars
FairSpec == Spec /\ WF_vars(Next)

-----------------------------------------------------------------------------
(* Properties *)

\* Every variable keeps its type: item sets are over the grammar's rules and
\* both ends of a transition are states.
TypeOK ==
  /\ g \in Grammars
  /\ states \in Seq(SUBSET Item(g)) /\ states # <<>>
  /\ transitions \subseteq (DOMAIN states) \X Symbol \X (DOMAIN states)
  /\ toProcess \in Seq(DOMAIN states)
  /\ current \in 0 .. Len(states)
  /\ prepared \in [DOMAIN prepared -> SUBSET Item(g)]
  /\ DOMAIN prepared \subseteq Symbol
  /\ closing \subseteq states[Len(states)]

\* The map from kernels to indices never loses a state: comparing states by
\* kernel alone identifies them, whether or not their closures are computed.
KernelsDistinct ==
  \A i, j \in DOMAIN states : Kernel(states[i]) = Kernel(states[j]) => i = j

\* The states wait for their transitions in the order they were created, each
\* exactly once, and the newest one is not taken before it is closed.
QueueOrder ==
  /\ toProcess = [k \in 1 .. Len(states) - current |-> current + k]
  /\ closing # {} => current < Len(states)

\* closure() of a state, once finished, is the least set of items closed under
\* prediction that has its kernel, whatever the order of its worklist; until
\* then the items it has not visited account for all that is missing.
StatesAreClosures ==
  \A i \in DOMAIN states :
    /\ \A item \in states[i] :
         Predicted(g, item) \subseteq states[i] \/ (i = Len(states) /\ item \in closing)
    /\ \A S \in SUBSET states[i] :
         Kernel(states[i]) \subseteq S /\ Closed(g, S) => S = states[i]

\* The states prepared from the current state stay its gotos while the states
\* found for earlier symbols are added and closed.
PreparedIsGoto ==
  \A s \in DOMAIN prepared :
    /\ current # 0
    /\ s \in NextSymbols(g, states[current])
    /\ prepared[s] = Goto(g, states[current], s)

\* A transition leads to the state of the goto of its source: no transition is
\* computed from a state whose closure is still growing, and none is attached
\* to a state that only looked the same.
EdgesAreGoto ==
  \A e \in transitions :
    /\ e[1] <= current
    /\ e[2] \in NextSymbols(g, states[e[1]])
    /\ Kernel(states[e[3]]) = Goto(g, states[e[1]], e[2])

\* No transition is forgotten: every state taken from the queue has one for
\* each of its next symbols, the current one for each symbol not prepared.
NoEdgeForgotten ==
  \A i \in 1 .. current : \A s \in NextSymbols(g, states[i]) :
    \/ \E j \in DOMAIN states : <<i, s, j>> \in transitions
    \/ i = current /\ s \in DOMAIN prepared

\* Every state but the initial one was reached by a transition from a state
\* created before it.
Reachable ==
  \A j \in (DOMAIN states) \ {1} : \E e \in transitions : e[3] = j /\ e[1] < j

\* Between add_state() and the end of closure() the collection misses a state.
Finished == {states[i] : i \in {k \in DOMAIN states : k < Len(states) \/ closing = {}}}

Canonical == INSTANCE LR0 WITH collection <- Finished

\* construct_states() builds the canonical LR(0) collection one closed set at
\* a time.
BuildsCanonicalCollection == Canonical!Spec

\* When it stops, no set of the collection is missing and every next symbol of
\* every state has exactly one transition.
DoneIsComplete ==
  Done =>
    /\ Canonical!Complete
    /\ \A i \in DOMAIN states : \A s \in NextSymbols(g, states[i]) :
         \E j \in DOMAIN states :
           {e \in transitions : e[1] = i /\ e[2] = s} = {<<i, s, j>>}

\* construct_states() stops.
Termination == <>Done

=============================================================================
