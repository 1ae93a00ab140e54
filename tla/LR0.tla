-------------------------------- MODULE LR0 --------------------------------
(***************************************************************************)
(* What Automaton::construct_states() promises, without worklists: the     *)
(* canonical collection of LR(0) item sets.  It starts with the closure of *)
(* the start item and grows by the closure of a goto of a set it already   *)
(* has.  A symbol of a set whose goto has no closure in the collection is  *)
(* a transition that is still missing.                                     *)
(***************************************************************************)
EXTENDS Grammar

CONSTANT Grammars

VARIABLES
  g,           \* the grammar
  collection   \* the item sets found so far

Follows(items, from) ==
  \E s \in NextSymbols(g, from) : IsClosureOf(g, items, Goto(g, from, s))

Init == g \in Grammars /\ collection = {}

\* A set that is new: the first one, or one that follows a set already there.
Grow ==
  \E items \in collection' \ collection :
    /\ collection' = collection \cup {items}
    /\ \/ collection = {} /\ IsClosureOf(g, items, {NewItem(StartRule)})
       \/ \E from \in collection : Follows(items, from)
    /\ UNCHANGED g

Spec == Init /\ [][Grow]_<<g, collection>>

\* Nothing is left to add.
Complete ==
  /\ collection # {}
  /\ \A from \in collection : \A s \in NextSymbols(g, from) :
       \E items \in collection : IsClosureOf(g, items, Goto(g, from, s))

=============================================================================
