-------------------------- MODULE AutomatonProofs --------------------------
(***************************************************************************)
(* Proofs about construct_states(), for every well-formed grammar.         *)
(***************************************************************************)
EXTENDS Automaton, PreparedTable, SequenceTheorems, TLAPS

-----------------------------------------------------------------------------
(* The operations on items *)

\* An item that is not final reads a symbol of the grammar, never "@start", and
\* its step is a kernel item of the grammar.
LEMMA StepItem ==
  ASSUME NEW gr, WellFormed(gr), NEW item \in Item(gr), ~IsFinal(gr, item)
  PROVE  /\ ReadSymbol(gr, item) \in Symbol \ {StartSymbol}
         /\ Step(item) \in Item(gr)
         /\ IsKernel(Step(item))
<1>1. gr.rules[item.rule] \in Rule
  BY ElementOfSeq DEF WellFormed, Item, RuleIndex
<1>2. /\ Rhs(gr, item) \in Seq(Symbol)
      /\ item.pos \in Nat /\ item.pos < Len(Rhs(gr, item))
  BY <1>1 DEF Rhs, Rule, Item, IsFinal
<1>3. item.pos + 1 \in 1 .. Len(Rhs(gr, item))
  BY <1>2
<1>4. ReadSymbol(gr, item) \in Symbol
  BY <1>2, <1>3, ElementOfSeq DEF ReadSymbol
<1>5. item.rule \in DOMAIN gr.rules
  BY DEF Item, RuleIndex, WellFormed
<1>6. ReadSymbol(gr, item) # StartSymbol
  BY <1>2, <1>3, <1>5 DEF WellFormed, ReadSymbol, Rhs
<1>7. Step(item) = [rule |-> item.rule, pos |-> item.pos + 1]
  BY DEF Step, Item
<1>8. Step(item) \in Item(gr) /\ IsKernel(Step(item))
  BY <1>2, <1>7 DEF Item, Rhs, IsKernel
<1>. QED  BY <1>4, <1>6, <1>8

\* Prediction adds items of the grammar, and never a kernel item: the start
\* rule is not predicted since nothing reads "@start".
LEMMA PredictedItems ==
  ASSUME NEW gr, WellFormed(gr), NEW item \in Item(gr)
  PROVE  /\ Predicted(gr, item) \subseteq Item(gr)
         /\ \A i \in Predicted(gr, item) : ~IsKernel(i)
<1>. SUFFICES ASSUME NEW q \in RuleIndex(gr), Reads(gr, item, gr.rules[q].lhs)
              PROVE  NewItem(q) \in Item(gr) /\ ~IsKernel(NewItem(q))
  BY DEF Predicted
<1>1. NewItem(q) \in Item(gr)
  <2>1. gr.rules[q] \in Rule
    BY ElementOfSeq DEF WellFormed, RuleIndex
  <2>. QED  BY <2>1 DEF NewItem, Item, Rhs, Rule
<1>2. q # StartRule
  BY StepItem DEF Reads, WellFormed
<1>. QED  BY <1>1, <1>2 DEF NewItem, IsKernel

\* The goto of a set over one of its next symbols is a nonempty set of kernel
\* items of the grammar.
LEMMA GotoItems ==
  ASSUME NEW gr, WellFormed(gr), NEW items \in SUBSET Item(gr),
         NEW s \in NextSymbols(gr, items)
  PROVE  /\ s \in Symbol
         /\ Goto(gr, items, s) \subseteq Item(gr)
         /\ Goto(gr, items, s) # {}
         /\ Kernel(Goto(gr, items, s)) = Goto(gr, items, s)
<1>1. PICK i \in items : ~IsFinal(gr, i) /\ ReadSymbol(gr, i) = s
  BY DEF NextSymbols
<1>2. s \in Symbol
  BY <1>1, StepItem
<1>3. Step(i) \in Goto(gr, items, s)
  BY <1>1 DEF Goto, Reads
<1>4. \A j \in items : Reads(gr, j, s) => Step(j) \in Item(gr) /\ IsKernel(Step(j))
  BY StepItem DEF Reads
<1>. QED  BY <1>2, <1>3, <1>4 DEF Goto, Kernel

-----------------------------------------------------------------------------
(* The inductive invariant *)

\* A state has no more items than any closed set that contains its kernel.  The
\* sets range over all items: the state itself is not closed while it grows.
StatesAreLeast ==
  \A i \in DOMAIN states : \A S \in SUBSET Item(g) :
    Kernel(states[i]) \subseteq S /\ Closed(g, S) => states[i] \subseteq S

\* What a state lacks is predicted by items that are still to be visited.
NewestIsClosing ==
  \A i \in DOMAIN states : \A item \in states[i] :
    Predicted(g, item) \subseteq states[i] \/ (i = Len(states) /\ item \in closing)

InitialKernel == Kernel(states[1]) = {NewItem(StartRule)}

IInv ==
  /\ TypeOK
  /\ QueueOrder
  /\ PreparedIsGoto
  /\ KernelsDistinct
  /\ InitialKernel
  /\ NewestIsClosing
  /\ StatesAreLeast
  /\ EdgesAreGoto
  /\ NoEdgeForgotten
  /\ Reachable

USE GrammarsAssumption

LEMMA InitInv == Init => IInv
<1>. SUFFICES ASSUME Init PROVE IInv
  OBVIOUS
<1>1. WellFormed(g) /\ Len(states) = 1 /\ states[1] = {NewItem(StartRule)}
  BY DEF Init
<1>2. NewItem(StartRule) \in Item(g) /\ IsKernel(NewItem(StartRule))
  <2>1. StartRule \in DOMAIN g.rules /\ StartRule \in RuleIndex(g)
    BY <1>1 DEF WellFormed, StartRule, RuleIndex
  <2>2. g.rules[StartRule] \in Rule
    BY <1>1, <2>1, ElementOfSeq DEF WellFormed
  <2>. QED  BY <2>1, <2>2 DEF NewItem, Item, Rhs, Rule, IsKernel
<1>3. TypeOK
  <2>1. states \in Seq(SUBSET Item(g)) /\ states # <<>>
    BY <1>2 DEF Init
  <2>2. toProcess \in Seq(DOMAIN states)
    BY <1>1 DEF Init
  <2>. QED  BY <1>1, <2>1, <2>2 DEF Init, TypeOK, NoPrepared
<1>4. QueueOrder
  BY <1>1 DEF Init, QueueOrder
<1>5. PreparedIsGoto /\ EdgesAreGoto /\ NoEdgeForgotten /\ Reachable
  BY <1>1 DEF Init, PreparedIsGoto, EdgesAreGoto, NoEdgeForgotten, Reachable, NoPrepared
<1>6. KernelsDistinct /\ NewestIsClosing
  BY <1>1 DEF Init, KernelsDistinct, NewestIsClosing
<1>7. InitialKernel /\ StatesAreLeast
  BY <1>1, <1>2 DEF Init, InitialKernel, StatesAreLeast, Kernel
<1>. QED  BY <1>3, <1>4, <1>5, <1>6, <1>7 DEF IInv

\* What every step may use: the grammar is well-formed, the states are in order.
LEMMA StateFacts ==
  ASSUME TypeOK
  PROVE  /\ WellFormed(g)
         /\ Len(states) \in Nat \ {0}
         /\ DOMAIN states = 1 .. Len(states)
         /\ \A i \in 1 .. Len(states) : states[i] \subseteq Item(g)
         /\ current \in 0 .. Len(states)
<1>1. Len(states) \in Nat \ {0}
  BY EmptySeq DEF TypeOK
<1>. QED  BY <1>1 DEF TypeOK

-----------------------------------------------------------------------------
(* One lemma per action *)

\* What a round of closure() does to the states.
LEMMA VisitItemStates ==
  ASSUME IInv, NEW item \in closing, VisitItem(item)
  PROVE  LET N == Len(states)
         IN  /\ N \in Nat \ {0} /\ current \in 0 .. N /\ current < N
             /\ DOMAIN states = 1 .. N /\ N \in 1 .. N
             /\ item \in states[N] /\ item \in Item(g)
             /\ \A i \in 1 .. N : states[i] \subseteq Item(g)
             /\ \A i \in Added(item) : ~IsKernel(i)
             /\ states' \in Seq(SUBSET Item(g)) /\ Len(states') = N
             /\ DOMAIN states' = 1 .. N /\ states' # <<>>
             /\ states'[N] = states[N] \cup Added(item)
             /\ \A i \in 1 .. N : i # N => states'[i] = states[i]
<1>. DEFINE N == Len(states)
            new == Added(item)
<1>1. TypeOK /\ WellFormed(g)
  BY StateFacts DEF IInv
<1>2. N \in Nat \ {0} /\ current \in 0 .. N /\ current < N
  BY <1>1, StateFacts DEF IInv, QueueOrder
<1>3. DOMAIN states = 1 .. N /\ N \in 1 .. N
  BY <1>1, <1>2, StateFacts
<1>4. /\ item \in states[N] /\ item \in Item(g)
      /\ \A i \in 1 .. N : states[i] \subseteq Item(g)
  BY <1>1, <1>3, StateFacts DEF TypeOK
<1>5. new \subseteq Item(g) /\ \A i \in new : ~IsKernel(i)
  BY <1>1, <1>4, PredictedItems DEF Added
<1>6. states' = [states EXCEPT ![N] = states[N] \cup new]
  BY DEF VisitItem
<1>7. /\ states' \in Seq(SUBSET Item(g)) /\ Len(states') = N
      /\ DOMAIN states' = 1 .. N /\ states' # <<>>
  BY <1>1, <1>2, <1>3, <1>4, <1>5, <1>6, EmptySeq DEF TypeOK
<1>8. states'[N] = states[N] \cup new
  BY <1>3, <1>6
<1>9. ASSUME NEW i \in 1 .. N, i # N PROVE states'[i] = states[i]
  BY <1>3, <1>6, <1>9
<1>. QED  BY <1>2, <1>3, <1>4, <1>5, <1>7, <1>8, <1>9

LEMMA VisitItemInv ==
  ASSUME IInv, NEW item \in closing, VisitItem(item)
  PROVE  IInv'
<1>. DEFINE N == Len(states)
            new == Added(item)
<1>1. TypeOK
  BY DEF IInv
<1>2. N \in Nat \ {0} /\ current \in 0 .. N /\ current < N
  BY VisitItemStates
<1>3. DOMAIN states = 1 .. N /\ N \in 1 .. N
  BY VisitItemStates
<1>4. /\ item \in states[N] /\ item \in Item(g)
      /\ \A i \in 1 .. N : states[i] \subseteq Item(g)
  BY VisitItemStates
<1>5. \A i \in new : ~IsKernel(i)
  BY VisitItemStates
<1>7. /\ states' \in Seq(SUBSET Item(g)) /\ Len(states') = N
      /\ DOMAIN states' = 1 .. N /\ states' # <<>>
  BY VisitItemStates
<1>8. states'[N] = states[N] \cup new
  BY VisitItemStates
<1>9. ASSUME NEW i \in 1 .. N, i # N PROVE states'[i] = states[i]
  BY <1>9, VisitItemStates
<1>10. ASSUME NEW i \in 1 .. N PROVE Kernel(states'[i]) = Kernel(states[i])
  BY <1>5, <1>8, <1>9 DEF Kernel
<1>11. ASSUME NEW i \in 1 .. current PROVE i \in 1 .. N /\ states'[i] = states[i]
  <2>1. i \in 1 .. N /\ i # N
    BY <1>2
  <2>. QED  BY <2>1, <1>9
<1>12. TypeOK'
  BY <1>1, <1>2, <1>3, <1>4, <1>7, <1>8 DEF VisitItem, TypeOK
<1>13. QueueOrder'
  BY <1>2, <1>7 DEF IInv, QueueOrder, VisitItem
<1>14. PreparedIsGoto'
  <2>. SUFFICES ASSUME NEW s \in DOMAIN prepared
                PROVE  /\ current # 0
                       /\ s \in NextSymbols(g, states'[current])
                       /\ prepared[s] = Goto(g, states'[current], s)
    BY DEF PreparedIsGoto, VisitItem
  <2>1. current # 0 /\ s \in NextSymbols(g, states[current])
        /\ prepared[s] = Goto(g, states[current], s)
    BY DEF IInv, PreparedIsGoto
  <2>2. current \in 1 .. current
    BY <1>2, <2>1
  <2>. QED  BY <2>1, <2>2, <1>11
<1>15. KernelsDistinct'
  BY <1>3, <1>7, <1>10 DEF IInv, KernelsDistinct
<1>16. InitialKernel'
  <2>1. 1 \in 1 .. N
    BY <1>2
  <2>. QED  BY <2>1, <1>10 DEF IInv, InitialKernel
<1>17. NewestIsClosing'
  <2>. SUFFICES ASSUME NEW i \in 1 .. N, NEW it \in states'[i]
                PROVE  \/ Predicted(g, it) \subseteq states'[i]
                       \/ i = N /\ it \in closing'
    BY <1>7 DEF NewestIsClosing, VisitItem
  <2>1. CASE i # N
    BY <2>1, <1>3, <1>9 DEF IInv, NewestIsClosing
  <2>2. CASE i = N /\ it = item
    BY <2>2, <1>8 DEF Added
  <2>3. CASE i = N /\ it # item /\ it \in states[N]
    BY <2>3, <1>3, <1>8 DEF IInv, NewestIsClosing, VisitItem
  <2>4. CASE i = N /\ it \in new
    BY <2>4 DEF VisitItem
  <2>. QED  BY <1>8, <2>1, <2>2, <2>3, <2>4
<1>18. StatesAreLeast'
  <2>. SUFFICES ASSUME NEW i \in 1 .. N, NEW S \in SUBSET Item(g),
                       Kernel(states'[i]) \subseteq S, Closed(g, S)
                PROVE  states'[i] \subseteq S
    BY <1>7 DEF StatesAreLeast, VisitItem
  <2>1. states[i] \subseteq S
    BY <1>3, <1>10 DEF IInv, StatesAreLeast
  <2>2. CASE i = N
    BY <2>1, <2>2, <1>4, <1>8 DEF Closed, Added
  <2>3. CASE i # N
    BY <2>1, <2>3, <1>9
  <2>. QED  BY <2>2, <2>3
<1>19. EdgesAreGoto'
  <2>. SUFFICES ASSUME NEW e \in transitions
                PROVE  /\ e[1] <= current
                       /\ e[2] \in NextSymbols(g, states'[e[1]])
                       /\ Kernel(states'[e[3]]) = Goto(g, states'[e[1]], e[2])
    BY DEF EdgesAreGoto, VisitItem
  <2>1. /\ e[1] <= current
        /\ e[2] \in NextSymbols(g, states[e[1]])
        /\ Kernel(states[e[3]]) = Goto(g, states[e[1]], e[2])
    BY DEF IInv, EdgesAreGoto
  <2>2. e[1] \in 1 .. N /\ e[3] \in 1 .. N
    BY <1>1, <1>3 DEF TypeOK
  <2>3. e[1] \in 1 .. current
    BY <1>2, <2>1, <2>2
  <2>. QED  BY <2>1, <2>2, <2>3, <1>10, <1>11
<1>20. NoEdgeForgotten'
  <2>. SUFFICES ASSUME NEW i \in 1 .. current, NEW s \in NextSymbols(g, states'[i])
                PROVE  \/ \E j \in 1 .. N : <<i, s, j>> \in transitions
                       \/ i = current /\ s \in DOMAIN prepared
    BY <1>7 DEF NoEdgeForgotten, VisitItem
  <2>. QED  BY <1>3, <1>11 DEF IInv, NoEdgeForgotten
<1>21. Reachable'
  BY <1>3, <1>7 DEF IInv, Reachable, VisitItem
<1>. QED
  BY <1>12, <1>13, <1>14, <1>15, <1>16, <1>17, <1>18, <1>19, <1>20, <1>21 DEF IInv

LEMMA TakeStateInv ==
  ASSUME IInv, TakeState
  PROVE  IInv'
<1>. DEFINE N == Len(states)
            taken == Head(toProcess)
<1>1. TypeOK /\ WellFormed(g)
  BY StateFacts DEF IInv
<1>2. N \in Nat \ {0} /\ current \in 0 .. N /\ DOMAIN states = 1 .. N
  BY <1>1, StateFacts
<1>3. toProcess = [k \in 1 .. N - current |-> current + k]
  BY DEF IInv, QueueOrder
<1>4. current < N /\ taken = current + 1 /\ taken \in 1 .. N
  <2>1. toProcess \in Seq(1 .. N) /\ toProcess # <<>>
    BY <1>1, <1>2 DEF TypeOK, TakeState
  <2>2. Len(toProcess) \in Nat \ {0} /\ DOMAIN toProcess = 1 .. Len(toProcess)
    BY <2>1, EmptySeq, LenProperties
  <2>3. DOMAIN toProcess = 1 .. N - current
    BY <1>3
  <2>4. 1 \in 1 .. N - current
    <3>1. 1 \in DOMAIN toProcess
      BY <2>2
    <3>. QED  BY <2>3, <3>1
  <2>5. taken = toProcess[1]
    BY <2>1
  <2>6. taken = current + 1
    BY <1>3, <2>4, <2>5
  <2>. QED  BY <1>2, <2>4, <2>6
<1>5. toProcess' = [k \in 1 .. N - taken |-> taken + k]
  <2>1. toProcess \in Seq(1 .. N) /\ toProcess # <<>>
    BY <1>1, <1>2 DEF TypeOK, TakeState
  <2>2. Len(toProcess) \in Nat /\ DOMAIN toProcess = 1 .. Len(toProcess)
    BY <2>1, LenProperties
  <2>3. DOMAIN toProcess = 1 .. N - current
    BY <1>3
  <2>4. Len(toProcess) = N - current
    <3>1. N - current \in DOMAIN toProcess
      BY <1>2, <1>4, <2>3
    <3>2. N - current <= Len(toProcess)
      BY <1>2, <2>2, <3>1
    <3>3. Len(toProcess) \in 1 .. N - current
      BY <1>2, <1>4, <2>2, <2>3, <3>2
    <3>4. \A m, n \in Int : m <= n /\ n \in 1 .. m => n = m
      OBVIOUS
    <3>5. N - current \in Int /\ Len(toProcess) \in Int
      BY <1>2, <2>1
    <3>. QED  BY <3>2, <3>3, <3>4, <3>5
  <2>5. /\ toProcess' \in Seq(1 .. N)
        /\ Len(toProcess') = N - taken
        /\ \A k \in 1 .. N - taken : toProcess'[k] = toProcess[k + 1]
    BY <1>2, <1>4, <2>1, <2>4, HeadTailProperties DEF TakeState
  <2>6. DOMAIN toProcess' = 1 .. N - taken
    BY <2>5, LenProperties
  <2>7. ASSUME NEW k \in 1 .. N - taken PROVE toProcess[k + 1] = taken + k
    <3>1. k + 1 \in 1 .. N - current
      BY <1>2, <1>4
    <3>2. toProcess[k + 1] = current + (k + 1)
      BY <1>3, <3>1
    <3>. QED  BY <1>2, <1>4, <3>2
  <2>8. toProcess' = [k \in DOMAIN toProcess' |-> toProcess'[k]]
    BY <2>5
  <2>. QED  BY <2>5, <2>6, <2>7, <2>8
<1>6. /\ states[taken] \subseteq Item(g)
      /\ \A s \in NextSymbols(g, states[taken]) :
           s \in Symbol /\ Goto(g, states[taken], s) \in SUBSET Item(g)
  BY <1>1, <1>4, StateFacts, GotoItems
<1>7. TypeOK'
  <2>1. toProcess' \in Seq(1 .. N)
    BY <1>1, <1>2, HeadTailProperties DEF TypeOK, TakeState
  <2>2. /\ prepared' \in [DOMAIN prepared' -> SUBSET Item(g)]
        /\ DOMAIN prepared' \subseteq Symbol
    BY <1>6 DEF TakeState
  <2>. QED  BY <1>1, <1>2, <1>4, <2>1, <2>2 DEF TypeOK, TakeState
<1>8. QueueOrder'
  BY <1>5 DEF QueueOrder, TakeState
<1>9. PreparedIsGoto'
  BY <1>2, <1>4 DEF PreparedIsGoto, TakeState
<1>10. EdgesAreGoto'
  <2>. SUFFICES ASSUME NEW e \in transitions
                PROVE  /\ e[1] <= taken
                       /\ e[2] \in NextSymbols(g, states[e[1]])
                       /\ Kernel(states[e[3]]) = Goto(g, states[e[1]], e[2])
    BY DEF EdgesAreGoto, TakeState
  <2>1. e[1] \in 1 .. N /\ e[1] <= current
    BY <1>1, <1>2 DEF TypeOK, IInv, EdgesAreGoto
  <2>. QED  BY <1>2, <1>4, <2>1 DEF IInv, EdgesAreGoto
<1>11. NoEdgeForgotten'
  <2>. SUFFICES ASSUME NEW i \in 1 .. taken, NEW s \in NextSymbols(g, states[i])
                PROVE  \/ \E j \in DOMAIN states : <<i, s, j>> \in transitions
                       \/ i = taken /\ s \in DOMAIN prepared'
    BY DEF NoEdgeForgotten, TakeState
  <2>1. CASE i = taken
    BY <2>1 DEF TakeState
  <2>2. CASE i # taken
    <3>1. i \in 1 .. current
      BY <1>2, <1>4, <2>2
    <3>2. DOMAIN prepared = {}
      BY DEF TakeState, NoPrepared
    <3>. QED  BY <3>1, <3>2 DEF IInv, NoEdgeForgotten
  <2>. QED  BY <2>1, <2>2
<1>12. KernelsDistinct' /\ InitialKernel' /\ NewestIsClosing' /\ StatesAreLeast' /\ Reachable'
  BY DEF IInv, TakeState, KernelsDistinct, InitialKernel, NewestIsClosing,
         StatesAreLeast, Reachable
<1>. QED  BY <1>7, <1>8, <1>9, <1>10, <1>11, <1>12 DEF IInv

\* What is left to do with the prepared symbols once one of them is linked.
LEMMA LinkedSymbol ==
  ASSUME IInv, NEW s \in DOMAIN prepared, NEW k, prepared' = WithoutPrepared(s),
         transitions' = TransitionsTo(s, k),
         NEW i \in 1 .. current, NEW t \in NextSymbols(g, states[i]),
         ~ \E j \in DOMAIN states : <<i, t, j>> \in transitions'
  PROVE  \/ <<i, t, k>> \in transitions'
         \/ i = current /\ t \in DOMAIN prepared'
<1>1. i = current /\ t \in DOMAIN prepared
  BY DEF IInv, NoEdgeForgotten, TransitionsTo
<1>2. CASE t = s
  BY <1>1, <1>2 DEF TransitionsTo
<1>3. CASE t # s
  BY <1>1, <1>3 DEF WithoutPrepared
<1>. QED  BY <1>2, <1>3

LEMMA FindStateInv ==
  ASSUME IInv, NEW s \in DOMAIN prepared, FindState(s)
  PROVE  IInv'
<1>1. TypeOK /\ WellFormed(g)
  BY StateFacts DEF IInv
<1>2. Len(states) \in Nat \ {0} /\ DOMAIN states = 1 .. Len(states)
      /\ current \in 1 .. Len(states)
  BY <1>1, StateFacts DEF IInv, PreparedIsGoto
<1>3. PICK k \in DOMAIN states : /\ Kernel(states[k]) = Kernel(prepared[s])
                                 /\ transitions' = TransitionsTo(s, k)
  BY DEF FindState, StatesLike
<1>4. /\ s \in Symbol /\ s \in NextSymbols(g, states[current])
      /\ Kernel(states[k]) = Goto(g, states[current], s)
  <2>1. s \in NextSymbols(g, states[current])
        /\ prepared[s] = Goto(g, states[current], s)
    BY DEF IInv, PreparedIsGoto
  <2>2. states[current] \in SUBSET Item(g)
    BY <1>1, <1>2, StateFacts
  <2>. QED  BY <1>1, <1>3, <2>1, <2>2, GotoItems
<1>5. \A e \in transitions' : e \in transitions \/ e = <<current, s, k>>
  BY <1>3 DEF TransitionsTo
<1>6. TypeOK'
  <2>1. transitions' \subseteq (DOMAIN states) \X Symbol \X (DOMAIN states)
    BY <1>1, <1>2, <1>4, <1>5 DEF TypeOK
  <2>. QED  BY <1>1, <2>1 DEF TypeOK, FindState, WithoutPrepared
<1>7. PreparedIsGoto'
  BY DEF IInv, PreparedIsGoto, FindState, WithoutPrepared
<1>8. EdgesAreGoto'
  <2>. SUFFICES ASSUME NEW e \in transitions'
                PROVE  /\ e[1] <= current
                       /\ e[2] \in NextSymbols(g, states[e[1]])
                       /\ Kernel(states[e[3]]) = Goto(g, states[e[1]], e[2])
    BY DEF EdgesAreGoto, FindState
  <2>1. CASE e \in transitions
    BY <2>1 DEF IInv, EdgesAreGoto
  <2>2. CASE e = <<current, s, k>>
    BY <2>2, <1>2, <1>4
  <2>. QED  BY <1>5, <2>1, <2>2
<1>9. NoEdgeForgotten'
  BY <1>3, LinkedSymbol DEF NoEdgeForgotten, FindState
<1>10. Reachable'
  BY <1>3 DEF IInv, Reachable, FindState, TransitionsTo
<1>11. QueueOrder' /\ KernelsDistinct' /\ InitialKernel' /\ NewestIsClosing' /\ StatesAreLeast'
  BY DEF IInv, FindState, QueueOrder, KernelsDistinct, InitialKernel,
         NewestIsClosing, StatesAreLeast
<1>. QED  BY <1>6, <1>7, <1>8, <1>9, <1>10, <1>11 DEF IInv

LEMMA AddStateInv ==
  ASSUME IInv, NEW s \in DOMAIN prepared, AddState(s)
  PROVE  IInv'
<1>. DEFINE N == Len(states)
            new == prepared[s]
<1>1. TypeOK /\ WellFormed(g) /\ closing = {}
  BY StateFacts DEF IInv, AddState, IsNextPrepared
<1>2. N \in Nat \ {0} /\ DOMAIN states = 1 .. N /\ current \in 1 .. N
  BY <1>1, StateFacts DEF IInv, PreparedIsGoto
<1>3. /\ s \in Symbol /\ s \in NextSymbols(g, states[current])
      /\ new = Goto(g, states[current], s)
      /\ new \subseteq Item(g) /\ new # {} /\ Kernel(new) = new
  <2>1. s \in NextSymbols(g, states[current]) /\ new = Goto(g, states[current], s)
    BY DEF IInv, PreparedIsGoto
  <2>2. states[current] \in SUBSET Item(g)
    BY <1>1, <1>2, StateFacts
  <2>. QED  BY <1>1, <2>1, <2>2, GotoItems
<1>4. states' = Append(states, new) /\ states \in Seq(SUBSET Item(g))
  BY <1>1 DEF AddState, TypeOK
<1>5. /\ states' \in Seq(SUBSET Item(g)) /\ Len(states') = N + 1
      /\ DOMAIN states' = 1 .. N + 1 /\ states' # <<>>
  BY <1>2, <1>3, <1>4, EmptySeq, LenProperties
<1>6. ASSUME NEW i \in 1 .. N PROVE states'[i] = states[i] /\ i \in 1 .. N + 1
  BY <1>2, <1>4
<1>7. states'[N + 1] = new
  BY <1>4
<1>8. ASSUME NEW i \in 1 .. N + 1 PROVE i \in 1 .. N \/ i = N + 1
  BY <1>2
<1>9. /\ transitions' = transitions \cup {<<current, s, N + 1>>}
      /\ closing' = new /\ toProcess' = Append(toProcess, N + 1)
      /\ UNCHANGED <<g, current>> /\ prepared' = WithoutPrepared(s)
  BY DEF AddState, TransitionsTo, NewIndex, Queued
<1>10. ASSUME NEW e \in transitions
       PROVE  /\ e[1] \in 1 .. N /\ e[2] \in Symbol /\ e[3] \in 1 .. N
              /\ e = <<e[1], e[2], e[3]>>
  BY <1>1, <1>2 DEF TypeOK
<1>11. TypeOK'
  <2>1. transitions' \subseteq (1 .. N + 1) \X Symbol \X (1 .. N + 1)
    <3>1. <<current, s, N + 1>> \in (1 .. N + 1) \X Symbol \X (1 .. N + 1)
      BY <1>2, <1>3
    <3>2. \A e \in transitions : e \in (1 .. N + 1) \X Symbol \X (1 .. N + 1)
      BY <1>6, <1>10
    <3>. QED  BY <1>9, <3>1, <3>2
  <2>2. toProcess' \in Seq(1 .. N + 1)
    <3>1. toProcess \in Seq(1 .. N + 1)
      BY <1>1, <1>2, SeqMonotonic, 1 .. N \subseteq 1 .. N + 1 DEF TypeOK
    <3>. QED  BY <1>2, <1>9, <3>1
  <2>3. current' \in 0 .. Len(states')
    BY <1>2, <1>5, <1>9
  <2>4. /\ prepared' \in [DOMAIN prepared' -> SUBSET Item(g)]
        /\ DOMAIN prepared' \subseteq Symbol
    BY <1>1, <1>9 DEF TypeOK, WithoutPrepared
  <2>. QED  BY <1>1, <1>5, <1>7, <1>9, <2>1, <2>2, <2>3, <2>4 DEF TypeOK
<1>12. QueueOrder'
  <2>1. /\ toProcess = [k \in 1 .. N - current |-> current + k]
        /\ toProcess \in Seq(1 .. N)
    BY <1>1, <1>2 DEF IInv, QueueOrder, TypeOK
  <2>2. N - current \in Nat /\ N + 1 - current \in Nat
    BY <1>2
  <2>3. Len(toProcess) = N - current
    BY <2>1, <2>2
  <2>4. toProcess' = [k \in 1 .. N + 1 - current |-> current + k]
    <3>1. /\ toProcess' \in Seq((1 .. N) \cup {N + 1})
          /\ Len(toProcess') = N - current + 1
          /\ toProcess'[N - current + 1] = N + 1
          /\ \A k \in 1 .. N - current : toProcess'[k] = toProcess[k]
      <4>. DEFINE q == toProcess
      <4>1. q \in Seq((1 .. N) \cup {N + 1})
        BY <2>1, SeqMonotonic, 1 .. N \subseteq (1 .. N) \cup {N + 1}
      <4>2. toProcess' = Append(q, N + 1) /\ Len(q) = N - current
        BY <1>9, <2>3
      <4>. HIDE DEF q
      <4>3. \A k \in 1 .. Len(q) : Append(q, N + 1)[k] = q[k]
        BY <4>1
      <4>4. Append(q, N + 1)[Len(q) + 1] = N + 1 /\ Len(Append(q, N + 1)) = Len(q) + 1
        BY <4>1
      <4>. QED  BY <4>1, <4>2, <4>3, <4>4 DEF q
    <3>2. DOMAIN toProcess' = 1 .. N + 1 - current
      BY <1>2, <3>1, LenProperties
    <3>3. ASSUME NEW k \in 1 .. N + 1 - current PROVE toProcess'[k] = current + k
      <4>1. CASE k = N - current + 1
        BY <4>1, <1>2, <3>1
      <4>2. CASE k # N - current + 1
        <5>1. k \in 1 .. N - current
          BY <4>2, <1>2
        <5>. QED  BY <5>1, <2>1, <3>1
      <4>. QED  BY <4>1, <4>2
    <3>4. toProcess' = [k \in DOMAIN toProcess' |-> toProcess'[k]]
      BY <3>1
    <3>. QED  BY <3>2, <3>3, <3>4
  <2>. QED  BY <1>2, <1>5, <1>9, <2>4 DEF QueueOrder
<1>13. PreparedIsGoto'
  BY <1>2, <1>6, <1>9 DEF IInv, PreparedIsGoto, WithoutPrepared
<1>14. KernelsDistinct'
  <2>1. ASSUME NEW i \in 1 .. N PROVE Kernel(states'[i]) # Kernel(new)
    BY <1>2, <1>6 DEF AddState, StatesLike
  <2>2. ASSUME NEW i \in 1 .. N, NEW j \in 1 .. N, Kernel(states'[i]) = Kernel(states'[j])
        PROVE  i = j
    BY <1>2, <1>6, <2>2 DEF IInv, KernelsDistinct
  <2>. QED  BY <1>5, <1>7, <1>8, <2>1, <2>2 DEF KernelsDistinct
<1>15. InitialKernel'
  BY <1>2, <1>6 DEF IInv, InitialKernel
<1>16. NewestIsClosing'
  BY <1>1, <1>2, <1>5, <1>6, <1>7, <1>8, <1>9 DEF IInv, NewestIsClosing
<1>17. StatesAreLeast'
  <2>. SUFFICES ASSUME NEW i \in 1 .. N + 1, NEW S \in SUBSET Item(g),
                       Kernel(states'[i]) \subseteq S, Closed(g, S)
                PROVE  states'[i] \subseteq S
    BY <1>5, <1>9 DEF StatesAreLeast
  <2>1. CASE i \in 1 .. N
    BY <2>1, <1>2, <1>6 DEF IInv, StatesAreLeast
  <2>2. CASE i = N + 1
    BY <2>2, <1>3, <1>7
  <2>. QED  BY <1>8, <2>1, <2>2
<1>18. EdgesAreGoto'
  <2>. SUFFICES ASSUME NEW e \in transitions'
                PROVE  /\ e[1] <= current
                       /\ e[2] \in NextSymbols(g, states'[e[1]])
                       /\ Kernel(states'[e[3]]) = Goto(g, states'[e[1]], e[2])
    BY <1>9 DEF EdgesAreGoto
  <2>1. CASE e \in transitions
    BY <2>1, <1>6, <1>10 DEF IInv, EdgesAreGoto
  <2>2. CASE e = <<current, s, N + 1>>
    BY <2>2, <1>2, <1>3, <1>6, <1>7
  <2>. QED  BY <1>9, <2>1, <2>2
<1>19. NoEdgeForgotten'
  <2>. SUFFICES ASSUME NEW i \in 1 .. current, NEW t \in NextSymbols(g, states'[i])
                PROVE  \/ \E j \in 1 .. N + 1 : <<i, t, j>> \in transitions'
                       \/ i = current /\ t \in DOMAIN prepared'
    BY <1>5, <1>9 DEF NoEdgeForgotten
  <2>1. i \in 1 .. N
    BY <1>2
  <2>2. t \in NextSymbols(g, states[i])
    BY <1>6, <2>1
  <2>3. CASE \E j \in DOMAIN states : <<i, t, j>> \in transitions'
    BY <2>3, <1>2, <1>6
  <2>4. CASE ~ \E j \in DOMAIN states : <<i, t, j>> \in transitions'
    <3>1. \/ <<i, t, N + 1>> \in transitions'
          \/ i = current /\ t \in DOMAIN prepared'
      BY <1>9, <2>2, <2>4, LinkedSymbol DEF TransitionsTo
    <3>. QED  BY <1>2, <3>1
  <2>. QED  BY <2>3, <2>4
<1>20. Reachable'
  <2>. SUFFICES ASSUME NEW j \in (1 .. N + 1) \ {1}
                PROVE  \E e \in transitions' : e[3] = j /\ e[1] < j
    BY <1>5 DEF Reachable
  <2>1. CASE j \in 1 .. N
    BY <2>1, <1>2, <1>9 DEF IInv, Reachable
  <2>2. CASE j = N + 1
    <3>1. <<current, s, N + 1>> \in transitions'
      BY <1>9
    <3>2. current < N + 1
      BY <1>2
    <3>. QED  BY <2>2, <3>1, <3>2
  <2>. QED  BY <1>8, <2>1, <2>2
<1>. QED
  BY <1>11, <1>12, <1>13, <1>14, <1>15, <1>16, <1>17, <1>18, <1>19, <1>20 DEF IInv

-----------------------------------------------------------------------------
(* The theorems *)

LEMMA NextInv == IInv /\ [Next]_vars => IInv'
<1>. SUFFICES ASSUME IInv, [Next]_vars PROVE IInv'
  OBVIOUS
<1>1. ASSUME NEW item \in closing, VisitItem(item) PROVE IInv'
  BY <1>1, VisitItemInv
<1>2. CASE TakeState
  BY <1>2, TakeStateInv
<1>3. ASSUME NEW s \in DOMAIN prepared, FindState(s) PROVE IInv'
  BY <1>3, FindStateInv
<1>4. ASSUME NEW s \in DOMAIN prepared, AddState(s) PROVE IInv'
  BY <1>4, AddStateInv
<1>5. CASE UNCHANGED vars
  BY <1>5 DEF vars, IInv, TypeOK, QueueOrder, PreparedIsGoto, KernelsDistinct,
              InitialKernel, NewestIsClosing, StatesAreLeast, EdgesAreGoto,
              NoEdgeForgotten, Reachable
<1>. QED  BY <1>1, <1>2, <1>3, <1>4, <1>5 DEF Next, Terminated

\* construct_states() keeps the inductive invariant, for every grammar.
THEOREM Invariant == Spec => []IInv
BY InitInv, NextInv, PTL DEF Spec

\* Indices, items and symbols stay in range.
THEOREM TypeCorrect == Spec => []TypeOK
<1>1. IInv => TypeOK
  BY DEF IInv
<1>. QED  BY <1>1, Invariant, PTL

\* add_state() never creates two states with one kernel.
THEOREM NoDuplicateStates == Spec => []KernelsDistinct
<1>1. IInv => KernelsDistinct
  BY DEF IInv
<1>. QED  BY <1>1, Invariant, PTL

\* The queue holds each unprocessed state once, oldest first.
THEOREM QueueInOrder == Spec => []QueueOrder
<1>1. IInv => QueueOrder
  BY DEF IInv
<1>. QED  BY <1>1, Invariant, PTL

LEMMA ClosureFacts == IInv => StatesAreClosures
<1>. SUFFICES ASSUME IInv PROVE StatesAreClosures
  OBVIOUS
<1>1. TypeOK
  BY DEF IInv
<1>2. ASSUME NEW i \in DOMAIN states, NEW S \in SUBSET states[i],
             Kernel(states[i]) \subseteq S, Closed(g, S)
      PROVE  S = states[i]
  <2>1. S \in SUBSET Item(g)
    BY <1>1, StateFacts
  <2>2. states[i] \subseteq S
    BY <1>2, <2>1 DEF IInv, StatesAreLeast
  <2>. QED  BY <2>2
<1>. QED  BY <1>2 DEF IInv, NewestIsClosing, StatesAreClosures

\* Whatever the order of its worklist, closure() leaves the least closed set.
THEOREM ClosuresAreLeast == Spec => []StatesAreClosures
BY ClosureFacts, Invariant, PTL

\* A transition of the automaton is a goto of its source, for good.
THEOREM TransitionsAreGotos == Spec => [](EdgesAreGoto /\ NoEdgeForgotten)
<1>1. IInv => EdgesAreGoto /\ NoEdgeForgotten
  BY DEF IInv
<1>. QED  BY <1>1, Invariant, PTL

-----------------------------------------------------------------------------
(* construct_states() implements LR0 *)

\* The operators of Grammar mean the same in the instance of LR0.
LEMMA SameOperators ==
  ASSUME NEW gr, NEW items, NEW kernel, NEW s
  PROVE  /\ Canonical!NextSymbols(gr, items) = NextSymbols(gr, items)
         /\ Canonical!Goto(gr, items, s) = Goto(gr, items, s)
         /\ Canonical!NewItem(s) = NewItem(s)
         /\ Canonical!StartRule = StartRule
         /\ Canonical!IsClosureOf(gr, items, kernel) <=> IsClosureOf(gr, items, kernel)
<1>. USE DEF Canonical!NextSymbols, NextSymbols, Canonical!Goto, Goto,
             Canonical!IsClosureOf, IsClosureOf, Canonical!Closed, Closed,
             Canonical!Predicted, Predicted, Canonical!Reads, Reads,
             Canonical!ReadSymbol, ReadSymbol, Canonical!IsFinal, IsFinal,
             Canonical!Rhs, Rhs, Canonical!NewItem, NewItem, Canonical!Step, Step,
             Canonical!RuleIndex, RuleIndex, Canonical!EndSymbol, EndSymbol,
             Canonical!StartRule, StartRule
<1>. QED  OBVIOUS

FinishedAreClosures ==
  \A i \in DOMAIN states :
    i < Len(states) \/ closing = {} => IsClosureOf(g, states[i], Kernel(states[i]))

\* A state whose closure is finished is the closure of its kernel.
LEMMA FinishedClosures == IInv => FinishedAreClosures
<1>. SUFFICES ASSUME IInv, NEW i \in DOMAIN states, i < Len(states) \/ closing = {}
              PROVE  IsClosureOf(g, states[i], Kernel(states[i]))
  BY DEF FinishedAreClosures
<1>1. StatesAreClosures /\ TypeOK
  BY ClosureFacts DEF IInv
<1>2. Len(states) \in Nat /\ i \in 1 .. Len(states)
  BY <1>1, StateFacts
<1>3. Closed(g, states[i])
  BY <1>1, <1>2 DEF StatesAreClosures, Closed
<1>. QED  BY <1>1, <1>3 DEF StatesAreClosures, IsClosureOf, Kernel

LEMMA RefinesInit == Init => Canonical!Init
BY DEF Init, Canonical!Init, Finished

LEMMA RefinesStep ==
  ASSUME IInv, IInv', [Next]_vars
  PROVE  [Canonical!Grow]_<<g, Finished>>
<1>. DEFINE N == Len(states)
<1>1. TypeOK /\ N \in Nat \ {0} /\ DOMAIN states = 1 .. N
  BY StateFacts DEF IInv
<1>2. ASSUME NEW item \in closing, VisitItem(item)
      PROVE  [Canonical!Grow]_<<g, Finished>>
  <2>1. /\ Len(states') = N /\ DOMAIN states' = 1 .. N /\ g' = g /\ closing # {}
    BY <1>2, VisitItemStates DEF VisitItem
  <2>2. ASSUME NEW i \in 1 .. N, i # N PROVE states'[i] = states[i]
    BY <1>2, <2>2, VisitItemStates
  <2>. DEFINE Older == {k \in 1 .. N : k < N}
  <2>3. \A k : k \in Older <=> k \in 1 .. N /\ k # N
    BY <1>1
  <2>4. Finished = {states[i] : i \in Older}
    BY <1>1, <2>1 DEF Finished
  <2>5. CASE closing' # {}
    <3>1. Finished' = {states'[i] : i \in Older}
      BY <2>1, <2>5 DEF Finished
    <3>2. \A i \in Older : states'[i] = states[i]
      BY <2>2, <2>3
    <3>. QED  BY <2>1, <2>4, <3>1, <3>2
  <2>6. CASE closing' = {}
    <3>. DEFINE new == states'[N]
    <3>1. Finished' = {states'[i] : i \in 1 .. N}
      BY <2>1, <2>6 DEF Finished
    <3>2. N \in 1 .. N
      BY <1>1
    <3>3. Finished' = Finished \cup {new}
      BY <2>2, <2>3, <2>4, <3>1, <3>2
    <3>4. new \notin Finished
      <4>1. ASSUME NEW k \in 1 .. N, k # N PROVE Kernel(states'[k]) # Kernel(new)
        BY <2>1, <3>2, <4>1 DEF IInv, KernelsDistinct
      <4>. QED  BY <2>2, <2>3, <2>4, <4>1
    <3>5. Canonical!IsClosureOf(g, new, Kernel(new))
      <4>1. FinishedAreClosures'
        BY FinishedClosures, PTL
      <4>2. IsClosureOf(g', states'[N], Kernel(states'[N]))
        BY <2>1, <2>6, <3>2, <4>1 DEF FinishedAreClosures
      <4>. QED  BY <2>1, <4>2, SameOperators
    <3>6. CASE N = 1
      <4>1. Finished = {}
        BY <2>3, <2>4, <3>6
      <4>2. Kernel(new) = {Canonical!NewItem(Canonical!StartRule)}
        BY <3>6, SameOperators DEF IInv, InitialKernel
      <4>. QED  BY <2>1, <3>3, <3>4, <3>5, <4>1, <4>2 DEF Canonical!Grow
    <3>7. CASE N # 1
      <4>1. N \in (DOMAIN states') \ {1}
        BY <1>1, <2>1, <3>7
      <4>2. PICK e \in transitions' : e[3] = N /\ e[1] < N
        BY <4>1 DEF IInv, Reachable
      <4>3. /\ e[2] \in NextSymbols(g, states'[e[1]])
            /\ Kernel(new) = Goto(g, states'[e[1]], e[2])
        BY <2>1, <4>2 DEF IInv, EdgesAreGoto
      <4>4. e[1] \in 1 .. N /\ states'[e[1]] = states[e[1]]
        <5>1. e[1] \in 1 .. N /\ e[1] # N
          BY <1>1, <2>1, <4>2 DEF IInv, TypeOK
        <5>. QED  BY <2>2, <5>1
      <4>5. states[e[1]] \in Finished
        BY <2>4, <4>2, <4>4
      <4>6. Canonical!Follows(new, states[e[1]])
        <5>. DEFINE from == states[e[1]]
        <5>1. e[2] \in Canonical!NextSymbols(g, from)
          BY <4>3, <4>4, SameOperators
        <5>2. Kernel(new) = Canonical!Goto(g, from, e[2])
          BY <4>3, <4>4, SameOperators
        <5>3. Canonical!IsClosureOf(g, new, Canonical!Goto(g, from, e[2]))
          BY <3>5, <5>2
        <5>. QED  BY <5>1, <5>3 DEF Canonical!Follows
      <4>. QED  BY <2>1, <3>3, <3>4, <4>5, <4>6 DEF Canonical!Grow
    <3>. QED  BY <3>6, <3>7
  <2>. QED  BY <2>5, <2>6
<1>3. CASE TakeState
  BY <1>3 DEF TakeState, Finished
<1>4. ASSUME NEW s \in DOMAIN prepared, FindState(s)
      PROVE  [Canonical!Grow]_<<g, Finished>>
  BY <1>4 DEF FindState, Finished
<1>5. ASSUME NEW s \in DOMAIN prepared, AddState(s)
      PROVE  [Canonical!Grow]_<<g, Finished>>
  <2>1. closing = {} /\ states' = Append(states, prepared[s]) /\ g' = g
        /\ closing' = prepared[s]
    BY <1>5 DEF AddState, IsNextPrepared
  <2>2. Len(states') = N + 1 /\ DOMAIN states' = 1 .. N + 1
        /\ \A i \in 1 .. N : states'[i] = states[i]
    BY <1>1, <2>1 DEF TypeOK
  <2>3. closing' # {}
    <3>1. s \in NextSymbols(g, states[current]) /\ current # 0
          /\ prepared[s] = Goto(g, states[current], s)
      BY DEF IInv, PreparedIsGoto
    <3>2. states[current] \in SUBSET Item(g) /\ WellFormed(g)
      BY <1>1, <3>1, StateFacts
    <3>. QED  BY <2>1, <3>1, <3>2, GotoItems
  <2>4. \A k : k \in 1 .. N <=> k \in 1 .. N + 1 /\ k < N + 1
    BY <1>1
  <2>5. Finished' = {states'[i] : i \in 1 .. N}
    BY <2>2, <2>3, <2>4 DEF Finished
  <2>6. Finished = {states[i] : i \in 1 .. N}
    BY <1>1, <2>1 DEF Finished
  <2>. QED  BY <2>1, <2>2, <2>5, <2>6
<1>6. CASE UNCHANGED vars
  BY <1>6 DEF vars, Finished
<1>. QED  BY <1>2, <1>3, <1>4, <1>5, <1>6 DEF Next, Terminated

\* construct_states() builds the canonical LR(0) collection of its grammar.
THEOREM ImplementsLR0 == Spec => BuildsCanonicalCollection
<1>1. Init => Canonical!Init
  BY RefinesInit
<1>2. IInv /\ IInv' /\ [Next]_vars => [Canonical!Grow]_<<g, Finished>>
  BY RefinesStep
<1>. QED
  BY <1>1, <1>2, Invariant, PTL DEF Spec, Canonical!Spec, BuildsCanonicalCollection

\* Once the queue is empty, every next symbol of every state has one transition.
LEMMA EveryTransition ==
  ASSUME IInv, Done
  PROVE  \A i \in DOMAIN states : \A s \in NextSymbols(g, states[i]) :
           \E j \in DOMAIN states :
             /\ <<i, s, j>> \in transitions
             /\ Kernel(states[j]) = Goto(g, states[i], s)
             /\ {e \in transitions : e[1] = i /\ e[2] = s} = {<<i, s, j>>}
<1>. DEFINE N == Len(states)
<1>1. /\ TypeOK /\ N \in Nat \ {0} /\ DOMAIN states = 1 .. N
      /\ current \in 0 .. N /\ closing = {}
  BY StateFacts DEF IInv, Done
<1>2. current = N
  <2>1. <<>> = [k \in 1 .. N - current |-> current + k]
    BY DEF IInv, QueueOrder, Done
  <2>2. DOMAIN <<>> = 1 .. N - current
    BY <2>1
  <2>3. DOMAIN <<>> = {}
    OBVIOUS
  <2>4. 1 \notin 1 .. N - current
    BY <2>2, <2>3
  <2>5. N \in Nat /\ current \in Nat /\ current <= N
    BY <1>1
  <2>. HIDE DEF N
  <2>6. ~(1 <= N - current)
    BY <2>4, <2>5
  <2>. QED  BY <2>5, <2>6
<1>3. ASSUME NEW i \in 1 .. N, NEW s \in NextSymbols(g, states[i])
      PROVE  \E j \in 1 .. N :
                /\ <<i, s, j>> \in transitions
                /\ Kernel(states[j]) = Goto(g, states[i], s)
                /\ {e \in transitions : e[1] = i /\ e[2] = s} = {<<i, s, j>>}
  <2>1. DOMAIN prepared = {}
    BY DEF Done, NoPrepared
  <2>2. PICK j \in 1 .. N : <<i, s, j>> \in transitions
    BY <1>1, <1>2, <2>1 DEF IInv, NoEdgeForgotten
  <2>3. Kernel(states[j]) = Goto(g, states[i], s)
    BY <2>2 DEF IInv, EdgesAreGoto
  <2>4. ASSUME NEW e \in transitions, e[1] = i, e[2] = s PROVE e = <<i, s, j>>
    <3>1. e[3] \in 1 .. N /\ e = <<e[1], e[2], e[3]>>
      BY <1>1 DEF TypeOK
    <3>2. Kernel(states[e[3]]) = Goto(g, states[i], s)
      BY <2>4 DEF IInv, EdgesAreGoto
    <3>3. e[3] = j
      BY <1>1, <2>3, <3>1, <3>2 DEF IInv, KernelsDistinct
    <3>. QED  BY <2>4, <3>1, <3>3
  <2>. QED  BY <2>2, <2>3, <2>4
<1>. QED  BY <1>1, <1>3

\* When it stops, the collection misses nothing and the automaton has exactly
\* one transition for each symbol that a state reads.
THEOREM StopsComplete == Spec => []DoneIsComplete
<1>1. IInv => DoneIsComplete
  <2>. SUFFICES ASSUME IInv, Done PROVE DoneIsComplete
    BY DEF DoneIsComplete
  <2>. DEFINE N == Len(states)
  <2>1. TypeOK /\ N \in Nat \ {0} /\ DOMAIN states = 1 .. N /\ closing = {}
    BY StateFacts DEF IInv, Done
  <2>3. ASSUME NEW i \in 1 .. N, NEW s \in NextSymbols(g, states[i])
        PROVE  \E j \in 1 .. N :
                  /\ <<i, s, j>> \in transitions
                  /\ Kernel(states[j]) = Goto(g, states[i], s)
                  /\ {e \in transitions : e[1] = i /\ e[2] = s} = {<<i, s, j>>}
    BY <2>1, EveryTransition
  <2>4. Canonical!Complete
    <3>1. Finished = {states[i] : i \in 1 .. N}
      BY <2>1 DEF Finished
    <3>2. Finished # {}
      <4>. HIDE DEF N
      <4>1. 1 \in 1 .. N
        BY <2>1
      <4>. QED  BY <3>1, <4>1
    <3>3. ASSUME NEW i \in 1 .. N, NEW s \in Canonical!NextSymbols(g, states[i])
          PROVE  \E items \in Finished :
                   Canonical!IsClosureOf(g, items, Canonical!Goto(g, states[i], s))
      <4>1. s \in NextSymbols(g, states[i])
        BY SameOperators
      <4>2. PICK j \in 1 .. N : Kernel(states[j]) = Goto(g, states[i], s)
        BY <2>3, <4>1
      <4>3. IsClosureOf(g, states[j], Goto(g, states[i], s))
        BY <2>1, <4>2, FinishedClosures DEF FinishedAreClosures
      <4>. QED  BY <3>1, <4>3, SameOperators
    <3>. QED  BY <3>1, <3>2, <3>3 DEF Canonical!Complete
  <2>. QED  BY <2>1, <2>3, <2>4 DEF DoneIsComplete
<1>. QED  BY <1>1, Invariant, PTL

-----------------------------------------------------------------------------
(* What the later phases rely on *)

\* An item of a state that is not its kernel was predicted by one of its items.
LEMMA PredictedByItem ==
  ASSUME IInv, Done, NEW i \in DOMAIN states, NEW r \in RuleIndex(g) \ {StartRule},
         NewItem(r) \in states[i]
  PROVE  \E item \in states[i] : Reads(g, item, g.rules[r].lhs)
<1>. SUFFICES ASSUME \A item \in states[i] : ~Reads(g, item, g.rules[r].lhs)
              PROVE  FALSE
  OBVIOUS
<1>. DEFINE S == states[i] \ {NewItem(r)}
<1>1. S \in SUBSET Item(g)
  BY StateFacts DEF IInv
<1>2. Kernel(states[i]) \subseteq S
  BY DEF Kernel, IsKernel, NewItem
<1>3. ASSUME NEW item \in S PROVE Predicted(g, item) \subseteq S
  <2>1. Predicted(g, item) \subseteq states[i]
    BY DEF IInv, NewestIsClosing, Done
  <2>2. NewItem(r) \notin Predicted(g, item)
    <3>. SUFFICES ASSUME NEW q \in RuleIndex(g), Reads(g, item, g.rules[q].lhs), NewItem(q) = NewItem(r)
                  PROVE  FALSE
      BY DEF Predicted
    <3>1. q = r
      BY DEF NewItem
    <3>. QED  BY <3>1
  <2>. QED  BY <2>1, <2>2
<1>4. Closed(g, S)
  BY <1>3 DEF Closed
<1>5. states[i] \subseteq S
  BY <1>1, <1>2, <1>4 DEF IInv, StatesAreLeast
<1>. QED  BY <1>5

\* A kernel item was stepped to over the symbol of any transition to its state.
LEMMA SteppedOver ==
  ASSUME IInv, NEW e \in transitions, NEW item \in states[e[3]], IsKernel(item)
  PROVE  \E from \in states[e[1]] : Reads(g, from, e[2]) /\ item = Step(from)
                                    /\ from \in Item(g) /\ e[2] # EndSymbol
<1>1. e[1] \in DOMAIN states /\ e[3] \in DOMAIN states
  BY DEF IInv, TypeOK
<1>2. item \in Goto(g, states[e[1]], e[2]) /\ e[2] \in NextSymbols(g, states[e[1]])
  BY DEF IInv, EdgesAreGoto, Kernel
<1>3. PICK from \in states[e[1]] : Reads(g, from, e[2]) /\ item = Step(from)
  BY <1>2 DEF Goto
<1>4. from \in Item(g)
  BY <1>1, <1>3, StateFacts DEF IInv
<1>. QED  BY <1>2, <1>3, <1>4 DEF NextSymbols

LEMMA SteppedItem ==
  ASSUME NEW from \in Item(g), NEW item, item = Step(from), NEW s, Reads(g, from, s)
  PROVE  /\ item.rule = from.rule /\ item.pos = from.pos + 1 /\ from.pos \in Nat /\ item.pos > 0
         /\ [item EXCEPT !.pos = @ - 1] = from
         /\ Rhs(g, item)[item.pos] = s
<1>1. from = [rule |-> from.rule, pos |-> from.pos] /\ from.pos \in Nat
  BY DEF Item
<1>2. item = [rule |-> from.rule, pos |-> from.pos + 1]
  BY <1>1 DEF Step
<1>3. (from.pos + 1) - 1 = from.pos
  BY <1>1
<1>4. [item EXCEPT !.pos = @ - 1] = [rule |-> from.rule, pos |-> from.pos]
  BY <1>2, <1>3
<1>. QED  BY <1>1, <1>2, <1>4 DEF Reads, ReadSymbol, Rhs

\* No start item but the first state's, which is there alone at the beginning.
LEMMA StartItems ==
  ASSUME IInv, NEW i \in DOMAIN states, NEW item \in states[i]
  PROVE  /\ i = 1 => item.pos = 0
         /\ item = NewItem(StartRule) => i = 1
         /\ GrammarFits(g) /\ item.rule = StartRule => item.pos < 2
<1>1. WellFormed(g) /\ item \in Item(g) /\ item.pos \in Nat
  BY StateFacts DEF IInv, Item
<1>2. i = 1 => item.pos = 0
  BY <1>1 DEF IInv, InitialKernel, Kernel, IsKernel, NewItem
<1>3. ASSUME i # 1, IsKernel(item)
      PROVE  \E from \in Item(g) : \E s \in Symbol \ {EndSymbol} : Reads(g, from, s) /\ item = Step(from)
  <2>1. PICK e \in transitions : e[3] = i
    BY <1>3 DEF IInv, Reachable
  <2>2. PICK from \in states[e[1]] : Reads(g, from, e[2]) /\ item = Step(from) /\ from \in Item(g) /\ e[2] # EndSymbol
    BY <1>3, <2>1, SteppedOver
  <2>3. e[2] \in Symbol
    BY DEF IInv, TypeOK
  <2>. QED  BY <2>2, <2>3
<1>4. ASSUME item = NewItem(StartRule), i # 1 PROVE FALSE
  <2>1. IsKernel(item) /\ item.pos = 0
    BY <1>4 DEF NewItem, IsKernel
  <2>2. PICK from \in Item(g) : \E s \in Symbol \ {EndSymbol} : Reads(g, from, s) /\ item = Step(from)
    BY <1>3, <1>4, <2>1
  <2>. QED  BY <2>1, <2>2, SteppedItem
<1>5. ASSUME GrammarFits(g), item.rule = StartRule, ~(item.pos < 2) PROVE FALSE
  <2>1. PICK start \in Symbol : Rhs(g, item) = <<start, EndSymbol>>
    <3>1. PICK start \in Symbol \ {EndSymbol} : g.rules[StartRule].rhs = <<start, EndSymbol>>
      BY <1>5 DEF GrammarFits
    <3>2. Rhs(g, item) = g.rules[StartRule].rhs
      BY <1>5 DEF Rhs
    <3>. QED  BY <3>1, <3>2
  <2>2. item.pos = 2
    <3>1. Len(<<start, EndSymbol>>) = 2
      OBVIOUS
    <3>2. item.pos <= Len(Rhs(g, item))
      BY <1>1 DEF Item, Rhs
    <3>. QED  BY <1>1, <1>5, <2>1, <3>1, <3>2
  <2>3. IsKernel(item) /\ i # 1
    BY <1>2, <2>2 DEF IsKernel
  <2>4. PICK from \in Item(g) : \E s \in Symbol \ {EndSymbol} : Reads(g, from, s) /\ item = Step(from)
    BY <1>3, <2>3
  <2>. QED  BY <2>1, <2>2, <2>4, SteppedItem
<1>. QED  BY <1>2, <1>4, <1>5

\* The automaton as the later phases find it.
Built == [grammar |-> g, states |-> states, transitions |-> transitions]

LEMMA BuiltFits ==
  ASSUME IInv, Done, GrammarFits(g)
  PROVE  AutomatonFits(Built)
<1>1. /\ Built.grammar = g /\ Built.states = states /\ Built.transitions = transitions
      /\ TypeOK /\ WellFormed(g) /\ 1 \in DOMAIN states
      /\ \A i \in DOMAIN states : states[i] \subseteq Item(g)
  BY StateFacts DEF Built, IInv
<1>2. \A item \in states[1] : item.pos = 0
  BY <1>1, StartItems
<1>3. ASSUME NEW e \in transitions
      PROVE  /\ e = <<e[1], e[2], e[3]>> /\ e[1] \in DOMAIN states /\ e[3] \in DOMAIN states
             /\ e[2] \in NextSymbols(g, states[e[1]]) /\ e[2] \in Symbol \ {EndSymbol}
  <2>1. e \in (DOMAIN states) \X Symbol \X (DOMAIN states)
    BY <1>1 DEF TypeOK
  <2>2. e[2] \in NextSymbols(g, states[e[1]])
    BY DEF IInv, EdgesAreGoto
  <2>. QED  BY <2>1, <2>2 DEF NextSymbols
<1>4. transitions \subseteq (DOMAIN states) \X (Symbol \ {EndSymbol}) \X (DOMAIN states)
  BY <1>3
<1>5. ASSUME NEW d \in transitions, NEW e \in transitions, d[1] = e[1], d[2] = e[2] PROVE d = e
  <2>1. /\ d[1] \in DOMAIN states /\ d[2] \in NextSymbols(g, states[d[1]])
        /\ d = <<d[1], d[2], d[3]>> /\ e = <<e[1], e[2], e[3]>>
    BY <1>3
  <2>2. PICK j \in DOMAIN states : {f \in transitions : f[1] = d[1] /\ f[2] = d[2]} = {<<d[1], d[2], j>>}
    BY <2>1, EveryTransition
  <2>. QED  BY <1>5, <2>2
<1>6. ASSUME NEW e \in transitions PROVE e[3] # 1 /\ CameOver(Built, e)
  <2>1. ASSUME NEW item \in states[e[3]], item.pos > 0
        PROVE  [item EXCEPT !.pos = @ - 1] \in states[e[1]] /\ Rhs(g, item)[item.pos] = e[2]
    <3>1. IsKernel(item)
      BY <2>1 DEF IsKernel
    <3>2. PICK from \in states[e[1]] : Reads(g, from, e[2]) /\ item = Step(from) /\ from \in Item(g)
      BY <3>1, SteppedOver
    <3>. QED  BY <3>2, SteppedItem
  <2>2. e[3] # 1
    <3>1. Goto(g, states[e[1]], e[2]) # {} /\ Kernel(states[e[3]]) = Goto(g, states[e[1]], e[2])
      BY <1>1, <1>3, GotoItems DEF IInv, EdgesAreGoto
    <3>2. PICK item \in states[e[3]] : IsKernel(item)
      BY <3>1 DEF Kernel
    <3>3. PICK from \in states[e[1]] : Reads(g, from, e[2]) /\ item = Step(from) /\ from \in Item(g)
      BY <3>2, SteppedOver
    <3>4. item.pos > 0
      BY <3>3, SteppedItem
    <3>. QED  BY <1>2, <3>2, <3>4
  <2>. QED  BY <1>1, <2>1, <2>2 DEF CameOver
<1>7. ASSUME NEW i \in DOMAIN states, NEW r \in RuleIndex(g) PROVE RuleBegins(Built, i, r)
  <2>. SUFFICES ASSUME NewItem(r) \in states[i]
                PROVE  IF r = StartRule THEN i = 1
                       ELSE Leads(Built, i, g.rules[r].lhs) /\ MidruleFits(Built, r, i)
    BY <1>1 DEF RuleBegins
  <2>1. CASE r = StartRule
    BY <2>1, StartItems
  <2>2. CASE r # StartRule
    <3>1. PICK item \in states[i] : Reads(g, item, g.rules[r].lhs)
      BY <2>2, PredictedByItem
    <3>2. g.rules[r].lhs \in NextSymbols(g, states[i])
      <4>1. g.rules[r].lhs # EndSymbol
        BY DEF GrammarFits
      <4>. QED  BY <3>1, <4>1 DEF Reads, NextSymbols
    <3>3. Leads(Built, i, g.rules[r].lhs)
      <4>1. PICK j \in DOMAIN states : <<i, g.rules[r].lhs, j>> \in transitions
        BY <3>2, EveryTransition
      <4>. QED  BY <1>1, <4>1 DEF Leads
    <3>4. MidruleFits(Built, r, i)
      <4>. SUFFICES ASSUME IsMidrule(g.rules[r])
                    PROVE  g.rules[r].rhs = <<>> /\ item.pos = g.rules[r].midrule
        BY <1>1 DEF MidruleFits
      <4>1. MidruleInPlace(g, r)
        BY DEF GrammarFits
      <4>2. /\ item.rule \in RuleIndex(g) /\ item.pos \in Nat /\ item.pos < Len(Rhs(g, item))
            /\ Rhs(g, item) \in Seq(Symbol) /\ Rhs(g, item)[item.pos + 1] = g.rules[r].lhs
        <5>1. item \in Item(g)
          BY <1>1
        <5>2. g.rules[item.rule] \in Rule
          BY <1>1, <5>1, ElementOfSeq DEF WellFormed, Item, RuleIndex
        <5>. QED  BY <3>1, <5>1, <5>2 DEF Item, Reads, ReadSymbol, IsFinal, Rhs, Rule
      <4>3. item.pos + 1 \in DOMAIN g.rules[item.rule].rhs
        BY <4>2 DEF Rhs
      <4>4. item.pos + 1 = g.rules[r].midrule + 1
        BY <4>1, <4>2, <4>3 DEF MidruleInPlace, Rhs
      <4>5. g.rules[r].midrule \in Nat
        <5>1. g.rules[r] \in Rule
          BY <1>1, ElementOfSeq DEF WellFormed, RuleIndex
        <5>. QED  BY <5>1 DEF Rule, IsMidrule
      <4>. QED  BY <4>1, <4>2, <4>4, <4>5 DEF MidruleInPlace
    <3>. QED  BY <2>2, <3>3, <3>4
  <2>. QED  BY <2>1, <2>2
<1>8. \A i \in DOMAIN states : \A item \in states[i] : item.rule = StartRule => item.pos < 2
  BY StartItems
<1>9. states \in Seq(SUBSET Item(g)) /\ states # <<>>
  BY <1>1 DEF TypeOK
<1>. QED
  BY <1>1, <1>2, <1>4, <1>5, <1>6, <1>7, <1>8, <1>9 DEF AutomatonFits

\* Of a grammar as the builders leave it, construct_states() makes an automaton as
\* the tables and parse() need it: states on whose stack parse() can rely, a goto
\* wherever a rule begins, and @end never shifted.
THEOREM LeavesAutomaton ==
  ASSUME \A gr \in Grammars : GrammarFits(gr)
  PROVE  Spec => [](Done => AutomatonFits(Built))
<1>1. IInv => (Done => AutomatonFits(Built))
  BY BuiltFits DEF IInv, TypeOK
<1>. QED  BY <1>1, Invariant, PTL

=============================================================================
