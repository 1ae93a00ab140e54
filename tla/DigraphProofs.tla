--------------------------- MODULE DigraphProofs ---------------------------
(***************************************************************************)
(* Proofs about digraph_algo(), for every relation, base function and      *)
(* order of traversal.                                                     *)
(***************************************************************************)
EXTENDS Digraph, SequenceTheorems, FiniteSetTheorems, TLAPS

Frame == [node : Node, depth : Nat, todo : SUBSET Node, waiting : SUBSET Node]

-----------------------------------------------------------------------------
(* F as the least solution *)

LEMMA RelatedNodes ==
  ASSUME rel \in Relations, NEW x
  PROVE  Related(x) \in SUBSET Node
<1>1. PICK keys \in SUBSET Node : rel \in [keys -> SUBSET Node]
  BY RelationsAssumption
<1>. QED  BY <1>1 DEF Related

\* F contains the base and what the related nodes have.
LEMMA LeastContains ==
  ASSUME rel \in Relations, base \in Bases, NEW x \in Node
  PROVE  /\ Least(x) \in SUBSET Value
         /\ base[x] \subseteq Least(x)
         /\ \A y \in Related(x) : Least(y) \subseteq Least(x)
<1>1. base[x] \subseteq Least(x)
  BY BasesAssumption DEF Least, Spreads
<1>2. ASSUME NEW y \in Related(x), NEW v \in Least(y) PROVE v \in Least(x)
  BY <1>2 DEF Least, Spreads
<1>. QED  BY <1>1, <1>2 DEF Least

\* ... and nothing else.
LEMMA LeastIsUnion ==
  ASSUME rel \in Relations, base \in Bases, NEW x \in Node
  PROVE  Least(x) \subseteq base[x] \cup UNION {Least(y) : y \in Related(x) \ {x}}
<1>. SUFFICES ASSUME NEW v \in Least(x), v \notin base[x],
                     \A y \in Related(x) \ {x} : v \notin Least(y)
              PROVE  FALSE
  OBVIOUS
<1>. DEFINE H == {n \in Node : v \in Least(n)}
            S == H \ {x}
<1>1. v \in Value /\ \A T \in SUBSET Node : Spreads(v, T) => x \in T
  BY DEF Least
<1>2. Spreads(v, S)
  <2>1. ASSUME NEW n \in Node, v \in base[n] PROVE n \in S
    BY <2>1, LeastContains
  <2>2. ASSUME NEW n \in Node, NEW y \in Related(n), y \in S PROVE n \in S
    <3>1. v \in Least(n)
      BY <2>2, LeastContains
    <3>2. n # x
      BY <2>2
    <3>. QED  BY <3>1, <3>2
  <2>. QED  BY <2>1, <2>2 DEF Spreads
<1>. QED  BY <1>1, <1>2

-----------------------------------------------------------------------------
(* The inductive invariant *)

\* The explicit stack is the stack of calls: no set of nodes is ever merged.
StackIsCalls ==
  /\ Len(stack) = Len(frames)
  /\ \A k \in DOMAIN frames :
       /\ stack[k] = frames[k].node
       /\ frames[k].depth = k
       /\ depths[frames[k].node] = k

\* A call below the top waits for the call above it.
CallsWait ==
  /\ \A k \in DOMAIN frames : k < Len(frames) => frames[k].waiting = {frames[k + 1].node}
  /\ \A k \in DOMAIN frames : \A y, z \in frames[k].waiting : depths[y] # 0 /\ y = z

\* On a relation without loops a call has what it has finished with.
CallsHaveMerged ==
  Loopless =>
    \A k \in DOMAIN frames :
      /\ base[frames[k].node] \subseteq f[frames[k].node]
      /\ \A y \in Related(frames[k].node) \ (frames[k].todo \cup frames[k].waiting \cup {frames[k].node}) :
           Least(y) \subseteq f[frames[k].node]

Inv == TypeOK /\ StackIsCalls /\ CallsWait /\ Sound /\ LooplessExact /\ CallsHaveMerged

LEMMA InitInv == Init => Inv
<1>. SUFFICES ASSUME Init PROVE Inv
  OBVIOUS
<1>1. frames = <<>> /\ stack = <<>> /\ DOMAIN frames = {} /\ Len(frames) = 0 /\ Len(stack) = 0
  BY DEF Init
<1>2. TypeOK
  BY <1>1 DEF Init, TypeOK
<1>3. StackIsCalls /\ CallsWait /\ CallsHaveMerged
  BY <1>1 DEF StackIsCalls, CallsWait, CallsHaveMerged
<1>4. Sound /\ LooplessExact
  BY DEF Init, Sound, LooplessExact
<1>. QED  BY <1>2, <1>3, <1>4 DEF Inv

\* What a new call leaves of the calls and of the stack.
LEMMA EnterShape ==
  ASSUME TypeOK, NEW x \in Node, NEW callers \in Seq(Frame), NEW d \in Nat,
         d = Len(stack), Len(callers) = d, Enter(x, callers)
  PROVE  /\ frames' \in Seq(Frame) /\ stack' \in Seq(Node)
         /\ Len(frames') = d + 1 /\ DOMAIN frames' = 1 .. d + 1
         /\ Len(stack') = d + 1
         /\ \A k \in 1 .. d : frames'[k] = callers[k] /\ stack'[k] = stack[k]
         /\ frames'[d + 1].node = x /\ frames'[d + 1].depth = d + 1
         /\ frames'[d + 1].todo = Related(x) /\ frames'[d + 1].waiting = {}
         /\ stack'[d + 1] = x
         /\ depths' \in [Node -> Nat] /\ depths'[x] = d + 1
         /\ \A n \in Node \ {x} : depths'[n] = depths[n]
         /\ f' \in [Node -> SUBSET Value] /\ f'[x] = base[x]
         /\ \A n \in Node \ {x} : f'[n] = f[n]
<1>. DEFINE call == [node |-> x, depth |-> d + 1, todo |-> Related(x), waiting |-> {}]
<1>1. call \in Frame
  <2>1. Related(x) \in SUBSET Node
    BY RelatedNodes DEF TypeOK
  <2>. QED  BY <2>1 DEF Frame
<1>2. frames' = Append(callers, call) /\ stack' = Append(stack, x)
  BY DEF Enter
<1>3. stack \in Seq(Node)
  BY DEF TypeOK
<1>. HIDE DEF call
<1>4. /\ frames' \in Seq(Frame) /\ Len(frames') = d + 1 /\ DOMAIN frames' = 1 .. d + 1
      /\ \A k \in 1 .. d : frames'[k] = callers[k]
      /\ frames'[d + 1] = call
  BY <1>1, <1>2
<1>5. /\ stack' \in Seq(Node) /\ Len(stack') = d + 1
      /\ \A k \in 1 .. d : stack'[k] = stack[k]
      /\ stack'[d + 1] = x
  BY <1>2, <1>3
<1>6. /\ depths' \in [Node -> Nat] /\ depths'[x] = d + 1
      /\ \A n \in Node \ {x} : depths'[n] = depths[n]
  BY DEF Enter, TypeOK
<1>7. /\ f' \in [Node -> SUBSET Value] /\ f'[x] = base[x]
      /\ \A n \in Node \ {x} : f'[n] = f[n]
  BY BasesAssumption DEF Enter, InitialValue, TypeOK
<1>. QED  BY <1>4, <1>5, <1>6, <1>7 DEF call

\* What the invariant says of each call.
LEMMA CallFacts ==
  ASSUME Inv
  PROVE  /\ frames \in Seq(Frame)
         /\ Len(frames) \in Nat /\ DOMAIN frames = 1 .. Len(frames) /\ Len(stack) = Len(frames)
         /\ \A k \in 1 .. Len(frames) :
              /\ frames[k].node \in Node /\ frames[k].depth = k
              /\ frames[k].todo \in SUBSET Node /\ frames[k].waiting \in SUBSET Node
              /\ stack[k] = frames[k].node /\ depths[frames[k].node] = k
<1>1. /\ frames \in Seq(Frame)
      /\ Len(frames) \in Nat /\ DOMAIN frames = 1 .. Len(frames) /\ Len(stack) = Len(frames)
  BY DEF Inv, TypeOK, StackIsCalls, Frame
<1>2. ASSUME NEW k \in 1 .. Len(frames)
      PROVE  /\ frames[k].node \in Node /\ frames[k].depth = k
             /\ frames[k].todo \in SUBSET Node /\ frames[k].waiting \in SUBSET Node
             /\ stack[k] = frames[k].node /\ depths[frames[k].node] = k
  <2>1. frames[k] \in Frame
    BY <1>1
  <2>. QED  BY <1>1, <2>1 DEF Frame, Inv, StackIsCalls
<1>. QED  BY <1>1, <1>2

\* F depends on the relation and the base alone.
LEMMA SameRelation ==
  ASSUME rel' = rel, base' = base
  PROVE  /\ Loopless' = Loopless
         /\ \A n : Related(n)' = Related(n)
         /\ \A n : Least(n)' = Least(n)
<1>1. \A n : Related(n)' = Related(n)
  BY DEF Related
<1>. QED  BY <1>1 DEF Loopless, Least, Spreads

\* A new call keeps the invariant; the call below it, if any, waits for it.
LEMMA EnterInv ==
  ASSUME Inv, NEW x \in Node, NEW callers \in Seq(Frame), Enter(x, callers),
         Len(callers) = Len(frames), rel' = rel, base' = base, roots' \subseteq DOMAIN rel,
         x \notin Active,
         \A k \in 1 .. Len(frames) :
           /\ callers[k].node = frames[k].node /\ callers[k].depth = frames[k].depth
           /\ callers[k].todo = frames[k].todo
           /\ k < Len(frames) => callers[k].waiting = frames[k].waiting
           /\ k = Len(frames) => /\ callers[k].waiting = {x} /\ frames[k].waiting = {}
                                 /\ x \in frames[k].todo
  PROVE  Inv'
<1>. DEFINE d == Len(frames)
<1>1. TypeOK /\ d \in Nat /\ d = Len(stack) /\ Len(callers) = d /\ DOMAIN frames = 1 .. d
  BY CallFacts DEF Inv
<1>2. /\ frames' \in Seq(Frame) /\ stack' \in Seq(Node)
      /\ Len(frames') = d + 1 /\ DOMAIN frames' = 1 .. d + 1
      /\ Len(stack') = d + 1
      /\ \A k \in 1 .. d : frames'[k] = callers[k] /\ stack'[k] = stack[k]
      /\ frames'[d + 1].node = x /\ frames'[d + 1].depth = d + 1
      /\ frames'[d + 1].todo = Related(x) /\ frames'[d + 1].waiting = {}
      /\ stack'[d + 1] = x
      /\ depths' \in [Node -> Nat] /\ depths'[x] = d + 1
      /\ \A n \in Node \ {x} : depths'[n] = depths[n]
      /\ f' \in [Node -> SUBSET Value] /\ f'[x] = base[x]
      /\ \A n \in Node \ {x} : f'[n] = f[n]
  BY <1>1, EnterShape
<1>3. \A k \in 1 .. d : /\ frames[k].node \in Node \ {x} /\ frames[k].depth = k
                        /\ stack[k] = frames[k].node /\ depths[frames[k].node] = k
  <2>1. \A k \in 1 .. d : frames[k].node # x
    BY <1>1 DEF Active
  <2>. QED  BY <1>1, <2>1, CallFacts
<1>12. \A k \in 1 .. d : /\ frames'[k].node = frames[k].node
                         /\ frames'[k].depth = frames[k].depth
                         /\ frames'[k].todo = frames[k].todo
                         /\ k < d => frames'[k].waiting = frames[k].waiting
                         /\ k = d => /\ frames'[k].waiting = {x} /\ frames[k].waiting = {}
                                    /\ x \in frames[k].todo
  <2>1. \A k \in 1 .. d : frames'[k] = callers[k]
    BY <1>2
  <2>. QED  BY <2>1
<1>13. /\ \A k \in 1 .. d :
            frames[k].todo \cup frames[k].waiting \subseteq Related(frames[k].node)
       /\ \A k \in 1 .. d : k < d => frames[k].waiting = {frames[k + 1].node}
       /\ Loopless => \A k \in 1 .. d :
            /\ base[frames[k].node] \subseteq f[frames[k].node]
            /\ \A y \in Related(frames[k].node) \ (frames[k].todo \cup frames[k].waiting \cup {frames[k].node}) :
                 Least(y) \subseteq f[frames[k].node]
  BY <1>1 DEF Inv, TypeOK, CallsWait, CallsHaveMerged
<1>. HIDE DEF d
<1>4. \A k \in 1 .. d + 1 : k \in 1 .. d \/ k = d + 1
  BY <1>1
<1>5. \A k \in 1 .. d : frames'[k].todo \cup frames'[k].waiting = frames[k].todo \cup frames[k].waiting
  <2>. SUFFICES ASSUME NEW k \in 1 .. d
                PROVE  frames'[k].todo \cup frames'[k].waiting = frames[k].todo \cup frames[k].waiting
    OBVIOUS
  <2>1. CASE k = d
    BY <1>12, <2>1
  <2>2. CASE k # d
    <3>1. k < d
      BY <1>1, <2>2
    <3>. QED  BY <1>12, <3>1
  <2>. QED  BY <2>1, <2>2
<1>6. TypeOK'
  <2>1. ASSUME NEW k \in 1 .. d + 1
        PROVE  frames'[k].todo \cup frames'[k].waiting \subseteq Related(frames'[k].node)
    <3>1. CASE k \in 1 .. d
      <4>1. frames'[k].node = frames[k].node
        BY <1>12, <3>1
      <4>. QED  BY <1>5, <1>13, <3>1, <4>1
    <3>2. CASE k = d + 1
      BY <1>2, <3>2
    <3>. QED  BY <1>4, <3>1, <3>2
  <2>. QED  BY <1>1, <1>2, <2>1, SameRelation DEF TypeOK, Frame
<1>7. StackIsCalls'
  <2>1. ASSUME NEW k \in 1 .. d + 1
        PROVE  /\ stack'[k] = frames'[k].node /\ frames'[k].depth = k
               /\ depths'[frames'[k].node] = k
    <3>1. CASE k \in 1 .. d
      <4>1. frames'[k].node = frames[k].node /\ frames'[k].depth = frames[k].depth
            /\ stack'[k] = stack[k] /\ depths'[frames[k].node] = depths[frames[k].node]
        BY <1>2, <1>3, <1>12, <3>1
      <4>. QED  BY <1>3, <3>1, <4>1
    <3>2. CASE k = d + 1
      BY <1>2, <3>2
    <3>. QED  BY <1>4, <3>1, <3>2
  <2>. QED  BY <1>2, <2>1 DEF StackIsCalls
<1>8. CallsWait'
  <2>1. ASSUME NEW k \in 1 .. d PROVE frames'[k].waiting = {frames'[k + 1].node}
    <3>1. CASE k = d
      BY <1>2, <1>12, <3>1
    <3>2. CASE k # d
      <4>1. k < d /\ k + 1 \in 1 .. d
        BY <1>1, <3>2
      <4>2. frames[k].waiting = {frames[k + 1].node}
        BY <1>13, <4>1
      <4>. QED  BY <1>12, <4>1, <4>2
    <3>. QED  BY <3>1, <3>2
  <2>2. \A k \in 1 .. d : \A y, z \in frames'[k].waiting : depths'[y] # 0 /\ y = z
    <3>. SUFFICES ASSUME NEW k \in 1 .. d PROVE depths'[frames'[k + 1].node] # 0
      BY <2>1
    <3>1. k + 1 \in 1 .. d + 1
      BY <1>1
    <3>2. depths'[frames'[k + 1].node] = k + 1
      BY <1>2, <1>7, <3>1 DEF StackIsCalls
    <3>. QED  BY <3>2
  <2>3. \A k \in 1 .. d + 1 : k < d + 1 => k \in 1 .. d
    BY <1>1
  <2>. QED  BY <1>2, <1>4, <2>1, <2>2, <2>3 DEF CallsWait
<1>9. Sound'
  <2>1. ASSUME NEW n \in Node PROVE f'[n] \subseteq Least(n)
    BY <1>1, <1>2, LeastContains DEF Inv, Sound, TypeOK
  <2>. QED  BY <2>1, SameRelation DEF Sound
<1>10. LooplessExact'
  <2>1. Active \subseteq Active' /\ x \in Active'
    <3>1. Active' = {frames'[k].node : k \in 1 .. d + 1}
      BY <1>2 DEF Active
    <3>2. Active = {frames[k].node : k \in 1 .. d}
      BY <1>1 DEF Active
    <3>3. ASSUME NEW k \in 1 .. d PROVE k \in 1 .. d + 1 /\ frames'[k].node = frames[k].node
      BY <1>1, <1>12
    <3>4. d + 1 \in 1 .. d + 1
      BY <1>1
    <3>5. x = frames'[d + 1].node
      BY <1>2
    <3>. HIDE DEF Active
    <3>6. x \in Active'
      BY <3>1, <3>4, <3>5
    <3>7. ASSUME NEW n \in Active PROVE n \in Active'
      <4>1. PICK k \in 1 .. d : n = frames[k].node
        BY <3>2
      <4>. QED  BY <3>1, <3>3, <4>1
    <3>. QED  BY <3>6, <3>7
  <2>2. ASSUME Loopless, NEW n \in Node, n \notin Active', depths'[n] # 0
        PROVE  f'[n] = Least(n)
    <3>1. n \in Node \ {x} /\ n \notin Active
      BY <2>1, <2>2
    <3>2. f'[n] = f[n] /\ depths'[n] = depths[n]
      BY <1>2, <3>1
    <3>. QED  BY <2>2, <3>1, <3>2 DEF Inv, LooplessExact
  <2>. QED  BY <2>2, SameRelation DEF LooplessExact
<1>11. CallsHaveMerged'
  <2>. SUFFICES ASSUME Loopless, NEW k \in 1 .. d + 1
                PROVE  /\ base[frames'[k].node] \subseteq f'[frames'[k].node]
                       /\ \A y \in Related(frames'[k].node)
                                     \ (frames'[k].todo \cup frames'[k].waiting \cup {frames'[k].node}) :
                            Least(y) \subseteq f'[frames'[k].node]
    <3>1. DOMAIN frames' = 1 .. d + 1
      BY <1>2
    <3>2. \A n : Least(n)' = Least(n)
      BY SameRelation
    <3>3. Loopless' = Loopless
      BY SameRelation
    <3>. QED  BY <3>1, <3>2, <3>3 DEF CallsHaveMerged, Related
  <2>1. CASE k \in 1 .. d
    <3>1. frames'[k].node = frames[k].node /\ f'[frames[k].node] = f[frames[k].node]
      BY <1>2, <1>3, <1>12, <2>1
    <3>. QED  BY <1>5, <1>13, <2>1, <3>1
  <2>2. CASE k = d + 1
    BY <1>2, <2>2
  <2>. QED  BY <1>4, <2>1, <2>2
<1>. QED  BY <1>6, <1>7, <1>8, <1>9, <1>10, <1>11 DEF Inv

LEMMA CallFields ==
  ASSUME NEW call \in Frame, NEW y \in Node
  PROVE  /\ WaitsFor(call, y) \in Frame
         /\ WaitsFor(call, y).node = call.node /\ WaitsFor(call, y).depth = call.depth
         /\ WaitsFor(call, y).todo = call.todo /\ WaitsFor(call, y).waiting = {y}
         /\ HasMerged(call, y) \in Frame
         /\ HasMerged(call, y).node = call.node /\ HasMerged(call, y).depth = call.depth
         /\ HasMerged(call, y).todo = call.todo \ {y} /\ HasMerged(call, y).waiting = {}
BY DEF WaitsFor, HasMerged, Frame

LEMMA TraverseRootInv ==
  ASSUME Inv, NEW x \in Node, TraverseRoot(x) PROVE Inv'
<1>1. frames = <<>> /\ Len(frames) = 0 /\ Active = {} /\ <<>> \in Seq(Frame)
  BY DEF TraverseRoot, Active
<1>2. roots' \subseteq DOMAIN rel /\ rel' = rel /\ base' = base /\ Enter(x, <<>>)
  BY DEF TraverseRoot, Inv, TypeOK
<1>3. 1 .. Len(frames) = {} /\ Len(<<>>) = Len(frames) /\ x \notin Active
  BY <1>1
<1>. QED  BY <1>1, <1>2, <1>3, EnterInv

LEMMA TraverseRelatedInv ==
  ASSUME Inv, NEW y \in Node, TraverseRelated(y) PROVE Inv'
<1>. DEFINE d == Len(frames)
            callers == [frames EXCEPT ![d] = WaitsFor(frames[d], y)]
<1>1. /\ frames \in Seq(Frame) /\ d \in Nat /\ DOMAIN frames = 1 .. d
      /\ \A k \in 1 .. d : depths[frames[k].node] = k
  BY CallFacts
<1>2. /\ frames # <<>> /\ frames[d].waiting = {} /\ y \in frames[d].todo /\ depths[y] = 0
      /\ rel' = rel /\ base' = base /\ roots' = roots /\ Enter(y, callers)
  BY DEF TraverseRelated, Top
<1>3. d \in 1 .. d
  BY <1>1, <1>2
<1>4. y \notin Active
  <2>1. \A k \in 1 .. d : depths[frames[k].node] # 0
    BY <1>1
  <2>. QED  BY <1>1, <1>2, <2>1 DEF Active
<1>5. frames[d] \in Frame
  BY <1>1, <1>3
<1>6. /\ callers \in Seq(Frame) /\ Len(callers) = d
      /\ \A k \in 1 .. d : /\ k # d => callers[k] = frames[k]
                           /\ k = d => callers[k] = WaitsFor(frames[d], y)
  <2>1. WaitsFor(frames[d], y) \in Frame
    BY <1>5, CallFields
  <2>2. callers = [frames EXCEPT ![d] = WaitsFor(frames[d], y)]
    OBVIOUS
  <2>. HIDE DEF d, callers
  <2>. QED  BY <1>1, <1>3, <2>1, <2>2
<1>8. \A k \in 1 .. d :
        /\ callers[k].node = frames[k].node /\ callers[k].depth = frames[k].depth
        /\ callers[k].todo = frames[k].todo
        /\ k < d => callers[k].waiting = frames[k].waiting
        /\ k = d => /\ callers[k].waiting = {y} /\ frames[k].waiting = {}
                    /\ y \in frames[k].todo
  <2>. HIDE DEF d, callers
  <2>1. \A k \in 1 .. d : k < d => k # d
    BY <1>1
  <2>. QED  BY <1>2, <1>5, <1>6, <2>1, CallFields
<1>7. roots' \subseteq DOMAIN rel
  BY <1>2 DEF Inv, TypeOK
<1>. HIDE DEF callers
<1>. QED  BY <1>2, <1>4, <1>6, <1>7, <1>8, EnterInv

\* Without loops, what else is related to the top call has returned.
LEMMA TopReachesNoCall ==
  ASSUME Inv, Loopless, frames # <<>>, NEW y \in Related(Top.node), y # Top.node
  PROVE  y \notin Active
<1>. DEFINE d == Len(frames)
<1>1. /\ d \in Nat /\ DOMAIN frames = 1 .. d
      /\ \A k \in 1 .. d : frames[k].node \in Node
  BY CallFacts
<1>. SUFFICES ASSUME NEW j \in 1 .. d, y = frames[j].node PROVE FALSE
  BY <1>1 DEF Active
<1>. DEFINE S == {frames[k].node : k \in j .. d}
<1>2. S \in SUBSET Node /\ S # {} /\ y \in S
  <2>1. j \in j .. d /\ \A k \in j .. d : k \in 1 .. d
    BY <1>1
  <2>. QED  BY <1>1, <2>1
<1>3. ASSUME NEW k \in j .. d PROVE ~(Related(frames[k].node) \cap S \subseteq {frames[k].node})
  <2>1. CASE k = d
    <3>1. y \in Related(frames[k].node) /\ y # frames[k].node
      BY <2>1 DEF Top
    <3>. QED  BY <1>2, <3>1
  <2>2. CASE k # d
    <3>. HIDE DEF d, S
    <3>4. k \in Nat /\ j \in Nat /\ 1 <= j /\ j <= k /\ k <= d
      BY <1>1
    <3>5. k \in 1 .. d /\ k < d /\ k + 1 \in j .. d
      BY <1>1, <2>2, <3>4
    <3>1. k \in 1 .. d /\ k < Len(frames) /\ frames[k + 1].node \in S
      BY <3>5 DEF d, S
    <3>2. frames[k].waiting = {frames[k + 1].node}
      BY <1>1, <3>1 DEF Inv, CallsWait
    <3>3. frames[k].waiting \subseteq Related(frames[k].node)
      BY <1>1, <3>1 DEF Inv, TypeOK
    <3>6. frames[k + 1].node # frames[k].node
      <4>1. k + 1 \in 1 .. d
        BY <3>4, <3>5, <1>1
      <4>. QED  BY <3>4, <3>5, <4>1, CallFacts DEF d
    <3>. QED  BY <3>1, <3>2, <3>3, <3>6
  <2>. QED  BY <2>1, <2>2
<1>4. ASSUME NEW n \in S PROVE ~(Related(n) \cap S \subseteq {n})
  <2>1. PICK k \in j .. d : n = frames[k].node
    OBVIOUS
  <2>. QED  BY <1>3, <2>1
<1>. HIDE DEF S
<1>. QED  BY <1>2, <1>4 DEF Loopless

LEMMA MergeInv ==
  ASSUME Inv, NEW y \in Node, Merge(y) PROVE Inv'
<1>. DEFINE d == Len(frames)
            x == frames[d].node
<1>1. /\ TypeOK /\ frames \in Seq(Frame) /\ d \in Nat /\ DOMAIN frames = 1 .. d
      /\ Len(stack) = d
      /\ \A k \in 1 .. d : /\ frames[k].node \in Node /\ frames[k].depth = k
                           /\ stack[k] = frames[k].node /\ depths[frames[k].node] = k
  BY CallFacts DEF Inv
<1>2. /\ frames # <<>> /\ Mergeable(y) /\ stack' = stack /\ rel' = rel /\ base' = base /\ roots' = roots
      /\ frames' = [frames EXCEPT ![d] = HasMerged(frames[d], y)]
      /\ depths' = [depths EXCEPT ![y] = Lower(depths[x], depths[y])]
      /\ f' = [f EXCEPT ![x] = @ \cup f[y]]
  BY DEF Merge, Top
<1>3. d \in 1 .. d /\ frames[d] \in Frame /\ x \in Node /\ Top = frames[d]
  <2>1. d \in 1 .. d
    BY <1>1, <1>2
  <2>. QED  BY <1>1, <2>1 DEF Top
<1>4. y \in Related(x) /\ depths[y] # 0 /\ depths[x] = d
  <2>1. y \in frames[d].todo \cup frames[d].waiting
    BY <1>2, <1>3 DEF Mergeable
  <2>2. frames[d].todo \cup frames[d].waiting \subseteq Related(x)
    BY <1>1, <1>3 DEF TypeOK
  <2>3. depths[y] # 0
    BY <1>1, <1>2, <1>3 DEF Mergeable, Inv, CallsWait
  <2>. QED  BY <1>1, <1>3, <2>1, <2>2, <2>3
<1>5. \A z \in frames[d].waiting : z = y
  BY <1>1, <1>2, <1>3 DEF Mergeable, Inv, CallsWait
<1>6. /\ \A k \in 1 .. d : frames[k].todo \cup frames[k].waiting \subseteq Related(frames[k].node)
      /\ \A k \in 1 .. d : k < d => frames[k].waiting = {frames[k + 1].node}
      /\ \A k \in 1 .. d : \A u, z \in frames[k].waiting : depths[u] # 0 /\ u = z
      /\ Loopless => \A k \in 1 .. d :
            /\ base[frames[k].node] \subseteq f[frames[k].node]
            /\ \A z \in Related(frames[k].node) \ (frames[k].todo \cup frames[k].waiting \cup {frames[k].node}) :
                 Least(z) \subseteq f[frames[k].node]
  BY <1>1 DEF Inv, TypeOK, CallsWait, CallsHaveMerged
<1>7. /\ frames' \in Seq(Frame) /\ Len(frames') = d /\ DOMAIN frames' = 1 .. d
      /\ \A k \in 1 .. d : k # d => frames'[k] = frames[k]
      /\ frames'[d] = HasMerged(frames[d], y)
  <2>1. HasMerged(frames[d], y) \in Frame
    BY <1>3, CallFields
  <2>. HIDE DEF d
  <2>. QED  BY <1>1, <1>2, <1>3, <2>1
<1>8. \A k \in 1 .. d : /\ frames'[k].node = frames[k].node /\ frames'[k].depth = frames[k].depth
                        /\ k # d => /\ frames'[k].todo = frames[k].todo
                                    /\ frames'[k].waiting = frames[k].waiting
                        /\ k = d => /\ frames'[k].todo = frames[k].todo \ {y}
                                    /\ frames'[k].waiting = {}
  <2>1. LET c == HasMerged(frames[d], y)
        IN  /\ c.node = frames[d].node /\ c.depth = frames[d].depth
            /\ c.todo = frames[d].todo \ {y} /\ c.waiting = {}
    BY <1>3, CallFields
  <2>. HIDE DEF d
  <2>. QED  BY <1>7, <2>1
<1>9. /\ depths' \in [Node -> Nat] /\ \A n \in Node : depths'[n] # 0 <=> depths[n] # 0
      /\ \A n \in Node : n # y => depths'[n] = depths[n]
      /\ depths'[y] = Lower(d, depths[y])
  <2>1. depths \in [Node -> Nat]
    BY <1>1 DEF TypeOK
  <2>2. d # 0
    BY <1>3
  <2>. HIDE DEF d
  <2>3. Lower(d, depths[y]) \in Nat \ {0}
    BY <1>1, <1>4, <2>1, <2>2 DEF Lower
  <2>. HIDE DEF x
  <2>. QED  BY <1>2, <1>4, <2>1, <2>3
<1>10. /\ f' \in [Node -> SUBSET Value] /\ f'[x] = f[x] \cup f[y]
       /\ \A n \in Node : n # x => f'[n] = f[n]
  <2>1. f \in [Node -> SUBSET Value]
    BY <1>1 DEF TypeOK
  <2>. HIDE DEF x
  <2>. QED  BY <1>2, <1>3, <2>1
<1>11. \A k \in 1 .. d : k # d => frames[k].node # x
  BY <1>1, <1>3
<1>12. Active' = Active
  <2>1. Active' = {frames'[k].node : k \in 1 .. d} /\ Active = {frames[k].node : k \in 1 .. d}
    BY <1>1, <1>7 DEF Active
  <2>. QED  BY <1>8, <2>1
<1>13. \A n : Related(n)' = Related(n)
  BY <1>2, SameRelation
<1>14. \A n : Least(n)' = Least(n)
  BY <1>2, SameRelation
<1>15. Loopless' = Loopless
  BY <1>2, SameRelation
<1>16. Loopless /\ y # x => f[y] = Least(y)
  <2>1. Loopless /\ y # x => y \notin Active
    BY <1>2, <1>3, <1>4, TopReachesNoCall
  <2>. QED  BY <1>4, <2>1 DEF Inv, LooplessExact
<1>17. f[y] \subseteq Least(x) /\ f[x] \subseteq Least(x)
  <2>1. Least(y) \subseteq Least(x)
    BY <1>1, <1>3, <1>4, LeastContains DEF TypeOK
  <2>. QED  BY <1>3, <2>1 DEF Inv, Sound
<1>. HIDE DEF d
<1>18. TypeOK'
  <2>1. \A k \in 1 .. d :
          frames'[k].todo \cup frames'[k].waiting \subseteq Related(frames'[k].node)
    BY <1>6, <1>8
  <2>2. \A k \in DOMAIN frames' :
          (frames'[k].todo \cup frames'[k].waiting \subseteq Related(frames[k].node)')
    BY <1>2, <1>7, <2>1 DEF Related
  <2>. QED  BY <1>1, <1>2, <1>7, <1>9, <1>10, <2>2 DEF TypeOK, Frame
<1>19. StackIsCalls'
  <2>1. ASSUME NEW k \in 1 .. d PROVE depths'[frames[k].node] = k
    <3>1. CASE frames[k].node = y
      <4>1. Lower(d, depths[y]) = depths[y]
        BY <1>1, <3>1 DEF Lower
      <4>. QED  BY <1>1, <1>9, <3>1, <4>1
    <3>2. CASE frames[k].node # y
      BY <1>1, <1>9, <3>2
    <3>. QED  BY <3>1, <3>2
  <2>. QED  BY <1>1, <1>2, <1>7, <1>8, <2>1 DEF StackIsCalls
<1>20. CallsWait'
  <2>1. ASSUME NEW k \in 1 .. d, k < d PROVE frames'[k].waiting = {frames'[k + 1].node}
    <3>1. k # d /\ k + 1 \in 1 .. d
      BY <1>1, <2>1
    <3>. QED  BY <1>6, <1>8, <2>1, <3>1
  <2>2. ASSUME NEW k \in 1 .. d, NEW u \in frames'[k].waiting, NEW z \in frames'[k].waiting
        PROVE  depths'[u] # 0 /\ u = z
    <3>1. u \in frames[k].waiting /\ z \in frames[k].waiting
      BY <1>8
    <3>2. u \in Node
      <4>1. frames[k].waiting \in SUBSET Node
        BY CallFacts DEF d
      <4>. QED  BY <3>1, <4>1
    <3>. QED  BY <1>6, <1>9, <3>1, <3>2
  <2>. QED  BY <1>7, <2>1, <2>2 DEF CallsWait
<1>. HIDE DEF x
<1>21. Sound'
  <2>1. \A n \in Node : f'[n] \subseteq Least(n)
    BY <1>10, <1>17 DEF Inv, Sound
  <2>. QED  BY <1>14, <2>1 DEF Sound
<1>22. LooplessExact'
  <2>1. x \in Active
    BY <1>1, <1>3 DEF Active, x
  <2>2. ASSUME Loopless, NEW n \in Node \ Active, depths'[n] # 0 PROVE f'[n] = Least(n)
    <3>1. n # x /\ depths[n] # 0
      BY <1>9, <2>1, <2>2
    <3>. QED  BY <1>10, <2>2, <3>1 DEF Inv, LooplessExact
  <2>. QED  BY <1>12, <1>14, <1>15, <2>2 DEF LooplessExact
<1>23. CallsHaveMerged'
  <2>1. ASSUME Loopless, NEW k \in 1 .. d
        PROVE  /\ base[frames'[k].node] \subseteq f'[frames'[k].node]
               /\ \A z \in Related(frames'[k].node) \ (frames'[k].todo \cup frames'[k].waiting \cup {frames'[k].node}) :
                    Least(z) \subseteq f'[frames'[k].node]
    <3>1. CASE k # d
      <4>1. /\ frames'[k].node = frames[k].node /\ f'[frames[k].node] = f[frames[k].node]
            /\ frames'[k].todo = frames[k].todo /\ frames'[k].waiting = frames[k].waiting
        BY <1>1, <1>8, <1>10, <1>11, <3>1
      <4>. QED  BY <1>6, <2>1, <4>1
    <3>2. CASE k = d
      <4>1. frames'[k].node = x /\ frames[k].node = x
        BY <1>3, <1>8, <3>2 DEF x
      <4>2. base[x] \subseteq f'[x]
        BY <1>6, <1>10, <2>1, <4>1
      <4>3. ASSUME NEW z \in Related(x) \ (frames'[k].todo \cup frames'[k].waiting \cup {x})
            PROVE  Least(z) \subseteq f'[x]
        <5>1. CASE z = y
          BY <1>10, <1>16, <2>1, <5>1
        <5>2. CASE z # y
          <6>1. z \in Related(x) \ (frames[k].todo \cup frames[k].waiting \cup {x})
            BY <1>5, <1>8, <3>2, <4>3, <5>2
          <6>. QED  BY <1>6, <1>10, <2>1, <4>1, <6>1
        <5>. QED  BY <5>1, <5>2
      <4>. QED  BY <4>1, <4>2, <4>3
    <3>. QED  BY <3>1, <3>2
  <2>2. base' = base /\ \A n : Related(n)' = Related(n)
    BY <1>2 DEF Related
  <2>. QED  BY <1>7, <1>14, <1>15, <2>1, <2>2 DEF CallsHaveMerged
<1>. QED  BY <1>18, <1>19, <1>20, <1>21, <1>22, <1>23 DEF Inv

\* No call is entered twice, so a return never pops more than its own node.
LEMMA ReturnPopsOne ==
  ASSUME Inv, frames # <<>>
  PROVE  LET x == frames[Len(frames)].node IN Bottom(x) = Len(frames) /\ Component(x) = {x}
<1>. DEFINE d == Len(frames)
            x == frames[d].node
<1>1. /\ d \in Nat /\ DOMAIN frames = 1 .. d /\ stack \in Seq(Node) /\ Len(stack) = d /\ d \in 1 .. d
      /\ \A k \in 1 .. d : stack[k] = frames[k].node /\ depths[frames[k].node] = k
  BY CallFacts DEF Inv, TypeOK
<1>. HIDE DEF d
<1>2. DOMAIN stack = 1 .. d /\ stack[d] = x /\ \A k \in 1 .. d : stack[k] = x => k = d
  <2>1. DOMAIN stack = 1 .. d
    BY <1>1
  <2>2. stack[d] = x
    BY <1>1
  <2>. QED  BY <1>1, <2>1, <2>2
<1>3. /\ d \in DOMAIN stack /\ stack[d] = x
      /\ \A j \in DOMAIN stack : stack[j] = x => j <= d
  BY <1>1, <1>2
<1>4. \A k \in DOMAIN stack :
        stack[k] = x /\ (\A j \in DOMAIN stack : stack[j] = x => j <= k) => k = d
  BY <1>2
<1>5. Bottom(x) = d
  BY <1>3, <1>4 DEF Bottom
<1>6. d .. d = {d}
  BY <1>1
<1>7. Component(x) = {x}
  BY <1>1, <1>2, <1>5, <1>6 DEF Component
<1>. QED  BY <1>5, <1>7 DEF d

LEMMA ReturnInv ==
  ASSUME Inv, Return PROVE Inv'
<1>. DEFINE d == Len(frames)
            x == frames[d].node
<1>1. /\ TypeOK /\ frames \in Seq(Frame) /\ d \in Nat /\ DOMAIN frames = 1 .. d
      /\ stack \in Seq(Node) /\ Len(stack) = d
      /\ \A k \in 1 .. d : /\ frames[k].node \in Node /\ frames[k].depth = k
                           /\ stack[k] = frames[k].node /\ depths[frames[k].node] = k
  BY CallFacts DEF Inv, TypeOK
<1>2. d \in 1 .. d /\ x \in Node /\ depths[x] = d /\ Top.depth = d /\ Top.node = x
  <2>1. d \in 1 .. d
    BY <1>1 DEF Return
  <2>. QED  BY <1>1, <2>1 DEF Top
<1>3. \A k \in 1 .. d : k # d => frames[k].node # x
  BY <1>1, <1>2
<1>4. Bottom(x) = d /\ Component(x) = {x}
  BY ReturnPopsOne DEF Return
<1>5. /\ rel' = rel /\ base' = base /\ roots' = roots /\ frames[d].todo = {} /\ frames[d].waiting = {}
      /\ frames' = SubSeq(frames, 1, d - 1) /\ stack' = SubSeq(stack, 1, d - 1)
      /\ depths' = [n \in Node |-> IF n = x THEN Infinity ELSE depths[n]]
      /\ f' = [n \in Node |-> IF n = x THEN f[x] ELSE f[n]]
  BY <1>2, <1>4 DEF Return, Top
<1>6. /\ f' = f /\ depths' \in [Node -> Nat] /\ depths'[x] # 0
      /\ \A n \in Node : n # x => depths'[n] = depths[n]
  <2>1. f \in [Node -> SUBSET Value] /\ depths \in [Node -> Nat]
    BY <1>1 DEF TypeOK
  <2>. HIDE DEF d, x
  <2>2. f' = f
    BY <1>5, <2>1
  <2>. QED  BY <1>2, <1>5, <2>1, <2>2, InfinityAssumption
<1>7. /\ \A k \in 1 .. d : frames[k].todo \cup frames[k].waiting \subseteq Related(frames[k].node)
      /\ \A k \in 1 .. d : k < d => frames[k].waiting = {frames[k + 1].node}
      /\ \A k \in 1 .. d : \A u, z \in frames[k].waiting : depths[u] # 0 /\ u = z
      /\ Loopless => \A k \in 1 .. d :
            /\ base[frames[k].node] \subseteq f[frames[k].node]
            /\ \A z \in Related(frames[k].node) \ (frames[k].todo \cup frames[k].waiting \cup {frames[k].node}) :
                 Least(z) \subseteq f[frames[k].node]
  BY <1>1 DEF Inv, TypeOK, CallsWait, CallsHaveMerged
<1>8. \A n : Related(n)' = Related(n)
  BY <1>5, SameRelation
<1>9. \A n : Least(n)' = Least(n)
  BY <1>5, SameRelation
<1>10. Loopless' = Loopless
  BY <1>5, SameRelation
<1>11. Loopless => f[x] = Least(x)
  <2>1. f[x] \subseteq Least(x)
    BY <1>2 DEF Inv, Sound
  <2>2. Loopless => /\ base[x] \subseteq f[x]
                   /\ \A z \in Related(x) \ {x} : Least(z) \subseteq f[x]
    BY <1>2, <1>5, <1>7
  <2>3. Least(x) \subseteq base[x] \cup UNION {Least(z) : z \in Related(x) \ {x}}
    BY <1>1, <1>2, LeastIsUnion DEF TypeOK
  <2>. QED  BY <2>1, <2>2, <2>3
<1>12. Active \subseteq Active' \cup {x}
  <2>. SUFFICES ASSUME NEW k \in 1 .. d PROVE frames[k].node \in Active' \cup {x}
    BY <1>1 DEF Active
  <2>1. CASE k = d
    BY <2>1
  <2>2. CASE k # d
    <3>. HIDE DEF d
    <3>1. k \in 1 .. d - 1
      BY <1>1, <2>2
    <3>2. DOMAIN frames' = 1 .. d - 1 /\ frames'[k] = frames[k]
      BY <1>1, <1>5, <3>1
    <3>. QED  BY <3>1, <3>2 DEF Active
  <2>. QED  BY <2>1, <2>2
<1>. HIDE DEF d
<1>13. /\ frames' \in Seq(Frame) /\ Len(frames') = d - 1 /\ DOMAIN frames' = 1 .. d - 1
       /\ \A k \in 1 .. d - 1 : frames'[k] = frames[k] /\ frames[k] \in Frame
  BY <1>1, <1>2, <1>5
<1>14. /\ stack' \in Seq(Node) /\ Len(stack') = d - 1
       /\ \A k \in 1 .. d - 1 : stack'[k] = stack[k]
  BY <1>1, <1>2, <1>5
<1>15. \A k \in 1 .. d - 1 : k \in 1 .. d /\ k # d
  BY <1>1
<1>16. TypeOK'
  <2>1. \A k \in DOMAIN frames' :
          (frames'[k].todo \cup frames'[k].waiting \subseteq Related(frames[k].node)')
    BY <1>5, <1>7, <1>13, <1>15 DEF Related
  <2>. QED  BY <1>1, <1>5, <1>6, <1>13, <1>14, <2>1 DEF TypeOK, Frame
<1>17. StackIsCalls'
  <2>1. ASSUME NEW k \in 1 .. d - 1 PROVE depths'[frames[k].node] = k
    BY <1>1, <1>3, <1>6, <1>15
  <2>. QED  BY <1>1, <1>13, <1>14, <1>15, <2>1 DEF StackIsCalls
<1>18. CallsWait'
  <2>1. ASSUME NEW k \in 1 .. d - 1, k < d - 1
        PROVE  frames'[k].waiting = {frames'[k + 1].node}
    <3>1. k + 1 \in 1 .. d - 1 /\ k < d
      BY <1>1, <2>1
    <3>. QED  BY <1>7, <1>13, <1>15, <3>1
  <2>2. ASSUME NEW k \in 1 .. d - 1, NEW u \in frames'[k].waiting, NEW z \in frames'[k].waiting
        PROVE  depths'[u] # 0 /\ u = z
    <3>1. u \in frames[k].waiting /\ z \in frames[k].waiting /\ frames[k].waiting \in SUBSET Node
      BY <1>13 DEF Frame
    <3>. QED  BY <1>6, <1>7, <1>15, <3>1
  <2>. QED  BY <1>13, <2>1, <2>2 DEF CallsWait
<1>. HIDE DEF x
<1>19. Sound'
  BY <1>6, <1>9 DEF Inv, Sound
<1>20. LooplessExact'
  <2>1. ASSUME Loopless, NEW n \in Node, n \notin Active', depths'[n] # 0
        PROVE  f'[n] = Least(n)
    <3>1. CASE n = x
      BY <1>6, <1>11, <2>1, <3>1
    <3>2. CASE n # x
      <4>1. n \notin Active /\ depths[n] # 0
        BY <1>6, <1>12, <2>1, <3>2
      <4>. QED  BY <1>6, <2>1, <4>1 DEF Inv, LooplessExact
    <3>. QED  BY <3>1, <3>2
  <2>. QED  BY <1>9, <1>10, <2>1 DEF LooplessExact
<1>21. CallsHaveMerged'
  BY <1>5, <1>6, <1>7, <1>9, <1>10, <1>13, <1>15 DEF CallsHaveMerged, Related
<1>. QED  BY <1>16, <1>17, <1>18, <1>19, <1>20, <1>21 DEF Inv

LEMMA NextInv == Inv /\ [Next]_vars => Inv'
<1>. SUFFICES ASSUME Inv, [Next]_vars PROVE Inv'
  OBVIOUS
<1>1. ASSUME NEW x \in Node, TraverseRoot(x) PROVE Inv'
  BY <1>1, TraverseRootInv
<1>2. ASSUME NEW y \in Node, TraverseRelated(y) PROVE Inv'
  BY <1>2, TraverseRelatedInv
<1>3. ASSUME NEW y \in Node, Merge(y) PROVE Inv'
  BY <1>3, MergeInv
<1>4. CASE Return
  BY <1>4, ReturnInv
<1>5. CASE UNCHANGED vars
  <2>1. /\ TypeOK' = TypeOK /\ StackIsCalls' = StackIsCalls /\ CallsWait' = CallsWait
    BY <1>5 DEF vars, TypeOK, StackIsCalls, CallsWait, Related
  <2>2. rel' = rel /\ base' = base
    BY <1>5 DEF vars
  <2>3. Sound' = Sound /\ LooplessExact' = LooplessExact
    BY <1>5, <2>2, SameRelation DEF vars, Sound, LooplessExact, Active
  <2>4. CallsHaveMerged'
    <3>1. \A n : Least(n)' = Least(n)
      BY <2>2, SameRelation
    <3>2. Loopless' = Loopless
      BY <2>2, SameRelation
    <3>. QED  BY <1>5, <3>1, <3>2 DEF vars, Inv, CallsHaveMerged, Related
  <2>. QED  BY <2>1, <2>3, <2>4 DEF Inv
<1>. QED  BY <1>1, <1>2, <1>3, <1>4, <1>5 DEF Next, Terminated

-----------------------------------------------------------------------------
(* Theorems *)

\* The invariant is inductive.
THEOREM Invariant == Spec => []Inv
BY InitInv, NextInv, PTL DEF Spec

\* digraph_algo() keeps its types.
THEOREM TypeCorrect == Spec => []TypeOK
<1>1. Inv => TypeOK
  BY DEF Inv
<1>. QED  BY <1>1, Invariant, PTL

\* On any relation and in any order, F never gets a value it should not have:
\* the lookaheads it leads to are never too large because of digraph_algo().
THEOREM NothingExtra == Spec => []Sound
<1>1. Inv => Sound
  BY DEF Inv
<1>. QED  BY <1>1, Invariant, PTL

\* The recursion is bounded by the number of nodes, since no node is entered
\* twice at a time, and the stack is popped to the node that returns.
THEOREM RecursionNests == Spec => []CallsNest
<1>1. Inv => CallsNest
  <2>. SUFFICES ASSUME Inv PROVE CallsNest
    OBVIOUS
  <2>. DEFINE d == Len(frames)
  <2>1. /\ d \in Nat /\ DOMAIN frames = 1 .. d /\ DOMAIN stack = 1 .. d
        /\ \A k \in 1 .. d : /\ frames[k].depth = k /\ stack[k] = frames[k].node
                             /\ depths[frames[k].node] = k
    <3>1. stack \in Seq(Node)
      BY DEF Inv, TypeOK
    <3>. QED  BY <3>1, CallFacts
  <2>. HIDE DEF d
  <2>2. \A i, j \in 1 .. d : frames[i].node = frames[j].node => i = j
    BY <2>1
  <2>. QED  BY <2>1, <2>2 DEF CallsNest
<1>. QED  BY <1>1, Invariant, PTL

\* On every relation without a loop through two nodes or more F is exact wherever
\* no call is in progress, so it is exact in the end.
THEOREM ExactWithoutLoops == Spec => []LooplessExact
<1>1. Inv => LooplessExact
  BY DEF Inv
<1>. QED  BY <1>1, Invariant, PTL

-----------------------------------------------------------------------------
(* Loops of two nodes: reachability *)

LEMMA ReachRelated ==
  ASSUME rel \in Relations, NEW x
  PROVE  /\ Reach(x) \in SUBSET Node /\ Related(x) \subseteq Reach(x)
         /\ \A y \in Reach(x) : Related(y) \subseteq Reach(x)
<1>1. \A n : Related(n) \subseteq Node
  BY RelatedNodes
<1>2. Related(x) \subseteq Reach(x)
  BY <1>1 DEF Reach
<1>3. ASSUME NEW y \in Reach(x), NEW z \in Related(y) PROVE z \in Reach(x)
  BY <1>1, <1>3 DEF Reach
<1>. QED  BY <1>2, <1>3 DEF Reach

LEMMA ReachOn ==
  ASSUME rel \in Relations, NEW x, NEW y \in Reach(x)
  PROVE  Reach(y) \subseteq Reach(x)
<1>1. Reach(x) \in SUBSET Node /\ Related(y) \subseteq Reach(x) /\ \A n \in Reach(x) : Related(n) \subseteq Reach(x)
  BY ReachRelated
<1>. DEFINE S == Reach(x)
<1>2. S \in SUBSET Node /\ Related(y) \subseteq S /\ \A n \in S : Related(n) \subseteq S
  BY <1>1
<1>. HIDE DEF S
<1>3. \A z \in Reach(y) : z \in S
  BY <1>2 DEF Reach
<1>. QED  BY <1>3 DEF S

\* What is related to x and not on a loop with it.
Outer(x) == Related(x) \ (Loop(x) \cup {x})

\* What x has without the nodes of its loop.
Own(x) == base[x] \cup UNION {Least(y) : y \in Outer(x)}

\* No loop but that of x itself can be reached from x.
Simple(x) == \A y \in Reach(x) \ Loop(x) : Loop(y) \subseteq {y}

LEMMA OuterIsSimple ==
  ASSUME rel \in Relations, NEW x, Simple(x), NEW y \in Outer(x)
  PROVE  y \in Node /\ Simple(y) /\ Loop(y) \subseteq {y}
<1>1. y \in Reach(x) /\ y \notin Loop(x) /\ x \notin Reach(y) /\ y \in Node
  BY ReachRelated DEF Outer, Loop
<1>2. Loop(y) \subseteq {y}
  BY <1>1 DEF Simple
<1>3. ASSUME NEW z \in Reach(y) \ Loop(y) PROVE Loop(z) \subseteq {z}
  <2>1. z \in Reach(x) /\ Reach(z) \subseteq Reach(y)
    BY <1>1, <1>3, ReachOn
  <2>2. z \notin Loop(x)
    BY <1>1, <2>1 DEF Loop
  <2>. QED  BY <2>1, <2>2 DEF Simple
<1>. QED  BY <1>1, <1>2, <1>3 DEF Simple

\* Without a loop that is all.
LEMMA OwnIsLeast ==
  ASSUME rel \in Relations, base \in Bases, NEW x \in Node, Loop(x) \subseteq {x}
  PROVE  Least(x) \subseteq Own(x)
<1>1. Least(x) \subseteq base[x] \cup UNION {Least(y) : y \in Related(x) \ {x}}
  BY LeastIsUnion
<1>2. Related(x) \ {x} = Outer(x)
  BY DEF Outer
<1>. QED  BY <1>1, <1>2 DEF Own

\* The nodes of a loop of two have what each of them has of its own.
LEMMA LeastOfPair ==
  ASSUME rel \in Relations, base \in Bases, NEW x \in Node, NEW b \in Node,
         Loop(x) = {x, b}, Loop(b) = {x, b}
  PROVE  Least(x) \subseteq Own(x) \cup Own(b)
<1>. SUFFICES ASSUME NEW v \in Least(x), v \notin Own(x), v \notin Own(b)
              PROVE  FALSE
  OBVIOUS
<1>. DEFINE S == {n \in Node : v \in Least(n)} \ {x, b}
<1>1. v \in Value /\ \A T \in SUBSET Node : Spreads(v, T) => x \in T
  BY DEF Least
<1>2. ASSUME NEW n \in Node, v \in base[n] PROVE n \in S
  <2>1. v \in Least(n)
    BY <1>2, LeastContains
  <2>2. n # x /\ n # b
    BY <1>2 DEF Own
  <2>. QED  BY <2>1, <2>2
<1>3. ASSUME NEW n \in Node, NEW y \in Related(n), y \in S PROVE n \in S
  <2>1. v \in Least(y) /\ y # x /\ y # b
    BY <1>3
  <2>2. v \in Least(n)
    BY <2>1, LeastContains
  <2>3. n # x
    <3>1. n = x => y \in Outer(x)
      BY <2>1 DEF Outer
    <3>. QED  BY <2>1, <3>1 DEF Own
  <2>4. n # b
    <3>1. n = b => y \in Outer(b)
      BY <2>1 DEF Outer
    <3>. QED  BY <2>1, <3>1 DEF Own
  <2>. QED  BY <2>2, <2>3, <2>4
<1>4. Spreads(v, S)
  <2>. HIDE DEF S
  <2>. QED  BY <1>2, <1>3 DEF Spreads
<1>. QED  BY <1>1, <1>4

\* The nodes of a loop of two are related to each other.
LEMMA PairIsRelated ==
  ASSUME rel \in Relations, NEW x \in Node, NEW b, b # x, Loop(x) = {x, b}
  PROVE  b \in Related(x)
<1>. SUFFICES ASSUME b \notin Related(x) PROVE FALSE
  OBVIOUS
<1>. DEFINE S == {n \in Reach(x) : n = x \/ x \notin Reach(n)}
<1>1. b \in Reach(x) /\ x \in Reach(b) /\ x \in Reach(x)
  BY DEF Loop
<1>2. S \in SUBSET Node
  BY ReachRelated
<1>3. Related(x) \subseteq S
  <2>. SUFFICES ASSUME NEW y \in Related(x), y # x, x \in Reach(y) PROVE FALSE
    BY ReachRelated
  <2>1. y \in Loop(x)
    BY ReachRelated DEF Loop
  <2>. QED  BY <2>1
<1>4. ASSUME NEW n \in S, NEW m \in Related(n) PROVE m \in S
  <2>1. CASE n = x
    BY <1>3, <1>4, <2>1
  <2>2. CASE n # x
    <3>1. m \in Reach(n) /\ m \in Reach(x) /\ x \notin Reach(n)
      BY <1>4, <2>2, ReachRelated
    <3>2. x \notin Reach(m)
      BY <3>1, ReachOn
    <3>. QED  BY <3>1, <3>2
  <2>. QED  BY <2>1, <2>2
<1>. HIDE DEF S
<1>5. b \in S
  BY <1>1, <1>2, <1>3, <1>4 DEF Reach
<1>. QED  BY <1>1, <1>5 DEF S

\* Both nodes of such a loop are alike.
LEMMA PartnerIsAlike ==
  ASSUME rel \in Relations, NEW x \in Node, NEW b \in Loop(x)
  PROVE  /\ b \in Node /\ Loop(b) = Loop(x) /\ x \in Loop(x)
         /\ Simple(x) => Simple(b)
<1>1. b \in Reach(x) /\ x \in Reach(b) /\ b \in Node
  BY ReachRelated DEF Loop
<1>2. Reach(b) = Reach(x)
  BY <1>1, ReachOn
<1>3. Loop(b) = Loop(x)
  <2>1. ASSUME NEW y \in Reach(x) PROVE x \in Reach(y) <=> b \in Reach(y)
    BY <1>1, <2>1, ReachOn
  <2>. QED  BY <1>2, <2>1 DEF Loop
<1>4. x \in Loop(x)
  BY <1>1, <1>2 DEF Loop
<1>. QED  BY <1>1, <1>2, <1>3, <1>4 DEF Simple

LEMMA SameReach ==
  ASSUME rel' = rel, base' = base
  PROVE  /\ \A n : Related(n)' = Related(n) /\ Reach(n)' = Reach(n) /\ Loop(n)' = Loop(n) /\ Least(n)' = Least(n)
         /\ \A n : Outer(n)' = Outer(n) /\ Own(n)' = Own(n) /\ (Simple(n)' <=> Simple(n))
<1>1. \A n : Related(n)' = Related(n) /\ Least(n)' = Least(n)
  BY SameRelation
<1>2. \A n : Reach(n)' = Reach(n)
  BY <1>1 DEF Reach
<1>3. \A n : Loop(n)' = Loop(n)
  BY <1>2 DEF Loop
<1>4. \A n : Outer(n)' = Outer(n)
  BY <1>1, <1>3 DEF Outer
<1>5. \A n : Own(n)' = Own(n)
  BY <1>1, <1>4 DEF Own
<1>6. \A n : Simple(n)' <=> Simple(n)
  BY <1>2, <1>3 DEF Simple
<1>. QED  BY <1>1, <1>2, <1>3, <1>4, <1>5, <1>6

-----------------------------------------------------------------------------
(* Loops of two nodes: the invariant *)

\* The related nodes that call k has not finished with.
Rest(k) == frames[k].todo \cup frames[k].waiting

\* Every call can reach those above it.
CallsReach ==
  \A i, j \in DOMAIN frames : i < j => frames[j].node \in Reach(frames[i].node)

\* A call has merged what is not on a loop with its node.
CallHasOwn(k) ==
  \A x \in {frames[k].node} : Simple(x) =>
    /\ base[x] \subseteq f[x]
    /\ \A y \in Outer(x) \ Rest(k) : Least(y) \subseteq f[x]

CallsHaveOwn == \A k \in DOMAIN frames : CallHasOwn(k)

\* A call that has returned has left that.
ReturnedHaveOwn == \A x \in Node \ Active : depths[x] # 0 /\ Simple(x) => Own(x) \subseteq f[x]

\* The traversal of a key has merged it from the other node of a loop as well.
RootHasPartners ==
  frames # <<>> =>
    \A x \in {frames[1].node} :
      \A b \in Related(x) \ (Rest(1) \cup {x}) : Simple(b) => Own(b) \subseteq f[x]

RootsHavePartners ==
  \A x \in DOMAIN rel \ roots : x \notin Active =>
    \A b \in Related(x) \ {x} : Simple(b) => Own(b) \subseteq f[x]

\* No key that has been traversed is entered again.
RootsVisited ==
  /\ \A n \in DOMAIN rel \ roots : depths[n] # 0
  /\ \A k \in DOMAIN frames : k > 1 => frames[k].node \notin DOMAIN rel \ roots

PairsInv ==
  /\ CallsReach /\ CallsHaveOwn /\ ReturnedHaveOwn
  /\ RootHasPartners /\ RootsHavePartners /\ RootsVisited

LEMMA InitPairsInv == Init => PairsInv
<1>. SUFFICES ASSUME Init PROVE PairsInv
  OBVIOUS
<1>1. frames = <<>> /\ DOMAIN frames = {} /\ roots = DOMAIN rel /\ \A x \in Node : depths[x] = 0
  BY DEF Init
<1>. QED
  BY <1>1 DEF PairsInv, CallsReach, CallsHaveOwn, ReturnedHaveOwn, RootHasPartners, RootsHavePartners, RootsVisited

\* What each kind of step does to the calls.
SameOtherwise(x) ==
  /\ \A n \in Node \ {x} : f'[n] = f[n]
  /\ rel' = rel /\ base' = base

Entered(x) ==
  LET d == Len(frames)
  IN  /\ d \in Nat /\ DOMAIN frames = 1 .. d /\ DOMAIN frames' = 1 .. d + 1
      /\ \A k \in 1 .. d : /\ frames'[k].node = frames[k].node /\ frames[k].node \in Node \ {x}
                           /\ frames'[k].todo \cup frames'[k].waiting = frames[k].todo \cup frames[k].waiting
      /\ frames'[d + 1].node = x /\ frames'[d + 1].todo = Related(x) /\ frames'[d + 1].waiting = {}
      /\ depths'[x] # 0 /\ \A n \in Node \ {x} : depths'[n] = depths[n]
      /\ f'[x] = base[x] /\ SameOtherwise(x)

\* The calls below the new one wait for no less than before.
Wait(callers) ==
  \A k \in 1 .. Len(frames) : /\ callers[k].node = frames[k].node
                              /\ callers[k].todo \cup callers[k].waiting = frames[k].todo \cup frames[k].waiting

LEMMA CallEntered ==
  ASSUME Inv, NEW x \in Node, NEW callers \in Seq(Frame), Len(callers) = Len(frames), Enter(x, callers),
         Wait(callers), \A k \in 1 .. Len(frames) : frames[k].node # x, rel' = rel, base' = base
  PROVE  Entered(x)
<1>. DEFINE d == Len(frames)
<1>1. /\ TypeOK /\ d \in Nat /\ DOMAIN frames = 1 .. d /\ d = Len(stack) /\ Len(callers) = d
      /\ \A k \in 1 .. d : frames[k].node \in Node \ {x}
  BY CallFacts DEF Inv
<1>. HIDE DEF d
<1>2. /\ DOMAIN frames' = 1 .. d + 1
      /\ \A k \in 1 .. d : frames'[k] = callers[k]
      /\ frames'[d + 1].node = x /\ frames'[d + 1].todo = Related(x) /\ frames'[d + 1].waiting = {}
      /\ depths'[x] = d + 1 /\ \A n \in Node \ {x} : depths'[n] = depths[n]
      /\ f'[x] = base[x] /\ \A n \in Node \ {x} : f'[n] = f[n]
  <2>1. TypeOK /\ d = Len(stack) /\ Len(callers) = d /\ d \in Nat /\ Enter(x, callers)
    BY <1>1
  <2>2. /\ DOMAIN frames' = 1 .. d + 1
        /\ \A k \in 1 .. d : frames'[k] = callers[k] /\ stack'[k] = stack[k]
        /\ frames'[d + 1].node = x /\ frames'[d + 1].todo = Related(x) /\ frames'[d + 1].waiting = {}
        /\ depths'[x] = d + 1 /\ \A n \in Node \ {x} : depths'[n] = depths[n]
        /\ f'[x] = base[x] /\ \A n \in Node \ {x} : f'[n] = f[n]
    BY ONLY <2>1, EnterShape
  <2>. QED  BY <2>2
<1>3. \A k \in 1 .. d : /\ frames'[k].node = frames[k].node
                        /\ frames'[k].todo \cup frames'[k].waiting = frames[k].todo \cup frames[k].waiting
  BY <1>2 DEF Wait, d
<1>4. d + 1 # 0
  BY <1>1
<1>. QED  BY <1>1, <1>2, <1>3, <1>4 DEF Entered, SameOtherwise, d

LEMMA RootEntered ==
  ASSUME Inv, NEW x \in Node, TraverseRoot(x)
  PROVE  Entered(x) /\ roots' = roots \ {x} /\ frames = <<>>
<1>1. frames = <<>> /\ Len(frames) = 0 /\ <<>> \in Seq(Frame)
  BY DEF TraverseRoot
<1>2. rel' = rel /\ base' = base /\ roots' = roots \ {x} /\ Enter(x, <<>>)
  BY DEF TraverseRoot
<1>3. 1 .. Len(frames) = {}
  BY <1>1
<1>4. Wait(<<>>) /\ \A k \in 1 .. Len(frames) : frames[k].node # x
  BY <1>3 DEF Wait
<1>. QED  BY <1>1, <1>2, <1>4, CallEntered

LEMMA RelatedEntered ==
  ASSUME Inv, NEW y \in Node, TraverseRelated(y)
  PROVE  /\ Entered(y) /\ roots' = roots /\ frames # <<>>
         /\ depths[y] = 0 /\ y \in Related(frames[Len(frames)].node)
<1>. DEFINE d == Len(frames)
            callers == [frames EXCEPT ![d] = WaitsFor(frames[d], y)]
<1>1. /\ frames \in Seq(Frame) /\ d \in Nat /\ DOMAIN frames = 1 .. d /\ Len(stack) = d
      /\ \A k \in 1 .. d : depths[frames[k].node] = k /\ frames[k].node \in Node
      /\ TypeOK
  BY CallFacts DEF Inv
<1>2. /\ frames # <<>> /\ frames[d].waiting = {} /\ y \in frames[d].todo /\ depths[y] = 0
      /\ rel' = rel /\ base' = base /\ roots' = roots /\ Enter(y, callers)
  BY DEF TraverseRelated, Top
<1>3. d \in 1 .. d
  BY <1>1, <1>2
<1>4. \A k \in 1 .. d : frames[k].node \in Node \ {y}
  <2>1. \A k \in 1 .. d : depths[frames[k].node] # 0
    BY <1>1
  <2>. QED  BY <1>1, <1>2, <2>1
<1>5. frames[d] \in Frame
  BY <1>1, <1>3
<1>6. /\ callers \in Seq(Frame) /\ Len(callers) = d
      /\ \A k \in 1 .. d : /\ k # d => callers[k] = frames[k]
                           /\ k = d => callers[k] = WaitsFor(frames[d], y)
  <2>1. WaitsFor(frames[d], y) \in Frame
    BY <1>5, CallFields
  <2>2. callers = [frames EXCEPT ![d] = WaitsFor(frames[d], y)]
    OBVIOUS
  <2>. HIDE DEF d, callers
  <2>. QED  BY <1>1, <1>3, <2>1, <2>2
<1>7. \A k \in 1 .. d : /\ callers[k].node = frames[k].node
                        /\ callers[k].todo \cup callers[k].waiting = frames[k].todo \cup frames[k].waiting
  <2>. HIDE DEF d, callers
  <2>1. LET c == WaitsFor(frames[d], y)
        IN  c.node = frames[d].node /\ c.todo = frames[d].todo /\ c.waiting = {y}
    BY <1>5, CallFields
  <2>. QED  BY <1>2, <1>6, <2>1
<1>8. Wait(callers) /\ \A k \in 1 .. d : frames[k].node # y
  BY <1>4, <1>7 DEF Wait
<1>. HIDE DEF callers
<1>9. Entered(y)
  BY <1>2, <1>6, <1>8, CallEntered
<1>10. y \in Related(frames[d].node)
  BY <1>1, <1>2, <1>3 DEF TypeOK
<1>. QED  BY <1>2, <1>9, <1>10

\* A new call has nothing to do with what the others have.
LEMMA EnteredKeeps ==
  ASSUME Inv, PairsInv, NEW x \in Node, Entered(x), roots' \in {roots, roots \ {x}},
         frames # <<>> => x \in Related(frames[Len(frames)].node) /\ roots' = roots,
         x \in DOMAIN rel \ roots' => frames = <<>>
  PROVE  PairsInv'
<1>. DEFINE d == Len(frames)
<1>1. /\ d \in Nat /\ DOMAIN frames = 1 .. d /\ DOMAIN frames' = 1 .. d + 1
      /\ \A k \in 1 .. d : /\ frames'[k].node = frames[k].node /\ frames[k].node \in Node \ {x}
                           /\ frames'[k].todo \cup frames'[k].waiting = frames[k].todo \cup frames[k].waiting
      /\ frames'[d + 1].node = x /\ frames'[d + 1].todo = Related(x) /\ frames'[d + 1].waiting = {}
      /\ depths'[x] # 0 /\ \A n \in Node \ {x} : depths'[n] = depths[n]
      /\ f'[x] = base[x] /\ \A n \in Node \ {x} : f'[n] = f[n]
      /\ rel' = rel /\ base' = base
  BY DEF Entered, SameOtherwise
<1>2. TypeOK /\ rel \in Relations /\ (frames # <<>> <=> d # 0)
  BY <1>1 DEF Inv, TypeOK
<1>3. /\ \A n : Related(n)' = Related(n) /\ Reach(n)' = Reach(n) /\ Loop(n)' = Loop(n) /\ Least(n)' = Least(n)
      /\ \A n : Outer(n)' = Outer(n) /\ Own(n)' = Own(n) /\ (Simple(n)' <=> Simple(n))
  BY <1>1, SameReach
<1>. HIDE DEF d
<1>4. \A k \in 1 .. d + 1 : k \in 1 .. d \/ k = d + 1
  BY <1>1
<1>5. Active' = Active \cup {x}
  <2>1. Active = {frames[k].node : k \in 1 .. d} /\ Active' = {frames'[k].node : k \in 1 .. d + 1}
    BY <1>1 DEF Active
  <2>2. \A k \in 1 .. d : k \in 1 .. d + 1
    BY <1>1
  <2>3. d + 1 \in 1 .. d + 1
    BY <1>1
  <2>. QED  BY <1>1, <1>4, <2>1, <2>2, <2>3
<1>6. \A k \in 1 .. d : Rest(k)' = Rest(k)
  BY <1>1 DEF Rest
<1>7. \A k \in {d + 1} : Rest(k)' = Related(x)
  BY <1>1 DEF Rest
<1>8. CallsReach'
  <2>. SUFFICES ASSUME NEW i \in 1 .. d + 1, NEW j \in 1 .. d + 1, i < j
                PROVE  frames'[j].node \in Reach(frames'[i].node)
    BY <1>1, <1>3 DEF CallsReach, Reach, Related
  <2>1. i \in 1 .. d /\ frames'[i].node = frames[i].node
    <3>1. i \in 1 .. d
      BY <1>1
    <3>. QED  BY <1>1, <3>1
  <2>2. CASE j \in 1 .. d
    BY <1>1, <2>1, <2>2 DEF PairsInv, CallsReach
  <2>3. CASE j = d + 1
    <3>1. d \in 1 .. d /\ x \in Related(frames[d].node)
      BY <1>1, <1>2, <2>1 DEF d
    <3>2. x \in Reach(frames[i].node)
      <4>1. CASE i = d
        BY <1>2, <3>1, <4>1, ReachRelated
      <4>2. CASE i # d
        <5>1. i < d
          BY <1>1, <2>1, <4>2
        <5>2. frames[d].node \in Reach(frames[i].node)
          BY <1>1, <2>1, <3>1, <5>1 DEF PairsInv, CallsReach
        <5>. QED  BY <1>2, <3>1, <5>2, ReachRelated
      <4>. QED  BY <4>1, <4>2
    <3>. QED  BY <1>1, <2>1, <2>3, <3>2
  <2>. QED  BY <1>4, <2>2, <2>3
<1>9. CallsHaveOwn'
  <2>. SUFFICES ASSUME NEW k \in 1 .. d + 1 PROVE CallHasOwn(k)'
    BY <1>1 DEF CallsHaveOwn
  <2>. SUFFICES ASSUME NEW n \in {frames'[k].node}, Simple(n)
                PROVE  /\ base[n] \subseteq f'[n]
                       /\ \A y \in Outer(n) \ Rest(k)' : Least(y) \subseteq f'[n]
    BY <1>1, <1>3 DEF CallHasOwn
  <2>1. CASE k \in 1 .. d
    <3>1. n = frames[k].node /\ f'[n] = f[n] /\ Rest(k)' = Rest(k)
      BY <1>1, <1>6, <2>1
    <3>2. CallHasOwn(k)
      BY <1>1, <2>1 DEF PairsInv, CallsHaveOwn
    <3>. QED  BY <3>1, <3>2 DEF CallHasOwn
  <2>2. CASE k = d + 1
    <3>1. n = x /\ f'[x] = base[x] /\ Rest(k)' = Related(x)
      BY <1>1, <1>7, <2>2
    <3>. QED  BY <3>1 DEF Outer
  <2>. QED  BY <1>4, <2>1, <2>2
<1>10. ReturnedHaveOwn'
  <2>. SUFFICES ASSUME NEW n \in Node, n \notin Active \cup {x}, depths'[n] # 0, Simple(n)
                PROVE  Own(n) \subseteq f'[n]
    BY <1>3, <1>5 DEF ReturnedHaveOwn
  <2>. QED  BY <1>1 DEF PairsInv, ReturnedHaveOwn
<1>11. RootHasPartners'
  <2>. SUFFICES ASSUME NEW n \in {frames'[1].node},
                       NEW b \in Related(n) \ (Rest(1)' \cup {n}), Simple(b)
                PROVE  Own(b) \subseteq f'[n]
    BY <1>3 DEF RootHasPartners
  <2>1. CASE d = 0
    <3>1. d + 1 = 1
      BY <2>1
    <3>2. n = x /\ Rest(1)' = Related(x)
      BY <1>1, <1>7, <3>1
    <3>. QED  BY <3>2
  <2>2. CASE d # 0
    <3>1. 1 \in 1 .. d
      BY <1>1, <2>2
    <3>2. n = frames[1].node /\ f'[n] = f[n] /\ Rest(1)' = Rest(1)
      BY <1>1, <1>6, <3>1
    <3>. QED  BY <1>2, <2>2, <3>2 DEF PairsInv, RootHasPartners
  <2>. QED  BY <2>1, <2>2
<1>12. RootsHavePartners'
  <2>. SUFFICES ASSUME NEW n \in DOMAIN rel \ roots', n \notin Active \cup {x},
                       NEW b \in Related(n) \ {n}, Simple(b)
                PROVE  Own(b) \subseteq f'[n]
    BY <1>1, <1>3, <1>5 DEF RootsHavePartners
  <2>1. n \in DOMAIN rel \ roots
    OBVIOUS
  <2>2. n \in Node
    BY <1>2, <2>1, RelationsAssumption
  <2>. QED  BY <1>1, <2>1, <2>2 DEF PairsInv, RootsHavePartners
<1>13. RootsVisited'
  <2>1. ASSUME NEW n \in DOMAIN rel \ roots' PROVE depths'[n] # 0
    <3>1. CASE n = x
      BY <1>1, <3>1
    <3>2. CASE n # x
      <4>1. n \in DOMAIN rel \ roots /\ n \in Node
        BY <1>2, <2>1, <3>2, RelationsAssumption
      <4>. QED  BY <1>1, <3>2, <4>1 DEF PairsInv, RootsVisited
    <3>. QED  BY <3>1, <3>2
  <2>2. ASSUME NEW k \in 1 .. d + 1, k > 1 PROVE frames'[k].node \notin DOMAIN rel \ roots'
    <3>1. d # 0 /\ roots' = roots
      BY <1>1, <1>2, <2>2 DEF d
    <3>2. CASE k \in 1 .. d
      BY <1>1, <2>2, <3>1, <3>2 DEF PairsInv, RootsVisited
    <3>3. CASE k = d + 1
      BY <1>1, <1>2, <3>1, <3>3
    <3>. QED  BY <1>4, <3>2, <3>3
  <2>. QED  BY <1>1, <2>1, <2>2 DEF RootsVisited
<1>. QED  BY <1>8, <1>9, <1>10, <1>11, <1>12, <1>13 DEF PairsInv

\* What a merge does to the calls.
Merged(x, y) ==
  LET d == Len(frames)
  IN  /\ d \in Nat \ {0} /\ DOMAIN frames = 1 .. d /\ DOMAIN frames' = 1 .. d
      /\ x \in Node /\ x = frames[d].node /\ y \in Related(x)
      /\ \A k \in 1 .. d : frames'[k].node = frames[k].node
      /\ \A k \in 1 .. d : k # d => /\ frames[k].node \in Node \ {x}
                                    /\ frames'[k].todo \cup frames'[k].waiting = frames[k].todo \cup frames[k].waiting
      /\ frames[d].todo \cup frames[d].waiting \subseteq frames'[d].todo \cup frames'[d].waiting \cup {y}
      /\ depths[y] # 0 /\ \A n \in Node : depths[n] # 0 => depths'[n] # 0
      /\ \A n \in Node : depths'[n] # 0 => depths[n] # 0
      /\ f'[x] = f[x] \cup f[y] /\ SameOtherwise(x) /\ roots' = roots

LEMMA CallMerged ==
  ASSUME Inv, NEW y \in Node, Merge(y)
  PROVE  Merged(frames[Len(frames)].node, y)
<1>. DEFINE d == Len(frames)
            x == frames[d].node
<1>1. /\ TypeOK /\ frames \in Seq(Frame) /\ d \in Nat /\ DOMAIN frames = 1 .. d
      /\ \A k \in 1 .. d : frames[k].node \in Node /\ depths[frames[k].node] = k
  BY CallFacts DEF Inv
<1>2. /\ frames # <<>> /\ Mergeable(y) /\ rel' = rel /\ base' = base /\ roots' = roots
      /\ frames' = [frames EXCEPT ![d] = HasMerged(frames[d], y)]
      /\ depths' = [depths EXCEPT ![y] = Lower(depths[x], depths[y])]
      /\ f' = [f EXCEPT ![x] = @ \cup f[y]]
  BY DEF Merge, Top
<1>3. d \in 1 .. d /\ frames[d] \in Frame /\ x \in Node /\ Top = frames[d] /\ d # 0
  <2>1. d \in 1 .. d
    BY <1>1, <1>2
  <2>. QED  BY <1>1, <2>1 DEF Top
<1>4. y \in Related(x) /\ depths[y] # 0 /\ depths[x] = d
  <2>1. y \in frames[d].todo \cup frames[d].waiting
    BY <1>2, <1>3 DEF Mergeable
  <2>2. frames[d].todo \cup frames[d].waiting \subseteq Related(x)
    BY <1>1, <1>3 DEF TypeOK
  <2>3. depths[y] # 0
    BY <1>1, <1>2, <1>3 DEF Mergeable, Inv, CallsWait
  <2>. QED  BY <1>1, <1>3, <2>1, <2>2, <2>3
<1>5. \A z \in frames[d].waiting : z = y
  BY <1>1, <1>2, <1>3 DEF Mergeable, Inv, CallsWait
<1>6. /\ DOMAIN frames' = 1 .. d
      /\ \A k \in 1 .. d : k # d => frames'[k] = frames[k]
      /\ frames'[d] = HasMerged(frames[d], y)
  <2>1. HasMerged(frames[d], y) \in Frame
    BY <1>3, CallFields
  <2>. HIDE DEF d
  <2>. QED  BY <1>1, <1>2, <1>3, <2>1
<1>7. /\ frames'[d].node = x /\ frames'[d].todo = frames[d].todo \ {y} /\ frames'[d].waiting = {}
  <2>1. LET c == HasMerged(frames[d], y)
        IN  c.node = frames[d].node /\ c.todo = frames[d].todo \ {y} /\ c.waiting = {}
    BY <1>3, CallFields
  <2>. HIDE DEF d
  <2>. QED  BY <1>6, <2>1 DEF x
<1>8. \A k \in 1 .. d : frames'[k].node = frames[k].node
  <2>. HIDE DEF d
  <2>. QED  BY <1>6, <1>7 DEF x
<1>9. \A n \in Node : depths'[n] # 0 <=> depths[n] # 0
  <2>1. depths \in [Node -> Nat]
    BY <1>1 DEF TypeOK
  <2>. HIDE DEF d
  <2>2. Lower(d, depths[y]) \in Nat \ {0}
    BY <1>1, <1>3, <1>4, <2>1 DEF Lower
  <2>. HIDE DEF x
  <2>. QED  BY <1>2, <1>4, <2>1, <2>2
<1>10. f'[x] = f[x] \cup f[y] /\ \A n \in Node \ {x} : f'[n] = f[n]
  <2>1. f \in [Node -> SUBSET Value]
    BY <1>1 DEF TypeOK
  <2>. HIDE DEF x
  <2>. QED  BY <1>2, <1>3, <2>1
<1>11. \A k \in 1 .. d : k # d => frames[k].node \in Node \ {x}
  BY <1>1, <1>3
<1>12. frames[d].todo \cup frames[d].waiting \subseteq frames'[d].todo \cup frames'[d].waiting \cup {y}
  BY <1>5, <1>7
<1>. HIDE DEF d, x
<1>13. \A k \in 1 .. d : k # d => frames'[k].todo \cup frames'[k].waiting = frames[k].todo \cup frames[k].waiting
  BY <1>6
<1>. QED
  BY <1>1, <1>2, <1>3, <1>4, <1>6, <1>8, <1>9, <1>10, <1>11, <1>12, <1>13 DEF Merged, SameOtherwise, d, x

\* What is related to the top call and on no loop with it has returned, and
\* so has its set.
LEMMA OuterHasReturned ==
  ASSUME Inv, PairsInv, frames # <<>>, NEW x, x = frames[Len(frames)].node,
         NEW y \in Outer(x), depths[y] # 0, Simple(x)
  PROVE  Least(y) \subseteq f[y]
<1>. DEFINE d == Len(frames)
<1>1. d \in Nat \ {0} /\ DOMAIN frames = 1 .. d /\ rel \in Relations /\ base \in Bases
  BY CallFacts DEF Inv, TypeOK
<1>2. y \in Node /\ Simple(y) /\ Loop(y) \subseteq {y} /\ y \in Related(x) /\ y # x /\ y \notin Loop(x)
  BY <1>1, OuterIsSimple DEF Outer
<1>3. ASSUME NEW j \in 1 .. d, y = frames[j].node PROVE FALSE
  <2>1. j < d /\ d \in 1 .. d
    BY <1>1, <1>2, <1>3
  <2>2. x \in Reach(y)
    BY <1>1, <1>3, <2>1 DEF PairsInv, CallsReach
  <2>3. y \in Reach(x)
    BY <1>1, <1>2, ReachRelated
  <2>. QED  BY <1>2, <2>2, <2>3 DEF Loop
<1>4. y \notin Active
  BY <1>1, <1>3 DEF Active
<1>5. Own(y) \subseteq f[y]
  BY <1>2, <1>4 DEF PairsInv, ReturnedHaveOwn
<1>6. Least(y) \subseteq Own(y)
  BY <1>1, <1>2, OwnIsLeast
<1>. QED  BY <1>5, <1>6

LEMMA MergedKeeps ==
  ASSUME Inv, PairsInv, NEW x \in Node, NEW y \in Node, Merged(x, y)
  PROVE  PairsInv'
<1>. DEFINE d == Len(frames)
<1>1. /\ d \in Nat \ {0} /\ DOMAIN frames = 1 .. d /\ DOMAIN frames' = 1 .. d
      /\ x = frames[d].node /\ y \in Related(x)
      /\ \A k \in 1 .. d : frames'[k].node = frames[k].node
      /\ \A k \in 1 .. d : k # d => /\ frames[k].node \in Node \ {x}
                                    /\ frames'[k].todo \cup frames'[k].waiting = frames[k].todo \cup frames[k].waiting
      /\ frames[d].todo \cup frames[d].waiting \subseteq frames'[d].todo \cup frames'[d].waiting \cup {y}
      /\ depths[y] # 0 /\ \A n \in Node : depths[n] # 0 => depths'[n] # 0
      /\ \A n \in Node : depths'[n] # 0 => depths[n] # 0
      /\ f'[x] = f[x] \cup f[y] /\ \A n \in Node \ {x} : f'[n] = f[n]
      /\ rel' = rel /\ base' = base /\ roots' = roots
  BY DEF Merged, SameOtherwise
<1>2. TypeOK /\ rel \in Relations /\ frames # <<>>
  BY <1>1 DEF Inv, TypeOK
<1>3. /\ \A n : Related(n)' = Related(n) /\ Reach(n)' = Reach(n) /\ Loop(n)' = Loop(n) /\ Least(n)' = Least(n)
      /\ \A n : Outer(n)' = Outer(n) /\ Own(n)' = Own(n) /\ (Simple(n)' <=> Simple(n))
  BY <1>1, SameReach
<1>4. \A z \in Outer(x) : depths[z] # 0 /\ Simple(x) => Least(z) \subseteq f[z]
  BY <1>1, <1>2, OuterHasReturned
<1>. HIDE DEF d
<1>5. Active' = Active /\ x \in Active
  <2>1. d \in 1 .. d
    BY <1>1
  <2>. QED  BY <1>1, <2>1 DEF Active
<1>6. \A k \in 1 .. d : k # d => Rest(k)' = Rest(k)
  BY <1>1 DEF Rest
<1>7. \A k \in {d} : Rest(k) \subseteq Rest(k)' \cup {y}
  BY <1>1 DEF Rest
<1>8. CallsReach'
  <2>1. \A i, j \in 1 .. d : i < j => frames'[j].node \in Reach(frames'[i].node)
    BY <1>1 DEF PairsInv, CallsReach
  <2>. QED  BY <1>1, <1>3, <2>1 DEF CallsReach, Reach, Related
<1>9. CallsHaveOwn'
  <2>. SUFFICES ASSUME NEW k \in 1 .. d PROVE CallHasOwn(k)'
    BY <1>1 DEF CallsHaveOwn
  <2>. SUFFICES ASSUME NEW n \in {frames'[k].node}, Simple(n)
                PROVE  /\ base[n] \subseteq f'[n]
                       /\ \A z \in Outer(n) \ Rest(k)' : Least(z) \subseteq f'[n]
    BY <1>1, <1>3 DEF CallHasOwn
  <2>1. CallHasOwn(k)
    BY <1>1 DEF PairsInv, CallsHaveOwn
  <2>2. n = frames[k].node /\ base[n] \subseteq f[n]
        /\ \A z \in Outer(n) \ Rest(k) : Least(z) \subseteq f[n]
    BY <1>1, <2>1 DEF CallHasOwn
  <2>3. CASE k # d
    <3>1. f'[n] = f[n] /\ Rest(k)' = Rest(k)
      BY <1>1, <1>6, <2>2, <2>3
    <3>. QED  BY <2>2, <3>1
  <2>4. CASE k = d
    <3>1. n = x /\ f'[n] = f[n] \cup f[y] /\ Rest(k) \subseteq Rest(k)' \cup {y}
      BY <1>1, <1>7, <2>2, <2>4
    <3>2. y \in Outer(n) => Least(y) \subseteq f[y]
      BY <1>1, <1>4, <3>1
    <3>. QED  BY <2>2, <3>1, <3>2
  <2>. QED  BY <2>3, <2>4
<1>10. ReturnedHaveOwn'
  <2>. SUFFICES ASSUME NEW n \in Node, n \notin Active, depths'[n] # 0, Simple(n)
                PROVE  Own(n) \subseteq f'[n]
    BY <1>3, <1>5 DEF ReturnedHaveOwn
  <2>. QED  BY <1>1, <1>5 DEF PairsInv, ReturnedHaveOwn
<1>11. RootHasPartners'
  <2>. SUFFICES ASSUME NEW n \in {frames'[1].node},
                       NEW b \in Related(n) \ (Rest(1)' \cup {n}), Simple(b)
                PROVE  Own(b) \subseteq f'[n]
    BY <1>3 DEF RootHasPartners
  <2>1. 1 \in 1 .. d
    BY <1>1
  <2>2. n = frames[1].node
    BY <1>1, <2>1
  <2>3. b \notin Rest(1) => Own(b) \subseteq f[n]
    BY <1>2, <2>2 DEF PairsInv, RootHasPartners
  <2>4. CASE d # 1
    <3>1. f'[n] = f[n] /\ Rest(1)' = Rest(1)
      BY <1>1, <1>6, <2>1, <2>2, <2>4
    <3>. QED  BY <2>3, <3>1
  <2>5. CASE d = 1
    <3>1. n = x /\ f'[n] = f[n] \cup f[y] /\ Rest(1) \subseteq Rest(1)' \cup {y}
      BY <1>1, <1>7, <2>2, <2>5
    <3>2. CASE b # y
      BY <2>3, <3>1, <3>2
    <3>3. CASE b = y
      <4>1. Active = {x}
        <5>1. 1 .. d = {1}
          BY <2>5
        <5>. QED  BY <1>1, <2>5, <5>1 DEF Active
      <4>2. Own(y) \subseteq f[y]
        BY <1>1, <3>1, <3>3, <4>1 DEF PairsInv, ReturnedHaveOwn
      <4>. QED  BY <3>1, <3>3, <4>2
    <3>. QED  BY <3>2, <3>3
  <2>. QED  BY <2>4, <2>5
<1>12. RootsHavePartners'
  <2>. SUFFICES ASSUME NEW n \in DOMAIN rel \ roots, n \notin Active,
                       NEW b \in Related(n) \ {n}, Simple(b)
                PROVE  Own(b) \subseteq f'[n]
    BY <1>1, <1>3, <1>5 DEF RootsHavePartners
  <2>1. n \in Node
    BY <1>2, RelationsAssumption
  <2>. QED  BY <1>1, <1>5, <2>1 DEF PairsInv, RootsHavePartners
<1>13. RootsVisited'
  <2>1. \A n \in DOMAIN rel \ roots : n \in Node
    BY <1>2, RelationsAssumption
  <2>. QED  BY <1>1, <2>1 DEF PairsInv, RootsVisited
<1>. QED  BY <1>8, <1>9, <1>10, <1>11, <1>12, <1>13 DEF PairsInv

\* What a return does to the calls: it changes no set, no component has two nodes.
Returned(x) ==
  LET d == Len(frames)
  IN  /\ d \in Nat \ {0} /\ DOMAIN frames = 1 .. d
      /\ frames' \in Seq(Frame) /\ DOMAIN frames' = 1 .. d - 1
      /\ x = frames[d].node /\ frames[d].todo = {} /\ frames[d].waiting = {}
      /\ \A k \in 1 .. d - 1 : frames'[k] = frames[k] /\ frames[k].node \in Node \ {x}
      /\ \A n \in Node : depths'[n] # 0 => depths[n] # 0
      /\ \A n \in Node : depths[n] # 0 => depths'[n] # 0
      /\ f' = f /\ rel' = rel /\ base' = base /\ roots' = roots

LEMMA CallReturned ==
  ASSUME Inv, Return
  PROVE  frames[Len(frames)].node \in Node /\ Returned(frames[Len(frames)].node)
<1>. DEFINE d == Len(frames)
            x == frames[d].node
<1>1. /\ frames \in Seq(Frame) /\ d \in Nat /\ DOMAIN frames = 1 .. d
      /\ stack \in Seq(Node) /\ Len(stack) = d
      /\ f \in [Node -> SUBSET Value] /\ depths \in [Node -> Nat]
      /\ \A k \in 1 .. d : /\ frames[k].node \in Node /\ frames[k].depth = k
                           /\ stack[k] = frames[k].node /\ depths[frames[k].node] = k
  BY CallFacts DEF Inv, TypeOK
<1>2. d \in 1 .. d /\ x \in Node /\ depths[x] = d /\ Top.depth = d /\ Top.node = x /\ d # 0
  <2>1. d \in 1 .. d
    BY <1>1 DEF Return
  <2>. QED  BY <1>1, <2>1 DEF Top
<1>3. \A k \in 1 .. d : k # d => frames[k].node # x
  BY <1>1, <1>2
<1>4. Component(x) = {x}
  BY ReturnPopsOne DEF Return
<1>5. /\ rel' = rel /\ base' = base /\ roots' = roots /\ frames[d].todo = {} /\ frames[d].waiting = {}
      /\ frames' = SubSeq(frames, 1, d - 1)
      /\ depths' = [n \in Node |-> IF n = x THEN Infinity ELSE depths[n]]
      /\ f' = [n \in Node |-> IF n = x THEN f[x] ELSE f[n]]
  BY <1>2, <1>4 DEF Return, Top
<1>. HIDE DEF d, x
<1>6. f' = f
  BY <1>1, <1>5
<1>7. \A n \in Node : depths'[n] # 0 <=> depths[n] # 0
  BY <1>1, <1>2, <1>5, InfinityAssumption
<1>8. /\ frames' \in Seq(Frame) /\ DOMAIN frames' = 1 .. d - 1
      /\ \A k \in 1 .. d - 1 : frames'[k] = frames[k]
  BY <1>1, <1>2, <1>5
<1>9. \A k \in 1 .. d - 1 : frames[k].node \in Node \ {x}
  <2>1. \A k \in 1 .. d - 1 : k \in 1 .. d /\ k # d
    BY <1>1
  <2>. QED  BY <1>1, <1>3, <2>1
<1>. QED  BY <1>1, <1>2, <1>5, <1>6, <1>7, <1>8, <1>9 DEF Returned, d, x

LEMMA ReturnedKeeps ==
  ASSUME Inv, PairsInv, NEW x \in Node, Returned(x)
  PROVE  PairsInv'
<1>. DEFINE d == Len(frames)
<1>1. /\ d \in Nat \ {0} /\ DOMAIN frames = 1 .. d
      /\ frames' \in Seq(Frame) /\ DOMAIN frames' = 1 .. d - 1
      /\ x = frames[d].node /\ frames[d].todo = {} /\ frames[d].waiting = {}
      /\ \A k \in 1 .. d - 1 : frames'[k] = frames[k] /\ frames[k].node \in Node \ {x}
      /\ \A n \in Node : depths'[n] # 0 => depths[n] # 0
      /\ \A n \in Node : depths[n] # 0 => depths'[n] # 0
      /\ f' = f /\ rel' = rel /\ base' = base /\ roots' = roots
  BY DEF Returned
<1>2. TypeOK /\ rel \in Relations /\ frames # <<>>
  BY <1>1 DEF Inv, TypeOK
<1>3. /\ \A n : Related(n)' = Related(n) /\ Reach(n)' = Reach(n) /\ Loop(n)' = Loop(n) /\ Least(n)' = Least(n)
      /\ \A n : Outer(n)' = Outer(n) /\ Own(n)' = Own(n) /\ (Simple(n)' <=> Simple(n))
  BY <1>1, SameReach
<1>. HIDE DEF d
<1>4. \A k \in 1 .. d : k \in 1 .. d - 1 \/ k = d
  BY <1>1
<1>5. \A k \in 1 .. d - 1 : k \in 1 .. d
  BY <1>1
<1>6. d \in 1 .. d /\ Rest(d) = {}
  BY <1>1 DEF Rest
<1>7. \A n \in Active : n = x \/ n \in Active'
  <2>. SUFFICES ASSUME NEW k \in 1 .. d PROVE frames[k].node = x \/ frames[k].node \in Active'
    BY <1>1 DEF Active
  <2>1. CASE k = d
    BY <1>1, <2>1
  <2>2. CASE k # d
    <3>1. k \in 1 .. d - 1
      BY <1>4, <2>2
    <3>. QED  BY <1>1, <3>1 DEF Active
  <2>. QED  BY <2>1, <2>2
<1>8. CallsReach'
  <2>1. \A i, j \in 1 .. d - 1 : i < j => frames'[j].node \in Reach(frames'[i].node)
    BY <1>1, <1>5 DEF PairsInv, CallsReach
  <2>. QED  BY <1>1, <1>3, <2>1 DEF CallsReach, Reach, Related
<1>9. CallsHaveOwn'
  <2>. SUFFICES ASSUME NEW k \in 1 .. d - 1 PROVE CallHasOwn(k)'
    BY <1>1 DEF CallsHaveOwn
  <2>1. CallHasOwn(k) /\ frames'[k] = frames[k]
    BY <1>1, <1>5 DEF PairsInv, CallsHaveOwn
  <2>. QED  BY <1>1, <1>3, <2>1 DEF CallHasOwn, Rest
<1>10. ReturnedHaveOwn'
  <2>. SUFFICES ASSUME NEW n \in Node, n \notin Active', depths'[n] # 0, Simple(n)
                PROVE  Own(n) \subseteq f[n]
    BY <1>1, <1>3 DEF ReturnedHaveOwn
  <2>1. CASE n = x
    <3>1. CallHasOwn(d)
      BY <1>1, <1>6 DEF PairsInv, CallsHaveOwn
    <3>. QED  BY <1>1, <1>6, <2>1, <3>1 DEF CallHasOwn, Own
  <2>2. CASE n # x
    BY <1>1, <1>7, <2>2 DEF PairsInv, ReturnedHaveOwn
  <2>. QED  BY <2>1, <2>2
<1>11. RootHasPartners'
  <2>. SUFFICES ASSUME frames' # <<>>, NEW n \in {frames'[1].node},
                       NEW b \in Related(n) \ (Rest(1)' \cup {n}), Simple(b)
                PROVE  Own(b) \subseteq f[n]
    BY <1>1, <1>3 DEF RootHasPartners
  <2>1. 1 \in 1 .. d - 1
    <3>1. Len(frames') # 0 /\ DOMAIN frames' = 1 .. Len(frames') /\ Len(frames') \in Nat
      BY <1>1
    <3>2. 1 \in 1 .. Len(frames')
      BY <3>1
    <3>. QED  BY <1>1, <3>1, <3>2
  <2>. QED  BY <1>1, <1>2, <2>1 DEF PairsInv, RootHasPartners, Rest
<1>12. RootsHavePartners'
  <2>. SUFFICES ASSUME NEW n \in DOMAIN rel \ roots, n \notin Active',
                       NEW b \in Related(n) \ {n}, Simple(b)
                PROVE  Own(b) \subseteq f[n]
    BY <1>1, <1>3 DEF RootsHavePartners
  <2>1. CASE n # x
    BY <1>7, <2>1 DEF PairsInv, RootsHavePartners
  <2>2. CASE n = x
    <3>1. d = 1
      <4>1. d > 1 => frames[d].node \notin DOMAIN rel \ roots
        BY <1>1, <1>6 DEF PairsInv, RootsVisited
      <4>. QED  BY <1>1, <2>2, <4>1
    <3>. QED  BY <1>1, <1>2, <1>6, <2>2, <3>1 DEF PairsInv, RootHasPartners
  <2>. QED  BY <2>1, <2>2
<1>13. RootsVisited'
  <2>1. \A n \in DOMAIN rel \ roots : n \in Node
    BY <1>2, RelationsAssumption
  <2>. QED  BY <1>1, <1>5, <2>1 DEF PairsInv, RootsVisited
<1>. QED  BY <1>8, <1>9, <1>10, <1>11, <1>12, <1>13 DEF PairsInv

LEMMA NextPairsInv == Inv /\ PairsInv /\ [Next]_vars => PairsInv'
<1>. SUFFICES ASSUME Inv, PairsInv, [Next]_vars PROVE PairsInv'
  OBVIOUS
<1>1. ASSUME NEW x \in Node, TraverseRoot(x) PROVE PairsInv'
  <2>1. Entered(x) /\ roots' = roots \ {x} /\ frames = <<>>
    BY <1>1, RootEntered
  <2>. QED  BY <2>1, EnteredKeeps
<1>2. ASSUME NEW y \in Node, TraverseRelated(y) PROVE PairsInv'
  <2>1. /\ Entered(y) /\ roots' = roots /\ frames # <<>>
        /\ depths[y] = 0 /\ y \in Related(frames[Len(frames)].node)
    BY <1>2, RelatedEntered
  <2>2. y \notin DOMAIN rel \ roots
    BY <2>1 DEF PairsInv, RootsVisited
  <2>. QED  BY <2>1, <2>2, EnteredKeeps
<1>3. ASSUME NEW y \in Node, Merge(y) PROVE PairsInv'
  <2>1. Merged(frames[Len(frames)].node, y)
    BY <1>3, CallMerged
  <2>2. frames[Len(frames)].node \in Node
    BY <2>1 DEF Merged
  <2>. QED  BY <2>1, <2>2, MergedKeeps
<1>4. CASE Return
  BY <1>4, CallReturned, ReturnedKeeps
<1>5. CASE UNCHANGED vars
  <2>1. rel' = rel /\ base' = base /\ f' = f /\ depths' = depths /\ frames' = frames /\ roots' = roots
    BY <1>5 DEF vars
  <2>2. /\ \A n : Related(n)' = Related(n) /\ Reach(n)' = Reach(n) /\ Loop(n)' = Loop(n) /\ Least(n)' = Least(n)
        /\ \A n : Outer(n)' = Outer(n) /\ Own(n)' = Own(n) /\ (Simple(n)' <=> Simple(n))
    BY <2>1, SameReach
  <2>3. Active' = Active
    BY <2>1 DEF Active
  <2>4. CallsReach'
    BY <2>1 DEF PairsInv, CallsReach, Reach, Related
  <2>5. CallsHaveOwn'
    BY <2>1, <2>2 DEF PairsInv, CallsHaveOwn, CallHasOwn, Rest
  <2>6. ReturnedHaveOwn'
    BY <2>1, <2>2, <2>3 DEF PairsInv, ReturnedHaveOwn
  <2>7. RootHasPartners' /\ RootsHavePartners'
    BY <2>1, <2>2, <2>3 DEF PairsInv, RootHasPartners, RootsHavePartners, Rest
  <2>8. RootsVisited'
    BY <2>1 DEF PairsInv, RootsVisited
  <2>. QED  BY <2>4, <2>5, <2>6, <2>7, <2>8 DEF PairsInv
<1>. QED  BY <1>1, <1>2, <1>3, <1>4, <1>5 DEF Next, Terminated

\* The two nodes of a loop of two.
LEMMA LoopOfTwo ==
  ASSUME IsFiniteSet(Node), rel \in Relations, NEW x \in Node, Cardinality(Loop(x)) = 2
  PROVE  \E b \in Node : b # x /\ Loop(x) = {x, b}
<1>1. Loop(x) \subseteq Node /\ IsFiniteSet(Loop(x))
  <2>1. Loop(x) \subseteq Node
    BY ReachRelated DEF Loop
  <2>. QED  BY <2>1, FS_Subset
<1>2. x \in Loop(x)
  <2>1. Loop(x) # {}
    BY FS_EmptySet
  <2>. QED  BY <2>1, PartnerIsAlike
<1>3. IsFiniteSet(Loop(x) \ {x}) /\ Cardinality(Loop(x) \ {x}) = 1
  BY <1>1, <1>2, FS_RemoveElement
<1>4. PICK b : Loop(x) \ {x} = {b}
  BY <1>3, FS_Singleton
<1>5. b \in Loop(x) /\ b # x /\ Loop(x) = {x, b}
  BY <1>2, <1>4
<1>. QED  BY <1>1, <1>5

\* Once every key has been traversed, a node of a loop of two has what the other
\* one has of its own: if they lead to no other loop, that is all of F.
LEMMA PairsHaveAll ==
  ASSUME IsFiniteSet(Node), Inv, PairsInv PROVE PairsExact
<1>. SUFFICES ASSUME Done, NEW x \in DOMAIN rel, Cardinality(Loop(x)) = 2, Simple(x)
              PROVE  f[x] = Least(x)
  BY DEF PairsExact, Simple
<1>1. rel \in Relations /\ base \in Bases /\ x \in Node
  BY RelationsAssumption DEF Inv, TypeOK
<1>2. x \notin Active /\ x \in DOMAIN rel \ roots
  BY DEF Done, Active
<1>3. PICK b \in Node : b # x /\ Loop(x) = {x, b}
  BY <1>1, LoopOfTwo
<1>4. b \in Related(x) \ {x}
  BY <1>1, <1>3, PairIsRelated
<1>5. Loop(b) = {x, b} /\ Simple(b)
  BY <1>1, <1>3, PartnerIsAlike
<1>6. Own(b) \subseteq f[x]
  BY <1>2, <1>4, <1>5 DEF PairsInv, RootsHavePartners
<1>7. Own(x) \subseteq f[x]
  BY <1>1, <1>2 DEF PairsInv, ReturnedHaveOwn, RootsVisited
<1>8. Least(x) \subseteq Own(x) \cup Own(b)
  BY <1>1, <1>3, <1>5, LeastOfPair
<1>. QED  BY <1>1, <1>6, <1>7, <1>8 DEF Inv, Sound

\* On every finite relation, the second traversals make up for the components of
\* two nodes that are never merged, in whatever order the hash gives the keys.
THEOREM PairsAreExact == ASSUME IsFiniteSet(Node) PROVE Spec => []PairsExact
<1>1. Init => Inv /\ PairsInv
  BY InitInv, InitPairsInv
<1>2. (Inv /\ PairsInv) /\ [Next]_vars => (Inv /\ PairsInv)'
  BY NextInv, NextPairsInv
<1>3. Inv /\ PairsInv => PairsExact
  BY PairsHaveAll
<1>. QED  BY <1>1, <1>2, <1>3, PTL DEF Spec

=============================================================================
