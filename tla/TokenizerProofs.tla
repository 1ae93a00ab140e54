--------------------------- MODULE TokenizerProofs --------------------------
(***************************************************************************)
(* Proofs about next_token(), for every tokenizer, every text, every order *)
(* in which RE2 lists the patterns that match, and whatever the actions of *)
(* the user do to the streams and the state; that the stack of streams     *)
(* reads as one text, so that the tokenizer implements Scanner; and that   *)
(* parse() over next_token() is parse() over the tokens of its text.       *)
(***************************************************************************)
EXTENDS TokenizerText, ParserStreams, FlattenProofs, FiniteSetTheorems, SequenceTheorems, TLAPS

-----------------------------------------------------------------------------
(* Hypotheses *)

\* RE2 gives matches a size.
SizesOK == \A pattern, text : MatchLength(pattern, text) \in Nat

\* Texts are sequences of characters.
PushesOver(C, action) == action.kind = "Push" => action.text \in Seq(C)
TextsOver(C) ==
  /\ Texts \subseteq Seq(C)
  /\ \A m \in DOMAIN Tokenizers :
       /\ PushesOver(C, Tokenizers[m].globalAction)
       /\ \A n \in DOMAIN Tokenizers[m].tokens : PushesOver(C, Tokenizers[m].tokens[n].action)

CanTie(t, u) == \E text : /\ Matches(t.pattern, text) /\ Matches(u.pattern, text)
                          /\ MatchLength(t.pattern, text) = MatchLength(u.pattern, text)

\* Of two places in the list of a state whose tokens can match equally long texts,
\* the index of the one is not above the place of the other.
InOrder(t, list) ==
  \A p, q \in DOMAIN list :
    p < q /\ list[p] # list[q] /\ CanTie(t.tokens[list[p]], t.tokens[list[q]]) => list[p] <= q /\ p < list[q]

TiesInOrder ==
  \A m \in DOMAIN Tokenizers : \A name \in DOMAIN Tokenizers[m].active : InOrder(Tokenizers[m], Tokenizers[m].active[name])

\* The tables are such as prepare() leaves.
TablesFit == \A k \in DOMAIN Tables : P!TableOK(Tables[k])

-----------------------------------------------------------------------------
(* Streams *)

Stream(C) == [text : Seq(C), at_end : BOOLEAN]

\* A stream that has ended has nothing left.
EndedIsEmpty(S) == \A k \in DOMAIN S : S[k].at_end => S[k].text = <<>>

GoodStreams(C, S) == S \in Seq(Stream(C)) /\ EndedIsEmpty(S)

LEMMA CountTo ==
  ASSUME NEW n \in Nat
  PROVE  IsFiniteSet(1 .. n) /\ Cardinality(1 .. n) = n
<1>1. IsFiniteSet(1 .. n) /\ Cardinality(1 .. n) = IF 1 > n THEN 0 ELSE n - 1 + 1
  BY FS_Interval
<1>. QED  BY <1>1

LEMMA StreamsPushed ==
  ASSUME NEW C, NEW S, GoodStreams(C, S), NEW text \in Seq(C)
  PROVE  GoodStreams(C, Append(S, StreamOf(text)))
<1>. DEFINE before == {n \in DOMAIN text : \A k \in 1 .. n : text[k] # Nul}
<1>1. before \subseteq 1 .. Len(text) /\ Len(text) \in Nat
  OBVIOUS
<1>2. Cardinality(before) \in Nat /\ Cardinality(before) <= Len(text)
  <2>1. IsFiniteSet(1 .. Len(text)) /\ Cardinality(1 .. Len(text)) = Len(text)
    BY <1>1, CountTo
  <2>. HIDE DEF before
  <2>2. IsFiniteSet(before) /\ Cardinality(before) <= Cardinality(1 .. Len(text))
    BY <1>1, <2>1, FS_Subset
  <2>. QED  BY <2>1, <2>2, FS_CardinalityType
<1>3. Visible(text) = SubSeq(text, 1, Cardinality(before))
  BY DEF Visible
<1>. HIDE DEF before
<1>4. Visible(text) \in Seq(C)
  BY <1>2, <1>3
<1>. DEFINE new == StreamOf(text)
<1>5. new \in Stream(C) /\ ~new.at_end
  BY <1>4 DEF StreamOf, Stream
<1>. HIDE DEF new
<1>6. S \in Seq(Stream(C))
  BY DEF GoodStreams
<1>7. Append(S, new) \in Seq(Stream(C))
  BY <1>5, <1>6
<1>8. ASSUME NEW k \in DOMAIN Append(S, new), Append(S, new)[k].at_end PROVE Append(S, new)[k].text = <<>>
  <2>1. k \in 1 .. Len(S) + 1 /\ Len(S) \in Nat
    BY <1>5, <1>6
  <2>2. CASE k = Len(S) + 1
    BY <1>5, <1>6, <1>8, <2>2
  <2>3. CASE k # Len(S) + 1
    <3>1. k \in DOMAIN S /\ Append(S, new)[k] = S[k]
      BY <1>6, <2>1, <2>3
    <3>. QED  BY <1>8, <3>1 DEF GoodStreams, EndedIsEmpty
  <2>. QED  BY <2>2, <2>3
<1>. QED  BY <1>7, <1>8 DEF GoodStreams, EndedIsEmpty, new

LEMMA StreamsPopped ==
  ASSUME NEW C, NEW S, GoodStreams(C, S)
  PROVE  GoodStreams(C, SubSeq(S, 1, Len(S) - 1))
<1>. DEFINE T == SubSeq(S, 1, Len(S) - 1)
<1>1. S \in Seq(Stream(C)) /\ Len(S) \in Nat /\ DOMAIN S = 1 .. Len(S)
  BY DEF GoodStreams
<1>2. T \in Seq(Stream(C))
  BY <1>1
<1>3. \A k \in DOMAIN T : k \in DOMAIN S /\ T[k] = S[k]
  BY <1>1
<1>. QED  BY <1>2, <1>3 DEF GoodStreams, EndedIsEmpty

\* An action of the user leaves good streams.
LEMMA StreamsAfterEffect ==
  ASSUME NEW C, NEW S, GoodStreams(C, S), NEW name, NEW action, PushesOver(C, action)
  PROVE  LET after == EffectOn([state |-> name, streams |-> S], action)
         IN  /\ GoodStreams(C, after.streams)
             /\ after = [state |-> after.state, streams |-> after.streams]
<1>1. CASE action.kind = "Push"
  BY <1>1, StreamsPushed DEF EffectOn, PushesOver
<1>2. CASE action.kind = "Pop"
  BY <1>2, StreamsPopped DEF EffectOn
<1>3. CASE action.kind = "Enter"
  BY <1>3 DEF EffectOn
<1>4. CASE action.kind \notin {"Push", "Pop", "Enter"}
  BY <1>4 DEF EffectOn
<1>. QED  BY <1>1, <1>2, <1>3, <1>4

-----------------------------------------------------------------------------
(* The inductive invariant *)

\* The best match of those compared so far: none is longer, and none that is as
\* long has been declared before it.
BestSoFar ==
  \A p \in MatchedPatterns \ matched :
    /\ best # 0
    /\ \/ LengthAt(p) < LengthAt(best)
       \/ LengthAt(p) = LengthAt(best) /\ Active[best] <= Active[p]

Inv(C) == TypeOK /\ GoodStreams(C, streams)

\* What the assumption says of the list of the current state.
LEMMA ActiveList ==
  ASSUME machine \in DOMAIN Prepared, state \in DOMAIN tokenizer.active
  PROVE  /\ Active \in Seq(Nat) /\ DOMAIN Active \subseteq Nat \ {0}
         /\ \A p, q \in DOMAIN Active : p < q => Active[p] <= Active[q]
         /\ \A p \in DOMAIN Active : Active[p] \in DOMAIN tokenizer.tokens
         /\ \A n \in DOMAIN tokenizer.tokens :
              tokenizer.tokens[n].symbol # <<>> => tokenizer.tokens[n].symbol[1] \in Symbol \ {EndSymbol, NoMatch, Thrown}
BY TokenizersAssumption DEF TokenizersAssumption, Prepared, tokenizer, Active

\* When a token has been chosen there is a stream to cut it from.
LEMMA ChosenStream ==
  ASSUME NEW C, Inv(C), Chosen
  PROVE  /\ best \in MatchedPatterns /\ best \in DOMAIN Active
         /\ streams # <<>> /\ TopStream \in Stream(C) /\ ~TopStream.at_end
         /\ TokenAt(best) = tokenizer.tokens[Active[best]] /\ Active[best] \in DOMAIN tokenizer.tokens
<1>1. best \in MatchedPatterns /\ streams # <<>> /\ ~TopStream.at_end
  BY DEF Inv, TypeOK, Chosen
<1>2. TopStream \in Stream(C)
  BY <1>1 DEF Inv, GoodStreams, TopStream
<1>3. best \in DOMAIN Active
  BY <1>1 DEF MatchedPatterns
<1>. QED  BY <1>1, <1>2, <1>3, ActiveList DEF TokenAt, Inv, TypeOK

LEMMA ConsumedStreams ==
  ASSUME NEW C, SizesOK, Inv(C), Chosen
  PROVE  GoodStreams(C, Consumed.streams) /\ Consumed = [state |-> Consumed.state, streams |-> Consumed.streams]
<1>. DEFINE n == LengthAt(best)
            text == TopStream.text
            left == [text |-> SubSeq(text, n + 1, Len(text)), at_end |-> text = <<>>]
<1>1. streams \in Seq(Stream(C)) /\ streams # <<>> /\ text \in Seq(C) /\ n \in Nat
  BY ChosenStream DEF Stream, SizesOK, LengthAt, Inv, GoodStreams
<1>2. Consumed.streams = Append(Below, left) /\ Consumed = [state |-> Consumed.state, streams |-> Consumed.streams]
  BY DEF Consumed
<1>3. SubSeq(text, n + 1, Len(text)) \in Seq(C)
  BY <1>1
<1>4. text = <<>> => SubSeq(text, n + 1, Len(text)) = <<>>
  BY <1>1
<1>5. left \in Stream(C) /\ (left.at_end => left.text = <<>>)
  BY <1>3, <1>4 DEF Stream
<1>. HIDE DEF left, n, text
<1>6. GoodStreams(C, Below)
  BY StreamsPopped DEF Inv, Below
<1>7. GoodStreams(C, Append(Below, left))
  <2>. DEFINE T == Append(Below, left)
  <2>1. Below \in Seq(Stream(C)) /\ T \in Seq(Stream(C))
    BY <1>5, <1>6 DEF GoodStreams
  <2>2. ASSUME NEW k \in DOMAIN T, T[k].at_end PROVE T[k].text = <<>>
    <3>1. k \in 1 .. Len(Below) + 1 /\ Len(Below) \in Nat
      BY <1>5, <2>1
    <3>2. CASE k = Len(Below) + 1
      BY <1>5, <2>1, <2>2, <3>2
    <3>3. CASE k # Len(Below) + 1
      <4>1. k \in DOMAIN Below /\ T[k] = Below[k]
        BY <2>1, <3>1, <3>3
      <4>. QED  BY <1>6, <2>2, <4>1 DEF GoodStreams, EndedIsEmpty
    <3>. QED  BY <3>2, <3>3
  <2>. QED  BY <2>1, <2>2 DEF GoodStreams, EndedIsEmpty
<1>. QED  BY <1>2, <1>7

LEMMA StreamsAfterActions ==
  ASSUME NEW C, SizesOK, TextsOver(C), Inv(C), Chosen
  PROVE  GoodStreams(C, AfterActions(TokenAt(best)).streams)
<1>. DEFINE first == EffectOn(Consumed, tokenizer.globalAction)
            chosen == TokenAt(best)
<1>1. GoodStreams(C, Consumed.streams) /\ Consumed = [state |-> Consumed.state, streams |-> Consumed.streams]
  BY ConsumedStreams
<1>2. PushesOver(C, tokenizer.globalAction) /\ PushesOver(C, chosen.action)
  BY ChosenStream DEF TextsOver, tokenizer, Prepared, Inv, TypeOK
<1>3. GoodStreams(C, first.streams) /\ first = [state |-> first.state, streams |-> first.streams]
  BY <1>1, <1>2, StreamsAfterEffect
<1>. HIDE DEF first, chosen
<1>4. GoodStreams(C, EffectOn(first, chosen.action).streams)
  BY <1>2, <1>3, StreamsAfterEffect
<1>. QED  BY <1>4 DEF AfterActions, first, chosen


\* What the comparing phase looks at stays while the streams and the state do.
LEMMA SameContext ==
  ASSUME UNCHANGED <<machine, state, streams>>
  PROVE  /\ tokenizer' = tokenizer /\ Active' = Active /\ TopStream' = TopStream
         /\ MatchedPatterns' = MatchedPatterns
         /\ \A p : LengthAt(p)' = LengthAt(p)
BY DEF tokenizer, Active, TopStream, MatchedPatterns, LengthAt, TokenAt

LEMMA InitInv ==
  ASSUME NEW C, Init
  PROVE  Inv(C)
<1>1. state \in DOMAIN tokenizer.active
  BY TokenizersAssumption DEF TokenizersAssumption, Init, Prepared, tokenizer
<1>2. TypeOK
  BY <1>1 DEF Init, TypeOK
<1>. QED  BY <1>2 DEF Init, Inv, GoodStreams, EndedIsEmpty

\* What the user does between two tokens.
LEMMA UserStep ==
  ASSUME NEW C, TextsOver(C), Inv(C), User
  PROVE  Inv(C)'
<1>0. /\ phase = "Idle" /\ matched = {} /\ best = 0 /\ UNCHANGED <<machine, matched, best>>
      /\ Len(result') \in 0 .. 1 /\ \A k \in DOMAIN result' : ResultOK(result'[k])
      /\ phase' \in {"Idle", "Looping"}
  BY DEF User, Parse, PushInputStream, PopInputStream, EnterState, Call, loopVars, Inv, TypeOK
<1>1. tokenizer' = tokenizer
  BY <1>0 DEF tokenizer
<1>2. state' \in DOMAIN tokenizer.active
  <2>1. DefaultState \in DOMAIN tokenizer.active
    BY TokenizersAssumption DEF TokenizersAssumption, tokenizer, Prepared, Inv, TypeOK
  <2>. QED  BY <2>1 DEF User, Parse, PushInputStream, PopInputStream, EnterState, Call, streamVars, Inv, TypeOK
<1>3. GoodStreams(C, streams')
  <2>1. ASSUME NEW text \in Texts PROVE GoodStreams(C, <<StreamOf(text)>>) /\ GoodStreams(C, Append(streams, StreamOf(text)))
    <3>1. text \in Seq(C)
      BY DEF TextsOver
    <3>2. GoodStreams(C, <<>>) /\ <<StreamOf(text)>> = Append(<<>>, StreamOf(text))
      BY DEF GoodStreams, EndedIsEmpty
    <3>. QED  BY <3>1, <3>2, StreamsPushed DEF Inv
  <2>2. GoodStreams(C, Below)
    BY StreamsPopped DEF Inv, Below
  <2>. QED  BY <2>1, <2>2 DEF User, Parse, PushInputStream, PopInputStream, EnterState, Call, streamVars, Inv
<1>4. TypeOK'
  BY <1>0, <1>1, <1>2 DEF TypeOK, Inv, ResultOK
<1>. QED  BY <1>3, <1>4 DEF Inv, GoodStreams, EndedIsEmpty

\* An answer of next_token() of a symbol it may answer with.
LEMMA ReturnStep ==
  ASSUME NEW C, Inv(C), NEW symbol \in Symbol \cup {EndSymbol, NoMatch, Thrown}, NEW value, Return(symbol, value),
         state' \in DOMAIN tokenizer.active, GoodStreams(C, streams')
  PROVE  Inv(C)'
<1>1. tokenizer' = tokenizer /\ machine' \in DOMAIN Prepared
  BY DEF Return, tokenizer, Inv, TypeOK
<1>2. Len(result') \in 0 .. 1 /\ \A k \in DOMAIN result' : ResultOK(result'[k])
  BY DEF Return, ResultOK
<1>3. TypeOK'
  BY <1>1, <1>2 DEF Return, TypeOK, ResultOK
<1>. QED  BY <1>3 DEF Inv, GoodStreams, EndedIsEmpty

LEMMA LoopStep ==
  ASSUME NEW C, SizesOK, TextsOver(C), Inv(C), Loop
  PROVE  Inv(C)'
<1>0. state \in DOMAIN tokenizer.active /\ GoodStreams(C, streams)
  BY DEF Inv, TypeOK
<1>1. CASE ReturnEnd
  BY <1>0, <1>1, ReturnStep DEF ReturnEnd, streamVars
<1>2. CASE ReturnNothing
  BY <1>0, <1>2, ReturnStep DEF ReturnNothing, streamVars
<1>3. CASE Match
  <2>1. UNCHANGED <<machine, state, streams, result>>
    BY <1>3 DEF Match, streamVars
  <2>2. TypeOK'
    BY <1>3, <2>1, SameContext DEF Match, Reading, TypeOK, Inv, ResultOK
  <2>. QED  BY <1>0, <2>1, <2>2 DEF Inv, GoodStreams, EndedIsEmpty
<1>4. ASSUME NEW p \in matched, Compare(p) PROVE Inv(C)'
  <2>1. UNCHANGED <<machine, state, streams, phase, result>>
    BY <1>4 DEF Compare, streamVars
  <2>2. /\ streams # <<>> /\ ~TopStream.at_end /\ phase = "Comparing" /\ p \in MatchedPatterns
        /\ matched' \subseteq MatchedPatterns /\ best' \in MatchedPatterns \cup {0}
    BY <1>4 DEF Compare, Inv, TypeOK
  <2>3. best' # 0
    <3>1. p # 0
      BY <2>2, ActiveList DEF MatchedPatterns, Inv, TypeOK
    <3>. QED  BY <1>4, <3>1 DEF Compare, Replaces
  <2>4. TypeOK'
    BY <2>1, <2>2, <2>3, SameContext DEF TypeOK, Inv, ResultOK
  <2>. QED  BY <1>0, <2>1, <2>4 DEF Inv, GoodStreams, EndedIsEmpty
<1>5. ASSUME Chosen, Runs(TokenAt(best)) PROVE state' \in DOMAIN tokenizer.active /\ GoodStreams(C, streams')
  BY <1>5, StreamsAfterActions DEF Runs, KnowsStates, IsKnown
<1>6. CASE Skip
  <2>1. state' \in DOMAIN tokenizer.active /\ GoodStreams(C, streams')
    BY <1>5, <1>6 DEF Skip
  <2>2. tokenizer' = tokenizer /\ UNCHANGED <<machine, result>>
    BY <1>6 DEF Skip, tokenizer
  <2>3. TypeOK'
    BY <1>6, <2>1, <2>2 DEF Skip, TypeOK, Inv, ResultOK
  <2>. QED  BY <2>1, <2>3 DEF Inv, GoodStreams, EndedIsEmpty
<1>7. CASE ReturnToken
  <2>1. TokenAt(best).symbol[1] \in Symbol
    BY <1>7, ChosenStream, ActiveList DEF ReturnToken, Inv, TypeOK
  <2>. QED  BY <1>5, <1>7, <2>1, ReturnStep DEF ReturnToken
<1>8. CASE Throw
  BY <1>5, <1>8, ReturnStep DEF Throw
<1>9. CASE UnknownState
  <2>1. UNCHANGED <<machine, state, streams, result>> /\ tokenizer' = tokenizer
    BY <1>9 DEF UnknownState, streamVars, tokenizer
  <2>2. TypeOK'
    BY <1>9, <2>1 DEF UnknownState, TypeOK, Inv, ResultOK
  <2>. QED  BY <1>0, <2>1, <2>2 DEF Inv, GoodStreams, EndedIsEmpty
<1>. QED  BY <1>1, <1>2, <1>3, <1>4, <1>6, <1>7, <1>8, <1>9 DEF Loop

LEMMA InvStep ==
  ASSUME NEW C, SizesOK, TextsOver(C), Inv(C), [Next]_vars
  PROVE  Inv(C)'
<1>1. CASE UNCHANGED vars
  <2>1. UNCHANGED <<machine, state, streams, phase, matched, best, result>>
    BY <1>1 DEF vars, streamVars, loopVars
  <2>2. TypeOK'
    BY <2>1, SameContext DEF TypeOK, Inv, ResultOK
  <2>. QED  BY <2>1, <2>2 DEF Inv, GoodStreams, EndedIsEmpty
<1>. QED  BY <1>1, UserStep, LoopStep DEF Next

\* The tokenizer is always in one of its states, and what it compares are patterns
\* that match the stream on top (Tokenizer::next_token(), enter_state()).
THEOREM TypeCorrect ==
  ASSUME NEW C, SizesOK, TextsOver(C)
  PROVE  Spec => []TypeOK
<1>1. Init => Inv(C)
  BY InitInv
<1>2. Inv(C) /\ [Next]_vars => Inv(C)'
  BY InvStep
<1>3. Inv(C) => TypeOK
  BY DEF Inv
<1>. QED  BY <1>1, <1>2, <1>3, PTL DEF Spec


-----------------------------------------------------------------------------
(* The token that is chosen *)

\* The token at a place is as good a match as that at another.
Beats(b, p) ==
  \/ LengthAt(p) < LengthAt(b)
  \/ LengthAt(p) = LengthAt(b) /\ Active[b] <= Active[p]

LEMMA BeatsIsTransitive ==
  ASSUME SizesOK, NEW C, Inv(C), NEW a \in DOMAIN Active, NEW b \in DOMAIN Active, NEW c \in DOMAIN Active,
         Beats(a, b), Beats(b, c)
  PROVE  Beats(a, c)
<1>1. LengthAt(a) \in Nat /\ LengthAt(b) \in Nat /\ LengthAt(c) \in Nat
  BY DEF SizesOK, LengthAt
<1>2. Active[a] \in Nat /\ Active[b] \in Nat /\ Active[c] \in Nat
  BY ActiveList, ElementOfSeq DEF Inv, TypeOK
<1>. QED  BY <1>1, <1>2 DEF Beats

\* The comparison of an index with a place comes to that of two indices.
LEMMA ReplacesIfBetter ==
  ASSUME SizesOK, TiesInOrder, NEW C, Inv(C), phase = "Comparing",
         NEW b \in MatchedPatterns, NEW p \in MatchedPatterns, best = b
  PROVE  IF Replaces(p) THEN Beats(p, b) ELSE Beats(b, p)
<1>. DEFINE list == Active
<1>1. /\ b \in DOMAIN list /\ p \in DOMAIN list /\ b \in Nat /\ p \in Nat /\ b # 0
      /\ list[b] \in Nat /\ list[p] \in Nat
      /\ \A x, y \in DOMAIN list : x < y => list[x] <= list[y]
  BY ActiveList, ElementOfSeq DEF MatchedPatterns, Inv, TypeOK
<1>2. LengthAt(b) \in Nat /\ LengthAt(p) \in Nat
  BY DEF SizesOK, LengthAt
<1>3. CASE LengthAt(b) # LengthAt(p)
  BY <1>1, <1>2, <1>3 DEF Replaces, Beats
<1>4. CASE LengthAt(b) = LengthAt(p)
  <2>1. CanTie(tokenizer.tokens[list[b]], tokenizer.tokens[list[p]]) /\ CanTie(tokenizer.tokens[list[p]], tokenizer.tokens[list[b]])
    BY <1>4 DEF CanTie, MatchedPatterns, LengthAt, TokenAt
  <2>2. InOrder(tokenizer, list)
    BY DEF TiesInOrder, tokenizer, Prepared, Active, Inv, TypeOK
  <2>. HIDE DEF list
  <2>3. /\ p < b /\ list[p] # list[b] => list[p] <= b /\ p < list[b]
        /\ b < p /\ list[b] # list[p] => list[b] <= p /\ b < list[p]
    BY <1>1, <2>1, <2>2 DEF InOrder
  <2>4. Replaces(p) <=> list[b] > p
    BY <1>1, <1>2, <1>4 DEF Replaces, list
  <2>5. IF list[b] > p THEN list[p] <= list[b] ELSE list[b] <= list[p]
    BY <1>1, <2>3
  <2>. QED  BY <1>4, <2>4, <2>5 DEF Beats, list
<1>. QED  BY <1>3, <1>4

BestInv(C) == Inv(C) /\ (phase = "Comparing" => BestSoFar)

LEMMA BestStep ==
  ASSUME NEW C, SizesOK, TiesInOrder, TextsOver(C), BestInv(C), [Next]_vars, phase' = "Comparing"
  PROVE  BestSoFar'
<1>1. CASE Match
  <2>1. matched' = MatchedPatterns /\ UNCHANGED <<machine, state, streams>>
    BY <1>1 DEF Match, streamVars
  <2>. QED  BY <2>1, SameContext DEF BestSoFar
<1>2. ASSUME NEW p \in matched, Compare(p) PROVE BestSoFar'
  <2>1. UNCHANGED <<machine, state, streams>> /\ phase = "Comparing" /\ matched' = matched \ {p}
    BY <1>2 DEF Compare, streamVars
  <2>2. /\ p \in MatchedPatterns /\ best \in MatchedPatterns \cup {0}
        /\ p \in DOMAIN Active /\ p # 0
    BY <1>2, <2>1, ActiveList DEF BestInv, Inv, TypeOK, MatchedPatterns
  <2>. DEFINE new == IF Replaces(p) THEN p ELSE best
  <2>3. best' = new /\ new # 0 /\ new \in DOMAIN Active
    BY <1>2, <2>2 DEF Compare, Replaces, MatchedPatterns
  <2>4. Beats(p, p)
    <3>1. LengthAt(p) \in Nat /\ Active[p] \in Nat
      BY <2>2, ActiveList, ElementOfSeq DEF SizesOK, LengthAt, BestInv, Inv, TypeOK
    <3>. QED  BY <3>1 DEF Beats
  <2>5. Beats(new, p) /\ (best # 0 => Beats(new, best))
    <3>1. CASE best = 0
      BY <2>4, <3>1 DEF Replaces
    <3>2. CASE best # 0
      <4>1. IF Replaces(p) THEN Beats(p, best) ELSE Beats(best, p)
        BY <2>1, <2>2, <3>2, ReplacesIfBetter DEF BestInv
      <4>2. Beats(best, best)
        <5>1. best \in DOMAIN Active
          BY <2>2, <3>2 DEF MatchedPatterns
        <5>2. LengthAt(best) \in Nat /\ Active[best] \in Nat
          BY <5>1, ActiveList, ElementOfSeq DEF SizesOK, LengthAt, BestInv, Inv, TypeOK
        <5>. QED  BY <5>2 DEF Beats
      <4>. QED  BY <2>4, <4>1, <4>2
    <3>. QED  BY <3>1, <3>2
  <2>6. ASSUME NEW q \in MatchedPatterns \ (matched \ {p}) PROVE Beats(new, q)
    <3>1. CASE q = p
      BY <2>5, <3>1
    <3>2. CASE q # p
      <4>1. best # 0 /\ Beats(best, q)
        BY <2>1, <3>2 DEF BestInv, BestSoFar, Beats
      <4>2. best \in DOMAIN Active /\ q \in DOMAIN Active
        BY <2>2, <4>1 DEF MatchedPatterns
      <4>. HIDE DEF new
      <4>. QED  BY <2>3, <2>5, <4>1, <4>2, BeatsIsTransitive DEF BestInv
    <3>. QED  BY <3>1, <3>2
  <2>. HIDE DEF new
  <2>7. LengthAt(best)' = LengthAt(new)
    BY <2>1, <2>3, SameContext DEF LengthAt, TokenAt
  <2>. QED  BY <2>1, <2>3, <2>6, <2>7, SameContext DEF BestSoFar, Beats
<1>3. CASE UNCHANGED vars
  <2>1. UNCHANGED <<machine, state, streams, phase, matched, best>>
    BY <1>3 DEF vars, streamVars, loopVars
  <2>2. LengthAt(best)' = LengthAt(best)
    BY <2>1, SameContext DEF LengthAt, TokenAt
  <2>. QED  BY <2>1, <2>2, SameContext DEF BestSoFar, BestInv
<1>4. CASE User
  BY <1>4 DEF User, Parse, PushInputStream, PopInputStream, EnterState, Call, loopVars
<1>5. CASE ReturnEnd \/ ReturnNothing \/ ReturnToken \/ Throw
  BY <1>5 DEF ReturnEnd, ReturnNothing, ReturnToken, Throw, Return
<1>6. CASE Skip \/ UnknownState
  BY <1>6 DEF Skip, UnknownState
<1>. QED  BY <1>1, <1>2, <1>3, <1>4, <1>5, <1>6 DEF Next, Loop

\* The token chosen is the longest match and, among equals, the one declared first,
\* in whatever order the patterns were compared, if the places of tokens that can
\* tie agree with their indices (Tokenizer::next_token()); without that hypothesis
\* it is false.
THEOREM ChoiceCorrect ==
  ASSUME NEW C, SizesOK, TextsOver(C), TiesInOrder
  PROVE  Spec => []LongestThenFirst
<1>1. Init => BestInv(C)
  BY InitInv DEF BestInv, Init
<1>2. BestInv(C) /\ [Next]_vars => BestInv(C)'
  BY InvStep, BestStep DEF BestInv
<1>3. BestInv(C) => LongestThenFirst
  BY DEF BestInv, BestSoFar, LongestThenFirst, Chosen
<1>. QED  BY <1>1, <1>2, <1>3, PTL DEF Spec

\* The end symbol is answered only when there is no stream or the one on top has
\* been read to its end and is still there (Tokenizer::next_token()).
THEOREM EndCorrect ==
  ASSUME NEW C, SizesOK, TextsOver(C), NoMatch # EndSymbol
  PROVE  Spec => EndMeansDone
<1>1. Init => Inv(C)
  BY InitInv
<1>2. Inv(C) /\ [Next]_vars => Inv(C)'
  BY InvStep
<1>. DEFINE Done == phase = "Looping" /\ phase' = "Idle" /\ result'[1].symbol = EndSymbol
                      => (streams # <<>> => TopStream = [text |-> <<>>, at_end |-> TRUE])
<1>3. ASSUME Inv(C), [Next]_vars, phase = "Looping", phase' = "Idle", result'[1].symbol = EndSymbol, streams # <<>>
      PROVE  TopStream = [text |-> <<>>, at_end |-> TRUE]
  <2>1. ReturnEnd \/ ReturnNothing
    BY <1>3 DEF Next, User, Loop, Parse, PushInputStream, PopInputStream, EnterState, Call, Match, Compare, Skip,
                ReturnToken, Throw, UnknownState, Chosen, vars, loopVars
  <2>2. ReturnEnd
    BY <1>3, <2>1 DEF ReturnNothing, Return
  <2>3. TopStream.at_end
    BY <1>3, <2>2 DEF ReturnEnd
  <2>4. Len(streams) \in DOMAIN streams /\ TopStream \in Stream(C)
    BY <1>3 DEF Inv, GoodStreams, TopStream
  <2>5. TopStream.text = <<>>
    BY <2>3, <2>4, <1>3 DEF Inv, GoodStreams, EndedIsEmpty, TopStream
  <2>. QED  BY <2>3, <2>4, <2>5 DEF Stream
<1>4. Inv(C) /\ [Next]_vars => [Done]_vars
  BY <1>3
<1>. QED  BY <1>1, <1>2, <1>4, PTL DEF Spec, EndMeansDone

-----------------------------------------------------------------------------
(* The text: hypotheses *)

\* A match is a part of the text.
MatchesFit == \A pattern, text : Matches(pattern, text) => MatchLength(pattern, text) <= Len(text)

\* The marks of the abstract text are no characters.
MarksApart(C) == EndMark \notin C /\ Wall \notin C /\ EndMark # Wall

\* The actions of the user pop no stream that is not there: what vector::pop_back()
\* requires.
PopsAreStreams ==
  Chosen => (tokenizer.globalAction.kind = "Pop" /\ TokenAt(best).action.kind = "Pop" => Len(streams) > 1)

-----------------------------------------------------------------------------
(* The text of a stack of streams *)

\* With it Rest is TextOf(streams).
TextOf(S) == FlattenSeq([k \in DOMAIN S |-> Written(S[Len(S) + 1 - k])])

Char(C) == C \cup {EndMark, Wall}

LEMMA WrittenType ==
  ASSUME NEW C, NEW s \in Stream(C)
  PROVE  /\ s.text \in Seq(C) /\ s.text \in Seq(Char(C))
         /\ Written(s) \in Seq(Char(C))
         /\ Len(Written(s)) = Len(s.text) + 1
<1>1. s.text \in Seq(C)
  BY DEF Stream
<1>2. C \subseteq Char(C) /\ EndMark \in Char(C) /\ Wall \in Char(C)
  BY DEF Char
<1>3. s.text \in Seq(Char(C))
  BY <1>1, <1>2
<1>4. (IF s.at_end THEN Wall ELSE EndMark) \in Char(C)
  BY <1>2
<1>. QED  BY <1>1, <1>3, <1>4 DEF Written

LEMMA ListType ==
  ASSUME NEW C, NEW S \in Seq(Stream(C))
  PROVE  [k \in DOMAIN S |-> Written(S[Len(S) + 1 - k])] \in Seq(Seq(Char(C)))
<1>1. Len(S) \in Nat /\ DOMAIN S = 1 .. Len(S)
  OBVIOUS
<1>2. \A k \in 1 .. Len(S) : Written(S[Len(S) + 1 - k]) \in Seq(Char(C))
  <2>. TAKE k \in 1 .. Len(S)
  <2>1. Len(S) + 1 - k \in 1 .. Len(S)
    BY <1>1
  <2>2. S[Len(S) + 1 - k] \in Stream(C)
    BY <2>1
  <2>. QED  BY <2>2, WrittenType
<1>3. [k \in 1 .. Len(S) |-> Written(S[Len(S) + 1 - k])] \in Seq(Seq(Char(C)))
  BY <1>1, <1>2
<1>. QED  BY <1>1, <1>3

LEMMA TextType ==
  ASSUME NEW C, NEW S \in Seq(Stream(C))
  PROVE  TextOf(S) \in Seq(Char(C))
BY ListType, FlattenType DEF TextOf

LEMMA TextOfNone == TextOf(<<>>) = <<>>
<1>1. [k \in DOMAIN <<>> |-> Written(<<>>[Len(<<>>) + 1 - k])] = <<>>
  OBVIOUS
<1>. QED  BY <1>1, FlattenNothing DEF TextOf

\* The stream on top comes first.
LEMMA TextOfMore ==
  ASSUME NEW C, NEW S \in Seq(Stream(C)), NEW s \in Stream(C)
  PROVE  TextOf(Append(S, s)) = Written(s) \o TextOf(S)
<1>. DEFINE n == Len(S)
            T == Append(S, s)
            list == [k \in DOMAIN S |-> Written(S[Len(S) + 1 - k])]
            more == [k \in DOMAIN T |-> Written(T[Len(T) + 1 - k])]
            all  == <<Written(s)>> \o list
<1>1. n \in Nat /\ DOMAIN S = 1 .. n /\ DOMAIN T = 1 .. n + 1 /\ Len(T) = n + 1 /\ T[n + 1] = s /\ \A i \in 1 .. n : T[i] = S[i]
  OBVIOUS
<1>2. list \in Seq(Seq(Char(C))) /\ Written(s) \in Seq(Char(C))
  BY ListType, WrittenType
<1>3. Len(list) = n /\ \A k \in 1 .. n : list[k] = Written(S[n + 1 - k])
  BY <1>1
<1>4. DOMAIN more = 1 .. n + 1 /\ \A k \in 1 .. n + 1 : more[k] = Written(T[n + 2 - k])
  BY <1>1
<1>. HIDE DEF list, T, more
<1>5. all \in Seq(Seq(Char(C))) /\ Len(all) = n + 1 /\ all[1] = Written(s) /\ \A k \in 2 .. n + 1 : all[k] = list[k - 1]
  BY <1>1, <1>2, <1>3
<1>. HIDE DEF all
<1>6. ASSUME NEW k \in 1 .. n + 1 PROVE more[k] = all[k]
  <2>1. CASE k = 1
    BY <1>1, <1>4, <1>5, <2>1
  <2>2. CASE k # 1
    <3>1. k \in 2 .. n + 1 /\ k - 1 \in 1 .. n /\ n + 2 - k \in 1 .. n /\ n + 1 - (k - 1) = n + 2 - k
      BY <1>1, <2>2
    <3>2. more[k] = Written(T[n + 2 - k]) /\ T[n + 2 - k] = S[n + 2 - k]
      BY <1>1, <1>4, <3>1
    <3>3. list[k - 1] = Written(S[n + 1 - (k - 1)])
      BY <1>3, <3>1
    <3>. QED  BY <1>5, <3>1, <3>2, <3>3
  <2>. QED  BY <2>1, <2>2
<1>7. more = all
  <2>1. DOMAIN all = 1 .. n + 1
    BY <1>5
  <2>2. more = [k \in 1 .. n + 1 |-> more[k]]
    BY <1>4 DEF more
  <2>3. all = [k \in 1 .. n + 1 |-> all[k]]
    BY <1>5, <2>1
  <2>. QED  BY <1>6, <2>2, <2>3
<1>8. FlattenSeq(all) = Written(s) \o FlattenSeq(list)
  BY <1>2, FlattenCons DEF all
<1>. QED  BY <1>7, <1>8 DEF TextOf, more, list, T

LEMMA TopAndBelow ==
  ASSUME NEW C, NEW S \in Seq(Stream(C)), S # <<>>
  PROVE  LET front == SubSeq(S, 1, Len(S) - 1)
             top   == S[Len(S)]
         IN  front \in Seq(Stream(C)) /\ top \in Stream(C) /\ S = Append(front, top)
OBVIOUS

-----------------------------------------------------------------------------
(* The text up to the first mark *)

\* The end of a sequence.
LEMMA EndOf ==
  ASSUME NEW D, NEW t \in Seq(D), NEW i \in Nat, NEW l \in Nat, Len(t) = i + l
  PROVE  /\ SubSeq(t, i + 1, Len(t)) \in Seq(D) /\ Len(SubSeq(t, i + 1, Len(t))) = l
         /\ \A k \in 1 .. l : SubSeq(t, i + 1, Len(t))[k] = t[i + k]
<1>. DEFINE r == SubSeq(t, i + 1, Len(t))
<1>1. CASE l = 0
  BY <1>1
<1>2. CASE l # 0
  <2>1. i + 1 \in 1 .. Len(t) /\ Len(t) \in 1 .. Len(t) /\ Len(t) - (i + 1) + 1 = l
    BY <1>2
  <2>2. r = [k \in 1 .. l |-> t[i + 1 + k - 1]]
    BY <2>1
  <2>3. \A k \in 1 .. l : i + 1 + k - 1 = i + k /\ i + k \in 1 .. Len(t)
    BY <2>1
  <2>. HIDE DEF r
  <2>4. DOMAIN r = 1 .. l /\ \A k \in 1 .. l : r[k] = t[i + k] /\ r[k] \in D
    BY <2>2, <2>3
  <2>5. r \in Seq(D) /\ Len(r) = l
    <3>1. r \in [1 .. l -> D]
      BY <2>2, <2>4
    <3>. QED  BY <3>1
  <2>. QED  BY <2>4, <2>5 DEF r
<1>. QED  BY <1>1, <1>2

\* The part of t behind n is that of a, then m and b.
IsBehind(t, n, a, m, b) == SubSeq(t, n + 1, Len(t)) = Append(SubSeq(a, n + 1, Len(a)), m) \o b

\* A sequence with an element in its midst.
LEMMA CutInTwo ==
  ASSUME NEW D, NEW a \in Seq(D), NEW m \in D, NEW b \in Seq(D), NEW t, t = Append(a, m) \o b
  PROVE  /\ t \in Seq(D) /\ Len(t) = Len(a) + 1 + Len(b)
         /\ \A k \in 1 .. Len(a) : t[k] = a[k]
         /\ t[Len(a) + 1] = m
         /\ SubSeq(t, 1, Len(a)) = a
         /\ \A n \in 0 .. Len(a) : IsBehind(t, n, a, m, b)
         /\ SubSeq(t, Len(a) + 2, Len(t)) = b
         /\ Tail(t) = SubSeq(t, 2, Len(t))
<1>. DEFINE n == Len(a)
<1>1. /\ Append(a, m) \in Seq(D) /\ Len(Append(a, m)) = n + 1 /\ n \in Nat /\ Len(b) \in Nat
      /\ \A k \in 1 .. n : Append(a, m)[k] = a[k]
      /\ Append(a, m)[n + 1] = m
  OBVIOUS
<1>2. t \in Seq(D) /\ Len(t) = n + 1 + Len(b)
  BY <1>1
<1>3. \A k \in 1 .. n + 1 : t[k] = Append(a, m)[k]
  BY <1>1
<1>4. \A k \in 1 .. n : t[k] = a[k]
  BY <1>1, <1>3
<1>5. t[n + 1] = m
  BY <1>1, <1>3
<1>6. \A k \in 1 .. Len(b) : t[n + 1 + k] = b[k]
  BY <1>1
<1>7. SubSeq(t, 1, n) = a
  <2>1. SubSeq(t, 1, n) \in Seq(D) /\ Len(SubSeq(t, 1, n)) = n
    BY <1>1, <1>2
  <2>2. \A k \in 1 .. n : SubSeq(t, 1, n)[k] = a[k]
    BY <1>1, <1>2, <1>4
  <2>. QED  BY <2>1, <2>2
<1>8. SubSeq(t, n + 2, Len(t)) = b
  <2>. DEFINE r == SubSeq(t, n + 2, Len(t))
  <2>1. n + 1 \in Nat /\ n + 1 + 1 = n + 2
    BY <1>1
  <2>2. r \in Seq(D) /\ Len(r) = Len(b) /\ \A k \in 1 .. Len(b) : r[k] = t[n + 1 + k]
    BY ONLY <1>1, <1>2, <2>1, EndOf
  <2>. HIDE DEF r, n
  <2>3. \A k \in 1 .. Len(b) : r[k] = b[k]
    BY <1>6, <2>2
  <2>4. r = b
    BY <2>2, <2>3
  <2>. QED  BY <2>4 DEF r
<1>9. ASSUME NEW i \in 0 .. n PROVE IsBehind(t, i, a, m, b)
  <2>. DEFINE l == n - i
              r == SubSeq(t, i + 1, Len(t))
              c == SubSeq(a, i + 1, n)
              q == Append(c, m)
              w == q \o b
  <2>1. i \in Nat /\ l \in Nat /\ n = i + l
    BY <1>1
  <2>2. l + 1 + Len(b) \in Nat /\ Len(t) = i + (l + 1 + Len(b))
    BY <1>1, <1>2, <2>1
  <2>. HIDE DEF l
  <2>3. c \in Seq(D) /\ Len(c) = l /\ \A k \in 1 .. l : c[k] = a[i + k]
    BY <2>1, EndOf
  <2>4. r \in Seq(D) /\ Len(r) = l + 1 + Len(b) /\ \A k \in 1 .. l + 1 + Len(b) : r[k] = t[i + k]
    BY ONLY <1>2, <2>1, <2>2, EndOf
  <2>. HIDE DEF c, r
  <2>5. q \in Seq(D) /\ Len(q) = l + 1 /\ q[l + 1] = m /\ \A k \in 1 .. l : q[k] = c[k]
    <3>1. c \in Seq(D) /\ Len(c) = l /\ l \in Nat /\ m \in D
      BY <2>1, <2>3
    <3>. QED  BY ONLY <3>1
  <2>. HIDE DEF q
  <2>6. /\ w \in Seq(D) /\ Len(w) = l + 1 + Len(b)
        /\ \A k \in 1 .. l + 1 : w[k] = q[k]
        /\ \A k \in 1 .. Len(b) : w[l + 1 + k] = b[k]
    <3>1. q \in Seq(D) /\ b \in Seq(D) /\ l + 1 = Len(q)
      BY <2>5
    <3>. QED  BY ONLY <3>1, Joined
  <2>. HIDE DEF w, n
  <2>7. ASSUME NEW k \in 1 .. l + 1 + Len(b) PROVE r[k] = w[k]
    <3>0. r[k] = t[i + k]
      BY <2>4
    <3>1. CASE k \in 1 .. l
      <4>1. i + k \in 1 .. n /\ k \in 1 .. l + 1
        BY <2>1, <3>1
      <4>. QED  BY <1>4, <2>3, <2>5, <2>6, <3>0, <3>1, <4>1
    <3>2. CASE k = l + 1
      <4>1. i + k = n + 1 /\ k \in 1 .. l + 1
        BY <2>1, <3>2
      <4>. QED  BY <1>5, <2>5, <2>6, <3>0, <3>2, <4>1
    <3>3. CASE k > l + 1
      <4>. DEFINE j == k - (l + 1)
      <4>1. j \in 1 .. Len(b) /\ k = l + 1 + j /\ i + k = n + 1 + j
        BY <2>1, <3>3
      <4>. HIDE DEF j
      <4>. QED  BY <1>6, <2>6, <3>0, <4>1
    <3>. QED  BY <2>1, <3>1, <3>2, <3>3
  <2>8. r = w
    BY <2>4, <2>6, <2>7
  <2>. QED  BY <2>8 DEF r, w, q, c, n, IsBehind
<1>10. Tail(t) = SubSeq(t, 2, Len(t))
  BY <1>1, <1>2
<1>. QED  BY <1>2, <1>4, <1>5, <1>7, <1>8, <1>9, <1>10

MarksOf(text) == {k \in DOMAIN text : text[k] \in Text!Marks}

\* The first mark of a text is that of the stream on top.
LEMMA MarkIsFirst ==
  ASSUME NEW C, MarksApart(C), NEW s \in Stream(C), NEW rest \in Seq(Char(C)), NEW text, text = Written(s) \o rest
  PROVE  /\ Text!Min(MarksOf(text)) = Len(s.text) + 1
         /\ Len(text) > 0
         /\ SubSeq(text, 1, Len(s.text)) = s.text
         /\ Text!Behind(text) = rest
         /\ text[1] = Wall <=> s.text = <<>> /\ s.at_end
         /\ text[1] = EndMark <=> s.text = <<>> /\ ~s.at_end
<1>. DEFINE n == Len(s.text)
            mark == IF s.at_end THEN Wall ELSE EndMark
            M == MarksOf(text)
<1>1. s.text \in Seq(C) /\ n \in Nat /\ Len(rest) \in Nat
  BY WrittenType
<1>2. mark \in Text!Marks /\ Text!Marks \cap C = {} /\ mark \in Char(C)
  BY DEF Text!Marks, MarksApart, Char
<1>3. text = Append(s.text, mark) \o rest
  BY DEF Written
<1>4. (mark = Wall <=> s.at_end) /\ (mark = EndMark <=> ~s.at_end) /\ mark \notin C /\ Wall \notin C /\ EndMark \notin C
  BY DEF MarksApart, Stream
<1>. HIDE DEF mark, M
<1>5. /\ text \in Seq(Char(C)) /\ Len(text) = n + 1 + Len(rest)
      /\ \A k \in 1 .. n : text[k] = s.text[k]
      /\ text[n + 1] = mark
      /\ SubSeq(text, 1, n) = s.text
      /\ SubSeq(text, n + 2, Len(text)) = rest
  <2>. DEFINE D == Char(C)
              a == s.text
  <2>1. a \in Seq(D) /\ mark \in D /\ rest \in Seq(D) /\ text = Append(a, mark) \o rest
    BY <1>2, <1>3, WrittenType
  <2>. HIDE DEF D, a
  <2>2. /\ text \in Seq(D) /\ Len(text) = Len(a) + 1 + Len(rest)
        /\ \A k \in 1 .. Len(a) : text[k] = a[k]
        /\ text[Len(a) + 1] = mark
        /\ SubSeq(text, 1, Len(a)) = a
        /\ SubSeq(text, Len(a) + 2, Len(text)) = rest
    BY ONLY <2>1, CutInTwo
  <2>. QED  BY <2>2 DEF D, a
<1>6. DOMAIN text = 1 .. n + 1 + Len(rest)
  BY <1>5
<1>7. n + 1 \in M /\ (\A k \in M : n + 1 <= k) /\ M \subseteq Nat
  <2>1. n + 1 \in M
    BY <1>1, <1>2, <1>5, <1>6 DEF M, MarksOf
  <2>2. ASSUME NEW k \in M, k < n + 1 PROVE FALSE
    <3>1. k \in 1 .. n
      BY <1>1, <1>6, <2>2 DEF M, MarksOf
    <3>2. s.text[k] \in C
      BY <1>1, <3>1
    <3>3. text[k] \in Text!Marks
      BY DEF M, MarksOf
    <3>. QED  BY <1>2, <1>5, <3>1, <3>2, <3>3
  <2>3. M \subseteq Nat
    BY <1>1, <1>6 DEF M, MarksOf
  <2>. QED  BY <1>1, <2>1, <2>2, <2>3
<1>8. Text!Min(M) = n + 1
  <2>1. Text!Min(M) = CHOOSE x \in M : \A y \in M : x <= y
    BY DEF Text!Min
  <2>2. \A x \in M : (\A y \in M : x <= y) => x = n + 1
    BY <1>1, <1>7
  <2>. QED  BY <1>7, <2>1, <2>2
<1>9. Text!Behind(text) = rest
  <2>1. Text!Behind(text) = SubSeq(text, Text!Min(M) + 1, Len(text))
    BY DEF Text!Behind, M, MarksOf
  <2>2. n + 1 + 1 = n + 2
    BY <1>1
  <2>. QED  BY <1>5, <1>8, <2>1, <2>2
<1>10. /\ text[1] = Wall <=> s.text = <<>> /\ s.at_end
       /\ text[1] = EndMark <=> s.text = <<>> /\ ~s.at_end
  <2>1. CASE n = 0
    <3>1. s.text = <<>>
      BY <1>1, <2>1
    <3>2. text[1] = mark
      BY <1>5, <2>1
    <3>. QED  BY <1>4, <3>1, <3>2
  <2>2. CASE n # 0
    <3>1. s.text # <<>> /\ 1 \in 1 .. n
      BY <1>1, <2>2
    <3>2. text[1] = s.text[1] /\ s.text[1] \in C
      BY <1>1, <1>5, <3>1
    <3>. QED  BY <1>4, <3>1, <3>2
  <2>. QED  BY <2>1, <2>2
<1>11. Len(text) > 0
  BY <1>1, <1>5
<1>. QED  BY <1>5, <1>8, <1>9, <1>10, <1>11 DEF M

-----------------------------------------------------------------------------
(* What the abstract text says of the streams *)

LEMMA RestIsText == Rest = TextOf(streams)
BY DEF Rest, TextOf

LEMMA TextOfTop ==
  ASSUME NEW C, NEW S, GoodStreams(C, S), S # <<>>
  PROVE  LET front == SubSeq(S, 1, Len(S) - 1)
             top   == S[Len(S)]
         IN  /\ GoodStreams(C, front) /\ top \in Stream(C) /\ (top.at_end => top.text = <<>>)
             /\ TextOf(front) \in Seq(Char(C))
             /\ TextOf(S) = Written(top) \o TextOf(front)
<1>. DEFINE front == SubSeq(S, 1, Len(S) - 1)
            top   == S[Len(S)]
<1>1. S \in Seq(Stream(C)) /\ EndedIsEmpty(S)
  BY DEF GoodStreams
<1>2. front \in Seq(Stream(C)) /\ top \in Stream(C) /\ S = Append(front, top)
  BY <1>1, TopAndBelow
<1>3. GoodStreams(C, front)
  BY StreamsPopped
<1>4. top.at_end => top.text = <<>>
  <2>1. Len(S) \in DOMAIN S
    BY <1>1
  <2>. QED  BY <1>1, <2>1 DEF EndedIsEmpty
<1>. HIDE DEF front, top
<1>5. TextOf(S) = Written(top) \o TextOf(front)
  BY <1>2, TextOfMore
<1>6. TextOf(front) \in Seq(Char(C))
  BY <1>2, TextType
<1>. QED  BY <1>2, <1>3, <1>4, <1>5, <1>6 DEF front, top

\* The stream on top is the text up to the first mark.
LEMMA TopIsSegment ==
  ASSUME NEW C, MarksApart(C), Inv(C), streams # <<>>
  PROVE  /\ Rest = Written(TopStream) \o TextOf(Below) /\ Rest # <<>>
         /\ TopStream \in Stream(C) /\ TextOf(Below) \in Seq(Char(C)) /\ GoodStreams(C, Below)
         /\ Text!Segment = TopStream.text
         /\ Text!Behind(Rest) = TextOf(Below)
         /\ Text!AtEnd <=> TopStream.at_end
         /\ ~TopStream.at_end => (Rest[1] = EndMark <=> TopStream.text = <<>>)
<1>. DEFINE text == Rest
<1>1. /\ GoodStreams(C, Below) /\ TopStream \in Stream(C) /\ (TopStream.at_end => TopStream.text = <<>>)
      /\ TextOf(Below) \in Seq(Char(C)) /\ text = Written(TopStream) \o TextOf(Below)
  BY TextOfTop, RestIsText DEF Inv, TopStream, Below
<1>. HIDE DEF text
<1>. DEFINE top == TopStream
            under == TextOf(Below)
            M == MarksOf(text)
<1>2. /\ Text!Min(M) = Len(top.text) + 1
      /\ Len(text) > 0
      /\ SubSeq(text, 1, Len(top.text)) = top.text
      /\ Text!Behind(text) = under
      /\ text[1] = Wall <=> top.text = <<>> /\ top.at_end
      /\ text[1] = EndMark <=> top.text = <<>> /\ ~top.at_end
  <2>1. MarksApart(C) /\ top \in Stream(C) /\ under \in Seq(Char(C)) /\ text = Written(top) \o under
    BY <1>1
  <2>. HIDE DEF top, under
  <2>. QED  BY ONLY <2>1, MarkIsFirst
<1>3. Text!Segment = SubSeq(text, 1, Text!Min(M) - 1)
  BY DEF text, M, MarksOf, Text!Segment, Text!FirstMark
<1>4. Len(top.text) + 1 - 1 = Len(top.text)
  BY <1>1 DEF Stream
<1>. HIDE DEF M
<1>5. Text!Segment = top.text
  BY <1>2, <1>3, <1>4
<1>6. text # <<>>
  BY <1>2
<1>7. Text!AtEnd <=> TopStream.at_end
  BY <1>1, <1>2, <1>6 DEF Text!AtEnd, text, Stream
<1>. QED  BY <1>1, <1>2, <1>5, <1>6, <1>7 DEF text

LEMMA NoStreamNoText ==
  ASSUME streams = <<>>
  PROVE  Rest = <<>> /\ Text!AtEnd
BY TextOfNone, RestIsText DEF Text!AtEnd

\* The text has come to its end when next_token() finds it so.
LEMMA EndIsEnd ==
  ASSUME NEW C, MarksApart(C), Inv(C)
  PROVE  /\ Text!AtEnd <=> (streams # <<>> => TopStream.at_end)
         /\ Rest = <<>> <=> streams = <<>>
BY TopIsSegment, NoStreamNoText

\* The tokens that match are those at the places that match.
LEMMA CandidatesMatch ==
  ASSUME NEW C, MarksApart(C), Inv(C), streams # <<>>
  PROVE  /\ Text!Candidates = {Active[p] : p \in MatchedPatterns}
         /\ \A p : Text!LengthOf(Active[p]) = LengthAt(p)
<1>1. Text!Segment = TopStream.text /\ Text!scanner = tokenizer
  BY TopIsSegment DEF Text!scanner, tokenizer
<1>2. \A p \in DOMAIN Active : Active[p] \in DOMAIN tokenizer.tokens
  BY ActiveList DEF Inv, TypeOK
<1>. QED  BY <1>1, <1>2 DEF Text!Candidates, Text!LengthOf, LengthAt, MatchedPatterns, TokenAt, Active

\* The best of the places is the token that Scanner chooses, and no other is.
LEMMA BestIsChosen ==
  ASSUME NEW C, SizesOK, MarksApart(C), BestInv(C), Chosen
  PROVE  Text!IsChosen(Active[best])
<1>1. Inv(C) /\ BestSoFar /\ matched = {} /\ best \in MatchedPatterns /\ streams # <<>>
  BY ChosenStream DEF BestInv, Chosen
<1>2. \A p \in MatchedPatterns : LengthAt(p) < LengthAt(best) \/ (LengthAt(p) = LengthAt(best) /\ Active[best] <= Active[p])
  <2>1. MatchedPatterns \ matched = MatchedPatterns
    BY <1>1
  <2>. QED  BY <1>1, <2>1 DEF BestSoFar
<1>3. /\ Text!Candidates = {Active[p] : p \in MatchedPatterns}
      /\ \A p : Text!LengthOf(Active[p]) = LengthAt(p)
  BY <1>1, CandidatesMatch
<1>4. Active[best] \in Text!Candidates
  BY <1>1, <1>3
<1>5. ASSUME NEW other \in Text!Candidates
      PROVE  \/ Text!LengthOf(other) < Text!LengthOf(Active[best])
             \/ Text!LengthOf(other) = Text!LengthOf(Active[best]) /\ Active[best] <= other
  <2>1. PICK p \in MatchedPatterns : other = Active[p]
    BY <1>3
  <2>. QED  BY <1>2, <1>3, <2>1
<1>. QED  BY <1>4, <1>5 DEF Text!IsChosen

-----------------------------------------------------------------------------
(* Actions of the user *)

\* What the state and the streams of a context are to Scanner.
Seen(context) == [state |-> context.state, rest |-> TextOf(context.streams)]

LEMMA SeenAs == \A name, S : Seen([state |-> name, streams |-> S]) = [state |-> name, rest |-> TextOf(S)]
BY DEF Seen

LEMMA StreamPushed ==
  ASSUME NEW C, NEW text \in Seq(C)
  PROVE  /\ StreamOf(text) \in Stream(C)
         /\ Written(StreamOf(text)) = Visible(text) \o <<EndMark>>
<1>1. GoodStreams(C, <<>>)
  BY DEF GoodStreams, EndedIsEmpty
<1>. DEFINE s == StreamOf(text)
            S == Append(<<>>, s)
<1>2. S \in Seq(Stream(C))
  BY <1>1, StreamsPushed DEF GoodStreams
<1>. HIDE DEF s
<1>3. S = <<s>> /\ Len(S) = 1
  OBVIOUS
<1>. HIDE DEF S
<1>4. s \in Stream(C)
  <2>1. 1 \in 1 .. Len(S) /\ S[1] = s
    BY <1>3
  <2>. QED  BY <1>2, <2>1
<1>5. Visible(text) \in Seq(C)
  BY <1>4 DEF s, StreamOf, Stream
<1>6. Written(StreamOf(text)) = Append(Visible(text), EndMark)
  BY DEF Written, StreamOf
<1>7. Visible(text) \in Seq(Char(C)) /\ EndMark \in Char(C)
  BY <1>5 DEF Char
<1>. HIDE DEF Char
<1>8. Append(Visible(text), EndMark) = Visible(text) \o <<EndMark>>
  BY <1>7
<1>. QED  BY <1>4, <1>6, <1>8 DEF s

\* A stream that is pushed stands in front of the text.
LEMMA PushedIsPut ==
  ASSUME NEW C, NEW S, GoodStreams(C, S), NEW text \in Seq(C)
  PROVE  TextOf(Append(S, StreamOf(text))) = Visible(text) \o <<EndMark>> \o TextOf(S)
<1>1. TextOf(Append(S, StreamOf(text))) = Written(StreamOf(text)) \o TextOf(S)
  BY StreamPushed, TextOfMore DEF GoodStreams
<1>. QED  BY <1>1, StreamPushed

\* A stream that is popped is taken away up to its mark.
LEMMA PoppedIsBehind ==
  ASSUME NEW C, MarksApart(C), NEW S, GoodStreams(C, S), S # <<>>
  PROVE  TextOf(SubSeq(S, 1, Len(S) - 1)) = Text!Behind(TextOf(S))
<1>. DEFINE front == SubSeq(S, 1, Len(S) - 1)
            top   == S[Len(S)]
            all   == TextOf(S)
            under == TextOf(front)
<1>1. top \in Stream(C) /\ under \in Seq(Char(C)) /\ all = Written(top) \o under
  BY TextOfTop
<1>. HIDE DEF front, top, all, under
<1>2. Text!Behind(all) = under
  BY <1>1, MarkIsFirst
<1>. QED  BY <1>2 DEF under, all, front

LEMMA EffectIsSeen ==
  ASSUME NEW C, MarksApart(C), NEW S, GoodStreams(C, S), NEW name, NEW action, PushesOver(C, action),
         action.kind = "Pop" => S # <<>>
  PROVE  Text!Effect([state |-> name, rest |-> TextOf(S)], action) = Seen(EffectOn([state |-> name, streams |-> S], action))
<1>1. CASE action.kind = "Push"
  <2>1. TextOf(Append(S, StreamOf(action.text))) = Visible(action.text) \o <<EndMark>> \o TextOf(S)
    BY <1>1, PushedIsPut DEF PushesOver
  <2>2. EffectOn([state |-> name, streams |-> S], action) = [state |-> name, streams |-> Append(S, StreamOf(action.text))]
    BY <1>1 DEF EffectOn
  <2>3. Text!Effect([state |-> name, rest |-> TextOf(S)], action)
          = [state |-> name, rest |-> Visible(action.text) \o <<EndMark>> \o TextOf(S)]
    BY <1>1 DEF Text!Effect
  <2>. QED  BY <2>1, <2>2, <2>3, SeenAs
<1>2. CASE action.kind = "Pop"
  <2>1. TextOf(SubSeq(S, 1, Len(S) - 1)) = Text!Behind(TextOf(S))
    BY <1>2, PoppedIsBehind
  <2>2. EffectOn([state |-> name, streams |-> S], action) = [state |-> name, streams |-> SubSeq(S, 1, Len(S) - 1)]
    BY <1>2 DEF EffectOn
  <2>3. Text!Effect([state |-> name, rest |-> TextOf(S)], action) = [state |-> name, rest |-> Text!Behind(TextOf(S))]
    BY <1>2 DEF Text!Effect
  <2>. QED  BY <2>1, <2>2, <2>3, SeenAs
<1>3. CASE action.kind = "Enter"
  BY <1>3 DEF EffectOn, Text!Effect, Seen
<1>4. CASE action.kind \notin {"Push", "Pop", "Enter"}
  BY <1>4 DEF EffectOn, Text!Effect, Seen
<1>. QED  BY <1>1, <1>2, <1>3, <1>4

\* The text behind the match, or the mark that has been reached.
LEMMA ConsumedIsSeen ==
  ASSUME NEW C, SizesOK, MatchesFit, MarksApart(C), Inv(C), Chosen
  PROVE  TextOf(Consumed.streams) = Text!RestAfter(LengthAt(best))
<1>. DEFINE n == LengthAt(best)
            text == TopStream.text
            under == TextOf(Below)
            left == [text |-> SubSeq(text, n + 1, Len(text)), at_end |-> text = <<>>]
<1>1. /\ streams # <<>> /\ best \in MatchedPatterns /\ ~TopStream.at_end /\ TopStream \in Stream(C)
      /\ text \in Seq(C) /\ n \in Nat
  BY ChosenStream DEF Stream, SizesOK, LengthAt
<1>2. n <= Len(text)
  BY <1>1 DEF MatchesFit, MatchedPatterns, LengthAt
<1>3. /\ Rest = Written(TopStream) \o under /\ under \in Seq(Char(C)) /\ GoodStreams(C, Below)
      /\ Rest[1] = EndMark <=> text = <<>>
  BY <1>1, TopIsSegment
<1>4. Consumed.streams = Append(Below, left)
  BY DEF Consumed
<1>5. left \in Stream(C)
  BY <1>1, <1>2 DEF Stream
<1>6. Written(TopStream) = Append(text, EndMark)
  BY <1>1 DEF Written
<1>7. TextOf(Consumed.streams) = Written(left) \o under
  <2>1. Below \in Seq(Stream(C))
    BY <1>3 DEF GoodStreams
  <2>. HIDE DEF left
  <2>. QED  BY <1>4, <1>5, <2>1, TextOfMore
<1>8. text \in Seq(Char(C)) /\ EndMark \in Char(C)
  BY <1>1, WrittenType DEF Char
<1>9. Written(left) = Append(SubSeq(text, n + 1, Len(text)), IF text = <<>> THEN Wall ELSE EndMark)
  BY DEF Written
<1>. HIDE DEF n, text, under, left
<1>10. CASE text = <<>>
  <2>1. SubSeq(text, n + 1, Len(text)) = <<>>
    BY <1>1, <1>10
  <2>2. Written(left) = <<Wall>>
    <3>1. Append(<<>>, Wall) = <<Wall>>
      OBVIOUS
    <3>. QED  BY <1>9, <1>10, <2>1, <3>1
  <2>3. Rest = <<EndMark>> \o under
    BY <1>3, <1>6, <1>10
  <2>4. Tail(Rest) = under
    BY <1>3, <1>8, <2>3
  <2>. QED  BY <1>3, <1>7, <1>10, <2>2, <2>4 DEF Text!RestAfter
<1>11. CASE text # <<>>
  <2>1. Text!RestAfter(n) = SubSeq(Rest, n + 1, Len(Rest))
    BY <1>3, <1>11 DEF Text!RestAfter
  <2>2. SubSeq(Rest, n + 1, Len(Rest)) = Append(SubSeq(text, n + 1, Len(text)), EndMark) \o under
    <3>1. /\ text \in Seq(Char(C)) /\ EndMark \in Char(C) /\ under \in Seq(Char(C)) /\ Rest = Append(text, EndMark) \o under
      BY <1>3, <1>6, <1>8
    <3>2. n \in 0 .. Len(text)
      BY <1>1, <1>2
    <3>3. IsBehind(Rest, n, text, EndMark, under)
      BY ONLY <3>1, <3>2, CutInTwo
    <3>. QED  BY <3>3 DEF IsBehind
  <2>. QED  BY <1>7, <1>9, <1>11, <2>1, <2>2 DEF n
<1>. QED  BY <1>10, <1>11

-----------------------------------------------------------------------------
(* Steps *)

Good(C) == /\ SizesOK /\ MatchesFit /\ TextsOver(C) /\ MarksApart(C)
           /\ BestInv(C) /\ PopsAreStreams

\* What Scanner makes of the token that is chosen.
ConsumedText == [state |-> Consumed.state, rest |-> Text!RestAfter(LengthAt(best))]
DoneText(chosen) == Text!Effect(Text!Effect(ConsumedText, tokenizer.globalAction), chosen.action)

LEMMA EffectOnStreams ==
  ASSUME NEW S, NEW name, NEW action
  PROVE  EffectOn([state |-> name, streams |-> S], action).streams
           = IF action.kind = "Push" THEN Append(S, StreamOf(action.text))
             ELSE IF action.kind = "Pop" THEN SubSeq(S, 1, Len(S) - 1)
             ELSE S
<1>1. CASE action.kind = "Push"
  BY <1>1 DEF EffectOn
<1>2. CASE action.kind = "Pop"
  BY <1>2 DEF EffectOn
<1>3. CASE action.kind = "Enter"
  BY <1>3 DEF EffectOn
<1>4. CASE action.kind \notin {"Push", "Pop", "Enter"}
  BY <1>4 DEF EffectOn
<1>. QED  BY <1>1, <1>2, <1>3, <1>4

LEMMA ActionsAreSeen ==
  ASSUME NEW C, Good(C), Chosen
  PROVE  DoneText(TokenAt(best)) = Seen(AfterActions(TokenAt(best)))
<1>. DEFINE action == tokenizer.globalAction
            chosen  == TokenAt(best)
            S      == Consumed.streams
            first  == EffectOn(Consumed, action)
<1>1. Inv(C) /\ streams # <<>> /\ streams \in Seq(Stream(C))
  BY ChosenStream DEF Good, BestInv, Inv, GoodStreams
<1>2. GoodStreams(C, S) /\ Consumed = [state |-> Consumed.state, streams |-> S] /\ TextOf(S) = Text!RestAfter(LengthAt(best))
  BY <1>1, ConsumedStreams, ConsumedIsSeen DEF Good
<1>3. Len(S) = Len(streams) /\ Len(streams) \in Nat \ {0}
  <2>. DEFINE left == [text |-> SubSeq(TopStream.text, LengthAt(best) + 1, Len(TopStream.text)), at_end |-> TopStream.text = <<>>]
  <2>1. S = Append(Below, left)
    BY DEF Consumed
  <2>. HIDE DEF left, S
  <2>2. Len(Below) = Len(streams) - 1 /\ Below \in Seq(Stream(C)) /\ Len(streams) \in Nat \ {0}
    <3>1. Len(streams) \in Nat \ {0}
      BY ONLY <1>1
    <3>2. Below \in Seq(Stream(C))
      BY <1>1, StreamsPopped DEF Inv, Below, GoodStreams
    <3>3. Len(Below) = Len(streams) - 1
      <4>. DEFINE m == Len(streams) - 1
      <4>1. m \in Nat /\ Len(streams) = m + 1 /\ streams \in Seq(Stream(C))
        BY <1>1, <3>1
      <4>2. Below = SubSeq(streams, 1, m)
        BY DEF Below
      <4>. HIDE DEF m
      <4>3. Len(SubSeq(streams, 1, m)) = m
        BY ONLY <4>1
      <4>. QED  BY <4>2, <4>3 DEF m
    <3>. QED  BY <3>1, <3>2, <3>3
  <2>3. Len(Append(Below, left)) = Len(Below) + 1
    BY <2>2
  <2>. QED  BY <2>1, <2>2, <2>3
<1>4. PushesOver(C, action) /\ PushesOver(C, chosen.action)
  BY <1>1, ChosenStream DEF Good, TextsOver, tokenizer, Prepared, Inv, TypeOK
<1>5. GoodStreams(C, first.streams) /\ first = [state |-> first.state, streams |-> first.streams]
  BY <1>2, <1>4, StreamsAfterEffect
<1>6. action.kind = "Pop" /\ chosen.action.kind = "Pop" => Len(streams) > 1
  BY DEF Good, PopsAreStreams
<1>. HIDE DEF chosen
<1>7. chosen.action.kind = "Pop" => first.streams # <<>>
  <2>. HIDE DEF S, action
  <2>1. first.streams = IF action.kind = "Push" THEN Append(S, StreamOf(action.text))
                        ELSE IF action.kind = "Pop" THEN SubSeq(S, 1, Len(S) - 1)
                        ELSE S
    BY <1>2, EffectOnStreams
  <2>2. /\ Len(Append(S, StreamOf(action.text))) = Len(S) + 1
        /\ Len(SubSeq(S, 1, Len(S) - 1)) = Len(S) - 1
    BY <1>2, <1>3 DEF GoodStreams
  <2>. HIDE DEF first
  <2>3. chosen.action.kind = "Pop" => Len(first.streams) > 0
    BY <1>3, <1>6, <2>1, <2>2
  <2>. QED  BY <2>3
<1>. HIDE DEF S, action
<1>8. S # <<>>
  BY <1>3
<1>9. Text!Effect(ConsumedText, action) = [state |-> first.state, rest |-> TextOf(first.streams)]
  <2>1. Text!Effect(ConsumedText, action) = Seen(first)
    BY <1>2, <1>4, <1>8, EffectIsSeen DEF Good, ConsumedText
  <2>. QED  BY <2>1 DEF Seen
<1>. HIDE DEF first
<1>10. Text!Effect(Text!Effect(ConsumedText, action), chosen.action) = Seen(EffectOn(first, chosen.action))
  BY <1>4, <1>5, <1>7, <1>9, EffectIsSeen DEF Good
<1>. QED  BY <1>10 DEF DoneText, AfterActions, first, action, chosen

\* In what follows Scanner's variables are functions of the tokenizer's.
LEMMA SameText ==
  ASSUME UNCHANGED streams
  PROVE  UNCHANGED Rest
BY DEF Rest

LEMMA InitIsSeen ==
  ASSUME Init
  PROVE  Text!Init
BY NoStreamNoText DEF Init, Text!Init

\* What the user does between two tokens.
LEMMA UserIsSeen ==
  ASSUME NEW C, Good(C), User
  PROVE  Text!Next
<1>0. Inv(C) /\ phase = "Idle" /\ GoodStreams(C, streams)
  BY DEF Good, BestInv, Inv, User, Parse, PushInputStream, PopInputStream, EnterState, Call
<1>1. Text!Waiting
  BY <1>0 DEF Text!Waiting
<1>2. ASSUME NEW text \in Texts, Parse(text) PROVE Text!Begin
  <2>1. phase' = "Idle" /\ state' = DefaultState /\ streams' = <<StreamOf(text)>> /\ result' = <<>> /\ machine' = machine
    BY <1>0, <1>2 DEF Parse
  <2>2. text \in Seq(C)
    BY DEF Good, TextsOver
  <2>3. GoodStreams(C, <<>>) /\ Append(<<>>, StreamOf(text)) = <<StreamOf(text)>>
    BY DEF GoodStreams, EndedIsEmpty
  <2>4. TextOf(<<StreamOf(text)>>) = Visible(text) \o <<EndMark>> \o TextOf(<<>>)
    BY <2>2, <2>3, PushedIsPut
  <2>5. Visible(text) \o <<EndMark>> \o <<>> = Visible(text) \o <<EndMark>>
    <3>1. Written(StreamOf(text)) \in Seq(Char(C))
      BY <2>2, StreamPushed, WrittenType
    <3>2. Visible(text) \o <<EndMark>> \in Seq(Char(C))
      BY <2>2, <3>1, StreamPushed
    <3>. QED  BY <3>2
  <2>6. Rest' = Visible(text) \o <<EndMark>>
    BY <2>1, <2>4, <2>5, TextOfNone DEF Rest, TextOf
  <2>. QED  BY <1>0, <1>1, <2>1, <2>6 DEF Text!Begin
<1>3. ASSUME NEW text \in Texts, PushInputStream(text) PROVE Text!Put
  <2>1. streams' = Append(streams, StreamOf(text)) /\ UNCHANGED <<machine, state, phase, result>>
    BY <1>3 DEF PushInputStream, loopVars
  <2>2. text \in Seq(C)
    BY DEF Good, TextsOver
  <2>3. TextOf(Append(streams, StreamOf(text))) = Visible(text) \o <<EndMark>> \o Rest
    BY <1>0, <2>2, PushedIsPut, RestIsText
  <2>4. Rest' = Visible(text) \o <<EndMark>> \o Rest
    BY <2>1, <2>3 DEF Rest, TextOf
  <2>. QED  BY <1>1, <2>1, <2>4 DEF Text!Put
<1>4. CASE PopInputStream
  <2>1. streams # <<>> /\ streams' = Below /\ UNCHANGED <<machine, state, phase, result>>
    BY <1>4 DEF PopInputStream, loopVars
  <2>2. Rest # <<>> /\ TextOf(Below) = Text!Behind(Rest)
    BY <1>0, <2>1, TopIsSegment DEF Good
  <2>3. Rest' = Text!Behind(Rest)
    BY <2>1, <2>2 DEF Rest, TextOf
  <2>. QED  BY <1>1, <2>1, <2>2, <2>3 DEF Text!TakeAway, Text!Next
<1>5. ASSUME NEW name \in DOMAIN tokenizer.active, EnterState(name) PROVE Text!Enter
  <2>1. state' = name /\ UNCHANGED <<machine, streams, phase, result>>
    BY <1>5 DEF EnterState, loopVars
  <2>. QED  BY <1>1, <2>1, SameText DEF Text!Enter, Text!scanner, tokenizer
<1>6. CASE Call
  <2>1. phase' = "Looping" /\ result' = <<>> /\ UNCHANGED <<machine, state, streams>>
    BY <1>6 DEF Call, streamVars
  <2>. QED  BY <1>0, <1>1, <2>1, SameText DEF Text!Ask, Text!Next
<1>. QED  BY <1>2, <1>3, <1>4, <1>5, <1>6 DEF User, Text!Next

\* The answers for which no token is read.
LEMMA EndIsAnswered ==
  ASSUME NEW C, Good(C), ReturnEnd
  PROVE  Text!AnswerEnd
<1>1. /\ phase = "Looping" /\ phase' = "Idle" /\ (streams # <<>> => TopStream.at_end)
      /\ result' = <<[symbol |-> EndSymbol, value |-> NoValue]>> /\ UNCHANGED <<machine, state, streams>>
  BY DEF ReturnEnd, Return, streamVars
<1>2. Text!AtEnd
  BY <1>1, EndIsEnd DEF Good, BestInv
<1>. QED  BY <1>1, <1>2, SameText DEF Text!AnswerEnd, Text!Answer, Text!EndSymbol, EndSymbol

LEMMA NothingIsAnswered ==
  ASSUME NEW C, Good(C), ReturnNothing
  PROVE  Text!AnswerNothing
<1>1. /\ phase = "Looping" /\ phase' = "Idle" /\ streams # <<>> /\ ~TopStream.at_end /\ MatchedPatterns = {}
      /\ result' = <<[symbol |-> NoMatch, value |-> NoValue]>> /\ UNCHANGED <<machine, state, streams>>
  BY DEF ReturnNothing, Reading, Return, streamVars
<1>2. ~Text!AtEnd
  BY <1>1, EndIsEnd DEF Good, BestInv
<1>3. Text!Candidates = {}
  BY <1>1, CandidatesMatch DEF Good, BestInv
<1>. QED  BY <1>1, <1>2, <1>3, SameText DEF Text!AnswerNothing, Text!Answer

\* Reading a token, in terms of what it is cut from and what its actions leave.
ReadsAs(chosen, lexeme, consumed, done) ==
  \/ /\ {consumed.state, done.state} \subseteq DOMAIN tokenizer.active
     /\ state' = done.state /\ Rest' = done.rest
     /\ IF chosen.action.kind = "Throw" THEN Text!Answer(Thrown, NoValue)
        ELSE IF chosen.symbol # <<>>
          THEN Text!Answer(chosen.symbol[1], IF chosen.action.kind = "None" THEN NoValue ELSE lexeme)
        ELSE UNCHANGED <<machine, phase \in {"Looping", "Comparing"}, phase = "Stopped", result>>
  \/ /\ ~({consumed.state, done.state} \subseteq DOMAIN tokenizer.active)
     /\ (phase = "Stopped")' = TRUE /\ (phase \in {"Looping", "Comparing"})' = FALSE
     /\ UNCHANGED <<machine, state, Rest, result>>

LEMMA ReadBest ==
  ASSUME NEW C, Good(C), Chosen, ReadsAs(TokenAt(best), Lexeme, ConsumedText, DoneText(TokenAt(best)))
  PROVE  Text!Next
<1>. DEFINE k == Active[best]
            chosen == TokenAt(best)
<1>1. /\ Inv(C) /\ streams # <<>> /\ ~TopStream.at_end
      /\ chosen = tokenizer.tokens[k] /\ k \in DOMAIN tokenizer.tokens
  BY ChosenStream DEF Good, BestInv
<1>2. Text!scanner = tokenizer
  BY DEF Text!scanner, tokenizer
<1>3. Text!IsChosen(k) /\ ~Text!AtEnd /\ Text!LengthOf(k) = LengthAt(best) /\ Text!Segment = TopStream.text
  BY <1>1, BestIsChosen, EndIsEnd, CandidatesMatch, TopIsSegment DEF Good
<1>. HIDE DEF k
<1>4. Lexeme = SubSeq(Text!Segment, 1, Text!LengthOf(k))
  BY <1>3 DEF Lexeme
<1>5. ConsumedText = [state |-> IF chosen.enter # <<>> THEN chosen.enter[1] ELSE state, rest |-> Text!RestAfter(Text!LengthOf(k))]
  BY <1>3 DEF ConsumedText, Consumed
<1>6. DoneText(chosen) = Text!Effect(Text!Effect(ConsumedText, tokenizer.globalAction), chosen.action)
  BY DEF DoneText
<1>7. phase \in {"Looping", "Comparing"}
  BY DEF Chosen
<1>. DEFINE lexeme == Lexeme
            consumed == ConsumedText
            done == DoneText(chosen)
<1>. HIDE DEF chosen, lexeme, consumed, done
<1>8. ReadsAs(chosen, lexeme, consumed, done)
  BY DEF chosen, lexeme, consumed, done
<1>9. Text!Read(k)
  BY <1>1, <1>2, <1>3, <1>4, <1>5, <1>6, <1>7, <1>8 DEF Text!Read, ReadsAs, lexeme, consumed, done
<1>. QED  BY <1>1, <1>2, <1>9 DEF Text!Next

LEMMA StatesAreSeen ==
  ASSUME NEW C, Good(C), Chosen
  PROVE  LET chosen == TokenAt(best)
         IN  /\ ConsumedText.state = Consumed.state
             /\ DoneText(chosen).state = AfterActions(chosen).state
             /\ DoneText(chosen).rest = TextOf(AfterActions(chosen).streams)
             /\ KnowsStates(chosen) <=> {ConsumedText.state, DoneText(chosen).state} \subseteq DOMAIN tokenizer.active
<1>. DEFINE chosen == TokenAt(best)
<1>1. DoneText(chosen) = Seen(AfterActions(chosen))
  BY ActionsAreSeen
<1>2. ConsumedText.state = Consumed.state
  BY DEF ConsumedText
<1>. HIDE DEF chosen
<1>3. DoneText(chosen).state = AfterActions(chosen).state /\ DoneText(chosen).rest = TextOf(AfterActions(chosen).streams)
  BY <1>1 DEF Seen
<1>4. KnowsStates(chosen) <=> {ConsumedText.state, DoneText(chosen).state} \subseteq DOMAIN tokenizer.active
  BY <1>2, <1>3 DEF KnowsStates, IsKnown
<1>. QED  BY <1>2, <1>3, <1>4 DEF chosen

LEMMA RunsAreSeen ==
  ASSUME NEW C, Good(C), Chosen, Runs(TokenAt(best))
  PROVE  LET done == DoneText(TokenAt(best))
         IN  /\ {ConsumedText.state, done.state} \subseteq DOMAIN tokenizer.active
             /\ state' = done.state /\ Rest' = done.rest
<1>. DEFINE chosen == TokenAt(best)
            after == AfterActions(chosen)
            done  == DoneText(chosen)
<1>1. KnowsStates(chosen) /\ state' = after.state /\ streams' = after.streams
  BY DEF Runs
<1>2. /\ done.state = after.state /\ done.rest = TextOf(after.streams)
      /\ KnowsStates(chosen) <=> {ConsumedText.state, done.state} \subseteq DOMAIN tokenizer.active
  BY StatesAreSeen
<1>. HIDE DEF chosen, after, done
<1>3. Rest' = TextOf(after.streams)
  BY <1>1 DEF Rest, TextOf
<1>. QED  BY <1>1, <1>2, <1>3 DEF done, chosen

LEMMA SkipIsRead ==
  ASSUME NEW C, Good(C), Skip
  PROVE  Text!Next
<1>. DEFINE chosen == TokenAt(best)
<1>1. /\ Chosen /\ phase = "Comparing" /\ phase' = "Looping" /\ UNCHANGED <<machine, result>>
      /\ chosen.action.kind # "Throw" /\ chosen.symbol = <<>> /\ Runs(chosen)
  BY DEF Skip, Chosen
<1>. HIDE DEF chosen
<1>2. UNCHANGED <<machine, phase \in {"Looping", "Comparing"}, phase = "Stopped", result>>
  BY <1>1
<1>3. ReadsAs(chosen, Lexeme, ConsumedText, DoneText(chosen))
  BY <1>1, <1>2, RunsAreSeen DEF ReadsAs, chosen
<1>. QED  BY <1>1, <1>3, ReadBest DEF chosen

LEMMA TokenIsRead ==
  ASSUME NEW C, Good(C), ReturnToken
  PROVE  Text!Next
<1>. DEFINE chosen == TokenAt(best)
            value == IF chosen.action.kind = "None" THEN NoValue ELSE Lexeme
<1>1. /\ Chosen /\ phase = "Comparing" /\ phase' = "Idle" /\ UNCHANGED machine
      /\ result' = <<[symbol |-> chosen.symbol[1], value |-> value]>>
      /\ chosen.action.kind # "Throw" /\ chosen.symbol # <<>> /\ Runs(chosen)
  BY DEF ReturnToken, Return, Chosen
<1>. HIDE DEF chosen
<1>2. Text!Answer(chosen.symbol[1], value)
  BY <1>1 DEF Text!Answer
<1>3. ReadsAs(chosen, Lexeme, ConsumedText, DoneText(chosen))
  BY <1>1, <1>2, RunsAreSeen DEF ReadsAs, chosen
<1>. QED  BY <1>1, <1>3, ReadBest DEF chosen

LEMMA ThrowIsRead ==
  ASSUME NEW C, Good(C), Throw
  PROVE  Text!Next
<1>. DEFINE chosen == TokenAt(best)
<1>1. /\ Chosen /\ phase = "Comparing" /\ phase' = "Idle" /\ UNCHANGED machine
      /\ result' = <<[symbol |-> Thrown, value |-> NoValue]>>
      /\ chosen.action.kind = "Throw" /\ Runs(chosen)
  BY DEF Throw, Return, Chosen
<1>. HIDE DEF chosen
<1>2. Text!Answer(Thrown, NoValue)
  BY <1>1 DEF Text!Answer
<1>3. ReadsAs(chosen, Lexeme, ConsumedText, DoneText(chosen))
  BY <1>1, <1>2, RunsAreSeen DEF ReadsAs, chosen
<1>. QED  BY <1>1, <1>3, ReadBest DEF chosen

\* enter_state() is called with a state that is not there.
LEMMA UnknownIsRead ==
  ASSUME NEW C, Good(C), UnknownState
  PROVE  Text!Next
<1>. DEFINE chosen == TokenAt(best)
<1>1. /\ Chosen /\ phase' = "Stopped" /\ UNCHANGED <<machine, state, streams, result>>
      /\ ~KnowsStates(chosen)
  BY DEF UnknownState, streamVars
<1>2. ~({ConsumedText.state, DoneText(chosen).state} \subseteq DOMAIN tokenizer.active)
  BY <1>1, StatesAreSeen
<1>. HIDE DEF chosen
<1>3. (phase = "Stopped")' = TRUE /\ (phase \in {"Looping", "Comparing"})' = FALSE
  BY <1>1
<1>4. UNCHANGED <<machine, state, Rest, result>>
  BY <1>1, SameText
<1>5. ReadsAs(chosen, Lexeme, ConsumedText, DoneText(chosen))
  BY <1>2, <1>3, <1>4 DEF ReadsAs
<1>. QED  BY <1>1, <1>5, ReadBest DEF chosen

\* Comparing the patterns that match changes nothing in the text.
LEMMA ComparingIsSeenAs ==
  ASSUME Match \/ \E p \in matched : Compare(p)
  PROVE  UNCHANGED Text!vars
<1>1. /\ phase \in {"Looping", "Comparing"} /\ phase' \in {"Looping", "Comparing"}
      /\ UNCHANGED <<machine, state, streams, result>>
  BY DEF Match, Reading, Compare, streamVars
<1>. QED  BY <1>1, SameText DEF Text!vars

LEMMA StepIsSeen ==
  ASSUME NEW C, Good(C), [Next]_vars
  PROVE  [Text!Next]_Text!vars
<1>1. CASE UNCHANGED vars
  <2>1. UNCHANGED <<machine, state, streams, phase, result>>
    BY <1>1 DEF vars, streamVars, loopVars
  <2>. QED  BY <2>1, SameText DEF Text!vars
<1>2. CASE User
  BY <1>2, UserIsSeen
<1>3. CASE ReturnEnd
  BY <1>3, EndIsAnswered DEF Text!Next
<1>4. CASE ReturnNothing
  BY <1>4, NothingIsAnswered DEF Text!Next
<1>5. CASE Skip \/ ReturnToken \/ Throw \/ UnknownState
  BY <1>5, SkipIsRead, TokenIsRead, ThrowIsRead, UnknownIsRead
<1>6. CASE Match \/ \E p \in matched : Compare(p)
  BY <1>6, ComparingIsSeenAs
<1>. QED  BY <1>1, <1>2, <1>3, <1>4, <1>5, <1>6 DEF Next, Loop

\* The streams read as one text, a stream that is pushed standing in front of what is
\* left, and every token is the longest match and the first declared of those
\* (Tokenizer::next_token(), push_input_stream(), pop_input_stream()): for every
\* tokenizer whose ties are in the order of declaration, as long as no action pops a
\* stream that is not there.
THEOREM TokenizerScansText ==
  ASSUME NEW C, SizesOK, MatchesFit, TextsOver(C), TiesInOrder, MarksApart(C)
  PROVE  Spec /\ []PopsAreStreams => ScansText
<1>1. Init => BestInv(C)
  BY InitInv DEF BestInv, Init
<1>2. BestInv(C) /\ [Next]_vars => BestInv(C)'
  BY InvStep, BestStep DEF BestInv
<1>3. Init => Text!Init
  BY InitIsSeen
<1>4. BestInv(C) /\ PopsAreStreams /\ [Next]_vars => [Text!Next]_Text!vars
  BY StepIsSeen DEF Good
<1>. QED  BY <1>1, <1>2, <1>3, <1>4, PTL DEF Spec, ScansText, Text!Spec

-----------------------------------------------------------------------------
(* parse() over next_token(): the tokens of a text *)

AreTokens(list) == \E T : list \in Seq(T)

Ended(list) == list # <<>> /\ Last(list) = EndToken

\* A list of tokens begins as another does.
BeginsWith(list, start) == Len(start) <= Len(list) /\ \A i \in 1 .. Len(start) : list[i] = start[i]

IsRead(x) == x = [context |-> x.context, tokens |-> x.tokens] /\ AreTokens(x.tokens)

\* Where the reading of a text begins.
Nothing(t) == [context |-> [state |-> DefaultState, streams |-> <<StreamOf(t)>>], tokens |-> <<>>]

ReadsOn(W, m, t, N) == W = [n \in 0 .. N |-> IF n = 0 THEN Nothing(t) ELSE ReadOn(m, W[n - 1])]

\* The function that reads a text step by step exists.
LEMMA ReadingExists ==
  ASSUME NEW m, NEW t
  PROVE  \A N \in Nat : \E W : ReadsOn(W, m, t, N)
<1>. DEFINE M == {N \in Nat : \E W : ReadsOn(W, m, t, N)}
<1>1. 0 \in M
  <2>1. ReadsOn([n \in 0 .. 0 |-> Nothing(t)], m, t, 0)
    BY DEF ReadsOn
  <2>. QED  BY <2>1
<1>2. ASSUME NEW N \in M PROVE N + 1 \in M
  <2>1. PICK W : ReadsOn(W, m, t, N)
    OBVIOUS
  <2>. DEFINE V == [n \in 0 .. N + 1 |-> IF n <= N THEN W[n] ELSE ReadOn(m, W[N])]
  <2>2. \A n \in 0 .. N : W[n] = IF n = 0 THEN Nothing(t) ELSE ReadOn(m, W[n - 1])
    BY <2>1 DEF ReadsOn
  <2>3. ASSUME NEW n \in 0 .. N + 1 PROVE V[n] = IF n = 0 THEN Nothing(t) ELSE ReadOn(m, V[n - 1])
    <3>1. CASE n = 0
      BY <2>2, <3>1
    <3>2. CASE n # 0 /\ n <= N
      <4>1. n \in 0 .. N /\ n - 1 \in 0 .. N + 1 /\ n - 1 <= N
        BY <3>2
      <4>2. V[n - 1] = W[n - 1] /\ V[n] = W[n]
        BY <4>1, <3>2
      <4>. QED  BY <2>2, <3>2, <4>1, <4>2
    <3>3. CASE n = N + 1
      <4>1. V[n] = ReadOn(m, W[N]) /\ V[n - 1] = W[N] /\ n # 0
        BY <3>3
      <4>. QED  BY <4>1
    <3>. QED  BY <3>1, <3>2, <3>3
  <2>4. V = [n \in 0 .. N + 1 |-> V[n]]
    OBVIOUS
  <2>. HIDE DEF V
  <2>5. ReadsOn(V, m, t, N + 1)
    BY <2>3, <2>4 DEF ReadsOn
  <2>. QED  BY <2>5
<1>. HIDE DEF M
<1>3. M = Nat
  <2>1. M \subseteq Nat
    BY DEF M
  <2>. QED  BY <1>1, <1>2, <2>1, SetInduction
<1>. QED  BY <1>3 DEF M

LEMMA ReadingSteps ==
  ASSUME NEW m, NEW t
  PROVE  /\ ReadingOf(m, t)[0] = Nothing(t)
         /\ \A n \in 1 .. MaxTokens : ReadingOf(m, t)[n] = ReadOn(m, ReadingOf(m, t)[n - 1])
<1>. DEFINE X == CHOOSE W : ReadsOn(W, m, t, MaxTokens)
<1>1. MaxTokens \in Nat
  BY TokensAssumption
<1>2. ReadsOn(X, m, t, MaxTokens)
  BY <1>1, ReadingExists
<1>3. ReadingOf(m, t) = X
  BY DEF ReadingOf, ReadsOn, Nothing
<1>. HIDE DEF X
<1>4. \A n \in 0 .. MaxTokens : X[n] = IF n = 0 THEN Nothing(t) ELSE ReadOn(m, X[n - 1])
  BY <1>2 DEF ReadsOn
<1>. QED  BY <1>1, <1>3, <1>4

\* Tokens are only added.
LEMMA ReadOnAdds ==
  ASSUME NEW m, NEW x, IsRead(x)
  PROVE  IsRead(ReadOn(m, x)) /\ BeginsWith(ReadOn(m, x).tokens, x.tokens)
<1>1. PICK T : x.tokens \in Seq(T)
  BY DEF IsRead, AreTokens
<1>2. ASSUME NEW c, NEW y, NEW z, NEW more \in {<<>>, <<y>>, <<y, z>>}
      PROVE  /\ IsRead([context |-> c, tokens |-> x.tokens \o more])
             /\ BeginsWith(x.tokens \o more, x.tokens)
  <2>. DEFINE U == T \cup {y, z}
  <2>1. x.tokens \in Seq(U)
    BY <1>1, SeqMonotonic
  <2>2. y \in U /\ z \in U
    OBVIOUS
  <2>. HIDE DEF U
  <2>3. <<>> \in Seq(U) /\ <<y>> \in Seq(U) /\ <<y, z>> \in Seq(U)
    BY <2>2
  <2>5. more \in Seq(U)
    BY <2>3
  <2>4. x.tokens \o more \in Seq(U) /\ BeginsWith(x.tokens \o more, x.tokens)
    BY <2>1, <2>5 DEF BeginsWith
  <2>. QED  BY <2>4 DEF IsRead, AreTokens
<1>3. IsRead(x) /\ BeginsWith(x.tokens, x.tokens)
  BY <1>1 DEF BeginsWith
<1>4. \A more : [x EXCEPT !.tokens = @ \o more] = [context |-> x.context, tokens |-> x.tokens \o more]
  <2>1. x = [context |-> x.context, tokens |-> x.tokens]
    BY Zenon DEF IsRead
  <2>3. PICK c, list : x = [context |-> c, tokens |-> list]
    BY <2>1, Zenon
  <2>2. \A more : [[context |-> c, tokens |-> list] EXCEPT !.tokens = @ \o more] = [context |-> c, tokens |-> list \o more]
    <3>1. \A v : [[context |-> c, tokens |-> list] EXCEPT !.tokens = v] = [context |-> c, tokens |-> v]
      OBVIOUS
    <3>2. [context |-> c, tokens |-> list].tokens = list
      OBVIOUS
    <3>. QED  BY <3>1, <3>2
  <2>. QED  BY <2>2, <2>3
<1>5. ReadOn(m, x) = x \/ \E c, y, z : \E more \in {<<>>, <<y>>, <<y, z>>} : ReadOn(m, x) = [context |-> c, tokens |-> x.tokens \o more]
  BY <1>4 DEF ReadOn
<1>6. CASE ReadOn(m, x) = x
  BY <1>3, <1>6
<1>7. CASE \E c, y, z : \E more \in {<<>>, <<y>>, <<y, z>>} : ReadOn(m, x) = [context |-> c, tokens |-> x.tokens \o more]
  <2>1. PICK c, y, z : \E more \in {<<>>, <<y>>, <<y, z>>} : ReadOn(m, x) = [context |-> c, tokens |-> x.tokens \o more]
    BY <1>7
  <2>2. PICK more \in {<<>>, <<y>>, <<y, z>>} : ReadOn(m, x) = [context |-> c, tokens |-> x.tokens \o more]
    BY <2>1
  <2>3. IsRead([context |-> c, tokens |-> x.tokens \o more]) /\ BeginsWith(x.tokens \o more, x.tokens)
    BY <1>2
  <2>. QED  BY <2>2, <2>3
<1>. QED  BY <1>5, <1>6, <1>7

LEMMA BeginsWithIsTransitive ==
  ASSUME NEW a, NEW b, NEW c, AreTokens(a), AreTokens(b), AreTokens(c), BeginsWith(b, a), BeginsWith(c, b)
  PROVE  BeginsWith(c, a)
<1>1. Len(a) \in Nat /\ Len(b) \in Nat /\ Len(c) \in Nat
  BY DEF AreTokens
<1>. QED  BY <1>1 DEF BeginsWith

\* The tokens that are still to come after n steps.
From(W, n) == SubSeq(W[MaxTokens].tokens, Len(W[n].tokens) + 1, Len(W[MaxTokens].tokens))

LEMMA ReadingsFit ==
  ASSUME NEW k \in DOMAIN Prepared, NEW t \in Texts, NEW W, W = ReadingOf(Prepared[k], t)
  PROVE  /\ \A n \in 0 .. MaxTokens :
              /\ IsRead(W[n]) /\ BeginsWith(W[MaxTokens].tokens, W[n].tokens)
              /\ Ended(W[n].tokens) => W[MaxTokens].tokens = W[n].tokens
         /\ Ended(W[MaxTokens].tokens)
<1>. DEFINE N == MaxTokens
            m == Prepared[k]
<1>0. /\ N \in Nat /\ W[0] = Nothing(t) /\ \A n \in 1 .. N : W[n] = ReadOn(m, W[n - 1])
      /\ Ended(W[N].tokens)
  BY ReadingSteps, TokensAssumption DEF AllTokens, Ended
<1>. HIDE DEF N, m
<1>1. \A n \in 0 .. N : IsRead(W[n])
  <2>. DEFINE M == {n \in Nat : n <= N => IsRead(W[n])}
  <2>1. 0 \in M
    <3>1. IsRead(Nothing(t))
      <4>1. <<>> \in Seq({})
        OBVIOUS
      <4>. QED  BY <4>1 DEF IsRead, AreTokens, Nothing
    <3>. QED  BY <1>0, <3>1
  <2>2. ASSUME NEW n \in M PROVE n + 1 \in M
    <3>. SUFFICES ASSUME n + 1 <= N PROVE IsRead(W[n + 1])
      OBVIOUS
    <3>1. IsRead(W[n]) /\ n + 1 \in 1 .. N /\ (n + 1) - 1 = n
      BY <1>0
    <3>2. W[n + 1] = ReadOn(m, W[n])
      BY <1>0, <3>1
    <3>. QED  BY <3>1, <3>2, ReadOnAdds
  <2>. HIDE DEF M
  <2>3. M = Nat
    <3>1. M \subseteq Nat
      BY DEF M
    <3>. QED  BY <2>1, <2>2, <3>1, SetInduction
  <2>. QED  BY <2>3, <1>0 DEF M
<1>. DEFINE Kept(n, d) == /\ BeginsWith(W[n + d].tokens, W[n].tokens)
                          /\ Ended(W[n].tokens) => W[n + d].tokens = W[n].tokens
<1>2. \A d \in Nat : \A n \in 0 .. N : n + d <= N => Kept(n, d)
  <2>. DEFINE M == {d \in Nat : \A n \in 0 .. N : n + d <= N => Kept(n, d)}
  <2>1. 0 \in M
    <3>1. ASSUME NEW n \in 0 .. N PROVE Kept(n, 0)
      <4>1. n + 0 = n
        BY <1>0
      <4>2. AreTokens(W[n].tokens)
        BY <1>1, Zenon DEF IsRead
      <4>. QED  BY <4>1, <4>2 DEF BeginsWith, AreTokens
    <3>. HIDE DEF Kept
    <3>. QED  BY <3>1
  <2>2. ASSUME NEW d \in M PROVE d + 1 \in M
    <3>. SUFFICES ASSUME NEW n \in 0 .. N, n + (d + 1) <= N PROVE Kept(n, d + 1)
      <4>. HIDE DEF Kept
      <4>. QED  OBVIOUS
    <3>. DEFINE i == n + d
    <3>1. d \in Nat /\ n \in Nat /\ i <= N /\ i \in 0 .. N /\ i + 1 \in 1 .. N /\ i + 1 \in 0 .. N /\ (i + 1) - 1 = i /\ n + (d + 1) = i + 1
      BY <1>0
    <3>2. Kept(n, d)
      <4>. HIDE DEF Kept
      <4>. QED  BY <3>1
    <3>. HIDE DEF i
    <3>3. W[i + 1] = ReadOn(m, W[i]) /\ IsRead(W[i]) /\ IsRead(W[i + 1]) /\ IsRead(W[n])
      BY <1>0, <1>1, <3>1
    <3>4. BeginsWith(W[i].tokens, W[n].tokens) /\ (Ended(W[n].tokens) => W[i].tokens = W[n].tokens)
      BY <3>2 DEF i
    <3>5. BeginsWith(W[i + 1].tokens, W[n].tokens)
      <4>1. BeginsWith(W[i + 1].tokens, W[i].tokens)
        BY <3>3, ReadOnAdds
      <4>. QED  BY <3>3, <3>4, <4>1, BeginsWithIsTransitive DEF IsRead
    <3>6. ASSUME Ended(W[n].tokens) PROVE W[i + 1].tokens = W[n].tokens
      <4>1. Ended(W[i].tokens)
        BY <3>4, <3>6
      <4>2. ReadOn(m, W[i]) = W[i]
        BY <4>1 DEF ReadOn, Ended
      <4>. QED  BY <3>3, <3>4, <3>6, <4>2
    <3>. QED  BY <3>1, <3>5, <3>6
  <2>. HIDE DEF M, Kept
  <2>3. M = Nat
    <3>1. M \subseteq Nat
      BY DEF M
    <3>. QED  BY <2>1, <2>2, <3>1, SetInduction
  <2>. QED  BY <2>3 DEF M
<1>3. ASSUME NEW n \in 0 .. N
      PROVE  BeginsWith(W[N].tokens, W[n].tokens) /\ (Ended(W[n].tokens) => W[N].tokens = W[n].tokens)
  <2>1. N - n \in Nat /\ n + (N - n) = N
    BY <1>0
  <2>2. Kept(n, N - n)
    <3>. HIDE DEF Kept
    <3>. QED  BY <1>0, <1>2, <2>1
  <2>. QED  BY <2>1, <2>2
<1>. QED  BY <1>0, <1>1, <1>3 DEF N

\* What another step of the reading adds comes next.
StepsOn(m, W, n) ==
  /\ n + 1 \in 0 .. MaxTokens /\ W[n + 1] = ReadOn(m, W[n])
  /\ W[n + 1].tokens = W[n].tokens => From(W, n + 1) = From(W, n)
  /\ \A y : W[n + 1].tokens = W[n].tokens \o <<y>> =>
       From(W, n) # <<>> /\ Head(From(W, n)) = y /\ Tail(From(W, n)) = From(W, n + 1)
  /\ \A y : W[n + 1].tokens = W[n].tokens \o <<y, EndToken>> => From(W, n) # <<>> /\ Head(From(W, n)) = y
  /\ W[n + 1].tokens = W[n].tokens \o <<EndToken>> => From(W, n + 1) = <<>>

\* There is another step until the end has been read.
LEMMA ComesNext ==
  ASSUME NEW k \in DOMAIN Prepared, NEW t \in Texts, NEW W, W = ReadingOf(Prepared[k], t),
         NEW n \in 0 .. MaxTokens, ~Ended(W[n].tokens)
  PROVE  StepsOn(Prepared[k], W, n)
<1>. DEFINE N == MaxTokens
            a == W[n].tokens
            b == W[n + 1].tokens
            all == W[N].tokens
<1>1. N \in Nat /\ n # N
  BY TokensAssumption, ReadingsFit
<1>2. n + 1 \in 0 .. N /\ n + 1 \in 1 .. N /\ (n + 1) - 1 = n
  BY <1>1
<1>3. W[n + 1] = ReadOn(Prepared[k], W[n])
  BY <1>2, ReadingSteps
<1>4. /\ AreTokens(a) /\ AreTokens(b) /\ AreTokens(all) /\ BeginsWith(all, b)
      /\ Ended(b) => all = b
  <2>1. N \in 0 .. N
    BY <1>1
  <2>2. IsRead(W[n]) /\ IsRead(W[n + 1]) /\ IsRead(W[N])
    BY <1>2, <2>1, ReadingsFit
  <2>3. BeginsWith(all, b) /\ (Ended(b) => all = b)
    BY <1>2, ReadingsFit
  <2>. QED  BY <2>2, <2>3, Zenon DEF IsRead
<1>. HIDE DEF a, b, all
<1>5. PICK T : a \in Seq(T)
  BY <1>4 DEF AreTokens
<1>6. PICK U : all \in Seq(U)
  BY <1>4 DEF AreTokens
<1>7. From(W, n) = SubSeq(all, Len(a) + 1, Len(all)) /\ From(W, n + 1) = SubSeq(all, Len(b) + 1, Len(all))
  BY DEF From, a, b, all
<1>8. Len(a) \in Nat /\ Len(all) \in Nat
  BY <1>5, <1>6
<1>9. ASSUME NEW y, b = a \o <<y>> PROVE Len(b) = Len(a) + 1 /\ b[Len(a) + 1] = y
  <2>1. a \in Seq(T \cup {y}) /\ <<y>> \in Seq(T \cup {y})
    BY <1>5, SeqMonotonic
  <2>. QED  BY <1>9, <2>1
<1>10. ASSUME NEW y, NEW z, b = a \o <<y, z>> PROVE Len(b) = Len(a) + 2 /\ b[Len(a) + 1] = y
  <2>. DEFINE V == T \cup {y, z}
  <2>1. a \in Seq(V)
    BY <1>5, SeqMonotonic
  <2>2. y \in V /\ z \in V
    OBVIOUS
  <2>. HIDE DEF V
  <2>3. <<y, z>> \in Seq(V)
    BY <2>2
  <2>. QED  BY <1>10, <2>1, <2>3
<1>11. ASSUME NEW y, Len(b) > Len(a), Len(b) \in Nat, b[Len(a) + 1] = y PROVE From(W, n) # <<>> /\ Head(From(W, n)) = y
  <2>1. Len(a) + 1 <= Len(all) /\ all[Len(a) + 1] = y
    BY <1>4, <1>8, <1>11 DEF BeginsWith
  <2>2. /\ SubSeq(all, Len(a) + 1, Len(all)) \in Seq(U)
        /\ Len(SubSeq(all, Len(a) + 1, Len(all))) >= 1
        /\ SubSeq(all, Len(a) + 1, Len(all))[1] = all[Len(a) + 1]
    BY <1>6, <1>8, <2>1
  <2>. DEFINE rest == SubSeq(all, Len(a) + 1, Len(all))
  <2>3. rest \in Seq(U) /\ Len(rest) >= 1 /\ rest[1] = y
    BY <2>1, <2>2
  <2>4. From(W, n) = rest
    BY <1>7
  <2>. HIDE DEF rest
  <2>. QED  BY <2>3, <2>4
<1>12. ASSUME NEW y, b = a \o <<y>>
       PROVE  From(W, n) # <<>> /\ Head(From(W, n)) = y /\ Tail(From(W, n)) = From(W, n + 1)
  <2>1. Len(b) = Len(a) + 1 /\ From(W, n) # <<>> /\ Head(From(W, n)) = y
    BY <1>8, <1>9, <1>11, <1>12
  <2>2. Len(b) <= Len(all)
    BY <1>4 DEF BeginsWith
  <2>3. Tail(SubSeq(all, Len(a) + 1, Len(all))) = SubSeq(all, Len(a) + 2, Len(all))
    BY <1>6, <1>8, <2>1, <2>2
  <2>4. Len(b) + 1 = Len(a) + 2
    BY <1>8, <2>1
  <2>. QED  BY <1>7, <2>1, <2>3, <2>4
<1>13. ASSUME NEW y, b = a \o <<y, EndToken>> PROVE From(W, n) # <<>> /\ Head(From(W, n)) = y
  BY <1>8, <1>10, <1>11, <1>13
<1>14. ASSUME b = a \o <<EndToken>> PROVE From(W, n + 1) = <<>>
  <2>1. Len(b) = Len(a) + 1 /\ b[Len(b)] = EndToken
    BY <1>8, <1>9, <1>14
  <2>2. b # <<>>
    BY <1>8, <2>1
  <2>3. all = b
    BY <1>4, <2>1, <2>2 DEF Ended, Last
  <2>. QED  BY <1>6, <1>7, <1>8, <2>3
<1>15. b = a => From(W, n + 1) = From(W, n)
  BY <1>7
<1>. QED  BY <1>2, <1>3, <1>12, <1>13, <1>14, <1>15 DEF a, b, N, StepsOn

-----------------------------------------------------------------------------
(* What next_token() does next *)

Here == [state |-> state, streams |-> streams]

\* The text has been read up to where the tokenizer stands, and a list holds the
\* tokens that are still to come.
AheadOf(W, context, rest) ==
  \E n \in 0 .. MaxTokens : W[n].context = context /\ ~Ended(W[n].tokens) /\ rest = From(W, n)

Ahead(rest) == AheadOf(ReadingOf(tokenizer, content), Here, rest)

\* The stream on top, if any, has been read to its end.
Ends == streams # <<>> => TopStream = [text |-> <<>>, at_end |-> TRUE]

LEMMA EndsWhereMarked ==
  ASSUME NEW C, Inv(C), streams # <<>> => TopStream.at_end
  PROVE  Ends
<1>. SUFFICES ASSUME streams # <<>> PROVE TopStream = [text |-> <<>>, at_end |-> TRUE]
  BY DEF Ends
<1>1. Len(streams) \in DOMAIN streams /\ TopStream \in Stream(C) /\ TopStream.at_end
  BY DEF Inv, GoodStreams, TopStream
<1>2. TopStream.text = <<>>
  BY <1>1 DEF Inv, GoodStreams, EndedIsEmpty, TopStream
<1>. QED  BY <1>1, <1>2 DEF Stream

\* A step of the reading where the tokenizer stands.
LEMMA ReadingOn ==
  ASSUME machine \in DOMAIN Prepared, content \in Texts, NEW rest, Ahead(rest),
         NEW W, W = ReadingOf(tokenizer, content)
  PROVE  \E n \in 0 .. MaxTokens :
           /\ W[n].context = Here /\ IsRead(W[n]) /\ ~Ended(W[n].tokens) /\ rest = From(W, n)
           /\ StepsOn(tokenizer, W, n)
<1>1. PICK n \in 0 .. MaxTokens : W[n].context = Here /\ ~Ended(W[n].tokens) /\ rest = From(W, n)
  BY DEF Ahead, AheadOf
<1>2. tokenizer = Prepared[machine]
  BY DEF tokenizer
<1>3. IsRead(W[n])
  BY <1>2, ReadingsFit
<1>4. StepsOn(tokenizer, W, n)
  BY <1>1, <1>2, ComesNext
<1>. QED  BY <1>1, <1>3, <1>4

\* What ReadOn adds to what has been read.
LEMMA AddsTokens ==
  ASSUME NEW x, IsRead(x), NEW more
  PROVE  [x EXCEPT !.tokens = @ \o more].tokens = x.tokens \o more
<1>1. x = [context |-> x.context, tokens |-> x.tokens]
  BY Zenon DEF IsRead
<1>2. PICK c, list : x = [context |-> c, tokens |-> list]
  BY <1>1, Zenon
<1>. QED  BY <1>2

LEMMA EndIsNext ==
  ASSUME NEW C, Inv(C), content \in Texts, NEW rest, Ahead(rest), streams # <<>> => TopStream.at_end
  PROVE  rest # <<>> /\ Head(rest) = EndToken /\ Tail(rest) = <<>>
<1>. DEFINE W == ReadingOf(tokenizer, content)
<1>0. machine \in DOMAIN Prepared
  BY DEF Inv, TypeOK
<1>1. PICK n \in 0 .. MaxTokens :
        /\ W[n].context = Here /\ IsRead(W[n]) /\ ~Ended(W[n].tokens) /\ rest = From(W, n)
        /\ StepsOn(tokenizer, W, n)
  BY <1>0, ReadingOn
<1>. HIDE DEF W
<1>on. /\ n + 1 \in 0 .. MaxTokens /\ W[n + 1] = ReadOn(tokenizer, W[n])
       /\ W[n + 1].tokens = W[n].tokens => From(W, n + 1) = From(W, n)
       /\ \A y : W[n + 1].tokens = W[n].tokens \o <<y>> =>
            From(W, n) # <<>> /\ Head(From(W, n)) = y /\ Tail(From(W, n)) = From(W, n + 1)
       /\ \A y : W[n + 1].tokens = W[n].tokens \o <<y, EndToken>> => From(W, n) # <<>> /\ Head(From(W, n)) = y
       /\ W[n + 1].tokens = W[n].tokens \o <<EndToken>> => From(W, n + 1) = <<>>
  BY <1>1 DEF StepsOn
<1>2. IsAtEnd(W[n].context)
  BY <1>1 DEF IsAtEnd, Here, TopOf, TopStream
<1>3. ReadOn(tokenizer, W[n]) = [W[n] EXCEPT !.tokens = @ \o <<EndToken>>]
  BY <1>1, <1>2 DEF ReadOn, Ended
<1>4. W[n + 1].tokens = W[n].tokens \o <<EndToken>>
  BY <1>1, <1>on, <1>3, AddsTokens
<1>. QED  BY <1>1, <1>on, <1>4

LEMMA FailureIsNext ==
  ASSUME NEW C, Inv(C), content \in Texts, NEW rest, Ahead(rest), streams # <<>>, ~TopStream.at_end,
         MatchedPatterns = {}
  PROVE  rest # <<>> /\ Head(rest) = Failure
<1>. DEFINE W == ReadingOf(tokenizer, content)
<1>0. machine \in DOMAIN Prepared
  BY DEF Inv, TypeOK
<1>1. PICK n \in 0 .. MaxTokens :
        /\ W[n].context = Here /\ IsRead(W[n]) /\ ~Ended(W[n].tokens) /\ rest = From(W, n)
        /\ StepsOn(tokenizer, W, n)
  BY <1>0, ReadingOn
<1>. HIDE DEF W
<1>on. /\ n + 1 \in 0 .. MaxTokens /\ W[n + 1] = ReadOn(tokenizer, W[n])
       /\ W[n + 1].tokens = W[n].tokens => From(W, n + 1) = From(W, n)
       /\ \A y : W[n + 1].tokens = W[n].tokens \o <<y>> =>
            From(W, n) # <<>> /\ Head(From(W, n)) = y /\ Tail(From(W, n)) = From(W, n + 1)
       /\ \A y : W[n + 1].tokens = W[n].tokens \o <<y, EndToken>> => From(W, n) # <<>> /\ Head(From(W, n)) = y
       /\ W[n + 1].tokens = W[n].tokens \o <<EndToken>> => From(W, n + 1) = <<>>
  BY <1>1 DEF StepsOn
<1>2. ~IsAtEnd(W[n].context)
  BY <1>1 DEF IsAtEnd, Here, TopOf, TopStream
<1>3. BestIn(tokenizer, Here) = {}
  BY DEF BestIn, Here, TopOf, TopStream, MatchedPatterns, Active, TokenAt
<1>4. ReadOn(tokenizer, W[n]) = [W[n] EXCEPT !.tokens = @ \o <<Failure, EndToken>>]
  BY <1>1, <1>2, <1>3 DEF ReadOn, Ended
<1>5. W[n + 1].tokens = W[n].tokens \o <<Failure, EndToken>>
  BY <1>1, <1>on, <1>4, AddsTokens
<1>. QED  BY <1>1, <1>on, <1>5

\* The longest match that is earliest in the list is the token that next_token() has
\* chosen, at the same place or as an equal one.
LEMMA ChosenIsBest ==
  ASSUME NEW C, SizesOK, BestInv(C), Chosen
  PROVE  LET p == CHOOSE p \in BestIn(tokenizer, Here) : TRUE
         IN  BestIn(tokenizer, Here) # {} /\ Active[p] = Active[best]
<1>1. /\ Inv(C) /\ best \in MatchedPatterns /\ MatchedPatterns \subseteq DOMAIN Active
      /\ \A p \in MatchedPatterns : Beats(best, p)
  <2>1. MatchedPatterns \ matched = MatchedPatterns /\ BestSoFar /\ Inv(C)
    BY DEF Chosen, BestInv
  <2>. QED  BY <2>1, ChosenStream DEF BestSoFar, Beats, MatchedPatterns
<1>2. /\ DOMAIN Active \subseteq Nat \ {0}
      /\ \A p, q \in DOMAIN Active : p < q => Active[p] <= Active[q]
      /\ \A p \in DOMAIN Active : Active[p] \in Nat /\ LengthAt(p) \in Nat
  BY <1>1, ActiveList, ElementOfSeq DEF Inv, TypeOK, SizesOK, LengthAt
<1>3. BestIn(tokenizer, Here) =
        {p \in MatchedPatterns : \A q \in MatchedPatterns : LengthAt(q) < LengthAt(p) \/ (LengthAt(q) = LengthAt(p) /\ p <= q)}
  BY DEF BestIn, Here, TopOf, TopStream, MatchedPatterns, Active, LengthAt, TokenAt
<1>. DEFINE Longest == {p \in MatchedPatterns : LengthAt(p) = LengthAt(best)}
<1>4. PICK c \in Longest : \A q \in Longest : c <= q
  <2>1. Longest \subseteq Nat /\ Longest # {}
    BY <1>1, <1>2
  <2>. QED  BY <2>1, LeastNumber
<1>5. c \in BestIn(tokenizer, Here)
  <2>1. ASSUME NEW q \in MatchedPatterns PROVE LengthAt(q) < LengthAt(c) \/ (LengthAt(q) = LengthAt(c) /\ c <= q)
    <3>1. LengthAt(c) = LengthAt(best) /\ Beats(best, q)
      BY <1>1
    <3>. QED  BY <1>4, <3>1 DEF Beats
  <2>. QED  BY <1>3, <2>1
<1>6. ASSUME NEW p \in BestIn(tokenizer, Here) PROVE Active[p] = Active[best]
  <2>1. p \in MatchedPatterns /\ (LengthAt(best) < LengthAt(p) \/ (LengthAt(best) = LengthAt(p) /\ p <= best))
    BY <1>1, <1>3
  <2>2. LengthAt(best) = LengthAt(p) /\ p <= best /\ Active[best] <= Active[p]
    BY <1>1, <1>2, <2>1 DEF Beats
  <2>3. Active[p] <= Active[best]
    BY <1>1, <1>2, <2>1, <2>2
  <2>. QED  BY <1>1, <1>2, <2>1, <2>2, <2>3
<1>. QED  BY <1>5, <1>6

LEMMA LastReplaced ==
  ASSUME NEW T, NEW S \in Seq(T), S # <<>>, NEW y \in T
  PROVE  [S EXCEPT ![Len(S)] = y] = Append(SubSeq(S, 1, Len(S) - 1), y)
<1>. DEFINE n == Len(S)
            a == [S EXCEPT ![n] = y]
            b == Append(SubSeq(S, 1, n - 1), y)
<1>1. n \in Nat \ {0} /\ DOMAIN S = 1 .. n
  OBVIOUS
<1>2. a = [k \in 1 .. n |-> IF k = n THEN y ELSE S[k]]
  BY <1>1
<1>3. SubSeq(S, 1, n - 1) \in Seq(T) /\ Len(SubSeq(S, 1, n - 1)) = n - 1
      /\ \A k \in 1 .. n - 1 : SubSeq(S, 1, n - 1)[k] = S[k]
  BY <1>1
<1>4. b \in Seq(T) /\ Len(b) = n /\ \A k \in 1 .. n : b[k] = IF k = n THEN y ELSE S[k]
  <2>. DEFINE low == SubSeq(S, 1, n - 1)
  <2>. HIDE DEF low, n
  <2>. QED  BY <1>1, <1>3 DEF low
<1>. HIDE DEF a, b, n
<1>5. b = [k \in 1 .. n |-> IF k = n THEN y ELSE S[k]]
  BY <1>1, <1>4
<1>. QED  BY <1>2, <1>5 DEF a, b, n

\* The token chosen comes next, if it has a symbol, and what is behind it after that.
LEMMA TokenIsNext ==
  ASSUME NEW C, SizesOK, TextsOver(C), BestInv(C), Chosen, content \in Texts, NEW rest, Ahead(rest),
         TokenAt(best).action.kind # "Throw"
  PROVE  LET chosen == TokenAt(best)
             value  == IF chosen.action.kind = "None" THEN NoValue ELSE Lexeme
             W      == ReadingOf(tokenizer, content)
         IN  IF chosen.symbol = <<>> THEN AheadOf(W, AfterActions(chosen), rest)
             ELSE /\ rest # <<>> /\ Head(rest) = [symbol |-> chosen.symbol[1], value |-> value]
                  /\ AheadOf(W, AfterActions(chosen), Tail(rest))
<1>. DEFINE W == ReadingOf(tokenizer, content)
            chosen == TokenAt(best)
            value == IF chosen.action.kind = "None" THEN NoValue ELSE Lexeme
<1>0. machine \in DOMAIN Prepared /\ Inv(C)
  BY DEF BestInv, Inv, TypeOK
<1>1. PICK n \in 0 .. MaxTokens :
        /\ W[n].context = Here /\ IsRead(W[n]) /\ ~Ended(W[n].tokens) /\ rest = From(W, n)
        /\ StepsOn(tokenizer, W, n)
  BY <1>0, ReadingOn
<1>2. streams # <<>> /\ ~TopStream.at_end /\ chosen.action.kind # "Throw" /\ chosen = tokenizer.tokens[Active[best]] /\ Active[best] \in DOMAIN tokenizer.tokens
  BY <1>0, ChosenStream
<1>. HIDE DEF W
<1>on. /\ n + 1 \in 0 .. MaxTokens /\ W[n + 1] = ReadOn(tokenizer, W[n])
       /\ W[n + 1].tokens = W[n].tokens => From(W, n + 1) = From(W, n)
       /\ \A y : W[n + 1].tokens = W[n].tokens \o <<y>> =>
            From(W, n) # <<>> /\ Head(From(W, n)) = y /\ Tail(From(W, n)) = From(W, n + 1)
       /\ \A y : W[n + 1].tokens = W[n].tokens \o <<y, EndToken>> => From(W, n) # <<>> /\ Head(From(W, n)) = y
       /\ W[n + 1].tokens = W[n].tokens \o <<EndToken>> => From(W, n + 1) = <<>>
  BY <1>1 DEF StepsOn
<1>3. ~IsAtEnd(W[n].context)
  BY <1>1, <1>2 DEF IsAtEnd, Here, TopOf, TopStream
<1>4. BestIn(tokenizer, Here) # {} /\ tokenizer.tokens[tokenizer.active[Here.state][CHOOSE p \in BestIn(tokenizer, Here) : TRUE]] = chosen
  BY <1>2, ChosenIsBest DEF Here, Active
<1>5. MatchLength(chosen.pattern, TopOf(Here).text) = LengthAt(best) /\ TopOf(Here).text = TopStream.text
  BY DEF Here, TopOf, TopStream, LengthAt
<1>6. Behind(tokenizer, Here, chosen, LengthAt(best)) = AfterActions(chosen)
  <2>. DEFINE cut == [text |-> SubSeq(TopStream.text, LengthAt(best) + 1, Len(TopStream.text)), at_end |-> TopStream.text = <<>>]
  <2>1. streams \in Seq(Stream(C)) /\ Len(streams) \in Nat \ {0}
    BY <1>0, <1>2 DEF Inv, GoodStreams
  <2>2. [streams EXCEPT ![Len(streams)] = cut] = Append(Below, cut)
    <3>1. cut \in Stream(C)
      <4>1. TopStream.text \in Seq(C) /\ LengthAt(best) \in Nat
        BY <1>0, ChosenStream DEF Stream, SizesOK, LengthAt
      <4>. QED  BY <4>1 DEF Stream
    <3>. HIDE DEF cut
    <3>. QED  BY <1>2, <2>1, <3>1, LastReplaced DEF Below
  <2>. QED  BY <1>5, <2>2 DEF Behind, Here, AfterActions, Consumed
<1>. DEFINE more == IF chosen.symbol = <<>> THEN <<>> ELSE <<[symbol |-> chosen.symbol[1], value |-> value]>>
<1>7. W[n + 1] = [context |-> AfterActions(chosen), tokens |-> W[n].tokens \o more]
  <2>1. ReadOn(tokenizer, W[n]) =
          [context |-> Behind(tokenizer, Here, chosen, LengthAt(best)),
           tokens  |-> W[n].tokens \o more]
    <3>1. W[n].context = Here /\ ~(W[n].tokens # <<>> /\ Last(W[n].tokens) = EndToken)
      BY <1>1 DEF Ended
    <3>2. value = IF chosen.action.kind = "None" THEN NoValue ELSE SubSeq(TopOf(Here).text, 1, LengthAt(best))
      BY <1>5 DEF Lexeme
    <3>. HIDE DEF chosen, value
    <3>. QED  BY <1>2, <1>3, <1>4, <1>5, <3>1, <3>2 DEF ReadOn
  <2>. QED  BY <1>on, <1>6, <2>1
<1>. HIDE DEF chosen, value
<1>8. CASE chosen.symbol = <<>>
  <2>1. W[n].tokens \o <<>> = W[n].tokens
    BY <1>1 DEF IsRead, AreTokens
  <2>2. W[n + 1].tokens = W[n].tokens /\ W[n + 1].context = AfterActions(chosen)
    BY <1>7, <1>8, <2>1
  <2>3. AheadOf(W, AfterActions(chosen), rest)
    BY <1>1, <1>on, <2>2 DEF AheadOf
  <2>. QED  BY <1>8, <2>3 DEF chosen, W
<1>9. CASE chosen.symbol # <<>>
  <2>. DEFINE y == [symbol |-> chosen.symbol[1], value |-> value]
  <2>1. W[n + 1].tokens = W[n].tokens \o <<y>> /\ W[n + 1].context = AfterActions(chosen)
    BY <1>7, <1>9
  <2>2. y # EndToken
    <3>1. chosen.symbol[1] # EndSymbol
      BY <1>0, <1>2, <1>9, ActiveList DEF Inv, TypeOK
    <3>. QED  BY <3>1 DEF EndToken
  <2>. HIDE DEF y
  <2>3. ~Ended(W[n + 1].tokens)
    <3>1. PICK T : W[n].tokens \in Seq(T)
      BY <1>1 DEF IsRead, AreTokens
    <3>2. W[n].tokens \in Seq(T \cup {y}) /\ <<y>> \in Seq(T \cup {y})
      BY <3>1, SeqMonotonic
    <3>3. Last(W[n].tokens \o <<y>>) = y
      BY <3>2 DEF Last
    <3>. QED  BY <2>1, <2>2, <3>3 DEF Ended
  <2>4. rest # <<>> /\ Head(rest) = y /\ Tail(rest) = From(W, n + 1)
    BY <1>1, <1>on, <2>1
  <2>5. AheadOf(W, AfterActions(chosen), Tail(rest))
    BY <1>1, <1>on, <2>1, <2>3, <2>4 DEF AheadOf
  <2>. QED  BY <1>9, <2>4, <2>5 DEF chosen, value, y, W
<1>. QED  BY <1>8, <1>9
-----------------------------------------------------------------------------
(* The inductive invariant of parse() over next_token() *)

\* While next_token() runs, parse() waits for it.
InCall == phase # "Idle" => token = <<>> /\ result = <<>> /\ outcome = P!Running

\* A token that next_token() has returned, and one that parse() remembers, came next
\* in the text, and the tokenizer stands behind it; @end is the last.
Tracks ==
  IF result # <<>>
    THEN /\ token = <<>>
         /\ result[1].symbol # Thrown =>
              /\ unread # <<>> /\ result[1] = Head(unread)
              /\ IF result[1].symbol = EndSymbol THEN Tail(unread) = <<>> /\ Ends
                 ELSE result[1].symbol = NoMatch \/ Ahead(Tail(unread))
  ELSE IF token # <<>> /\ token[1].symbol = EndSymbol THEN unread = <<>> /\ Ends
  ELSE Ahead(unread)

BothInv(C) ==
  /\ BestInv(C)
  /\ content \in Texts /\ InCall
  /\ outcome = P!Running /\ phase # "Stopped" => Tracks
  /\ outcome.kind = "Value" => unread = <<>> /\ Ends

\* Where a tokenizer stands is told by its state and its streams.
LEMMA SameAhead ==
  ASSUME UNCHANGED <<machine, state, streams, content>>
  PROVE  (\A rest : Ahead(rest)' = Ahead(rest)) /\ Ends' = Ends
<1>1. tokenizer' = tokenizer /\ Here' = Here
  BY DEF tokenizer, Here
<1>2. Ends' = Ends
  BY DEF Ends, TopStream
<1>3. ASSUME NEW rest PROVE Ahead(rest)' = Ahead(rest)
  BY <1>1 DEF Ahead, AheadOf
<1>. QED  BY <1>2, <1>3

\* All of a text is ahead when parse() begins.
LEMMA AllIsAhead ==
  ASSUME NEW k \in DOMAIN Prepared, NEW t \in Texts
  PROVE  AheadOf(ReadingOf(Prepared[k], t), [state |-> DefaultState, streams |-> <<StreamOf(t)>>],
                 Append(TextTokens[k][t], EndToken))
<1>. DEFINE W == ReadingOf(Prepared[k], t)
            all == AllTokens(Prepared[k], t)
<1>1. MaxTokens \in Nat /\ all # <<>> /\ Last(all) = EndToken /\ all = W[MaxTokens].tokens
  BY TokensAssumption DEF AllTokens
<1>2. TextTokens[k][t] = Front(all)
  BY DEF TextTokens
<1>3. W[0] = Nothing(t)
  BY ReadingSteps
<1>4. IsRead(W[MaxTokens])
  BY <1>1, ReadingsFit
<1>. HIDE DEF all
<1>5. PICK T : all \in Seq(T)
  BY <1>1, <1>4 DEF IsRead, AreTokens
<1>6. Append(Front(all), EndToken) = all
  <2>1. all[Len(all)] = EndToken /\ Len(all) \in Nat \ {0}
    BY <1>1, <1>5 DEF Last
  <2>2. Append(SubSeq(all, 1, Len(all) - 1), all[Len(all)]) = all
    BY <1>5, <2>1
  <2>. QED  BY <2>1, <2>2 DEF Front
<1>. HIDE DEF W
<1>7. From(W, 0) = all
  <2>1. W[0].tokens = <<>>
    BY <1>3 DEF Nothing
  <2>2. SubSeq(all, 1, Len(all)) = all /\ Len(<<>>) + 1 = 1
    BY <1>5
  <2>. QED  BY <1>1, <2>1, <2>2 DEF From
<1>8. W[0].context = [state |-> DefaultState, streams |-> <<StreamOf(t)>>] /\ ~Ended(W[0].tokens)
  BY <1>3 DEF Nothing, Ended
<1>9. 0 \in 0 .. MaxTokens
  BY <1>1
<1>. QED  BY <1>2, <1>6, <1>7, <1>8, <1>9 DEF AheadOf, W

\* The tokenizer stands where the actions of the token chosen leave it.
LEMMA HereAfter ==
  ASSUME NEW C, SizesOK, TextsOver(C), Inv(C), Chosen, Runs(TokenAt(best))
  PROVE  Here' = AfterActions(TokenAt(best))
<1>. DEFINE first == EffectOn(Consumed, tokenizer.globalAction)
            chosen == TokenAt(best)
<1>1. GoodStreams(C, Consumed.streams) /\ Consumed = [state |-> Consumed.state, streams |-> Consumed.streams]
  BY ConsumedStreams
<1>2. PushesOver(C, tokenizer.globalAction) /\ PushesOver(C, chosen.action)
  BY ChosenStream DEF TextsOver, tokenizer, Prepared, Inv, TypeOK
<1>3. GoodStreams(C, first.streams) /\ first = [state |-> first.state, streams |-> first.streams]
  BY <1>1, <1>2, StreamsAfterEffect
<1>. HIDE DEF first, chosen
<1>. DEFINE after == EffectOn(first, chosen.action)
<1>4. after = [state |-> after.state, streams |-> after.streams]
  BY <1>2, <1>3, StreamsAfterEffect
<1>5. AfterActions(TokenAt(best)) = after
  BY DEF AfterActions, first, chosen
<1>. HIDE DEF after
<1>. QED  BY <1>4, <1>5 DEF Runs, Here

LEMMA BestInvStep ==
  ASSUME NEW C, SizesOK, TiesInOrder, TextsOver(C), BestInv(C), [Next]_vars
  PROVE  BestInv(C)'
<1>1. Inv(C)'
  BY InvStep DEF BestInv
<1>2. phase' = "Comparing" => BestSoFar'
  BY BestStep
<1>. QED  BY <1>1, <1>2 DEF BestInv

LEMMA BothInitInv ==
  ASSUME NEW C, TextsOver(C), BothInit
  PROVE  BothInv(C)
<1>1. state \in DOMAIN tokenizer.active
  BY TokenizersAssumption DEF TokenizersAssumption, BothInit, Prepared, tokenizer
<1>2. TypeOK
  BY <1>1 DEF BothInit, TypeOK
<1>3. GoodStreams(C, streams)
  <2>1. content \in Seq(C)
    BY DEF BothInit, TextsOver
  <2>2. GoodStreams(C, <<>>) /\ streams = Append(<<>>, StreamOf(content))
    BY DEF GoodStreams, EndedIsEmpty, BothInit
  <2>. QED  BY <2>1, <2>2, StreamsPushed
<1>4. BestInv(C)
  BY <1>2, <1>3 DEF BestInv, Inv, BothInit
<1>5. Ahead(unread)
  <2>1. Here = [state |-> DefaultState, streams |-> <<StreamOf(content)>>] /\ tokenizer = Prepared[machine]
    BY DEF Here, BothInit, tokenizer
  <2>. QED  BY <2>1, AllIsAhead DEF Ahead, BothInit
<1>6. Tracks
  BY <1>5 DEF Tracks, BothInit
<1>. QED  BY <1>4, <1>6 DEF BothInv, InCall, BothInit, P!Running

LEMMA BeginStep ==
  ASSUME NEW C, SizesOK, TiesInOrder, TextsOver(C), BothInv(C), NEW t \in Texts, Begin(t)
  PROVE  BothInv(C)'
<1>1. Parse(t) /\ content' = t /\ token' = <<>> /\ outcome' = P!Running /\ unread' = Append(TextTokens[machine][t], EndToken)
  BY DEF Begin
<1>2. BestInv(C)'
  <2>1. Next
    BY <1>1 DEF Next, User
  <2>. QED  BY <2>1, BestInvStep DEF BothInv
<1>3. Ahead(unread)'
  <2>1. machine \in DOMAIN Prepared
    BY DEF BothInv, BestInv, Inv, TypeOK
  <2>2. Here' = [state |-> DefaultState, streams |-> <<StreamOf(t)>>] /\ tokenizer' = Prepared[machine]
    BY <1>1 DEF Here, Parse, tokenizer
  <2>. QED  BY <1>1, <2>1, <2>2, AllIsAhead DEF Ahead
<1>4. Tracks'
  BY <1>1, <1>3 DEF Tracks, Parse
<1>. QED  BY <1>1, <1>2, <1>4 DEF BothInv, InCall, Parse, P!Running

LEMMA TokenizeStep ==
  ASSUME NEW C, SizesOK, TiesInOrder, TextsOver(C), NoMatch # EndSymbol, BothInv(C), Tokenize
  PROVE  BothInv(C)'
<1>0. /\ Loop /\ UNCHANGED <<content, token, stack, outcome, unread>>
      /\ phase \in {"Looping", "Comparing"} /\ machine' = machine
  BY DEF Tokenize, Loop, parserVars, ReturnEnd, ReturnNothing, Reading, Match, Compare, Skip, ReturnToken, Throw,
         UnknownState, Chosen, Return
<1>1. BestInv(C)'
  <2>1. Next
    BY <1>0 DEF Next
  <2>. QED  BY <2>1, BestInvStep DEF BothInv
<1>2. Inv(C) /\ BestInv(C) /\ content \in Texts /\ token = <<>> /\ result = <<>> /\ outcome = P!Running /\ Ahead(unread)
  BY <1>0 DEF BothInv, BestInv, InCall, Tracks
<1>3. SUFFICES /\ phase' # "Idle" => result' = <<>>
               /\ phase' # "Stopped" => Tracks'
  BY <1>0, <1>1, <1>2 DEF BothInv, InCall, P!Running
<1>4. ASSUME UNCHANGED <<state, streams>> PROVE (\A rest : Ahead(rest)' = Ahead(rest)) /\ Ends' = Ends
  BY <1>0, <1>4, SameAhead
<1>5. CASE ReturnEnd
  <2>1. streams # <<>> => TopStream.at_end
    BY <1>5 DEF ReturnEnd
  <2>2. unread # <<>> /\ Head(unread) = EndToken /\ Tail(unread) = <<>>
    BY <1>2, <2>1, EndIsNext
  <2>3. Ends'
    BY <1>2, <1>4, <1>5, <2>1, EndsWhereMarked DEF ReturnEnd, streamVars
  <2>4. phase' = "Idle" /\ result' = <<EndToken>>
    BY <1>5 DEF ReturnEnd, Return, EndToken
  <2>. QED  BY <1>0, <1>2, <2>2, <2>3, <2>4 DEF Tracks, EndToken
<1>6. CASE ReturnNothing
  <2>1. unread # <<>> /\ Head(unread) = Failure
    BY <1>2, <1>6, FailureIsNext DEF ReturnNothing, Reading
  <2>2. phase' = "Idle" /\ result' = <<Failure>>
    BY <1>6 DEF ReturnNothing, Return, Failure
  <2>. QED  BY <1>0, <1>2, <2>1, <2>2 DEF Tracks, Failure
<1>7. ASSUME Match \/ \E p \in matched : Compare(p) PROVE phase' # "Idle" /\ result' = <<>> /\ Tracks'
  <2>1. UNCHANGED <<state, streams, result>> /\ phase' = "Comparing"
    BY <1>0, <1>7 DEF Match, Compare, streamVars, Loop
  <2>2. Ahead(unread)'
    BY <1>0, <1>2, <1>4, <2>1
  <2>. QED  BY <1>0, <1>2, <2>1, <2>2 DEF Tracks
<1>8. CASE Skip
  <2>1. Here' = AfterActions(TokenAt(best)) /\ tokenizer' = tokenizer
    BY <1>0, <1>2, <1>8, HereAfter DEF Skip, tokenizer
  <2>2. AheadOf(ReadingOf(tokenizer, content), AfterActions(TokenAt(best)), unread)
    BY <1>2, <1>8, TokenIsNext DEF Skip
  <2>3. Ahead(unread)'
    BY <1>0, <2>1, <2>2 DEF Ahead
  <2>4. result' = <<>> /\ phase' = "Looping"
    BY <1>2, <1>8 DEF Skip
  <2>. QED  BY <1>0, <1>2, <2>3, <2>4 DEF Tracks
<1>9. CASE ReturnToken
  <2>. DEFINE chosen == TokenAt(best)
              y == [symbol |-> chosen.symbol[1], value |-> IF chosen.action.kind = "None" THEN NoValue ELSE Lexeme]
  <2>1. Here' = AfterActions(chosen) /\ tokenizer' = tokenizer
    BY <1>0, <1>2, <1>9, HereAfter DEF ReturnToken, tokenizer
  <2>2. /\ unread # <<>> /\ Head(unread) = y
        /\ AheadOf(ReadingOf(tokenizer, content), AfterActions(chosen), Tail(unread))
    BY <1>2, <1>9, TokenIsNext DEF ReturnToken
  <2>3. Ahead(Tail(unread))'
    BY <1>0, <2>1, <2>2 DEF Ahead
  <2>4. result' = <<y>> /\ phase' = "Idle"
    BY <1>9 DEF ReturnToken, Return
  <2>5. y.symbol # EndSymbol
    BY <1>2, <1>9, ChosenStream, ActiveList DEF ReturnToken, Inv, TypeOK
  <2>. HIDE DEF y
  <2>. QED  BY <1>0, <1>2, <2>2, <2>3, <2>4, <2>5 DEF Tracks
<1>10. CASE Throw
  <2>1. result'[1].symbol = Thrown /\ phase' = "Idle" /\ result' # <<>>
    BY <1>10 DEF Throw, Return
  <2>. QED  BY <1>0, <1>2, <2>1 DEF Tracks
<1>11. CASE UnknownState
  BY <1>2, <1>11 DEF UnknownState
<1>. QED  BY <1>0, <1>5, <1>6, <1>7, <1>8, <1>9, <1>10, <1>11 DEF Loop

LEMMA AskStep ==
  ASSUME NEW C, SizesOK, TiesInOrder, TextsOver(C), BothInv(C), Ask
  PROVE  BothInv(C)'
<1>1. /\ Call /\ token = <<>> /\ result = <<>> /\ result' = <<>> /\ outcome = P!Running /\ phase = "Idle"
      /\ UNCHANGED <<machine, state, streams, content, token, stack, outcome, unread>>
  BY DEF Ask, Call, parserVars, streamVars
<1>2. BestInv(C)'
  <2>1. Next
    BY <1>1 DEF Next, User
  <2>. QED  BY <2>1, BestInvStep DEF BothInv
<1>3. Ahead(unread)'
  <2>1. Ahead(unread)
    BY <1>1 DEF BothInv, Tracks
  <2>. QED  BY <1>1, <2>1, SameAhead
<1>4. Tracks'
  BY <1>1, <1>3 DEF Tracks
<1>. QED  BY <1>1, <1>2, <1>4 DEF BothInv, InCall, P!Running

\* What parse() does alone leaves the tokenizer as it is.
LEMMA SameBest ==
  ASSUME NEW C, BestInv(C), UNCHANGED <<machine, state, streams, phase, matched, best>>, result' \in {<<>>, result}
  PROVE  BestInv(C)'
<1>1. TypeOK'
  BY SameContext DEF TypeOK, BestInv, Inv, ResultOK
<1>2. Inv(C)'
  BY <1>1 DEF BestInv, Inv, GoodStreams, EndedIsEmpty
<1>3. LengthAt(best)' = LengthAt(best)
  BY SameContext DEF LengthAt, TokenAt
<1>. QED  BY <1>2, <1>3, SameContext DEF BestInv, BestSoFar

LEMMA TakeStep ==
  ASSUME NEW C, BothInv(C), Take
  PROVE  BothInv(C)'
<1>1. /\ outcome = P!Running /\ phase = "Idle" /\ result # <<>> /\ result' = <<>>
      /\ UNCHANGED <<content, machine, state, streams, phase, matched, best>>
  BY DEF Take
<1>2. BestInv(C)'
  BY <1>1, SameBest DEF BothInv
<1>3. (\A rest : Ahead(rest)' = Ahead(rest)) /\ Ends' = Ends
  BY <1>1, SameAhead
<1>4. Tracks
  BY <1>1 DEF BothInv
<1>5. CASE result[1].symbol = Thrown
  <2>1. outcome' = [kind |-> "Exception"]
    BY <1>5 DEF Take, Exception
  <2>. QED  BY <1>1, <1>2, <2>1 DEF BothInv, InCall, P!Running
<1>6. CASE result[1].symbol # Thrown /\ result[1].symbol = NoMatch
  <2>1. outcome' = P!SyntaxError(NoMatch, P!Expected)
    BY <1>6 DEF Take, P!Receive
  <2>2. outcome'.kind = "SyntaxError"
    BY <2>1 DEF P!SyntaxError
  <2>. QED  BY <1>1, <1>2, <2>2 DEF BothInv, InCall, P!Running
<1>7. CASE result[1].symbol # Thrown /\ result[1].symbol # NoMatch
  <2>1. token' = <<result[1]>> /\ outcome' = outcome /\ unread' = Tail(unread)
    BY <1>7 DEF Take, P!Receive
  <2>2. IF result[1].symbol = EndSymbol THEN Tail(unread) = <<>> /\ Ends ELSE Ahead(Tail(unread))
    BY <1>1, <1>4, <1>7 DEF Tracks
  <2>3. IF token'[1].symbol = EndSymbol THEN unread' = <<>> /\ Ends' ELSE Ahead(unread)'
    <3>1. CASE result[1].symbol = EndSymbol
      BY <1>3, <2>1, <2>2, <3>1
    <3>2. CASE result[1].symbol # EndSymbol
      <4>1. PICK rest : rest = Tail(unread)
        OBVIOUS
      <4>2. Ahead(rest)'
        <5>1. Ahead(rest)
          BY <2>2, <3>2, <4>1
        <5>. QED  BY <1>3, <5>1
      <4>3. Ahead(unread)'
        BY <2>1, <4>1, <4>2 DEF Ahead
      <4>. QED  BY <2>1, <3>2, <4>3
    <3>. QED  BY <3>1, <3>2
  <2>4. Tracks'
    BY <1>1, <2>1, <2>3 DEF Tracks
  <2>. QED  BY <1>1, <1>2, <2>1, <2>4 DEF BothInv, InCall, P!Running
<1>. QED  BY <1>5, <1>6, <1>7

\* With @end a parser accepts, and it shifts nothing but other tokens.
LEMMA WhatTokensDo ==
  ASSUME TablesFit, machine \in DOMAIN Prepared, P!HasAction(token[1].symbol)
  PROVE  /\ P!ActionOf(token[1].symbol).kind = "Shift" => token[1].symbol # EndSymbol
         /\ P!ActionOf(token[1].symbol).kind = "Accept" => token[1].symbol = EndSymbol
<1>. DEFINE t == Tables[machine]
            key == P!EntryOf(token[1].symbol)
<1>1. P!TableOK(t)
  BY ParsersAssumption DEF TablesFit, Prepared
<1>2. key \in DOMAIN t.action /\ P!ActionOf(token[1].symbol) = t.action[key] /\ key[2] = token[1].symbol
  BY DEF P!HasAction, P!ActionOf, P!EntryOf, P!table, P!Prepared, PreparedTables
<1>. HIDE DEF t, key
<1>3. P!ActionFits(t, key[1], key[2], t.action[key])
  BY <1>1, <1>2 DEF P!TableOK
<1>. QED  BY <1>2, <1>3 DEF P!ActionFits, P!EndSymbol, EndSymbol

LEMMA TakeTurnStep ==
  ASSUME NEW C, TablesFit, BothInv(C), TakeTurn
  PROVE  BothInv(C)'
<1>1. /\ P!Turn /\ outcome = P!Running /\ token # <<>>
      /\ UNCHANGED <<content, machine, state, streams, phase, matched, best, result, unread>>
  BY DEF TakeTurn, P!Turn, P!Fail, P!Reduce, P!Shift, P!Accept, P!Does, P!Remembers, streamVars, loopVars
<1>2. BestInv(C)'
  BY <1>1, SameBest DEF BothInv
<1>3. phase = "Idle" /\ result = <<>> /\ (IF token[1].symbol = EndSymbol THEN unread = <<>> /\ Ends ELSE Ahead(unread))
  BY <1>1 DEF BothInv, InCall, Tracks
<1>4. Ends' = Ends /\ (Ahead(unread) => Ahead(unread)')
  BY <1>1, SameAhead
<1>5. machine \in DOMAIN Prepared
  BY DEF BothInv, BestInv, Inv, TypeOK
<1>6. SUFFICES /\ outcome' = P!Running => Tracks'
               /\ outcome'.kind = "Value" => unread = <<>> /\ Ends
  BY <1>1, <1>2, <1>3, <1>4 DEF BothInv, InCall
<1>7. CASE P!Fail
  BY <1>7 DEF P!Fail, P!SyntaxError, P!Running
<1>8. CASE P!Reduce
  <2>1. token' = token /\ outcome' \in {outcome, P!StackTooSmall, P!Empty}
    BY <1>8 DEF P!Reduce, P!ReduceBy, P!ReduceRule
  <2>2. outcome'.kind # "Value"
    BY <1>1, <2>1 DEF P!StackTooSmall, P!Empty, P!Running
  <2>. QED  BY <1>1, <1>3, <1>4, <2>1, <2>2 DEF Tracks
<1>9. CASE P!Shift
  <2>1. token' = <<>> /\ outcome' = outcome /\ token[1].symbol # EndSymbol
    BY <1>5, <1>9, WhatTokensDo DEF P!Shift, P!Does
  <2>. QED  BY <1>1, <1>3, <1>4, <2>1 DEF Tracks, P!Running
<1>10. CASE P!Accept
  <2>1. outcome'.kind = "Value" /\ token[1].symbol = EndSymbol
    BY <1>5, <1>10, WhatTokensDo DEF P!Accept, P!Does, P!Returned
  <2>. QED  BY <1>3, <2>1 DEF P!Running
<1>. QED  BY <1>1, <1>7, <1>8, <1>9, <1>10 DEF P!Turn

LEMMA BothInvStep ==
  ASSUME NEW C, SizesOK, TiesInOrder, TextsOver(C), TablesFit, NoMatch # EndSymbol, BothInv(C), [BothNext]_allVars
  PROVE  BothInv(C)'
<1>1. ASSUME NEW t \in Texts, Begin(t) PROVE BothInv(C)'
  BY <1>1, BeginStep
<1>2. CASE RuleThrows
  <2>1. /\ outcome' = Exception /\ outcome = P!Running
        /\ UNCHANGED <<content, machine, state, streams, phase, matched, best, result, unread, token>>
    BY <1>2 DEF RuleThrows, P!Does, P!Remembers, vars, streamVars, loopVars
  <2>2. BestInv(C)'
    BY <2>1, SameBest DEF BothInv
  <2>3. phase = "Idle"
    BY <1>2 DEF RuleThrows, P!Does, P!Remembers, BothInv, InCall
  <2>. QED  BY <2>1, <2>2, <2>3 DEF BothInv, InCall, Exception, P!Running
<1>3. CASE UNCHANGED allVars
  <2>1. UNCHANGED <<content, machine, state, streams, phase, matched, best, result, unread, token, outcome>>
    BY <1>3 DEF allVars, vars, parserVars, streamVars, loopVars
  <2>2. BestInv(C)'
    BY <2>1, SameBest DEF BothInv
  <2>3. Ends' = Ends /\ (Ahead(unread) => Ahead(unread)') /\ (Ahead(Tail(unread)) => Ahead(Tail(unread))')
    BY <2>1, SameAhead
  <2>4. Tracks => Tracks'
    BY <2>1, <2>3 DEF Tracks
  <2>. QED  BY <2>1, <2>2, <2>3, <2>4 DEF BothInv, InCall, P!Running
<1>. QED  BY <1>1, <1>2, <1>3, AskStep, TokenizeStep, TakeStep, TakeTurnStep DEF BothNext, RunOn

\* A value is returned only when all of the text has been read, for every tokenizer
\* and table, whatever the actions of the user do to the streams and the state and
\* whatever the calls of parse() before, thrown out of or not, have left behind
\* (Parser::parse(), Tokenizer::next_token()).
THEOREM ReturnsAtEndOfText ==
  ASSUME NEW C, SizesOK, TiesInOrder, TextsOver(C), TablesFit, NoMatch # EndSymbol
  PROVE  BothSpec => []ReturnsAtEnd
<1>1. BothInit => BothInv(C)
  BY BothInitInv
<1>2. BothInv(C) /\ [BothNext]_allVars => BothInv(C)'
  BY BothInvStep
<1>3. BothInv(C) => ReturnsAtEnd
  BY DEF BothInv, ReturnsAtEnd, Ends
<1>. QED  BY <1>1, <1>2, <1>3, PTL DEF BothSpec

-----------------------------------------------------------------------------
(* parse() over next_token() is parse() over the tokens of the text *)

\* What P!Init asks of the input and the tokens.
LEMMA TextIsInput ==
  ASSUME NEW k \in DOMAIN Prepared, NEW t \in Texts
  PROVE  /\ k \in DOMAIN P!Prepared /\ P!EndToken = EndToken
         /\ TextTokens[k][t] \in {TextTokens[l][u] : l \in DOMAIN Prepared, u \in Texts}
BY ParsersAssumption DEF P!Prepared, PreparedTables, Prepared, P!EndToken, EndToken, P!EndSymbol, EndSymbol

LEMMA TextStep ==
  ASSUME NEW C, SizesOK, TiesInOrder, TextsOver(C), TablesFit, NoMatch # EndSymbol, BothInv(C), [BothNext]_allVars
  PROVE  [P!Next \/ Interrupted \/ P!Init']_(P!vars)
<1>0. machine \in DOMAIN Prepared
  BY DEF BothInv, BestInv, Inv, TypeOK
<1>1. ASSUME NEW t \in Texts, Begin(t) PROVE P!Init'
  <2>1. /\ machine' \in DOMAIN Prepared /\ content' \in Texts /\ outcome' = P!Running /\ token' = <<>>
        /\ stack' = <<P!Bottom>> /\ unread' = Append(TextTokens[machine'][content'], EndToken)
    BY <1>0, <1>1 DEF Begin, Parse
  <2>. QED  BY <2>1, TextIsInput DEF P!Init
<1>2. ASSUME UNCHANGED <<machine, content, unread, token, stack, outcome>> PROVE UNCHANGED P!vars
  BY <1>2 DEF P!vars, P!parserVars
<1>3. CASE Ask
  BY <1>2, <1>3 DEF Ask, Call, parserVars
<1>4. CASE Tokenize
  <2>1. machine' = machine
    BY <1>4 DEF Tokenize, Loop, ReturnEnd, ReturnNothing, Match, Compare, Skip, ReturnToken, Throw, UnknownState, Return
  <2>. QED  BY <1>2, <1>4, <2>1 DEF Tokenize, parserVars
<1>5. CASE Take /\ result[1].symbol = Thrown
  BY <1>5 DEF Take, Interrupted
<1>6. CASE Take /\ result[1].symbol # Thrown
  <2>1. /\ P!Receive(result[1]) /\ unread' = (IF result[1].symbol = NoMatch THEN unread ELSE Tail(unread))
        /\ machine' = machine /\ content' = content
    BY <1>6 DEF Take
  <2>2. unread # <<>> /\ result[1] = Head(unread)
    BY <1>6 DEF Take, BothInv, Tracks
  <2>3. P!NextToken
    BY <2>1, <2>2 DEF P!NextToken
  <2>. QED  BY <2>3 DEF P!Next
<1>7. CASE TakeTurn
  <2>1. P!Turn /\ machine' = machine /\ content' = content /\ unread' = unread
    BY <1>7 DEF TakeTurn, P!Turn, P!Fail, P!Reduce, P!Shift, P!Accept
  <2>. QED  BY <2>1 DEF P!Next
<1>8. CASE RuleThrows
  BY <1>8 DEF RuleThrows, Interrupted, vars
<1>9. CASE UNCHANGED allVars
  BY <1>2, <1>9 DEF allVars, vars, parserVars
<1>. QED  BY <1>1, <1>3, <1>4, <1>5, <1>6, <1>7, <1>8, <1>9 DEF BothNext, RunOn

\* Every call of parse() runs as a parser does that is handed the tokens of its text
\* from the first to the last, whatever the calls before have left behind, unless an
\* exception of the user leaves it (Parser::parse(), Tokenizer::next_token()).
THEOREM ParsesTextOnly ==
  ASSUME NEW C, SizesOK, TiesInOrder, TextsOver(C), TablesFit, NoMatch # EndSymbol
  PROVE  BothSpec => ParsesText
<1>1. BothInit => BothInv(C)
  BY BothInitInv
<1>2. BothInv(C) /\ [BothNext]_allVars => BothInv(C)'
  BY BothInvStep
<1>3. BothInit => P!Init
  BY TextIsInput DEF BothInit, P!Init
<1>4. BothInv(C) /\ [BothNext]_allVars => [P!Next \/ Interrupted \/ P!Init']_(P!vars)
  BY TextStep
<1>. QED  BY <1>1, <1>2, <1>3, <1>4, PTL DEF BothSpec, ParsesText

=============================================================================
