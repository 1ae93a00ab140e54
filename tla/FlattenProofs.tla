---------------------------- MODULE FlattenProofs ----------------------------
(***************************************************************************)
(* What FlattenSeq of the community modules computes.  It is a recursive   *)
(* function over the places of its argument, so its laws are proved by     *)
(* induction: a set of numbers that holds 0 and with each number the next  *)
(* one is Nat, because the numbers are well founded and a set without the  *)
(* property would have a least element.                                    *)
(***************************************************************************)
EXTENDS SequencesExt, WellFoundedInduction, TLAPS

-----------------------------------------------------------------------------
(* Induction *)

LessThan == {pair \in Nat \X Nat : pair[1] < pair[2]}

LEMMA LessThanIsWellFounded == IsWellFoundedOn(LessThan, Nat)
BY NatLessThanWellFounded DEF LessThan, OpToRel

LEMMA LeastNumber ==
  ASSUME NEW T, T \subseteq Nat, T # {}
  PROVE  \E m \in T : \A n \in T : m <= n
<1>1. PICK m \in T : \A n \in T : <<n, m>> \notin LessThan
  BY LessThanIsWellFounded, WFMin
<1>2. ASSUME NEW n \in T, n < m PROVE FALSE
  <2>1. <<n, m>> \in Nat \X Nat
    OBVIOUS
  <2>. QED  BY <1>1, <1>2, <2>1 DEF LessThan
<1>. QED  BY <1>2

LEMMA SetInduction ==
  ASSUME NEW T, T \subseteq Nat, 0 \in T, \A n \in T : n + 1 \in T
  PROVE  T = Nat
<1>. SUFFICES ASSUME Nat \ T # {} PROVE FALSE
  OBVIOUS
<1>1. PICK m \in Nat \ T : \A n \in Nat \ T : m <= n
  BY LeastNumber
<1>2. m # 0 /\ m - 1 \in Nat
  OBVIOUS
<1>3. m - 1 \in T
  BY <1>1, <1>2
<1>. QED  BY <1>1, <1>2, <1>3

-----------------------------------------------------------------------------
(* The function in FlattenSeq *)

\* f[i] is the first i elements of S, one behind the other.
Joins(f, S) == f = [i \in 1 .. Len(S) |-> IF i = 1 THEN S[i] ELSE f[i - 1] \o S[i]]

LEMMA FlattenIsJoin ==
  ASSUME NEW S, Len(S) # 0
  PROVE  FlattenSeq(S) = (CHOOSE f : Joins(f, S))[Len(S)]
BY DEF FlattenSeq, Joins

LEMMA JoinsOneMore ==
  ASSUME NEW D, NEW n \in Nat, NEW S \in Seq(Seq(D)), Len(S) = n + 1,
         NEW front \in Seq(Seq(D)), front = SubSeq(S, 1, n),
         NEW f \in [1 .. n -> Seq(D)], Joins(f, front)
  PROVE  \E h \in [1 .. n + 1 -> Seq(D)] : Joins(h, S)
<1>1. Len(front) = n /\ \A i \in 1 .. n : front[i] = S[i] /\ S[i] \in Seq(D)
  OBVIOUS
<1>2. S[n + 1] \in Seq(D)
  OBVIOUS
<1>3. \A i \in 1 .. n : f[i] = IF i = 1 THEN S[i] ELSE f[i - 1] \o S[i]
  BY <1>1 DEF Joins
<1>. DEFINE last == IF n = 0 THEN S[n + 1] ELSE f[n] \o S[n + 1]
            h == [i \in 1 .. n + 1 |-> IF i = n + 1 THEN last ELSE f[i]]
<1>4. last \in Seq(D)
  <2>1. CASE n = 0
    BY <1>2, <2>1
  <2>2. CASE n # 0
    <3>1. f[n] \in Seq(D)
      BY <2>2
    <3>. QED  BY <1>2, <2>2, <3>1
  <2>. QED  BY <2>1, <2>2
<1>5. h \in [1 .. n + 1 -> Seq(D)]
  BY <1>4
<1>6. \A i \in 1 .. n + 1 : h[i] = IF i = 1 THEN S[i] ELSE h[i - 1] \o S[i]
  <2>. TAKE i \in 1 .. n + 1
  <2>1. CASE i = n + 1 /\ n = 0
    BY <2>1
  <2>2. CASE i = n + 1 /\ n # 0
    <3>1. i - 1 = n /\ n \in 1 .. n + 1 /\ i # 1
      BY <2>2
    <3>2. h[i - 1] = f[n]
      BY <3>1
    <3>. QED  BY <2>2, <3>1, <3>2
  <2>3. CASE i # n + 1
    <3>1. i \in 1 .. n /\ h[i] = f[i]
      BY <2>3
    <3>2. i # 1 => i - 1 \in 1 .. n + 1 /\ i - 1 # n + 1
      BY <2>3
    <3>3. i # 1 => h[i - 1] = f[i - 1]
      BY <3>2
    <3>. QED  BY <1>3, <3>1, <3>3
  <2>. QED  BY <2>1, <2>2, <2>3
<1>7. Joins(h, S)
  <2>. HIDE DEF last
  <2>1. h = [i \in 1 .. Len(S) |-> h[i]]
    OBVIOUS
  <2>. HIDE DEF h
  <2>. QED  BY <1>6, <2>1 DEF Joins
<1>. QED  BY <1>5, <1>7

LEMMA JoinsExist ==
  ASSUME NEW D, NEW S \in Seq(Seq(D))
  PROVE  \E f \in [1 .. Len(S) -> Seq(D)] : Joins(f, S)
<1>. DEFINE Q(n) == \A s \in Seq(Seq(D)) : Len(s) = n => \E f \in [1 .. n -> Seq(D)] : Joins(f, s)
            T == {n \in Nat : Q(n)}
<1>1. 0 \in T
  <2>. SUFFICES ASSUME NEW s \in Seq(Seq(D)), Len(s) = 0
                PROVE  \E f \in [1 .. 0 -> Seq(D)] : Joins(f, s)
    OBVIOUS
  <2>1. <<>> \in [1 .. 0 -> Seq(D)] /\ Joins(<<>>, s)
    BY DEF Joins
  <2>. QED  BY <2>1
<1>2. ASSUME NEW n \in T PROVE n + 1 \in T
  <2>. SUFFICES ASSUME NEW s \in Seq(Seq(D)), Len(s) = n + 1
                PROVE  \E f \in [1 .. n + 1 -> Seq(D)] : Joins(f, s)
    OBVIOUS
  <2>1. SubSeq(s, 1, n) \in Seq(Seq(D)) /\ Len(SubSeq(s, 1, n)) = n
    OBVIOUS
  <2>2. PICK f \in [1 .. n -> Seq(D)] : Joins(f, SubSeq(s, 1, n))
    BY <2>1
  <2>. QED  BY <2>1, <2>2, JoinsOneMore
<1>. HIDE DEF Q
<1>3. T = Nat
  BY <1>1, <1>2, SetInduction
<1>. QED  BY <1>3 DEF Q

LEMMA JoinsAreUnique ==
  ASSUME NEW D, NEW S \in Seq(Seq(D)), NEW f, NEW h, Joins(f, S), Joins(h, S)
  PROVE  f = h
<1>. DEFINE T == {n \in Nat : n + 1 \in 1 .. Len(S) => f[n + 1] = h[n + 1]}
<1>1. /\ \A i \in 1 .. Len(S) : f[i] = IF i = 1 THEN S[i] ELSE f[i - 1] \o S[i]
      /\ \A i \in 1 .. Len(S) : h[i] = IF i = 1 THEN S[i] ELSE h[i - 1] \o S[i]
  BY DEF Joins
<1>2. 0 \in T
  BY <1>1
<1>3. ASSUME NEW n \in T PROVE n + 1 \in T
  BY <1>1
<1>4. T = Nat
  <2>. HIDE DEF T
  <2>1. T \subseteq Nat
    BY DEF T
  <2>. QED  BY <1>2, <1>3, <2>1, SetInduction
<1>5. ASSUME NEW i \in 1 .. Len(S) PROVE f[i] = h[i]
  <2>1. i - 1 \in Nat /\ (i - 1) + 1 = i
    OBVIOUS
  <2>2. i - 1 \in T
    BY <1>4, <2>1
  <2>. QED  BY <2>1, <2>2
<1>6. f = [i \in 1 .. Len(S) |-> f[i]] /\ h = [i \in 1 .. Len(S) |-> h[i]]
  BY DEF Joins
<1>. QED  BY <1>5, <1>6

LEMMA FlattenIsLast ==
  ASSUME NEW D, NEW S \in Seq(Seq(D)), Len(S) # 0, NEW f, Joins(f, S)
  PROVE  FlattenSeq(S) = f[Len(S)]
<1>1. (CHOOSE h : Joins(h, S)) = f
  BY JoinsAreUnique
<1>. QED  BY <1>1, FlattenIsJoin

-----------------------------------------------------------------------------
(* Its laws *)

LEMMA FlattenNothing == FlattenSeq(<<>>) = <<>>
BY DEF FlattenSeq

LEMMA FlattenType ==
  ASSUME NEW D, NEW S \in Seq(Seq(D))
  PROVE  FlattenSeq(S) \in Seq(D)
<1>1. CASE Len(S) = 0
  <2>1. S = <<>> /\ <<>> \in Seq(D)
    BY <1>1
  <2>. QED  BY <2>1, FlattenNothing
<1>2. CASE Len(S) # 0
  <2>1. PICK f \in [1 .. Len(S) -> Seq(D)] : Joins(f, S)
    BY JoinsExist
  <2>2. FlattenSeq(S) = f[Len(S)]
    BY <1>2, <2>1, FlattenIsLast
  <2>. QED  BY <1>2, <2>2
<1>. QED  BY <1>1, <1>2

\* One sequence more comes behind the others.
LEMMA FlattenAppend ==
  ASSUME NEW D, NEW S \in Seq(Seq(D)), NEW x \in Seq(D)
  PROVE  FlattenSeq(Append(S, x)) = FlattenSeq(S) \o x
<1>. DEFINE n == Len(S)
            R == Append(S, x)
<1>1. R \in Seq(Seq(D)) /\ Len(R) = n + 1 /\ n \in Nat /\ R[n + 1] = x /\ \A i \in 1 .. n : R[i] = S[i]
  OBVIOUS
<1>. HIDE DEF R
<1>2. PICK h \in [1 .. n + 1 -> Seq(D)] : Joins(h, R)
  BY <1>1, JoinsExist
<1>3. FlattenSeq(R) = h[n + 1]
  <2>1. Len(R) # 0
    BY <1>1
  <2>. HIDE DEF n
  <2>. QED  BY <1>1, <1>2, <2>1, FlattenIsLast
<1>4. \A i \in 1 .. n + 1 : h[i] = IF i = 1 THEN R[i] ELSE h[i - 1] \o R[i]
  BY <1>1, <1>2 DEF Joins
<1>5. CASE n = 0
  <2>1. S = <<>> /\ h[1] = x
    BY <1>1, <1>4, <1>5
  <2>2. <<>> \o x = x
    OBVIOUS
  <2>. QED  BY <1>3, <1>5, <2>1, <2>2, FlattenNothing DEF R
<1>6. CASE n # 0
  <2>. DEFINE f == [i \in 1 .. n |-> h[i]]
  <2>1. \A i \in 1 .. n : f[i] = IF i = 1 THEN S[i] ELSE f[i - 1] \o S[i]
    <3>. TAKE i \in 1 .. n
    <3>1. i \in 1 .. n + 1 /\ (i # 1 => i - 1 \in 1 .. n)
      OBVIOUS
    <3>. QED  BY <1>1, <1>4, <3>1
  <2>2. Joins(f, S)
    <3>1. f = [i \in 1 .. Len(S) |-> f[i]]
      OBVIOUS
    <3>. HIDE DEF f
    <3>. QED  BY <2>1, <3>1 DEF Joins
  <2>3. FlattenSeq(S) = f[n]
    BY <1>6, <2>2, FlattenIsLast
  <2>4. h[n + 1] = h[n] \o x
    <3>1. n + 1 \in 1 .. n + 1 /\ n + 1 # 1 /\ (n + 1) - 1 = n
      BY <1>1, <1>6
    <3>. QED  BY <1>1, <1>4, <3>1
  <2>5. f[n] = h[n]
    BY <1>1, <1>6
  <2>. QED  BY <1>3, <2>3, <2>4, <2>5 DEF R
<1>. QED  BY <1>5, <1>6

LEMMA ConcatIsAssociative ==
  ASSUME NEW D, NEW a \in Seq(D), NEW b \in Seq(D), NEW c \in Seq(D)
  PROVE  (a \o b) \o c = a \o (b \o c)
OBVIOUS

LEMMA Joined ==
  ASSUME NEW D, NEW a \in Seq(D), NEW b \in Seq(D), NEW n, n = Len(a)
  PROVE  /\ n \in Nat /\ a \o b \in Seq(D) /\ Len(a \o b) = n + Len(b)
         /\ \A k \in 1 .. n : (a \o b)[k] = a[k]
         /\ \A k \in 1 .. Len(b) : (a \o b)[n + k] = b[k]
OBVIOUS

\* Two sequences of sequences, one behind the other.
LEMMA FlattenConcat ==
  ASSUME NEW D, NEW S \in Seq(Seq(D)), NEW R \in Seq(Seq(D))
  PROVE  FlattenSeq(S \o R) = FlattenSeq(S) \o FlattenSeq(R)
<1>. DEFINE Q(n) == \A r \in Seq(Seq(D)) : Len(r) = n => FlattenSeq(S \o r) = FlattenSeq(S) \o FlattenSeq(r)
            T == {n \in Nat : Q(n)}
<1>1. 0 \in T
  <2>. SUFFICES ASSUME NEW r \in Seq(Seq(D)), Len(r) = 0
                PROVE  FlattenSeq(S \o r) = FlattenSeq(S) \o FlattenSeq(r)
    OBVIOUS
  <2>1. r = <<>> /\ S \o r = S
    OBVIOUS
  <2>2. FlattenSeq(S) \in Seq(D)
    BY FlattenType
  <2>3. FlattenSeq(S) \o <<>> = FlattenSeq(S)
    BY <2>2
  <2>. QED  BY <2>1, <2>3, FlattenNothing
<1>2. ASSUME NEW n \in T PROVE n + 1 \in T
  <2>. SUFFICES ASSUME NEW r \in Seq(Seq(D)), Len(r) = n + 1
                PROVE  FlattenSeq(S \o r) = FlattenSeq(S) \o FlattenSeq(r)
    OBVIOUS
  <2>. DEFINE front == SubSeq(r, 1, n)
              last  == r[n + 1]
  <2>1. front \in Seq(Seq(D)) /\ last \in Seq(D) /\ r = Append(front, last) /\ Len(front) = n
    OBVIOUS
  <2>. HIDE DEF front, last
  <2>2. S \o r = Append(S \o front, last) /\ S \o front \in Seq(Seq(D))
    BY <2>1
  <2>3. FlattenSeq(S \o r) = FlattenSeq(S \o front) \o last
    BY <2>1, <2>2, FlattenAppend
  <2>4. FlattenSeq(S \o front) = FlattenSeq(S) \o FlattenSeq(front)
    BY <2>1
  <2>5. FlattenSeq(r) = FlattenSeq(front) \o last
    BY <2>1, FlattenAppend
  <2>6. FlattenSeq(S) \in Seq(D) /\ FlattenSeq(front) \in Seq(D)
    BY <2>1, FlattenType
  <2>. QED  BY <2>1, <2>3, <2>4, <2>5, <2>6, ConcatIsAssociative
<1>. HIDE DEF Q
<1>3. T = Nat
  BY <1>1, <1>2, SetInduction
<1>4. Q(Len(R))
  BY <1>3
<1>. QED  BY <1>4 DEF Q

\* A sequence of nothing but empty sequences.
LEMMA FlattenEmpties ==
  ASSUME NEW D, NEW S \in Seq(Seq(D)), \A i \in 1 .. Len(S) : S[i] = <<>>
  PROVE  FlattenSeq(S) = <<>>
<1>1. CASE Len(S) = 0
  BY <1>1, FlattenNothing
<1>2. CASE Len(S) # 0
  <2>. DEFINE f == [i \in 1 .. Len(S) |-> <<>>]
  <2>1. \A i \in 1 .. Len(S) : f[i] = IF i = 1 THEN S[i] ELSE f[i - 1] \o S[i]
    <3>. TAKE i \in 1 .. Len(S)
    <3>1. i # 1 => i - 1 \in 1 .. Len(S)
      OBVIOUS
    <3>2. <<>> \o <<>> = <<>>
      OBVIOUS
    <3>. QED  BY <3>1, <3>2
  <2>2. Joins(f, S)
    <3>1. f = [i \in 1 .. Len(S) |-> f[i]]
      OBVIOUS
    <3>. HIDE DEF f
    <3>. QED  BY <2>1, <3>1 DEF Joins
  <2>3. f[Len(S)] = <<>>
    BY <1>2
  <2>. HIDE DEF f
  <2>. QED  BY <1>2, <2>2, <2>3, FlattenIsLast
<1>. QED  BY <1>1, <1>2

\* What stands first comes first.
LEMMA FlattenCons ==
  ASSUME NEW D, NEW S \in Seq(Seq(D)), NEW x \in Seq(D)
  PROVE  FlattenSeq(<<x>> \o S) = x \o FlattenSeq(S)
<1>1. FlattenSeq(<<x>>) = x
  <2>1. <<x>> = Append(<<>>, x) /\ <<>> \o x = x /\ <<>> \in Seq(Seq(D))
    OBVIOUS
  <2>2. FlattenSeq(Append(<<>>, x)) = FlattenSeq(<<>>) \o x
    BY <2>1, FlattenAppend
  <2>. QED  BY <2>1, <2>2, FlattenNothing
<1>2. <<x>> \in Seq(Seq(D))
  OBVIOUS
<1>. QED  BY <1>1, <1>2, FlattenConcat

=============================================================================
