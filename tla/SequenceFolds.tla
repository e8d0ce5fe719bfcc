---------------------------- MODULE SequenceFolds ----------------------------
(***************************************************************************)
(* Lemmas about sequences that several proofs rest on: what holds of the   *)
(* empty sequence and is kept by appending an element holds of all, and    *)
(* what concatenating the members of a sequence comes to.                  *)
(*                                                                         *)
(* A property is a set of sequences here.  That it is all of them is shown *)
(* by taking a shortest sequence that is not in it.                        *)
(***************************************************************************)
EXTENDS Integers, SequencesExt, TLAPS, SequenceTheorems, WellFoundedInduction

Least(S) == CHOOSE i \in S : \A o \in S : i <= o

LEMMA LeastIsLeast ==
  ASSUME NEW S \in SUBSET Nat, S # {}
  PROVE  Least(S) \in S /\ \A o \in S : Least(S) <= o
<1> DEFINE R == OpToRel(<, Nat)
<1>1. PICK i \in S : \A o \in S : ~(<<o, i>> \in R)
  <2>1. IsWellFoundedOn(R, Nat)
    BY NatLessThanWellFounded
  <2> QED
    BY <2>1, WFMin
<1>2. ASSUME NEW o \in S
      PROVE  i <= o
  <2>1. i \in Nat /\ o \in Nat
    OBVIOUS
  <2>2. ~(<<o, i>> \in {ss \in Nat \X Nat : ss[1] < ss[2]})
    BY <1>1 DEF OpToRel
  <2>3. ~(o < i)
    BY <2>1, <2>2
  <2> QED
    BY <2>1, <2>3
<1> QED
  BY <1>2 DEF Least

LEMMA InductionOnLength ==
  ASSUME NEW S, NEW P \in SUBSET Seq(S),
         <<>> \in P, \A s \in P, e \in S : Append(s, e) \in P
  PROVE  P = Seq(S)
<1> DEFINE B == {n \in Nat : \E s \in Seq(S) \ P : Len(s) = n}
<1> SUFFICES ASSUME B # {}
             PROVE  FALSE
  BY LenProperties
<1>1. Least(B) \in B /\ \A n \in B : Least(B) <= n
  BY LeastIsLeast
<1>2. PICK s \in Seq(S) \ P : Len(s) = Least(B)
  BY <1>1
<1>3. PICK t \in Seq(S), e \in S : s = Append(t, e)
  BY <1>2, SequenceEmptyOrAppend
<1>4. Len(t) \in Nat /\ Len(s) = Len(t) + 1
  BY <1>3, LenProperties, AppendProperties
<1>5. t \notin P
  BY <1>2, <1>3
<1>6. Len(t) \in B
  BY <1>4, <1>5
<1> HIDE DEF B
<1>7. Least(B) <= Len(t) /\ Least(B) = Len(t) + 1
  BY <1>1, <1>2, <1>4, <1>6
<1> QED
  BY <1>4, <1>7

-----------------------------------------------------------------------------
(***************************************************************************)
(* FlattenSeq computes with a recursive function: there is just one, and   *)
(* appending a member appends its elements.                                *)
(***************************************************************************)
\* f goes through the members of ss, and f[i] is all of the first i.
Flattens(f, ss) ==
  f = [i \in 1 .. Len(ss) |-> IF i = 1 THEN ss[i] ELSE f[i - 1] \o ss[i]]

LEMMA FlattenSeqIsLast ==
  ASSUME NEW ss, Len(ss) # 0
  PROVE  FlattenSeq(ss) = (CHOOSE f : Flattens(f, ss))[Len(ss)]
BY DEF FlattenSeq, Flattens

LEMMA FlattensStep ==
  ASSUME NEW ss, NEW f, Flattens(f, ss), NEW i \in 1 .. Len(ss)
  PROVE  f[i] = IF i = 1 THEN ss[i] ELSE f[i - 1] \o ss[i]
<1>1. f = [x \in 1 .. Len(ss) |-> IF x = 1 THEN ss[x] ELSE f[x - 1] \o ss[x]]
  BY DEF Flattens
<1> QED
  BY <1>1

LEMMA FlattensAgree ==
  ASSUME NEW S, NEW ss \in Seq(S), NEW s \in S,
         NEW f, Flattens(f, ss), NEW g, Flattens(g, Append(ss, s))
  PROVE  \A i \in 1 .. Len(ss) : f[i] = g[i]
<1> DEFINE B == {i \in 1 .. Len(ss) : f[i] # g[i]}
           tt == Append(ss, s)
<1>1. /\ Len(ss) \in Nat /\ Len(tt) = Len(ss) + 1
      /\ \A i \in 1 .. Len(ss) : tt[i] = ss[i]
  BY LenProperties, AppendProperties
<1> SUFFICES ASSUME B # {}
             PROVE  FALSE
  OBVIOUS
<1>2. Least(B) \in B /\ \A i \in B : Least(B) <= i
  <2>1. B \in SUBSET Nat
    BY <1>1
  <2> QED
    BY <2>1, LeastIsLeast
<1>3. PICK n \in 1 .. Len(ss) : f[n] # g[n] /\ n \in Nat /\ \A i \in B : n <= i
  <2>1. Least(B) \in 1 .. Len(ss) /\ f[Least(B)] # g[Least(B)]
    BY <1>2
  <2>2. Least(B) \in Nat
    BY <1>1, <2>1
  <2> HIDE DEF B
  <2> QED
    BY <1>2, <2>1, <2>2
<1>4. n \in 1 .. Len(tt) /\ tt[n] = ss[n]
  BY <1>1, <1>3
<1>5. /\ f[n] = IF n = 1 THEN ss[n] ELSE f[n - 1] \o ss[n]
      /\ g[n] = IF n = 1 THEN tt[n] ELSE g[n - 1] \o tt[n]
  BY <1>4, FlattensStep
<1>6. n # 1
  BY <1>3, <1>4, <1>5
<1>7. n - 1 \in 1 .. Len(ss) /\ ~(n <= n - 1)
  BY <1>1, <1>3, <1>6
<1>8. f[n - 1] = g[n - 1]
  BY <1>3, <1>7
<1> QED
  BY <1>3, <1>4, <1>5, <1>6, <1>8

LEMMA FlattensMore ==
  ASSUME NEW S, NEW ss \in Seq(S), NEW s \in S, NEW f, Flattens(f, ss)
  PROVE  \E g : Flattens(g, Append(ss, s))
<1> DEFINE n == Len(ss)
           tt == Append(ss, s)
           g == [i \in 1 .. n + 1 |->
                   IF i <= n THEN f[i] ELSE IF i = 1 THEN s ELSE f[n] \o s]
<1>1. n \in Nat /\ Len(tt) = n + 1 /\ tt[n + 1] = s /\ \A i \in 1 .. n : tt[i] = ss[i]
  BY LenProperties, AppendProperties
<1>2. \A i \in 1 .. n : f[i] = IF i = 1 THEN ss[i] ELSE f[i - 1] \o ss[i]
  BY FlattensStep
<1> HIDE DEF n, tt
<1>3. ASSUME NEW i \in 1 .. n + 1
      PROVE  g[i] = IF i = 1 THEN tt[i] ELSE g[i - 1] \o tt[i]
  <2>1. CASE i <= n
    <3>1. i \in 1 .. n /\ g[i] = f[i]
      BY <1>1, <2>1
    <3>2. i # 1 => i - 1 \in 1 .. n /\ g[i - 1] = f[i - 1]
      BY <1>1, <3>1
    <3> HIDE DEF g
    <3> QED
      BY <1>1, <1>2, <3>1, <3>2
  <2>2. CASE i = n + 1
    <3>1. g[i] = IF i = 1 THEN s ELSE f[n] \o s
      BY <1>1, <2>2
    <3>2. i # 1 => i - 1 = n /\ g[i - 1] = f[n]
      BY <1>1, <2>2
    <3> HIDE DEF g
    <3> QED
      BY <1>1, <2>2, <3>1, <3>2
  <2> QED
    BY <1>1, <2>1, <2>2
<1>4. g = [i \in 1 .. n + 1 |-> g[i]]
  OBVIOUS
<1> HIDE DEF g
<1>5. g = [i \in 1 .. n + 1 |-> IF i = 1 THEN tt[i] ELSE g[i - 1] \o tt[i]]
  BY <1>3, <1>4
<1> QED
  BY <1>1, <1>5 DEF Flattens, tt

LEMMA FlattensExists ==
  ASSUME NEW S, NEW ss \in Seq(S)
  PROVE  Flattens(CHOOSE f : Flattens(f, ss), ss)
<1> DEFINE P == {tt \in Seq(S) : \E f : Flattens(f, tt)}
<1>1. <<>> \in P
  <2>1. Len(<<>>) = 0 /\ <<>> \in Seq(S)
    BY EmptySeq
  <2>2. Flattens([i \in 1 .. 0 |-> 0], <<>>)
    BY <2>1 DEF Flattens
  <2> QED
    BY <2>1, <2>2
<1>2. ASSUME NEW tt \in P, NEW s \in S
      PROVE  Append(tt, s) \in P
  BY FlattensMore, AppendProperties
<1>3. P = Seq(S)
  <2> HIDE DEF P
  <2>1. P \in SUBSET Seq(S)
    BY DEF P
  <2> QED
    BY <1>1, <1>2, <2>1, InductionOnLength
<1>4. \E f : Flattens(f, ss)
  BY <1>3
<1> QED
  BY <1>4

LEMMA FlattenNothing == FlattenSeq(<<>>) = <<>>
BY DEF FlattenSeq

LEMMA FlattenAppend ==
  ASSUME NEW S, NEW ss \in Seq(Seq(S)), NEW s \in Seq(S)
  PROVE  FlattenSeq(Append(ss, s)) = FlattenSeq(ss) \o s
<1> DEFINE n == Len(ss)
           tt == Append(ss, s)
           f == CHOOSE h : Flattens(h, ss)
           g == CHOOSE h : Flattens(h, tt)
<1>1. /\ n \in Nat /\ tt \in Seq(Seq(S)) /\ Len(tt) = n + 1
      /\ tt[n + 1] = s /\ \A i \in 1 .. n : tt[i] = ss[i]
  BY LenProperties, AppendProperties
<1>2. Flattens(f, ss) /\ Flattens(g, tt)
  BY <1>1, FlattensExists
<1>3. /\ FlattenSeq(tt) = g[n + 1]
      /\ n # 0 => FlattenSeq(ss) = f[n]
  <2>1. Len(tt) # 0
    BY <1>1
  <2>2. FlattenSeq(tt) = g[Len(tt)]
    BY <2>1, FlattenSeqIsLast
  <2>3. ASSUME n # 0
        PROVE  FlattenSeq(ss) = f[n]
    BY <2>3, FlattenSeqIsLast
  <2> QED
    BY <1>1, <2>2, <2>3
<1> HIDE DEF n, tt, f, g
<1>4. g[n + 1] = IF n + 1 = 1 THEN s ELSE g[(n + 1) - 1] \o s
  <2>1. n + 1 \in 1 .. Len(tt)
    BY <1>1
  <2> QED
    BY <1>1, <1>2, <2>1, FlattensStep
<1>5. CASE n = 0
  <2>1. ss = <<>>
    BY <1>5, EmptySeq DEF n
  <2>2. FlattenSeq(ss) \o s = s
    BY <2>1, FlattenNothing, ConcatEmptySeq
  <2> QED
    BY <1>3, <1>4, <1>5, <2>2 DEF tt
<1>6. CASE n # 0
  <2>1. \A i \in 1 .. Len(ss) : f[i] = g[i]
    BY <1>2, FlattensAgree DEF tt
  <2>2. f[n] = g[n]
    BY <1>1, <1>6, <2>1 DEF n
  <2>3. g[n + 1] = g[n] \o s
    BY <1>1, <1>4, <1>6
  <2> QED
    BY <1>3, <1>6, <2>2, <2>3 DEF tt
<1> QED
  BY <1>5, <1>6

LEMMA FlattenIsTyped ==
  ASSUME NEW S, NEW ss \in Seq(Seq(S))
  PROVE  FlattenSeq(ss) \in Seq(S)
<1> DEFINE P == {tt \in Seq(Seq(S)) : FlattenSeq(tt) \in Seq(S)}
<1>1. <<>> \in P
  BY FlattenNothing, EmptySeq
<1>2. ASSUME NEW tt \in P, NEW s \in Seq(S)
      PROVE  Append(tt, s) \in P
  <2>1. Append(tt, s) \in Seq(Seq(S))
    BY AppendProperties
  <2>2. FlattenSeq(tt) \o s \in Seq(S)
    BY ConcatProperties
  <2> QED
    BY <2>1, <2>2, FlattenAppend
<1>3. P = Seq(Seq(S))
  <2> HIDE DEF P
  <2>1. P \in SUBSET Seq(Seq(S))
    BY DEF P
  <2> QED
    BY <1>1, <1>2, <2>1, InductionOnLength
<1> QED
  BY <1>3

-----------------------------------------------------------------------------
(***************************************************************************)
(* FoldLeft goes through the sets 1 .. n of indices, the largest first.    *)
(* The sum it computes is the one of the definition by elements.           *)
(***************************************************************************)
SumOf(s) == FoldLeft(LAMBDA sum, n : sum + n, 0, s)

LEMMA MaxIsMost ==
  ASSUME NEW n \in Nat, NEW S \in SUBSET (1 .. n), S # {}
  PROVE  Max(S) \in S /\ \A o \in S : o <= Max(S)
<1> DEFINE B == {m \in Nat : \A o \in S : o <= m}
<1>1. PICK m \in B : \A b \in B : m <= b
  <2>1. n \in B
    OBVIOUS
  <2>2. B \in SUBSET Nat
    OBVIOUS
  <2> HIDE DEF B
  <2> QED
    BY <2>1, <2>2, LeastIsLeast
<1>2. m \in Nat /\ \A o \in S : o <= m
  BY <1>1
<1>3. m \in S
  <2> SUFFICES ASSUME m \notin S
               PROVE  FALSE
    OBVIOUS
  <2>1. PICK x \in S : x \in 1 .. n
    OBVIOUS
  <2>2. m - 1 \in Nat
    BY <1>2, <2>1
  <2>3. \A o \in S : o <= m - 1
    BY <1>2
  <2>4. m - 1 \in B
    BY <2>2, <2>3
  <2>5. m <= m - 1
    BY <1>1, <2>4
  <2> QED
    BY <1>2, <2>5
<1>4. \E i \in S : \A o \in S : i >= o
  BY <1>2, <1>3
<1>5. Max(S) \in S /\ \A o \in S : Max(S) >= o
  BY <1>4 DEF Max
<1> QED
  BY <1>5

LEMMA MaxOfInterval ==
  ASSUME NEW n \in Nat, n # 0
  PROVE  Max(1 .. n) = n /\ (1 .. n) \ {n} = 1 .. n - 1
<1>1. n \in 1 .. n
  OBVIOUS
<1>2. Max(1 .. n) \in 1 .. n /\ \A o \in 1 .. n : o <= Max(1 .. n)
  BY <1>1, MaxIsMost
<1> QED
  BY <1>1, <1>2

Sums(f, s) ==
  f = [S \in SUBSET DOMAIN s |->
         IF S = {} THEN 0 ELSE f[S \ {Max(S)}] + s[Max(S)]]

LEMMA SumOfIsLast ==
  ASSUME NEW s
  PROVE  SumOf(s) = (CHOOSE f : Sums(f, s))[DOMAIN s]
BY DEF SumOf, FoldLeft, MapThenFoldSet, Sums

LEMMA SumsStep ==
  ASSUME NEW s, NEW f, Sums(f, s), NEW S \in SUBSET DOMAIN s
  PROVE  f[S] = IF S = {} THEN 0 ELSE f[S \ {Max(S)}] + s[Max(S)]
<1>1. f = [X \in SUBSET DOMAIN s |->
             IF X = {} THEN 0 ELSE f[X \ {Max(X)}] + s[Max(X)]]
  BY DEF Sums
<1> QED
  BY <1>1

LEMMA SumsAgree ==
  ASSUME NEW T, NEW s \in Seq(T), NEW x \in T,
         NEW f, Sums(f, s), NEW g, Sums(g, Append(s, x))
  PROVE  \A i \in 0 .. Len(s) : f[1 .. i] = g[1 .. i]
<1> DEFINE n == Len(s)
           t == Append(s, x)
           B == {i \in 0 .. n : f[1 .. i] # g[1 .. i]}
<1>1. /\ n \in Nat /\ Len(t) = n + 1 /\ \A i \in 1 .. n : t[i] = s[i]
      /\ DOMAIN s = 1 .. n /\ DOMAIN t = 1 .. n + 1
  BY LenProperties, AppendProperties
<1> SUFFICES ASSUME B # {}
             PROVE  FALSE
  OBVIOUS
<1>2. PICK i \in 0 .. n : f[1 .. i] # g[1 .. i] /\ \A o \in B : i <= o
  <2>1. B \in SUBSET Nat
    BY <1>1
  <2>2. Least(B) \in B /\ \A o \in B : Least(B) <= o
    <3> HIDE DEF B
    <3> QED
      BY <2>1, LeastIsLeast
  <2> QED
    BY <2>2
<1> HIDE DEF n, t
<1>3. i \in Nat /\ 1 .. i \in SUBSET DOMAIN s /\ 1 .. i \in SUBSET DOMAIN t
  BY <1>1
<1>4. /\ f[1 .. i] = IF 1 .. i = {} THEN 0 ELSE f[(1 .. i) \ {Max(1 .. i)}] + s[Max(1 .. i)]
      /\ g[1 .. i] = IF 1 .. i = {} THEN 0 ELSE g[(1 .. i) \ {Max(1 .. i)}] + t[Max(1 .. i)]
  BY <1>3, SumsStep DEF t
<1>5. i # 0
  <2>1. i = 0 => 1 .. i = {}
    BY <1>3
  <2> QED
    BY <1>2, <1>4, <2>1
<1>6. 1 .. i # {} /\ i - 1 \in 0 .. n /\ i \in 1 .. n /\ ~(i <= i - 1)
  <2> HIDE DEF B
  <2>1. i \in Nat /\ n \in Nat /\ i <= n
    BY <1>1
  <2>2. 1 <= i /\ 1 \in 1 .. i
    BY <1>5, <2>1
  <2>3. i - 1 \in 0 .. n /\ i \in 1 .. n /\ ~(i <= i - 1)
    BY <2>1, <2>2
  <2> QED
    BY <2>2, <2>3
<1>7. Max(1 .. i) = i /\ (1 .. i) \ {i} = 1 .. i - 1
  BY <1>3, <1>5, MaxOfInterval
<1>8. f[1 .. i - 1] = g[1 .. i - 1]
  BY <1>2, <1>6
<1> QED
  BY <1>1, <1>2, <1>4, <1>6, <1>7, <1>8

LEMMA SumsMore ==
  ASSUME NEW T, NEW s \in Seq(T), NEW x \in T, NEW f, Sums(f, s)
  PROVE  \E g : Sums(g, Append(s, x))
<1> DEFINE n == Len(s)
           t == Append(s, x)
           g == [S \in SUBSET (1 .. n + 1) |->
                   IF n + 1 \in S THEN f[S \ {n + 1}] + x ELSE f[S]]
<1>1. /\ n \in Nat /\ Len(t) = n + 1 /\ t[n + 1] = x
      /\ \A i \in 1 .. n : t[i] = s[i]
      /\ DOMAIN s = 1 .. n /\ DOMAIN t = 1 .. n + 1
  BY LenProperties, AppendProperties
<1> HIDE DEF n, t
<1>2. ASSUME NEW S \in SUBSET (1 .. n + 1)
      PROVE  g[S] = IF S = {} THEN 0 ELSE g[S \ {Max(S)}] + t[Max(S)]
  <2>1. S # {} => Max(S) \in S /\ \A o \in S : o <= Max(S)
    <3>1. n + 1 \in Nat
      BY <1>1
    <3> QED
      BY <3>1, MaxIsMost
  <2>2. CASE n + 1 \in S
    <3>1. Max(S) = n + 1
      <4> HIDE DEF g
      <4>1. Max(S) \in 1 .. n + 1 /\ n + 1 <= Max(S)
        BY <2>1, <2>2
      <4> QED
        BY <1>1, <4>1
    <3>2. S \ {n + 1} \in SUBSET (1 .. n + 1) /\ n + 1 \notin S \ {n + 1}
      OBVIOUS
    <3>3. g[S \ {n + 1}] = f[S \ {n + 1}] /\ g[S] = f[S \ {n + 1}] + x
      BY <2>2, <3>2
    <3> HIDE DEF g
    <3> QED
      BY <1>1, <2>2, <3>1, <3>3
  <2>3. CASE n + 1 \notin S
    <3>1. S \in SUBSET DOMAIN s
      BY <1>1, <2>3
    <3>2. f[S] = IF S = {} THEN 0 ELSE f[S \ {Max(S)}] + s[Max(S)]
      BY <3>1, SumsStep
    <3>3. S \ {Max(S)} \in SUBSET (1 .. n + 1) /\ n + 1 \notin S \ {Max(S)}
      BY <2>3
    <3>4. g[S] = f[S] /\ g[S \ {Max(S)}] = f[S \ {Max(S)}]
      BY <2>3, <3>3
    <3>5. S # {} => t[Max(S)] = s[Max(S)]
      BY <1>1, <2>1, <3>1
    <3> HIDE DEF g
    <3> QED
      BY <3>2, <3>4, <3>5
  <2> QED
    BY <2>2, <2>3
<1>3. g = [S \in SUBSET (1 .. n + 1) |-> g[S]]
  OBVIOUS
<1> HIDE DEF g
<1>4. g = [S \in SUBSET (1 .. n + 1) |->
             IF S = {} THEN 0 ELSE g[S \ {Max(S)}] + t[Max(S)]]
  BY <1>2, <1>3
<1>5. Sums(g, t)
  BY <1>1, <1>4 DEF Sums
<1> QED
  BY <1>5 DEF t

LEMMA SumsExist ==
  ASSUME NEW T, NEW s \in Seq(T)
  PROVE  Sums(CHOOSE f : Sums(f, s), s)
<1> DEFINE P == {t \in Seq(T) : \E f : Sums(f, t)}
<1>1. <<>> \in P
  <2>1. <<>> \in Seq(T) /\ DOMAIN <<>> = {}
    BY EmptySeq
  <2>2. PICK f : f = [S \in SUBSET {} |-> 0]
    OBVIOUS
  <2>3. f = [S \in SUBSET {} |-> IF S = {} THEN 0 ELSE f[S \ {Max(S)}] + <<>>[Max(S)]]
    BY <2>2
  <2>4. Sums(f, <<>>)
    BY <2>1, <2>3 DEF Sums
  <2> QED
    BY <2>1, <2>4
<1>2. ASSUME NEW t \in P, NEW x \in T
      PROVE  Append(t, x) \in P
  BY SumsMore, AppendProperties
<1>3. P = Seq(T)
  <2> HIDE DEF P
  <2>1. P \in SUBSET Seq(T)
    BY DEF P
  <2> QED
    BY <1>1, <1>2, <2>1, InductionOnLength
<1>4. \E f : Sums(f, s)
  BY <1>3
<1> QED
  BY <1>4

LEMMA SumOfNothing == SumOf(<<>>) = 0
<1>1. <<>> \in Seq({}) /\ DOMAIN <<>> = {}
  BY EmptySeq
<1> DEFINE f == CHOOSE h : Sums(h, <<>>)
<1>2. Sums(f, <<>>)
  BY <1>1, SumsExist
<1>3. SumOf(<<>>) = f[{}]
  BY <1>1, SumOfIsLast
<1> HIDE DEF f
<1> QED
  BY <1>1, <1>2, <1>3, SumsStep

LEMMA SumAppend ==
  ASSUME NEW T, NEW s \in Seq(T), NEW x \in T
  PROVE  SumOf(Append(s, x)) = SumOf(s) + x
<1> DEFINE n == Len(s)
           t == Append(s, x)
           f == CHOOSE h : Sums(h, s)
           g == CHOOSE h : Sums(h, t)
<1>1. /\ n \in Nat /\ t \in Seq(T) /\ t[n + 1] = x
      /\ DOMAIN s = 1 .. n /\ DOMAIN t = 1 .. n + 1
  BY LenProperties, AppendProperties
<1>2. Sums(f, s) /\ Sums(g, t)
  BY <1>1, SumsExist
<1>3. SumOf(s) = f[1 .. n] /\ SumOf(t) = g[1 .. n + 1]
  BY <1>1, SumOfIsLast
<1> HIDE DEF f, g
<1>4. f[1 .. n] = g[1 .. n]
  <2>1. \A i \in 0 .. Len(s) : f[1 .. i] = g[1 .. i]
    BY <1>2, SumsAgree
  <2> QED
    BY <1>1, <2>1
<1> HIDE DEF n, t
<1>5. Max(1 .. n + 1) = n + 1 /\ (1 .. n + 1) \ {n + 1} = 1 .. n /\ 1 .. n + 1 # {}
  <2>1. n + 1 \in Nat /\ n + 1 # 0 /\ (n + 1) - 1 = n /\ n + 1 \in 1 .. n + 1
    BY <1>1
  <2> QED
    BY <2>1, MaxOfInterval
<1>6. 1 .. n + 1 \in SUBSET DOMAIN t
  BY <1>1
<1>7. g[1 .. n + 1] = g[1 .. n] + x
  <2>1. g[1 .. n + 1] = IF 1 .. n + 1 = {} THEN 0
                        ELSE g[(1 .. n + 1) \ {Max(1 .. n + 1)}] + t[Max(1 .. n + 1)]
    BY <1>2, <1>6, SumsStep
  <2> QED
    BY <1>1, <1>5, <2>1
<1> QED
  BY <1>3, <1>4, <1>7 DEF t

LEMMA SumIsNat ==
  ASSUME NEW s \in Seq(Nat)
  PROVE  SumOf(s) \in Nat
<1> DEFINE P == {t \in Seq(Nat) : SumOf(t) \in Nat}
<1>1. <<>> \in P
  BY SumOfNothing, EmptySeq
<1>2. ASSUME NEW t \in P, NEW x \in Nat
      PROVE  Append(t, x) \in P
  <2>1. Append(t, x) \in Seq(Nat) /\ SumOf(Append(t, x)) = SumOf(t) + x
    BY AppendProperties, SumAppend
  <2> QED
    BY <2>1
<1>3. P = Seq(Nat)
  <2> HIDE DEF P
  <2>1. P \in SUBSET Seq(Nat)
    BY DEF P
  <2> QED
    BY <1>1, <1>2, <2>1, InductionOnLength
<1> QED
  BY <1>3

\* Appending to the second appends to the whole.
LEMMA ConcatAppend ==
  ASSUME NEW T, NEW s \in Seq(T), NEW t \in Seq(T), NEW x \in T
  PROVE  s \o Append(t, x) = Append(s \o t, x)
<1>1. <<x>> \in Seq(T) /\ Append(t, x) = t \o <<x>> /\ s \o t \in Seq(T)
  BY AppendIsConcat, ConcatProperties
<1>2. Append(s \o t, x) = (s \o t) \o <<x>>
  BY <1>1, AppendIsConcat
<1> QED
  BY <1>1, <1>2, ConcatAssociative

LEMMA SumConcat ==
  ASSUME NEW s \in Seq(Nat), NEW t \in Seq(Nat)
  PROVE  SumOf(s \o t) = SumOf(s) + SumOf(t)
<1> DEFINE P == {u \in Seq(Nat) : SumOf(s \o u) = SumOf(s) + SumOf(u)}
<1>1. <<>> \in P
  <2>1. <<>> \in Seq(Nat) /\ s \o <<>> = s /\ SumOf(s) \in Nat
    BY EmptySeq, ConcatEmptySeq, SumIsNat
  <2> QED
    BY <2>1, SumOfNothing
<1>2. ASSUME NEW u \in P, NEW x \in Nat
      PROVE  Append(u, x) \in P
  <2>1. /\ Append(u, x) \in Seq(Nat) /\ SumOf(Append(u, x)) = SumOf(u) + x
        /\ SumOf(s) \in Nat /\ SumOf(u) \in Nat
    BY AppendProperties, SumAppend, SumIsNat
  <2>2. SumOf(s \o Append(u, x)) = SumOf(s \o u) + x
    <3>1. s \o Append(u, x) = Append(s \o u, x) /\ s \o u \in Seq(Nat)
      BY ConcatAppend, ConcatProperties
    <3> QED
      BY <3>1, SumAppend
  <2> QED
    BY <2>1, <2>2
<1>3. P = Seq(Nat)
  <2> HIDE DEF P
  <2>1. P \in SUBSET Seq(Nat)
    BY DEF P
  <2> QED
    BY <1>1, <1>2, <2>1, InductionOnLength
<1> QED
  BY <1>3
=============================================================================
