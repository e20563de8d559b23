--------------------------- MODULE FreeListProofs ---------------------------
(***************************************************************************)
(* The free list of module Pager: what rebuilding it stores, loading it    *)
(* returns, and that what is loaded depends on the trunk pages only.       *)
(***************************************************************************)
EXTENDS Pager, SequenceTheorems, FiniteSetTheorems, WellFoundedInduction, TLAPS

-----------------------------------------------------------------------------
(* Induction, with a set in place of a predicate.                          *)

\* A nonempty set of naturals has a least element.
LEMMA LeastNat ==
    ASSUME NEW S \in SUBSET Nat, S # {}
    PROVE  \E x \in S : \A y \in S : x <= y
<1> DEFINE R == {ss \in Nat \X Nat : ss[1] < ss[2]}
<1>1. \E x \in S : \A y \in S : <<y, x>> \notin R
  <2> HIDE DEF R
  <2>1. IsWellFoundedOn(R, Nat)
    BY NatLessThanWellFounded DEF R, OpToRel
  <2> QED
    BY <2>1, WFMin, Zenon
<1>2. PICK x \in S : \A y \in S : <<y, x>> \notin R
  BY <1>1
<1>3. ASSUME NEW y \in S PROVE x <= y
  <2>1. ~ (<<y, x>>[1] < <<y, x>>[2])
    BY <1>2, Zenon
  <2> QED
    BY <2>1
<1> QED
  BY <1>3

\* A set that contains a, and with each number below n the next, contains a .. n.
LEMMA Induct ==
    ASSUME NEW a \in Nat, NEW n \in Nat, NEW S,
           a \in S, \A k \in a .. (n - 1) : k \in S => k + 1 \in S
    PROVE  \A k \in a .. n : k \in S
<1> DEFINE B == {k \in a .. n : k \notin S}
<1>1. SUFFICES ASSUME B # {} PROVE FALSE
  OBVIOUS
<1>2. B \in SUBSET Nat
  OBVIOUS
<1>3. PICK x \in B : \A y \in B : x <= y
  <2> HIDE DEF B
  <2> QED
    BY <1>1, <1>2, LeastNat
<1>4. x \in a .. n /\ x \notin S /\ x # a
  OBVIOUS
<1>5. x - 1 \in a .. (n - 1) /\ x - 1 < x
  BY <1>4
<1>6. x - 1 \in S
  BY <1>3, <1>5
<1> QED
  BY <1>4, <1>5, <1>6

-----------------------------------------------------------------------------
(* Sequences without repetition.                                           *)

\* A function on 1 .. n is a sequence of length n.
LEMMA SeqOfFcn ==
    ASSUME NEW S, NEW n \in Nat, NEW f \in [1 .. n -> S]
    PROVE  f \in Seq(S) /\ Len(f) = n
OBVIOUS

\* Two lists joined repeat nothing when neither does and they share nothing.
LEMMA InjConcat ==
    ASSUME NEW S, NEW s \in Seq(S), NEW t \in Seq(S)
    PROVE  IsInjective(s \o t)
              <=> IsInjective(s) /\ IsInjective(t) /\ Range(s) \cap Range(t) = {}
<1> DEFINE u == s \o t
<1>1. /\ u \in Seq(S) /\ Len(u) = Len(s) + Len(t)
      /\ \A i \in 1 .. Len(s) + Len(t) : u[i] = IF i <= Len(s) THEN s[i] ELSE t[i - Len(s)]
  BY ConcatProperties
<1>2. /\ DOMAIN s = 1 .. Len(s) /\ DOMAIN t = 1 .. Len(t) /\ Len(s) \in Nat /\ Len(t) \in Nat
      /\ DOMAIN u = 1 .. (Len(s) + Len(t))
  BY <1>1
<1> HIDE DEF u
<1>3. /\ \A i \in 1 .. Len(s) : i \in DOMAIN u /\ u[i] = s[i]
      /\ \A i \in 1 .. Len(t) : i + Len(s) \in DOMAIN u /\ u[i + Len(s)] = t[i]
  BY <1>1, <1>2
<1>4. ASSUME IsInjective(u)
      PROVE  IsInjective(s) /\ IsInjective(t) /\ Range(s) \cap Range(t) = {}
  <2>1. IsInjective(s)
    BY <1>2, <1>3, <1>4 DEF IsInjective
  <2>2. ASSUME NEW i \in DOMAIN t, NEW j \in DOMAIN t, t[i] = t[j] PROVE i = j
    <3>1. i + Len(s) = j + Len(s)
      BY <1>2, <1>3, <1>4, <2>2 DEF IsInjective
    <3> QED
      BY <1>2, <3>1
  <2>3. ASSUME NEW i \in DOMAIN s, NEW j \in DOMAIN t, s[i] = t[j] PROVE FALSE
    <3>1. i = j + Len(s)
      BY <1>2, <1>3, <1>4, <2>3 DEF IsInjective
    <3> QED
      BY <1>2, <3>1
  <2> QED
    BY <2>1, <2>2, <2>3 DEF IsInjective, Range
<1>5. ASSUME IsInjective(s), IsInjective(t), Range(s) \cap Range(t) = {},
             NEW i \in DOMAIN u, NEW j \in DOMAIN u, u[i] = u[j]
      PROVE  i = j
  <2>1. CASE i <= Len(s) /\ j <= Len(s)
    BY <1>1, <1>2, <1>5, <2>1 DEF IsInjective
  <2>2. CASE ~(i <= Len(s)) /\ ~(j <= Len(s))
    <3>1. i - Len(s) \in DOMAIN t /\ j - Len(s) \in DOMAIN t /\ t[i - Len(s)] = t[j - Len(s)]
      BY <1>1, <1>2, <1>5, <2>2
    <3>2. i - Len(s) = j - Len(s)
      BY <1>5, <3>1 DEF IsInjective
    <3> QED
      BY <1>2, <3>2
  <2>3. ASSUME NEW a \in DOMAIN u, NEW b \in DOMAIN u, a <= Len(s), ~(b <= Len(s)), u[a] = u[b]
        PROVE  FALSE
    <3>1. /\ a \in DOMAIN s /\ b - Len(s) \in DOMAIN t
          /\ u[a] = s[a] /\ u[b] = t[b - Len(s)]
      BY <1>1, <1>2, <2>3
    <3> QED
      BY <1>5, <2>3, <3>1 DEF Range
  <2> QED
    BY <1>5, <2>1, <2>2, <2>3
<1> QED
  BY <1>4, <1>5 DEF u, IsInjective

\* What alloc pops, and what it leaves (pager.rs alloc).
LEMMA FrontLast ==
    ASSUME NEW S, NEW s \in Seq(S), s # <<>>, IsInjective(s)
    PROVE  /\ Last(s) \in S /\ Last(s) \in Range(s)
           /\ Front(s) \in Seq(S) /\ IsInjective(Front(s))
           /\ Range(Front(s)) = Range(s) \ {Last(s)}
<1>1. Len(s) \in Nat /\ Len(s) > 0 /\ DOMAIN s = 1 .. Len(s)
  OBVIOUS
<1>2. /\ Front(s) \in Seq(S) /\ Len(Front(s)) = Len(s) - 1
      /\ \A i \in 1 .. (Len(s) - 1) : Front(s)[i] = s[i]
  BY <1>1 DEF Front
<1>3. DOMAIN Front(s) = 1 .. (Len(s) - 1)
  BY <1>1, <1>2
<1>4. IsInjective(Front(s))
  BY <1>1, <1>2, <1>3 DEF IsInjective
<1>5. Range(Front(s)) = {s[i] : i \in 1 .. (Len(s) - 1)}
  BY <1>2, <1>3 DEF Range
<1>6. \A i \in 1 .. (Len(s) - 1) : i \in DOMAIN s /\ s[i] # s[Len(s)]
  BY <1>1 DEF IsInjective
<1>7. Range(s) \ {Last(s)} = {s[i] : i \in 1 .. (Len(s) - 1)}
  BY <1>1, <1>6 DEF Range, Last
<1>8. Last(s) \in S /\ Last(s) \in Range(s)
  BY <1>1 DEF Last, Range
<1> QED
  BY <1>2, <1>4, <1>5, <1>7, <1>8

\* A sequence without repetition is as long as its range is large.
LEMMA InjLen ==
    ASSUME NEW S, NEW s \in Seq(S), IsInjective(s)
    PROVE  IsFiniteSet(Range(s)) /\ Cardinality(Range(s)) = Len(s)
<1>1. s \in [1 .. Len(s) -> Range(s)] /\ Len(s) \in Nat
  BY DEF Range
<1>2. s \in Bijection(1 .. Len(s), Range(s))
  BY <1>1 DEF Bijection, Injection, Surjection, Range
<1>3. ExistsBijection(1 .. Len(s), Range(s))
  BY <1>2 DEF ExistsBijection
<1> QED
  BY <1>1, <1>3, FS_CountingElements, FS_NatBijection

\* The pages of a set one after the other, each once (writer.rs reclaim).
LEMMA SetToSeqLists ==
    ASSUME NEW S, IsFiniteSet(S)
    PROVE  /\ SetToSeq(S) \in Seq(S) /\ IsInjective(SetToSeq(S))
           /\ Range(SetToSeq(S)) = S
<1> DEFINE n == Cardinality(S)
           f == SetToSeq(S)
<1>1. n \in Nat /\ ExistsBijection(1 .. n, S)
  BY FS_CardinalityType
<1>2. \E g \in [1 .. n -> S] : IsInjective(g)
  BY <1>1 DEF ExistsBijection, Bijection, Injection
<1>3. f \in [1 .. n -> S] /\ IsInjective(f)
  BY <1>2 DEF SetToSeq
<1> HIDE DEF f
<1>4. f \in Injection(1 .. n, S)
  BY <1>3 DEF Injection
<1>5. IsFiniteSet(1 .. n) /\ Cardinality(1 .. n) = n
  BY <1>1, FS_Interval
<1>6. f \in Surjection(1 .. n, S)
  BY <1>4, <1>5, FS_Injection
<1>7. Range(f) = S
  BY <1>3, <1>6 DEF Surjection, Range
<1>8. f \in Seq(S)
  BY <1>1, <1>3
<1> QED
  BY <1>3, <1>7, <1>8 DEF f

-----------------------------------------------------------------------------
(* Concatenating a sequence of sequences.                                  *)

\* The recursive function in FlattenSeq exists.
LEMMA FlattenExists ==
    ASSUME NEW S, NEW ss \in Seq(Seq(S)), Len(ss) > 0
    PROVE  \E f : f = [i \in 1 .. Len(ss) |-> IF i = 1 THEN ss[i] ELSE f[i - 1] \o ss[i]]
<1> DEFINE Ext(f, n) == f = [i \in 1 .. n |-> IF i = 1 THEN ss[i] ELSE f[i - 1] \o ss[i]]
           T == {n \in 1 .. Len(ss) : \E f : Ext(f, n)}
<1>1. Len(ss) \in Nat
  OBVIOUS
<1>2. 1 \in T
  <2> DEFINE f == [i \in 1 .. 1 |-> ss[i]]
  <2>1. Ext(f, 1)
    OBVIOUS
  <2>2. 1 \in 1 .. Len(ss)
    BY <1>1
  <2> HIDE DEF f, Ext
  <2> QED
    BY <2>1, <2>2
<1>3. ASSUME NEW n \in 1 .. (Len(ss) - 1), n \in T
      PROVE  n + 1 \in T
  <2>1. PICK f : Ext(f, n)
    BY <1>3
  <2> DEFINE g == [i \in 1 .. (n + 1) |-> IF i = n + 1 THEN f[n] \o ss[n + 1] ELSE f[i]]
             h == [i \in 1 .. (n + 1) |-> IF i = 1 THEN ss[i] ELSE g[i - 1] \o ss[i]]
  <2>2. \A i \in 1 .. (n + 1) : g[i] = h[i]
    <3>1. \A i \in 1 .. n : g[i] = f[i]
      BY <1>1
    <3>2. \A i \in 1 .. n : f[i] = IF i = 1 THEN ss[i] ELSE f[i - 1] \o ss[i]
      BY <2>1
    <3>3. ASSUME NEW i \in 1 .. n PROVE g[i] = h[i]
      <4>1. i # 1 => i - 1 \in 1 .. n
        BY <1>1
      <4>2. h[i] = IF i = 1 THEN ss[i] ELSE g[i - 1] \o ss[i]
        BY <1>1
      <4> HIDE DEF g, h
      <4> QED
        BY <3>1, <3>2, <4>1, <4>2
    <3>4. g[n + 1] = f[n] \o ss[n + 1] /\ g[n] = f[n]
      <4>1. n \in 1 .. (n + 1) /\ n + 1 \in 1 .. (n + 1) /\ n # n + 1
        BY <1>1
      <4> HIDE DEF h, T, Ext
      <4> QED
        BY <4>1, Zenon
    <3>5. h[n + 1] = g[n] \o ss[n + 1]
      <4>1. n + 1 \in 1 .. (n + 1) /\ n + 1 # 1 /\ (n + 1) - 1 = n
        BY <1>1
      <4> HIDE DEF g
      <4>2. h[n + 1] = g[(n + 1) - 1] \o ss[n + 1]
        BY <4>1
      <4> QED
        BY <4>1, <4>2
    <3>6. \A i \in 1 .. (n + 1) : i \in 1 .. n \/ i = n + 1
      BY <1>1
    <3> HIDE DEF g, h
    <3> QED
      BY <3>3, <3>4, <3>5, <3>6
  <2>3. g = h
    <3>1. DOMAIN g = 1 .. (n + 1) /\ DOMAIN h = 1 .. (n + 1)
      OBVIOUS
    <3>2. g = [i \in 1 .. (n + 1) |-> g[i]] /\ h = [i \in 1 .. (n + 1) |-> h[i]]
      OBVIOUS
    <3> HIDE DEF g, h
    <3> QED
      BY <2>2, <3>2
  <2>4. Ext(g, n + 1)
    BY <2>3
  <2>5. n + 1 \in 1 .. Len(ss)
    BY <1>1
  <2> HIDE DEF g, Ext
  <2> QED
    BY <2>4, <2>5
<1>4. \A k \in 1 .. Len(ss) : k \in T
  <2> HIDE DEF T
  <2> QED
    BY <1>1, <1>2, <1>3, Induct
<1>5. Len(ss) \in T
  <2>1. Len(ss) \in 1 .. Len(ss)
    BY <1>1
  <2> HIDE DEF T
  <2> QED
    BY <1>4, <2>1
<1>6. \E f : Ext(f, Len(ss))
  <2> HIDE DEF Ext
  <2> QED
    BY <1>5
<1> QED
  BY <1>6

\* FlattenSeq joins the lists one by one, from the first to the last.
LEMMA FlattenStep ==
    ASSUME NEW S, NEW ss \in Seq(Seq(S)), Len(ss) > 0
    PROVE  \E f : /\ f[1] = ss[1]
                  /\ \A i \in 1 .. (Len(ss) - 1) : f[i + 1] = f[i] \o ss[i + 1]
                  /\ FlattenSeq(ss) = f[Len(ss)]
<1> DEFINE Is(f) == f = [i \in 1 .. Len(ss) |-> IF i = 1 THEN ss[i] ELSE f[i - 1] \o ss[i]]
           F == CHOOSE f : Is(f)
<1>1. Is(F)
  BY FlattenExists
<1>2. FlattenSeq(ss) = F[Len(ss)]
  BY DEF FlattenSeq
<1>3. Len(ss) \in Nat
  OBVIOUS
<1> HIDE DEF F
<1>4. F[1] = ss[1]
  BY <1>1, <1>3
<1>5. ASSUME NEW i \in 1 .. (Len(ss) - 1) PROVE F[i + 1] = F[i] \o ss[i + 1]
  <2>1. i + 1 \in 1 .. Len(ss) /\ i + 1 # 1 /\ (i + 1) - 1 = i
    BY <1>3
  <2>2. F[i + 1] = F[(i + 1) - 1] \o ss[i + 1]
    BY <1>1, <2>1
  <2> QED
    BY <2>1, <2>2
<1> QED
  BY <1>2, <1>4, <1>5

\* The pieces of a sequence of sequences repeat nothing, alone or together.
Apart(ss) ==
    /\ \A i \in DOMAIN ss : IsInjective(ss[i])
    /\ \A i, j \in DOMAIN ss : i # j => Range(ss[i]) \cap Range(ss[j]) = {}

\* The joined list has the elements of the lists, none twice if they are apart.
LEMMA Flatten ==
    ASSUME NEW S, NEW ss \in Seq(Seq(S))
    PROVE  /\ FlattenSeq(ss) \in Seq(S)
           /\ Range(FlattenSeq(ss)) = UNION {Range(ss[i]) : i \in DOMAIN ss}
           /\ Apart(ss) => IsInjective(FlattenSeq(ss))
<1>1. Len(ss) \in Nat /\ DOMAIN ss = 1 .. Len(ss) /\ \A i \in DOMAIN ss : ss[i] \in Seq(S)
  OBVIOUS
<1>2. CASE Len(ss) = 0
  <2>1. FlattenSeq(ss) = <<>>
    BY <1>2 DEF FlattenSeq
  <2>2. <<>> \in Seq(S) /\ DOMAIN <<>> = {} /\ DOMAIN ss = {}
    BY <1>1, <1>2
  <2>3. Range(<<>>) = {} /\ IsInjective(<<>>)
    BY <2>2 DEF Range, IsInjective
  <2> QED
    BY <2>1, <2>2, <2>3
<1>3. CASE Len(ss) > 0
  <2>1. PICK f : /\ f[1] = ss[1]
                 /\ \A i \in 1 .. (Len(ss) - 1) : f[i + 1] = f[i] \o ss[i + 1]
                 /\ FlattenSeq(ss) = f[Len(ss)]
    BY <1>3, FlattenStep
  <2> DEFINE T == {n \in 1 .. Len(ss) : /\ f[n] \in Seq(S)
                                        /\ Range(f[n]) = UNION {Range(ss[i]) : i \in 1 .. n}
                                        /\ Apart(ss) => IsInjective(f[n])}
  <2>2. 1 \in T
    <3>1. 1 \in DOMAIN ss /\ 1 .. 1 = {1}
      BY <1>1, <1>3
    <3>2. UNION {Range(ss[i]) : i \in 1 .. 1} = Range(ss[1])
      BY <3>1
    <3> QED
      BY <1>1, <2>1, <3>1, <3>2 DEF Apart
  <2>3. ASSUME NEW n \in 1 .. (Len(ss) - 1), n \in T
        PROVE  n + 1 \in T
    <3>1. n \in Nat /\ n + 1 \in DOMAIN ss /\ n + 1 \in 1 .. Len(ss) /\ n + 1 \notin 1 .. n
      BY <1>1
    <3>2. 1 .. (n + 1) = (1 .. n) \cup {n + 1} /\ \A i \in 1 .. n : i \in DOMAIN ss
      BY <1>1, <3>1
    <3>3. /\ f[n] \in Seq(S) /\ Range(f[n]) = UNION {Range(ss[i]) : i \in 1 .. n}
          /\ Apart(ss) => IsInjective(f[n])
      BY <2>3
    <3>4. f[n + 1] = f[n] \o ss[n + 1] /\ ss[n + 1] \in Seq(S)
      BY <1>1, <2>1, <3>1
    <3>5. f[n + 1] \in Seq(S) /\ Range(f[n + 1]) = Range(f[n]) \cup Range(ss[n + 1])
      BY <3>3, <3>4, RangeConcatenation
    <3>6. Range(f[n + 1]) = UNION {Range(ss[i]) : i \in 1 .. (n + 1)}
      BY <3>2, <3>3, <3>5
    <3>7. ASSUME Apart(ss) PROVE IsInjective(f[n + 1])
      <4>1. \A i \in 1 .. n : Range(ss[i]) \cap Range(ss[n + 1]) = {}
        BY <3>1, <3>2, <3>7 DEF Apart
      <4>2. Range(f[n]) \cap Range(ss[n + 1]) = {}
        BY <3>3, <4>1
      <4>3. IsInjective(f[n]) /\ IsInjective(ss[n + 1])
        BY <3>1, <3>3, <3>7 DEF Apart
      <4> QED
        BY <3>3, <3>4, <4>2, <4>3, InjConcat
    <3> QED
      BY <3>1, <3>5, <3>6, <3>7
  <2>4. \A k \in 1 .. Len(ss) : k \in T
    <3> HIDE DEF T
    <3> QED
      BY <1>1, <1>3, <2>2, <2>3, Induct
  <2>5. Len(ss) \in T
    <3>1. Len(ss) \in 1 .. Len(ss)
      BY <1>1, <1>3
    <3> HIDE DEF T
    <3> QED
      BY <2>4, <3>1
  <2> QED
    BY <1>1, <2>1, <2>5
<1> QED
  BY <1>1, <1>2, <1>3

-----------------------------------------------------------------------------
(* Loading.                                                                *)

\* From page to page along the chain (pager.rs load_free_list).
LEMMA WalkStep ==
    ASSUME NEW img, NEW m
    PROVE  /\ Walk(img, m)[0] = m.head
           /\ \A k \in 0 .. (MaxPages - 1) :
                 Walk(img, m)[k + 1] = IF IsTrunk(img, m, Walk(img, m)[k])
                                       THEN img[Walk(img, m)[k]].next ELSE 0
<1> DEFINE Succ(p) == IF IsTrunk(img, m, p) THEN img[p].next ELSE 0
           Ext(f, n) == f = [k \in 0 .. n |-> IF k = 0 THEN m.head ELSE Succ(f[k - 1])]
           T == {n \in 0 .. MaxPages : \E f : Ext(f, n)}
           F == CHOOSE f : Ext(f, MaxPages)
<1>1. MaxPages \in Nat
  BY PagerBounds
<1>2. Walk(img, m) = F
  BY DEF Walk
<1> HIDE DEF Succ
<1>3. 0 \in T
  <2> DEFINE f == [k \in 0 .. 0 |-> m.head]
  <2>1. Ext(f, 0)
    OBVIOUS
  <2>2. 0 \in 0 .. MaxPages
    BY <1>1
  <2> HIDE DEF f, Ext
  <2> QED
    BY <2>1, <2>2
<1>4. ASSUME NEW n \in 0 .. (MaxPages - 1), n \in T
      PROVE  n + 1 \in T
  <2>1. PICK f : Ext(f, n)
    <3> HIDE DEF Ext
    <3> QED
      BY <1>4
  <2>2. n \in Nat /\ n + 1 \in 0 .. MaxPages
    BY <1>1
  <2> DEFINE g == [k \in 0 .. (n + 1) |-> IF k = n + 1 THEN Succ(f[n]) ELSE f[k]]
             h == [k \in 0 .. (n + 1) |-> IF k = 0 THEN m.head ELSE Succ(g[k - 1])]
  <2>3. \A k \in 0 .. n : g[k] = f[k] /\ f[k] = IF k = 0 THEN m.head ELSE Succ(f[k - 1])
    BY <2>1, <2>2
  <2>4. g[n + 1] = Succ(f[n])
    <3>1. n + 1 \in 0 .. (n + 1)
      BY <2>2
    <3> HIDE DEF h, T, Ext
    <3> QED
      BY <3>1, Zenon
  <2>5. \A k \in 0 .. (n + 1) : h[k] = IF k = 0 THEN m.head ELSE Succ(g[k - 1])
    <3> HIDE DEF g, T, Ext
    <3> QED
      BY Zenon
  <2>6. g = [k \in 0 .. (n + 1) |-> g[k]] /\ h = [k \in 0 .. (n + 1) |-> h[k]]
    OBVIOUS
  <2> HIDE DEF g, h
  <2>7. ASSUME NEW k \in 0 .. (n + 1) PROVE g[k] = h[k]
    <3>1. CASE k = 0
      BY <2>2, <2>3, <2>5, <3>1
    <3>2. CASE k \in 1 .. n
      <4>1. k \in 0 .. n /\ k - 1 \in 0 .. n /\ k # 0
        BY <2>2, <3>2
      <4> QED
        BY <2>3, <2>5, <4>1
    <3>3. CASE k = n + 1
      <4>1. k - 1 = n /\ n \in 0 .. n /\ k # 0
        BY <2>2, <3>3
      <4> QED
        BY <2>3, <2>4, <2>5, <3>3, <4>1
    <3> QED
      BY <2>2, <3>1, <3>2, <3>3
  <2>8. g = h
    BY <2>6, <2>7
  <2>9. Ext(g, n + 1)
    BY <2>8 DEF h
  <2> HIDE DEF Ext
  <2> QED
    BY <2>2, <2>9
<1>5. MaxPages \in T
  <2>1. \A k \in 0 .. MaxPages : k \in T
    <3> HIDE DEF T
    <3> QED
      BY <1>1, <1>3, <1>4, Induct
  <2>2. MaxPages \in 0 .. MaxPages
    BY <1>1
  <2> HIDE DEF T
  <2> QED
    BY <2>1, <2>2
<1>6. Ext(F, MaxPages)
  <2> HIDE DEF Ext
  <2> QED
    BY <1>5
<1> HIDE DEF F
<1>7. F[0] = m.head
  BY <1>1, <1>6
<1>8. ASSUME NEW k \in 0 .. (MaxPages - 1) PROVE F[k + 1] = Succ(F[k])
  <2>1. k + 1 \in 0 .. MaxPages /\ k + 1 # 0 /\ (k + 1) - 1 = k
    BY <1>1
  <2>2. F[k + 1] = Succ(F[(k + 1) - 1])
    BY <1>6, <2>1
  <2> QED
    BY <2>1, <2>2
<1> QED
  BY <1>2, <1>7, <1>8 DEF Succ

\* The chain from m's head is c[1], ..., c[n], and ends there.
Links(img, m, n, c) ==
    /\ c = [k \in 1 .. n |-> c[k]]
    /\ \A k \in 1 .. n : IsTrunk(img, m, c[k])
    /\ n = 0 => m.head = 0
    /\ n > 0 => c[1] = m.head /\ img[c[n]].next = 0
    /\ \A k \in 1 .. (n - 1) : c[k + 1] = img[c[k]].next

LoadedFrom(img, n, c) ==
    [ok |-> TRUE, trunks |-> c, free_set |-> FlattenSeq([k \in 1 .. n |-> img[c[k]].ids])]

\* load_free_list accepts a chain of trunks that ends, and returns it.
LEMMA LoadOfLinks ==
    ASSUME NEW img, NEW m, NEW n \in 0 .. MaxPages, NEW c, Links(img, m, n, c)
    PROVE  LoadFreeList(img, m) = LoadedFrom(img, n, c)
<1> DEFINE nth == Walk(img, m)
           ends == {k \in 0 .. MaxPages : ~IsTrunk(img, m, nth[k])}
           e == CHOOSE k \in ends : \A j \in ends : k <= j
           T == {k \in 1 .. n : nth[k - 1] = c[k]}
<1> HIDE DEF nth
<1>1. MaxPages \in Nat /\ n \in Nat
  BY PagerBounds
<1>2. /\ nth[0] = m.head
      /\ \A k \in 0 .. (MaxPages - 1) :
            nth[k + 1] = IF IsTrunk(img, m, nth[k]) THEN img[nth[k]].next ELSE 0
  BY WalkStep DEF nth
<1>3. ~IsTrunk(img, m, 0)
  BY DEF IsTrunk, FIRST_DATA_PAGE
<1>4. \A k \in 1 .. n : nth[k - 1] = c[k]
  <2>1. CASE n = 0
    BY <2>1
  <2>2. CASE n > 0
    <3>1. 1 \in T
      BY <1>1, <1>2, <2>2 DEF Links
    <3>2. ASSUME NEW k \in 1 .. (n - 1), k \in T PROVE k + 1 \in T
      <4>1. k \in Nat /\ k + 1 \in 1 .. n /\ k \in 1 .. n /\ k - 1 \in 0 .. (MaxPages - 1)
            /\ (k + 1) - 1 = k /\ (k - 1) + 1 = k
        BY <1>1
      <4>2. nth[k] = IF IsTrunk(img, m, nth[k - 1]) THEN img[nth[k - 1]].next ELSE 0
        BY <1>2, <4>1
      <4>3. nth[k - 1] = c[k] /\ IsTrunk(img, m, c[k]) /\ c[k + 1] = img[c[k]].next
        BY <3>2, <4>1 DEF Links
      <4> QED
        BY <4>1, <4>2, <4>3
    <3>3. \A k \in 1 .. n : k \in T
      <4> HIDE DEF T
      <4> QED
        BY <1>1, <2>2, <3>1, <3>2, Induct
    <3> QED
      BY <3>3
  <2> QED
    BY <1>1, <2>1, <2>2
<1>5. nth[n] = 0
  <2>1. CASE n = 0
    BY <1>2, <2>1 DEF Links
  <2>2. CASE n > 0
    <3>1. n \in 1 .. n /\ n - 1 \in 0 .. (MaxPages - 1) /\ (n - 1) + 1 = n
      BY <1>1, <2>2
    <3>2. nth[n] = IF IsTrunk(img, m, nth[n - 1]) THEN img[nth[n - 1]].next ELSE 0
      BY <1>2, <3>1
    <3>3. nth[n - 1] = c[n] /\ IsTrunk(img, m, c[n]) /\ img[c[n]].next = 0
      BY <1>4, <2>2, <3>1 DEF Links
    <3> QED
      BY <3>2, <3>3
  <2> QED
    BY <1>1, <2>1, <2>2
<1>6. n \in ends
  BY <1>3, <1>5
<1>7. ASSUME NEW k \in ends PROVE n <= k
  <2>1. SUFFICES ASSUME k < n PROVE FALSE
    BY <1>1
  <2>2. k + 1 \in 1 .. n /\ (k + 1) - 1 = k
    BY <1>1, <2>1
  <2>3. nth[k] = c[k + 1] /\ IsTrunk(img, m, c[k + 1])
    BY <1>4, <2>2 DEF Links
  <2> QED
    BY <2>3
<1>8. e = n
  <2>1. e \in ends /\ \A j \in ends : e <= j
    <3> HIDE DEF ends
    <3> QED
      BY <1>6, <1>7
  <2>2. e <= n /\ n <= e /\ e \in 0 .. MaxPages
    <3>1. e \in 0 .. MaxPages
      BY <2>1
    <3> HIDE DEF ends, e
    <3> QED
      BY <1>6, <1>7, <2>1, <3>1
  <2> HIDE DEF e
  <2> QED
    BY <1>1, <2>2
<1>9. LoadFreeList(img, m) =
        IF ends # {} /\ (e = 0 => m.head = 0) /\ (e > 0 => img[nth[e - 1]].next = 0)
        THEN [ok |-> TRUE, trunks |-> [k \in 1 .. e |-> nth[k - 1]],
              free_set |-> FlattenSeq([k \in 1 .. e |-> img[nth[k - 1]].ids])]
        ELSE [ok |-> FALSE, trunks |-> <<>>, free_set |-> <<>>]
  BY DEF LoadFreeList, nth
<1> HIDE DEF e
<1>10. /\ ends # {}
       /\ n = 0 => m.head = 0
       /\ n > 0 => img[nth[n - 1]].next = 0
  <2>1. n > 0 => n \in 1 .. n
    BY <1>1
  <2> QED
    BY <1>4, <1>6, <2>1 DEF Links
<1>11. [k \in 1 .. n |-> nth[k - 1]] = c
  BY <1>4 DEF Links
<1>12. [k \in 1 .. n |-> img[nth[k - 1]].ids] = [k \in 1 .. n |-> img[c[k]].ids]
  BY <1>4
<1> HIDE DEF ends
<1> QED
  BY <1>8, <1>9, <1>10, <1>11, <1>12 DEF LoadedFrom

\* What load_free_list returns is such a chain.
LEMMA LinksOfLoad ==
    ASSUME NEW img, NEW m, LoadFreeList(img, m).ok
    PROVE  \E n \in 0 .. MaxPages : \E c :
              Links(img, m, n, c) /\ LoadFreeList(img, m) = LoadedFrom(img, n, c)
<1> DEFINE nth == Walk(img, m)
           ends == {k \in 0 .. MaxPages : ~IsTrunk(img, m, nth[k])}
           e == CHOOSE k \in ends : \A j \in ends : k <= j
           c == [k \in 1 .. e |-> nth[k - 1]]
<1> HIDE DEF nth
<1>1. MaxPages \in Nat
  BY PagerBounds
<1>2. /\ nth[0] = m.head
      /\ \A k \in 0 .. (MaxPages - 1) :
            nth[k + 1] = IF IsTrunk(img, m, nth[k]) THEN img[nth[k]].next ELSE 0
  BY WalkStep DEF nth
<1>3. LoadFreeList(img, m) =
        IF ends # {} /\ (e = 0 => m.head = 0) /\ (e > 0 => img[nth[e - 1]].next = 0)
        THEN [ok |-> TRUE, trunks |-> [k \in 1 .. e |-> nth[k - 1]],
              free_set |-> FlattenSeq([k \in 1 .. e |-> img[nth[k - 1]].ids])]
        ELSE [ok |-> FALSE, trunks |-> <<>>, free_set |-> <<>>]
  BY DEF LoadFreeList, nth
<1>4. /\ ends # {} /\ (e = 0 => m.head = 0) /\ (e > 0 => img[nth[e - 1]].next = 0)
      /\ LoadFreeList(img, m) =
            [ok |-> TRUE, trunks |-> [k \in 1 .. e |-> nth[k - 1]],
             free_set |-> FlattenSeq([k \in 1 .. e |-> img[nth[k - 1]].ids])]
  <2> HIDE DEF ends, e
  <2> QED
    BY <1>3
<1>5. e \in ends /\ \A j \in ends : e <= j
  <2>1. ends \in SUBSET Nat
    BY <1>1
  <2> HIDE DEF ends
  <2>2. \E x \in ends : \A y \in ends : x <= y
    BY <1>4, <2>1, LeastNat
  <2> QED
    BY <2>2
<1>6. e \in 0 .. MaxPages /\ e \in Nat
  BY <1>1, <1>5
<1> HIDE DEF e
<1>7. \A k \in 1 .. e : c[k] = nth[k - 1]
  OBVIOUS
<1>8. ASSUME NEW k \in 1 .. e PROVE IsTrunk(img, m, nth[k - 1])
  <2>1. k - 1 \in 0 .. MaxPages /\ ~(e <= k - 1)
    BY <1>1, <1>6
  <2> QED
    BY <1>5, <2>1
<1>9. ASSUME NEW k \in 1 .. (e - 1) PROVE nth[(k + 1) - 1] = img[nth[k - 1]].next
  <2>1. k \in 1 .. e /\ k - 1 \in 0 .. (MaxPages - 1) /\ (k + 1) - 1 = k /\ (k - 1) + 1 = k
    BY <1>1, <1>6
  <2>2. nth[k] = IF IsTrunk(img, m, nth[k - 1]) THEN img[nth[k - 1]].next ELSE 0
    BY <1>2, <2>1
  <2> QED
    BY <1>8, <2>1, <2>2
<1>10. \A k \in 1 .. (e - 1) : k \in 1 .. e /\ k + 1 \in 1 .. e
  BY <1>6
<1>11. e > 0 => 1 \in 1 .. e /\ e \in 1 .. e /\ 1 - 1 = 0
  BY <1>6
<1>12. c = [k \in 1 .. e |-> c[k]]
  OBVIOUS
<1>13. [k \in 1 .. e |-> img[nth[k - 1]].ids] = [k \in 1 .. e |-> img[c[k]].ids]
  BY <1>7
<1>14. LoadFreeList(img, m) = LoadedFrom(img, e, c)
  BY <1>4, <1>13 DEF LoadedFrom
<1> HIDE DEF c
<1>15. Links(img, m, e, c)
  <2>1. \A k \in 1 .. e : IsTrunk(img, m, c[k])
    BY <1>7, <1>8
  <2>2. e > 0 => c[1] = m.head /\ img[c[e]].next = 0
    BY <1>2, <1>4, <1>7, <1>11
  <2>3. \A k \in 1 .. (e - 1) : c[k + 1] = img[c[k]].next
    BY <1>7, <1>9, <1>10
  <2> QED
    BY <1>4, <1>12, <2>1, <2>2, <2>3 DEF Links
<1> QED
  BY <1>6, <1>14, <1>15

\* What is loaded depends on the trunk pages alone: not on other pages, nor on
\* the high-water mark as long as it does not go down.
LEMMA LoadStable ==
    ASSUME NEW img, NEW m, NEW img2, NEW m2,
           LoadFreeList(img, m).ok,
           m2.head = m.head, m.page_count \in Nat, m2.page_count \in Nat,
           m.page_count <= m2.page_count,
           \A p \in Range(LoadFreeList(img, m).trunks) : img2[p] = img[p]
    PROVE  LoadFreeList(img2, m2) = LoadFreeList(img, m)
<1>1. PICK n, c :
         /\ n \in 0 .. MaxPages
         /\ Links(img, m, n, c)
         /\ LoadFreeList(img, m) = LoadedFrom(img, n, c)
  BY LinksOfLoad
<1>2. n \in Nat /\ \A k \in 1 .. (n - 1) : k \in 1 .. n
  BY <1>1, PagerBounds
<1>3. \A k \in 1 .. n : img2[c[k]] = img[c[k]]
  <2>1. LoadFreeList(img, m).trunks = c /\ DOMAIN c = 1 .. n
    BY <1>1 DEF LoadedFrom, Links
  <2> QED
    BY <2>1 DEF Range
<1>4. \A k \in 1 .. n : IsTrunk(img2, m2, c[k])
  <2> TAKE k \in 1 .. n
  <2>1. IsTrunk(img, m, c[k]) /\ img2[c[k]] = img[c[k]]
    BY <1>1, <1>3 DEF Links
  <2> QED
    BY <2>1 DEF IsTrunk, FIRST_DATA_PAGE
<1>5. Links(img2, m2, n, c)
  <2>1. n > 0 => n \in 1 .. n
    BY <1>2
  <2> QED
    BY <1>1, <1>2, <1>3, <1>4, <2>1 DEF Links
<1>6. LoadedFrom(img2, n, c) = LoadedFrom(img, n, c)
  BY <1>3 DEF LoadedFrom
<1> QED
  BY <1>1, <1>5, <1>6, LoadOfLinks

\* An empty list.
LEMMA LoadNothing ==
    ASSUME NEW img, NEW m, m.head = 0
    PROVE  LoadFreeList(img, m) = [ok |-> TRUE, trunks |-> <<>>, free_set |-> <<>>]
<1>1. 0 \in 0 .. MaxPages
  BY PagerBounds
<1>2. Links(img, m, 0, <<>>)
  BY DEF Links
<1>3. FlattenSeq([k \in 1 .. 0 |-> img[<<>>[k]].ids]) = <<>>
  <2>1. [k \in 1 .. 0 |-> img[<<>>[k]].ids] = <<>>
    OBVIOUS
  <2>2. FlattenSeq(<<>>) = <<>>
    BY DEF FlattenSeq
  <2> QED
    BY <2>1, <2>2
<1>4. LoadFreeList(img, m) = LoadedFrom(img, 0, <<>>)
  BY <1>1, <1>2, LoadOfLinks
<1> QED
  BY <1>3, <1>4, Zenon DEF LoadedFrom

-----------------------------------------------------------------------------
(* Rebuilding.  The ranges Low .. Top of the trunks partition the pool.    *)

\* Integer division.
LEMMA DivBounds ==
    ASSUME NEW x \in Nat, NEW y \in Nat, y > 0
    PROVE  /\ x \div y \in Nat /\ (x \div y) * y \in Nat
           /\ (x \div y) * y <= x /\ x < (x \div y) * y + y
OBVIOUS

\* The share of the g-th trunk lies within the pool and fits a trunk.
LEMMA TrunkBounds ==
    ASSUME NEW n \in Nat, NEW g \in 1 .. TrunkCount(n)
    PROVE  /\ TrunkCount(n) \in Nat
           /\ Top(n, g) \in 1 .. n /\ Low(n, g) \in 1 .. Top(n, g)
           /\ Top(n, g) - Low(n, g) <= CAPACITY
<1> DEFINE c == CAPACITY
           k == TrunkCount(n)
<1>1. c \in Nat /\ c > 0
  BY PagerBounds
<1>2. k \in Nat /\ k * (c + 1) <= n + c
  BY <1>1, DivBounds DEF TrunkCount
<1>3. g \in Nat /\ g >= 1 /\ g <= k
  BY <1>2
<1> HIDE DEF k, c
<1>4. (g - 1) * (c + 1) <= (k - 1) * (c + 1)
  BY <1>1, <1>2, <1>3
<1>5. (k - 1) * (c + 1) = k * (c + 1) - (c + 1)
  BY <1>1, <1>2
<1>6. (g - 1) * (c + 1) \in Nat
  BY <1>1, <1>3
<1>7. Top(n, g) \in 1 .. n
  <2>1. (g - 1) * (c + 1) + 1 <= n
    <3> DEFINE a == (g - 1) * (c + 1)
               b == k * (c + 1)
    <3>1. a <= b - (c + 1) /\ b <= n + c /\ a \in Nat /\ b \in Nat
      BY <1>1, <1>2, <1>4, <1>5, <1>6
    <3> HIDE DEF a, b
    <3>2. a + 1 <= n
      BY <1>1, <3>1
    <3> QED
      BY <3>2 DEF a
  <2> DEFINE a == (g - 1) * (c + 1)
  <2>2. Top(n, g) = n - a
    BY DEF Top, c
  <2>3. a \in Nat /\ a + 1 <= n
    BY <1>6, <2>1
  <2> HIDE DEF a
  <2> QED
    BY <2>2, <2>3
<1>8. Low(n, g) \in 1 .. Top(n, g) /\ Top(n, g) - Low(n, g) <= c
  BY <1>1, <1>7 DEF Low, c
<1> QED
  BY <1>2, <1>7, <1>8 DEF k, c

\* The shares of two trunks do not overlap; later trunks are further down.
LEMMA TrunksApart ==
    ASSUME NEW n \in Nat, NEW g \in 1 .. TrunkCount(n), NEW h \in 1 .. TrunkCount(n), g < h
    PROVE  Top(n, h) < Low(n, g)
<1> DEFINE c == CAPACITY
<1>1. c \in Nat /\ c > 0
  BY PagerBounds
<1>2. TrunkCount(n) \in Nat /\ g \in Nat /\ h \in Nat /\ g >= 1
  BY TrunkBounds
<1>3. Top(n, g) \in 1 .. n /\ Top(n, h) \in 1 .. n
  BY TrunkBounds
<1>4. g * (c + 1) <= (h - 1) * (c + 1)
  <2>1. g <= h - 1
    BY <1>2
  <2> HIDE DEF c
  <2> QED
    BY <1>1, <1>2, <2>1
<1>5. (g - 1) * (c + 1) = g * (c + 1) - (c + 1)
  BY <1>1, <1>2
<1>6. (g - 1) * (c + 1) + (c + 1) <= (h - 1) * (c + 1)
  BY <1>1, <1>2, <1>4, <1>5
<1>7. Top(n, h) + c + 1 <= Top(n, g)
  <2> DEFINE a == (g - 1) * (c + 1)
             b == (h - 1) * (c + 1)
  <2>1. Top(n, g) = n - a /\ Top(n, h) = n - b /\ a \in Nat /\ b \in Nat
    BY <1>1, <1>2 DEF Top
  <2>2. a + (c + 1) <= b
    BY <1>6
  <2> HIDE DEF a, b, c
  <2> QED
    BY <1>1, <2>1, <2>2
<1> QED
  BY <1>1, <1>3, <1>7 DEF Low

\* Every place of the pool is in the share of some trunk.
LEMMA TrunksCover ==
    ASSUME NEW n \in Nat, NEW i \in 1 .. n
    PROVE  \E g \in 1 .. TrunkCount(n) : i \in Low(n, g) .. Top(n, g)
<1> DEFINE c == CAPACITY
           q == (n - i) \div (c + 1)
           a == q * (c + 1)
<1>1. c \in Nat /\ c > 0
  BY PagerBounds
<1>2. q \in Nat /\ a \in Nat /\ a <= n - i /\ n - i < a + (c + 1)
  <2>1. n - i \in Nat /\ c + 1 \in Nat /\ c + 1 > 0
    BY <1>1
  <2> QED
    BY <2>1, DivBounds
<1>3. (q + 1) * (c + 1) = a + (c + 1)
  BY <1>1, <1>2
<1>4. q + 1 <= (n + c) \div (c + 1)
  <2> DEFINE k == (n + c) \div (c + 1)
  <2>1. k \in Nat /\ n + c < k * (c + 1) + (c + 1)
    BY <1>1, DivBounds
  <2>2. (k + 1) * (c + 1) = k * (c + 1) + (c + 1)
    BY <1>1, <2>1
  <2>3. (q + 1) * (c + 1) < (k + 1) * (c + 1)
    <3> DEFINE x == (q + 1) * (c + 1)
               y == (k + 1) * (c + 1)
               z == k * (c + 1)
    <3>1. x = a + (c + 1) /\ y = z + (c + 1) /\ n + c < z + (c + 1) /\ a <= n - i /\ a \in Nat /\ z \in Nat
      BY <1>1, <1>2, <1>3, <2>1, <2>2
    <3> HIDE DEF x, y, z, a, c
    <3> QED
      BY <1>1, <3>1
  <2>4. q + 1 < k + 1
    <3> HIDE DEF k, q
    <3> QED
      BY <1>1, <1>2, <2>1, <2>3
  <2> HIDE DEF k
  <2>5. q + 1 <= k
    BY <1>2, <2>1, <2>4
  <2> QED
    BY <2>5 DEF k
<1>5. q + 1 \in 1 .. TrunkCount(n)
  BY <1>1, <1>2, <1>4 DEF TrunkCount
<1>6. Top(n, q + 1) = n - a
  <2>1. (q + 1) - 1 = q
    BY <1>2
  <2> HIDE DEF q
  <2> QED
    BY <2>1 DEF Top
<1> HIDE DEF q, a
<1>7. i \in Low(n, q + 1) .. Top(n, q + 1)
  BY <1>1, <1>2, <1>6 DEF Low
<1> QED
  BY <1>5, <1>7

\* The ids that the g-th trunk holds (pager.rs rebuild_free_list).
LEMMA Taken ==
    ASSUME NEW pool \in Seq(Page), NEW g \in 1 .. TrunkCount(Len(pool))
    PROVE  /\ Container(pool, g) \in Page
           /\ TakenIds(pool, g) \in Seq(Page) /\ Len(TakenIds(pool, g)) <= CAPACITY
           /\ Range(TakenIds(pool, g)) =
                 {pool[i] : i \in Low(Len(pool), g) .. (Top(Len(pool), g) - 1)}
           /\ IsInjective(pool) => IsInjective(TakenIds(pool, g))
<1> DEFINE n == Len(pool)
           lo == Low(n, g)
           hi == Top(n, g)
           t == TakenIds(pool, g)
<1>1. n \in Nat /\ DOMAIN pool = 1 .. n /\ \A i \in 1 .. n : pool[i] \in Page
  OBVIOUS
<1>2. hi \in 1 .. n /\ lo \in 1 .. hi /\ hi - lo <= CAPACITY
  BY <1>1, TrunkBounds
<1>3. t = SubSeq(pool, lo, hi - 1)
  BY DEF TakenIds
<1>4. Container(pool, g) = pool[hi]
  BY DEF Container
<1> HIDE DEF n, lo, hi, t
<1>5. lo \in 1 .. n /\ hi - 1 \in (lo - 1) .. n
  BY <1>1, <1>2
<1>6. /\ t \in Seq(Page) /\ Len(t) = hi - lo /\ DOMAIN t = 1 .. (hi - lo)
      /\ \A j \in 1 .. (hi - lo) : t[j] = pool[lo + j - 1]
  <2>1. /\ t \in Seq(Page)
        /\ Len(t) = IF lo <= hi - 1 THEN (hi - 1) - lo + 1 ELSE 0
        /\ \A j \in 1 .. ((hi - 1) - lo + 1) : t[j] = pool[lo + j - 1]
    BY <1>1, <1>2, <1>3, <1>5, SubSeqProperties DEF n
  <2> QED
    BY <1>1, <1>2, <2>1
<1>7. Range(t) = {pool[i] : i \in lo .. (hi - 1)}
  <2>1. \A j \in 1 .. (hi - lo) : lo + j - 1 \in lo .. (hi - 1)
    BY <1>1, <1>2
  <2>2. \A i \in lo .. (hi - 1) : i - lo + 1 \in 1 .. (hi - lo) /\ lo + (i - lo + 1) - 1 = i
    BY <1>1, <1>2
  <2>3. ASSUME NEW i \in lo .. (hi - 1) PROVE \E j \in 1 .. (hi - lo) : t[j] = pool[i]
    <3>1. t[i - lo + 1] = pool[lo + (i - lo + 1) - 1]
      BY <1>6, <2>2
    <3> QED
      BY <2>2, <3>1
  <2>4. ASSUME NEW j \in 1 .. (hi - lo) PROVE \E i \in lo .. (hi - 1) : t[j] = pool[i]
    BY <1>6, <2>1
  <2>5. Range(t) = {t[j] : j \in 1 .. (hi - lo)}
    BY <1>6 DEF Range
  <2>6. Range(t) \subseteq {pool[i] : i \in lo .. (hi - 1)}
    BY <2>4, <2>5, Zenon
  <2>7. {pool[i] : i \in lo .. (hi - 1)} \subseteq Range(t)
    BY <2>3, <2>5, Zenon
  <2> QED
    BY <2>6, <2>7
<1>8. ASSUME IsInjective(pool) PROVE IsInjective(t)
  <2>1. SUFFICES ASSUME NEW i \in 1 .. (hi - lo), NEW j \in 1 .. (hi - lo), t[i] = t[j]
                 PROVE  i = j
    BY <1>6 DEF IsInjective
  <2>2. lo + i - 1 \in DOMAIN pool /\ lo + j - 1 \in DOMAIN pool
    BY <1>1, <1>2
  <2>3. pool[lo + i - 1] = pool[lo + j - 1]
    BY <1>6, <2>1
  <2>4. lo + i - 1 = lo + j - 1
    BY <1>8, <2>2, <2>3 DEF IsInjective
  <2> QED
    BY <1>1, <1>2, <2>4
<1> QED
  BY <1>1, <1>2, <1>4, <1>6, <1>7, <1>8 DEF lo, hi, n, t

Containers(pool) == [g \in 1 .. TrunkCount(Len(pool)) |-> Container(pool, g)]
Pieces(pool) == [g \in 1 .. TrunkCount(Len(pool)) |-> TakenIds(pool, g)]

\* The trunks and the ids they take are the pool, each page once.
LEMMA PoolParts ==
    ASSUME NEW pool \in Seq(Page), IsInjective(pool)
    PROVE  /\ TrunkCount(Len(pool)) \in Nat
           /\ Containers(pool) \in Seq(Page) /\ IsInjective(Containers(pool))
           /\ Pieces(pool) \in Seq(Seq(Page)) /\ Apart(Pieces(pool))
           /\ \A g \in DOMAIN Pieces(pool) : Range(Containers(pool)) \cap Range(Pieces(pool)[g]) = {}
           /\ (UNION {Range(Pieces(pool)[g]) : g \in DOMAIN Pieces(pool)}) \cup Range(Containers(pool))
                 = Range(pool)
<1> DEFINE n == Len(pool)
           k == TrunkCount(n)
           lo(g) == Low(n, g)
           hi(g) == Top(n, g)
           c == Containers(pool)
           tk == Pieces(pool)
<1>1. n \in Nat /\ DOMAIN pool = 1 .. n /\ \A i \in 1 .. n : pool[i] \in Page
  OBVIOUS
<1>2. k \in Nat
  <2>1. CAPACITY + 1 \in Nat /\ n + CAPACITY \in Nat /\ CAPACITY + 1 > 0
    BY <1>1, PagerBounds
  <2> QED
    BY <2>1, DivBounds DEF TrunkCount
<1>3. \A g \in 1 .. k : hi(g) \in 1 .. n /\ lo(g) \in 1 .. hi(g)
  BY <1>1, TrunkBounds
<1>4. \A g, h \in 1 .. k : g < h => hi(h) < lo(g)
  BY <1>1, TrunksApart
<1>5. \A i \in 1 .. n : \E g \in 1 .. k : i \in lo(g) .. hi(g)
  BY <1>1, TrunksCover
<1>6. \A g \in 1 .. k : /\ c[g] = pool[hi(g)] /\ c[g] \in Page
                        /\ tk[g] \in Seq(Page) /\ IsInjective(tk[g])
                        /\ Range(tk[g]) = {pool[i] : i \in lo(g) .. (hi(g) - 1)}
  BY Taken DEF Containers, Pieces, Container
<1>7. DOMAIN c = 1 .. k /\ DOMAIN tk = 1 .. k
  BY DEF Containers, Pieces
<1>8. c \in [1 .. k -> Page] /\ tk \in [1 .. k -> Seq(Page)]
  BY <1>6 DEF Containers, Pieces
<1> HIDE DEF n, k, lo, hi, c, tk
<1>9. c \in Seq(Page) /\ tk \in Seq(Seq(Page))
  BY <1>2, <1>8
<1>10. ASSUME NEW g \in 1 .. k, NEW h \in 1 .. k,
              NEW i \in lo(g) .. hi(g), NEW j \in lo(h) .. hi(h), pool[i] = pool[j]
       PROVE  g = h /\ i = j
  <2>1. i \in 1 .. n /\ j \in 1 .. n
    BY <1>1, <1>3
  <2>2. i = j
    BY <1>1, <1>10, <2>1 DEF IsInjective
  <2>3. /\ hi(g) \in 1 .. n /\ lo(g) \in 1 .. n /\ hi(h) \in 1 .. n /\ lo(h) \in 1 .. n
    BY <1>1, <1>3
  <2>4. ~(g < h) /\ ~(h < g)
    BY <1>1, <1>4, <2>1, <2>2, <2>3
  <2> QED
    BY <1>2, <2>2, <2>4
<1>11. \A g \in 1 .. k : /\ hi(g) \in lo(g) .. hi(g) /\ hi(g) \notin lo(g) .. (hi(g) - 1)
                         /\ lo(g) .. (hi(g) - 1) \subseteq lo(g) .. hi(g)
  BY <1>1, <1>3
<1>12. IsInjective(c)
  BY <1>6, <1>7, <1>10, <1>11 DEF IsInjective
<1>13. Apart(tk)
  <2>1. ASSUME NEW g \in 1 .. k, NEW h \in 1 .. k, g # h, NEW x \in Range(tk[g]), x \in Range(tk[h])
        PROVE  FALSE
    <3>1. PICK i \in lo(g) .. (hi(g) - 1) : x = pool[i]
      BY <1>6
    <3>2. PICK j \in lo(h) .. (hi(h) - 1) : x = pool[j]
      BY <1>6, <2>1
    <3> QED
      BY <1>10, <1>11, <2>1, <3>1, <3>2
  <2> QED
    BY <1>6, <1>7, <2>1 DEF Apart
<1>14. ASSUME NEW g \in 1 .. k, NEW x \in Range(c), x \in Range(tk[g]) PROVE FALSE
  <2>1. PICK h \in 1 .. k : x = pool[hi(h)]
    BY <1>6, <1>7 DEF Range
  <2>2. PICK i \in lo(g) .. (hi(g) - 1) : x = pool[i]
    BY <1>6, <1>14
  <2>3. hi(h) \in lo(h) .. hi(h) /\ i \in lo(g) .. hi(g)
    BY <1>11
  <2>4. g = h /\ i = hi(h)
    BY <1>10, <2>1, <2>2, <2>3
  <2> QED
    BY <1>11, <2>2, <2>4
<1>15. Range(pool) = {pool[i] : i \in 1 .. n}
  BY <1>1 DEF Range
<1>16. ASSUME NEW x \in Range(pool)
       PROVE  x \in Range(c) \/ \E g \in 1 .. k : x \in Range(tk[g])
  <2>1. PICK i \in 1 .. n : x = pool[i]
    BY <1>15
  <2>2. PICK g \in 1 .. k : i \in lo(g) .. hi(g)
    BY <1>5
  <2>3. i = hi(g) \/ i \in lo(g) .. (hi(g) - 1)
    BY <1>1, <1>3, <2>2
  <2>4. CASE i = hi(g)
    BY <1>6, <1>7, <2>1, <2>4 DEF Range
  <2>5. CASE i \in lo(g) .. (hi(g) - 1)
    BY <1>6, <2>1, <2>5
  <2> QED
    BY <2>3, <2>4, <2>5
<1>17. ASSUME NEW x \in Range(c) PROVE x \in Range(pool)
  <2>1. PICK h \in 1 .. k : x = pool[hi(h)]
    BY <1>6, <1>7 DEF Range
  <2> QED
    BY <1>3, <1>15, <2>1
<1>18. ASSUME NEW g \in 1 .. k, NEW x \in Range(tk[g]) PROVE x \in Range(pool)
  <2>1. PICK i \in lo(g) .. (hi(g) - 1) : x = pool[i]
    BY <1>6
  <2>2. i \in 1 .. n
    BY <1>1, <1>3
  <2> QED
    BY <1>15, <2>1, <2>2
<1>19. (UNION {Range(tk[g]) : g \in 1 .. k}) \cup Range(c) = Range(pool)
  BY <1>16, <1>17, <1>18
<1> QED
  BY <1>2, <1>7, <1>9, <1>12, <1>13, <1>14, <1>19 DEF c, tk, k, n

\* The chain that rebuild_free_list stages, trunk by trunk.
LEMMA TrunkFrames ==
    ASSUME NEW pool \in Seq(Page), IsInjective(pool)
    PROVE  /\ Rebuild(pool).trunks = Containers(pool)
           /\ Rebuild(pool).stored = FlattenSeq(Pieces(pool))
           /\ Rebuild(pool).head = IF TrunkCount(Len(pool)) = 0 THEN 0
                                   ELSE Containers(pool)[TrunkCount(Len(pool))]
           /\ DOMAIN Rebuild(pool).frames = Range(Containers(pool))
           /\ \A g \in 1 .. TrunkCount(Len(pool)) :
                 Rebuild(pool).frames[Containers(pool)[g]] =
                    TrunkFrame(IF g = 1 THEN 0 ELSE Containers(pool)[g - 1], Pieces(pool)[g])
<1> DEFINE k == TrunkCount(Len(pool))
           c == Containers(pool)
           At(p) == CHOOSE g \in 1 .. k : c[g] = p
           fr == [p \in Range(c) |->
                     TrunkFrame(IF At(p) = 1 THEN 0 ELSE c[At(p) - 1], TakenIds(pool, At(p)))]
<1>1. Rebuild(pool) = [trunks |-> c, head |-> IF k = 0 THEN 0 ELSE c[k],
                       stored |-> FlattenSeq(Pieces(pool)), frames |-> fr]
  BY DEF Rebuild, Containers, Pieces
<1>2. ASSUME NEW g \in 1 .. k
      PROVE  fr[c[g]] = TrunkFrame(IF g = 1 THEN 0 ELSE c[g - 1], Pieces(pool)[g])
  <2>1. IsInjective(c) /\ DOMAIN c = 1 .. k
    BY PoolParts DEF Containers
  <2>2. c[g] \in Range(c)
    BY <2>1 DEF Range
  <2> HIDE DEF c, k
  <2>3. At(c[g]) = g
    <3>1. At(c[g]) \in 1 .. k /\ c[At(c[g])] = c[g]
      OBVIOUS
    <3> HIDE DEF At
    <3> QED
      BY <2>1, <3>1 DEF IsInjective
  <2>4. Pieces(pool)[g] = TakenIds(pool, g)
    BY DEF Pieces, k
  <2>5. fr[c[g]] = TrunkFrame(IF At(c[g]) = 1 THEN 0 ELSE c[At(c[g]) - 1], TakenIds(pool, At(c[g])))
    <3> HIDE DEF At
    <3> QED
      BY <2>2
  <2> HIDE DEF At, fr
  <2> QED
    BY <2>3, <2>4, <2>5
<1>3. DOMAIN fr = Range(c)
  OBVIOUS
<1> HIDE DEF fr
<1> QED
  BY <1>1, <1>2, <1>3

\* rebuild_free_list stores the pool, less the pages it spends on trunks.
LEMMA RebuildParts ==
    ASSUME NEW pool \in Seq(Page), IsInjective(pool)
    PROVE  /\ Rebuild(pool).trunks \in Seq(Page) /\ Rebuild(pool).stored \in Seq(Page)
           /\ IsInjective(Rebuild(pool).stored \o Rebuild(pool).trunks)
           /\ Range(Rebuild(pool).stored) \cup Range(Rebuild(pool).trunks) = Range(pool)
           /\ Rebuild(pool).head \in Page \cup {0}
           /\ DOMAIN Rebuild(pool).frames = Range(Rebuild(pool).trunks)
           /\ \A p \in DOMAIN Rebuild(pool).frames :
                 Rebuild(pool).frames[p]
                    \in [kind : {"trunk"}, next : Page \cup {0}, ids : TrunkIds]
<1> DEFINE r == Rebuild(pool)
           k == TrunkCount(Len(pool))
           c == Containers(pool)
           tk == Pieces(pool)
<1>1. /\ r.trunks = c /\ r.stored = FlattenSeq(tk)
      /\ r.head = IF k = 0 THEN 0 ELSE c[k]
      /\ DOMAIN r.frames = Range(c)
      /\ \A g \in 1 .. k : r.frames[c[g]] = TrunkFrame(IF g = 1 THEN 0 ELSE c[g - 1], tk[g])
  BY TrunkFrames
<1>2. /\ k \in Nat /\ c \in Seq(Page) /\ IsInjective(c) /\ tk \in Seq(Seq(Page)) /\ Apart(tk)
      /\ \A g \in DOMAIN tk : Range(c) \cap Range(tk[g]) = {}
      /\ (UNION {Range(tk[g]) : g \in DOMAIN tk}) \cup Range(c) = Range(pool)
  BY PoolParts
<1>3. DOMAIN c = 1 .. k /\ DOMAIN tk = 1 .. k
  BY DEF Containers, Pieces
<1>4. \A g \in 1 .. k : tk[g] \in Seq(Page) /\ Len(tk[g]) <= CAPACITY /\ c[g] \in Page
  BY Taken DEF Pieces, Containers
<1> HIDE DEF r, k, c, tk
<1>5. /\ FlattenSeq(tk) \in Seq(Page)
      /\ Range(FlattenSeq(tk)) = UNION {Range(tk[g]) : g \in DOMAIN tk}
      /\ IsInjective(FlattenSeq(tk))
  BY <1>2, Flatten
<1>6. Range(r.stored) \cup Range(r.trunks) = Range(pool)
  BY <1>1, <1>2, <1>5
<1>7. Range(r.stored) \cap Range(r.trunks) = {}
  BY <1>1, <1>2, <1>5
<1>8. IsInjective(r.stored \o r.trunks)
  BY <1>1, <1>2, <1>5, <1>7, InjConcat
<1>9. r.head \in Page \cup {0}
  <2>1. k # 0 => k \in 1 .. k
    BY <1>2
  <2> QED
    BY <1>1, <1>4, <2>1
<1>10. ASSUME NEW p \in DOMAIN r.frames
       PROVE  r.frames[p] \in [kind : {"trunk"}, next : Page \cup {0}, ids : TrunkIds]
  <2>1. PICK g \in 1 .. k : p = c[g]
    BY <1>1, <1>3 DEF Range
  <2>2. tk[g] \in TrunkIds
    <3>1. Len(tk[g]) \in 0 .. CAPACITY /\ tk[g] \in [1 .. Len(tk[g]) -> Page]
      BY <1>4, PagerBounds
    <3> QED
      BY <3>1 DEF TrunkIds
  <2>3. g # 1 => g - 1 \in 1 .. k
    BY <1>2
  <2>4. (IF g = 1 THEN 0 ELSE c[g - 1]) \in Page \cup {0}
    BY <1>4, <2>3
  <2> DEFINE next == IF g = 1 THEN 0 ELSE c[g - 1]
  <2>5. r.frames[p] = TrunkFrame(next, tk[g])
    BY <1>1, <2>1
  <2>6. next \in Page \cup {0}
    BY <2>4
  <2> HIDE DEF next
  <2> QED
    BY <2>2, <2>5, <2>6 DEF TrunkFrame
<1> QED
  BY <1>1, <1>2, <1>5, <1>6, <1>8, <1>9, <1>10 DEF r

\* There are no more trunks than a walk along the chain can visit.
LEMMA PoolFits ==
    ASSUME NEW pool \in Seq(Page), IsInjective(pool)
    PROVE  TrunkCount(Len(pool)) \in 0 .. MaxPages
<1> DEFINE n == Len(pool)
           k == TrunkCount(n)
           c == Containers(pool)
<1>1. k \in Nat /\ c \in Seq(Page) /\ IsInjective(c)
  BY PoolParts
<1>2. DOMAIN c = 1 .. k
  BY DEF Containers
<1> HIDE DEF c, k
<1>3. Len(c) = k
  BY <1>1, <1>2
<1>4. IsFiniteSet(Page) /\ Cardinality(Page) = MaxPages - 2
  BY PagerBounds, FS_Interval DEF Page, FIRST_DATA_PAGE
<1>5. Range(c) \subseteq Page
  BY <1>1, RangeOfSeq
<1>6. Cardinality(Range(c)) = k
  BY <1>1, <1>3, InjLen
<1>7. Cardinality(Range(c)) <= Cardinality(Page)
  BY <1>4, <1>5, FS_Subset
<1>8. k <= MaxPages
  BY <1>1, <1>4, <1>6, <1>7, PagerBounds
<1> QED
  BY <1>1, <1>8, PagerBounds DEF k, n

\* load_free_list reads back what rebuild_free_list wrote.
LEMMA LoadRebuilt ==
    ASSUME NEW pool \in Seq(Page), IsInjective(pool), NEW img, NEW m,
           m.head = Rebuild(pool).head, m.page_count \in Nat,
           Range(pool) \subseteq FIRST_DATA_PAGE .. (m.page_count - 1),
           \A p \in DOMAIN Rebuild(pool).frames : img[p] = Rebuild(pool).frames[p]
    PROVE  LET l == LoadFreeList(img, m)
               r == Rebuild(pool)
           IN  /\ l.ok /\ l.free_set \in Seq(Page) /\ l.trunks \in Seq(Page)
               /\ IsInjective(l.free_set \o l.trunks)
               /\ Range(l.trunks) = Range(r.trunks)
               /\ Range(l.free_set) = Range(r.stored)
               /\ Len(l.free_set) = Len(r.stored)
<1> DEFINE l == LoadFreeList(img, m)
           r == Rebuild(pool)
           k == TrunkCount(Len(pool))
           c == Containers(pool)
           tk == Pieces(pool)
           d == [j \in 1 .. k |-> c[(k + 1) - j]]
           td == [j \in 1 .. k |-> tk[(k + 1) - j]]
<1>1. /\ r.trunks = c /\ r.stored = FlattenSeq(tk)
      /\ r.head = IF k = 0 THEN 0 ELSE c[k]
      /\ DOMAIN r.frames = Range(c)
      /\ \A g \in 1 .. k : r.frames[c[g]] = TrunkFrame(IF g = 1 THEN 0 ELSE c[g - 1], tk[g])
  BY TrunkFrames
<1>2. /\ k \in Nat /\ c \in Seq(Page) /\ IsInjective(c) /\ tk \in Seq(Seq(Page)) /\ Apart(tk)
      /\ \A g \in DOMAIN tk : Range(c) \cap Range(tk[g]) = {}
      /\ (UNION {Range(tk[g]) : g \in DOMAIN tk}) \cup Range(c) = Range(pool)
  BY PoolParts
<1>3. DOMAIN c = 1 .. k /\ DOMAIN tk = 1 .. k
  BY DEF Containers, Pieces
<1>4. \A g \in 1 .. k : tk[g] \in Seq(Page) /\ Len(tk[g]) <= CAPACITY /\ c[g] \in Page
  BY Taken DEF Pieces, Containers
<1>5. k \in 0 .. MaxPages
  BY PoolFits
<1>6. m.head = r.head /\ \A p \in Range(c) : img[p] = r.frames[p]
  BY <1>1
<1> HIDE DEF l, r, k, c, tk
<1>7. \A j \in 1 .. k : (k + 1) - j \in 1 .. k /\ (k + 1) - ((k + 1) - j) = j
  BY <1>2
<1>8. /\ \A j \in 1 .. k : d[j] = c[(k + 1) - j] /\ td[j] = tk[(k + 1) - j]
      /\ DOMAIN d = 1 .. k /\ DOMAIN td = 1 .. k
  OBVIOUS
<1>9. d \in Seq(Page) /\ td \in Seq(Seq(Page))
  <2>1. d \in [1 .. k -> Page] /\ td \in [1 .. k -> Seq(Page)]
    BY <1>4, <1>7
  <2> HIDE DEF d, td
  <2>2. d \in Seq(Page)
    BY <1>2, <2>1, SeqOfFcn
  <2>3. td \in Seq(Seq(Page))
    BY <1>2, <2>1, SeqOfFcn
  <2> QED
    BY <2>2, <2>3
<1>10. d = [j \in 1 .. k |-> d[j]] /\ td = [j \in 1 .. k |-> td[j]]
  OBVIOUS
<1> HIDE DEF d, td
<1>11. Range(d) = Range(c)
  <2>1. \A g \in 1 .. k : d[(k + 1) - g] = c[g] /\ (k + 1) - g \in 1 .. k
    BY <1>7, <1>8
  <2> QED
    BY <1>3, <1>7, <1>8, <2>1 DEF Range
<1>12. UNION {Range(td[j]) : j \in DOMAIN td} = UNION {Range(tk[g]) : g \in DOMAIN tk}
  <2>1. \A g \in 1 .. k : td[(k + 1) - g] = tk[g] /\ (k + 1) - g \in 1 .. k
    BY <1>7, <1>8
  <2> QED
    BY <1>3, <1>7, <1>8, <2>1
<1>13. \A i, j \in 1 .. k : (k + 1) - i = (k + 1) - j => i = j
  BY <1>2
<1>14. IsInjective(d)
  BY <1>2, <1>3, <1>7, <1>8, <1>13 DEF IsInjective
<1>15. Apart(td)
  <2>1. /\ \A g \in 1 .. k : IsInjective(tk[g])
        /\ \A g, h \in 1 .. k : g # h => Range(tk[g]) \cap Range(tk[h]) = {}
    BY <1>2, <1>3 DEF Apart
  <2>2. \A j \in 1 .. k : IsInjective(td[j])
    BY <1>7, <1>8, <2>1
  <2>3. ASSUME NEW i \in 1 .. k, NEW j \in 1 .. k, i # j
        PROVE  Range(td[i]) \cap Range(td[j]) = {}
    <3>1. (k + 1) - i \in 1 .. k /\ (k + 1) - j \in 1 .. k /\ (k + 1) - i # (k + 1) - j
      BY <1>7, <1>13, <2>3
    <3>2. td[i] = tk[(k + 1) - i] /\ td[j] = tk[(k + 1) - j]
      BY <1>8
    <3> QED
      BY <2>1, <3>1, <3>2
  <2> QED
    BY <1>8, <2>2, <2>3 DEF Apart
<1>16. ASSUME NEW j \in 1 .. k
       PROVE  img[d[j]] = TrunkFrame(IF j = k THEN 0 ELSE d[j + 1], td[j])
  <2>1. (k + 1) - j \in 1 .. k /\ ((k + 1) - j = 1 <=> j = k)
        /\ (j # k => j + 1 \in 1 .. k /\ (k + 1) - (j + 1) = ((k + 1) - j) - 1)
    BY <1>2
  <2>2. d[j] \in Range(c) /\ d[j] = c[(k + 1) - j] /\ td[j] = tk[(k + 1) - j]
    BY <1>3, <1>8, <2>1 DEF Range
  <2>3. img[d[j]] = TrunkFrame(IF (k + 1) - j = 1 THEN 0 ELSE c[((k + 1) - j) - 1], tk[(k + 1) - j])
    BY <1>1, <1>6, <2>1, <2>2
  <2>4. j # k => d[j + 1] = c[((k + 1) - j) - 1]
    BY <1>8, <2>1
  <2> QED
    BY <2>1, <2>2, <2>3, <2>4
<1>17. \A j \in 1 .. k : /\ img[d[j]].kind = "trunk" /\ img[d[j]].ids = td[j]
                         /\ img[d[j]].next = IF j = k THEN 0 ELSE d[j + 1]
  <2> TAKE j \in 1 .. k
  <2> DEFINE next == IF j = k THEN 0 ELSE d[j + 1]
  <2>1. img[d[j]] = TrunkFrame(next, td[j])
    BY <1>16
  <2> HIDE DEF next
  <2>2. img[d[j]].kind = "trunk" /\ img[d[j]].ids = td[j] /\ img[d[j]].next = next
    BY <2>1 DEF TrunkFrame
  <2> QED
    BY <2>2 DEF next
<1>18. Links(img, m, k, d)
  <2>1. \A j \in 1 .. k : IsTrunk(img, m, d[j])
    <3> TAKE j \in 1 .. k
    <3>1. d[j] \in FIRST_DATA_PAGE .. (m.page_count - 1)
      BY <1>2, <1>8, <1>11 DEF Range
    <3>2. Len(td[j]) <= CAPACITY
      BY <1>4, <1>7, <1>8
    <3> QED
      BY <1>17, <3>1, <3>2 DEF IsTrunk
  <2>2. k = 0 => m.head = 0
    BY <1>1, <1>6
  <2>3. k > 0 => d[1] = m.head /\ img[d[k]].next = 0
    <3>1. k > 0 => 1 \in 1 .. k /\ k \in 1 .. k /\ (k + 1) - 1 = k /\ k # 0
      BY <1>2
    <3> QED
      BY <1>1, <1>6, <1>8, <1>17, <3>1
  <2>4. \A j \in 1 .. (k - 1) : d[j + 1] = img[d[j]].next
    <3>1. \A j \in 1 .. (k - 1) : j \in 1 .. k /\ j # k
      BY <1>2
    <3> QED
      BY <1>17, <3>1
  <2> QED
    BY <1>10, <2>1, <2>2, <2>3, <2>4 DEF Links
<1>19. [j \in 1 .. k |-> img[d[j]].ids] = td
  BY <1>10, <1>17
<1>20. l = [ok |-> TRUE, trunks |-> d, free_set |-> FlattenSeq(td)]
  BY <1>5, <1>18, <1>19, LoadOfLinks DEF LoadedFrom, l
<1>21. /\ FlattenSeq(td) \in Seq(Page) /\ IsInjective(FlattenSeq(td))
       /\ Range(FlattenSeq(td)) = UNION {Range(td[j]) : j \in DOMAIN td}
  BY <1>9, <1>15, Flatten
<1>22. /\ FlattenSeq(tk) \in Seq(Page) /\ IsInjective(FlattenSeq(tk))
       /\ Range(FlattenSeq(tk)) = UNION {Range(tk[g]) : g \in DOMAIN tk}
  BY <1>2, Flatten
<1>23. Range(FlattenSeq(td)) = Range(FlattenSeq(tk))
  BY <1>12, <1>21, <1>22
<1>24. Len(FlattenSeq(td)) = Len(FlattenSeq(tk))
  <2>1. Cardinality(Range(FlattenSeq(td))) = Len(FlattenSeq(td))
    BY <1>21, InjLen
  <2>2. Cardinality(Range(FlattenSeq(tk))) = Len(FlattenSeq(tk))
    BY <1>22, InjLen
  <2> QED
    BY <1>23, <2>1, <2>2
<1>25. IsInjective(FlattenSeq(td) \o d)
  <2>1. Range(FlattenSeq(td)) \cap Range(d) = {}
    BY <1>2, <1>11, <1>22, <1>23
  <2> QED
    BY <1>9, <1>14, <1>21, <2>1, InjConcat
<1> QED
  BY <1>1, <1>9, <1>11, <1>20, <1>21, <1>23, <1>24, <1>25 DEF l, r
=============================================================================
