--------------------------- MODULE DocumentsProofs ---------------------------
(***************************************************************************)
(* What the documents of a deployment promise, for every manifest: proofs  *)
(* about the operators of BOSHManifest, InstanceGroupResolver and          *)
(* BPMConverter that Rollout computes them with.                           *)
(*                                                                         *)
(* Loops are recursive functions over the positions of a list.  That there *)
(* is such a function, and what it returns, is shown by induction on the   *)
(* position: a property that fails somewhere fails at a least position.    *)
(***************************************************************************)
EXTENDS Rollout, WellFoundedInduction, SequenceTheorems, FunctionTheorems,
        FiniteSetTheorems, TLAPS

-----------------------------------------------------------------------------
(* Induction, sequences and FlattenSeq.                                    *)

LEMMA LeastNat ==
    ASSUME NEW T \in SUBSET Nat, T # {}
    PROVE \E x \in T : \A y \in T : x <= y
<1>1. \E x \in T : \A y \in T : ~(<<y, x>> \in OpToRel(<, Nat))
  BY WFMin, NatLessThanWellFounded
<1>2. PICK x \in T : \A y \in T : ~(<<y, x>> \in OpToRel(<, Nat))
  BY <1>1
<1>3. \A y \in T : ~(y < x)
  BY <1>2 DEF OpToRel
<1> QED BY <1>3

LEMMA Induction ==
    ASSUME NEW a \in Nat, NEW n \in Nat, NEW T, a \in T,
           \A k \in (a + 1)..n : k - 1 \in T => k \in T
    PROVE  \A k \in a..n : k \in T
<1> DEFINE U == {k \in a..n : k \notin T}
<1> SUFFICES ASSUME U # {} PROVE FALSE OBVIOUS
<1>1. U \in SUBSET Nat OBVIOUS
<1> HIDE DEF U
<1>2. PICK k \in U : \A y \in U : k <= y BY <1>1, LeastNat
<1>3. k \in a..n /\ k \notin T BY <1>2 DEF U
<1>4. k \in (a + 1)..n BY <1>3
<1>5. k - 1 \in a..n /\ ~(k <= k - 1) BY <1>4
<1>6. k - 1 \in T BY <1>5, <1>2 DEF U
<1> QED BY <1>3, <1>4, <1>6

LEMMA SeqIsSeq == ASSUME NEW S, NEW s \in Seq(S) PROVE IsSeq(s)
BY DEF IsSeq, ToSet

LEMMA IsSeqProperties ==
    ASSUME NEW s, IsSeq(s)
    PROVE Len(s) \in Nat /\ DOMAIN s = 1..Len(s) /\ s = [k \in 1..Len(s) |-> s[k]]
BY DEF IsSeq

LEMMA FunctionIsSeq ==
    ASSUME NEW n \in Nat, NEW s, s = [k \in 1..n |-> s[k]]
    PROVE IsSeq(s) /\ Len(s) = n /\ DOMAIN s = 1..n
<1>1. DOMAIN s = 1..n OBVIOUS
<1>2. s \in [1..n -> ToSet(s)] BY <1>1 DEF ToSet
<1> QED BY <1>1, <1>2 DEF IsSeq

LEMMA ConcatIsSeq ==
    ASSUME NEW s, NEW t, IsSeq(s), IsSeq(t)
    PROVE  /\ IsSeq(s \o t)
           /\ Len(s \o t) = Len(s) + Len(t)
           /\ \A k \in 1..Len(s) : (s \o t)[k] = s[k]
           /\ \A k \in 1..Len(t) : (s \o t)[Len(s) + k] = t[k]
<1> DEFINE S == ToSet(s) \cup ToSet(t)
<1>1. s \in Seq(S) /\ t \in Seq(S) BY DEF IsSeq
<1> HIDE DEF S
<1>2. s \o t \in Seq(S) BY <1>1
<1>3. IsSeq(s \o t) BY <1>2, SeqIsSeq
<1> QED BY <1>1, <1>2, <1>3

LEMMA ConcatRight ==
    ASSUME NEW s, NEW t, IsSeq(s), IsSeq(t), NEW k \in 1..Len(t)
    PROVE  (s \o t)[Len(s) + k] = t[k]
BY ConcatIsSeq

\* The joins of the first i sequences.
Joins(seqs, n, f) == f = [i \in 1..n |-> IF i = 1 THEN seqs[i] ELSE f[i - 1] \o seqs[i]]
HasJoins(seqs, n) == \E f : Joins(seqs, n, f)

LEMMA JoinFirst ==
    ASSUME NEW seqs
    PROVE HasJoins(seqs, 1)
<1> DEFINE f == [i \in 1..1 |-> seqs[i]]
<1>2. Joins(seqs, 1, f) BY DEF Joins
<1> QED BY <1>2, Zenon DEF HasJoins

LEMMA JoinNext ==
    ASSUME NEW seqs, NEW n \in Nat, NEW k \in 2..n, HasJoins(seqs, k - 1)
    PROVE HasJoins(seqs, k)
<1>1. PICK f : Joins(seqs, k - 1, f) BY DEF HasJoins
<1> DEFINE h == [i \in 1..k |-> IF i = k THEN f[k - 1] \o seqs[k] ELSE f[i]]
<1>5. ASSUME NEW i \in 1..k
      PROVE h[i] = IF i = 1 THEN seqs[i] ELSE h[i - 1] \o seqs[i]
  <2>1. CASE i = k
    <3>1. i # 1 /\ k - 1 \in 1..k /\ k - 1 # k BY <2>1
    <3>2. h[k - 1] = f[k - 1] BY <3>1
    <3>3. k \in 1..k OBVIOUS
    <3>4. h[k] = f[k - 1] \o seqs[k] BY <3>3, Zenon
    <3> QED BY <3>1, <3>2, <3>4, <2>1
  <2>2. CASE i # k
    <3>1. i \in 1..(k-1) BY <2>2
    <3>2. f[i] = IF i = 1 THEN seqs[i] ELSE f[i - 1] \o seqs[i]
      BY <3>1, <1>1, Zenon DEF Joins
    <3>3. h[i] = f[i] BY <2>2
    <3>4. CASE i = 1 BY <3>3, <3>2, <3>4
    <3>5. CASE i # 1
      <4>1. h[i - 1] = f[i - 1] BY <3>5, <3>1
      <4> QED BY <3>2, <3>3, <3>5, <4>1
    <3> QED BY <3>4, <3>5
  <2> QED BY <2>1, <2>2
<1>6. Joins(seqs, k, h) BY <1>5, Zenon DEF Joins
<1> QED BY <1>6, Zenon DEF HasJoins

LEMMA FlattenIsJoin ==
    ASSUME NEW seqs, Len(seqs) \in Nat \ {0}
    PROVE \E f : Joins(seqs, Len(seqs), f) /\ FlattenSeq(seqs) = f[Len(seqs)]
<1> DEFINE T == {k \in Nat : HasJoins(seqs, k)}
           g == CHOOSE h : Joins(seqs, Len(seqs), h)
<1>1. 1 \in T BY JoinFirst
<1>2. ASSUME NEW k \in (1 + 1)..Len(seqs), k - 1 \in T PROVE k \in T
  <2>1. k \in 2..Len(seqs) /\ k \in Nat OBVIOUS
  <2>2. HasJoins(seqs, k - 1) BY <1>2
  <2>3. HasJoins(seqs, k) BY <2>1, <2>2, JoinNext
  <2> QED BY <2>1, <2>3
<1>3. \A k \in 1..Len(seqs) : k \in T
  <2> HIDE DEF T
  <2>1. 1 \in Nat /\ Len(seqs) \in Nat OBVIOUS
  <2> QED BY <1>1, <1>2, <2>1, Induction
<1>4. HasJoins(seqs, Len(seqs)) BY <1>3
<1>5. Joins(seqs, Len(seqs), g) BY <1>4, Zenon DEF HasJoins
<1>6. FlattenSeq(seqs) = g[Len(seqs)]
  BY DEF FlattenSeq, Joins
<1> HIDE DEF g
<1> QED BY <1>5, <1>6

\* Everything f has joined stays where it is.
Grown(f, i) ==
    /\ IsSeq(f[i])
    /\ \A k \in 1..i : /\ Len(f[k]) <= Len(f[i])
                       /\ \A j \in 1..Len(f[k]) : f[i][j] = f[k][j]

SeqOfSeqs(seqs) == IsSeq(seqs) /\ \A k \in DOMAIN seqs : IsSeq(seqs[k])

LEMMA JoinsEquation ==
    ASSUME NEW seqs, NEW n \in Nat \ {0}, NEW f, Joins(seqs, n, f)
    PROVE  f[1] = seqs[1] /\ \A i \in 2..n : f[i] = f[i - 1] \o seqs[i]
<1>1. \A i \in 1..n : f[i] = IF i = 1 THEN seqs[i] ELSE f[i - 1] \o seqs[i]
  BY Zenon DEF Joins
<1>2. 1 \in 1..n /\ \A i \in 2..n : i \in 1..n /\ i # 1 OBVIOUS
<1> QED BY <1>1, <1>2, Zenon

LEMMA JoinsTyped ==
    ASSUME NEW seqs, SeqOfSeqs(seqs), seqs # <<>>, NEW f, Joins(seqs, Len(seqs), f)
    PROVE  \A i \in 1..Len(seqs) : IsSeq(f[i])
<1> DEFINE T == {i \in 1..Len(seqs) : IsSeq(f[i])}
<1>1. Len(seqs) \in Nat \ {0} /\ DOMAIN seqs = 1..Len(seqs)
  BY IsSeqProperties DEF SeqOfSeqs
<1>2. f[1] = seqs[1] /\ \A i \in 2..Len(seqs) : f[i] = f[i - 1] \o seqs[i]
  BY <1>1, JoinsEquation
<1>3. 1 \in T BY <1>1, <1>2 DEF SeqOfSeqs
<1>4. ASSUME NEW i \in (1 + 1)..Len(seqs), i - 1 \in T PROVE i \in T
  <2>1. i \in 2..Len(seqs) /\ i \in 1..Len(seqs) BY <1>1
  <2>2. IsSeq(f[i - 1]) /\ IsSeq(seqs[i]) BY <1>4, <2>1, <1>1 DEF SeqOfSeqs
  <2>3. IsSeq(f[i - 1] \o seqs[i]) BY <2>2, ConcatIsSeq
  <2> QED BY <2>1, <2>3, <1>2
<1>5. \A k \in 1..Len(seqs) : k \in T
  <2> HIDE DEF T
  <2>1. 1 \in Nat /\ Len(seqs) \in Nat BY <1>1
  <2> QED BY <1>3, <1>4, <2>1, Induction
<1> QED BY <1>5

LEMMA JoinsGrow ==
    ASSUME NEW seqs, SeqOfSeqs(seqs), seqs # <<>>, NEW f, Joins(seqs, Len(seqs), f)
    PROVE  \A i \in 1..Len(seqs) : Grown(f, i)
<1> DEFINE T == {i \in 1..Len(seqs) : Grown(f, i)}
<1>1. Len(seqs) \in Nat \ {0} /\ DOMAIN seqs = 1..Len(seqs)
  BY IsSeqProperties DEF SeqOfSeqs
<1>2. f[1] = seqs[1] /\ \A i \in 2..Len(seqs) : f[i] = f[i - 1] \o seqs[i]
  BY <1>1, JoinsEquation
<1>t. \A i \in 1..Len(seqs) : IsSeq(f[i]) /\ Len(f[i]) \in Nat
  BY JoinsTyped, IsSeqProperties
<1>3. 1 \in T BY <1>1, <1>t DEF Grown
<1>4. ASSUME NEW i \in (1 + 1)..Len(seqs), i - 1 \in T PROVE i \in T
  <2>1. i \in 2..Len(seqs) /\ i \in 1..Len(seqs) /\ i - 1 \in 1..Len(seqs) BY <1>1
  <2>2. IsSeq(f[i - 1]) /\ IsSeq(seqs[i]) /\ Len(seqs[i]) \in Nat
    BY <1>t, <2>1, <1>1, IsSeqProperties DEF SeqOfSeqs
  <2>3. /\ Len(f[i]) = Len(f[i - 1]) + Len(seqs[i])
        /\ \A j \in 1..Len(f[i - 1]) : f[i][j] = f[i - 1][j]
    <3>1. f[i] = f[i - 1] \o seqs[i] BY <2>1, <1>2
    <3>2. LET s == f[i - 1] \o seqs[i]
          IN /\ Len(s) = Len(f[i - 1]) + Len(seqs[i])
             /\ \A j \in 1..Len(f[i - 1]) : s[j] = f[i - 1][j]
      BY <2>2, ConcatIsSeq
    <3> QED BY <3>1, <3>2, Zenon
  <2>4. Grown(f, i - 1) BY <1>4
  <2>5. ASSUME NEW k \in 1..i
        PROVE  Len(f[k]) <= Len(f[i]) /\ \A j \in 1..Len(f[k]) : f[i][j] = f[k][j]
    <3>1. CASE k = i BY <3>1, <1>t, <2>1
    <3>2. CASE k # i
      <4>1. k \in 1..(i - 1) /\ k \in 1..Len(seqs) BY <3>2, <2>1
      <4>2. Len(f[k]) <= Len(f[i - 1]) /\ \A j \in 1..Len(f[k]) : f[i - 1][j] = f[k][j]
        BY <4>1, <2>4 DEF Grown
      <4>3. Len(f[k]) \in Nat /\ Len(f[i - 1]) \in Nat BY <4>1, <2>1, <1>t
      <4>4. Len(f[k]) <= Len(f[i])
        <5>1. \A a, b, c \in Nat : a <= b => a <= b + c OBVIOUS
        <5>2. Len(f[k]) <= Len(f[i - 1]) + Len(seqs[i]) BY <5>1, <4>2, <4>3, <2>2
        <5> QED BY <5>2, <2>3, Zenon
      <4>5. \A j \in 1..Len(f[k]) : j \in 1..Len(f[i - 1]) BY <4>2, <4>3
      <4> QED BY <4>4, <4>5, <4>2, <2>3
    <3> QED BY <3>1, <3>2
  <2> QED BY <2>1, <2>5, <1>t DEF Grown
<1>5. \A k \in 1..Len(seqs) : k \in T
  <2> HIDE DEF T
  <2>1. 1 \in Nat /\ Len(seqs) \in Nat BY <1>1
  <2> QED BY <1>3, <1>4, <2>1, Induction
<1> QED BY <1>5

JoinAt(seqs, f) == [k \in 1..Len(seqs) |-> IF k = 1 THEN 0 ELSE Len(f[k - 1])]

\* The k-th sequence stands behind the first at[k] elements.
JoinOffset(seqs, f, at, k) ==
    /\ at[k] \in Nat /\ Len(f[k]) = at[k] + Len(seqs[k])
    /\ at[k] = IF k = 1 THEN 0 ELSE Len(f[k - 1])
    /\ \A j \in 1..Len(seqs[k]) : f[k][at[k] + j] = seqs[k][j]

LEMMA JoinsOffset ==
    ASSUME NEW seqs, SeqOfSeqs(seqs), seqs # <<>>, NEW f, Joins(seqs, Len(seqs), f),
           NEW at, at = JoinAt(seqs, f),
           NEW k \in 1..Len(seqs)
    PROVE  JoinOffset(seqs, f, at, k)
<1>1. Len(seqs) \in Nat \ {0} /\ DOMAIN seqs = 1..Len(seqs)
  BY IsSeqProperties DEF SeqOfSeqs
<1>2. f[1] = seqs[1] /\ \A i \in 2..Len(seqs) : f[i] = f[i - 1] \o seqs[i]
  BY <1>1, JoinsEquation
<1>3. \A i \in 1..Len(seqs) : IsSeq(f[i]) /\ Len(f[i]) \in Nat
  BY JoinsTyped, IsSeqProperties
<1>4. IsSeq(seqs[k]) /\ Len(seqs[k]) \in Nat BY <1>1, IsSeqProperties DEF SeqOfSeqs
<1>5. CASE k = 1
  <2>1. at[k] = 0 /\ f[k] = seqs[k] BY <1>5, <1>2 DEF JoinAt
  <2>2. \A j \in 1..Len(seqs[k]) : 0 + j = j OBVIOUS
  <2>3. \A j \in 1..Len(seqs[k]) : f[k][at[k] + j] = seqs[k][j] BY <2>1, <2>2
  <2> QED BY <2>1, <2>3, <1>4, <1>5 DEF JoinOffset
<1>6. CASE k # 1
  <2>1. k \in 2..Len(seqs) /\ k - 1 \in 1..Len(seqs) BY <1>6, <1>1
  <2>2. at[k] = Len(f[k - 1]) BY <1>6 DEF JoinAt
  <2>3. f[k] = f[k - 1] \o seqs[k] BY <2>1, <1>2
  <2>4. LET s == f[k - 1] \o seqs[k]
        IN /\ Len(s) = Len(f[k - 1]) + Len(seqs[k])
           /\ \A j \in 1..Len(seqs[k]) : s[Len(f[k - 1]) + j] = seqs[k][j]
    <3>1. IsSeq(f[k - 1]) BY <2>1, <1>3
    <3>2. Len(f[k - 1] \o seqs[k]) = Len(f[k - 1]) + Len(seqs[k])
      BY <3>1, <1>4, ConcatIsSeq
    <3>3. ASSUME NEW j \in 1..Len(seqs[k])
          PROVE  (f[k - 1] \o seqs[k])[Len(f[k - 1]) + j] = seqs[k][j]
      BY <3>1, <1>4, ConcatRight
    <3> QED BY <3>2, <3>3
  <2>5. /\ Len(f[k]) = at[k] + Len(seqs[k])
        /\ \A j \in 1..Len(seqs[k]) : f[k][at[k] + j] = seqs[k][j]
    BY <2>2, <2>3, <2>4, Zenon
  <2>6. at[k] \in Nat BY <2>1, <2>2, <1>3
  <2> QED BY <2>2, <2>5, <2>6, <1>6 DEF JoinOffset
<1> QED BY <1>5, <1>6

\* Which position of the flattened sequence an element has.
Offsets(seqs, at) ==
    /\ at \in [DOMAIN seqs -> Nat]
    /\ \A k, l \in DOMAIN seqs : k < l => at[k] + Len(seqs[k]) <= at[l]
    /\ \A k \in DOMAIN seqs : \A j \in DOMAIN seqs[k] :
           /\ at[k] + j \in DOMAIN FlattenSeq(seqs)
           /\ FlattenSeq(seqs)[at[k] + j] = seqs[k][j]
    /\ \A i \in DOMAIN FlattenSeq(seqs) :
           \E k \in DOMAIN seqs : \E j \in DOMAIN seqs[k] : i = at[k] + j

LEMMA JoinsCover ==
    ASSUME NEW seqs, SeqOfSeqs(seqs), seqs # <<>>, NEW f, Joins(seqs, Len(seqs), f),
           NEW at, at = JoinAt(seqs, f)
    PROVE  \A x \in 1..Len(f[Len(seqs)]) :
               \E k \in 1..Len(seqs) : \E j \in 1..Len(seqs[k]) : x = at[k] + j
<1> DEFINE Covered(i) == \A x \in 1..Len(f[i]) :
                             \E k \in 1..Len(seqs) : \E j \in 1..Len(seqs[k]) : x = at[k] + j
           T == {i \in 1..Len(seqs) : Covered(i)}
<1>1. Len(seqs) \in Nat \ {0} /\ DOMAIN seqs = 1..Len(seqs)
  BY IsSeqProperties DEF SeqOfSeqs
<1>2. \A k \in 1..Len(seqs) : JoinOffset(seqs, f, at, k) /\ Len(seqs[k]) \in Nat
  BY <1>1, JoinsOffset, IsSeqProperties DEF SeqOfSeqs
<1>3. ASSUME NEW i \in 1..Len(seqs), NEW x \in 1..Len(f[i]), x > at[i]
      PROVE  \E k \in 1..Len(seqs) : \E j \in 1..Len(seqs[k]) : x = at[k] + j
  <2>1. at[i] \in Nat /\ Len(seqs[i]) \in Nat /\ Len(f[i]) = at[i] + Len(seqs[i])
    BY <1>2 DEF JoinOffset
  <2>2. x - at[i] \in 1..Len(seqs[i]) /\ x = at[i] + (x - at[i])
    <3>1. \A a, b, c \in Nat : \A y \in 1..c : c = a + b /\ y > a =>
              y - a \in 1..b /\ y = a + (y - a)
      OBVIOUS
    <3>2. \A a, b \in Nat : a + b \in Nat OBVIOUS
    <3>3. Len(f[i]) \in Nat BY <2>1, <3>2, Zenon
    <3> QED BY <3>1, <3>3, <2>1, <1>3
  <2> QED BY <2>2
<1>4. 1 \in T
  <2>1. at[1] = 0 /\ 1 \in 1..Len(seqs) BY <1>1 DEF JoinAt
  <2>2. \A x \in 1..Len(f[1]) : x > at[1] BY <2>1
  <2> QED BY <2>1, <2>2, <1>3
<1>5. ASSUME NEW i \in (1 + 1)..Len(seqs), i - 1 \in T PROVE i \in T
  <2>1. i \in 1..Len(seqs) /\ i - 1 \in 1..Len(seqs) /\ i # 1 BY <1>1
  <2>2. at[i] = Len(f[i - 1]) /\ at[i] \in Nat BY <2>1, <1>2 DEF JoinOffset
  <2>3. ASSUME NEW x \in 1..Len(f[i])
        PROVE  \E k \in 1..Len(seqs) : \E j \in 1..Len(seqs[k]) : x = at[k] + j
    <3>1. CASE x > at[i] BY <3>1, <2>1, <1>3
    <3>2. CASE ~(x > at[i])
      <4>1. x \in 1..Len(f[i - 1]) BY <3>2, <2>2
      <4> QED BY <4>1, <1>5
    <3> QED BY <3>1, <3>2
  <2> QED BY <2>1, <2>3
<1>6. \A k \in 1..Len(seqs) : k \in T
  <2> HIDE DEF T
  <2>1. 1 \in Nat /\ Len(seqs) \in Nat BY <1>1
  <2> QED BY <1>4, <1>5, <2>1, Induction
<1>7. Covered(Len(seqs)) BY <1>6, <1>1
<1> QED BY <1>7

LEMMA FlattenOffsets ==
    ASSUME NEW seqs, SeqOfSeqs(seqs)
    PROVE  IsSeq(FlattenSeq(seqs)) /\ \E at : Offsets(seqs, at)
<1>1. Len(seqs) \in Nat /\ DOMAIN seqs = 1..Len(seqs)
  BY IsSeqProperties DEF SeqOfSeqs
<1>2. CASE seqs = <<>>
  <2>1. FlattenSeq(seqs) = <<>> BY <1>2 DEF FlattenSeq
  <2>2. IsSeq(FlattenSeq(seqs)) BY <2>1 DEF IsSeq
  <2>3. Offsets(seqs, <<>>) BY <2>1, <1>2 DEF Offsets
  <2> QED BY <2>2, <2>3
<1>3. CASE seqs # <<>>
  <2>1. Len(seqs) \in Nat \ {0} BY <1>1, <1>3 DEF SeqOfSeqs, IsSeq
  <2>2. PICK f : Joins(seqs, Len(seqs), f) /\ FlattenSeq(seqs) = f[Len(seqs)]
    BY <2>1, FlattenIsJoin
  <2> DEFINE at == JoinAt(seqs, f)
  <2>3. \A k \in 1..Len(seqs) : JoinOffset(seqs, f, at, k) BY <2>2, <1>3, JoinsOffset
  <2>4. \A x \in 1..Len(f[Len(seqs)]) :
            \E k \in 1..Len(seqs) : \E j \in 1..Len(seqs[k]) : x = at[k] + j
    BY <2>2, <1>3, JoinsCover
  <2>5. \A k \in 1..Len(seqs) : Grown(f, k) BY <2>2, <1>3, JoinsGrow
  <2>6. at = [k \in 1..Len(seqs) |-> at[k]] BY DEF JoinAt
  <2> HIDE DEF at
  <2>7. \A k \in DOMAIN seqs : IsSeq(seqs[k]) /\ Len(seqs[k]) \in Nat
                               /\ DOMAIN seqs[k] = 1..Len(seqs[k])
    BY IsSeqProperties DEF SeqOfSeqs
  <2>8. /\ IsSeq(FlattenSeq(seqs))
        /\ Len(FlattenSeq(seqs)) \in Nat
        /\ DOMAIN FlattenSeq(seqs) = 1..Len(f[Len(seqs)])
    BY <2>1, <2>2, <2>5, IsSeqProperties DEF Grown
  <2>9. at \in [DOMAIN seqs -> Nat] BY <2>3, <2>6, <1>1 DEF JoinOffset
  <2>10. ASSUME NEW k \in DOMAIN seqs, NEW l \in DOMAIN seqs, k < l
         PROVE  at[k] + Len(seqs[k]) <= at[l]
    <3>1. l - 1 \in 1..Len(seqs) /\ k \in 1..(l - 1) /\ l # 1 BY <1>1, <2>10
    <3>2. at[l] = Len(f[l - 1]) /\ Len(f[k]) = at[k] + Len(seqs[k])
      BY <1>1, <2>3, <3>1 DEF JoinOffset
    <3>3. Len(f[k]) <= Len(f[l - 1]) BY <3>1, <2>5 DEF Grown
    <3> QED BY <3>2, <3>3
  <2>11. ASSUME NEW k \in DOMAIN seqs, NEW j \in DOMAIN seqs[k]
         PROVE  /\ at[k] + j \in DOMAIN FlattenSeq(seqs)
                /\ FlattenSeq(seqs)[at[k] + j] = seqs[k][j]
    <3>1. k \in 1..Len(seqs) /\ j \in 1..Len(seqs[k]) BY <1>1, <2>7
    <3>2. /\ at[k] \in Nat /\ Len(f[k]) = at[k] + Len(seqs[k])
          /\ f[k][at[k] + j] = seqs[k][j]
      BY <3>1, <2>3 DEF JoinOffset
    <3>3. at[k] + j \in 1..Len(f[k]) BY <3>1, <3>2, <2>7
    <3>4. Grown(f, Len(seqs)) /\ k \in 1..Len(seqs) BY <2>1, <2>5, <3>1
    <3>5. /\ Len(f[k]) <= Len(f[Len(seqs)])
          /\ f[Len(seqs)][at[k] + j] = f[k][at[k] + j]
      BY <3>3, <3>4 DEF Grown
    <3>6. at[k] + j \in 1..Len(f[Len(seqs)])
      <4>1. Len(f[k]) \in Nat /\ Len(f[Len(seqs)]) \in Nat
        BY <2>2, <2>8, <3>2, <2>7
      <4> QED BY <4>1, <3>3, <3>5
    <3> QED BY <3>2, <3>5, <3>6, <2>2, <2>8
  <2>12. ASSUME NEW i \in DOMAIN FlattenSeq(seqs)
         PROVE  \E k \in DOMAIN seqs : \E j \in DOMAIN seqs[k] : i = at[k] + j
    BY <2>4, <2>7, <2>8, <1>1
  <2>13. Offsets(seqs, at) BY <2>9, <2>10, <2>11, <2>12 DEF Offsets
  <2> QED BY <2>8, <2>13
<1> QED BY <1>2, <1>3

LEMMA ShortSeqs ==
    /\ IsSeq(<<>>) /\ Len(<<>>) = 0 /\ ToSet(<<>>) = {} /\ DOMAIN <<>> = {}
    /\ \A x : IsSeq(<<x>>) /\ Len(<<x>>) = 1 /\ ToSet(<<x>>) = {x} /\ <<x>>[1] = x
                           /\ DOMAIN <<x>> = {1}
<1>1. IsSeq(<<>>) /\ Len(<<>>) = 0 /\ ToSet(<<>>) = {} /\ DOMAIN <<>> = {}
  BY DEF IsSeq, ToSet
<1>2. ASSUME NEW x
      PROVE  IsSeq(<<x>>) /\ Len(<<x>>) = 1 /\ ToSet(<<x>>) = {x} /\ <<x>>[1] = x
             /\ DOMAIN <<x>> = {1}
  <2>1. <<x>> \in Seq({x}) OBVIOUS
  <2>2. IsSeq(<<x>>) BY <2>1, SeqIsSeq
  <2>3. DOMAIN <<x>> = {1} OBVIOUS
  <2> QED BY <2>2, <2>3 DEF ToSet
<1> QED BY <1>1, <1>2

LEMMA PairSeqs == \A x, y : IsSeq(<<x, y>>) /\ ToSet(<<x, y>>) = {x, y}
<1> TAKE x, y
<1>1. <<x, y>> \in Seq({x, y}) OBVIOUS
<1>2. IsSeq(<<x, y>>) BY <1>1, SeqIsSeq
<1>3. DOMAIN <<x, y>> = {1, 2} /\ <<x, y>>[1] = x /\ <<x, y>>[2] = y OBVIOUS
<1>4. ToSet(<<x, y>>) = {<<x, y>>[k] : k \in {1, 2}} BY <1>3 DEF ToSet
<1> QED BY <1>2, <1>3, <1>4

LEMMA MapIsSeq ==
    ASSUME NEW s, IsSeq(s), NEW t, t = [k \in DOMAIN s |-> t[k]]
    PROVE  IsSeq(t) /\ Len(t) = Len(s) /\ DOMAIN t = DOMAIN s
<1>1. Len(s) \in Nat /\ DOMAIN s = 1..Len(s) BY IsSeqProperties
<1> QED BY <1>1, FunctionIsSeq

LEMMA ConcatElements ==
    ASSUME NEW s, NEW t, IsSeq(s), IsSeq(t)
    PROVE  ToSet(s \o t) = ToSet(s) \cup ToSet(t)
<1>1. /\ Len(s) \in Nat /\ DOMAIN s = 1..Len(s)
      /\ Len(t) \in Nat /\ DOMAIN t = 1..Len(t)
  BY IsSeqProperties
<1>2. DOMAIN (s \o t) = 1..(Len(s) + Len(t))
  BY ConcatIsSeq, IsSeqProperties
<1>3. ASSUME NEW k \in DOMAIN (s \o t) PROVE (s \o t)[k] \in ToSet(s) \cup ToSet(t)
  <2>1. CASE k <= Len(s)
    <3>1. k \in 1..Len(s) BY <2>1, <1>1, <1>2
    <3>2. (s \o t)[k] = s[k] BY <3>1, ConcatIsSeq
    <3> QED BY <3>1, <3>2, <1>1 DEF ToSet
  <2>2. CASE k > Len(s)
    <3>1. k - Len(s) \in 1..Len(t) /\ k = Len(s) + (k - Len(s)) BY <2>2, <1>1, <1>2
    <3>2. (s \o t)[Len(s) + (k - Len(s))] = t[k - Len(s)] BY <3>1, ConcatRight
    <3> QED BY <3>1, <3>2, <1>1 DEF ToSet
  <2> QED BY <2>1, <2>2, <1>1, <1>2
<1>4. ASSUME NEW k \in DOMAIN s PROVE s[k] \in ToSet(s \o t)
  <2>1. k \in 1..Len(s) /\ k \in DOMAIN (s \o t) BY <1>1, <1>2
  <2>2. (s \o t)[k] = s[k] BY <2>1, ConcatIsSeq
  <2> QED BY <2>1, <2>2 DEF ToSet
<1>5. ASSUME NEW k \in DOMAIN t PROVE t[k] \in ToSet(s \o t)
  <2>1. k \in 1..Len(t) /\ Len(s) + k \in DOMAIN (s \o t) BY <1>1, <1>2
  <2>2. (s \o t)[Len(s) + k] = t[k] BY <2>1, ConcatRight
  <2> QED BY <2>1, <2>2 DEF ToSet
<1> QED BY <1>3, <1>4, <1>5 DEF ToSet

LEMMA FlattenElements ==
    ASSUME NEW seqs, SeqOfSeqs(seqs)
    PROVE  /\ IsSeq(FlattenSeq(seqs))
           /\ ToSet(FlattenSeq(seqs)) = UNION {ToSet(seqs[k]) : k \in DOMAIN seqs}
<1>1. IsSeq(FlattenSeq(seqs)) BY FlattenOffsets
<1>2. PICK at : Offsets(seqs, at) BY FlattenOffsets
<1>3. ASSUME NEW i \in DOMAIN FlattenSeq(seqs)
      PROVE  FlattenSeq(seqs)[i] \in UNION {ToSet(seqs[k]) : k \in DOMAIN seqs}
  <2>1. PICK k \in DOMAIN seqs : \E j \in DOMAIN seqs[k] : i = at[k] + j
    BY <1>2 DEF Offsets
  <2>3. PICK j \in DOMAIN seqs[k] : i = at[k] + j BY <2>1
  <2>2. FlattenSeq(seqs)[i] = seqs[k][j] BY <2>3, <1>2 DEF Offsets
  <2> QED BY <2>2 DEF ToSet
<1>4. ASSUME NEW k \in DOMAIN seqs, NEW j \in DOMAIN seqs[k]
      PROVE  seqs[k][j] \in ToSet(FlattenSeq(seqs))
  BY <1>2 DEF Offsets, ToSet
<1> QED BY <1>1, <1>3, <1>4 DEF ToSet

LEMMA SelectAtElements ==
    ASSUME NEW s, IsSeq(s), NEW I
    PROVE  /\ IsSeq(SelectAt(s, I))
           /\ ToSet(SelectAt(s, I)) = {s[k] : k \in DOMAIN s \cap I}
<1> DEFINE seqs == [k \in DOMAIN s |-> IF k \in I THEN <<s[k]>> ELSE <<>>]
<1>1. IsSeq(seqs) /\ DOMAIN seqs = DOMAIN s
  <2>1. seqs = [k \in DOMAIN s |-> seqs[k]] OBVIOUS
  <2> HIDE DEF seqs
  <2> QED BY <2>1, MapIsSeq
<1>2. \A k \in DOMAIN s : seqs[k] = IF k \in I THEN <<s[k]>> ELSE <<>> OBVIOUS
<1>3. SelectAt(s, I) = FlattenSeq(seqs) BY DEF SelectAt
<1> HIDE DEF seqs
<1>4. \A k \in DOMAIN s : /\ IsSeq(seqs[k])
                          /\ ToSet(seqs[k]) = IF k \in I THEN {s[k]} ELSE {}
  <2> TAKE k \in DOMAIN s
  <2>1. CASE k \in I
    <3>1. seqs[k] = <<s[k]>> BY <1>2, <2>1
    <3> QED BY <2>1, <3>1, ShortSeqs
  <2>2. CASE k \notin I
    <3>1. seqs[k] = <<>> BY <1>2, <2>2
    <3> QED BY <2>2, <3>1, ShortSeqs
  <2> QED BY <2>1, <2>2
<1>5. SeqOfSeqs(seqs) BY <1>1, <1>4 DEF SeqOfSeqs
<1>6. UNION {ToSet(seqs[k]) : k \in DOMAIN seqs} = {s[k] : k \in DOMAIN s \cap I}
  BY <1>1, <1>4
<1> QED BY <1>3, <1>5, <1>6, FlattenElements

-----------------------------------------------------------------------------
(* Init containers.                                                        *)

LEMMA SpecCopiers ==
    ASSUME NEW jobs, IsSeq(jobs)
    PROVE  /\ IsSeq(specCopiers(jobs))
           /\ ToSet(specCopiers(jobs)) \subseteq
                  {JobSpecCopierContainer(jobs[k].release) : k \in DOMAIN jobs}
<1> DEFINE First(k) == \A l \in 1..(k - 1) : jobs[l].release # jobs[k].release
           seqs == [k \in DOMAIN jobs |->
                       IF First(k) THEN <<JobSpecCopierContainer(jobs[k].release)>>
                       ELSE <<>>]
<1>1. specCopiers(jobs) = FlattenSeq(seqs) BY DEF specCopiers
<1>2. seqs = [k \in DOMAIN jobs |-> seqs[k]] OBVIOUS
<1>3. \A k \in DOMAIN jobs : seqs[k] \in {<<JobSpecCopierContainer(jobs[k].release)>>, <<>>}
  OBVIOUS
<1> HIDE DEF seqs
<1>4. IsSeq(seqs) /\ DOMAIN seqs = DOMAIN jobs BY <1>2, MapIsSeq
<1>5. \A k \in DOMAIN jobs : /\ IsSeq(seqs[k])
                             /\ ToSet(seqs[k]) \subseteq
                                    {JobSpecCopierContainer(jobs[k].release)}
  BY <1>3, ShortSeqs
<1>6. SeqOfSeqs(seqs) BY <1>4, <1>5 DEF SeqOfSeqs
<1>7. UNION {ToSet(seqs[k]) : k \in DOMAIN seqs} \subseteq
          {JobSpecCopierContainer(jobs[k].release) : k \in DOMAIN jobs}
  BY <1>4, <1>5
<1> QED BY <1>1, <1>6, <1>7, FlattenElements

LEMMA WaitContainer ==
    ASSUME NEW required
    PROVE  /\ IsSeq(createWaitContainer(required))
           /\ ToSet(createWaitContainer(required)) =
                  IF required = Nil THEN {}
                  ELSE {InitContainer(<<"wait-for", required>>, {})}
BY ShortSeqs DEF createWaitContainer

LEMMA BoshPreStarts ==
    ASSUME NEW ig, IsSeq(ig.jobs), NEW disks
    PROVE  IsSeq(boshPreStarts(ig, disks))
<1> DEFINE t == boshPreStarts(ig, disks)
<1>1. t = [k \in DOMAIN ig.jobs |-> t[k]] BY DEF boshPreStarts
<1> QED BY <1>1, MapIsSeq

LEMMA BpmPreStarts ==
    ASSUME NEW ig, NEW processes, IsSeq(processes), NEW disks, NEW job
    PROVE  IsSeq(bpmPreStarts(ig, processes, disks, job))
<1> DEFINE t == bpmPreStarts(ig, processes, disks, job)
<1>1. IsSeq(Hooked(processes)) BY SelectAtElements DEF Hooked
<1>2. t = [k \in DOMAIN Hooked(processes) |-> t[k]] BY DEF bpmPreStarts
<1> QED BY <1>1, <1>2, MapIsSeq

\* The pre-start hooks of the processes of all jobs.
PreStartsOf(ig, bpm, disks) ==
    [k \in DOMAIN ig.jobs |->
        bpmPreStarts(ig, bpm[ig.jobs[k].name].processes, disks, ig.jobs[k].name)]

ConvertibleJobs(ig, bpm) ==
    /\ IsSeq(ig.jobs)
    /\ \A k \in DOMAIN ig.jobs : IsProcessList(bpm[ig.jobs[k].name].processes)

LEMMA AllPreStarts ==
    ASSUME NEW ig, NEW bpm, NEW disks, ConvertibleJobs(ig, bpm)
    PROVE  SeqOfSeqs(PreStartsOf(ig, bpm, disks))
<1> DEFINE t == PreStartsOf(ig, bpm, disks)
<1>1. t = [k \in DOMAIN ig.jobs |-> t[k]] BY DEF PreStartsOf
<1>2. \A k \in DOMAIN ig.jobs : IsSeq(t[k])
  BY BpmPreStarts DEF PreStartsOf, ConvertibleJobs, IsProcessList
<1> QED BY <1>1, <1>2, MapIsSeq DEF SeqOfSeqs, ConvertibleJobs

LEMMA InitContainersOf ==
    ASSUME NEW ig, NEW bpm, NEW disks, NEW version, ConvertibleJobs(ig, bpm)
    PROVE  /\ IsSeq(JobsToInitContainers(ig, bpm, disks, version))
           /\ ToSet(JobsToInitContainers(ig, bpm, disks, version)) =
                  (IF IsErrand(ig) THEN {} ELSE {containerRunCopier})
                  \cup ToSet(specCopiers(ig.jobs))
                  \cup {templateRenderingContainer(version = 1), createDirContainer(ig)}
                  \cup ToSet(createWaitContainer(ig.required))
                  \cup ToSet(boshPreStarts(ig, disks))
                  \cup ToSet(FlattenSeq(PreStartsOf(ig, bpm, disks)))
<1> DEFINE a == IF IsErrand(ig) THEN <<>> ELSE <<containerRunCopier>>
           b == specCopiers(ig.jobs)
           c == <<templateRenderingContainer(version = 1), createDirContainer(ig)>>
           w == createWaitContainer(ig.required)
           e == boshPreStarts(ig, disks)
           f == FlattenSeq(PreStartsOf(ig, bpm, disks))
<1>1. JobsToInitContainers(ig, bpm, disks, version) = a \o b \o c \o w \o e \o f
  BY DEF JobsToInitContainers, PreStartsOf
<1>2. IsSeq(a) /\ ToSet(a) = (IF IsErrand(ig) THEN {} ELSE {containerRunCopier})
  BY ShortSeqs
<1>3. IsSeq(b) BY SpecCopiers DEF ConvertibleJobs
<1>4. IsSeq(c) /\ ToSet(c) = {templateRenderingContainer(version = 1), createDirContainer(ig)}
  BY PairSeqs
<1>5. IsSeq(w) BY WaitContainer
<1>6. IsSeq(e) BY BoshPreStarts DEF ConvertibleJobs
<1>7. IsSeq(f) BY AllPreStarts, FlattenElements
<1> HIDE DEF a, b, c, w, e, f
<1>8. IsSeq(a \o b) /\ ToSet(a \o b) = ToSet(a) \cup ToSet(b)
  BY <1>2, <1>3, ConcatIsSeq, ConcatElements
<1>9. IsSeq(a \o b \o c) /\ ToSet(a \o b \o c) = ToSet(a \o b) \cup ToSet(c)
  BY <1>8, <1>4, ConcatIsSeq, ConcatElements
<1>10. IsSeq(a \o b \o c \o w) /\ ToSet(a \o b \o c \o w) = ToSet(a \o b \o c) \cup ToSet(w)
  BY <1>9, <1>5, ConcatIsSeq, ConcatElements
<1>11. /\ IsSeq(a \o b \o c \o w \o e)
       /\ ToSet(a \o b \o c \o w \o e) = ToSet(a \o b \o c \o w) \cup ToSet(e)
  BY <1>10, <1>6, ConcatIsSeq, ConcatElements
<1>12. /\ IsSeq(a \o b \o c \o w \o e \o f)
       /\ ToSet(a \o b \o c \o w \o e \o f) = ToSet(a \o b \o c \o w \o e) \cup ToSet(f)
  BY <1>11, <1>7, ConcatIsSeq, ConcatElements
<1>13. ToSet(a \o b \o c \o w \o e \o f) =
           ToSet(a) \cup ToSet(b) \cup ToSet(c) \cup ToSet(w) \cup ToSet(e) \cup ToSet(f)
  BY <1>8, <1>9, <1>10, <1>11, <1>12
<1> QED BY <1>1, <1>2, <1>4, <1>12, <1>13 DEF b, w, e, f

-----------------------------------------------------------------------------
(* Containers and their hooks.                                             *)

LEMMA SameSize ==
    ASSUME NEW S, NEW T, NEW F \in [S -> T], IsFiniteSet(S),
           \A a, b \in S : F[a] = F[b] => a = b,
           \A t \in T : \E s \in S : F[s] = t
    PROVE  IsFiniteSet(T) /\ Cardinality(T) = Cardinality(S)
<1>1. F \in Bijection(S, T) BY Fun_IsBij
<1>2. ExistsBijection(S, T) BY <1>1, Fun_ExistsBij
<1> QED BY <1>2, FS_Bijection

\* The containers of each job.
ContainersByJob(ig, bpm, disks) ==
    [k \in DOMAIN ig.jobs |->
        ContainersOf(ig, ig.jobs[k], bpm[ig.jobs[k].name].processes, disks,
                     drainStampCount(ig, bpm))]

LEMMA ContainersByJobSeqs ==
    ASSUME NEW ig, NEW bpm, NEW disks, ConvertibleJobs(ig, bpm)
    PROVE  LET seqs == ContainersByJob(ig, bpm, disks)
           IN /\ SeqOfSeqs(seqs) /\ DOMAIN seqs = DOMAIN ig.jobs
              /\ \A k \in DOMAIN ig.jobs :
                     DOMAIN seqs[k] = DOMAIN bpm[ig.jobs[k].name].processes
<1> DEFINE seqs == ContainersByJob(ig, bpm, disks)
<1>1. seqs = [k \in DOMAIN ig.jobs |-> seqs[k]] BY DEF ContainersByJob
<1>2. ASSUME NEW k \in DOMAIN ig.jobs
      PROVE  IsSeq(seqs[k]) /\ DOMAIN seqs[k] = DOMAIN bpm[ig.jobs[k].name].processes
  <2> DEFINE processes == bpm[ig.jobs[k].name].processes
             t == ContainersOf(ig, ig.jobs[k], processes, disks, drainStampCount(ig, bpm))
  <2>1. IsSeq(processes) BY DEF ConvertibleJobs, IsProcessList
  <2>2. t = [j \in DOMAIN processes |-> t[j]] BY DEF ContainersOf
  <2>3. seqs[k] = t BY DEF ContainersByJob
  <2> HIDE DEF t, processes, seqs
  <2>4. IsSeq(t) /\ DOMAIN t = DOMAIN processes BY <2>1, <2>2, MapIsSeq
  <2> QED BY <2>3, <2>4 DEF processes
<1>3. IsSeq(seqs) /\ DOMAIN seqs = DOMAIN ig.jobs
  <2> HIDE DEF seqs
  <2> QED BY <1>1, MapIsSeq DEF ConvertibleJobs
<1> QED BY <1>2, <1>3 DEF SeqOfSeqs

LEMMA HookOfContainer ==
    ASSUME NEW ig, NEW bpm, NEW disks, ~IsErrand(ig),
           NEW k \in DOMAIN ig.jobs, NEW j \in DOMAIN bpm[ig.jobs[k].name].processes
    PROVE  LET c == ContainersByJob(ig, bpm, disks)[k][j]
           IN /\ c.preStop # Nil
              /\ c.preStop[1].stamps = drainStampCount(ig, bpm)
              /\ c.preStop[1].script # Nil <=> j = 1
<1> DEFINE c == ContainersByJob(ig, bpm, disks)[k][j]
           stop == PreStop(ig, ig.jobs[k].name, j, drainStampCount(ig, bpm))
<1>1. c.preStop = stop BY DEF ContainersByJob, ContainersOf, bpmProcessContainer
<1>2. stop = IF j = 1 THEN <<newDrainScript(ig.jobs[k].name, drainStampCount(ig, bpm))>>
             ELSE <<newDrainWait(drainStampCount(ig, bpm))>>
  BY DEF PreStop
<1>3. \A x : <<x>> # Nil /\ <<x>>[1] = x BY DEF Nil
<1>4. CASE j = 1
  <2>1. stop = <<newDrainScript(ig.jobs[k].name, drainStampCount(ig, bpm))>> BY <1>2, <1>4
  <2> QED BY <2>1, <1>1, <1>3, <1>4 DEF newDrainScript
<1>5. CASE j # 1
  <2>1. stop = <<newDrainWait(drainStampCount(ig, bpm))>> BY <1>2, <1>5
  <2> QED BY <2>1, <1>1, <1>3, <1>5 DEF newDrainWait
<1> QED BY <1>4, <1>5

\* What HooksCounted says of the containers of one group.
HooksOfGroupCounted(cs) ==
    /\ IsFiniteSet(DOMAIN cs)
    /\ \A k \in DOMAIN cs :
           IF cs[k].preStop = Nil THEN cs[k].name = <<"logs">>
           ELSE cs[k].preStop[1].stamps = Cardinality(Drainers(cs))

\* The jobs that leave a stamp, and the containers that leave it.
StampingJobs(ig, bpm) ==
    {k \in DOMAIN ig.jobs : bpm[ig.jobs[k].name].processes # <<>>}

LEMMA DrainersCounted ==
    ASSUME NEW ig, NEW bpm, NEW disks, ConvertibleJobs(ig, bpm), ~IsErrand(ig)
    PROVE  LET F == FlattenSeq(ContainersByJob(ig, bpm, disks))
           IN Cardinality(Drainers(F)) = drainStampCount(ig, bpm)
<1> DEFINE seqs == ContainersByJob(ig, bpm, disks)
           F == FlattenSeq(seqs)
           J == StampingJobs(ig, bpm)
<1>1. /\ SeqOfSeqs(seqs) /\ DOMAIN seqs = DOMAIN ig.jobs
      /\ \A k \in DOMAIN ig.jobs : DOMAIN seqs[k] = DOMAIN bpm[ig.jobs[k].name].processes
  BY ContainersByJobSeqs
<1>2. \A k \in DOMAIN ig.jobs : \A j \in DOMAIN seqs[k] :
          /\ seqs[k][j].preStop # Nil
          /\ seqs[k][j].preStop[1].script # Nil <=> j = 1
  BY <1>1, HookOfContainer
<1> HIDE DEF seqs
<1>3. PICK at : Offsets(seqs, at) BY <1>1, FlattenOffsets
<1>4. \A k \in DOMAIN ig.jobs :
          IsSeq(seqs[k]) /\ Len(seqs[k]) \in Nat /\ DOMAIN seqs[k] = 1..Len(seqs[k])
  BY <1>1, IsSeqProperties DEF SeqOfSeqs
<1>5. \A k \in DOMAIN ig.jobs : k \in J <=> 1 \in DOMAIN seqs[k]
  <2> TAKE k \in DOMAIN ig.jobs
  <2> DEFINE processes == bpm[ig.jobs[k].name].processes
  <2>1. IsSeq(processes) BY DEF ConvertibleJobs, IsProcessList
  <2>2. processes # <<>> <=> 1 \in DOMAIN processes BY <2>1 DEF IsSeq
  <2> QED BY <2>2, <1>1 DEF StampingJobs
<1> DEFINE start == [k \in J |-> at[k] + 1]
<1>6. J \subseteq DOMAIN ig.jobs BY DEF StampingJobs
<1> HIDE DEF J
<1>7. start \in [J -> Drainers(F)]
  <2> SUFFICES ASSUME NEW k \in J PROVE at[k] + 1 \in Drainers(F) OBVIOUS
  <2>1. k \in DOMAIN seqs /\ 1 \in DOMAIN seqs[k] BY <1>1, <1>5, <1>6
  <2>2. at[k] + 1 \in DOMAIN F /\ F[at[k] + 1] = seqs[k][1] BY <2>1, <1>3 DEF Offsets
  <2> QED BY <2>1, <2>2, <1>1, <1>2 DEF Drainers
<1>8. ASSUME NEW a \in J, NEW b \in J, start[a] = start[b] PROVE a = b
  <2>1. /\ a \in DOMAIN seqs /\ b \in DOMAIN seqs
        /\ 1 \in DOMAIN seqs[a] /\ 1 \in DOMAIN seqs[b]
    BY <1>1, <1>5, <1>6
  <2>2. at[a] \in Nat /\ at[b] \in Nat BY <2>1, <1>3 DEF Offsets
  <2>3. at[a] = at[b] BY <2>2, <1>8
  <2>4. Len(seqs[a]) \in Nat \ {0} /\ Len(seqs[b]) \in Nat \ {0} BY <2>1, <1>1, <1>4
  <2>5. a \in Nat /\ b \in Nat BY <2>1, <1>1, IsSeqProperties DEF SeqOfSeqs
  <2>6. CASE a < b
    <3>1. at[a] + Len(seqs[a]) <= at[b] BY <2>6, <2>1, <1>3 DEF Offsets
    <3> QED BY <3>1, <2>2, <2>3, <2>4
  <2>7. CASE b < a
    <3>1. at[b] + Len(seqs[b]) <= at[a] BY <2>7, <2>1, <1>3 DEF Offsets
    <3> QED BY <3>1, <2>2, <2>3, <2>4
  <2> QED BY <2>5, <2>6, <2>7
<1>9. ASSUME NEW i \in Drainers(F) PROVE \E k \in J : start[k] = i
  <2>1. i \in DOMAIN F /\ F[i].preStop[1].script # Nil BY DEF Drainers
  <2>2. PICK k \in DOMAIN seqs : \E j \in DOMAIN seqs[k] : i = at[k] + j
    BY <2>1, <1>3 DEF Offsets
  <2>3. PICK j \in DOMAIN seqs[k] : i = at[k] + j BY <2>2
  <2>4. F[i] = seqs[k][j] BY <2>3, <1>3 DEF Offsets
  <2>5. j = 1 BY <2>1, <2>4, <1>1, <1>2
  <2>6. k \in J BY <2>5, <1>1, <1>5
  <2> QED BY <2>3, <2>5, <2>6
<1>10. IsFiniteSet(J)
  <2>1. Len(ig.jobs) \in Nat /\ DOMAIN ig.jobs = 1..Len(ig.jobs)
    BY IsSeqProperties DEF ConvertibleJobs
  <2>2. IsFiniteSet(1..Len(ig.jobs)) BY <2>1, FS_Interval
  <2> QED BY <2>1, <2>2, <1>6, FS_Subset
<1> HIDE DEF start, F
<1>11. Cardinality(Drainers(F)) = Cardinality(J)
  BY <1>7, <1>8, <1>9, <1>10, SameSize
<1> QED BY <1>11 DEF F, seqs, J, StampingJobs, drainStampCount

LEMMA HooksOfGroup ==
    ASSUME NEW ig, NEW bpm, NEW disks, ConvertibleJobs(ig, bpm), ~IsErrand(ig)
    PROVE  HooksOfGroupCounted(JobsToContainers(ig, bpm, disks))
<1> DEFINE seqs == ContainersByJob(ig, bpm, disks)
           F == FlattenSeq(seqs)
           logs == IF ig.disableLogSidecar THEN <<>> ELSE <<logsTailerContainer>>
           cs == JobsToContainers(ig, bpm, disks)
<1>1. /\ SeqOfSeqs(seqs) /\ DOMAIN seqs = DOMAIN ig.jobs
      /\ \A k \in DOMAIN ig.jobs : DOMAIN seqs[k] = DOMAIN bpm[ig.jobs[k].name].processes
  BY ContainersByJobSeqs
<1>2. \A k \in DOMAIN ig.jobs : \A j \in DOMAIN seqs[k] :
          /\ seqs[k][j].preStop # Nil
          /\ seqs[k][j].preStop[1].stamps = drainStampCount(ig, bpm)
  BY <1>1, HookOfContainer
<1>3. Cardinality(Drainers(F)) = drainStampCount(ig, bpm) BY DrainersCounted
<1>4. cs = F \o logs BY DEF JobsToContainers, ContainersByJob
<1>5. IsSeq(logs) /\ DOMAIN logs \subseteq {1} /\ \A k \in DOMAIN logs : logs[k] = logsTailerContainer
  BY ShortSeqs
<1> HIDE DEF seqs, logs, cs
<1>6. IsSeq(F) /\ \A x \in ToSet(F) : \E k \in DOMAIN seqs : x \in ToSet(seqs[k])
  BY <1>1, FlattenElements
<1> HIDE DEF F
<1>7. /\ Len(F) \in Nat /\ DOMAIN F = 1..Len(F)
      /\ Len(logs) \in Nat /\ DOMAIN logs = 1..Len(logs)
      /\ IsSeq(cs) /\ Len(cs) = Len(F) + Len(logs) /\ DOMAIN cs = 1..Len(cs)
      /\ Len(cs) \in Nat
  BY <1>4, <1>5, <1>6, ConcatIsSeq, IsSeqProperties
<1>8. \A i \in 1..Len(F) : cs[i] = F[i] BY <1>4, <1>5, <1>6, ConcatIsSeq
<1>9. ASSUME NEW i \in DOMAIN cs, i \notin DOMAIN F
      PROVE  cs[i] = logsTailerContainer
  <2>1. i - Len(F) \in 1..Len(logs) /\ i = Len(F) + (i - Len(F)) BY <1>7, <1>9
  <2>2. (F \o logs)[Len(F) + (i - Len(F))] = logs[i - Len(F)]
    BY <2>1, <1>5, <1>6, ConcatRight
  <2> QED BY <2>1, <2>2, <1>4, <1>5, <1>7
<1>10. logsTailerContainer.preStop = Nil /\ logsTailerContainer.name = <<"logs">>
  BY DEF logsTailerContainer
<1>11. \A i \in DOMAIN F : /\ F[i].preStop # Nil
                           /\ F[i].preStop[1].stamps = drainStampCount(ig, bpm)
  <2> TAKE i \in DOMAIN F
  <2>1. PICK k \in DOMAIN seqs : F[i] \in ToSet(seqs[k]) BY <1>6 DEF ToSet
  <2>2. PICK j \in DOMAIN seqs[k] : F[i] = seqs[k][j] BY <2>1 DEF ToSet
  <2> QED BY <2>2, <1>1, <1>2
<1>12. Drainers(cs) = Drainers(F)
  <2>1. DOMAIN F \subseteq DOMAIN cs BY <1>7
  <2>2. ASSUME NEW i \in Drainers(cs) PROVE i \in Drainers(F)
    <3>1. i \in DOMAIN cs /\ cs[i].preStop # Nil /\ cs[i].preStop[1].script # Nil
      BY DEF Drainers
    <3>2. i \in DOMAIN F BY <3>1, <1>9, <1>10
    <3>3. cs[i] = F[i] BY <3>2, <1>7, <1>8
    <3> QED BY <3>1, <3>2, <3>3 DEF Drainers
  <2>3. ASSUME NEW i \in Drainers(F) PROVE i \in Drainers(cs)
    <3>1. i \in DOMAIN F /\ F[i].preStop # Nil /\ F[i].preStop[1].script # Nil
      BY DEF Drainers
    <3>2. cs[i] = F[i] BY <3>1, <1>7, <1>8
    <3> QED BY <3>1, <3>2, <2>1 DEF Drainers
  <2> QED BY <2>2, <2>3
<1>13. ASSUME NEW i \in DOMAIN cs
       PROVE  IF cs[i].preStop = Nil THEN cs[i].name = <<"logs">>
              ELSE cs[i].preStop[1].stamps = Cardinality(Drainers(cs))
  <2>1. CASE i \in DOMAIN F
    <3>1. cs[i] = F[i] BY <2>1, <1>7, <1>8
    <3> QED BY <2>1, <3>1, <1>11, <1>12, <1>3 DEF F, seqs
  <2>2. CASE i \notin DOMAIN F BY <2>2, <1>9, <1>10
  <2> QED BY <2>1, <2>2
<1>14. IsFiniteSet(DOMAIN cs) BY <1>7, FS_Interval
<1> QED BY <1>13, <1>14 DEF HooksOfGroupCounted, cs

-----------------------------------------------------------------------------
(* Addons: the manifest stays one, and its groups keep their names.        *)

\* f on 0..(k - 1), and v at k.
Extended(f, k, v) == [i \in 0..k |-> IF i = k THEN v ELSE f[i]]

LEMMA ExtendedValues ==
    ASSUME NEW f, NEW k \in Nat \ {0}, NEW v
    PROVE  LET h == Extended(f, k, v)
           IN /\ h = [i \in 0..k |-> h[i]]
              /\ h[k] = v /\ \A i \in 0..(k - 1) : h[i] = f[i]
<1>1. k \in 0..k /\ \A i \in 0..(k - 1) : i \in 0..k /\ i # k OBVIOUS
<1> QED BY <1>1, Zenon DEF Extended

Like(n, m) ==
    /\ IsManifest(n) /\ DOMAIN n.groups = DOMAIN m.groups
    /\ \A i \in DOMAIN m.groups : /\ n.groups[i].name = m.groups[i].name
                                   /\ n.groups[i].azs = m.groups[i].azs
                                   /\ n.groups[i].instances = m.groups[i].instances

LEMMA LikeTransitive ==
    ASSUME NEW a, NEW b, NEW c, Like(b, a), Like(c, b)
    PROVE  Like(c, a)
BY DEF Like

LEMMA MarkedJobs ==
    ASSUME NEW jobs, IsJobList(jobs)
    PROVE  IsJobList([k \in DOMAIN jobs |-> [jobs[k] EXCEPT !.isAddon = TRUE]])
<1> DEFINE t == [k \in DOMAIN jobs |-> [jobs[k] EXCEPT !.isAddon = TRUE]]
<1>1. t = [k \in DOMAIN jobs |-> t[k]] OBVIOUS
<1>2. \A k \in DOMAIN jobs :
          /\ DOMAIN t[k] = JobFields /\ t[k].release = jobs[k].release
          /\ t[k].name = jobs[k].name /\ t[k].bpm = jobs[k].bpm
  BY DEF IsJobList, JobFields
<1> HIDE DEF t
<1>3. IsSeq(t) /\ DOMAIN t = DOMAIN jobs BY <1>1, MapIsSeq DEF IsJobList
<1> QED BY <1>2, <1>3 DEF IsJobList, Presets, t

LEMMA ConcatJobs ==
    ASSUME NEW s, NEW t, IsJobList(s), IsJobList(t)
    PROVE  IsJobList(s \o t)
<1>1. IsSeq(s) /\ IsSeq(t) /\ IsSeq(s \o t) BY ConcatIsSeq DEF IsJobList
<1>2. ToSet(s \o t) = ToSet(s) \cup ToSet(t) BY <1>1, ConcatElements
<1>3. \A j \in ToSet(s) \cup ToSet(t) :
          /\ DOMAIN j = JobFields /\ IsSpec(Specs[<<j.release, j.name>>])
          /\ IsProcessList(Presets(j))
  BY DEF IsJobList, ToSet
<1>4. \A k \in DOMAIN (s \o t) : (s \o t)[k] \in ToSet(s) \cup ToSet(t)
  BY <1>2, Zenon DEF ToSet
<1> HIDE DEF IsSpec, IsProcessList
<1> QED BY <1>1, <1>3, <1>4 DEF IsJobList

LEMMA ReplacedGroup ==
    ASSUME NEW m, IsManifest(m), NEW i \in DOMAIN m.groups, NEW jobs, IsJobList(jobs)
    PROVE  Like([m EXCEPT !.groups[i].jobs = jobs], m)
<1> DEFINE n == [m EXCEPT !.groups[i].jobs = jobs]
           gs == [m.groups EXCEPT ![i] = [@ EXCEPT !.jobs = jobs]]
<1>1. /\ DOMAIN n = ManifestFields /\ n.groups = gs /\ n.addons = m.addons
  BY DEF IsManifest, ManifestFields
<1>2. /\ gs = [k \in DOMAIN m.groups |-> gs[k]]
      /\ gs[i] = [m.groups[i] EXCEPT !.jobs = jobs]
      /\ \A k \in DOMAIN m.groups \ {i} : gs[k] = m.groups[k]
  OBVIOUS
<1> HIDE DEF gs, n
<1>3. IsSeq(gs) /\ DOMAIN gs = DOMAIN m.groups BY <1>2, MapIsSeq DEF IsManifest
<1>4. /\ DOMAIN gs[i] = GroupFields /\ gs[i].jobs = jobs
      /\ gs[i].name = m.groups[i].name /\ gs[i].disks = m.groups[i].disks
      /\ gs[i].instances = m.groups[i].instances /\ gs[i].azs = m.groups[i].azs
  BY <1>2 DEF IsManifest, IsGroup, GroupFields
<1>5. IsGroup(gs[i]) BY <1>4 DEF IsManifest, IsGroup
<1>6. \A k \in DOMAIN m.groups : IsGroup(gs[k]) /\ gs[k].name = m.groups[k].name
  BY <1>2, <1>4, <1>5 DEF IsManifest
<1> QED BY <1>1, <1>3, <1>6 DEF Like, IsManifest, n

LEMMA FailedLike == ASSUME NEW m, IsManifest(m) PROVE Like(Failed(m), m)
<1>1. /\ DOMAIN Failed(m) = ManifestFields
      /\ Failed(m).groups = m.groups /\ Failed(m).addons = m.addons
  BY DEF Failed, IsManifest, ManifestFields
<1> QED BY <1>1 DEF Like, IsManifest

LEMMA MarkAppliedLike == ASSUME NEW m, IsManifest(m) PROVE Like(MarkApplied(m), m)
<1>1. /\ DOMAIN MarkApplied(m) = ManifestFields
      /\ MarkApplied(m).groups = m.groups /\ MarkApplied(m).addons = m.addons
  BY DEF MarkApplied, IsManifest, ManifestFields
<1> QED BY <1>1 DEF Like, IsManifest

LEMMA PlaceAddonLike ==
    ASSUME NEW m, IsManifest(m), NEW addon, IsJobList(addon.jobs), NEW i \in DOMAIN m.groups
    PROVE  Like(PlaceAddon(m, addon, i), m)
<1> DEFINE marked == [k \in DOMAIN addon.jobs |-> [addon.jobs[k] EXCEPT !.isAddon = TRUE]]
           jobs == m.groups[i].jobs \o marked
           more == [m EXCEPT !.groups[i].jobs = jobs]
<1>1. IsJobList(marked) BY MarkedJobs
<1>2. IsJobList(m.groups[i].jobs) BY DEF IsManifest, IsGroup
<1> HIDE DEF marked
<1>3. IsJobList(jobs) BY <1>1, <1>2, ConcatJobs
<1> HIDE DEF jobs
<1>4. Like(more, m) BY <1>3, ReplacedGroup
<1>5. Like(m, m) BY DEF Like
<1>6. PlaceAddon(m, addon, i) \in {m, Failed(m), more}
  BY DEF PlaceAddon, AddJobs, jobs, marked
<1> QED BY <1>4, <1>5, <1>6, FailedLike

\* The loop over the groups.
Placing(m, addon, n, f) ==
    f = [i \in 0..n |-> IF i = 0 THEN m ELSE PlaceAddon(f[i - 1], addon, i)]
HasPlacing(m, addon, n) == \E f : Placing(m, addon, n, f)

LEMMA PlacingExists ==
    ASSUME NEW m, NEW addon, NEW n \in Nat
    PROVE  HasPlacing(m, addon, n)
<1> DEFINE T == {k \in Nat : HasPlacing(m, addon, k)}
<1>1. 0 \in T
  <2> DEFINE f == [i \in 0..0 |-> m]
  <2>1. Placing(m, addon, 0, f) BY DEF Placing
  <2> QED BY <2>1, Zenon DEF HasPlacing
<1>2. ASSUME NEW k \in (0 + 1)..n, k - 1 \in T PROVE k \in T
  <2>1. PICK f : Placing(m, addon, k - 1, f) BY <1>2 DEF HasPlacing
  <2> DEFINE v == PlaceAddon(f[k - 1], addon, k)
             h == Extended(f, k, v)
  <2>2. k \in Nat \ {0} OBVIOUS
  <2>3. h = [i \in 0..k |-> h[i]] /\ h[k] = v /\ \A i \in 0..(k - 1) : h[i] = f[i]
    BY <2>2, ExtendedValues
  <2> HIDE DEF h
  <2>4. ASSUME NEW i \in 0..k
        PROVE  h[i] = IF i = 0 THEN m ELSE PlaceAddon(h[i - 1], addon, i)
    <3>1. CASE i = k
      <4>1. i # 0 /\ k - 1 \in 0..(k - 1) BY <2>2, <3>1
      <4> QED BY <4>1, <3>1, <2>3
    <3>2. CASE i # k
      <4>1. i \in 0..(k - 1) /\ (i # 0 => i - 1 \in 0..(k - 1)) BY <2>2, <3>2
      <4>2. f[i] = IF i = 0 THEN m ELSE PlaceAddon(f[i - 1], addon, i)
        BY <4>1, <2>1, Zenon DEF Placing
      <4> QED BY <4>1, <4>2, <2>3
    <3> QED BY <3>1, <3>2
  <2>5. Placing(m, addon, k, h) BY <2>3, <2>4, Zenon DEF Placing
  <2> QED BY <2>2, <2>5 DEF HasPlacing
<1>3. \A k \in 0..n : k \in T
  <2> HIDE DEF T
  <2>1. 0 \in Nat /\ n \in Nat OBVIOUS
  <2> QED BY <1>1, <1>2, <2>1, Induction
<1> QED BY <1>3

LEMMA PlaceInGroupsLike ==
    ASSUME NEW m, IsManifest(m), NEW addon, IsJobList(addon.jobs)
    PROVE  Like(PlaceInGroups(m, addon), m)
<1> DEFINE n == Len(m.groups)
           f == CHOOSE g : Placing(m, addon, n, g)
           T == {k \in 0..n : Like(f[k], m)}
<1>1. n \in Nat /\ DOMAIN m.groups = 1..n BY IsSeqProperties DEF IsManifest
<1>2. Placing(m, addon, n, f)
  <2>1. HasPlacing(m, addon, n) BY <1>1, PlacingExists
  <2> QED BY <2>1, Zenon DEF HasPlacing
<1>3. PlaceInGroups(m, addon) \in {m, f[n]} BY DEF PlaceInGroups, Placing
<1>4. Like(m, m) BY DEF Like
<1> HIDE DEF f
<1>5. f[0] = m /\ \A i \in 1..n : f[i] = PlaceAddon(f[i - 1], addon, i)
  <2>1. \A i \in 0..n : f[i] = IF i = 0 THEN m ELSE PlaceAddon(f[i - 1], addon, i)
    BY <1>2, Zenon DEF Placing
  <2>2. 0 \in 0..n /\ \A i \in 1..n : i \in 0..n /\ i # 0 BY <1>1
  <2> QED BY <2>1, <2>2, Zenon
<1>6. 0 \in T BY <1>1, <1>4, <1>5
<1>7. ASSUME NEW k \in (0 + 1)..n, k - 1 \in T PROVE k \in T
  <2>1. k \in 1..n /\ k \in 0..n BY <1>1
  <2>2. Like(f[k - 1], m) BY <1>7
  <2>3. IsManifest(f[k - 1]) /\ k \in DOMAIN f[k - 1].groups BY <2>1, <2>2, <1>1 DEF Like
  <2>4. Like(PlaceAddon(f[k - 1], addon, k), f[k - 1]) BY <2>3, PlaceAddonLike
  <2>5. Like(f[k], f[k - 1]) BY <2>1, <2>4, <1>5
  <2>6. Like(f[k], m) BY <2>2, <2>5, LikeTransitive
  <2> QED BY <2>1, <2>6
<1>8. \A k \in 0..n : k \in T
  <2> HIDE DEF T
  <2>1. 0 \in Nat /\ n \in Nat BY <1>1
  <2> QED BY <1>6, <1>7, <2>1, Induction
<1>9. Like(f[n], m) BY <1>1, <1>8
<1> QED BY <1>3, <1>4, <1>9

\* The loop over the addons.
Applying(m, n, f) ==
    f = [a \in 0..n |-> IF a = 0 THEN m ELSE PlaceInGroups(f[a - 1], m.addons[a])]
HasApplying(m, n) == \E f : Applying(m, n, f)

LEMMA ApplyingExists ==
    ASSUME NEW m, NEW n \in Nat
    PROVE  HasApplying(m, n)
<1> DEFINE T == {k \in Nat : HasApplying(m, k)}
<1>1. 0 \in T
  <2> DEFINE f == [i \in 0..0 |-> m]
  <2>1. Applying(m, 0, f) BY DEF Applying
  <2> QED BY <2>1, Zenon DEF HasApplying
<1>2. ASSUME NEW k \in (0 + 1)..n, k - 1 \in T PROVE k \in T
  <2>1. PICK f : Applying(m, k - 1, f) BY <1>2 DEF HasApplying
  <2> DEFINE v == PlaceInGroups(f[k - 1], m.addons[k])
             h == Extended(f, k, v)
  <2>2. k \in Nat \ {0} OBVIOUS
  <2>3. h = [i \in 0..k |-> h[i]] /\ h[k] = v /\ \A i \in 0..(k - 1) : h[i] = f[i]
    BY <2>2, ExtendedValues
  <2> HIDE DEF h
  <2>4. ASSUME NEW i \in 0..k
        PROVE  h[i] = IF i = 0 THEN m ELSE PlaceInGroups(h[i - 1], m.addons[i])
    <3>1. CASE i = k
      <4>1. i # 0 /\ k - 1 \in 0..(k - 1) BY <2>2, <3>1
      <4> QED BY <4>1, <3>1, <2>3
    <3>2. CASE i # k
      <4>1. i \in 0..(k - 1) /\ (i # 0 => i - 1 \in 0..(k - 1)) BY <2>2, <3>2
      <4>2. f[i] = IF i = 0 THEN m ELSE PlaceInGroups(f[i - 1], m.addons[i])
        BY <4>1, <2>1, Zenon DEF Applying
      <4> QED BY <4>1, <4>2, <2>3
    <3> QED BY <3>1, <3>2
  <2>5. Applying(m, k, h) BY <2>3, <2>4, Zenon DEF Applying
  <2> QED BY <2>2, <2>5 DEF HasApplying
<1>3. \A k \in 0..n : k \in T
  <2> HIDE DEF T
  <2>1. 0 \in Nat /\ n \in Nat OBVIOUS
  <2> QED BY <1>1, <1>2, <2>1, Induction
<1> QED BY <1>3

LEMMA ApplyAddonsLike ==
    ASSUME NEW m, IsManifest(m)
    PROVE  Like(ApplyAddons(m), m)
<1> DEFINE n == Len(m.addons)
           f == CHOOSE g : Applying(m, n, g)
           T == {k \in 0..n : Like(f[k], m)}
<1>1. n \in Nat /\ DOMAIN m.addons = 1..n BY IsSeqProperties DEF IsManifest
<1>2. Applying(m, n, f)
  <2>1. HasApplying(m, n) BY <1>1, ApplyingExists
  <2> QED BY <2>1, Zenon DEF HasApplying
<1>3. ApplyAddons(m) \in {m, MarkApplied(f[n])} BY DEF ApplyAddons, Applying
<1>4. Like(m, m) BY DEF Like
<1> HIDE DEF f
<1>5. f[0] = m /\ \A i \in 1..n : f[i] = PlaceInGroups(f[i - 1], m.addons[i])
  <2>1. \A i \in 0..n : f[i] = IF i = 0 THEN m ELSE PlaceInGroups(f[i - 1], m.addons[i])
    BY <1>2, Zenon DEF Applying
  <2>2. 0 \in 0..n /\ \A i \in 1..n : i \in 0..n /\ i # 0 BY <1>1
  <2> QED BY <2>1, <2>2, Zenon
<1>6. 0 \in T BY <1>1, <1>4, <1>5
<1>7. ASSUME NEW k \in (0 + 1)..n, k - 1 \in T PROVE k \in T
  <2>1. k \in 1..n /\ k \in 0..n BY <1>1
  <2>2. Like(f[k - 1], m) BY <1>7
  <2>3. IsManifest(f[k - 1]) /\ IsJobList(m.addons[k].jobs)
    BY <2>1, <2>2, <1>1 DEF Like, IsManifest
  <2>4. Like(PlaceInGroups(f[k - 1], m.addons[k]), f[k - 1]) BY <2>3, PlaceInGroupsLike
  <2>5. Like(f[k], f[k - 1]) BY <2>1, <2>4, <1>5
  <2>6. Like(f[k], m) BY <2>2, <2>5, LikeTransitive
  <2> QED BY <2>1, <2>6
<1>8. \A k \in 0..n : k \in T
  <2> HIDE DEF T
  <2>1. 0 \in Nat /\ n \in Nat BY <1>1
  <2> QED BY <1>6, <1>7, <2>1, Induction
<1>9. Like(f[n], m) BY <1>1, <1>8
<1>10. Like(MarkApplied(f[n]), m)
  <2>1. Like(MarkApplied(f[n]), f[n]) BY <1>9, MarkAppliedLike DEF Like
  <2> QED BY <2>1, <1>9, LikeTransitive
<1> QED BY <1>3, <1>4, <1>10

-----------------------------------------------------------------------------
(* The update blocks: which service a group waits for.                     *)

\* A manifest whose groups differ in the update block or in the required
\* service only.
LEMMA UpdatedLike ==
    ASSUME NEW m, IsManifest(m), NEW gs, gs = [i \in DOMAIN m.groups |-> gs[i]],
           \A i \in DOMAIN m.groups :
               /\ DOMAIN gs[i] = GroupFields
               /\ gs[i].name = m.groups[i].name /\ gs[i].jobs = m.groups[i].jobs
               /\ gs[i].instances = m.groups[i].instances /\ gs[i].azs = m.groups[i].azs
               /\ gs[i].disks = m.groups[i].disks
    PROVE  Like([m EXCEPT !.groups = gs], m)
<1> DEFINE n == [m EXCEPT !.groups = gs]
<1>1. DOMAIN n = ManifestFields /\ n.groups = gs /\ n.addons = m.addons
  BY DEF IsManifest, ManifestFields
<1> HIDE DEF n
<1>2. IsSeq(gs) /\ DOMAIN gs = DOMAIN m.groups BY MapIsSeq DEF IsManifest
<1>3. \A i \in DOMAIN m.groups : IsGroup(gs[i]) BY DEF IsManifest, IsGroup
<1> QED BY <1>1, <1>2, <1>3 DEF Like, IsManifest, n

LEMMA PropagateLike ==
    ASSUME NEW m, IsManifest(m)
    PROVE  Like(PropagateGlobalUpdateBlockToIGs(m), m)
<1> DEFINE Merged(ig) ==
               IF ig.update = Nil THEN m.update
               ELSE <<[f \in UpdateFields |-> IF ig.update[1][f] = Nil
                                              THEN m.update[1][f]
                                              ELSE ig.update[1][f]]>>
           gs == [i \in DOMAIN m.groups |->
                     IF m.groups[i].update # Nil /\ m.update = Nil THEN m.groups[i]
                     ELSE [m.groups[i] EXCEPT !.update = Merged(m.groups[i])]]
<1>1. PropagateGlobalUpdateBlockToIGs(m) \in {Failed(m), [m EXCEPT !.groups = gs]}
  BY DEF PropagateGlobalUpdateBlockToIGs
<1>2. gs = [i \in DOMAIN m.groups |-> gs[i]] OBVIOUS
<1> HIDE DEF Merged
<1>3. \A i \in DOMAIN m.groups : DOMAIN m.groups[i] = GroupFields BY DEF IsManifest, IsGroup
<1>4. \A i \in DOMAIN m.groups :
          gs[i] \in {m.groups[i], [m.groups[i] EXCEPT !.update = Merged(m.groups[i])]}
  OBVIOUS
<1> HIDE DEF gs
<1>5. \A i \in DOMAIN m.groups :
          /\ DOMAIN gs[i] = GroupFields
          /\ gs[i].name = m.groups[i].name /\ gs[i].jobs = m.groups[i].jobs
          /\ gs[i].instances = m.groups[i].instances /\ gs[i].azs = m.groups[i].azs
          /\ gs[i].disks = m.groups[i].disks
  BY <1>3, <1>4 DEF GroupFields
<1>6. Like([m EXCEPT !.groups = gs], m) BY <1>2, <1>5, UpdatedLike
<1> QED BY <1>1, <1>6, FailedLike

\* The loop over the groups and its two variables.
Passing(m, n, f) ==
    f = [i \in 0..n |-> IF i = 0 THEN [service |-> Nil, lastUsed |-> Nil]
                        ELSE PassGroup(m.groups[i], f[i - 1])]
HasPassing(m, n) == \E f : Passing(m, n, f)

LEMMA PassingExists ==
    ASSUME NEW m, NEW n \in Nat
    PROVE  HasPassing(m, n)
<1> DEFINE T == {k \in Nat : HasPassing(m, k)}
           none == [service |-> Nil, lastUsed |-> Nil]
<1>1. 0 \in T
  <2> DEFINE f == [i \in 0..0 |-> none]
  <2>1. Passing(m, 0, f) BY DEF Passing
  <2> QED BY <2>1, Zenon DEF HasPassing
<1>2. ASSUME NEW k \in (0 + 1)..n, k - 1 \in T PROVE k \in T
  <2>1. PICK f : Passing(m, k - 1, f) BY <1>2 DEF HasPassing
  <2> DEFINE v == PassGroup(m.groups[k], f[k - 1])
             h == Extended(f, k, v)
  <2>2. k \in Nat \ {0} OBVIOUS
  <2>3. h = [i \in 0..k |-> h[i]] /\ h[k] = v /\ \A i \in 0..(k - 1) : h[i] = f[i]
    BY <2>2, ExtendedValues
  <2> HIDE DEF h
  <2>4. ASSUME NEW i \in 0..k
        PROVE  h[i] = IF i = 0 THEN none ELSE PassGroup(m.groups[i], h[i - 1])
    <3> HIDE DEF none
    <3>1. CASE i = k
      <4>1. i # 0 /\ k - 1 \in 0..(k - 1) BY <2>2, <3>1
      <4> QED BY <4>1, <3>1, <2>3
    <3>2. CASE i # k
      <4>1. i \in 0..(k - 1) /\ (i # 0 => i - 1 \in 0..(k - 1)) BY <2>2, <3>2
      <4>2. f[i] = IF i = 0 THEN none ELSE PassGroup(m.groups[i], f[i - 1])
        BY <4>1, <2>1, Zenon DEF Passing, none
      <4> QED BY <4>1, <4>2, <2>3
    <3> QED BY <3>1, <3>2
  <2>5. Passing(m, k, h) BY <2>3, <2>4, Zenon DEF Passing
  <2> QED BY <2>2, <2>5 DEF HasPassing
<1>3. \A k \in 0..n : k \in T
  <2> HIDE DEF T
  <2>1. 0 \in Nat /\ n \in Nat OBVIOUS
  <2> QED BY <1>1, <1>2, <2>1, Induction
<1> QED BY <1>3

\* A service for which waiting is enough after the first i groups: there is no
\* serial group with ports among them, or the service is that of a group that
\* stands behind all of these, or is the last of them.
Covers(m, i, required) ==
    LET Serials == {j \in 1..i : Serial(m.groups[j]) /\ ServicePorts(m.groups[j]) # {}}
    IN \/ required = Nil /\ Serials = {}
       \/ \E r \in 1..i : /\ required = ServiceName(m.groups[r].name)
                          /\ \A j \in Serials : j <= r

LEMMA PassedCovers ==
    ASSUME NEW m, NEW i \in Nat \ {0}, NEW before,
           Covers(m, i - 1, before.service), Covers(m, i - 1, before.lastUsed)
    PROVE  LET after == PassGroup(m.groups[i], before)
           IN Covers(m, i, after.service) /\ Covers(m, i, after.lastUsed)
<1> DEFINE ig == m.groups[i]
           after == PassGroup(ig, before)
           Serials(k) == {j \in 1..k : Serial(m.groups[j]) /\ ServicePorts(m.groups[j]) # {}}
<1>1. 1..(i - 1) \subseteq 1..i /\ i \in 1..i /\ \A j \in 1..i : j <= i /\ (j = i \/ j \in 1..(i - 1))
  OBVIOUS
<1>2. \A s : Covers(m, i - 1, s) /\ Serials(i) = Serials(i - 1) => Covers(m, i, s)
  BY <1>1 DEF Covers
<1>3. ServicePorts(ig) = {} \/ ~Serial(ig) => Serials(i) = Serials(i - 1)
  BY <1>1
<1>4. Covers(m, i, after.service)
  <2>1. CASE ServicePorts(ig) = {}
    <3>1. after.service = before.service BY <2>1 DEF PassGroup
    <3> QED BY <3>1, <2>1, <1>2, <1>3
  <2>2. CASE ServicePorts(ig) # {}
    <3>1. after.service = ServiceName(m.groups[i].name) BY <2>2 DEF PassGroup
    <3>2. \A j \in Serials(i) : j <= i BY <1>1
    <3> QED BY <3>1, <3>2, <1>1 DEF Covers
  <2> QED BY <2>1, <2>2
<1>5. Covers(m, i, after.lastUsed)
  <2>1. CASE Serial(ig)
    <3>1. after.lastUsed = after.service BY <2>1 DEF PassGroup
    <3> QED BY <3>1, <1>4
  <2>2. CASE ~Serial(ig)
    <3>1. after.lastUsed = before.lastUsed BY <2>2 DEF PassGroup
    <3> QED BY <3>1, <2>2, <1>2, <1>3
  <2> QED BY <2>1, <2>2
<1> QED BY <1>4, <1>5

\* What calculateRequiredServices computes.
LEMMA RequiredCovers ==
    ASSUME NEW m, IsManifest(m)
    PROVE  LET n == calculateRequiredServices(m)
           IN /\ Like(n, m)
              /\ \A i \in DOMAIN n.groups : Covers(n, i - 1, n.groups[i].required)
<1> DEFINE len == Len(m.groups)
           f == CHOOSE g : Passing(m, len, g)
           T == {k \in 0..len : Covers(m, k, f[k].service) /\ Covers(m, k, f[k].lastUsed)}
           gs == [i \in DOMAIN m.groups |->
                     [m.groups[i] EXCEPT !.required = RequiredService(m.groups[i], f[i - 1])]]
           n == [m EXCEPT !.groups = gs]
<1>1. len \in Nat /\ DOMAIN m.groups = 1..len BY IsSeqProperties DEF IsManifest
<1>2. Passing(m, len, f)
  <2>1. HasPassing(m, len) BY <1>1, PassingExists
  <2> QED BY <2>1, Zenon DEF HasPassing
<1>3. calculateRequiredServices(m) = n BY DEF calculateRequiredServices, Passing
<1> HIDE DEF f
<1>4. f[0] = [service |-> Nil, lastUsed |-> Nil]
      /\ \A i \in 1..len : f[i] = PassGroup(m.groups[i], f[i - 1])
  <2>1. \A i \in 0..len : f[i] = IF i = 0 THEN [service |-> Nil, lastUsed |-> Nil]
                                 ELSE PassGroup(m.groups[i], f[i - 1])
    BY <1>2, Zenon DEF Passing
  <2>2. 0 \in 0..len /\ \A i \in 1..len : i \in 0..len /\ i # 0 BY <1>1
  <2> QED BY <2>1, <2>2, Zenon
<1>5. 0 \in T
  <2>1. f[0].service = Nil /\ f[0].lastUsed = Nil BY <1>4
  <2>2. Covers(m, 0, Nil) BY DEF Covers
  <2> QED BY <2>1, <2>2, <1>1
<1>6. ASSUME NEW k \in (0 + 1)..len, k - 1 \in T PROVE k \in T
  <2>1. k \in 1..len /\ k \in 0..len /\ k \in Nat \ {0} BY <1>1
  <2>2. Covers(m, k - 1, f[k - 1].service) /\ Covers(m, k - 1, f[k - 1].lastUsed) BY <1>6
  <2> DEFINE after == PassGroup(m.groups[k], f[k - 1])
  <2>3. Covers(m, k, after.service) /\ Covers(m, k, after.lastUsed)
    BY <2>1, <2>2, PassedCovers
  <2>4. f[k] = after BY <2>1, <1>4
  <2> HIDE DEF after
  <2> QED BY <2>1, <2>3, <2>4
<1>7. \A k \in 0..len : k \in T
  <2> HIDE DEF T
  <2>1. 0 \in Nat /\ len \in Nat BY <1>1
  <2> QED BY <1>5, <1>6, <2>1, Induction
<1>8. gs = [i \in DOMAIN m.groups |-> gs[i]] OBVIOUS
<1>9. \A i \in DOMAIN m.groups :
          gs[i] = [m.groups[i] EXCEPT !.required = RequiredService(m.groups[i], f[i - 1])]
  OBVIOUS
<1>10. \A i \in DOMAIN m.groups : DOMAIN m.groups[i] = GroupFields BY DEF IsManifest, IsGroup
<1> HIDE DEF gs
<1>11. \A i \in DOMAIN m.groups :
          /\ DOMAIN gs[i] = GroupFields
          /\ gs[i].name = m.groups[i].name /\ gs[i].jobs = m.groups[i].jobs
          /\ gs[i].instances = m.groups[i].instances /\ gs[i].azs = m.groups[i].azs
          /\ gs[i].disks = m.groups[i].disks /\ gs[i].update = m.groups[i].update
          /\ gs[i].required = RequiredService(m.groups[i], f[i - 1])
  BY <1>9, <1>10 DEF GroupFields
<1>12. Like(n, m) BY <1>8, <1>11, UpdatedLike
<1>13. n.groups = gs /\ DOMAIN gs = DOMAIN m.groups BY <1>8 DEF IsManifest, ManifestFields
<1> HIDE DEF n
<1>14. \A i \in DOMAIN m.groups :
           /\ Serial(gs[i]) <=> Serial(m.groups[i])
           /\ ServicePorts(gs[i]) = ServicePorts(m.groups[i])
  BY <1>11 DEF Serial, ServicePorts
<1>15. ASSUME NEW i \in DOMAIN m.groups PROVE Covers(n, i - 1, gs[i].required)
  <2>1. i - 1 \in 0..len /\ 1..(i - 1) \subseteq DOMAIN m.groups BY <1>1
  <2>2. i - 1 \in T BY <2>1, <1>7
  <2>3. gs[i].required \in {f[i - 1].service, f[i - 1].lastUsed}
    BY <1>11 DEF RequiredService
  <2>4. Covers(m, i - 1, gs[i].required) BY <2>2, <2>3
  <2>5. \A j \in 1..(i - 1) :
            /\ Serial(gs[j]) <=> Serial(m.groups[j])
            /\ ServicePorts(gs[j]) = ServicePorts(m.groups[j])
            /\ gs[j].name = m.groups[j].name
    BY <2>1, <1>11, <1>14
  <2> DEFINE o == i - 1
             required == gs[i].required
  <2> HIDE DEF o, required
  <2>6. Covers(n, o, required) BY <2>4, <2>5, <1>13 DEF Covers, o, required
  <2> QED BY <2>6 DEF o, required
<1> QED BY <1>3, <1>12, <1>13, <1>15 DEF n

LEMMA CompleteManifest ==
    ASSUME NEW m, IsManifest(m), ServicesDiffer(m), applyVariables(m) # Nil
    PROVE  LET n == applyVariables(m)[1]
           IN /\ IsManifest(n) /\ ServicesDiffer(n)
              /\ \A i \in DOMAIN n.groups : Covers(n, i - 1, n.groups[i].required)
<1> DEFINE a == ApplyAddons(m)
           b == PropagateGlobalUpdateBlockToIGs(a)
           n == calculateRequiredServices(b)
<1>1. applyVariables(m)[1] = n
  <2>1. applyVariables(m) = IF n.failed THEN Nil ELSE <<n>>
    BY DEF applyVariables, ApplyUpdateBlock
  <2> QED BY <2>1
<1>2. Like(a, m) BY ApplyAddonsLike
<1>3. Like(b, a) BY <1>2, PropagateLike DEF Like
<1>4. Like(n, b) /\ \A i \in DOMAIN n.groups : Covers(n, i - 1, n.groups[i].required)
  BY <1>3, RequiredCovers DEF Like
<1> HIDE DEF a, b, n
<1>5. Like(n, m) BY <1>2, <1>3, <1>4, LikeTransitive
<1>6. ServicesDiffer(n)
  <2>1. GroupsDiffer(n) BY <1>5 DEF ServicesDiffer, GroupsDiffer, Like
  <2>2. \A i \in DOMAIN n.groups :
            /\ i \in DOMAIN m.groups /\ n.groups[i].name = m.groups[i].name
            /\ Places(n.groups[i]) = Places(m.groups[i])
            /\ \A p : AddressAt(n.groups[i], p) = AddressAt(m.groups[i], p)
    BY <1>5 DEF Like, Places, NamedZones, AddressAt, IndexedServiceName
  <2>3. AddressesDiffer(m) BY DEF ServicesDiffer
  <2>4. AddressesDiffer(n)
    <3> SUFFICES ASSUME NEW i \in DOMAIN n.groups, NEW j \in DOMAIN n.groups,
                        NEW p \in Places(n.groups[i])
                 PROVE  /\ AddressAt(n.groups[i], p) # ServiceName(n.groups[j].name)
                        /\ \A q \in Places(n.groups[j]) :
                               AddressAt(n.groups[i], p) = AddressAt(n.groups[j], q)
                                   => i = j /\ p = q
      BY DEF AddressesDiffer
    <3>1. /\ p \in Places(m.groups[i]) /\ i \in DOMAIN m.groups
          /\ AddressAt(n.groups[i], p) = AddressAt(m.groups[i], p)
      BY <2>2
    <3>2. /\ j \in DOMAIN m.groups /\ n.groups[j].name = m.groups[j].name
          /\ Places(n.groups[j]) = Places(m.groups[j])
          /\ \A q : AddressAt(n.groups[j], q) = AddressAt(m.groups[j], q)
      BY <2>2
    <3>3. /\ AddressAt(m.groups[i], p) # ServiceName(m.groups[j].name)
          /\ \A q \in Places(m.groups[j]) :
                 AddressAt(m.groups[i], p) = AddressAt(m.groups[j], q) => i = j /\ p = q
      BY <2>3, <3>1, <3>2 DEF AddressesDiffer
    <3> QED BY <3>1, <3>2, <3>3
  <2> QED BY <2>1, <2>4 DEF ServicesDiffer
<1> QED BY <1>1, <1>4, <1>6 DEF Like

LEMMA MinOfOne == \A x \in Nat : Min({x}) = x
BY DEF Min

\* Groups are found by their names.
LEMMA GroupFound ==
    ASSUME NEW m, IsManifest(m), ServicesDiffer(m), NEW i \in DOMAIN m.groups
    PROVE  /\ InstanceGroupByName(m, m.groups[i].name) = <<m.groups[i]>>
           /\ IndexIn(m, m.groups[i].name) = i
<1> DEFINE name == m.groups[i].name
           I == {k \in DOMAIN m.groups : m.groups[k].name = name}
<1>1. Len(m.groups) \in Nat /\ DOMAIN m.groups = 1..Len(m.groups)
  BY IsSeqProperties DEF IsManifest
<1>2. I = {i} BY DEF ServicesDiffer, GroupsDiffer
<1>3. Min(I) = i BY <1>1, <1>2, MinOfOne
<1>4. InstanceGroupByName(m, name) = <<m.groups[Min(I)]>>
  BY <1>2 DEF InstanceGroupByName, FirstNamed, FirstAt
<1>5. IndexIn(m, name) = Min(I) BY <1>1, <1>2 DEF IndexIn, SelectInSeq
<1> QED BY <1>3, <1>4, <1>5

-----------------------------------------------------------------------------
(* Links: which provider a resolver has entered under a type and name.     *)

ResolverFields == {"m", "group", "specs", "links", "provided", "failed"}

KeyOf(e) == <<e.provider.type, LinkName(e.job, e.provider)>>

LinkFrom(e, initialRollout) ==
    JobLink(e.ig.name, ServiceName(e.ig.name), newJobInstances(e.ig, initialRollout),
            LinkProperties(e.job, Specs[<<e.job.release, e.job.name>>], e.provider))

AddOne(r, e, initialRollout) ==
    add(r, e.ig, e.job, e.provider, newJobInstances(e.ig, initialRollout))

\* The j-th provided link is the first of its name, or an addon's.
EnteredAt(r0, provided, j, initialRollout, r) ==
    LET key == KeyOf(provided[j])
    IN \/ /\ key \in DOMAIN r.links /\ key \notin DOMAIN r0.links
          /\ r.links[key] = LinkFrom(provided[j], initialRollout)
          /\ \A l \in 1..(j - 1) : KeyOf(provided[l]) # key
       \/ /\ provided[j].job.isAddon
          /\ key \in DOMAIN r0.links \/ \E l \in 1..(j - 1) : KeyOf(provided[l]) = key

Unblocked(provided, n) == {j \in 1..n : KeyOf(provided[j])[2] # "nil"}

\* What r0 has become after n provided links.
Entered(r0, provided, n, initialRollout, r) ==
    /\ DOMAIN r = ResolverFields /\ r.m = r0.m /\ r.group = r0.group
    /\ ~r.failed =>
           /\ ~r0.failed
           /\ DOMAIN r.links = DOMAIN r0.links
                               \cup {KeyOf(provided[j]) : j \in Unblocked(provided, n)}
           /\ \A key \in DOMAIN r0.links : r.links[key] = r0.links[key]
           /\ \A j \in Unblocked(provided, n) :
                  EnteredAt(r0, provided, j, initialRollout, r)

LEMMA AddedLink ==
    ASSUME NEW r, DOMAIN r = ResolverFields, NEW e, NEW initialRollout
    PROVE  LET key == KeyOf(e)
               n == AddOne(r, e, initialRollout)
           IN /\ DOMAIN n = ResolverFields /\ n.m = r.m /\ n.group = r.group
              /\ ~n.failed => ~r.failed
              /\ ~n.failed =>
                    \/ key[2] = "nil" /\ n.links = r.links
                    \/ /\ key[2] # "nil" /\ key \in DOMAIN r.links
                       /\ n.links = r.links /\ e.job.isAddon
                    \/ /\ key[2] # "nil" /\ key \notin DOMAIN r.links
                       /\ n.links = With(r.links, key, LinkFrom(e, initialRollout))
<1> DEFINE key == KeyOf(e)
           n == AddOne(r, e, initialRollout)
           link == LinkFrom(e, initialRollout)
           fail == [r EXCEPT !.failed = TRUE]
           again == [r EXCEPT !.failed = ~e.job.isAddon]
           more == [r EXCEPT !.links = With(@, key, link),
                             !.provided = IF e.ig.name # r.group THEN @
                                          ELSE With(@, key, link.properties)]
<1>1. CASE r.failed \/ key[2] = "nil"
  <2>1. n = r BY <1>1 DEF AddOne, add, KeyOf, Error
  <2> QED BY <2>1, <1>1
<1>2. CASE ~r.failed /\ key[2] = Error
  <2>1. n = fail BY <1>2 DEF AddOne, add, KeyOf, Error
  <2>2. DOMAIN n = ResolverFields /\ n.m = r.m /\ n.group = r.group /\ n.failed
    BY <2>1 DEF ResolverFields
  <2> QED BY <2>2
<1>3. CASE ~r.failed /\ key[2] \notin {"nil", Error} /\ key \in DOMAIN r.links
  <2>1. n = again BY <1>3 DEF AddOne, add, KeyOf
  <2>2. /\ DOMAIN n = ResolverFields /\ n.m = r.m /\ n.group = r.group
        /\ n.links = r.links /\ n.failed = ~e.job.isAddon
    BY <2>1 DEF ResolverFields
  <2> QED BY <2>2, <1>3
<1>4. CASE ~r.failed /\ key[2] \notin {"nil", Error} /\ key \notin DOMAIN r.links
  <2>1. n = more BY <1>4 DEF AddOne, add, KeyOf, LinkFrom
  <2> HIDE DEF key, link
  <2>2. /\ DOMAIN n = ResolverFields /\ n.m = r.m /\ n.group = r.group
        /\ n.links = With(r.links, key, link) /\ n.failed = r.failed
    BY <2>1 DEF ResolverFields
  <2> QED BY <2>2, <1>4 DEF key, link
<1> QED BY <1>1, <1>2, <1>3, <1>4

LEMMA EnteredNext ==
    ASSUME NEW r0, NEW provided, NEW n \in Nat, NEW initialRollout, NEW r,
           Entered(r0, provided, n, initialRollout, r)
    PROVE  Entered(r0, provided, n + 1, initialRollout,
                   AddOne(r, provided[n + 1], initialRollout))
<1> DEFINE e == provided[n + 1]
           key == KeyOf(e)
           s == AddOne(r, e, initialRollout)
           link == LinkFrom(e, initialRollout)
<1>1. /\ DOMAIN s = ResolverFields /\ s.m = r.m /\ s.group = r.group
      /\ ~s.failed => ~r.failed
      /\ ~s.failed => \/ key[2] = "nil" /\ s.links = r.links
                      \/ /\ key[2] # "nil" /\ key \in DOMAIN r.links
                         /\ s.links = r.links /\ e.job.isAddon
                      \/ /\ key[2] # "nil" /\ key \notin DOMAIN r.links
                         /\ s.links = With(r.links, key, link)
  BY AddedLink DEF Entered
<1> HIDE DEF s
<1>2. /\ DOMAIN s = ResolverFields /\ s.m = r0.m /\ s.group = r0.group
  BY <1>1 DEF Entered
<1>3. SUFFICES ASSUME ~s.failed
               PROVE  /\ ~r0.failed
                      /\ DOMAIN s.links = DOMAIN r0.links
                             \cup {KeyOf(provided[j]) : j \in Unblocked(provided, n + 1)}
                      /\ \A k \in DOMAIN r0.links : s.links[k] = r0.links[k]
                      /\ \A j \in Unblocked(provided, n + 1) :
                             EnteredAt(r0, provided, j, initialRollout, s)
  BY <1>2 DEF Entered, s
<1>4. /\ ~r0.failed
      /\ DOMAIN r.links = DOMAIN r0.links
             \cup {KeyOf(provided[j]) : j \in Unblocked(provided, n)}
      /\ \A k \in DOMAIN r0.links : r.links[k] = r0.links[k]
      /\ \A j \in Unblocked(provided, n) : EnteredAt(r0, provided, j, initialRollout, r)
  BY <1>1, <1>3 DEF Entered
<1>5. 1..(n + 1) = (1..n) \cup {n + 1} /\ 1..((n + 1) - 1) = 1..n OBVIOUS
<1>6. CASE key[2] = "nil"
  <2>1. s.links = r.links BY <1>1, <1>3, <1>6
  <2>2. Unblocked(provided, n + 1) = Unblocked(provided, n) BY <1>5, <1>6 DEF Unblocked
  <2>3. \A j \in Unblocked(provided, n) : EnteredAt(r0, provided, j, initialRollout, s)
    BY <2>1, <1>4 DEF EnteredAt
  <2> QED BY <2>1, <2>2, <2>3, <1>4
<1>7. CASE key[2] # "nil"
  <2>1. Unblocked(provided, n + 1) = Unblocked(provided, n) \cup {n + 1}
    BY <1>5, <1>7 DEF Unblocked
  <2>2. \A j \in Unblocked(provided, n) : j \in 1..n BY DEF Unblocked
  <2>3. CASE key \in DOMAIN r.links
    <3>1. s.links = r.links /\ e.job.isAddon BY <1>1, <1>3, <1>7, <2>3
    <3>2. \A j \in Unblocked(provided, n) : EnteredAt(r0, provided, j, initialRollout, s)
      BY <3>1, <1>4 DEF EnteredAt
    <3>3. key \in DOMAIN r0.links \/ \E l \in 1..n : KeyOf(provided[l]) = key
      BY <2>2, <2>3, <1>4
    <3>4. EnteredAt(r0, provided, n + 1, initialRollout, s)
      BY <3>1, <3>3, <1>5 DEF EnteredAt
    <3>5. DOMAIN s.links = DOMAIN r0.links
              \cup {KeyOf(provided[j]) : j \in Unblocked(provided, n + 1)}
      BY <3>1, <2>1, <2>3, <1>4
    <3> QED BY <3>1, <3>2, <3>4, <3>5, <2>1, <1>4
  <2>4. CASE key \notin DOMAIN r.links
    <3>1. s.links = With(r.links, key, link) BY <1>1, <1>3, <1>7, <2>4
    <3>2. /\ DOMAIN s.links = {key} \cup DOMAIN r.links
          /\ s.links[key] = link
          /\ \A k \in DOMAIN r.links : s.links[k] = r.links[k]
      BY <3>1, <2>4 DEF With
    <3>3. ASSUME NEW j \in Unblocked(provided, n)
          PROVE  EnteredAt(r0, provided, j, initialRollout, s)
      <4>1. EnteredAt(r0, provided, j, initialRollout, r) BY <1>4
      <4> QED BY <4>1, <3>2 DEF EnteredAt
    <3>4. \A l \in 1..n : KeyOf(provided[l]) # key
      <4> SUFFICES ASSUME NEW l \in 1..n, KeyOf(provided[l]) = key PROVE FALSE
        OBVIOUS
      <4>1. l \in Unblocked(provided, n) BY <1>7 DEF Unblocked
      <4> QED BY <4>1, <1>4, <2>4
    <3>5. EnteredAt(r0, provided, n + 1, initialRollout, s)
      BY <3>2, <3>4, <1>4, <1>5, <2>4 DEF EnteredAt
    <3>6. DOMAIN s.links = DOMAIN r0.links
              \cup {KeyOf(provided[j]) : j \in Unblocked(provided, n + 1)}
      BY <3>2, <2>1, <1>4
    <3> QED BY <3>2, <3>3, <3>5, <3>6, <2>1, <1>4
  <2> QED BY <2>3, <2>4
<1> QED BY <1>6, <1>7

\* The loop over the provided links.
Adding(r, provided, initialRollout, n, f) ==
    f = [k \in 0..n |-> IF k = 0 THEN r ELSE AddOne(f[k - 1], provided[k], initialRollout)]
HasAdding(r, provided, initialRollout, n) ==
    \E f : Adding(r, provided, initialRollout, n, f)

LEMMA AddingExists ==
    ASSUME NEW r, NEW provided, NEW initialRollout, NEW n \in Nat
    PROVE  HasAdding(r, provided, initialRollout, n)
<1> DEFINE T == {k \in Nat : HasAdding(r, provided, initialRollout, k)}
<1>1. 0 \in T
  <2> DEFINE f == [i \in 0..0 |-> r]
  <2>1. Adding(r, provided, initialRollout, 0, f) BY DEF Adding
  <2> QED BY <2>1, Zenon DEF HasAdding
<1>2. ASSUME NEW k \in (0 + 1)..n, k - 1 \in T PROVE k \in T
  <2>1. PICK f : Adding(r, provided, initialRollout, k - 1, f) BY <1>2 DEF HasAdding
  <2> DEFINE v == AddOne(f[k - 1], provided[k], initialRollout)
             h == Extended(f, k, v)
  <2>2. k \in Nat \ {0} OBVIOUS
  <2>3. h = [i \in 0..k |-> h[i]] /\ h[k] = v /\ \A i \in 0..(k - 1) : h[i] = f[i]
    BY <2>2, ExtendedValues
  <2> HIDE DEF h
  <2>4. ASSUME NEW i \in 0..k
        PROVE  h[i] = IF i = 0 THEN r ELSE AddOne(h[i - 1], provided[i], initialRollout)
    <3>1. CASE i = k
      <4>1. i # 0 /\ k - 1 \in 0..(k - 1) BY <2>2, <3>1
      <4> QED BY <4>1, <3>1, <2>3
    <3>2. CASE i # k
      <4>1. i \in 0..(k - 1) /\ (i # 0 => i - 1 \in 0..(k - 1)) BY <2>2, <3>2
      <4>2. f[i] = IF i = 0 THEN r ELSE AddOne(f[i - 1], provided[i], initialRollout)
        BY <4>1, <2>1, Zenon DEF Adding
      <4> QED BY <4>1, <4>2, <2>3
    <3> QED BY <3>1, <3>2
  <2>5. Adding(r, provided, initialRollout, k, h) BY <2>3, <2>4, Zenon DEF Adding
  <2> QED BY <2>2, <2>5 DEF HasAdding
<1>3. \A k \in 0..n : k \in T
  <2> HIDE DEF T
  <2>1. 0 \in Nat /\ n \in Nat OBVIOUS
  <2> QED BY <1>1, <1>2, <2>1, Induction
<1> QED BY <1>3

LEMMA AllEntered ==
    ASSUME NEW r, DOMAIN r = ResolverFields, NEW provided, IsSeq(provided),
           NEW initialRollout
    PROVE  Entered(r, provided, Len(provided), initialRollout,
                   AddAll(r, provided, initialRollout))
<1> DEFINE n == Len(provided)
           f == CHOOSE g : Adding(r, provided, initialRollout, n, g)
           T == {k \in 0..n : Entered(r, provided, k, initialRollout, f[k])}
<1>1. n \in Nat BY IsSeqProperties
<1>2. Adding(r, provided, initialRollout, n, f)
  <2>1. HasAdding(r, provided, initialRollout, n) BY <1>1, AddingExists
  <2> QED BY <2>1, Zenon DEF HasAdding
<1>3. AddAll(r, provided, initialRollout) = f[n] BY DEF AddAll, Adding, AddOne
<1> HIDE DEF f
<1>4. f[0] = r /\ \A i \in 1..n : f[i] = AddOne(f[i - 1], provided[i], initialRollout)
  <2>1. \A i \in 0..n : f[i] = IF i = 0 THEN r
                               ELSE AddOne(f[i - 1], provided[i], initialRollout)
    BY <1>2, Zenon DEF Adding
  <2>2. 0 \in 0..n /\ \A i \in 1..n : i \in 0..n /\ i # 0 BY <1>1
  <2> QED BY <2>1, <2>2, Zenon
<1>5. 0 \in T
  <2>1. Unblocked(provided, 0) = {} BY DEF Unblocked
  <2>2. Entered(r, provided, 0, initialRollout, r) BY <2>1 DEF Entered
  <2> QED BY <2>2, <1>1, <1>4
<1>6. ASSUME NEW k \in (0 + 1)..n, k - 1 \in T PROVE k \in T
  <2>1. k \in 1..n /\ k \in 0..n /\ k - 1 \in Nat /\ (k - 1) + 1 = k BY <1>1
  <2>2. Entered(r, provided, k - 1, initialRollout, f[k - 1]) BY <1>6
  <2>3. Entered(r, provided, (k - 1) + 1, initialRollout,
                AddOne(f[k - 1], provided[(k - 1) + 1], initialRollout))
    BY <2>1, <2>2, EnteredNext
  <2>4. Entered(r, provided, k, initialRollout, f[k]) BY <2>1, <2>3, <1>4
  <2> QED BY <2>1, <2>4
<1>7. \A k \in 0..n : k \in T
  <2> HIDE DEF T
  <2>1. 0 \in Nat /\ n \in Nat BY <1>1
  <2> QED BY <1>5, <1>6, <2>1, Induction
<1> QED BY <1>1, <1>3, <1>7

\* The links provided by the jobs of one group.
ProvidedByGroup(ig) == [k \in DOMAIN ig.jobs |-> ProvidedBy(ig, ig.jobs[k])]
ProvidedByGroups(m) == [i \in DOMAIN m.groups |-> FlattenSeq(ProvidedByGroup(m.groups[i]))]

LEMMA GroupProvides ==
    ASSUME NEW ig, IsJobList(ig.jobs)
    PROVE  /\ SeqOfSeqs(ProvidedByGroup(ig)) /\ DOMAIN ProvidedByGroup(ig) = DOMAIN ig.jobs
           /\ \A k \in DOMAIN ig.jobs :
                  /\ DOMAIN ProvidedByGroup(ig)[k] =
                         DOMAIN Specs[<<ig.jobs[k].release, ig.jobs[k].name>>].provides
                  /\ \A p \in DOMAIN ProvidedByGroup(ig)[k] :
                         LET e == ProvidedByGroup(ig)[k][p]
                         IN e.ig = ig /\ e.job = ig.jobs[k]
                            /\ e.provider = Specs[<<ig.jobs[k].release,
                                                    ig.jobs[k].name>>].provides[p]
<1> DEFINE seqs == ProvidedByGroup(ig)
<1>1. seqs = [k \in DOMAIN ig.jobs |-> seqs[k]] BY DEF ProvidedByGroup
<1>2. ASSUME NEW k \in DOMAIN ig.jobs
      PROVE  /\ IsSeq(seqs[k])
             /\ DOMAIN seqs[k] = DOMAIN Specs[<<ig.jobs[k].release, ig.jobs[k].name>>].provides
             /\ \A p \in DOMAIN seqs[k] :
                    /\ seqs[k][p].ig = ig /\ seqs[k][p].job = ig.jobs[k]
                    /\ seqs[k][p].provider =
                           Specs[<<ig.jobs[k].release, ig.jobs[k].name>>].provides[p]
  <2> DEFINE provides == Specs[<<ig.jobs[k].release, ig.jobs[k].name>>].provides
             t == ProvidedBy(ig, ig.jobs[k])
  <2>1. IsSeq(provides) BY DEF IsJobList, IsSpec
  <2>2. seqs[k] = t BY DEF ProvidedByGroup
  <2>3. t = [p \in DOMAIN provides |->
                [ig |-> ig, job |-> ig.jobs[k], provider |-> provides[p]]]
    BY DEF ProvidedBy
  <2> HIDE DEF seqs, t, provides
  <2>4. t = [p \in DOMAIN provides |-> t[p]] BY <2>3
  <2>5. IsSeq(t) /\ DOMAIN t = DOMAIN provides BY <2>1, <2>4, MapIsSeq
  <2>6. \A p \in DOMAIN t : t[p].ig = ig /\ t[p].job = ig.jobs[k]
                            /\ t[p].provider = provides[p]
    BY <2>3, <2>5
  <2> QED BY <2>2, <2>5, <2>6 DEF provides
<1>3. IsSeq(seqs) /\ DOMAIN seqs = DOMAIN ig.jobs
  <2> HIDE DEF seqs
  <2> QED BY <1>1, MapIsSeq DEF IsJobList
<1> HIDE DEF seqs
<1>4. SeqOfSeqs(seqs) BY <1>2, <1>3 DEF SeqOfSeqs
<1> QED BY <1>2, <1>3, <1>4 DEF seqs

LEMMA GroupsProvide ==
    ASSUME NEW m, IsManifest(m)
    PROVE  /\ SeqOfSeqs(ProvidedByGroups(m)) /\ DOMAIN ProvidedByGroups(m) = DOMAIN m.groups
           /\ AllProvided(m) = FlattenSeq(ProvidedByGroups(m))
           /\ IsSeq(AllProvided(m))
           /\ \A n \in DOMAIN AllProvided(m) :
                  \E i \in DOMAIN m.groups : AllProvided(m)[n].ig = m.groups[i]
<1> DEFINE seqs == ProvidedByGroups(m)
<1>1. seqs = [i \in DOMAIN m.groups |-> seqs[i]] BY DEF ProvidedByGroups
<1>2. AllProvided(m) = FlattenSeq(seqs)
  BY DEF AllProvided, ProvidedByGroups, ProvidedByGroup
<1>3. ASSUME NEW i \in DOMAIN m.groups
      PROVE  IsSeq(seqs[i]) /\ \A e \in ToSet(seqs[i]) : e.ig = m.groups[i]
  <2> DEFINE ig == m.groups[i]
             by == ProvidedByGroup(ig)
  <2>1. /\ SeqOfSeqs(by)
        /\ \A k \in DOMAIN by : \A p \in DOMAIN by[k] : by[k][p].ig = ig
    <3>1. IsJobList(ig.jobs) BY DEF IsManifest, IsGroup
    <3> HIDE DEF ig, seqs
    <3>2. SeqOfSeqs(by) /\ DOMAIN by = DOMAIN ig.jobs BY <3>1, GroupProvides
    <3>3. \A k \in DOMAIN ig.jobs : \A p \in DOMAIN by[k] : by[k][p].ig = ig
      BY <3>1, GroupProvides
    <3> QED BY <3>2, <3>3
  <2>2. seqs[i] = FlattenSeq(by) BY DEF ProvidedByGroups
  <2> HIDE DEF seqs, ig, by
  <2>3. IsSeq(seqs[i]) /\ ToSet(seqs[i]) = UNION {ToSet(by[k]) : k \in DOMAIN by}
    BY <2>1, <2>2, FlattenElements
  <2>4. ASSUME NEW e \in ToSet(seqs[i]) PROVE e.ig = ig
    <3>1. PICK k \in DOMAIN by : e \in ToSet(by[k]) BY <2>3
    <3>2. PICK p \in DOMAIN by[k] : e = by[k][p] BY <3>1 DEF ToSet
    <3> QED BY <3>2, <2>1
  <2> QED BY <2>3, <2>4 DEF ig
<1>4. IsSeq(seqs) /\ DOMAIN seqs = DOMAIN m.groups
  <2> HIDE DEF seqs
  <2> QED BY <1>1, MapIsSeq DEF IsManifest
<1> HIDE DEF seqs
<1>5. SeqOfSeqs(seqs) BY <1>3, <1>4 DEF SeqOfSeqs
<1>6. IsSeq(AllProvided(m)) /\ ToSet(AllProvided(m)) = UNION {ToSet(seqs[k]) : k \in DOMAIN seqs}
  BY <1>2, <1>5, FlattenElements
<1>7. ASSUME NEW n \in DOMAIN AllProvided(m)
      PROVE  \E i \in DOMAIN m.groups : AllProvided(m)[n].ig = m.groups[i]
  <2>1. AllProvided(m)[n] \in ToSet(AllProvided(m)) BY DEF ToSet
  <2>2. PICK i \in DOMAIN seqs : AllProvided(m)[n] \in ToSet(seqs[i]) BY <2>1, <1>6
  <2> QED BY <2>2, <1>3, <1>4
<1> QED BY <1>2, <1>4, <1>5, <1>6, <1>7 DEF seqs

\* The links of native providers.
NativeKeys(m, dirs) == {<<m.links[n].type, n>> : n \in dirs \cap DOMAIN m.links}

WithNative(r, m, group, dirs) ==
    /\ DOMAIN r = ResolverFields /\ r.m = m /\ r.group = group
    /\ ~r.failed => /\ DOMAIN r.links = NativeKeys(m, dirs)
                    /\ \A key \in DOMAIN r.links : r.links[key].group = ""

LEMMA Collected ==
    ASSUME NEW m, NEW group, NEW specs, NEW dirs, NEW r,
           r = CollectQuarksLinks(NewInstanceGroupResolver(m, group, specs), dirs)
    PROVE  WithNative(r, m, group, dirs)
<1> DEFINE n == NewInstanceGroupResolver(m, group, specs)
           keys == {<<n.m.links[x].type, x>> : x \in dirs \cap DOMAIN n.m.links}
           External(k) == LET l == n.m.links[k[2]]
                          IN JobLink("", l.address, l.instances, l.properties)
           links == [k \in keys \cup DOMAIN n.links |->
                        IF k \in keys THEN External(k) ELSE n.links[k]]
<1>1. r \in {[n EXCEPT !.failed = TRUE], [n EXCEPT !.links = links]}
  BY DEF CollectQuarksLinks
<1>2. DOMAIN n = ResolverFields /\ n.m = m /\ n.group = group /\ n.links = EmptyMap
  BY DEF NewInstanceGroupResolver, ResolverFields
<1>3. /\ DOMAIN links = NativeKeys(m, dirs)
      /\ \A key \in DOMAIN links : links[key].group = ""
  <2>1. keys = NativeKeys(m, dirs) BY <1>2 DEF NativeKeys
  <2>2. DOMAIN n.links = {} BY <1>2 DEF EmptyMap
  <2>3. \A k : External(k).group = "" BY DEF JobLink
  <2> HIDE DEF keys, External
  <2> QED BY <2>1, <2>2, <2>3
<1> HIDE DEF n, links
<1>4. CASE r = [n EXCEPT !.failed = TRUE] BY <1>2, <1>4 DEF ResolverFields, WithNative
<1>5. CASE r = [n EXCEPT !.links = links] BY <1>2, <1>3, <1>5 DEF ResolverFields, WithNative
<1> QED BY <1>1, <1>4, <1>5

LEMMA ProvidersEntered ==
    ASSUME NEW m, IsManifest(m), NEW r, DOMAIN r = ResolverFields, r.m = m,
           NEW initialRollout
    PROVE  Entered(r, AllProvided(m), Len(AllProvided(m)), initialRollout,
                   collectReleaseSpecsAndProviderLinks(r, initialRollout))
<1> DEFINE s == collectReleaseSpecsAndProviderLinks(r, initialRollout)
<1>1. CASE SpecsLoaded(r)
  <2>1. s = AddAll(r, AllProvided(m), initialRollout)
    BY <1>1 DEF collectReleaseSpecsAndProviderLinks
  <2>2. IsSeq(AllProvided(m)) BY GroupsProvide
  <2>3. Entered(r, AllProvided(m), Len(AllProvided(m)), initialRollout,
                AddAll(r, AllProvided(m), initialRollout))
    BY <2>2, AllEntered
  <2> QED BY <2>1, <2>3
<1>2. CASE ~SpecsLoaded(r)
  <2>1. s = [r EXCEPT !.failed = TRUE] BY <1>2 DEF collectReleaseSpecsAndProviderLinks
  <2>2. DOMAIN s = ResolverFields /\ s.m = r.m /\ s.group = r.group /\ s.failed
    BY <2>1 DEF ResolverFields
  <2> QED BY <2>2 DEF Entered
<1> QED BY <1>1, <1>2

-----------------------------------------------------------------------------
(* What the command writes for a group.                                    *)

\* No other group has the name of the i-th one.
Sole(groups, i) ==
    /\ i \in DOMAIN groups /\ DOMAIN groups \subseteq Nat
    /\ \A k \in DOMAIN groups : groups[k].name = groups[i].name => k = i

\* The resolver works on the group ig, which has the index i.
WorksOn(r, i, ig) ==
    /\ DOMAIN r = ResolverFields /\ "groups" \in DOMAIN r.m
    /\ Sole(r.m.groups, i) /\ r.m.groups[i] = ig /\ r.group = ig.name
    /\ DOMAIN ig = GroupFields

LEMMA GroupOf == ASSUME NEW r, NEW i, NEW ig, WorksOn(r, i, ig) PROVE Group(r) = ig
<1> DEFINE I == {k \in DOMAIN r.m.groups : r.m.groups[k].name = r.group}
<1>1. I = {i} /\ i \in Nat BY DEF WorksOn, Sole
<1>2. Min(I) = i BY <1>1, MinOfOne
<1>3. InstanceGroupByName(r.m, r.group) = <<r.m.groups[Min(I)]>>
  BY <1>1 DEF InstanceGroupByName, FirstNamed, FirstAt
<1> HIDE DEF I
<1>4. Group(r) = r.m.groups[Min(I)] BY <1>3 DEF Group
<1> QED BY <1>2, <1>4 DEF WorksOn

LEMMA JobsUpdated ==
    ASSUME NEW r, NEW i, NEW ig, WorksOn(r, i, ig), NEW jobs
    PROVE  LET s == UpdateJobs(r, jobs)
           IN /\ WorksOn(s, i, [ig EXCEPT !.jobs = jobs])
              /\ s.failed = r.failed /\ s.links = r.links /\ s.provided = r.provided
<1> DEFINE groups == r.m.groups
           updated == [ig EXCEPT !.jobs = jobs]
           gs == [k \in DOMAIN groups |->
                     IF groups[k].name = r.group THEN [groups[k] EXCEPT !.jobs = jobs]
                     ELSE groups[k]]
           s == UpdateJobs(r, jobs)
<1>1. s = [r EXCEPT !.m = [r.m EXCEPT !.groups = gs]] BY DEF UpdateJobs
<1>2. /\ Sole(groups, i) /\ groups[i] = ig /\ r.group = ig.name /\ DOMAIN ig = GroupFields
      /\ DOMAIN r = ResolverFields /\ "groups" \in DOMAIN r.m
  BY DEF WorksOn
<1>3. DOMAIN updated = GroupFields /\ updated.name = ig.name BY <1>2 DEF GroupFields
<1>4. /\ DOMAIN gs = DOMAIN groups /\ gs[i] = updated
      /\ \A k \in DOMAIN groups \ {i} : gs[k] = groups[k]
  BY <1>2 DEF Sole
<1> HIDE DEF gs, updated, groups
<1>5. Sole(gs, i) BY <1>2, <1>3, <1>4 DEF Sole
<1>6. /\ DOMAIN s = ResolverFields /\ s.m = [r.m EXCEPT !.groups = gs]
      /\ s.group = r.group /\ s.failed = r.failed /\ s.links = r.links
      /\ s.provided = r.provided
  BY <1>1, <1>2 DEF ResolverFields
<1>7. "groups" \in DOMAIN s.m /\ s.m.groups = gs BY <1>2, <1>6
<1>8. WorksOn(s, i, updated) BY <1>2, <1>3, <1>4, <1>5, <1>6, <1>7 DEF WorksOn
<1> QED BY <1>6, <1>8 DEF updated

LinkedJobs(r, ig) ==
    [k \in DOMAIN ig.jobs |->
        [ig.jobs[k] EXCEPT !.links = generateJobConsumersData(r, ig.jobs[k]).links]]

RenderedJobs(ig, initialRollout) ==
    [k \in DOMAIN ig.jobs |->
        [ig.jobs[k] EXCEPT !.bpm =
            renderJobBPM(ig.jobs[k], newJobInstances(ig, initialRollout))]]

LEMMA ConsumersLinked ==
    ASSUME NEW r, NEW i, NEW ig, WorksOn(r, i, ig), ~processConsumers(r).failed
    PROVE  /\ ~r.failed
           /\ WorksOn(processConsumers(r), i, [ig EXCEPT !.jobs = LinkedJobs(r, ig)])
           /\ \A k \in DOMAIN ig.jobs : ~generateJobConsumersData(r, ig.jobs[k]).failed
<1> DEFINE jobs == ig.jobs
           data == [k \in DOMAIN jobs |-> generateJobConsumersData(r, jobs[k])]
           linked == [k \in DOMAIN jobs |-> [jobs[k] EXCEPT !.links = data[k].links]]
<1>1. ~r.failed BY DEF processConsumers
<1>2. processConsumers(r) = StoreLinks(r, jobs, data)
  BY <1>1, GroupOf DEF processConsumers
<1>3. linked = LinkedJobs(r, ig) BY DEF LinkedJobs
<1>4. \A k \in DOMAIN jobs : data[k] = generateJobConsumersData(r, jobs[k]) OBVIOUS
<1> HIDE DEF data
<1>5. \A k \in DOMAIN jobs : ~data[k].failed
  <2> SUFFICES ASSUME \E k \in DOMAIN jobs : data[k].failed PROVE FALSE OBVIOUS
  <2>1. processConsumers(r) = [r EXCEPT !.failed = TRUE] BY <1>2 DEF StoreLinks
  <2>2. DOMAIN r = ResolverFields BY DEF WorksOn
  <2> QED BY <2>1, <2>2 DEF ResolverFields
<1>6. processConsumers(r) = UpdateJobs(r, linked) BY <1>2, <1>5 DEF StoreLinks
<1> HIDE DEF linked
<1>7. WorksOn(processConsumers(r), i, [ig EXCEPT !.jobs = linked])
  BY <1>6, JobsUpdated
<1> QED BY <1>1, <1>3, <1>4, <1>5, <1>7

LEMMA BPMRendered ==
    ASSUME NEW r, NEW i, NEW ig, WorksOn(r, i, ig), NEW initialRollout,
           ~renderBPM(r, initialRollout).failed
    PROVE  /\ ~r.failed
           /\ WorksOn(renderBPM(r, initialRollout), i,
                      [ig EXCEPT !.jobs = RenderedJobs(ig, initialRollout)])
<1> DEFINE jobs == ig.jobs
           instances == newJobInstances(ig, initialRollout)
           bpms == [k \in DOMAIN jobs |-> renderJobBPM(jobs[k], instances)]
           rendered == [k \in DOMAIN jobs |-> [jobs[k] EXCEPT !.bpm = bpms[k]]]
           s == renderBPM(r, initialRollout)
<1>1. ~r.failed BY DEF renderBPM
<1>2. s = StoreBPM(r, jobs, bpms) BY <1>1, GroupOf DEF renderBPM
<1>3. rendered = RenderedJobs(ig, initialRollout) BY DEF RenderedJobs
<1> HIDE DEF bpms
<1>4. s \in {UpdateJobs(r, rendered), [r EXCEPT !.failed = TRUE]} BY <1>2 DEF StoreBPM
<1>5. s # [r EXCEPT !.failed = TRUE]
  <2>1. DOMAIN r = ResolverFields BY DEF WorksOn
  <2>2. [r EXCEPT !.failed = TRUE].failed BY <2>1 DEF ResolverFields
  <2> QED BY <2>2
<1> HIDE DEF rendered
<1>6. WorksOn(UpdateJobs(r, rendered), i, [ig EXCEPT !.jobs = rendered])
  BY JobsUpdated
<1> QED BY <1>1, <1>3, <1>4, <1>5, <1>6

\* From the manifest to what the command writes: the resolver after the
\* collection of the providers, and the group with its links and its BPM.
Outcome(m, i, dirs, initialRollout, out, r0, r, ig) ==
    LET given == m.groups[i]
        linked == [given EXCEPT !.jobs = LinkedJobs(r, given)]
    IN /\ DOMAIN r0.links = NativeKeys(m, dirs)
       /\ \A key \in DOMAIN r0.links : r0.links[key].group = ""
       /\ Entered(r0, AllProvided(m), Len(AllProvided(m)), initialRollout, r) /\ ~r.failed
       /\ \A k \in DOMAIN given.jobs : ~generateJobConsumersData(r, given.jobs[k]).failed
       /\ ig = [linked EXCEPT !.jobs = RenderedJobs(linked, initialRollout)]
       /\ \A k \in DOMAIN ig.jobs : ig.jobs[k].bpm # Nil
       /\ out.manifest = IGManifest(ig) /\ out.bpm = BPMInfo(ig)

LEMMA CommandOutcome ==
    ASSUME NEW m, IsManifest(m), ServicesDiffer(m), NEW i \in DOMAIN m.groups,
           NEW specs, NEW dirs, NEW initialRollout,
           InstanceGroupCmd(m, m.groups[i].name, specs, dirs, initialRollout) # Nil
    PROVE  \E r0, r, ig :
               Outcome(m, i, dirs, initialRollout,
                       InstanceGroupCmd(m, m.groups[i].name, specs, dirs, initialRollout)[1],
                       r0, r, ig)
<1> DEFINE given == m.groups[i]
           g == given.name
           r0 == CollectQuarksLinks(NewInstanceGroupResolver(m, g, specs), dirs)
           r1 == collectReleaseSpecsAndProviderLinks(r0, initialRollout)
           r2 == processConsumers(r1)
           r3 == renderBPM(r2, initialRollout)
           out == InstanceGroupCmd(m, g, specs, dirs, initialRollout)
           linked == [given EXCEPT !.jobs = LinkedJobs(r1, given)]
           ig == [linked EXCEPT !.jobs = RenderedJobs(linked, initialRollout)]
<1>1. out = Written(r3) BY DEF InstanceGroupCmd, Resolve
<1>2. /\ DOMAIN r0 = ResolverFields /\ r0.m = m /\ r0.group = g
      /\ ~r0.failed => /\ DOMAIN r0.links = NativeKeys(m, dirs)
                       /\ \A key \in DOMAIN r0.links : r0.links[key].group = ""
  <2>1. r0 = CollectQuarksLinks(NewInstanceGroupResolver(m, g, specs), dirs) OBVIOUS
  <2> HIDE DEF g, r0
  <2>2. WithNative(r0, m, g, dirs) BY <2>1, Collected, Zenon
  <2> QED BY <2>2 DEF WithNative
<1> HIDE DEF r0
<1>3. Entered(r0, AllProvided(m), Len(AllProvided(m)), initialRollout, r1)
  BY <1>2, ProvidersEntered
<1> HIDE DEF r1
<1>4. DOMAIN r1 = ResolverFields /\ r1.m = m /\ r1.group = g BY <1>2, <1>3 DEF Entered
<1>5. WorksOn(r1, i, given)
  <2>1. "groups" \in DOMAIN m BY DEF IsManifest, ManifestFields
  <2>2. DOMAIN m.groups \subseteq Nat BY IsSeqProperties DEF IsManifest
  <2>3. Sole(m.groups, i) BY <2>2 DEF Sole, ServicesDiffer, GroupsDiffer
  <2>4. DOMAIN given = GroupFields BY DEF IsManifest, IsGroup
  <2> QED BY <2>1, <2>3, <2>4, <1>4 DEF WorksOn
<1>6. ~r3.failed /\ \A k \in DOMAIN Group(r3).jobs : Group(r3).jobs[k].bpm # Nil
  <2> HIDE DEF r3
  <2> QED BY <1>1 DEF Written
<1>7. out[1].manifest = IGManifest(Group(r3)) /\ out[1].bpm = BPMInfo(Group(r3))
  <2> HIDE DEF r3
  <2>1. Written(r3) = <<[manifest |-> IGManifest(Group(r3)), bpm |-> BPMInfo(Group(r3)),
                         provides |-> r3.provided]>>
    BY <1>6 DEF Written
  <2> QED BY <2>1, <1>1
<1>8. ~r2.failed
  <2>1. CASE r2.failed
    <3>1. r3 = r2 BY <2>1 DEF renderBPM
    <3> QED BY <3>1, <2>1, <1>6
  <2> QED BY <2>1
<1>9. /\ ~r1.failed /\ WorksOn(r2, i, linked)
      /\ \A k \in DOMAIN given.jobs : ~generateJobConsumersData(r1, given.jobs[k]).failed
  BY <1>5, <1>8, ConsumersLinked
<1> HIDE DEF r2, linked
<1>10. WorksOn(r3, i, ig) BY <1>6, <1>9, BPMRendered
<1> HIDE DEF r3, ig
<1>11. Group(r3) = ig BY <1>10, GroupOf
<1>12. ~r0.failed BY <1>3, <1>9 DEF Entered
<1>13. Outcome(m, i, dirs, initialRollout, out[1], r0, r1, ig)
  BY <1>2, <1>3, <1>6, <1>7, <1>9, <1>11, <1>12 DEF Outcome, ig, linked
<1> QED BY <1>13

-----------------------------------------------------------------------------
(* BPM: the processes of a job, from its template and from the manifest.   *)

IsProcess(p) == DOMAIN p = ProcessFields /\ IsSeq(p.additional) /\ IsSeq(p.unrestricted)

LEMMA ProcessListParts ==
    ASSUME NEW processes
    PROVE  IsProcessList(processes) <=>
               IsSeq(processes) /\ \A k \in DOMAIN processes : IsProcess(processes[k])
BY DEF IsProcessList, IsProcess

LEMMA PresetAdded ==
    ASSUME NEW processes, IsProcessList(processes), NEW preset, IsProcess(preset)
    PROVE  IsProcessList(AddPreset(processes, preset))
<1> DEFINE found == {k \in DOMAIN processes : processes[k].name = preset.name}
           at == Min(found)
           merged == MergeProcess(processes[at], preset)
           replaced == [processes EXCEPT ![at] = merged]
<1>1. IsSeq(processes) /\ \A k \in DOMAIN processes : IsProcess(processes[k])
  BY ProcessListParts
<1>2. AddPreset(processes, preset) \in {Append(processes, preset), replaced}
  BY DEF AddPreset
<1> HIDE DEF at
<1>3. IsProcessList(Append(processes, preset))
  <2>1. /\ Len(processes) \in Nat /\ DOMAIN processes = 1..Len(processes)
    BY <1>1, IsSeqProperties
  <2>2. processes \in Seq(ToSet(processes) \cup {preset}) BY <1>1 DEF IsSeq
  <2> DEFINE S == ToSet(processes) \cup {preset}
             t == Append(processes, preset)
  <2>3. t \in Seq(S) /\ Len(t) = Len(processes) + 1
        /\ \A k \in 1..Len(t) : t[k] = IF k <= Len(processes) THEN processes[k] ELSE preset
    <3> HIDE DEF S
    <3> QED BY <2>2 DEF S
  <2>4. IsSeq(t) /\ DOMAIN t = 1..Len(t)
    <3> HIDE DEF S, t
    <3>1. IsSeq(t) BY <2>3, SeqIsSeq
    <3> QED BY <3>1, IsSeqProperties
  <2>5. \A k \in DOMAIN t : k <= Len(processes) => k \in DOMAIN processes
    BY <2>1, <2>3, <2>4
  <2> HIDE DEF t
  <2>6. \A k \in DOMAIN t : IsProcess(t[k]) BY <2>3, <2>4, <2>5, <1>1
  <2>7. IsProcessList(t) BY <2>4, <2>6, ProcessListParts
  <2> QED BY <2>7 DEF t
<1>4. IsProcessList(replaced)
  <2>1. replaced = [k \in DOMAIN processes |-> replaced[k]] OBVIOUS
  <2>2. \A k \in DOMAIN processes : replaced[k] = IF k = at THEN merged ELSE processes[k]
    OBVIOUS
  <2>3. at \in DOMAIN processes => IsProcess(merged)
    <3> SUFFICES ASSUME at \in DOMAIN processes PROVE IsProcess(merged) OBVIOUS
    <3> DEFINE p == processes[at]
    <3>1. IsProcess(p) BY <1>1
    <3> HIDE DEF p
    <3>2. merged = MergeProcess(p, preset) BY DEF p
    <3> HIDE DEF merged
    <3>3. /\ DOMAIN merged = ProcessFields
          /\ merged.additional \in {p.additional, preset.additional}
          /\ merged.unrestricted \in {p.unrestricted, preset.unrestricted}
      BY <3>1, <3>2 DEF MergeProcess, IsProcess, ProcessFields
    <3> QED BY <3>1, <3>3 DEF IsProcess
  <2> HIDE DEF replaced, merged
  <2>4. IsSeq(replaced) /\ DOMAIN replaced = DOMAIN processes BY <2>1, <1>1, MapIsSeq
  <2>5. \A k \in DOMAIN replaced : IsProcess(replaced[k]) BY <2>2, <2>3, <2>4, <1>1
  <2> QED BY <2>4, <2>5, ProcessListParts
<1> QED BY <1>2, <1>3, <1>4

\* The loop over the processes of the manifest.
Merging(rendered, presets, n, f) ==
    f = [k \in 0..n |-> IF k = 0 THEN rendered ELSE AddPreset(f[k - 1], presets[k])]
HasMerging(rendered, presets, n) == \E f : Merging(rendered, presets, n, f)

LEMMA MergingExists ==
    ASSUME NEW rendered, NEW presets, NEW n \in Nat
    PROVE  HasMerging(rendered, presets, n)
<1> DEFINE T == {k \in Nat : HasMerging(rendered, presets, k)}
<1>1. 0 \in T
  <2> DEFINE f == [i \in 0..0 |-> rendered]
  <2>1. Merging(rendered, presets, 0, f) BY DEF Merging
  <2> QED BY <2>1, Zenon DEF HasMerging
<1>2. ASSUME NEW k \in (0 + 1)..n, k - 1 \in T PROVE k \in T
  <2>1. PICK f : Merging(rendered, presets, k - 1, f) BY <1>2 DEF HasMerging
  <2> DEFINE v == AddPreset(f[k - 1], presets[k])
             h == Extended(f, k, v)
  <2>2. k \in Nat \ {0} OBVIOUS
  <2>3. h = [i \in 0..k |-> h[i]] /\ h[k] = v /\ \A i \in 0..(k - 1) : h[i] = f[i]
    BY <2>2, ExtendedValues
  <2> HIDE DEF h
  <2>4. ASSUME NEW i \in 0..k
        PROVE  h[i] = IF i = 0 THEN rendered ELSE AddPreset(h[i - 1], presets[i])
    <3>1. CASE i = k
      <4>1. i # 0 /\ k - 1 \in 0..(k - 1) BY <2>2, <3>1
      <4> QED BY <4>1, <3>1, <2>3
    <3>2. CASE i # k
      <4>1. i \in 0..(k - 1) /\ (i # 0 => i - 1 \in 0..(k - 1)) BY <2>2, <3>2
      <4>2. f[i] = IF i = 0 THEN rendered ELSE AddPreset(f[i - 1], presets[i])
        BY <4>1, <2>1, Zenon DEF Merging
      <4> QED BY <4>1, <4>2, <2>3
    <3> QED BY <3>1, <3>2
  <2>5. Merging(rendered, presets, k, h) BY <2>3, <2>4, Zenon DEF Merging
  <2> QED BY <2>2, <2>5 DEF HasMerging
<1>3. \A k \in 0..n : k \in T
  <2> HIDE DEF T
  <2>1. 0 \in Nat /\ n \in Nat OBVIOUS
  <2> QED BY <1>1, <1>2, <2>1, Induction
<1> QED BY <1>3

LEMMA ProcessesMerged ==
    ASSUME NEW rendered, IsProcessList(rendered), NEW presets, IsProcessList(presets)
    PROVE  IsProcessList(MergeProcesses(rendered, presets))
<1> DEFINE n == Len(presets)
           f == CHOOSE g : Merging(rendered, presets, n, g)
           T == {k \in 0..n : IsProcessList(f[k])}
<1>1. n \in Nat /\ DOMAIN presets = 1..n BY IsSeqProperties DEF IsProcessList
<1>2. Merging(rendered, presets, n, f)
  <2>1. HasMerging(rendered, presets, n) BY <1>1, MergingExists
  <2> QED BY <2>1, Zenon DEF HasMerging
<1>3. MergeProcesses(rendered, presets) = f[n] BY DEF MergeProcesses, Merging
<1> HIDE DEF f
<1>4. f[0] = rendered /\ \A i \in 1..n : f[i] = AddPreset(f[i - 1], presets[i])
  <2>1. \A i \in 0..n : f[i] = IF i = 0 THEN rendered ELSE AddPreset(f[i - 1], presets[i])
    BY <1>2, Zenon DEF Merging
  <2>2. 0 \in 0..n /\ \A i \in 1..n : i \in 0..n /\ i # 0 BY <1>1
  <2> QED BY <2>1, <2>2, Zenon
<1>5. 0 \in T BY <1>1, <1>4
<1>6. ASSUME NEW k \in (0 + 1)..n, k - 1 \in T PROVE k \in T
  <2>1. k \in 1..n /\ k \in 0..n BY <1>1
  <2>2. IsProcessList(f[k - 1]) BY <1>6
  <2>3. IsProcess(presets[k]) BY <2>1, <1>1, ProcessListParts
  <2>4. IsProcessList(AddPreset(f[k - 1], presets[k])) BY <2>2, <2>3, PresetAdded
  <2>5. IsProcessList(f[k]) BY <2>1, <2>4, <1>4
  <2> QED BY <2>1, <2>5
<1>7. \A k \in 0..n : k \in T
  <2> HIDE DEF T
  <2>1. 0 \in Nat /\ n \in Nat BY <1>1
  <2> QED BY <1>5, <1>6, <2>1, Induction
<1> QED BY <1>1, <1>3, <1>7

LEMMA InstancesListed ==
    ASSUME NEW ig, ig.instances \in Nat, ig.azs \in Nat, NEW initialRollout
    PROVE  /\ IsSeq(newJobInstances(ig, initialRollout))
           /\ DOMAIN newJobInstances(ig, initialRollout) =
                  1..(IF ig.azs > 0 THEN ig.instances * ig.azs ELSE ig.instances)
<1> DEFINE t == newJobInstances(ig, initialRollout)
           n == IF ig.azs > 0 THEN ig.instances * ig.azs ELSE ig.instances
<1>1. n \in Nat OBVIOUS
<1>2. t = [k \in 1..n |-> t[k]]
  BY DEF newJobInstances, jobInstancesAZ, jobInstances
<1> HIDE DEF t, n
<1>3. IsSeq(t) /\ DOMAIN t = 1..n BY <1>1, <1>2, FunctionIsSeq
<1> QED BY <1>3 DEF t, n

LEMMA UpdatedProcesses ==
    ASSUME NEW processes, IsProcessList(processes), NEW envs
    PROVE  IsProcessList([k \in DOMAIN processes |-> UpdateEnv(processes[k], envs)])
<1> DEFINE t == [k \in DOMAIN processes |-> UpdateEnv(processes[k], envs)]
<1>1. IsSeq(processes) /\ \A k \in DOMAIN processes : IsProcess(processes[k])
  BY ProcessListParts
<1>2. t = [k \in DOMAIN processes |-> t[k]] OBVIOUS
<1>3. \A p : IsProcess(p) => IsProcess(UpdateEnv(p, envs))
  <2> TAKE p
  <2> HAVE IsProcess(p)
  <2>1. /\ DOMAIN UpdateEnv(p, envs) = ProcessFields
        /\ UpdateEnv(p, envs).additional = p.additional
        /\ UpdateEnv(p, envs).unrestricted = p.unrestricted
    BY DEF UpdateEnv, IsProcess, ProcessFields
  <2> QED BY <2>1 DEF IsProcess
<1>4. \A k \in DOMAIN processes : IsProcess(t[k]) BY <1>1, <1>3
<1> HIDE DEF t
<1>5. IsSeq(t) /\ DOMAIN t = DOMAIN processes BY <1>1, <1>2, MapIsSeq
<1>6. IsProcessList(t) BY <1>4, <1>5, ProcessListParts
<1> QED BY <1>6 DEF t

LEMMA InstanceRendered ==
    ASSUME NEW job, IsSpec(Specs[<<job.release, job.name>>]), IsProcessList(Presets(job)),
           NEW instance
    PROVE  LET config == RenderInstance(job, instance)
           IN /\ IsProcessList(config.processes)
              /\ config.ports = job.ports /\ config.activePassive = job.activePassive
              /\ DOMAIN config = {"processes", "ports", "activePassive", "unsupported"}
<1> DEFINE spec == Specs[<<job.release, job.name>>]
           rendered == IF spec.template THEN ERBRender(spec, instance) ELSE <<>>
           merged == MergeProcesses(rendered, Presets(job))
           processes == [k \in DOMAIN merged |-> UpdateEnv(merged[k], job.envs)]
           config == RenderInstance(job, instance)
<1>1. config = [processes |-> processes, ports |-> job.ports,
                activePassive |-> job.activePassive, unsupported |-> FALSE]
  BY DEF RenderInstance, BPMConfig
<1>2. IsProcessList(<<>>) BY ShortSeqs, ProcessListParts
<1>3. rendered \in {<<>>, spec.processes} BY DEF ERBRender
<1>4. IsProcessList(rendered) BY <1>2, <1>3 DEF IsSpec
<1> HIDE DEF rendered
<1>5. IsProcessList(merged) BY <1>4, ProcessesMerged
<1> HIDE DEF merged
<1>6. IsProcessList(processes) BY <1>5, UpdatedProcesses
<1> HIDE DEF processes
<1> QED BY <1>1, <1>6

LEMMA JobRendered ==
    ASSUME NEW job, IsSpec(Specs[<<job.release, job.name>>]), IsProcessList(Presets(job)),
           NEW instances, IsSeq(instances), renderJobBPM(job, instances) # Nil
    PROVE  LET config == renderJobBPM(job, instances)[1]
           IN /\ IsProcessList(config.processes)
              /\ instances # <<>> => config.ports = job.ports
<1>1. CASE instances = <<>>
  <2>1. renderJobBPM(job, instances) = job.bpm BY <1>1 DEF renderJobBPM
  <2>2. Presets(job) = job.bpm[1].processes BY <2>1 DEF Presets
  <2> QED BY <2>1, <2>2, <1>1
<1>2. CASE instances # <<>>
  <2> DEFINE configs == [k \in DOMAIN instances |-> RenderInstance(job, instances[k])]
             first == RenderInstance(job, instances[1])
             differ == \E k \in DOMAIN configs : configs[k] # configs[1]
             config == [first EXCEPT !.unsupported = differ]
  <2>1. 1 \in DOMAIN instances BY <1>2 DEF IsSeq
  <2>2. renderJobBPM(job, instances) = <<config>>
    BY <1>2, <2>1 DEF renderJobBPM, FirstConfig
  <2>3. /\ IsProcessList(first.processes) /\ first.ports = job.ports
        /\ DOMAIN first = {"processes", "ports", "activePassive", "unsupported"}
    BY InstanceRendered
  <2> HIDE DEF first, differ
  <2>4. config.processes = first.processes /\ config.ports = first.ports BY <2>3
  <2>5. renderJobBPM(job, instances)[1] = config BY <2>2
  <2> QED BY <2>3, <2>4, <2>5
<1> QED BY <1>1, <1>2

LEMMA LargestIn ==
    ASSUME NEW n \in Nat, NEW S \in SUBSET (1..n), S # {}
    PROVE  Max(S) \in S /\ \A y \in S : Max(S) >= y
<1> DEFINE T == {n - y : y \in S}
<1>1. T \in SUBSET Nat /\ T # {}
  <2>1. \A y \in S : n - y \in Nat
    <3>1. \A y \in 1..n : n - y \in Nat OBVIOUS
    <3> QED BY <3>1
  <2>2. \A u \in T : u \in Nat BY <2>1
  <2>3. T # {} OBVIOUS
  <2> HIDE DEF T
  <2> QED BY <2>2, <2>3
<1> HIDE DEF T
<1>2. PICK t \in T : \A u \in T : t <= u BY <1>1, LeastNat
<1>3. PICK x \in S : t = n - x BY DEF T
<1>4. \A y \in S : x >= y
  <2> TAKE y \in S
  <2>1. t <= n - y BY <1>2 DEF T
  <2> QED BY <2>1, <1>3
<1>5. \E z \in S : \A y \in S : z >= y BY <1>4
<1> QED BY <1>5 DEF Max

\* What the command writes: the names and releases of the jobs, their links,
\* and their BPM by name.
LEMMA OutputOf ==
    ASSUME NEW m, IsManifest(m), NEW i \in DOMAIN m.groups,
           NEW dirs, NEW initialRollout, NEW out, NEW r0, NEW r, NEW ig,
           Outcome(m, i, dirs, initialRollout, out, r0, r, ig)
    PROVE  LET given == m.groups[i]
           IN /\ out.manifest.name = given.name /\ out.manifest.azs = given.azs
              /\ DOMAIN out.manifest.jobs = DOMAIN given.jobs
              /\ \A k \in DOMAIN given.jobs :
                     LET job == out.manifest.jobs[k]
                     IN /\ job.name = given.jobs[k].name /\ job.release = given.jobs[k].release
                        /\ job.links = generateJobConsumersData(r, given.jobs[k]).links
              /\ DOMAIN out.bpm = {given.jobs[k].name : k \in DOMAIN given.jobs}
              /\ \A name \in DOMAIN out.bpm :
                     /\ IsProcessList(out.bpm[name].processes)
                     /\ given.instances # 0 =>
                            \E k \in DOMAIN given.jobs :
                                /\ given.jobs[k].name = name
                                /\ \A l \in DOMAIN given.jobs :
                                       given.jobs[l].name = name => l <= k
                                /\ out.bpm[name].ports = given.jobs[k].ports
<1> DEFINE given == m.groups[i]
           linked == [given EXCEPT !.jobs = LinkedJobs(r, given)]
           instances == newJobInstances(linked, initialRollout)
<1>1. /\ ig = [linked EXCEPT !.jobs = RenderedJobs(linked, initialRollout)]
      /\ \A k \in DOMAIN ig.jobs : ig.jobs[k].bpm # Nil
      /\ out.manifest = IGManifest(ig) /\ out.bpm = BPMInfo(ig)
  BY DEF Outcome
<1>2. IsGroup(given) BY DEF IsManifest
<1>3. /\ DOMAIN linked = GroupFields /\ linked.name = given.name
      /\ linked.azs = given.azs /\ linked.instances = given.instances
      /\ linked.jobs = LinkedJobs(r, given)
  BY <1>2 DEF IsGroup, GroupFields
<1> HIDE DEF linked
<1>4. /\ ig.name = given.name /\ ig.azs = given.azs
      /\ ig.jobs = RenderedJobs(linked, initialRollout)
  BY <1>1, <1>3 DEF GroupFields
<1>5. DOMAIN linked.jobs = DOMAIN given.jobs /\ DOMAIN ig.jobs = DOMAIN given.jobs
  BY <1>3, <1>4 DEF LinkedJobs, RenderedJobs
<1> HIDE DEF given
<1>6. IsSeq(instances) /\ (given.instances # 0 => instances # <<>>)
  <2>1. linked.instances \in Nat /\ linked.azs \in Nat BY <1>2, <1>3 DEF IsGroup
  <2>2. IsSeq(instances) /\ DOMAIN instances =
            1..(IF linked.azs > 0 THEN linked.instances * linked.azs ELSE linked.instances)
    BY <2>1, InstancesListed
  <2>3. \A a, b \in Nat : a > 0 /\ b > 0 => 1 \in 1..(a * b) OBVIOUS
  <2>4. given.instances # 0 => 1 \in DOMAIN instances BY <2>1, <2>2, <2>3, <1>3
  <2>5. DOMAIN <<>> = {} OBVIOUS
  <2> QED BY <2>2, <2>4, <2>5
<1> HIDE DEF instances
<1>7. ASSUME NEW k \in DOMAIN given.jobs
      PROVE  /\ ig.jobs[k].name = given.jobs[k].name
             /\ ig.jobs[k].release = given.jobs[k].release
             /\ ig.jobs[k].links = generateJobConsumersData(r, given.jobs[k]).links
             /\ IsProcessList(ig.jobs[k].bpm[1].processes)
             /\ given.instances # 0 => ig.jobs[k].bpm[1].ports = given.jobs[k].ports
  <2> DEFINE old == given.jobs[k]
             mid == linked.jobs[k]
             new == ig.jobs[k]
             links == generateJobConsumersData(r, old).links
             bpm == renderJobBPM(mid, instances)
  <2>1. /\ DOMAIN old = JobFields /\ IsSpec(Specs[<<old.release, old.name>>])
        /\ IsProcessList(Presets(old))
    BY <1>2 DEF IsGroup, IsJobList
  <2>2. mid = [old EXCEPT !.links = links] BY <1>3 DEF LinkedJobs
  <2>3. new = [mid EXCEPT !.bpm = bpm]
    BY <1>4, <1>5 DEF RenderedJobs, instances
  <2> HIDE DEF old, mid, new, links, bpm
  <2>4. /\ DOMAIN mid = JobFields /\ mid.name = old.name /\ mid.release = old.release
        /\ mid.bpm = old.bpm /\ mid.ports = old.ports /\ mid.links = links
    BY <2>1, <2>2 DEF JobFields
  <2>5. /\ new.name = old.name /\ new.release = old.release /\ new.links = links
        /\ new.bpm = bpm
    BY <2>3, <2>4 DEF JobFields
  <2>6. bpm # Nil BY <2>5, <1>1, <1>5 DEF new
  <2>7. Presets(mid) = Presets(old) BY <2>4 DEF Presets
  <2>8. IsSpec(Specs[<<mid.release, mid.name>>]) /\ IsProcessList(Presets(mid))
    BY <2>1, <2>4, <2>7
  <2>9. /\ IsProcessList(bpm[1].processes)
        /\ instances # <<>> => bpm[1].ports = mid.ports
    BY <2>6, <2>8, <1>6, JobRendered DEF bpm
  <2> QED BY <2>4, <2>5, <2>9, <1>6 DEF old, new, links
<1>8. /\ out.manifest.name = given.name /\ out.manifest.azs = given.azs
      /\ DOMAIN out.manifest.jobs = DOMAIN given.jobs
      /\ \A k \in DOMAIN given.jobs :
             /\ out.manifest.jobs[k].name = ig.jobs[k].name
             /\ out.manifest.jobs[k].release = ig.jobs[k].release
             /\ out.manifest.jobs[k].links = ig.jobs[k].links
  BY <1>1, <1>4, <1>5 DEF IGManifest
<1>9. DOMAIN out.bpm = {given.jobs[k].name : k \in DOMAIN given.jobs}
  <2>1. DOMAIN out.bpm = {ig.jobs[k].name : k \in DOMAIN ig.jobs} BY <1>1 DEF BPMInfo
  <2> QED BY <2>1, <1>5, <1>7
<1>10. ASSUME NEW name \in DOMAIN out.bpm
       PROVE  \E k \in DOMAIN given.jobs :
                  /\ given.jobs[k].name = name
                  /\ \A l \in DOMAIN given.jobs : given.jobs[l].name = name => l <= k
                  /\ out.bpm[name] = ig.jobs[k].bpm[1]
  <2> DEFINE S == {k \in DOMAIN ig.jobs : ig.jobs[k].name = name}
  <2>1. DOMAIN given.jobs = 1..Len(given.jobs) /\ Len(given.jobs) \in Nat
    BY <1>2, IsSeqProperties DEF IsGroup, IsJobList
  <2>2. S \in SUBSET (1..Len(given.jobs)) /\ S # {} BY <2>1, <1>5, <1>7, <1>9
  <2>3. out.bpm[name] = ig.jobs[Max(S)].bpm[1] BY <1>1 DEF BPMInfo
  <2> HIDE DEF S
  <2>4. Max(S) \in S /\ \A y \in S : Max(S) >= y BY <2>1, <2>2, LargestIn
  <2>5. Max(S) \in DOMAIN given.jobs /\ given.jobs[Max(S)].name = name
    BY <2>4, <1>5, <1>7 DEF S
  <2>6. ASSUME NEW l \in DOMAIN given.jobs, given.jobs[l].name = name PROVE l <= Max(S)
    <3>1. l \in S BY <2>6, <1>5, <1>7 DEF S
    <3>2. Max(S) \in Nat /\ l \in Nat BY <2>1, <2>5
    <3> QED BY <3>1, <3>2, <2>4
  <2> QED BY <2>3, <2>5, <2>6
<1>11. ASSUME NEW name \in DOMAIN out.bpm
       PROVE  /\ IsProcessList(out.bpm[name].processes)
              /\ given.instances # 0 =>
                     \E k \in DOMAIN given.jobs :
                         /\ given.jobs[k].name = name
                         /\ \A l \in DOMAIN given.jobs : given.jobs[l].name = name => l <= k
                         /\ out.bpm[name].ports = given.jobs[k].ports
  <2>1. PICK k \in DOMAIN given.jobs :
            /\ given.jobs[k].name = name
            /\ \A l \in DOMAIN given.jobs : given.jobs[l].name = name => l <= k
            /\ out.bpm[name] = ig.jobs[k].bpm[1]
    BY <1>10
  <2> QED BY <2>1, <1>7
<1> QED BY <1>7, <1>8, <1>9, <1>11 DEF given

-----------------------------------------------------------------------------
(* The documents of a deployment.                                          *)

\* The manifest behind the outputs.
Completed(docs) ==
    LET m == docs.desired[1]
    IN /\ IsManifest(m) /\ ServicesDiffer(m)
       /\ \A i \in DOMAIN m.groups : Covers(m, i - 1, m.groups[i].required)
       /\ DOMAIN docs.output = GroupNames(m)
       /\ docs.qJob = InstanceGroupManifestJob(m)
       /\ docs.output = Outputs(m, docs.qJob[1], docs.initial)
       /\ docs.applied = applyBPMResources(m, docs.output, docs.version)

LEMMA DocumentsFields ==
    ASSUME NEW c
    PROVE  LET docs == Documents(c)
               complete == applyVariables(c.manifest)
               job == IF complete = Nil THEN Nil ELSE InstanceGroupManifestJob(complete[1])
               outputs == IF job = Nil THEN [g \in GroupNames(c.manifest) |-> Nil]
                          ELSE Outputs(complete[1], job[1], c.initial)
           IN /\ docs.manifest = c.manifest /\ docs.initial = c.initial
              /\ docs.version = c.version /\ docs.desired = complete /\ docs.qJob = job
              /\ docs.output = outputs
              /\ docs.applied = IF job = Nil THEN outputs
                                ELSE applyBPMResources(complete[1], outputs, c.version)
BY DEF Documents, WithJob, WithOutputs

LEMMA DocumentsComplete ==
    ASSUME NEW c \in Deployments, NEW docs, docs = Documents(c), docs.qJob # Nil
    PROVE  Completed(docs)
<1> DEFINE complete == applyVariables(c.manifest)
           m == complete[1]
           job == IF complete = Nil THEN Nil ELSE InstanceGroupManifestJob(m)
           outputs == Outputs(m, job[1], c.initial)
<1>1. /\ docs.initial = c.initial /\ docs.version = c.version /\ docs.desired = complete
      /\ docs.qJob = job
      /\ job # Nil => docs.output = outputs
      /\ job # Nil => docs.applied = applyBPMResources(m, outputs, c.version)
  BY DocumentsFields
<1>2. job # Nil /\ complete # Nil /\ job = InstanceGroupManifestJob(m) BY <1>1
<1>3. IsManifest(c.manifest) /\ ServicesDiffer(c.manifest) BY DeploymentsAssumption
<1>4. /\ IsManifest(m) /\ ServicesDiffer(m)
      /\ \A i \in DOMAIN m.groups : Covers(m, i - 1, m.groups[i].required)
  BY <1>2, <1>3, CompleteManifest
<1>5. DOMAIN outputs = GroupNames(m) BY DEF Outputs
<1> HIDE DEF complete, job, outputs
<1>6. docs.desired[1] = m BY <1>1 DEF m
<1> HIDE DEF m
<1>7. docs.output = Outputs(m, docs.qJob[1], docs.initial)
  BY <1>1, <1>2 DEF outputs, m
<1>8. docs.applied = applyBPMResources(m, docs.output, docs.version)
  BY <1>1, <1>2 DEF m
<1> QED BY <1>1, <1>2, <1>4, <1>5, <1>6, <1>7, <1>8 DEF Completed, m

LEMMA AppliedComplete ==
    ASSUME NEW c \in Deployments, NEW docs, docs = Documents(c),
           NEW g \in DOMAIN docs.output, docs.output[g] # Nil \/ docs.applied[g] # Nil
    PROVE  docs.qJob # Nil
<1>1. docs.qJob = Nil => /\ docs.output = [h \in GroupNames(c.manifest) |-> Nil]
                         /\ docs.applied = docs.output
  BY DocumentsFields
<1> QED BY <1>1

\* What is known of a group that has been resolved: it is the i-th group.
ResolvedAt(docs, g, i) ==
    LET m == docs.desired[1]
    IN /\ i \in DOMAIN m.groups /\ m.groups[i].name = g
       /\ docs.output[g] # Nil
       /\ \E r0, r, ig :
              Outcome(m, i, DOMAIN m.links, docs.initial, docs.output[g][1], r0, r, ig)

LEMMA GroupResolved ==
    ASSUME NEW docs, Completed(docs), NEW g \in DOMAIN docs.output, docs.output[g] # Nil
    PROVE  \E i : ResolvedAt(docs, g, i)
<1> DEFINE m == docs.desired[1]
<1>1. PICK i \in DOMAIN m.groups : g = m.groups[i].name BY DEF Completed, GroupNames
<1>2. docs.output[g] = InstanceGroupCmd(m, m.groups[i].name, docs.qJob[1].specs,
                                        DOMAIN m.links, docs.initial)
  BY <1>1 DEF Completed, Outputs
<1>3. \E r0, r, ig :
          Outcome(m, i, DOMAIN m.links, docs.initial, docs.output[g][1], r0, r, ig)
  <2>1. IsManifest(m) /\ ServicesDiffer(m) BY DEF Completed
  <2> HIDE DEF m
  <2> QED BY <1>1, <1>2, <2>1, CommandOutcome
<1>4. ResolvedAt(docs, g, i) BY <1>1, <1>3 DEF ResolvedAt
<1> QED BY <1>4

\* What is known of a group that can be converted.
ConvertedAt(docs, g, i) ==
    LET m == docs.desired[1]
        ig == m.groups[i]
        bpm == docs.output[g][1].bpm
        disks == GenerateBPMDisks(ig, bpm).disks \o ig.disks
    IN /\ ResolvedAt(docs, g, i)
       /\ Convertible(m, ig, bpm, ServiceIP)
       /\ docs.applied[g][1] =
              Objects(ig, bpm, PodTemplate(m, ig, bpm, disks, docs.version, ServiceIP))

LEMMA GroupConverted ==
    ASSUME NEW docs, Completed(docs), NEW g \in Converts(docs)
    PROVE  \E i : ConvertedAt(docs, g, i)
<1> DEFINE m == docs.desired[1]
           bpm == docs.output[g][1].bpm
           Result(ig) == Resources(m, ig, bpm, docs.version, ServiceIP)
<1>1. g \in DOMAIN docs.output /\ docs.applied[g] # Nil BY DEF Converts
<1>2. docs.applied[g] = IF docs.output[g] = Nil THEN Nil
                        ELSE Result(InstanceGroupByName(m, g)[1])
  BY <1>1 DEF Completed, applyBPMResources
<1>3. docs.output[g] # Nil BY <1>1, <1>2
<1>4. PICK i : ResolvedAt(docs, g, i) BY <1>1, <1>3, GroupResolved
<1>5. InstanceGroupByName(m, g)[1] = m.groups[i]
  <2>1. InstanceGroupByName(m, m.groups[i].name) = <<m.groups[i]>>
    BY <1>4, GroupFound DEF Completed, ResolvedAt
  <2> QED BY <2>1, <1>4 DEF ResolvedAt
<1>6. docs.applied[g] = Result(m.groups[i]) BY <1>2, <1>3, <1>5
<1>7. ConvertedAt(docs, g, i) BY <1>1, <1>4, <1>6 DEF ConvertedAt, Resources
<1> QED BY <1>7

LEMMA ConvertedJobs ==
    ASSUME NEW docs, Completed(docs), NEW g, NEW i, ConvertedAt(docs, g, i)
    PROVE  ConvertibleJobs(docs.desired[1].groups[i], docs.output[g][1].bpm)
<1> DEFINE m == docs.desired[1]
           out == docs.output[g][1]
<1>1. ResolvedAt(docs, g, i) /\ Convertible(m, m.groups[i], out.bpm, ServiceIP)
  BY DEF ConvertedAt
<1>2. PICK r0, r, ig : Outcome(m, i, DOMAIN m.links, docs.initial, out, r0, r, ig)
  BY <1>1 DEF ResolvedAt
<1>3. i \in DOMAIN m.groups /\ IsManifest(m) BY <1>1 DEF ResolvedAt, Completed
<1> HIDE DEF m, out
<1>4. \A name \in DOMAIN out.bpm : IsProcessList(out.bpm[name].processes)
  BY <1>2, <1>3, OutputOf
<1>5. \A k \in DOMAIN m.groups[i].jobs : m.groups[i].jobs[k].name \in DOMAIN out.bpm
  BY <1>1 DEF Convertible
<1>6. IsSeq(m.groups[i].jobs) BY <1>3 DEF IsManifest, IsGroup, IsJobList
<1> QED BY <1>4, <1>5, <1>6 DEF ConvertibleJobs, m, out

\* The parts of a converted group's object.
LEMMA TemplateOf ==
    ASSUME NEW docs, NEW g, NEW i, ConvertedAt(docs, g, i)
    PROVE  LET m == docs.desired[1]
               ig == m.groups[i]
               bpm == docs.output[g][1].bpm
               disks == GenerateBPMDisks(ig, bpm).disks \o ig.disks
               all == GenerateDefaultDisks(ig) \o disks
               o == ObjectOf(docs, g)
           IN /\ o.template.init = JobsToInitContainers(ig, bpm, disks, docs.version)
              /\ o.template.containers = JobsToContainers(ig, bpm, disks)
              /\ o.template.volumes = Volumes(all) /\ o.template.claims = PVCs(all)
              /\ o.kind = IF IsErrand(ig) THEN "QuarksJob" ELSE "QuarksStatefulSet"
              /\ ~IsErrand(ig) => /\ o.zones = ig.azs /\ o.replicas = ig.instances
                                  /\ o.inject = ig.injectReplicas
              /\ docs.applied[g][1].services = IF IsErrand(ig) THEN {} ELSE service(ig, bpm)
<1> DEFINE m == docs.desired[1]
           ig == m.groups[i]
           bpm == docs.output[g][1].bpm
           disks == GenerateBPMDisks(ig, bpm).disks \o ig.disks
           template == PodTemplate(m, ig, bpm, disks, docs.version, ServiceIP)
<1>1. docs.applied[g][1] = Objects(ig, bpm, template) BY DEF ConvertedAt
<1>2. /\ template.init = JobsToInitContainers(ig, bpm, disks, docs.version)
      /\ template.containers = JobsToContainers(ig, bpm, disks)
      /\ template.volumes = Volumes(GenerateDefaultDisks(ig) \o disks)
      /\ template.claims = PVCs(GenerateDefaultDisks(ig) \o disks)
  BY DEF PodTemplate
<1> HIDE DEF template
<1>3. Objects(ig, bpm, template) =
          [object |-> IF IsErrand(ig) THEN quarksJob(ig, template)
                      ELSE quarksStatefulset(ig, template),
           services |-> IF IsErrand(ig) THEN {} ELSE service(ig, bpm)]
  BY DEF Objects
<1>4. ObjectOf(docs, g) = IF IsErrand(ig) THEN quarksJob(ig, template)
                          ELSE quarksStatefulset(ig, template)
  BY <1>1, <1>3 DEF ObjectOf
<1>5. docs.applied[g][1].services = IF IsErrand(ig) THEN {} ELSE service(ig, bpm)
  BY <1>1, <1>3
<1>6. /\ ObjectOf(docs, g).template = template
      /\ ObjectOf(docs, g).kind = IF IsErrand(ig) THEN "QuarksJob" ELSE "QuarksStatefulSet"
      /\ ~IsErrand(ig) => /\ ObjectOf(docs, g).zones = ig.azs
                          /\ ObjectOf(docs, g).replicas = ig.instances
                          /\ ObjectOf(docs, g).inject = ig.injectReplicas
  BY <1>4 DEF quarksJob, quarksStatefulset
<1> QED BY <1>2, <1>5, <1>6

LEMMA NothingConverted ==
    ASSUME NEW c \in Deployments, NEW docs, docs = Documents(c),
           NEW g \in Converts(docs)
    PROVE  Completed(docs)
BY AppliedComplete, DocumentsComplete DEF Converts

\* Init containers are numbered from 1.
LEMMA StepsOfDocuments ==
    ASSUME NEW c \in Deployments
    PROVE  StepsCounted(Documents(c))
<1> DEFINE docs == Documents(c)
<1> SUFFICES ASSUME NEW g \in Converts(docs)
             PROVE  LET init == ObjectOf(docs, g).template.init
                    IN Len(init) \in Nat /\ DOMAIN init = 1..Len(init)
  BY DEF StepsCounted
<1>1. Completed(docs) BY NothingConverted
<1> HIDE DEF docs
<1>2. PICK i : ConvertedAt(docs, g, i) BY <1>1, GroupConverted
<1> DEFINE ig == docs.desired[1].groups[i]
           bpm == docs.output[g][1].bpm
           disks == GenerateBPMDisks(ig, bpm).disks \o ig.disks
<1>3. ObjectOf(docs, g).template.init = JobsToInitContainers(ig, bpm, disks, docs.version)
  BY <1>2, TemplateOf
<1>4. ConvertibleJobs(ig, bpm) BY <1>1, <1>2, ConvertedJobs
<1> HIDE DEF ig, bpm, disks
<1>5. IsSeq(JobsToInitContainers(ig, bpm, disks, docs.version)) BY <1>4, InitContainersOf
<1> QED BY <1>3, <1>5, IsSeqProperties

\* The hooks of a pod wait for as many stamps as its drain scripts leave.
LEMMA HooksOfDocuments ==
    ASSUME NEW c \in Deployments
    PROVE  HooksCounted(Documents(c))
<1> DEFINE docs == Documents(c)
<1> SUFFICES ASSUME NEW g \in Converts(docs), ObjectOf(docs, g).kind = "QuarksStatefulSet"
             PROVE  HooksOfGroupCounted(ObjectOf(docs, g).template.containers)
  BY DEF HooksCounted, HooksOfGroupCounted
<1>1. Completed(docs) BY NothingConverted
<1> HIDE DEF docs
<1>2. PICK i : ConvertedAt(docs, g, i) BY <1>1, GroupConverted
<1> DEFINE ig == docs.desired[1].groups[i]
           bpm == docs.output[g][1].bpm
           disks == GenerateBPMDisks(ig, bpm).disks \o ig.disks
<1>3. ~IsErrand(ig) /\ ObjectOf(docs, g).template.containers = JobsToContainers(ig, bpm, disks)
  BY <1>2, TemplateOf
<1>4. ConvertibleJobs(ig, bpm) BY <1>1, <1>2, ConvertedJobs
<1> HIDE DEF ig, bpm, disks
<1> QED BY <1>3, <1>4, HooksOfGroup

\* Only the headless service of a group has its name.
LEMMA HeadlessService ==
    ASSUME NEW m, ServicesDiffer(m), NEW i \in DOMAIN m.groups, NEW r \in DOMAIN m.groups,
           NEW bpm, NEW s \in service(m.groups[i], bpm),
           s.name = ServiceName(m.groups[r].name)
    PROVE  i = r
<1> DEFINE ig == m.groups[i]
           active == IsActivePassiveModel(bpm)
<1>1. \/ \E az \in NamedZones(ig) : s \in generateServices(ig, az, active)
      \/ s = Service(ServiceName(ig.name), Nil, Nil, active)
  BY DEF service
<1>2. ASSUME NEW az \in NamedZones(ig), s \in generateServices(ig, az, active) PROVE FALSE
  <2>1. PICK n \in 0..(ig.instances - 1) : s.name = IndexedServiceName(ig, n, az)
    BY <1>2 DEF generateServices, Service
  <2>2. <<az, n>> \in Places(ig) /\ AddressAt(ig, <<az, n>>) = s.name
    BY <2>1 DEF Places, AddressAt
  <2> QED BY <2>2 DEF ServicesDiffer, AddressesDiffer
<1>3. CASE s = Service(ServiceName(ig.name), Nil, Nil, active)
  <2>1. ServiceName(ig.name) = ServiceName(m.groups[r].name) BY <1>3 DEF Service
  <2>2. Sanitized[ig.name] = Sanitized[m.groups[r].name] BY <2>1 DEF ServiceName
  <2> QED BY <2>2 DEF ServicesDiffer, GroupsDiffer
<1> QED BY <1>1, <1>2, <1>3

WaitsIn(init, required) == \E k \in DOMAIN init : init[k].name = <<"wait-for", required>>

LEMMA WaitStep ==
    ASSUME NEW ig, NEW bpm, NEW disks, NEW version, ConvertibleJobs(ig, bpm), ig.required # Nil,
           NEW init, init = JobsToInitContainers(ig, bpm, disks, version)
    PROVE  WaitsIn(init, ig.required)
<1> DEFINE wait == InitContainer(<<"wait-for", ig.required>>, {})
<1>1. wait \in ToSet(init)
  <2>1. wait \in ToSet(createWaitContainer(ig.required)) BY WaitContainer
  <2> HIDE DEF wait
  <2> QED BY <2>1, InitContainersOf
<1>2. wait.name = <<"wait-for", ig.required>> BY DEF InitContainer
<1> HIDE DEF wait
<1>3. PICK k \in DOMAIN init : init[k] = wait BY <1>1 DEF ToSet
<1> QED BY <1>2, <1>3 DEF WaitsIn

\* The group that stands at j comes before g.
LEMMA AheadOf ==
    ASSUME NEW docs, Completed(docs), NEW i \in DOMAIN docs.desired[1].groups, NEW h
    PROVE  LET m == docs.desired[1]
           IN h \in Ahead(docs, m.groups[i].name) <=>
                  \E j \in 1..(i - 1) : /\ h = m.groups[j].name /\ Serial(m.groups[j])
                                        /\ ServicePorts(m.groups[j]) # {}
<1> DEFINE m == docs.desired[1]
           g == m.groups[i].name
<1>1. IsManifest(m) /\ ServicesDiffer(m) /\ DOMAIN docs.output = GroupNames(m)
  BY DEF Completed
<1>2. DOMAIN m.groups = 1..Len(m.groups) /\ Len(m.groups) \in Nat
  BY <1>1, IsSeqProperties DEF IsManifest
<1>3. \A j \in DOMAIN m.groups : /\ InstanceGroupByName(m, m.groups[j].name)[1] = m.groups[j]
                                 /\ IndexIn(m, m.groups[j].name) = j
  <2> TAKE j \in DOMAIN m.groups
  <2>1. /\ InstanceGroupByName(m, m.groups[j].name) = <<m.groups[j]>>
        /\ IndexIn(m, m.groups[j].name) = j
    BY <1>1, GroupFound
  <2> QED BY <2>1
<1>4. ASSUME h \in Ahead(docs, g)
      PROVE  \E j \in 1..(i - 1) : /\ h = m.groups[j].name /\ Serial(m.groups[j])
                                   /\ ServicePorts(m.groups[j]) # {}
  <2>1. PICK j \in DOMAIN m.groups : h = m.groups[j].name
    BY <1>1, <1>4 DEF Ahead, GroupNames
  <2>2. j < i /\ Serial(m.groups[j]) /\ ServicePorts(m.groups[j]) # {}
    BY <1>3, <1>4, <2>1 DEF Ahead
  <2>3. j \in 1..(i - 1) BY <1>2, <2>2
  <2> QED BY <2>1, <2>2, <2>3
<1>5. ASSUME NEW j \in 1..(i - 1), h = m.groups[j].name, Serial(m.groups[j]),
             ServicePorts(m.groups[j]) # {}
      PROVE  h \in Ahead(docs, g)
  <2>1. j \in DOMAIN m.groups /\ j < i BY <1>2
  <2>2. h \in DOMAIN docs.output BY <1>1, <1>5, <2>1 DEF GroupNames
  <2>3. IndexIn(m, h) = j /\ IndexIn(m, g) = i /\ InstanceGroupByName(m, h)[1] = m.groups[j]
    BY <1>3, <1>5, <2>1
  <2> QED BY <1>5, <2>1, <2>2, <2>3 DEF Ahead
<1> QED BY <1>4, <1>5

\* Every group that has to come after others waits for one through which it
\* comes after all of them.
LEMMA WaitsOfDocuments ==
    ASSUME NEW c \in Deployments
    PROVE  WaitsChained(Documents(c))
<1> DEFINE docs == Documents(c)
<1> SUFFICES ASSUME NEW g \in Converts(docs), Ahead(docs, g) # {}
             PROVE  \E k \in DOMAIN ObjectOf(docs, g).template.init :
                        \E r \in DOMAIN docs.output : WaitsFor(docs, g, k, r)
  BY DEF WaitsChained
<1>1. Completed(docs) BY NothingConverted
<1> HIDE DEF docs
<1>2. PICK i : ConvertedAt(docs, g, i) BY <1>1, GroupConverted
<1> DEFINE m == docs.desired[1]
           ig == m.groups[i]
           bpm == docs.output[g][1].bpm
           disks == GenerateBPMDisks(ig, bpm).disks \o ig.disks
           init == JobsToInitContainers(ig, bpm, disks, docs.version)
<1>3. i \in DOMAIN m.groups /\ ig.name = g BY <1>2 DEF ConvertedAt, ResolvedAt
<1>4. /\ IsManifest(m) /\ ServicesDiffer(m) /\ DOMAIN docs.output = GroupNames(m)
      /\ Covers(m, i - 1, ig.required)
  BY <1>1, <1>3 DEF Completed
<1>5. DOMAIN m.groups = 1..Len(m.groups) /\ Len(m.groups) \in Nat
  BY <1>4, IsSeqProperties DEF IsManifest
<1>6. ObjectOf(docs, g).template.init = init BY <1>2, TemplateOf
<1>7. ConvertibleJobs(ig, bpm) BY <1>1, <1>2, ConvertedJobs
<1>8. \E j \in 1..(i - 1) : Serial(m.groups[j]) /\ ServicePorts(m.groups[j]) # {}
  BY <1>1, <1>3, AheadOf
<1>9. PICK r \in 1..(i - 1) :
          /\ ig.required = ServiceName(m.groups[r].name)
          /\ \A j \in 1..(i - 1) : Serial(m.groups[j]) /\ ServicePorts(m.groups[j]) # {} => j <= r
  BY <1>4, <1>8 DEF Covers
<1> DEFINE h == m.groups[r].name
<1>10. r \in DOMAIN m.groups BY <1>3, <1>5
<1>11. ig.required # Nil BY <1>9 DEF ServiceName, Nil
<1>12. PICK k \in DOMAIN init : init[k].name = <<"wait-for", ServiceName(h)>>
  <2>1. init = JobsToInitContainers(ig, bpm, disks, docs.version) OBVIOUS
  <2> HIDE DEF ig, bpm, disks, init
  <2>2. WaitsIn(init, ig.required) BY <1>7, <1>11, <2>1, WaitStep, Zenon
  <2> QED BY <1>9, <2>2 DEF WaitsIn
<1>13. h \in DOMAIN docs.output BY <1>4, <1>10 DEF GroupNames
<1>14. ASSUME NEW o \in Converts(docs), NEW s \in docs.applied[o][1].services,
              s.name = ServiceName(h)
       PROVE  o = h
  <2>1. PICK j : ConvertedAt(docs, o, j) BY <1>1, GroupConverted
  <2>2. j \in DOMAIN m.groups /\ m.groups[j].name = o BY <2>1 DEF ConvertedAt, ResolvedAt
  <2>3. s \in service(m.groups[j], docs.output[o][1].bpm)
    <3> DEFINE og == m.groups[j]
               obpm == docs.output[o][1].bpm
    <3>1. PICK t : docs.applied[o][1] = Objects(og, obpm, t) BY <2>1 DEF ConvertedAt
    <3> HIDE DEF og, obpm
    <3>2. Objects(og, obpm, t).services \in {{}, service(og, obpm)} BY DEF Objects
    <3> QED BY <3>1, <3>2 DEF og, obpm
  <2>5. r = j
    <3> DEFINE obpm == docs.output[o][1].bpm
    <3>1. /\ s \in service(m.groups[j], obpm) /\ s.name = ServiceName(m.groups[r].name)
          /\ ServicesDiffer(m) /\ j \in DOMAIN m.groups /\ r \in DOMAIN m.groups
      BY <1>4, <1>10, <1>14, <2>2, <2>3
    <3> HIDE DEF obpm, m
    <3>2. j = r BY <3>1, HeadlessService
    <3> QED BY <3>2
  <2> QED BY <2>2, <2>5
<1>15. Ahead(docs, g) \subseteq Ahead(docs, h) \cup {h}
  <2> SUFFICES ASSUME NEW a \in Ahead(docs, g), a # h PROVE a \in Ahead(docs, h)
    OBVIOUS
  <2>1. PICK j \in 1..(i - 1) : /\ a = m.groups[j].name /\ Serial(m.groups[j])
                                /\ ServicePorts(m.groups[j]) # {}
    BY <1>1, <1>3, AheadOf
  <2>2. j <= r /\ j # r BY <1>9, <2>1
  <2>3. j \in 1..(r - 1) BY <2>2, <1>3, <1>5
  <2> QED BY <2>1, <2>3, <1>1, <1>10, AheadOf
<1>16. WaitsFor(docs, g, k, h) BY <1>6, <1>12, <1>14, <1>15 DEF WaitsFor
<1> QED BY <1>6, <1>13, <1>16

-----------------------------------------------------------------------------
(* Instances: what a pod renders.                                          *)

\* The group as far as its instances depend on it.
Sized(ig) ==
    /\ ig.instances \in Nat /\ ig.azs \in Nat
    /\ ig.azs > 0 => ig.instances <= MaxReplicasPerAZ

SizeOf(ig) == IF ig.azs > 0 THEN ig.instances * ig.azs ELSE ig.instances

\* The zone of an instance and its number there.
ZoneAt(ig, k) == IF ig.azs > 0 THEN (k - 1) \div ig.instances ELSE -1
OrdinalAt(ig, k) == IF ig.azs > 0 THEN (k - 1) % ig.instances ELSE k - 1
BootstrapOf(ig, initialRollout) == IF initialRollout THEN 0 ELSE SizeOf(ig) - 1

LEMMA PlacesDiffer ==
    ASSUME NEW n \in Nat \ {0}, NEW a \in Nat, NEW b \in Nat,
           NEW x \in Nat, NEW y \in Nat, x < n, y < n, a * n + x = b * n + y
    PROVE  a = b /\ x = y
<1>1. \A c, e \in Nat : c < e => c * n + n <= e * n OBVIOUS
<1>2. a * n \in Nat /\ b * n \in Nat OBVIOUS
<1>3. ~(a < b)
  <2>1. a < b => a * n + n <= b * n BY <1>1
  <2> QED BY <2>1, <1>2
<1>4. ~(b < a)
  <2>1. b < a => b * n + n <= a * n BY <1>1
  <2> QED BY <2>1, <1>2
<1>5. a = b BY <1>3, <1>4
<1> QED BY <1>5, <1>2

LEMMA ZonesCounted ==
    ASSUME NEW n \in Nat \ {0}, NEW zones \in Nat
    PROVE  /\ \A k \in 1..(n * zones) : /\ (k - 1) \div n \in 0..(zones - 1)
                                        /\ (k - 1) % n \in 0..(n - 1)
           /\ \A z \in 0..(zones - 1), o \in 0..(n - 1) :
                  /\ z * n + o + 1 \in 1..(n * zones)
                  /\ (z * n + o) \div n = z /\ (z * n + o) % n = o
<1>1. \A x \in Nat : x < n * zones => x \div n < zones OBVIOUS
<1>2. \A x \in Nat : x \div n \in Nat /\ x % n \in 0..(n - 1) OBVIOUS
<1>3. \A z \in Nat : \A o \in 0..(n - 1) : (z * n + o) \div n = z /\ (z * n + o) % n = o
  OBVIOUS
<1>4. \A a, b \in Nat : a < b => a * n + n <= b * n OBVIOUS
<1>5. ASSUME NEW k \in 1..(n * zones)
      PROVE  (k - 1) \div n \in 0..(zones - 1) /\ (k - 1) % n \in 0..(n - 1)
  <2>1. k - 1 \in Nat /\ k - 1 < n * zones OBVIOUS
  <2>2. (k - 1) \div n \in Nat /\ (k - 1) % n \in 0..(n - 1) BY <1>2, <2>1
  <2>3. (k - 1) \div n < zones BY <1>1, <2>1
  <2>4. \A x \in Nat : x < zones => x \in 0..(zones - 1) OBVIOUS
  <2> QED BY <2>2, <2>3, <2>4
<1>6. ASSUME NEW z \in 0..(zones - 1), NEW o \in 0..(n - 1)
      PROVE  z * n + o + 1 \in 1..(n * zones)
  <2>1. z \in Nat /\ z < zones OBVIOUS
  <2>2. z * n + n <= zones * n BY <1>4, <2>1
  <2>3. zones * n = n * zones /\ z * n \in Nat /\ n * zones \in Nat OBVIOUS
  <2>4. \A x, y \in Nat : x + n <= y => x + o + 1 \in 1..y OBVIOUS
  <2> QED BY <2>2, <2>3, <2>4
<1> QED BY <1>3, <1>5, <1>6

LEMMA InstanceAt ==
    ASSUME NEW ig, Sized(ig), NEW initialRollout, NEW instances,
           instances = newJobInstances(ig, initialRollout), NEW k \in 1..SizeOf(ig)
    PROVE  /\ instances[k].index = k - 1 /\ instances[k].az = ZoneAt(ig, k)
           /\ instances[k].instance = OrdinalAt(ig, k)
           /\ instances[k].address = IndexedServiceName(ig, OrdinalAt(ig, k), ZoneAt(ig, k))
           /\ instances[k].bootstrap = (k - 1 = BootstrapOf(ig, initialRollout))
<1>1. CASE ig.azs > 0
  <2>1. instances[k] = Instance(ig, k - 1, ZoneAt(ig, k), OrdinalAt(ig, k),
                                BootstrapOf(ig, initialRollout))
    BY <1>1 DEF newJobInstances, jobInstancesAZ, SizeOf, ZoneAt, OrdinalAt, BootstrapOf
  <2> QED BY <2>1 DEF Instance
<1>2. CASE ~(ig.azs > 0)
  <2>1. instances[k] = Instance(ig, k - 1, ZoneAt(ig, k), OrdinalAt(ig, k),
                                BootstrapOf(ig, initialRollout))
    BY <1>2 DEF newJobInstances, jobInstances, SizeOf, ZoneAt, OrdinalAt, BootstrapOf
  <2> QED BY <2>1 DEF Instance
<1> QED BY <1>1, <1>2

LEMMA InstancesOf ==
    ASSUME NEW ig, Sized(ig), NEW initialRollout
    PROVE  DOMAIN newJobInstances(ig, initialRollout) = 1..SizeOf(ig)
BY DEF newJobInstances, jobInstancesAZ, jobInstances, SizeOf

LEMMA LeastIn ==
    ASSUME NEW S \in SUBSET Nat, S # {}
    PROVE  Min(S) \in S
<1>1. \E x \in S : \A y \in S : x <= y BY LeastNat
<1> QED BY <1>1 DEF Min

\* The zone that template-render looks for, and the number in the zone.
RenderIndex(ig, z, o) == SpecIndex(IF ig.azs = 0 THEN 0 ELSE z + 1, o)

\* An instance of the zone z (-1 if there are none) with the number o.
IsInstance(ig, z, o, initialRollout, e) ==
    LET zone == IF ig.azs = 0 THEN -1 ELSE z
    IN \E k \in 1..SizeOf(ig) :
           /\ e = newJobInstances(ig, initialRollout)[k]
           /\ ZoneAt(ig, k) = zone /\ OrdinalAt(ig, k) = o

\* The indexes of SpecIndex tell the instances of a group apart.
LEMMA InstanceFound ==
    ASSUME NEW ig, Sized(ig), NEW initialRollout,
           NEW z \in (IF ig.azs = 0 THEN {0} ELSE 0..(ig.azs - 1)),
           NEW o \in 0..(ig.instances - 1),
           NEW instances, instances = newJobInstances(ig, initialRollout)
    PROVE  \E e : /\ jobInstance(ig, instances, RenderIndex(ig, z, o)) = <<e>>
                  /\ IsInstance(ig, z, o, initialRollout, e)
<1> DEFINE wanted == RenderIndex(ig, z, o)
           Matches(e) == IF ig.azs > 0 THEN SpecIndex(e.az + 1, e.instance) = wanted
                         ELSE e.index = wanted
           I == {k \in DOMAIN instances : Matches(instances[k])}
           zone == IF ig.azs = 0 THEN -1 ELSE z
<1>1. DOMAIN instances = 1..SizeOf(ig) BY InstancesOf
<1>2. ig.instances \in Nat \ {0} /\ ig.azs \in Nat BY DEF Sized
<1>3. \A k \in 1..SizeOf(ig) :
          /\ instances[k].index = k - 1 /\ instances[k].az = ZoneAt(ig, k)
          /\ instances[k].instance = OrdinalAt(ig, k)
  BY InstanceAt
<1>4. \E k \in 1..SizeOf(ig) : k \in I
  <2>1. CASE ig.azs = 0
    <3>1. wanted = o BY <2>1 DEF RenderIndex, SpecIndex
    <3>2. o + 1 \in 1..SizeOf(ig) /\ (o + 1) - 1 = o BY <2>1, <1>2 DEF SizeOf
    <3>3. Matches(instances[o + 1]) BY <2>1, <3>1, <3>2, <1>3
    <3> QED BY <3>2, <3>3, <1>1
  <2>2. CASE ig.azs # 0
    <3> DEFINE k == z * ig.instances + o + 1
    <3>1. ig.azs > 0 /\ z \in 0..(ig.azs - 1) BY <2>2, <1>2
    <3>2. /\ k \in 1..(ig.instances * ig.azs)
          /\ (z * ig.instances + o) \div ig.instances = z
          /\ (z * ig.instances + o) % ig.instances = o
      BY <3>1, <1>2, ZonesCounted
    <3>3. k - 1 = z * ig.instances + o BY <3>1, <1>2
    <3> HIDE DEF k
    <3>4. k \in 1..SizeOf(ig) /\ ZoneAt(ig, k) = z /\ OrdinalAt(ig, k) = o
      BY <3>1, <3>2, <3>3 DEF SizeOf, ZoneAt, OrdinalAt
    <3>5. SpecIndex(instances[k].az + 1, instances[k].instance) = wanted
      BY <3>1, <3>4, <1>3, <2>2 DEF RenderIndex
    <3> QED BY <3>1, <3>4, <3>5, <1>1
  <2> QED BY <2>1, <2>2
<1>5. ASSUME NEW k \in I PROVE ZoneAt(ig, k) = zone /\ OrdinalAt(ig, k) = o
  <2>0. k \in 1..SizeOf(ig) /\ Matches(instances[k]) BY <1>1
  <2>1. CASE ig.azs = 0
    <3>1. wanted = o BY <2>1 DEF RenderIndex, SpecIndex
    <3>2. k - 1 = o BY <2>0, <2>1, <3>1, <1>3
    <3> QED BY <2>1, <3>2 DEF ZoneAt, OrdinalAt
  <2>2. CASE ig.azs # 0
    <3>1. ig.azs > 0 /\ z \in 0..(ig.azs - 1) BY <2>2, <1>2
    <3>2. k \in 1..(ig.instances * ig.azs) BY <2>0, <3>1 DEF SizeOf
    <3>3. ZoneAt(ig, k) \in 0..(ig.azs - 1) /\ OrdinalAt(ig, k) \in 0..(ig.instances - 1)
      BY <3>1, <3>2, <1>2, ZonesCounted DEF ZoneAt, OrdinalAt
    <3>4. SpecIndex(ZoneAt(ig, k) + 1, OrdinalAt(ig, k)) = SpecIndex(z + 1, o)
      BY <2>0, <2>2, <3>1, <1>3 DEF RenderIndex
    <3>5. \A a \in 0..(ig.azs - 1) : \A b \in 0..(ig.instances - 1) :
              SpecIndex(a + 1, b) = a * MaxReplicasPerAZ + b
      BY <1>2 DEF SpecIndex, MaxReplicasPerAZ
    <3> DEFINE n == MaxReplicasPerAZ
    <3>6. n \in Nat \ {0} /\ ig.instances <= n BY <3>1 DEF Sized, MaxReplicasPerAZ
    <3> HIDE DEF n
    <3>8. ZoneAt(ig, k) * n + OrdinalAt(ig, k) = z * n + o
      BY <3>1, <3>3, <3>4, <3>5 DEF n
    <3>9. /\ ZoneAt(ig, k) \in Nat /\ z \in Nat
          /\ OrdinalAt(ig, k) \in Nat /\ OrdinalAt(ig, k) < n
          /\ o \in Nat /\ o < n
      <4>1. \A x \in 0..(ig.instances - 1) : x \in Nat /\ x < n BY <3>6, <1>2
      <4>2. \A x \in 0..(ig.azs - 1) : x \in Nat OBVIOUS
      <4>3. o \in 0..(ig.instances - 1) OBVIOUS
      <4> HIDE DEF I
      <4> QED BY <3>1, <3>3, <4>1, <4>2, <4>3
    <3>10. ZoneAt(ig, k) = z /\ OrdinalAt(ig, k) = o BY <3>6, <3>8, <3>9, PlacesDiffer
    <3> QED BY <2>2, <3>10
  <2> QED BY <2>1, <2>2
<1>6. jobInstance(ig, instances, wanted) = <<instances[Min(I)]>>
  <2>1. I # {} BY <1>4
  <2> QED BY <2>1 DEF jobInstance, FirstAt
<1>7. Min(I) \in I
  <2>1. I \in SUBSET Nat /\ I # {} BY <1>1, <1>4 DEF SizeOf
  <2> HIDE DEF I
  <2> QED BY <2>1, LeastIn
<1>8. Min(I) \in 1..SizeOf(ig) BY <1>1, <1>7
<1>9. ZoneAt(ig, Min(I)) = zone /\ OrdinalAt(ig, Min(I)) = o BY <1>5, <1>7
<1>10. IsInstance(ig, z, o, initialRollout, instances[Min(I)])
  <2> HIDE DEF I
  <2> QED BY <1>8, <1>9 DEF IsInstance
<1> QED BY <1>6, <1>10

-----------------------------------------------------------------------------
(* Links: what the consumers of a group are told of it.                    *)

\* The j-th of the first n provided links is the first with the key.
FirstOf(provided, n, key, j) ==
    /\ j \in 1..n /\ KeyOf(provided[j]) = key /\ key[2] # "nil"
    /\ \A l \in 1..(j - 1) : KeyOf(provided[l]) # key

Fresh(r0, r, key) == ~r.failed /\ key \in DOMAIN r.links \ DOMAIN r0.links

LEMMA FirstEntered ==
    ASSUME NEW r0, NEW provided, NEW n \in Nat, NEW initialRollout, NEW r,
           Entered(r0, provided, n, initialRollout, r), NEW key, Fresh(r0, r, key)
    PROVE  \E j : /\ FirstOf(provided, n, key, j)
                  /\ r.links[key] = LinkFrom(provided[j], initialRollout)
<1> DEFINE S == {j \in 1..n : KeyOf(provided[j]) = key}
<1>0. ~r.failed /\ key \in DOMAIN r.links /\ key \notin DOMAIN r0.links BY DEF Fresh
<1>1. /\ DOMAIN r.links = DOMAIN r0.links
                          \cup {KeyOf(provided[j]) : j \in Unblocked(provided, n)}
      /\ \A j \in Unblocked(provided, n) : EnteredAt(r0, provided, j, initialRollout, r)
  BY <1>0 DEF Entered
<1>2. PICK u \in Unblocked(provided, n) : key = KeyOf(provided[u]) BY <1>0, <1>1
<1>3. key[2] # "nil" /\ u \in S BY <1>2 DEF Unblocked
<1>4. PICK j \in S : \A l \in S : j <= l
  <2>1. S \in SUBSET Nat /\ S # {} BY <1>3
  <2> HIDE DEF S
  <2> QED BY <2>1, LeastNat
<1>5. j \in 1..n /\ KeyOf(provided[j]) = key OBVIOUS
<1>6. \A l \in 1..(j - 1) : KeyOf(provided[l]) # key
  <2> SUFFICES ASSUME NEW l \in 1..(j - 1), KeyOf(provided[l]) = key PROVE FALSE
    OBVIOUS
  <2>1. l \in 1..n /\ l < j BY <1>5
  <2> QED BY <2>1, <1>4, <1>5
<1>7. j \in Unblocked(provided, n) BY <1>3, <1>5 DEF Unblocked
<1>8. r.links[key] = LinkFrom(provided[j], initialRollout)
  BY <1>0, <1>1, <1>5, <1>6, <1>7 DEF EnteredAt
<1>9. FirstOf(provided, n, key, j) BY <1>3, <1>5, <1>6 DEF FirstOf
<1> QED BY <1>8, <1>9

\* A link is empty or native, or tells of a group of the manifest.
TellsOf(m, initialRollout, link) ==
    \/ link.group = ""
    \/ \E j \in DOMAIN m.groups :
           /\ link.group = m.groups[j].name /\ link.address = ServiceName(m.groups[j].name)
           /\ link.instances = newJobInstances(m.groups[j], initialRollout)

LEMMA LinkFields ==
    ASSUME NEW e, NEW initialRollout, NEW link, link = LinkFrom(e, initialRollout)
    PROVE  /\ link.group = e.ig.name /\ link.address = ServiceName(e.ig.name)
           /\ link.instances = newJobInstances(e.ig, initialRollout)
           /\ link.properties = LinkProperties(e.job, Specs[<<e.job.release, e.job.name>>],
                                               e.provider)
BY DEF LinkFrom, JobLink

\* All provided links were entered behind the native ones.
AllIn(m, initialRollout, r0, r) ==
    /\ Entered(r0, AllProvided(m), Len(AllProvided(m)), initialRollout, r) /\ ~r.failed
    /\ \A x \in DOMAIN r0.links : r0.links[x].group = ""

LEMMA EnteredTells ==
    ASSUME NEW m, IsManifest(m), NEW r0, NEW r, NEW initialRollout,
           AllIn(m, initialRollout, r0, r), NEW key, key \in DOMAIN r.links
    PROVE  TellsOf(m, initialRollout, r.links[key])
<1>1. CASE key \in DOMAIN r0.links
  BY <1>1 DEF AllIn, Entered, TellsOf
<1>2. CASE Fresh(r0, r, key)
  <2> DEFINE provided == AllProvided(m)
  <2>1. /\ IsSeq(provided)
        /\ \A n \in DOMAIN provided : \E i \in DOMAIN m.groups : provided[n].ig = m.groups[i]
    BY GroupsProvide
  <2>2. Len(provided) \in Nat /\ DOMAIN provided = 1..Len(provided) BY <2>1, IsSeqProperties
  <2>3. Entered(r0, provided, Len(provided), initialRollout, r) BY DEF AllIn
  <2> HIDE DEF provided
  <2>4. PICK j : /\ FirstOf(provided, Len(provided), key, j)
                 /\ r.links[key] = LinkFrom(provided[j], initialRollout)
    BY <1>2, <2>2, <2>3, FirstEntered
  <2>5. PICK i \in DOMAIN m.groups : provided[j].ig = m.groups[i]
    BY <2>1, <2>2, <2>4 DEF FirstOf
  <2>6. /\ r.links[key].group = m.groups[i].name
        /\ r.links[key].address = ServiceName(m.groups[i].name)
        /\ r.links[key].instances = newJobInstances(m.groups[i], initialRollout)
    <3> DEFINE link == r.links[key]
               e == provided[j]
    <3>1. link = LinkFrom(e, initialRollout) BY <2>4
    <3>2. e.ig = m.groups[i] BY <2>5
    <3> HIDE DEF link, e
    <3>3. /\ link.group = e.ig.name /\ link.address = ServiceName(e.ig.name)
          /\ link.instances = newJobInstances(e.ig, initialRollout)
      BY <3>1, LinkFields
    <3> QED BY <3>2, <3>3 DEF link
  <2> QED BY <2>6 DEF TellsOf
<1>3. key \in DOMAIN r0.links \/ Fresh(r0, r, key) BY DEF AllIn, Fresh
<1> QED BY <1>1, <1>2, <1>3

LEMMA LinksTell ==
    ASSUME NEW docs, Completed(docs), NEW g, NEW i, ResolvedAt(docs, g, i),
           NEW k \in DOMAIN docs.output[g][1].manifest.jobs,
           NEW name \in DOMAIN docs.output[g][1].manifest.jobs[k].links
    PROVE  TellsOf(docs.desired[1], docs.initial,
                   docs.output[g][1].manifest.jobs[k].links[name])
<1> DEFINE m == docs.desired[1]
           out == docs.output[g][1]
<1>1. IsManifest(m) /\ i \in DOMAIN m.groups BY DEF Completed, ResolvedAt
<1>2. PICK r0, r, ig : Outcome(m, i, DOMAIN m.links, docs.initial, out, r0, r, ig)
  BY DEF ResolvedAt
<1> HIDE DEF m, out
<1>3. AllIn(m, docs.initial, r0, r) BY <1>2 DEF Outcome, AllIn
<1> DEFINE job == m.groups[i].jobs[k]
           consumes == Specs[<<job.release, job.name>>].consumes
<1>4. out.manifest.jobs[k].links = generateJobConsumersData(r, job).links
  <2>1. /\ DOMAIN out.manifest.jobs = DOMAIN m.groups[i].jobs
        /\ \A l \in DOMAIN m.groups[i].jobs :
               out.manifest.jobs[l].links = generateJobConsumersData(r, m.groups[i].jobs[l]).links
    BY <1>1, <1>2, OutputOf
  <2>2. k \in DOMAIN out.manifest.jobs BY DEF out
  <2> QED BY <2>1, <2>2
<1>5. \E c : out.manifest.jobs[k].links[name] = LinkOrEmpty(lookup(r, c))
  <2>1. name \in DOMAIN out.manifest.jobs[k].links BY DEF out
  <2> QED BY <1>4, <2>1 DEF generateJobConsumersData
<1>6. PICK c : out.manifest.jobs[k].links[name] = LinkOrEmpty(lookup(r, c)) BY <1>5
<1>7. \/ LinkOrEmpty(lookup(r, c)).group = ""
      \/ \E key \in DOMAIN r.links : LinkOrEmpty(lookup(r, c)) = r.links[key]
  BY DEF LinkOrEmpty, lookup, EmptyLink, JobLink, Nil
<1>8. CASE LinkOrEmpty(lookup(r, c)).group = "" BY <1>6, <1>8 DEF TellsOf, out
<1>9. CASE \E key \in DOMAIN r.links : LinkOrEmpty(lookup(r, c)) = r.links[key]
  <2>1. PICK key \in DOMAIN r.links : LinkOrEmpty(lookup(r, c)) = r.links[key] BY <1>9
  <2>2. TellsOf(m, docs.initial, r.links[key]) BY <1>1, <1>3, EnteredTells
  <2> QED BY <2>1, <2>2, <1>6 DEF m, out
<1> QED BY <1>7, <1>8, <1>9

-----------------------------------------------------------------------------
(* What a pod renders.                                                     *)

\* One init container renders the templates.
LEMMA OneRenderer ==
    ASSUME NEW ig, NEW bpm, NEW disks, NEW version, ConvertibleJobs(ig, bpm),
           NEW c \in ToSet(JobsToInitContainers(ig, bpm, disks, version)),
           c.name[1] = "template-render"
    PROVE  c.name[2] = (version = 1)
<1>1. IsSeq(ig.jobs) BY DEF ConvertibleJobs
<1>2. \/ c = containerRunCopier \/ c \in ToSet(specCopiers(ig.jobs))
      \/ c = templateRenderingContainer(version = 1) \/ c = createDirContainer(ig)
      \/ c \in ToSet(createWaitContainer(ig.required))
      \/ c \in ToSet(boshPreStarts(ig, disks))
      \/ c \in ToSet(FlattenSeq(PreStartsOf(ig, bpm, disks)))
  BY InitContainersOf
<1>3. c # containerRunCopier /\ c # createDirContainer(ig)
  BY DEF containerRunCopier, createDirContainer, InitContainer
<1>4. ASSUME c \in ToSet(specCopiers(ig.jobs)) PROVE FALSE
  <2>1. PICK k \in DOMAIN ig.jobs : c = JobSpecCopierContainer(ig.jobs[k].release)
    BY <1>1, <1>4, SpecCopiers
  <2> QED BY <2>1 DEF JobSpecCopierContainer, InitContainer
<1>5. ASSUME c \in ToSet(createWaitContainer(ig.required)) PROVE FALSE
  <2>1. c = InitContainer(<<"wait-for", ig.required>>, {}) BY <1>5, WaitContainer
  <2> QED BY <2>1 DEF InitContainer
<1>6. ASSUME c \in ToSet(boshPreStarts(ig, disks)) PROVE FALSE
  <2>1. PICK k \in DOMAIN ig.jobs : \E mounts : c = boshPreStartInitContainer(ig.jobs[k].name, mounts)
    BY <1>6 DEF boshPreStarts, ToSet
  <2> QED BY <2>1 DEF boshPreStartInitContainer, InitContainer
<1>7. ASSUME c \in ToSet(FlattenSeq(PreStartsOf(ig, bpm, disks))) PROVE FALSE
  <2> DEFINE seqs == PreStartsOf(ig, bpm, disks)
  <2>1. SeqOfSeqs(seqs) BY AllPreStarts
  <2>2. PICK k \in DOMAIN seqs : c \in ToSet(seqs[k]) BY <1>7, <2>1, FlattenElements
  <2>3. \E processes, job : c \in ToSet(bpmPreStarts(ig, processes, disks, job))
    BY <2>2 DEF PreStartsOf
  <2>4. PICK processes, job : c \in ToSet(bpmPreStarts(ig, processes, disks, job)) BY <2>3
  <2>5. \E name, mounts : c = bpmPreStartInitContainer(name, mounts)
    BY <2>4 DEF bpmPreStarts, ToSet
  <2> QED BY <2>5 DEF bpmPreStartInitContainer, InitContainer
<1>8. c = templateRenderingContainer(version = 1)
  BY <1>2, <1>3, <1>4, <1>5, <1>6, <1>7
<1> QED BY <1>8 DEF templateRenderingContainer, InitContainer

-----------------------------------------------------------------------------
(* Volumes: what containers mount.                                         *)

\* The volumes of a list of mounts, and of a set of them.
VolumesOf(mounts) == {mount.volume : mount \in mounts}

DiskMounts(disk) == VolumesOf(ToSet(disk.mount))

\* A list of disks whose mounts are volumes of the set.
DisksFit(disks, volumes) ==
    /\ IsSeq(disks)
    /\ \A k \in DOMAIN disks : IsSeq(disks[k].mount) /\ DiskMounts(disks[k]) \subseteq volumes

LEMMA DisksFitElements ==
    ASSUME NEW s, IsSeq(s), NEW volumes,
           \A disk \in ToSet(s) : IsSeq(disk.mount) /\ DiskMounts(disk) \subseteq volumes
    PROVE  DisksFit(s, volumes)
BY DEF DisksFit, ToSet

LEMMA ConcatFits ==
    ASSUME NEW s, NEW t, NEW volumes, DisksFit(s, volumes), DisksFit(t, volumes)
    PROVE  DisksFit(s \o t, volumes)
<1>1. IsSeq(s) /\ IsSeq(t) BY DEF DisksFit
<1>2. IsSeq(s \o t) /\ ToSet(s \o t) = ToSet(s) \cup ToSet(t)
  BY <1>1, ConcatIsSeq, ConcatElements
<1>3. \A disk \in ToSet(s) \cup ToSet(t) :
          IsSeq(disk.mount) /\ DiskMounts(disk) \subseteq volumes
  BY DEF DisksFit, ToSet
<1> QED BY <1>2, <1>3, DisksFitElements

LEMMA FilterFits ==
    ASSUME NEW disks, NEW volumes, DisksFit(disks, volumes), NEW key, NEW value
    PROVE  DisksFit(Filter(disks, key, value), volumes)
<1> DEFINE I == {k \in DOMAIN disks : /\ key \in DOMAIN disks[k].filters
                                      /\ disks[k].filters[key] = value}
           s == SelectAt(disks, I)
<1>1. IsSeq(disks) BY DEF DisksFit
<1>2. IsSeq(s) /\ ToSet(s) = {disks[k] : k \in DOMAIN disks \cap I}
  <2> HIDE DEF I
  <2> QED BY <1>1, SelectAtElements
<1>3. Filter(disks, key, value) = s BY DEF Filter
<1> HIDE DEF s
<1>4. \A disk \in ToSet(s) : IsSeq(disk.mount) /\ DiskMounts(disk) \subseteq volumes
  BY <1>2 DEF DisksFit
<1> QED BY <1>2, <1>3, <1>4, DisksFitElements

LEMMA MountsFit ==
    ASSUME NEW disks, NEW volumes, DisksFit(disks, volumes)
    PROVE  IsSeq(VolumeMounts(disks)) /\ VolumesOf(ToSet(VolumeMounts(disks))) \subseteq volumes
<1> DEFINE seqs == [k \in DOMAIN disks |-> disks[k].mount]
<1>1. IsSeq(disks) BY DEF DisksFit
<1>2. seqs = [k \in DOMAIN disks |-> seqs[k]] OBVIOUS
<1>3. \A k \in DOMAIN disks : seqs[k] = disks[k].mount OBVIOUS
<1>4. VolumeMounts(disks) = FlattenSeq(seqs) BY DEF VolumeMounts
<1> HIDE DEF seqs
<1>5. IsSeq(seqs) /\ DOMAIN seqs = DOMAIN disks BY <1>1, <1>2, MapIsSeq
<1>6. SeqOfSeqs(seqs) BY <1>3, <1>5 DEF SeqOfSeqs, DisksFit
<1>7. /\ IsSeq(FlattenSeq(seqs))
      /\ ToSet(FlattenSeq(seqs)) = UNION {ToSet(seqs[k]) : k \in DOMAIN seqs}
  BY <1>6, FlattenElements
<1>8. \A k \in DOMAIN seqs : VolumesOf(ToSet(seqs[k])) \subseteq volumes
  BY <1>3, <1>5 DEF DisksFit, DiskMounts
<1> QED BY <1>4, <1>7, <1>8 DEF VolumesOf

LEMMA BPMMountsFit ==
    ASSUME NEW disks, NEW volumes, DisksFit(disks, volumes)
    PROVE  IsSeq(BPMMounts(disks)) /\ VolumesOf(ToSet(BPMMounts(disks))) \subseteq volumes
<1> DEFINE First(key) == LET found == Filter(disks, key, "true")
                         IN IF found = <<>> THEN Nil ELSE found[1].mount
<1>1. ASSUME NEW key
      PROVE  IsSeq(First(key)) /\ VolumesOf(ToSet(First(key))) \subseteq volumes
  <2> DEFINE found == Filter(disks, key, "true")
  <2>1. DisksFit(found, volumes) BY FilterFits
  <2> HIDE DEF found
  <2>2. CASE found = <<>>
    <3>1. First(key) = <<>> BY <2>2 DEF Nil, found
    <3> HIDE DEF First
    <3> QED BY <3>1, ShortSeqs DEF VolumesOf
  <2>3. CASE found # <<>>
    <3>1. First(key) = found[1].mount BY <2>3 DEF found
    <3>2. 1 \in DOMAIN found
      <4>1. IsSeq(found) BY <2>1 DEF DisksFit
      <4> QED BY <2>3, <4>1 DEF IsSeq
    <3> QED BY <2>1, <3>1, <3>2 DEF DisksFit, DiskMounts
  <2> QED BY <2>2, <2>3
<1>2. BPMMounts(disks) = First("ephemeral") \o First("persistent") BY DEF BPMMounts
<1> DEFINE s == First("ephemeral")
           t == First("persistent")
<1>3. /\ IsSeq(s) /\ VolumesOf(ToSet(s)) \subseteq volumes
      /\ IsSeq(t) /\ VolumesOf(ToSet(t)) \subseteq volumes
  BY <1>1
<1> HIDE DEF s, t
<1>4. IsSeq(s \o t) /\ ToSet(s \o t) = ToSet(s) \cup ToSet(t)
  BY <1>3, ConcatIsSeq, ConcatElements
<1> QED BY <1>2, <1>3, <1>4 DEF VolumesOf, s, t

LEMMA ProcessMountsFit ==
    ASSUME NEW defaults, IsSeq(defaults), NEW volumes,
           VolumesOf(ToSet(defaults)) \subseteq volumes,
           NEW disks, DisksFit(disks, volumes), NEW job, NEW process
    PROVE  VolumesOf(proccessVolumentMounts(defaults, disks, job, process)) \subseteq volumes
<1> DEFINE jobDisks == Filter(disks, "job_name", job)
           ofProcess == Filter(jobDisks, "process_name", process)
           s == VolumeMounts(ofProcess)
           t == BPMMounts(jobDisks)
<1>1. DisksFit(jobDisks, volumes) BY FilterFits
<1>2. DisksFit(ofProcess, volumes)
  <2> HIDE DEF jobDisks
  <2> QED BY <1>1, FilterFits
<1>3. /\ IsSeq(s) /\ VolumesOf(ToSet(s)) \subseteq volumes
      /\ IsSeq(t) /\ VolumesOf(ToSet(t)) \subseteq volumes
  <2> HIDE DEF jobDisks, ofProcess
  <2> QED BY <1>1, <1>2, MountsFit, BPMMountsFit
<1>4. proccessVolumentMounts(defaults, disks, job, process)
          = deduplicateVolumeMounts(defaults \o s \o t)
  BY DEF proccessVolumentMounts
<1> HIDE DEF s, t
<1>5. IsSeq(defaults \o s) /\ ToSet(defaults \o s) = ToSet(defaults) \cup ToSet(s)
  BY <1>3, ConcatIsSeq, ConcatElements
<1>6. ToSet((defaults \o s) \o t) = ToSet(defaults \o s) \cup ToSet(t)
  BY <1>3, <1>5, ConcatElements
<1> DEFINE all == defaults \o s \o t
<1>7. VolumesOf(ToSet(all)) \subseteq volumes BY <1>3, <1>5, <1>6 DEF VolumesOf
<1>8. deduplicateVolumeMounts(all) \subseteq ToSet(all)
  <2> HIDE DEF all
  <2> QED BY DEF deduplicateVolumeMounts, ToSet
<1> QED BY <1>4, <1>7, <1>8 DEF VolumesOf

\* A mount of one volume.
LEMMA OneMount ==
    ASSUME NEW volume, NEW path
    PROVE  IsSeq(Mount(volume, path)) /\ VolumesOf(ToSet(Mount(volume, path))) = {volume}
<1> DEFINE x == [volume |-> volume, path |-> path]
<1>1. x.volume = volume /\ Mount(volume, path) = <<x>> BY DEF Mount
<1> HIDE DEF x
<1>2. IsSeq(<<x>>) /\ ToSet(<<x>>) = {x} BY ShortSeqs
<1> QED BY <1>1, <1>2 DEF VolumesOf

LEMMA SixSeqs ==
    \A a, b, c, e, f, g : LET s == <<a, b, c, e, f, g>>
                          IN IsSeq(s) /\ ToSet(s) = {a, b, c, e, f, g}
<1> TAKE a, b, c, e, f, g
<1> DEFINE s == <<a, b, c, e, f, g>>
<1>1. s \in Seq({a, b, c, e, f, g}) OBVIOUS
<1>2. /\ DOMAIN s = 1..6 /\ s[1] = a /\ s[2] = b /\ s[3] = c
      /\ s[4] = e /\ s[5] = f /\ s[6] = g
  OBVIOUS
<1> HIDE DEF s
<1>3. IsSeq(s) BY <1>1, SeqIsSeq
<1>4. \A k : k \in DOMAIN s <=> k \in {1, 2, 3, 4, 5, 6} BY <1>2
<1>5. ToSet(s) = {a, b, c, e, f, g} BY <1>2, <1>4 DEF ToSet
<1> QED BY <1>3, <1>5 DEF s

\* The volumes every pod has.
DefaultVolumes(ig) ==
    {RenderingData, JobsDir, volumeDataDirName(ig), SysDir, ResolvedProperties, DrainStamps}

LEMMA DefaultDisksFit ==
    ASSUME NEW ig
    PROVE  /\ DisksFit(GenerateDefaultDisks(ig), DefaultVolumes(ig))
           /\ DefaultVolumes(ig) \subseteq Volumes(GenerateDefaultDisks(ig))
<1> DEFINE data == volumeDataDirName(ig)
           Default(volume, dir) == Disk(<<volume>>, Mount(volume, dir), Nil, EmptyMap)
           a == Default(RenderingData, <<"all-releases">>)
           b == Default(JobsDir, <<"jobs">>)
           c == Disk(<<data>>, Mount(data, <<"data">>),
                     IF ig.ephemeralAsPVC THEN <<ephemeralPVCName(ig)>> ELSE Nil, EmptyMap)
           e == Default(SysDir, <<"sys">>)
           f == Disk(<<ResolvedProperties>>, Nil, Nil, EmptyMap)
           g == Default(DrainStamps, <<"drain-stamps">>)
           s == GenerateDefaultDisks(ig)
<1>1. s = <<a, b, c, e, f, g>> BY DEF GenerateDefaultDisks
<1>2. \A volume, mount, claim, filters :
          /\ Disk(volume, mount, claim, filters).volume = volume
          /\ Disk(volume, mount, claim, filters).mount = mount
  BY DEF Disk
<1>3. \A volume, dir : /\ Default(volume, dir).volume = <<volume>>
                       /\ IsSeq(Default(volume, dir).mount)
                       /\ DiskMounts(Default(volume, dir)) = {volume}
  BY <1>2, OneMount DEF DiskMounts
<1>4. c.volume = <<data>> /\ IsSeq(c.mount) /\ DiskMounts(c) = {data}
  BY <1>2, OneMount DEF DiskMounts
<1>5. f.volume = <<ResolvedProperties>> /\ IsSeq(f.mount) /\ DiskMounts(f) = {}
  <2>1. f.volume = <<ResolvedProperties>> /\ f.mount = <<>> BY <1>2 DEF Nil
  <2> HIDE DEF f
  <2> QED BY <2>1, ShortSeqs DEF DiskMounts, VolumesOf
<1>6. /\ a.volume = <<RenderingData>> /\ IsSeq(a.mount) /\ DiskMounts(a) = {RenderingData}
      /\ b.volume = <<JobsDir>> /\ IsSeq(b.mount) /\ DiskMounts(b) = {JobsDir}
      /\ e.volume = <<SysDir>> /\ IsSeq(e.mount) /\ DiskMounts(e) = {SysDir}
      /\ g.volume = <<DrainStamps>> /\ IsSeq(g.mount) /\ DiskMounts(g) = {DrainStamps}
  BY <1>3
<1> HIDE DEF a, b, c, e, f, g, s
<1>7. IsSeq(s) /\ ToSet(s) = {a, b, c, e, f, g} BY <1>1, SixSeqs
<1>8. \A disk \in ToSet(s) : IsSeq(disk.mount) /\ DiskMounts(disk) \subseteq DefaultVolumes(ig)
  BY <1>4, <1>5, <1>6, <1>7 DEF DefaultVolumes
<1>9. DisksFit(s, DefaultVolumes(ig)) BY <1>7, <1>8, DisksFitElements
<1>10. \A x : ToSet(<<x>>) = {x} BY ShortSeqs
<1>11. \A x : \A disk \in ToSet(s) : disk.volume = <<x>> => x \in Volumes(s)
  BY <1>10 DEF Volumes
<1>12. \A x \in DefaultVolumes(ig) : \E disk \in ToSet(s) : disk.volume = <<x>>
  BY <1>4, <1>5, <1>6, <1>7 DEF DefaultVolumes
<1>13. DefaultVolumes(ig) \subseteq Volumes(s) BY <1>11, <1>12
<1> QED BY <1>9, <1>13 DEF s

-----------------------------------------------------------------------------
(* The disks of BPM processes.                                             *)

\* The processes of all jobs; a persistent disk of one of them.
AnyPersistent(ig, bpm) ==
    \E k \in DOMAIN ig.jobs : \E l \in DOMAIN bpm[ig.jobs[k].name].processes :
        bpm[ig.jobs[k].name].processes[l].persistentDisk = <<TRUE>>

\* What the disks of a process need besides their own volumes.
Needs(ig, process) ==
    {additionalVolumeName(ig, v) : v \in ToSet(AdditionalVolumes(process))}

LEMMA AdditionalIsSeq ==
    ASSUME NEW process, IsProcess(process)
    PROVE  IsSeq(AdditionalVolumes(process)) /\ IsSeq(UnrestrictedVolumes(process))
<1> DEFINE paths == process.unrestricted
           I == {k \in DOMAIN paths : Below(paths[k])}
           J == {k \in DOMAIN paths : ~Below(paths[k]) /\ paths[k][1] # "jobs"}
<1>1. IsSeq(paths) /\ IsSeq(process.additional) BY DEF IsProcess
<1>2. /\ AdditionalVolumes(process) = process.additional \o SelectAt(paths, I)
      /\ UnrestrictedVolumes(process) = SelectAt(paths, J)
  BY DEF AdditionalVolumes, UnrestrictedVolumes
<1> HIDE DEF I, J, paths
<1>3. IsSeq(SelectAt(paths, I)) /\ IsSeq(SelectAt(paths, J)) BY <1>1, SelectAtElements
<1> QED BY <1>1, <1>2, <1>3, ConcatIsSeq

\* Whatever volume a disk of a process mounts is needed or the disk's own.
LEMMA ProcessDisksFit ==
    ASSUME NEW ig, NEW job, NEW process, IsProcess(process),
           NEW disks, disks = ProcessDisks(ig, job, process), NEW volumes,
           Needs(ig, process) \subseteq volumes, Volumes(disks) \subseteq volumes
    PROVE  DisksFit(disks, volumes)
<1> DEFINE filters == [job_name |-> job, process_name |-> process.name]
           additional == AdditionalVolumes(process)
           unrestricted == UnrestrictedVolumes(process)
           Unrestricted(i) == UnrestrictedVolumeName(job, process.name, i)
           One(k) == Disk(Nil, Mount(additionalVolumeName(ig, additional[k]), additional[k]),
                          Nil, filters)
           Other(i) == Disk(<<Unrestricted(i)>>, Mount(Unrestricted(i), unrestricted[i]),
                            Nil, filters)
           s == [k \in DOMAIN additional |-> One(k)]
           t == [i \in DOMAIN unrestricted |-> Other(i)]
<1>1. disks = s \o t BY DEF ProcessDisks
<1>2. IsSeq(additional) /\ IsSeq(unrestricted) BY AdditionalIsSeq
<1>3. \A volume, mount, claim, fs :
          /\ Disk(volume, mount, claim, fs).volume = volume
          /\ Disk(volume, mount, claim, fs).mount = mount
  BY DEF Disk
<1>4. \A k : /\ IsSeq(One(k).mount)
             /\ DiskMounts(One(k)) = {additionalVolumeName(ig, additional[k])}
  BY <1>3, OneMount DEF DiskMounts
<1>5. \A i : /\ Other(i).volume = <<Unrestricted(i)>> /\ IsSeq(Other(i).mount)
             /\ DiskMounts(Other(i)) = {Unrestricted(i)}
  BY <1>3, OneMount DEF DiskMounts
<1>6. \A k \in DOMAIN additional : additionalVolumeName(ig, additional[k]) \in Needs(ig, process)
  BY DEF Needs, ToSet
<1>7. s = [k \in DOMAIN additional |-> s[k]] /\ t = [i \in DOMAIN unrestricted |-> t[i]]
  OBVIOUS
<1>8. (\A k \in DOMAIN additional : s[k] = One(k)) /\ \A i \in DOMAIN unrestricted : t[i] = Other(i)
  OBVIOUS
<1> HIDE DEF s, t, One, Other, additional, unrestricted, Unrestricted
<1>9. /\ IsSeq(s) /\ DOMAIN s = DOMAIN additional
      /\ IsSeq(t) /\ DOMAIN t = DOMAIN unrestricted
  BY <1>2, <1>7, MapIsSeq
<1>10. DisksFit(s, volumes) BY <1>4, <1>6, <1>8, <1>9 DEF DisksFit
<1>11. \A i \in DOMAIN t : Unrestricted(i) \in volumes
  <2>1. ToSet(disks) = ToSet(s) \cup ToSet(t) BY <1>1, <1>9, ConcatElements
  <2>2. \A x : ToSet(<<x>>) = {x} BY ShortSeqs
  <2>3. \A i \in DOMAIN t : t[i] \in ToSet(disks) BY <2>1 DEF ToSet
  <2>4. \A i \in DOMAIN t : ToSet(t[i].volume) \subseteq volumes BY <2>3 DEF Volumes
  <2>5. \A i \in DOMAIN t : ToSet(t[i].volume) = {Unrestricted(i)} BY <2>2, <1>5, <1>8, <1>9
  <2> QED BY <2>4, <2>5
<1>12. DisksFit(t, volumes) BY <1>5, <1>8, <1>9, <1>11 DEF DisksFit
<1> QED BY <1>1, <1>10, <1>12, ConcatFits

LEMMA ConcatVolumes ==
    ASSUME NEW s, NEW t, IsSeq(s), IsSeq(t)
    PROVE  /\ Volumes(s \o t) = Volumes(s) \cup Volumes(t)
           /\ PVCs(s \o t) = PVCs(s) \cup PVCs(t)
<1>1. ToSet(s \o t) = ToSet(s) \cup ToSet(t) BY ConcatElements
<1> QED BY <1>1 DEF Volumes, PVCs

LEMMA FlattenVolumes ==
    ASSUME NEW seqs, SeqOfSeqs(seqs), NEW k \in DOMAIN seqs
    PROVE  Volumes(seqs[k]) \subseteq Volumes(FlattenSeq(seqs))
<1>1. ToSet(seqs[k]) \subseteq ToSet(FlattenSeq(seqs)) BY FlattenElements
<1> QED BY <1>1 DEF Volumes

LEMMA FlattenFits ==
    ASSUME NEW seqs, SeqOfSeqs(seqs), NEW volumes,
           \A k \in DOMAIN seqs : DisksFit(seqs[k], volumes)
    PROVE  DisksFit(FlattenSeq(seqs), volumes)
<1>1. /\ IsSeq(FlattenSeq(seqs))
      /\ ToSet(FlattenSeq(seqs)) = UNION {ToSet(seqs[k]) : k \in DOMAIN seqs}
  BY FlattenElements
<1>2. \A disk \in ToSet(FlattenSeq(seqs)) :
          IsSeq(disk.mount) /\ DiskMounts(disk) \subseteq volumes
  BY <1>1 DEF DisksFit, ToSet
<1> QED BY <1>1, <1>2, DisksFitElements

LEMMA ProcessDisksListed ==
    ASSUME NEW ig, NEW job, NEW process, IsProcess(process)
    PROVE  IsSeq(ProcessDisks(ig, job, process))
<1> DEFINE filters == [job_name |-> job, process_name |-> process.name]
           additional == AdditionalVolumes(process)
           unrestricted == UnrestrictedVolumes(process)
           Unrestricted(i) == UnrestrictedVolumeName(job, process.name, i)
           s == [k \in DOMAIN additional |->
                    Disk(Nil, Mount(additionalVolumeName(ig, additional[k]), additional[k]),
                         Nil, filters)]
           t == [i \in DOMAIN unrestricted |->
                    Disk(<<Unrestricted(i)>>, Mount(Unrestricted(i), unrestricted[i]),
                         Nil, filters)]
<1>1. ProcessDisks(ig, job, process) = s \o t BY DEF ProcessDisks
<1>2. IsSeq(additional) /\ IsSeq(unrestricted) BY AdditionalIsSeq
<1>3. s = [k \in DOMAIN additional |-> s[k]] /\ t = [i \in DOMAIN unrestricted |-> t[i]]
  OBVIOUS
<1> HIDE DEF s, t, additional, unrestricted
<1>4. IsSeq(s) /\ IsSeq(t) BY <1>2, <1>3, MapIsSeq
<1> QED BY <1>1, <1>4, ConcatIsSeq

\* What the disks of a job need besides their own volumes.
JobNeeds(ig, processes) ==
    {volumeDataDirName(ig), SysDir}
    \cup UNION {Needs(ig, processes[k]) : k \in DOMAIN processes}

WantsPersistent(processes) ==
    \E k \in DOMAIN processes : processes[k].persistentDisk = <<TRUE>>

LEMMA JobDisksFit ==
    ASSUME NEW ig, NEW job, NEW config, IsProcessList(config.processes),
           NEW disks, disks = JobDisks(ig, job, config).disks
    PROVE  /\ IsSeq(disks)
           /\ WantsPersistent(config.processes) =>
                  generatePersistentVolumeClaimName(ig) \in Volumes(disks)
           /\ \A volumes : JobNeeds(ig, config.processes) \subseteq volumes
                               /\ Volumes(disks) \subseteq volumes
                           => DisksFit(disks, volumes)
<1> DEFINE processes == config.processes
           Wants(field) == \E k \in DOMAIN processes : processes[k][field] = <<TRUE>>
           seqs == [k \in DOMAIN processes |-> ProcessDisks(ig, job, processes[k])]
           a == FlattenSeq(seqs)
           b == IF Wants("ephemeralDisk") THEN <<ephemeralDisk(ig, job)>> ELSE <<>>
           c == IF Wants("persistentDisk") THEN <<persistentDisk(ig, job)>> ELSE <<>>
<1>1. disks = a \o b \o c BY DEF JobDisks
<1>2. SeqOfSeqs(seqs) /\ DOMAIN seqs = DOMAIN processes
  <2>1. IsSeq(processes) /\ \A k \in DOMAIN processes : IsProcess(processes[k])
    BY ProcessListParts
  <2>2. seqs = [k \in DOMAIN processes |-> seqs[k]] OBVIOUS
  <2>3. \A k \in DOMAIN processes : IsSeq(seqs[k]) BY <2>1, ProcessDisksListed
  <2> HIDE DEF seqs
  <2>4. IsSeq(seqs) /\ DOMAIN seqs = DOMAIN processes BY <2>1, <2>2, MapIsSeq
  <2> QED BY <2>3, <2>4 DEF SeqOfSeqs
<1>3. IsSeq(a)
  <2> HIDE DEF seqs
  <2> QED BY <1>2, FlattenElements
<1>4. IsSeq(b) /\ IsSeq(c) BY ShortSeqs
<1>5. \A volume, mount, claim, fs :
          /\ Disk(volume, mount, claim, fs).volume = volume
          /\ Disk(volume, mount, claim, fs).mount = mount
  BY DEF Disk
<1> DEFINE data == volumeDataDirName(ig)
           pvc == generatePersistentVolumeClaimName(ig)
<1>6. /\ IsSeq(ephemeralDisk(ig, job).mount)
      /\ DiskMounts(ephemeralDisk(ig, job)) = {data}
  <2> DEFINE mount == Mount(data, <<"data", job, TRUE>>)
  <2>1. ephemeralDisk(ig, job).mount = mount BY <1>5 DEF ephemeralDisk
  <2>2. IsSeq(mount) /\ VolumesOf(ToSet(mount)) = {data} BY OneMount
  <2> QED BY <2>1, <2>2 DEF DiskMounts
<1>7. /\ IsSeq(persistentDisk(ig, job).mount)
      /\ DiskMounts(persistentDisk(ig, job)) = {pvc}
      /\ persistentDisk(ig, job).volume = <<pvc>>
  <2> DEFINE mount == Mount(pvc, <<"store", job, TRUE>>)
  <2>1. /\ persistentDisk(ig, job).mount = mount
        /\ persistentDisk(ig, job).volume = <<pvc>>
    BY <1>5 DEF persistentDisk
  <2>2. IsSeq(mount) /\ VolumesOf(ToSet(mount)) = {pvc} BY OneMount
  <2> QED BY <2>1, <2>2 DEF DiskMounts
<1>8. \A x : ToSet(<<x>>) = {x} /\ ToSet(<<>>) = {} BY ShortSeqs
<1>9. \A disk \in ToSet(b) : IsSeq(disk.mount) /\ DiskMounts(disk) \subseteq {data}
  <2>1. ToSet(b) \subseteq {ephemeralDisk(ig, job)} BY <1>8
  <2> HIDE DEF b
  <2> QED BY <1>6, <2>1
<1> DEFINE own == persistentDisk(ig, job)
<1>10. Volumes(<<own>>) = {pvc}
  <2> HIDE DEF own, pvc
  <2>1. own.volume = <<pvc>> BY <1>7 DEF own, pvc
  <2>2. Volumes(<<own>>) = ToSet(own.volume) BY <1>8 DEF Volumes
  <2> QED BY <2>1, <2>2, <1>8
<1>11. /\ Wants("persistentDisk") => pvc \in Volumes(c)
       /\ \A disk \in ToSet(c) : IsSeq(disk.mount) /\ DiskMounts(disk) \subseteq Volumes(c)
  <2> HIDE DEF Wants
  <2>1. CASE Wants("persistentDisk")
    <3>1. c = <<own>> BY <2>1
    <3> HIDE DEF c
    <3>2. ToSet(c) = {own} BY <3>1, <1>8
    <3> QED BY <3>1, <3>2, <1>7, <1>10
  <2>2. CASE ~Wants("persistentDisk")
    <3>1. c = <<>> BY <2>2
    <3> HIDE DEF c
    <3>2. ToSet(c) = {} BY <3>1, <1>8
    <3> QED BY <2>2, <3>2
  <2> QED BY <2>1, <2>2
<1>12. WantsPersistent(processes) => Wants("persistentDisk") BY DEF WantsPersistent
<1>13. \A k \in DOMAIN processes : IsProcess(processes[k]) BY ProcessListParts
<1>14. \A k \in DOMAIN processes : seqs[k] = ProcessDisks(ig, job, processes[k]) OBVIOUS
<1> HIDE DEF a, b, c, seqs, Wants, data, pvc
<1>15. IsSeq(a \o b) /\ Volumes(a \o b) = Volumes(a) \cup Volumes(b)
  BY <1>3, <1>4, ConcatIsSeq, ConcatVolumes
<1>16. /\ IsSeq(disks) /\ Volumes(disks) = Volumes(a) \cup Volumes(b) \cup Volumes(c)
  BY <1>1, <1>4, <1>15, ConcatIsSeq, ConcatVolumes
<1>17. ASSUME NEW volumes, JobNeeds(ig, processes) \subseteq volumes,
              Volumes(disks) \subseteq volumes
       PROVE  DisksFit(disks, volumes)
  <2>1. DisksFit(b, volumes)
    <3>1. {data} \subseteq volumes BY <1>17 DEF JobNeeds, data
    <3>2. \A disk \in ToSet(b) : IsSeq(disk.mount) /\ DiskMounts(disk) \subseteq volumes
      BY <1>9, <3>1
    <3> QED BY <1>4, <3>2, DisksFitElements
  <2>2. DisksFit(c, volumes)
    <3>1. \A disk \in ToSet(c) : IsSeq(disk.mount) /\ DiskMounts(disk) \subseteq volumes
      BY <1>11, <1>16, <1>17
    <3> QED BY <1>4, <3>1, DisksFitElements
  <2>3. ASSUME NEW k \in DOMAIN seqs PROVE DisksFit(seqs[k], volumes)
    <3>1. Volumes(seqs[k]) \subseteq volumes
      <4>1. Volumes(seqs[k]) \subseteq Volumes(a) BY <1>2, FlattenVolumes DEF a
      <4> QED BY <1>16, <1>17, <4>1
    <3>2. Needs(ig, processes[k]) \subseteq volumes BY <1>2, <1>17 DEF JobNeeds
    <3>3. seqs[k] = ProcessDisks(ig, job, processes[k]) /\ IsProcess(processes[k])
      BY <1>2, <1>13, <1>14
    <3> DEFINE process == processes[k]
    <3> HIDE DEF process
    <3>4. seqs[k] = ProcessDisks(ig, job, process) /\ IsProcess(process)
          /\ Needs(ig, process) \subseteq volumes
      BY <3>2, <3>3 DEF process
    <3> QED BY <3>1, <3>4, ProcessDisksFit
  <2>4. DisksFit(a, volumes) BY <1>2, <2>3, FlattenFits DEF a
  <2>5. DisksFit(a \o b, volumes) BY <2>1, <2>4, ConcatFits
  <2> QED BY <1>1, <2>2, <2>5, ConcatFits
<1> QED BY <1>11, <1>12, <1>16, <1>17 DEF pvc

LEMMA BPMDisksFit ==
    ASSUME NEW ig, NEW bpm, ConvertibleJobs(ig, bpm),
           NEW disks, disks = GenerateBPMDisks(ig, bpm).disks
    PROVE  /\ IsSeq(disks)
           /\ AnyPersistent(ig, bpm) => generatePersistentVolumeClaimName(ig) \in Volumes(disks)
           /\ \A volumes :
                  /\ \A k \in DOMAIN ig.jobs :
                         JobNeeds(ig, bpm[ig.jobs[k].name].processes) \subseteq volumes
                  /\ Volumes(disks) \subseteq volumes
                  => DisksFit(disks, volumes)
<1> DEFINE jobs == [k \in DOMAIN ig.jobs |->
                       JobDisks(ig, ig.jobs[k].name, bpm[ig.jobs[k].name])]
           seqs == [k \in DOMAIN jobs |-> jobs[k].disks]
           pvc == generatePersistentVolumeClaimName(ig)
<1>1. disks = FlattenSeq(seqs) BY DEF GenerateBPMDisks
<1>2. seqs = [k \in DOMAIN ig.jobs |-> seqs[k]] OBVIOUS
<1>3. \A k \in DOMAIN ig.jobs : seqs[k] = JobDisks(ig, ig.jobs[k].name, bpm[ig.jobs[k].name]).disks
  OBVIOUS
<1>4. IsSeq(ig.jobs) /\ \A k \in DOMAIN ig.jobs : IsProcessList(bpm[ig.jobs[k].name].processes)
  BY DEF ConvertibleJobs
<1> HIDE DEF seqs, jobs, pvc
<1>5. IsSeq(seqs) /\ DOMAIN seqs = DOMAIN ig.jobs BY <1>2, <1>4, MapIsSeq
<1>6. ASSUME NEW k \in DOMAIN ig.jobs
      PROVE  /\ IsSeq(seqs[k])
             /\ WantsPersistent(bpm[ig.jobs[k].name].processes) => pvc \in Volumes(seqs[k])
             /\ \A volumes : JobNeeds(ig, bpm[ig.jobs[k].name].processes) \subseteq volumes
                                 /\ Volumes(seqs[k]) \subseteq volumes
                             => DisksFit(seqs[k], volumes)
  <2> DEFINE config == bpm[ig.jobs[k].name]
             job == ig.jobs[k].name
             s == seqs[k]
  <2>1. IsProcessList(config.processes) BY <1>4
  <2>2. s = JobDisks(ig, job, config).disks BY <1>3
  <2> HIDE DEF config, job, s
  <2>3. /\ IsSeq(s)
        /\ WantsPersistent(config.processes) => pvc \in Volumes(s)
        /\ \A volumes : JobNeeds(ig, config.processes) \subseteq volumes
                            /\ Volumes(s) \subseteq volumes => DisksFit(s, volumes)
    BY <2>1, <2>2, JobDisksFit DEF pvc
  <2> QED BY <2>3 DEF config, s
<1>7. SeqOfSeqs(seqs) BY <1>5, <1>6 DEF SeqOfSeqs
<1>8. IsSeq(disks) BY <1>1, <1>7, FlattenElements
<1>9. \A k \in DOMAIN seqs : Volumes(seqs[k]) \subseteq Volumes(disks) BY <1>1, <1>7, FlattenVolumes
<1>10. ASSUME AnyPersistent(ig, bpm) PROVE pvc \in Volumes(disks)
  <2>1. PICK k \in DOMAIN ig.jobs : WantsPersistent(bpm[ig.jobs[k].name].processes)
    BY <1>10 DEF AnyPersistent, WantsPersistent
  <2>2. pvc \in Volumes(seqs[k]) BY <1>6, <2>1
  <2> QED BY <1>5, <1>9, <2>1, <2>2
<1>11. ASSUME NEW volumes, Volumes(disks) \subseteq volumes,
              \A k \in DOMAIN ig.jobs :
                  JobNeeds(ig, bpm[ig.jobs[k].name].processes) \subseteq volumes
       PROVE  DisksFit(disks, volumes)
  <2>1. ASSUME NEW k \in DOMAIN seqs PROVE DisksFit(seqs[k], volumes)
    <3>1. Volumes(seqs[k]) \subseteq volumes BY <1>9, <1>11
    <3>2. k \in DOMAIN ig.jobs BY <1>5
    <3> QED BY <1>6, <1>11, <3>1, <3>2
  <2> QED BY <1>1, <1>7, <2>1, FlattenFits
<1> QED BY <1>8, <1>10, <1>11 DEF pvc

\* What a pod of the group can mount, and what nothing declares.
PodVolumes(ig, bpm, disks) ==
    Volumes(GenerateDefaultDisks(ig) \o disks) \cup PVCs(GenerateDefaultDisks(ig) \o disks)
    \cup Undeclared(ig, bpm)

LEMMA UndeclaredVolumes ==
    ASSUME NEW ig, NEW bpm, NEW n \in DOMAIN ig.jobs,
           NEW l \in DOMAIN bpm[ig.jobs[n].name].processes,
           NEW v \in ToSet(AdditionalVolumes(bpm[ig.jobs[n].name].processes[l])),
           \/ v[1] = "store" /\ ~AnyPersistent(ig, bpm)
           \/ v[1] \notin {"data", "store", "sys"}
    PROVE  additionalVolumeName(ig, v) \in Undeclared(ig, bpm)
<1> DEFINE processes == UNION {ToSet(bpm[ig.jobs[k].name].processes) : k \in DOMAIN ig.jobs}
           paths == UNION {ToSet(AdditionalVolumes(p)) : p \in processes}
           Persistent == \E p \in processes : p.persistentDisk = <<TRUE>>
<1>1. ASSUME NEW p \in processes, p.persistentDisk = <<TRUE>> PROVE AnyPersistent(ig, bpm)
  <2>1. PICK k \in DOMAIN ig.jobs : p \in ToSet(bpm[ig.jobs[k].name].processes) OBVIOUS
  <2> QED BY <1>1, <2>1 DEF AnyPersistent, ToSet
<1>2. bpm[ig.jobs[n].name].processes[l] \in processes BY DEF ToSet
<1>3. v \in paths
  <2> HIDE DEF processes
  <2> QED BY <1>2
<1>4. SUFFICES additionalVolumeName(ig, v) \in
          {additionalVolumeName(ig, w) : w \in
              {u \in paths : \/ u[1] = "store" /\ ~Persistent
                             \/ u[1] \notin {"data", "store", "sys"}}}
  BY DEF Undeclared
<1>5. ~AnyPersistent(ig, bpm) => ~Persistent BY <1>1
<1> HIDE DEF paths, Persistent
<1> QED BY <1>3, <1>5

\* All that the disks of a group mount are such volumes.
LEMMA AllDisksFit ==
    ASSUME NEW ig, IsGroup(ig), NEW bpm, ConvertibleJobs(ig, bpm), DisksComplete(ig),
           NEW disks, disks = GenerateBPMDisks(ig, bpm).disks \o ig.disks
    PROVE  /\ DisksFit(disks, PodVolumes(ig, bpm, disks))
           /\ DefaultVolumes(ig) \subseteq PodVolumes(ig, bpm, disks)
           /\ IsSeq(DefaultMounts(ig))
           /\ VolumesOf(ToSet(DefaultMounts(ig))) \subseteq PodVolumes(ig, bpm, disks)
<1> DEFINE volumes == PodVolumes(ig, bpm, disks)
           default == GenerateDefaultDisks(ig)
           own == GenerateBPMDisks(ig, bpm).disks
           pvc == generatePersistentVolumeClaimName(ig)
<1>1. DisksFit(default, DefaultVolumes(ig)) /\ DefaultVolumes(ig) \subseteq Volumes(default)
  BY DefaultDisksFit
<1>2. IsSeq(default) /\ IsSeq(ig.disks) BY <1>1 DEF DisksFit, IsGroup
<1>3. /\ IsSeq(own) /\ (AnyPersistent(ig, bpm) => pvc \in Volumes(own))
      /\ \A vs : /\ \A k \in DOMAIN ig.jobs :
                        JobNeeds(ig, bpm[ig.jobs[k].name].processes) \subseteq vs
                 /\ Volumes(own) \subseteq vs
                 => DisksFit(own, vs)
  BY BPMDisksFit
<1> HIDE DEF default, own, pvc
<1>4. /\ IsSeq(disks) /\ Volumes(disks) = Volumes(own) \cup Volumes(ig.disks)
      /\ PVCs(disks) = PVCs(own) \cup PVCs(ig.disks)
  BY <1>2, <1>3, ConcatIsSeq, ConcatVolumes DEF own
<1>5. volumes = Volumes(default) \cup Volumes(disks) \cup PVCs(default) \cup PVCs(disks)
                \cup Undeclared(ig, bpm)
  <2>1. /\ Volumes(default \o disks) = Volumes(default) \cup Volumes(disks)
        /\ PVCs(default \o disks) = PVCs(default) \cup PVCs(disks)
    BY <1>2, <1>4, ConcatVolumes
  <2> QED BY <2>1 DEF PodVolumes, default
<1> HIDE DEF volumes
<1>6. DefaultVolumes(ig) \subseteq volumes BY <1>1, <1>5
<1>7. ASSUME NEW k \in DOMAIN ig.jobs
      PROVE  JobNeeds(ig, bpm[ig.jobs[k].name].processes) \subseteq volumes
  <2> DEFINE processes == bpm[ig.jobs[k].name].processes
  <2>1. volumeDataDirName(ig) \in volumes /\ SysDir \in volumes BY <1>6 DEF DefaultVolumes
  <2>2. ASSUME NEW l \in DOMAIN processes, NEW v \in ToSet(AdditionalVolumes(processes[l]))
        PROVE  additionalVolumeName(ig, v) \in volumes
    <3>1. CASE v[1] = "store" /\ AnyPersistent(ig, bpm)
      <4>1. additionalVolumeName(ig, v) = pvc BY <3>1 DEF additionalVolumeName, pvc
      <4> QED BY <1>3, <1>4, <1>5, <3>1, <4>1
    <3>2. CASE v[1] \in {"data", "sys"} BY <2>1, <3>2 DEF additionalVolumeName
    <3>3. CASE \/ v[1] = "store" /\ ~AnyPersistent(ig, bpm)
               \/ v[1] \notin {"data", "store", "sys"}
      <4>1. additionalVolumeName(ig, v) \in Undeclared(ig, bpm)
        BY <3>3, UndeclaredVolumes DEF processes
      <4> QED BY <1>5, <4>1
    <3> QED BY <3>1, <3>2, <3>3
  <2>4. \A l \in DOMAIN processes : Needs(ig, processes[l]) \subseteq volumes
    BY <2>2 DEF Needs
  <2> HIDE DEF processes
  <2>3. JobNeeds(ig, processes) \subseteq volumes BY <2>1, <2>4 DEF JobNeeds
  <2> QED BY <2>3 DEF processes
<1>8. DisksFit(own, volumes)
  <2>1. Volumes(own) \subseteq volumes BY <1>4, <1>5
  <2> QED BY <1>3, <1>7, <2>1
<1>9. DisksFit(ig.disks, volumes)
  <2>1. ASSUME NEW k \in DOMAIN ig.disks
        PROVE  IsSeq(ig.disks[k].mount) /\ DiskMounts(ig.disks[k]) \subseteq volumes
    <3>1. IsSeq(ig.disks[k].mount) BY DEF IsGroup
    <3>2. ig.disks[k] \in ToSet(ig.disks) BY DEF ToSet
    <3>3. ToSet(ig.disks[k].volume) \cup ToSet(ig.disks[k].claim) \subseteq volumes
      <4>1. \A disk \in ToSet(ig.disks) : /\ ToSet(disk.volume) \subseteq Volumes(ig.disks)
                                         /\ ToSet(disk.claim) \subseteq PVCs(ig.disks)
        BY DEF Volumes, PVCs
      <4> QED BY <1>4, <1>5, <3>2, <4>1
    <3> QED BY <3>1, <3>3 DEF DisksComplete, DiskMounts, VolumesOf
  <2> QED BY <1>2, <2>1 DEF DisksFit
<1>10. DisksFit(disks, volumes) BY <1>8, <1>9, ConcatFits DEF own
<1>11. IsSeq(DefaultMounts(ig)) /\ VolumesOf(ToSet(DefaultMounts(ig))) \subseteq volumes
  <2>1. DisksFit(default, volumes) BY <1>1, <1>6 DEF DisksFit
  <2> QED BY <2>1, MountsFit DEF DefaultMounts, default
<1> QED BY <1>6, <1>10, <1>11 DEF volumes

\* What the containers of a list mount are volumes of the set.
ContainersFit(containers, volumes) ==
    \A c \in ToSet(containers) : VolumesOf(c.mounts) \subseteq volumes

\* The disks of a group and the default mounts are volumes of the set.
GroupFits(ig, disks, volumes) ==
    /\ DisksFit(disks, volumes) /\ DefaultVolumes(ig) \subseteq volumes
    /\ IsSeq(DefaultMounts(ig)) /\ VolumesOf(ToSet(DefaultMounts(ig))) \subseteq volumes

\* The containers that do the same in every pod.
LEMMA FixedMountsFit ==
    ASSUME NEW ig, NEW disks, NEW volumes, GroupFits(ig, disks, volumes)
    PROVE  /\ VolumesOf(containerRunCopier.mounts) \subseteq volumes
           /\ \A release : VolumesOf(JobSpecCopierContainer(release).mounts) \subseteq volumes
           /\ \A initial : VolumesOf(templateRenderingContainer(initial).mounts) \subseteq volumes
           /\ VolumesOf(createDirContainer(ig).mounts) \subseteq volumes
           /\ VolumesOf(logsTailerContainer.mounts) \subseteq volumes
<1> DEFINE a == Mount(RenderingData, <<"all-releases">>)
           b == Mount(JobsDir, <<"jobs">>)
           c == Mount(ResolvedProperties, <<"resolved">>)
           e == Mount(volumeDataDirName(ig), <<"data">>)
           f == Mount(SysDir, <<"sys">>)
<1>1. /\ RenderingData \in volumes /\ JobsDir \in volumes /\ ResolvedProperties \in volumes
      /\ volumeDataDirName(ig) \in volumes /\ SysDir \in volumes
  BY DEF GroupFits, DefaultVolumes
<1>2. /\ IsSeq(a) /\ VolumesOf(ToSet(a)) \subseteq volumes
      /\ IsSeq(b) /\ VolumesOf(ToSet(b)) \subseteq volumes
      /\ IsSeq(c) /\ VolumesOf(ToSet(c)) \subseteq volumes
      /\ IsSeq(e) /\ VolumesOf(ToSet(e)) \subseteq volumes
      /\ IsSeq(f) /\ VolumesOf(ToSet(f)) \subseteq volumes
  BY <1>1, OneMount
<1>3. /\ containerRunCopier.mounts = ToSet(a) /\ createDirContainer(ig).mounts = ToSet(e \o f)
      /\ logsTailerContainer.mounts = ToSet(f)
      /\ \A release : JobSpecCopierContainer(release).mounts = ToSet(a)
      /\ \A initial : templateRenderingContainer(initial).mounts = ToSet(a \o b \o c)
  BY DEF containerRunCopier, createDirContainer, logsTailerContainer,
         JobSpecCopierContainer, templateRenderingContainer, InitContainer
<1> HIDE DEF a, b, c, e, f
<1>4. ToSet(e \o f) = ToSet(e) \cup ToSet(f) BY <1>2, ConcatElements
<1>5. IsSeq(a \o b) /\ ToSet(a \o b) = ToSet(a) \cup ToSet(b)
  BY <1>2, ConcatIsSeq, ConcatElements
<1>6. ToSet(a \o b \o c) = ToSet(a \o b) \cup ToSet(c) BY <1>2, <1>5, ConcatElements
<1>7. /\ VolumesOf(ToSet(e \o f)) \subseteq volumes
      /\ VolumesOf(ToSet(a \o b \o c)) \subseteq volumes
  BY <1>2, <1>4, <1>5, <1>6 DEF VolumesOf
<1> QED BY <1>2, <1>3, <1>7

LEMMA BoshPreStartsFit ==
    ASSUME NEW ig, NEW disks, NEW volumes, GroupFits(ig, disks, volumes)
    PROVE  ContainersFit(boshPreStarts(ig, disks), volumes)
<1> DEFINE s == DefaultMounts(ig)
           t == VolumeMounts(disks)
           mounts == s \o t
<1>1. /\ IsSeq(s) /\ VolumesOf(ToSet(s)) \subseteq volumes
      /\ IsSeq(t) /\ VolumesOf(ToSet(t)) \subseteq volumes
  BY MountsFit DEF GroupFits
<1>2. ToSet(mounts) = ToSet(s) \cup ToSet(t)
  <2> HIDE DEF s, t
  <2> QED BY <1>1, ConcatElements
<1>3. ASSUME NEW c \in ToSet(boshPreStarts(ig, disks))
      PROVE  c.mounts = deduplicateVolumeMounts(mounts)
  <2> DEFINE r == boshPreStarts(ig, disks)
  <2>1. PICK k \in DOMAIN r : c = r[k] BY DEF ToSet
  <2>2. c = boshPreStartInitContainer(ig.jobs[k].name, mounts) BY <2>1 DEF boshPreStarts
  <2> QED BY <2>2 DEF boshPreStartInitContainer, InitContainer
<1> HIDE DEF mounts
<1>4. deduplicateVolumeMounts(mounts) \subseteq ToSet(mounts)
  BY DEF deduplicateVolumeMounts, ToSet
<1>5. VolumesOf(deduplicateVolumeMounts(mounts)) \subseteq volumes
  BY <1>1, <1>2, <1>4 DEF VolumesOf
<1> QED BY <1>3, <1>5 DEF ContainersFit

LEMMA BpmPreStartsFit ==
    ASSUME NEW ig, NEW disks, NEW volumes, GroupFits(ig, disks, volumes),
           NEW processes, NEW job
    PROVE  ContainersFit(bpmPreStarts(ig, processes, disks, job), volumes)
<1> DEFINE defaults == DefaultMounts(ig)
<1>1. ASSUME NEW c \in ToSet(bpmPreStarts(ig, processes, disks, job))
      PROVE  \E process : c.mounts = proccessVolumentMounts(defaults, disks, job, process)
  BY DEF bpmPreStarts, ToSet, bpmPreStartInitContainer, InitContainer
<1>2. /\ IsSeq(defaults) /\ VolumesOf(ToSet(defaults)) \subseteq volumes
      /\ DisksFit(disks, volumes)
  BY DEF GroupFits
<1> HIDE DEF defaults
<1>3. \A process :
          VolumesOf(proccessVolumentMounts(defaults, disks, job, process)) \subseteq volumes
  BY <1>2, ProcessMountsFit
<1> QED BY <1>1, <1>3 DEF ContainersFit

LEMMA InitContainersFit ==
    ASSUME NEW ig, NEW bpm, NEW disks, NEW volumes, GroupFits(ig, disks, volumes),
           NEW version, ConvertibleJobs(ig, bpm)
    PROVE  ContainersFit(JobsToInitContainers(ig, bpm, disks, version), volumes)
<1> SUFFICES ASSUME NEW c \in ToSet(JobsToInitContainers(ig, bpm, disks, version))
             PROVE  VolumesOf(c.mounts) \subseteq volumes
  BY DEF ContainersFit
<1>1. IsSeq(ig.jobs) BY DEF ConvertibleJobs
<1>2. \/ c = containerRunCopier \/ c \in ToSet(specCopiers(ig.jobs))
      \/ c = templateRenderingContainer(version = 1) \/ c = createDirContainer(ig)
      \/ c \in ToSet(createWaitContainer(ig.required))
      \/ c \in ToSet(boshPreStarts(ig, disks))
      \/ c \in ToSet(FlattenSeq(PreStartsOf(ig, bpm, disks)))
  BY InitContainersOf
<1>3. CASE \/ c = containerRunCopier \/ c = createDirContainer(ig)
           \/ c = templateRenderingContainer(version = 1)
  BY <1>3, FixedMountsFit
<1>4. CASE c \in ToSet(specCopiers(ig.jobs))
  <2>1. PICK k \in DOMAIN ig.jobs : c = JobSpecCopierContainer(ig.jobs[k].release)
    BY <1>1, <1>4, SpecCopiers
  <2> QED BY <2>1, FixedMountsFit
<1>5. CASE c \in ToSet(createWaitContainer(ig.required))
  <2>1. c = InitContainer(<<"wait-for", ig.required>>, {}) BY <1>5, WaitContainer
  <2> QED BY <2>1 DEF InitContainer, VolumesOf
<1>6. CASE c \in ToSet(boshPreStarts(ig, disks))
  BY <1>6, BoshPreStartsFit DEF ContainersFit
<1>7. CASE c \in ToSet(FlattenSeq(PreStartsOf(ig, bpm, disks)))
  <2> DEFINE seqs == PreStartsOf(ig, bpm, disks)
  <2>1. SeqOfSeqs(seqs) BY AllPreStarts
  <2>2. PICK k \in DOMAIN seqs : c \in ToSet(seqs[k]) BY <1>7, <2>1, FlattenElements
  <2>3. \E processes, job : c \in ToSet(bpmPreStarts(ig, processes, disks, job))
    BY <2>2 DEF PreStartsOf
  <2>4. PICK processes, job : c \in ToSet(bpmPreStarts(ig, processes, disks, job)) BY <2>3
  <2> QED BY <2>4, BpmPreStartsFit DEF ContainersFit
<1> QED BY <1>2, <1>3, <1>4, <1>5, <1>6, <1>7

LEMMA ContainersOfGroupFit ==
    ASSUME NEW ig, NEW bpm, NEW disks, NEW volumes, GroupFits(ig, disks, volumes),
           ConvertibleJobs(ig, bpm)
    PROVE  ContainersFit(JobsToContainers(ig, bpm, disks), volumes)
<1> DEFINE seqs == ContainersByJob(ig, bpm, disks)
           s == FlattenSeq(seqs)
           t == IF ig.disableLogSidecar THEN <<>> ELSE <<logsTailerContainer>>
           defaults == DefaultMounts(ig)
<1>1. JobsToContainers(ig, bpm, disks) = s \o t BY DEF JobsToContainers, ContainersByJob
<1>2. SeqOfSeqs(seqs) /\ DOMAIN seqs = DOMAIN ig.jobs BY ContainersByJobSeqs
<1>3. IsSeq(t) /\ ToSet(t) \subseteq {logsTailerContainer} BY ShortSeqs
<1>4. IsSeq(s) /\ ToSet(s) = UNION {ToSet(seqs[k]) : k \in DOMAIN seqs}
  <2> HIDE DEF seqs
  <2> QED BY <1>2, FlattenElements
<1>5. ASSUME NEW k \in DOMAIN seqs, NEW c \in ToSet(seqs[k])
      PROVE  \E job, process : c.mounts = proccessVolumentMounts(defaults, disks, job, process)
  <2> DEFINE processes == bpm[ig.jobs[k].name].processes
  <2>1. PICK j \in DOMAIN seqs[k] : c = seqs[k][j] BY DEF ToSet
  <2>2. DOMAIN seqs[k] = DOMAIN processes BY <1>2, ContainersByJobSeqs
  <2>3. seqs[k] = ContainersOf(ig, ig.jobs[k], processes, disks, drainStampCount(ig, bpm))
    BY <1>2 DEF ContainersByJob
  <2>4. c = bpmProcessContainer(ig.jobs[k], processes[j],
                proccessVolumentMounts(defaults, disks, ig.jobs[k].name, processes[j].name),
                PreStop(ig, ig.jobs[k].name, j, drainStampCount(ig, bpm)))
    <3> HIDE DEF seqs, processes
    <3> QED BY <2>1, <2>2, <2>3 DEF ContainersOf
  <2>5. c.mounts = proccessVolumentMounts(defaults, disks, ig.jobs[k].name, processes[j].name)
    <3> HIDE DEF seqs, processes, defaults
    <3> QED BY <2>4 DEF bpmProcessContainer
  <2> QED BY <2>5
<1>6. /\ IsSeq(defaults) /\ VolumesOf(ToSet(defaults)) \subseteq volumes
      /\ DisksFit(disks, volumes)
  BY DEF GroupFits
<1> HIDE DEF defaults, s, t, seqs
<1>7. \A job, process :
          VolumesOf(proccessVolumentMounts(defaults, disks, job, process)) \subseteq volumes
  BY <1>6, ProcessMountsFit
<1>8. \A c \in ToSet(s) : VolumesOf(c.mounts) \subseteq volumes BY <1>4, <1>5, <1>7
<1>9. \A c \in ToSet(t) : VolumesOf(c.mounts) \subseteq volumes BY <1>3, FixedMountsFit
<1>10. ToSet(s \o t) = ToSet(s) \cup ToSet(t) BY <1>3, <1>4, ConcatElements
<1> QED BY <1>1, <1>8, <1>9, <1>10 DEF ContainersFit

-----------------------------------------------------------------------------
(* Links: the order of their providers.                                    *)

ProvidesOf(m, i, k) == SpecOf(m.groups[i].jobs[k]).provides

\* The n-th provided link is the p-th of the k-th job of the i-th group.
PlacedAt(m, i, k, p, n) ==
    /\ n \in 1..Len(AllProvided(m))
    /\ AllProvided(m)[n].ig = m.groups[i] /\ AllProvided(m)[n].job = m.groups[i].jobs[k]
    /\ AllProvided(m)[n].provider = ProvidesOf(m, i, k)[p]

\* The provided links of a job follow each other behind at[i][k].
InOrder(m, at) ==
    /\ \A i \in DOMAIN m.groups : \A k \in DOMAIN m.groups[i].jobs :
           /\ at[i][k] \in Nat
           /\ \A p \in DOMAIN ProvidesOf(m, i, k) : PlacedAt(m, i, k, p, at[i][k] + p)
    /\ \A n \in 1..Len(AllProvided(m)) :
           \E i \in DOMAIN m.groups : \E k \in DOMAIN m.groups[i].jobs :
               \E p \in DOMAIN ProvidesOf(m, i, k) : n = at[i][k] + p
    /\ \A i, j \in DOMAIN m.groups :
           \A k \in DOMAIN m.groups[i].jobs : \A l \in DOMAIN m.groups[j].jobs :
               Before(<<i, k>>, <<j, l>>) =>
                   \A p \in DOMAIN ProvidesOf(m, i, k) : \A q \in DOMAIN ProvidesOf(m, j, l) :
                       at[i][k] + p < at[j][l] + q

\* The provided links are in the order of the groups and their jobs.
LEMMA ProvidersPlaced ==
    ASSUME NEW m, IsManifest(m)
    PROVE  \E at : InOrder(m, at)
<1> DEFINE seqs == ProvidedByGroups(m)
           by == [i \in DOMAIN m.groups |-> ProvidedByGroup(m.groups[i])]
           all == AllProvided(m)
<1>1. /\ SeqOfSeqs(seqs) /\ DOMAIN seqs = DOMAIN m.groups /\ all = FlattenSeq(seqs)
      /\ IsSeq(all)
  BY GroupsProvide
<1>2. PICK out : Offsets(seqs, out) BY <1>1, FlattenOffsets
<1>3. ASSUME NEW i \in DOMAIN m.groups
      PROVE  /\ SeqOfSeqs(by[i]) /\ DOMAIN by[i] = DOMAIN m.groups[i].jobs
             /\ seqs[i] = FlattenSeq(by[i]) /\ IsSeq(seqs[i])
             /\ \E inner : Offsets(by[i], inner)
             /\ \A k \in DOMAIN m.groups[i].jobs :
                    /\ DOMAIN by[i][k] = DOMAIN ProvidesOf(m, i, k)
                    /\ \A p \in DOMAIN by[i][k] :
                           /\ by[i][k][p].ig = m.groups[i]
                           /\ by[i][k][p].job = m.groups[i].jobs[k]
                           /\ by[i][k][p].provider = ProvidesOf(m, i, k)[p]
  <2> DEFINE ig == m.groups[i]
             s == ProvidedByGroup(ig)
  <2>1. IsJobList(ig.jobs) BY DEF IsManifest, IsGroup
  <2>2. by[i] = s /\ seqs[i] = FlattenSeq(s) BY DEF ProvidedByGroups
  <2> HIDE DEF ig, seqs, by
  <2>3. /\ SeqOfSeqs(s) /\ DOMAIN s = DOMAIN ig.jobs
        /\ \A k \in DOMAIN ig.jobs :
               /\ DOMAIN s[k] = DOMAIN Specs[<<ig.jobs[k].release, ig.jobs[k].name>>].provides
               /\ \A p \in DOMAIN s[k] :
                      /\ s[k][p].ig = ig /\ s[k][p].job = ig.jobs[k]
                      /\ s[k][p].provider =
                             Specs[<<ig.jobs[k].release, ig.jobs[k].name>>].provides[p]
    BY <2>1, GroupProvides
  <2> HIDE DEF s
  <2>4. IsSeq(FlattenSeq(s)) /\ \E inner : Offsets(s, inner) BY <2>3, FlattenOffsets
  <2> QED BY <2>2, <2>3, <2>4 DEF ig, ProvidesOf, SpecOf
<1> DEFINE inner == [i \in DOMAIN m.groups |-> CHOOSE o : Offsets(by[i], o)]
           at == [i \in DOMAIN m.groups |->
                     [k \in DOMAIN m.groups[i].jobs |-> out[i] + inner[i][k]]]
<1>4. ASSUME NEW i \in DOMAIN m.groups PROVE Offsets(by[i], inner[i])
  <2> HIDE DEF by
  <2>1. inner[i] = CHOOSE o : Offsets(by[i], o) OBVIOUS
  <2> QED BY <1>3, <2>1, Zenon
<1>5. \A i \in DOMAIN m.groups : \A k \in DOMAIN m.groups[i].jobs :
          at[i][k] = out[i] + inner[i][k]
  OBVIOUS
<1> HIDE DEF seqs, by, inner, at
<1>6. Len(all) \in Nat /\ DOMAIN all = 1..Len(all) BY <1>1, IsSeqProperties
<1> HIDE DEF all
<1>7. ASSUME NEW i \in DOMAIN m.groups, NEW k \in DOMAIN m.groups[i].jobs
      PROVE  /\ out[i] \in Nat /\ inner[i][k] \in Nat /\ at[i][k] = out[i] + inner[i][k]
             /\ IsSeq(by[i][k]) /\ DOMAIN by[i][k] = DOMAIN ProvidesOf(m, i, k)
  <2>1. out[i] \in Nat BY <1>1, <1>2 DEF Offsets
  <2>2. k \in DOMAIN by[i] BY <1>3
  <2>3. inner[i][k] \in Nat BY <1>4, <2>2 DEF Offsets
  <2> QED BY <2>1, <2>2, <2>3, <1>3, <1>5 DEF SeqOfSeqs
<1>8. ASSUME NEW i \in DOMAIN m.groups, NEW k \in DOMAIN m.groups[i].jobs,
             NEW p \in DOMAIN ProvidesOf(m, i, k)
      PROVE  /\ inner[i][k] + p \in DOMAIN seqs[i] /\ p \in 1..Len(by[i][k])
             /\ seqs[i][inner[i][k] + p] = by[i][k][p]
  <2>1. k \in DOMAIN by[i] /\ p \in DOMAIN by[i][k] BY <1>3
  <2>2. /\ inner[i][k] + p \in DOMAIN FlattenSeq(by[i])
        /\ FlattenSeq(by[i])[inner[i][k] + p] = by[i][k][p]
    BY <1>4, <2>1 DEF Offsets
  <2>3. DOMAIN by[i][k] = 1..Len(by[i][k]) BY <1>7, IsSeqProperties
  <2> QED BY <1>3, <2>1, <2>2, <2>3
<1>9. ASSUME NEW i \in DOMAIN m.groups
      PROVE  Len(seqs[i]) \in Nat /\ DOMAIN seqs[i] = 1..Len(seqs[i])
  BY <1>3, IsSeqProperties
<1>10. ASSUME NEW i \in DOMAIN m.groups, NEW k \in DOMAIN m.groups[i].jobs,
              NEW p \in DOMAIN ProvidesOf(m, i, k)
       PROVE  PlacedAt(m, i, k, p, at[i][k] + p)
  <2> DEFINE q == inner[i][k] + p
  <2>1. q \in DOMAIN seqs[i] /\ seqs[i][q] = by[i][k][p] BY <1>8
  <2>2. out[i] + q \in DOMAIN all /\ all[out[i] + q] = seqs[i][q]
    <3> HIDE DEF q
    <3> QED BY <1>1, <1>2, <2>1 DEF Offsets
  <2>3. p \in Nat BY <1>8, <1>7, IsSeqProperties
  <2>4. out[i] + q = at[i][k] + p BY <1>7, <2>3
  <2>5. at[i][k] + p \in 1..Len(all) /\ all[at[i][k] + p] = by[i][k][p]
    BY <1>6, <2>1, <2>2, <2>4
  <2>6. p \in DOMAIN by[i][k] BY <1>7
  <2> QED BY <1>3, <2>5, <2>6 DEF PlacedAt, all
<1>11. ASSUME NEW n \in 1..Len(all)
       PROVE  \E i \in DOMAIN m.groups : \E k \in DOMAIN m.groups[i].jobs :
                  \E p \in DOMAIN ProvidesOf(m, i, k) : n = at[i][k] + p
  <2>1. PICK i \in DOMAIN m.groups : \E q \in DOMAIN seqs[i] : n = out[i] + q
    BY <1>1, <1>2, <1>6 DEF Offsets
  <2>2. PICK q \in DOMAIN seqs[i] : n = out[i] + q BY <2>1
  <2>3. PICK k \in DOMAIN by[i] : \E p \in DOMAIN by[i][k] : q = inner[i][k] + p
    <3> DEFINE s == by[i]
               f == inner[i]
    <3>1. Offsets(s, f) BY <1>4
    <3>2. q \in DOMAIN FlattenSeq(s) BY <1>3
    <3> HIDE DEF s, f
    <3>3. \E k \in DOMAIN s : \E p \in DOMAIN s[k] : q = f[k] + p BY <3>1, <3>2 DEF Offsets
    <3> QED BY <3>3 DEF s, f
  <2>4. PICK p \in DOMAIN by[i][k] : q = inner[i][k] + p BY <2>3
  <2>5. k \in DOMAIN m.groups[i].jobs /\ p \in DOMAIN ProvidesOf(m, i, k) BY <1>3
  <2>6. p \in Nat BY <2>5, <1>8, <1>7, IsSeqProperties
  <2>7. n = at[i][k] + p BY <1>7, <2>2, <2>4, <2>5, <2>6
  <2> QED BY <2>5, <2>7
<1>12. ASSUME NEW i \in DOMAIN m.groups, NEW j \in DOMAIN m.groups,
              NEW k \in DOMAIN m.groups[i].jobs, NEW l \in DOMAIN m.groups[j].jobs,
              Before(<<i, k>>, <<j, l>>),
              NEW p \in DOMAIN ProvidesOf(m, i, k), NEW q \in DOMAIN ProvidesOf(m, j, l)
       PROVE  at[i][k] + p < at[j][l] + q
  <2>1. /\ p \in 1..Len(by[i][k]) /\ Len(by[i][k]) \in Nat
        /\ q \in 1..Len(by[j][l]) /\ Len(by[j][l]) \in Nat
    BY <1>7, <1>8, IsSeqProperties
  <2>2. /\ at[i][k] = out[i] + inner[i][k] /\ at[j][l] = out[j] + inner[j][l]
        /\ out[i] \in Nat /\ inner[i][k] \in Nat /\ out[j] \in Nat /\ inner[j][l] \in Nat
    BY <1>7
  <2>3. CASE i < j
    <3>1. out[i] + Len(seqs[i]) <= out[j] BY <1>1, <1>2, <2>3 DEF Offsets
    <3>2. inner[i][k] + p <= Len(seqs[i]) /\ Len(seqs[i]) \in Nat BY <1>8, <1>9
    <3>3. \A a, b, c, e, x, y, n \in Nat :
              a + n <= b /\ c + x <= n /\ y > 0 => (a + c) + x < (b + e) + y
      OBVIOUS
    <3>4. p \in Nat /\ q \in Nat /\ q > 0 BY <2>1
    <3> QED BY <2>2, <3>1, <3>2, <3>3, <3>4
  <2>4. CASE i = j /\ k < l
    <3>1. k \in DOMAIN by[i] /\ l \in DOMAIN by[i] BY <1>3, <2>4
    <3>2. inner[i][k] + Len(by[i][k]) <= inner[i][l] BY <1>4, <2>4, <3>1 DEF Offsets
    <3>3. \A a, c, e, x, y, n \in Nat :
              c + n <= e /\ x <= n /\ y > 0 => (a + c) + x < (a + e) + y
      OBVIOUS
    <3>4. p \in Nat /\ p <= Len(by[i][k]) /\ q \in Nat /\ q > 0 BY <2>1
    <3> QED BY <2>1, <2>2, <2>4, <3>2, <3>3, <3>4
  <2> QED BY <1>12, <2>3, <2>4 DEF Before
<1>13. InOrder(m, at)
  <2>1. \A i \in DOMAIN m.groups : \A k \in DOMAIN m.groups[i].jobs : at[i][k] \in Nat
    BY <1>7
  <2> QED BY <1>10, <1>11, <1>12, <2>1 DEF InOrder, all
<1> QED BY <1>13

\* The position of a job, as a pair.
LEMMA PositionParts ==
    ASSUME NEW m, NEW j \in Positions(m)
    PROVE  /\ j = <<j[1], j[2]>> /\ j[1] \in DOMAIN m.groups
           /\ j[2] \in DOMAIN m.groups[j[1]].jobs
BY DEF Positions

\* Two jobs of a manifest are in one order or the other.
LEMMA PositionsOrdered ==
    ASSUME NEW m, IsManifest(m), NEW j \in Positions(m), NEW l \in Positions(m), j # l
    PROVE  Before(j, l) \/ Before(l, j)
<1>1. /\ j = <<j[1], j[2]>> /\ j[1] \in DOMAIN m.groups
      /\ j[2] \in DOMAIN m.groups[j[1]].jobs
      /\ l = <<l[1], l[2]>> /\ l[1] \in DOMAIN m.groups
      /\ l[2] \in DOMAIN m.groups[l[1]].jobs
  BY PositionParts
<1>2. DOMAIN m.groups \subseteq Nat BY IsSeqProperties DEF IsManifest
<1>3. ASSUME NEW i \in DOMAIN m.groups PROVE DOMAIN m.groups[i].jobs \subseteq Nat
  <2> DEFINE jobs == m.groups[i].jobs
  <2>1. IsSeq(jobs) BY DEF IsManifest, IsGroup, IsJobList
  <2> HIDE DEF jobs
  <2>2. DOMAIN jobs \subseteq Nat BY <2>1, IsSeqProperties
  <2> QED BY <2>2 DEF jobs
<1>4. j[1] \in Nat /\ l[1] \in Nat /\ j[2] \in Nat /\ l[2] \in Nat BY <1>1, <1>2, <1>3
<1>5. j[1] # l[1] \/ j[2] # l[2] BY <1>1
<1> QED BY <1>4, <1>5 DEF Before

\* The place of a link that the job at j publishes under the key.
PlaceOf(m, at, j, key, n) ==
    \E p \in DOMAIN ProvidesOf(m, j[1], j[2]) :
        /\ n = at[j[1]][j[2]] + p /\ PlacedAt(m, j[1], j[2], p, n)
        /\ KeyOf(AllProvided(m)[n]) = key

LEMMA PublishedPlaces ==
    ASSUME NEW m, IsManifest(m), NEW at, InOrder(m, at), NEW type, NEW name,
           NEW j \in Published(m, type, name)
    PROVE  \E n : PlaceOf(m, at, j, <<type, name>>, n)
<1> DEFINE i == j[1]
           k == j[2]
           job == JobAt(m, j)
           provides == ProvidesOf(m, i, k)
<1>1. /\ i \in DOMAIN m.groups /\ k \in DOMAIN m.groups[i].jobs
      /\ job = m.groups[i].jobs[k] /\ provides = SpecOf(job).provides
  BY PositionParts DEF Published, JobAt, ProvidesOf
<1>2. \E x \in ToSet(provides) : x.type = type /\ LinkName(job, x) = name
  BY <1>1 DEF Published
<1> HIDE DEF i, k, job, provides
<1>3. PICK x \in ToSet(provides) : x.type = type /\ LinkName(job, x) = name BY <1>2
<1>4. PICK p \in DOMAIN provides : x = provides[p] BY DEF ToSet
<1>5. PlacedAt(m, i, k, p, at[i][k] + p) BY <1>1 DEF InOrder, provides
<1> DEFINE n == at[i][k] + p
           e == AllProvided(m)[n]
<1>6. e.job = job /\ e.provider = provides[p] BY <1>1, <1>5 DEF PlacedAt, provides
<1>7. KeyOf(e) = <<type, name>> BY <1>3, <1>4, <1>6 DEF KeyOf
<1>8. PlaceOf(m, at, j, <<type, name>>, n) BY <1>5, <1>7 DEF PlaceOf, i, k, provides
<1> QED BY <1>8

LEMMA PlacesPublished ==
    ASSUME NEW m, IsManifest(m), NEW at, InOrder(m, at), NEW type, NEW name,
           NEW n \in 1..Len(AllProvided(m)), KeyOf(AllProvided(m)[n]) = <<type, name>>
    PROVE  \E j \in Published(m, type, name) : PlaceOf(m, at, j, <<type, name>>, n)
<1>1. PICK i \in DOMAIN m.groups : \E k \in DOMAIN m.groups[i].jobs :
          \E p \in DOMAIN ProvidesOf(m, i, k) : n = at[i][k] + p
  BY DEF InOrder
<1>2. PICK k \in DOMAIN m.groups[i].jobs :
          \E p \in DOMAIN ProvidesOf(m, i, k) : n = at[i][k] + p
  BY <1>1
<1>3. PICK p \in DOMAIN ProvidesOf(m, i, k) : n = at[i][k] + p BY <1>2
<1> DEFINE j == <<i, k>>
           e == AllProvided(m)[n]
<1>4. PlacedAt(m, i, k, p, n) BY <1>3 DEF InOrder
<1>5. j[1] = i /\ j[2] = k /\ j \in Positions(m) BY DEF Positions
<1> HIDE DEF j
<1>6. PlaceOf(m, at, j, <<type, name>>, n) BY <1>3, <1>4, <1>5 DEF PlaceOf
<1>7. /\ e.job = JobAt(m, j) /\ e.provider = SpecOf(JobAt(m, j)).provides[p]
      /\ p \in DOMAIN SpecOf(JobAt(m, j)).provides
  BY <1>4, <1>5 DEF PlacedAt, JobAt, ProvidesOf
<1>8. e.provider \in ToSet(SpecOf(JobAt(m, j)).provides) BY <1>7 DEF ToSet
<1>9. e.provider.type = type /\ LinkName(JobAt(m, j), e.provider) = name
  BY <1>7 DEF KeyOf
<1>10. j \in Published(m, type, name) BY <1>5, <1>8, <1>9 DEF Published
<1> QED BY <1>6, <1>10

LEMMA PlacesOrdered ==
    ASSUME NEW m, NEW at, InOrder(m, at), NEW key,
           NEW j \in Positions(m), NEW l \in Positions(m), Before(j, l),
           NEW n, PlaceOf(m, at, j, key, n), NEW o, PlaceOf(m, at, l, key, o)
    PROVE  n < o
<1>1. /\ j = <<j[1], j[2]>> /\ j[1] \in DOMAIN m.groups
      /\ j[2] \in DOMAIN m.groups[j[1]].jobs
      /\ l = <<l[1], l[2]>> /\ l[1] \in DOMAIN m.groups
      /\ l[2] \in DOMAIN m.groups[l[1]].jobs
  BY PositionParts
<1> DEFINE i == j[1]
           k == j[2]
           x == l[1]
           y == l[2]
<1>2. PICK p \in DOMAIN ProvidesOf(m, i, k) : n = at[i][k] + p BY DEF PlaceOf
<1>3. PICK q \in DOMAIN ProvidesOf(m, x, y) : o = at[x][y] + q BY DEF PlaceOf
<1>4. Before(<<i, k>>, <<x, y>>) BY <1>1
<1> HIDE DEF i, k, x, y
<1>5. i \in DOMAIN m.groups /\ k \in DOMAIN m.groups[i].jobs
      /\ x \in DOMAIN m.groups /\ y \in DOMAIN m.groups[x].jobs
  BY <1>1 DEF i, k, x, y
<1> QED BY <1>2, <1>3, <1>4, <1>5 DEF InOrder

\* What the resolver has under a type and a name is the link of the native
\* provider or of the first job that publishes it.
LEMMA ProvidedLinks ==
    ASSUME NEW m, IsManifest(m), NEW r0, NEW r, NEW initialRollout,
           AllIn(m, initialRollout, r0, r), DOMAIN r0.links = NativeKeys(m, DOMAIN m.links),
           NEW type, NEW name, name # "nil", NEW link,
           link = LinkOrEmpty(lookup(r, [type |-> type, name |-> name]))
    PROVE  Provided(m, type, name, link)
<1> DEFINE provided == AllProvided(m)
           key == <<type, name>>
           providers == Published(m, type, name)
           native == IsNative(m, type, name)
           First(j) == ~native /\ \A l \in providers \ {j} : Before(j, l)
<1>1. PICK at : InOrder(m, at) BY ProvidersPlaced
<1>2. Len(provided) \in Nat BY GroupsProvide, IsSeqProperties
<1>3. /\ ~r.failed /\ Entered(r0, provided, Len(provided), initialRollout, r)
      /\ \A x \in DOMAIN r0.links : r.links[x] = r0.links[x] /\ r.links[x].group = ""
      /\ DOMAIN r.links = DOMAIN r0.links
             \cup {KeyOf(provided[n]) : n \in Unblocked(provided, Len(provided))}
      /\ \A n \in Unblocked(provided, Len(provided)) :
             EnteredAt(r0, provided, n, initialRollout, r)
  BY DEF AllIn, Entered
<1>4. native <=> key \in DOMAIN r0.links BY DEF IsNative, NativeKeys
<1>5. /\ key \in DOMAIN r.links => link = r.links[key]
      /\ key \notin DOMAIN r.links => link.group = ""
  BY DEF LinkOrEmpty, lookup, EmptyLink, JobLink, Nil
<1>6. ASSUME NEW j \in providers, NEW n, PlaceOf(m, at, j, key, n)
      PROVE  /\ j \in Positions(m) /\ n \in Unblocked(provided, Len(provided))
             /\ KeyOf(provided[n]) = key /\ key \in DOMAIN r.links
             /\ provided[n].ig = m.groups[j[1]] /\ provided[n].job = JobAt(m, j)
             /\ EnteredAt(r0, provided, n, initialRollout, r)
  <2>1. /\ n \in 1..Len(provided) /\ KeyOf(provided[n]) = key
        /\ provided[n].ig = m.groups[j[1]] /\ provided[n].job = JobAt(m, j)
    BY <1>6 DEF PlaceOf, PlacedAt, JobAt
  <2>2. n \in Unblocked(provided, Len(provided)) BY <2>1 DEF Unblocked
  <2> QED BY <2>1, <2>2, <1>3 DEF Published
<1>7. native \/ providers = {} => link.group = ""
  <2>1. CASE native BY <1>3, <1>4, <1>5, <2>1
  <2>2. CASE ~native /\ providers = {}
    <3>1. ASSUME key \in DOMAIN r.links PROVE FALSE
      <4>1. PICK n \in Unblocked(provided, Len(provided)) : key = KeyOf(provided[n])
        BY <1>3, <1>4, <2>2, <3>1
      <4>2. n \in 1..Len(AllProvided(m)) BY DEF Unblocked
      <4> QED BY <1>1, <2>2, <4>1, <4>2, PlacesPublished
    <3> QED BY <1>5, <3>1
  <2> QED BY <2>1, <2>2
<1>8. ASSUME NEW j \in providers, First(j)
      PROVE  LinkedTo(link, m.groups[j[1]], JobAt(m, j))
  <2>1. PICK o : PlaceOf(m, at, j, key, o) BY <1>1, PublishedPlaces
  <2>2. j \in Positions(m) /\ o \in 1..Len(provided) /\ KeyOf(provided[o]) = key
        /\ key \in DOMAIN r.links
    BY <1>6, <2>1 DEF Unblocked
  <2>3. Fresh(r0, r, key) BY <1>3, <1>4, <1>8, <2>2 DEF Fresh
  <2>4. PICK n : /\ FirstOf(provided, Len(provided), key, n)
                 /\ r.links[key] = LinkFrom(provided[n], initialRollout)
    <3>1. Entered(r0, provided, Len(provided), initialRollout, r) BY <1>3
    <3> DEFINE count == Len(provided)
    <3>2. count \in Nat /\ Entered(r0, provided, count, initialRollout, r) BY <1>2, <3>1
    <3> HIDE DEF provided, key, count
    <3>3. \E n : /\ FirstOf(provided, count, key, n)
                 /\ r.links[key] = LinkFrom(provided[n], initialRollout)
      BY <2>3, <3>2, FirstEntered
    <3> QED BY <3>3 DEF count
  <2>5. n \in 1..Len(provided) /\ KeyOf(provided[n]) = key BY <2>4 DEF FirstOf
  <2>6. PICK l \in providers : PlaceOf(m, at, l, key, n) BY <1>1, <2>5, PlacesPublished
  <2>7. l = j
    <3> SUFFICES ASSUME l # j PROVE FALSE OBVIOUS
    <3>1. Before(j, l) BY <1>8
    <3>2. l \in Positions(m) BY DEF Published
    <3>3. o < n BY <1>1, <2>1, <2>2, <2>6, <3>1, <3>2, PlacesOrdered
    <3>4. o \in 1..(n - 1) BY <2>2, <2>5, <3>3, <1>2
    <3> QED BY <2>2, <2>4, <3>4 DEF FirstOf
  <2> DEFINE e == provided[n]
  <2>8. e.ig = m.groups[j[1]] /\ e.job = JobAt(m, j) BY <1>6, <2>6, <2>7
  <2>9. link = LinkFrom(e, initialRollout) BY <1>5, <2>2, <2>4
  <2> HIDE DEF e
  <2>10. /\ link.group = e.ig.name
         /\ link.properties = LinkProperties(e.job, Specs[<<e.job.release, e.job.name>>],
                                             e.provider)
    BY <2>9, LinkFields
  <2> QED BY <2>8, <2>10 DEF LinkedTo, LinkProperties
<1>9. ASSUME NEW j \in providers, ~First(j) PROVE JobAt(m, j).isAddon
  <2>1. PICK n : PlaceOf(m, at, j, key, n) BY <1>1, PublishedPlaces
  <2>2. /\ j \in Positions(m) /\ n \in 1..Len(provided) /\ KeyOf(provided[n]) = key
        /\ provided[n].job = JobAt(m, j) /\ EnteredAt(r0, provided, n, initialRollout, r)
    BY <1>6, <2>1 DEF Unblocked
  <2>3. ASSUME key \notin DOMAIN r0.links, \A l \in 1..(n - 1) : KeyOf(provided[l]) # key
        PROVE  FALSE
    <3>1. PICK l \in providers \ {j} : ~Before(j, l) BY <1>4, <1>9, <2>3
    <3>2. l \in Positions(m) /\ l # j BY DEF Published
    <3>3. Before(l, j) BY <2>2, <3>1, <3>2, PositionsOrdered
    <3>4. PICK o : PlaceOf(m, at, l, key, o) BY <1>1, PublishedPlaces
    <3>5. o < n BY <1>1, <2>1, <2>2, <3>2, <3>3, <3>4, PlacesOrdered
    <3>6. o \in 1..Len(provided) /\ KeyOf(provided[o]) = key BY <1>6, <3>4 DEF Unblocked
    <3>7. o \in 1..(n - 1) BY <1>2, <2>2, <3>5, <3>6
    <3> QED BY <2>3, <3>6, <3>7
  <2> QED BY <2>2, <2>3 DEF EnteredAt
<1> QED BY <1>7, <1>8, <1>9 DEF Provided

\* A consumer gets the link it looks up, unless a later one has its name.
LEMMA KeptLink ==
    ASSUME NEW r, NEW job, IsSeq(SpecOf(job).consumes), NEW n \in DOMAIN SpecOf(job).consumes,
           Kept(job, n)
    PROVE  generateJobConsumersData(r, job).links[NameOf(job, n)]
               = LinkOrEmpty(lookup(r, SpecOf(job).consumes[n]))
<1> DEFINE consumes == SpecOf(job).consumes
           name == NameOf(job, n)
           S == {c \in DOMAIN consumes : NameOf(job, c) = name}
<1>1. generateJobConsumersData(r, job).links =
          [x \in {NameOf(job, c) : c \in DOMAIN consumes} |->
              LinkOrEmpty(lookup(r, consumes[Max({c \in DOMAIN consumes : NameOf(job, c) = x})]))]
  BY DEF generateJobConsumersData, NameOf, SpecOf
<1>2. S = {n} BY DEF Kept
<1>3. Len(consumes) \in Nat /\ DOMAIN consumes = 1..Len(consumes) BY IsSeqProperties
<1>4. Max(S) = n
  <2>1. S \in SUBSET (1..Len(consumes)) /\ S # {} BY <1>2, <1>3
  <2> HIDE DEF S
  <2>2. Max(S) \in S BY <1>3, <2>1, LargestIn
  <2> QED BY <1>2, <2>2
<1> HIDE DEF consumes
<1>5. name \in {NameOf(job, c) : c \in DOMAIN consumes} BY DEF consumes
<1> QED BY <1>1, <1>4, <1>5 DEF consumes

\* The link of a consumer is that of the provider of its type and name.
LEMMA ConsumerLinked ==
    ASSUME NEW m, IsManifest(m), NEW r0, NEW r, NEW initialRollout,
           AllIn(m, initialRollout, r0, r), DOMAIN r0.links = NativeKeys(m, DOMAIN m.links),
           NEW job, IsSeq(SpecOf(job).consumes), NEW n \in DOMAIN SpecOf(job).consumes,
           Kept(job, n), SpecOf(job).consumes[n].name # "nil"
    PROVE  Provided(m, SpecOf(job).consumes[n].type, SpecOf(job).consumes[n].name,
                    generateJobConsumersData(r, job).links[NameOf(job, n)])
<1> DEFINE link == generateJobConsumersData(r, job).links[NameOf(job, n)]
           c == SpecOf(job).consumes[n]
           type == c.type
           name == c.name
<1>1. link = LinkOrEmpty(lookup(r, c)) BY KeptLink
<1>2. lookup(r, c) = lookup(r, [type |-> type, name |-> name]) BY DEF lookup
<1>3. name # "nil" OBVIOUS
<1> HIDE DEF link, c
<1>4. link = LinkOrEmpty(lookup(r, [type |-> type, name |-> name])) BY <1>1, <1>2
<1> HIDE DEF type, name
<1>5. Provided(m, type, name, link) BY <1>3, <1>4, ProvidedLinks
<1> QED BY <1>5 DEF link, type, name, c

LEMMA LinksWritten ==
    ASSUME NEW m, IsManifest(m), NEW i \in DOMAIN m.groups, NEW k \in DOMAIN m.groups[i].jobs,
           NEW dirs, NEW initialRollout, NEW out, NEW r0, NEW r, NEW ig,
           Outcome(m, i, dirs, initialRollout, out, r0, r, ig)
    PROVE  out.manifest.jobs[k].links = generateJobConsumersData(r, m.groups[i].jobs[k]).links
BY OutputOf

\* The k-th job of the i-th group consumes the n-th link of its spec.
Consumes(m, i, k, n) ==
    LET job == m.groups[i].jobs[k]
    IN /\ k \in DOMAIN m.groups[i].jobs /\ n \in DOMAIN SpecOf(job).consumes
       /\ Kept(job, n) /\ SpecOf(job).consumes[n].name # "nil"

LEMMA LinksProvidedTo ==
    ASSUME NEW docs, Completed(docs), NEW g, NEW i, ResolvedAt(docs, g, i),
           NEW k, NEW n, Consumes(docs.desired[1], i, k, n)
    PROVE  LET job == docs.desired[1].groups[i].jobs[k]
               c == SpecOf(job).consumes[n]
           IN Provided(docs.desired[1], c.type, c.name,
                       docs.output[g][1].manifest.jobs[k].links[NameOf(job, n)])
<1> DEFINE m == docs.desired[1]
           out == docs.output[g][1]
           job == m.groups[i].jobs[k]
           c == SpecOf(job).consumes[n]
<1>1. IsManifest(m) /\ i \in DOMAIN m.groups BY DEF Completed, ResolvedAt
<1>2. PICK r0, r, ig : Outcome(m, i, DOMAIN m.links, docs.initial, out, r0, r, ig)
  BY DEF ResolvedAt
<1>3. Consumes(m, i, k, n) OBVIOUS
<1> HIDE DEF m, out
<1>4. AllIn(m, docs.initial, r0, r) /\ DOMAIN r0.links = NativeKeys(m, DOMAIN m.links)
  BY <1>2 DEF Outcome, AllIn
<1>5. /\ k \in DOMAIN m.groups[i].jobs /\ n \in DOMAIN SpecOf(job).consumes
      /\ Kept(job, n) /\ c.name # "nil"
  BY <1>3 DEF Consumes
<1>6. IsSeq(SpecOf(job).consumes)
  BY <1>1, <1>5 DEF IsManifest, IsGroup, IsJobList, IsSpec, SpecOf
<1>7. out.manifest.jobs[k].links = generateJobConsumersData(r, job).links
  BY <1>1, <1>2, <1>5, LinksWritten
<1> HIDE DEF job
<1>8. Provided(m, c.type, c.name, generateJobConsumersData(r, job).links[NameOf(job, n)])
  BY <1>1, <1>4, <1>5, <1>6, ConsumerLinked
<1>9. Provided(m, c.type, c.name, out.manifest.jobs[k].links[NameOf(job, n)])
  BY <1>7, <1>8
<1> QED BY <1>9 DEF m, out, job
==============================================================================
