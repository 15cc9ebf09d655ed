--------------------------- MODULE SequenceLemmas ---------------------------
(***************************************************************************)
(* What FlattenSeq and Filter compute.  Both are recursive functions, and  *)
(* the library's induction theorems take an operator, which the provers    *)
(* cannot instantiate: here the induction is over a set, and rests on a    *)
(* set of naturals having a least element (WellFoundedInduction).          *)
(***************************************************************************)
EXTENDS Integers, Filters, SequenceTheorems, WellFoundedInduction, TLAPS

LEMMA LeastElement ==
  ASSUME NEW Q, Q \in SUBSET Nat, Q # {}
  PROVE  \E n \in Q : \A m \in Q : n <= m
<1>1. PICK n \in Q : \A m \in Q : ~(<<m, n>> \in OpToRel(<, Nat))
  BY WFMin, NatLessThanWellFounded, Zenon
<1>2. \A m \in Q : ~(m < n)
  BY <1>1 DEF OpToRel
<1>3. \A m \in Q : n <= m
  BY <1>2
<1>. QED  BY <1>3

LEMMA Induction ==
  ASSUME NEW P, P \subseteq Nat, 0 \in P, \A n \in P : n + 1 \in P
  PROVE  P = Nat
<1>. SUFFICES ASSUME P # Nat
              PROVE  FALSE
  OBVIOUS
<1>. DEFINE Q == Nat \ P
<1>1. Q \in SUBSET Nat /\ Q # {}
  OBVIOUS
<1>2. PICK n \in Q : \A m \in Q : n <= m
  BY <1>1, LeastElement
<1>3. n # 0 /\ n - 1 \in Nat /\ n - 1 \notin Q
  BY <1>2
<1>4. n - 1 \in P /\ (n - 1) + 1 = n
  BY <1>3
<1>. QED  BY <1>4

\* F are the stages of a recursion over 0..n whose k-th step is step[k].
Stages(n, T, zero, step, F) ==
  F \in [0..n -> T] /\ F[0] = zero /\ \A k \in 1..n : F[k] = step[k][F[k-1]]

LEMMA RecursionExists ==
  ASSUME NEW T, NEW zero \in T, NEW step \in [Nat -> [T -> T]], NEW n \in Nat
  PROVE  \E F : Stages(n, T, zero, step, F)
<1>. DEFINE P == {m \in Nat : \E F : Stages(m, T, zero, step, F)}
<1>1. 0 \in P
  <2>. DEFINE F == [i \in 0..0 |-> zero]
  <2>1. F \in [0..0 -> T] /\ F[0] = zero /\ 1..0 = {}
    OBVIOUS
  <2>2. Stages(0, T, zero, step, F)
    BY <2>1 DEF Stages
  <2>. QED  BY <2>2
<1>2. ASSUME NEW m \in P
      PROVE  m + 1 \in P
  <2>1. PICK F : Stages(m, T, zero, step, F)
    OBVIOUS
  <2>2. m \in Nat /\ F \in [0..m -> T] /\ F[m] \in T
    BY <2>1 DEF Stages
  <2>. DEFINE next == step[m+1][F[m]]
              G == [i \in 0..m+1 |-> IF i \in 0..m THEN F[i] ELSE next]
  <2>3. next \in T
    BY <2>2
  <2>. HIDE DEF next
  <2>4. G \in [0..m+1 -> T] /\ G[0] = F[0]
    BY <2>2, <2>3
  <2>5. ASSUME NEW k \in 1..m+1
        PROVE  G[k] = step[k][G[k-1]]
    <3>1. k - 1 \in 0..m /\ G[k-1] = F[k-1]
      BY <2>2
    <3>2. CASE k \in 1..m
      <4>1. G[k] = F[k]
        BY <2>2, <3>2
      <4>. QED  BY <2>1, <3>1, <3>2, <4>1 DEF Stages
    <3>3. CASE k = m + 1
      <4>1. G[k] = next /\ k - 1 = m
        BY <2>2, <3>3
      <4>. QED  BY <3>1, <3>3, <4>1 DEF next
    <3>. QED  BY <2>2, <3>2, <3>3
  <2>6. Stages(m + 1, T, zero, step, G)
    <3>. HIDE DEF G
    <3>. QED  BY <2>1, <2>4, <2>5 DEF Stages
  <2>. HIDE DEF G
  <2>. QED  BY <2>2, <2>6
<1>3. P = Nat
  <2>. HIDE DEF P
  <2>1. P \subseteq Nat
    BY DEF P
  <2>. QED  BY <1>1, <1>2, <2>1, Induction
<1>. QED  BY <1>3

LEMMA AppendInduction ==
  ASSUME NEW T, NEW P, P \subseteq Seq(T), <<>> \in P,
         \A s \in P : \A x \in T : Append(s, x) \in P
  PROVE  P = Seq(T)
<1>. DEFINE Q == {n \in Nat : \A s \in Seq(T) : Len(s) = n => s \in P}
<1>1. 0 \in Q
  BY EmptySeq
<1>2. ASSUME NEW n \in Q
      PROVE  n + 1 \in Q
  <2>. SUFFICES ASSUME NEW s \in Seq(T), Len(s) = n + 1
                PROVE  s \in P
    OBVIOUS
  <2>1. s # <<>>
    BY EmptySeq
  <2>2. PICK t \in Seq(T), x \in T : s = Append(t, x)
    BY <2>1, SequenceEmptyOrAppend
  <2>3. Len(t) = n
    BY <2>2, AppendProperties, LenProperties
  <2>. QED  BY <2>2, <2>3
<1>3. Q = Nat
  <2>. HIDE DEF Q
  <2>1. Q \subseteq Nat
    BY DEF Q
  <2>. QED  BY <1>1, <1>2, <2>1, Induction
<1>. QED  BY <1>3, LenProperties

LEMMA ConcatType ==
  ASSUME NEW T, NEW s \in Seq(T), NEW t \in Seq(T)
  PROVE  s \o t \in Seq(T)
BY ConcatProperties

LEMMA ConcatAppend ==
  ASSUME NEW T, NEW s \in Seq(T), NEW t \in Seq(T), NEW x \in T
  PROVE  s \o Append(t, x) = Append(s \o t, x)
<1>1. <<x>> \in Seq(T)
  OBVIOUS
<1>2. Append(t, x) = t \o <<x>> /\ Append(s \o t, x) = (s \o t) \o <<x>>
  BY ConcatType, AppendIsConcat
<1>3. s \o (t \o <<x>>) = (s \o t) \o <<x>>
  BY <1>1, ConcatAssociative
<1>. QED  BY <1>2, <1>3, Zenon

-----------------------------------------------------------------------------
(* FlattenSeq.                                                             *)

\* F is the function that FlattenSeq is made of, up to n.
Flattens(ss, n, F) ==
  F = [i \in 1..n |-> IF i = 1 THEN ss[i] ELSE F[i-1] \o ss[i]]

LEMMA FlattensExists ==
  ASSUME NEW ss, NEW n \in Nat
  PROVE  \E F : Flattens(ss, n, F)
<1>. DEFINE P == {k \in Nat : \E F : Flattens(ss, k, F)}
<1>1. 0 \in P
  <2>. DEFINE F == [i \in 1..0 |-> <<>>]
  <2>1. F = [i \in 1..0 |-> IF i = 1 THEN ss[i] ELSE F[i-1] \o ss[i]]
    OBVIOUS
  <2>. QED  BY <2>1 DEF Flattens
<1>2. ASSUME NEW k \in P
      PROVE  k + 1 \in P
  <2>1. PICK F : Flattens(ss, k, F)
    OBVIOUS
  <2>. DEFINE G == [i \in 1..k+1 |-> IF i \in 1..k THEN F[i]
                                     ELSE IF i = 1 THEN ss[i] ELSE F[i-1] \o ss[i]]
  <2>2. \A i \in 1..k+1 : G[i] = IF i = 1 THEN ss[i] ELSE G[i-1] \o ss[i]
    <3>. SUFFICES ASSUME NEW i \in 1..k+1
                  PROVE  G[i] = IF i = 1 THEN ss[i] ELSE G[i-1] \o ss[i]
      OBVIOUS
    <3>1. CASE i \in 1..k
      <4>1. G[i] = F[i] /\ (i # 1 => i - 1 \in 1..k /\ i - 1 \in 1..k+1 /\ G[i-1] = F[i-1])
        BY <3>1
      <4>2. F[i] = IF i = 1 THEN ss[i] ELSE F[i-1] \o ss[i]
        BY <2>1, <3>1 DEF Flattens
      <4>. QED  BY <4>1, <4>2
    <3>2. CASE i = k + 1
      <4>1. G[i] = IF i = 1 THEN ss[i] ELSE F[i-1] \o ss[i]
        BY <3>2
      <4>2. i # 1 => G[i-1] = F[i-1]
        BY <3>2
      <4>. QED  BY <4>1, <4>2
    <3>. QED  BY <3>1, <3>2
  <2>3. Flattens(ss, k + 1, G)
    BY <2>2 DEF Flattens
  <2>. QED  BY <2>3
<1>3. P = Nat
  <2>. HIDE DEF P
  <2>1. P \subseteq Nat
    BY DEF P
  <2>. QED  BY <1>1, <1>2, <2>1, Induction
<1>. QED  BY <1>3

LEMMA FlattensType ==
  ASSUME NEW T, NEW n \in Nat, NEW ss, \A i \in 1..n : ss[i] \in Seq(T),
         NEW F, Flattens(ss, n, F)
  PROVE  \A i \in 1..n : F[i] \in Seq(T)
<1>. DEFINE P == {k \in Nat : k \in 1..n => F[k] \in Seq(T)}
<1>1. 0 \in P
  OBVIOUS
<1>2. ASSUME NEW k \in P
      PROVE  k + 1 \in P
  <2>. SUFFICES ASSUME k + 1 \in 1..n
                PROVE  F[k+1] \in Seq(T)
    OBVIOUS
  <2>1. F[k+1] = IF k + 1 = 1 THEN ss[k+1] ELSE F[(k+1)-1] \o ss[k+1]
    BY DEF Flattens
  <2>2. CASE k = 0
    BY <2>1, <2>2
  <2>3. CASE k # 0
    <3>1. F[k] \in Seq(T) /\ (k+1)-1 = k
      BY <2>3
    <3>2. k + 1 # 1
      BY <2>3
    <3>3. F[k+1] = F[k] \o ss[k+1]
      BY <2>1, <3>1, <3>2, Zenon
    <3>. QED  BY <3>1, <3>3, ConcatType
  <2>. QED  BY <2>2, <2>3
<1>3. P = Nat
  <2>. HIDE DEF P
  <2>1. P \subseteq Nat
    BY DEF P
  <2>. QED  BY <1>1, <1>2, <2>1, Induction
<1>. QED  BY <1>3

LEMMA FlattensUnique ==
  ASSUME NEW m \in Nat, NEW n \in Nat, NEW ss, NEW tt, \A i \in 1..m : ss[i] = tt[i],
         1..m \subseteq 1..n, NEW F, Flattens(ss, m, F), NEW G, Flattens(tt, n, G)
  PROVE  \A i \in 1..m : F[i] = G[i]
<1>. DEFINE P == {k \in Nat : k \in 1..m => F[k] = G[k]}
<1>1. 0 \in P
  OBVIOUS
<1>2. ASSUME NEW k \in P
      PROVE  k + 1 \in P
  <2>. SUFFICES ASSUME k + 1 \in 1..m
                PROVE  F[k+1] = G[k+1]
    OBVIOUS
  <2>1. F[k+1] = IF k + 1 = 1 THEN ss[k+1] ELSE F[(k+1)-1] \o ss[k+1]
    BY DEF Flattens
  <2>. k + 1 \in 1..n
    OBVIOUS
  <2>2. G[k+1] = IF k + 1 = 1 THEN tt[k+1] ELSE G[(k+1)-1] \o tt[k+1]
    BY DEF Flattens
  <2>3. k + 1 # 1 => F[(k+1)-1] = G[(k+1)-1]
    <3>1. (k+1)-1 = k
      OBVIOUS
    <3>2. k + 1 # 1 => F[k] = G[k]
      OBVIOUS
    <3>. QED  BY <3>1, <3>2
  <2>. QED  BY <2>1, <2>2, <2>3
<1>3. P = Nat
  <2>. HIDE DEF P
  <2>1. P \subseteq Nat
    BY DEF P
  <2>. QED  BY <1>1, <1>2, <2>1, Induction
<1>. QED  BY <1>3

LEMMA FlattensNext ==
  ASSUME NEW m \in Nat, NEW s1, NEW s2, \A i \in 1..m : s1[i] = s2[i],
         NEW F1, NEW F2, Flattens(s1, m, F1), Flattens(s2, m + 1, F2)
  PROVE  \A i \in 1..m : F1[i] = F2[i]
<1>1. m + 1 \in Nat /\ 1..m \subseteq 1..m+1
  OBVIOUS
<1>. QED  BY <1>1, FlattensUnique

LEMMA FlattenDef ==
  ASSUME NEW ss, Len(ss) \in Nat \ {0}
  PROVE  \E F : Flattens(ss, Len(ss), F) /\ FlattenSeq(ss) = F[Len(ss)]
<1>. DEFINE n == Len(ss)
            F == CHOOSE G : G = [i \in 1..n |-> IF i = 1 THEN ss[i] ELSE G[i-1] \o ss[i]]
<1>1. \E G : G = [i \in 1..n |-> IF i = 1 THEN ss[i] ELSE G[i-1] \o ss[i]]
  BY FlattensExists DEF Flattens
<1>2. F = [i \in 1..n |-> IF i = 1 THEN ss[i] ELSE F[i-1] \o ss[i]]
  BY <1>1, Zenon
<1>3. FlattenSeq(ss) = F[n]
  BY Zenon DEF FlattenSeq
<1>. QED  BY <1>2, <1>3 DEF Flattens

LEMMA FlattenEmpty == FlattenSeq(<<>>) = <<>>
BY DEF FlattenSeq

LEMMA FlattenOne ==
  ASSUME NEW s
  PROVE  FlattenSeq(<<s>>) = s
<1>. DEFINE ss == <<s>>
<1>1. Len(ss) = 1 /\ ss[1] = s
  OBVIOUS
<1>. HIDE DEF ss
<1>2. PICK F : Flattens(ss, 1, F) /\ FlattenSeq(ss) = F[1]
  <2>1. Len(ss) \in Nat \ {0}
    BY <1>1
  <2>2. \E F : Flattens(ss, Len(ss), F) /\ FlattenSeq(ss) = F[Len(ss)]
    BY <2>1, FlattenDef
  <2>. QED  BY <1>1, <2>2, Zenon
<1>3. F[1] = ss[1]
  BY <1>2 DEF Flattens
<1>. QED  BY <1>1, <1>2, <1>3 DEF ss

LEMMA FlattenStep ==
  ASSUME NEW n \in Nat \ {0}, NEW ss, NEW tt, \A i \in 1..n : ss[i] = tt[i],
         \E F : Flattens(ss, n, F) /\ FlattenSeq(ss) = F[n],
         \E F : Flattens(tt, n + 1, F) /\ FlattenSeq(tt) = F[n+1]
  PROVE  FlattenSeq(tt) = FlattenSeq(ss) \o tt[n+1]
<1>1. PICK F : Flattens(ss, n, F) /\ FlattenSeq(ss) = F[n]
  OBVIOUS
<1>2. PICK G : Flattens(tt, n + 1, G) /\ FlattenSeq(tt) = G[n+1]
  OBVIOUS
<1>3. \A i \in 1..n : F[i] = G[i]
  BY <1>1, <1>2, FlattensNext
<1>4. G[n+1] = IF n + 1 = 1 THEN tt[n+1] ELSE G[(n+1)-1] \o tt[n+1]
  <2>1. n + 1 \in 1..n+1
    OBVIOUS
  <2>. QED  BY <1>2, <2>1 DEF Flattens
<1>5. (n+1)-1 = n /\ n \in 1..n /\ n + 1 # 1
  OBVIOUS
<1>6. G[(n+1)-1] = F[n]
  BY <1>3, <1>5, Zenon
<1>. QED  BY <1>1, <1>2, <1>4, <1>5, <1>6, Zenon

LEMMA FlattenAppend ==
  ASSUME NEW T, NEW ss \in Seq(Seq(T)), NEW s \in Seq(T)
  PROVE  FlattenSeq(Append(ss, s)) = FlattenSeq(ss) \o s
<1>1. CASE ss = <<>>
  <2>1. Append(ss, s) = <<s>> /\ FlattenSeq(ss) \o s = s
    BY <1>1, FlattenEmpty, ConcatEmptySeq
  <2>2. FlattenSeq(<<s>>) = s
    BY FlattenOne
  <2>. QED  BY <2>1, <2>2
<1>2. CASE ss # <<>>
  <2>. DEFINE n == Len(ss)
              tt == Append(ss, s)
  <2>1. n \in Nat \ {0} /\ Len(tt) = n + 1 /\ tt[n+1] = s
    BY <1>2, EmptySeq, AppendProperties
  <2>2. \A i \in 1..n : ss[i] = tt[i]
    BY AppendProperties
  <2>3. FlattenSeq(tt) = FlattenSeq(ss) \o tt[n+1]
    <3>1. \E F : Flattens(ss, n, F) /\ FlattenSeq(ss) = F[n]
      BY <2>1, FlattenDef
    <3>2. \E F : Flattens(tt, n + 1, F) /\ FlattenSeq(tt) = F[n+1]
      <4>1. Len(tt) \in Nat \ {0}
        BY <2>1
      <4>2. \E F : Flattens(tt, Len(tt), F) /\ FlattenSeq(tt) = F[Len(tt)]
        BY <4>1, FlattenDef
      <4>. QED  BY <2>1, <4>2, Zenon
    <3>. HIDE DEF n, tt
    <3>. QED  BY <2>1, <2>2, <3>1, <3>2, FlattenStep, Zenon
  <2>. QED  BY <2>1, <2>3, Zenon
<1>. QED  BY <1>1, <1>2

LEMMA FlattenType ==
  ASSUME NEW T, NEW ss \in Seq(Seq(T))
  PROVE  FlattenSeq(ss) \in Seq(T)
<1>1. CASE ss = <<>>
  BY <1>1, FlattenEmpty, EmptySeq
<1>2. CASE ss # <<>>
  <2>1. Len(ss) \in Nat \ {0} /\ \A i \in 1..Len(ss) : ss[i] \in Seq(T)
    BY <1>2, EmptySeq, ElementOfSeq
  <2>2. PICK F : Flattens(ss, Len(ss), F) /\ FlattenSeq(ss) = F[Len(ss)]
    BY <2>1, FlattenDef
  <2>3. \A i \in 1..Len(ss) : F[i] \in Seq(T)
    BY <2>1, <2>2, FlattensType
  <2>. QED  BY <2>1, <2>2, <2>3
<1>. QED  BY <1>1, <1>2

-----------------------------------------------------------------------------
(* Filter.                                                                 *)

LEMMA FilterEmpty ==
  ASSUME NEW S
  PROVE  Filter(<<>>, S) = <<>>
<1>1. [k \in DOMAIN <<>> |-> IF <<>>[k] \in S THEN << <<>>[k] >> ELSE <<>>] = <<>>
  OBVIOUS
<1>. QED  BY <1>1, FlattenEmpty DEF Filter

LEMMA FilterAppend ==
  ASSUME NEW T, NEW s \in Seq(T), NEW x \in T, NEW S
  PROVE  Filter(Append(s, x), S)
           = IF x \in S THEN Append(Filter(s, S), x) ELSE Filter(s, S)
<1>. DEFINE One(y) == IF y \in S THEN <<y>> ELSE <<>>
            ss == [k \in 1..Len(s) |-> One(s[k])]
            tt == [k \in 1..Len(s)+1 |-> One(Append(s, x)[k])]
<1>1. \A y \in T : One(y) \in Seq(T)
  BY EmptySeq
<1>2. /\ Len(s) \in Nat /\ DOMAIN s = 1..Len(s)
      /\ DOMAIN Append(s, x) = 1..Len(s)+1
      /\ \A k \in 1..Len(s) : s[k] \in T /\ Append(s, x)[k] = s[k]
      /\ Append(s, x)[Len(s)+1] = x
  BY LenProperties, AppendProperties
<1>3. ss \in Seq(Seq(T)) /\ Len(ss) = Len(s)
  BY <1>1, <1>2
<1>4. tt \in Seq(Seq(T)) /\ Len(tt) = Len(s) + 1
  BY <1>1, <1>2
<1>5. tt = Append(ss, One(x))
  <2>1. Append(ss, One(x)) \in Seq(Seq(T)) /\ Len(Append(ss, One(x))) = Len(s) + 1
    BY <1>1, <1>3, AppendProperties
  <2>2. \A k \in 1..Len(s)+1 : tt[k] = Append(ss, One(x))[k]
    <3>1. \A k \in 1..Len(s) : tt[k] = ss[k]
      BY <1>2
    <3>2. tt[Len(s)+1] = One(x)
      BY <1>2
    <3>3. /\ \A k \in 1..Len(s) : Append(ss, One(x))[k] = ss[k]
          /\ Append(ss, One(x))[Len(s)+1] = One(x)
      BY <1>1, <1>3, AppendProperties
    <3>4. \A k \in 1..Len(s)+1 : k \in 1..Len(s) \/ k = Len(s)+1
      BY <1>2
    <3>. HIDE DEF ss, tt, One
    <3>. QED  BY <3>1, <3>2, <3>3, <3>4
  <2>. HIDE DEF ss, tt, One
  <2>. QED  BY <1>4, <2>1, <2>2, SeqEqual
<1>6. Filter(s, S) = FlattenSeq(ss) /\ Filter(Append(s, x), S) = FlattenSeq(tt)
  BY <1>2 DEF Filter
<1>7. FlattenSeq(tt) = FlattenSeq(ss) \o One(x) /\ FlattenSeq(ss) \in Seq(T)
  <2>1. One(x) \in Seq(T)
    BY <1>1
  <2>. HIDE DEF ss, tt, One
  <2>. QED  BY <1>3, <1>5, <2>1, FlattenAppend, FlattenType
<1>8. /\ FlattenSeq(ss) \o <<x>> = Append(FlattenSeq(ss), x)
      /\ FlattenSeq(ss) \o <<>> = FlattenSeq(ss)
  <2>. HIDE DEF ss
  <2>. QED  BY <1>7, AppendIsConcat, ConcatEmptySeq
<1>9. CASE x \in S
  BY <1>6, <1>7, <1>8, <1>9
<1>10. CASE x \notin S
  BY <1>6, <1>7, <1>8, <1>10
<1>. QED  BY <1>9, <1>10

LEMMA FilterType ==
  ASSUME NEW T, NEW s \in Seq(T), NEW S
  PROVE  Filter(s, S) \in Seq(T \cap S)
<1>. DEFINE P == {t \in Seq(T) : Filter(t, S) \in Seq(T \cap S)}
<1>1. <<>> \in P
  BY FilterEmpty, EmptySeq
<1>2. ASSUME NEW t \in P, NEW x \in T
      PROVE  Append(t, x) \in P
  <2>1. Append(t, x) \in Seq(T)
    BY AppendProperties
  <2>2. Filter(Append(t, x), S) = IF x \in S THEN Append(Filter(t, S), x) ELSE Filter(t, S)
    BY FilterAppend
  <2>3. x \in S => Append(Filter(t, S), x) \in Seq(T \cap S)
    <3>1. Filter(t, S) \in Seq(T \cap S)
      OBVIOUS
    <3>. QED  BY <3>1, AppendProperties
  <2>4. Filter(Append(t, x), S) \in Seq(T \cap S)
    BY <2>2, <2>3, Zenon
  <2>. QED  BY <2>1, <2>4
<1>3. P = Seq(T)
  <2>. HIDE DEF P
  <2>1. P \subseteq Seq(T)
    BY DEF P
  <2>. QED  BY <1>1, <1>2, <2>1, AppendInduction
<1>. QED  BY <1>3

LEMMA FilterSeq ==
  ASSUME NEW T, NEW s \in Seq(T), NEW S
  PROVE  Filter(s, S) \in Seq(T)
<1>1. Filter(s, S) \in Seq(T \cap S) /\ T \cap S \subseteq T
  BY FilterType
<1>. QED  BY <1>1, SeqMonotonic

LEMMA FilterHead ==
  ASSUME NEW T, NEW s \in Seq(T), s # <<>>, NEW S
  PROVE  Filter(s, S) = IF Head(s) \in S THEN <<Head(s)>> \o Filter(Tail(s), S)
                                         ELSE Filter(Tail(s), S)
<1>. DEFINE Split(t) == IF Head(t) \in S THEN <<Head(t)>> \o Filter(Tail(t), S)
                                         ELSE Filter(Tail(t), S)
            P == {t \in Seq(T) : t = <<>> \/ Filter(t, S) = Split(t)}
<1>1. <<>> \in P
  BY EmptySeq
<1>2. ASSUME NEW t \in P, NEW x \in T
      PROVE  Append(t, x) \in P
  <2>. DEFINE u == Append(t, x)
  <2>1. u \in Seq(T)
    BY AppendProperties
  <2>2. Filter(u, S) = IF x \in S THEN Append(Filter(t, S), x) ELSE Filter(t, S)
    BY FilterAppend
  <2>3. CASE t = <<>>
    <3>1. Head(u) = x /\ Tail(u) = <<>>
      BY <2>3, HeadTailAppend
    <3>2. Filter(u, S) = IF x \in S THEN Append(<<>>, x) ELSE <<>>
      BY <2>2, <2>3, FilterEmpty
    <3>3. Append(<<>>, x) = <<x>> /\ <<x>> \o <<>> = <<x>>
      OBVIOUS
    <3>4. Filter(u, S) = Split(u)
      BY <3>1, <3>2, <3>3, FilterEmpty, Zenon
    <3>. QED  BY <2>1, <3>4
  <2>4. CASE t # <<>>
    <3>1. Head(u) = Head(t) /\ Tail(u) = Append(Tail(t), x)
      BY <2>4, HeadTailAppend
    <3>2. Head(t) \in T /\ Tail(t) \in Seq(T)
      BY <2>4, HeadTailProperties
    <3>3. Filter(Tail(u), S) = IF x \in S THEN Append(Filter(Tail(t), S), x)
                                          ELSE Filter(Tail(t), S)
      <4>1. Filter(Append(Tail(t), x), S) = IF x \in S THEN Append(Filter(Tail(t), S), x)
                                                       ELSE Filter(Tail(t), S)
        <5>. DEFINE v == Tail(t)
        <5>1. v \in Seq(T)
          BY <3>2
        <5>. HIDE DEF v
        <5>2. Filter(Append(v, x), S) = IF x \in S THEN Append(Filter(v, S), x) ELSE Filter(v, S)
          BY <5>1, FilterAppend
        <5>. QED  BY <5>2 DEF v
      <4>. QED  BY <3>1, <4>1, Zenon
    <3>4. Filter(t, S) = Split(t)
      BY <2>4
    <3>5. <<Head(t)>> \o Append(Filter(Tail(t), S), x)
            = Append(<<Head(t)>> \o Filter(Tail(t), S), x)
      <4>1. Filter(Tail(t), S) \in Seq(T) /\ <<Head(t)>> \in Seq(T)
        <5>1. Filter(Tail(t), S) \in Seq(T \cap S)
          BY <3>2, FilterType
        <5>. QED  BY <3>2, <5>1, SeqMonotonic
      <4>. HIDE DEF Split
      <4>. QED  BY <4>1, ConcatAppend
    <3>6. CASE x \in S
      <4>1. Filter(u, S) = Append(Split(t), x)
        BY <2>2, <3>4, <3>6
      <4>2. Split(u) = IF Head(t) \in S THEN <<Head(t)>> \o Append(Filter(Tail(t), S), x)
                                        ELSE Append(Filter(Tail(t), S), x)
        BY <3>1, <3>3, <3>6
      <4>3. Filter(u, S) = Split(u)
        BY <4>1, <4>2, <3>5, Zenon
      <4>. QED  BY <2>1, <4>3
    <3>7. CASE x \notin S
      <4>1. Filter(u, S) = Split(t)
        BY <2>2, <3>4, <3>7
      <4>2. Split(u) = Split(t)
        BY <3>1, <3>3, <3>7
      <4>3. Filter(u, S) = Split(u)
        BY <4>1, <4>2, Zenon
      <4>. QED  BY <2>1, <4>3
    <3>. QED  BY <3>6, <3>7
  <2>. QED  BY <2>3, <2>4
<1>3. P = Seq(T)
  <2>. HIDE DEF P
  <2>1. P \subseteq Seq(T)
    BY DEF P
  <2>. QED  BY <1>1, <1>2, <2>1, AppendInduction
<1>. QED  BY <1>3

LEMMA FilterAgree ==
  ASSUME NEW T, NEW s \in Seq(T), NEW R, NEW S,
         \A k \in 1..Len(s) : s[k] \in R <=> s[k] \in S
  PROVE  Filter(s, R) = Filter(s, S)
<1>1. DOMAIN s = 1..Len(s)
  BY LenProperties
<1>2. [k \in DOMAIN s |-> IF s[k] \in R THEN <<s[k]>> ELSE <<>>]
        = [k \in DOMAIN s |-> IF s[k] \in S THEN <<s[k]>> ELSE <<>>]
  BY <1>1
<1>. QED  BY <1>2, Zenon DEF Filter

LEMMA FilterAll ==
  ASSUME NEW T, NEW s \in Seq(T)
  PROVE  Filter(s, T) = s
<1>. DEFINE P == {t \in Seq(T) : Filter(t, T) = t}
<1>1. <<>> \in P
  BY FilterEmpty, EmptySeq
<1>2. ASSUME NEW t \in P, NEW x \in T
      PROVE  Append(t, x) \in P
  <2>1. Append(t, x) \in Seq(T)
    BY AppendProperties
  <2>2. Filter(Append(t, x), T) = Append(t, x)
    BY FilterAppend
  <2>. QED  BY <2>1, <2>2
<1>3. P = Seq(T)
  <2>. HIDE DEF P
  <2>1. P \subseteq Seq(T)
    BY DEF P
  <2>. QED  BY <1>1, <1>2, <2>1, AppendInduction
<1>. QED  BY <1>3

LEMMA FilterNone ==
  ASSUME NEW T, NEW s \in Seq(T), NEW S, T \cap S = {}
  PROVE  Filter(s, S) = <<>>
<1>1. Filter(s, S) \in Seq({})
  <2>1. Filter(s, S) \in Seq(T \cap S)
    BY FilterType
  <2>. QED  BY <2>1, Zenon
<1>. DEFINE t == Filter(s, S)
<1>. HIDE DEF t
<1>2. t \in Seq({})
  BY <1>1 DEF t
<1>3. t = <<>>
  <2>. SUFFICES ASSUME t # <<>>
                PROVE  FALSE
    OBVIOUS
  <2>1. Head(t) \in {}
    BY <1>2, HeadTailProperties
  <2>. QED  BY <2>1
<1>. QED  BY <1>3 DEF t

\* A sequence given by its elements.
LEMMA SequenceLen ==
  ASSUME NEW n \in Nat, NEW s, s = [k \in 1..n |-> s[k]]
  PROVE  Len(s) = n
<1>. DEFINE T == {s[k] : k \in 1..n}
<1>1. s \in [1..n -> T]
  OBVIOUS
<1>2. s \in Seq(T)
  <2>. HIDE DEF T
  <2>. QED  BY <1>1
<1>3. DOMAIN s = 1..Len(s) /\ Len(s) \in Nat
  <2>. HIDE DEF T
  <2>. QED  BY <1>2, LenProperties
<1>4. DOMAIN s = 1..n
  BY <1>1
<1>5. \A m \in Nat : 1..m = 1..n => m = n
  <2>. SUFFICES ASSUME NEW m \in Nat, 1..m = 1..n
                PROVE  m = n
    OBVIOUS
  <2>1. m < n => n \notin 1..m /\ n \in 1..n
    OBVIOUS
  <2>2. n < m => m \notin 1..n /\ m \in 1..m
    OBVIOUS
  <2>3. m < n \/ n < m \/ m = n
    OBVIOUS
  <2>. QED  BY <2>1, <2>2, <2>3, Zenon
<1>. QED  BY <1>3, <1>4, <1>5

LEMMA FilterFinds ==
  ASSUME NEW T, NEW s \in Seq(T), NEW S, NEW x \in Range(s), x \in S
  PROVE  Filter(s, S) # <<>>
<1>. DEFINE P == {t \in Seq(T) : Filter(t, S) = <<>> => \A k \in 1..Len(t) : t[k] \notin S}
<1>1. <<>> \in P
  BY EmptySeq
<1>2. ASSUME NEW t \in P, NEW y \in T
      PROVE  Append(t, y) \in P
  <2>. DEFINE u == Append(t, y)
  <2>1. /\ u \in Seq(T) /\ Len(u) = Len(t) + 1 /\ u[Len(t)+1] = y /\ Len(t) \in Nat
        /\ \A k \in 1..Len(t) : u[k] = t[k]
    BY AppendProperties, LenProperties
  <2>2. Filter(u, S) = IF y \in S THEN Append(Filter(t, S), y) ELSE Filter(t, S)
    BY FilterAppend
  <2>3. Append(Filter(t, S), y) # <<>>
    <3>. DEFINE v == Filter(t, S)
    <3>1. v \in Seq(T)
      BY FilterSeq
    <3>. HIDE DEF v
    <3>2. Append(v, y) # <<>>
      BY <3>1, AppendProperties
    <3>. QED  BY <3>2 DEF v
  <2>. HIDE DEF u
  <2>4. ASSUME Filter(u, S) = <<>>
        PROVE  \A k \in 1..Len(u) : u[k] \notin S
    <3>1. y \notin S /\ Filter(t, S) = <<>>
      BY <2>2, <2>3, <2>4
    <3>2. \A k \in 1..Len(t) : t[k] \notin S
      BY <3>1
    <3>3. \A k \in 1..Len(t)+1 : k \in 1..Len(t) \/ k = Len(t) + 1
      BY <2>1
    <3>. QED  BY <2>1, <3>1, <3>2, <3>3, Zenon
  <2>5. u \in P
    BY <2>1, <2>4
  <2>. QED  BY <2>5 DEF u
<1>3. P = Seq(T)
  <2>. HIDE DEF P
  <2>1. P \subseteq Seq(T)
    BY DEF P
  <2>. QED  BY <1>1, <1>2, <2>1, AppendInduction
<1>4. \E k \in 1..Len(s) : s[k] = x
  <2>1. DOMAIN s = 1..Len(s)
    BY LenProperties
  <2>. QED  BY <2>1 DEF Range
<1>5. Filter(s, S) = <<>> => \A k \in 1..Len(s) : s[k] \notin S
  BY <1>3
<1>. QED  BY <1>4, <1>5
=============================================================================
