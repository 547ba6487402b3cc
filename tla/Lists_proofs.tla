----------------------------- MODULE Lists_proofs -----------------------------
(* Sequences and FlattenSeq, by induction over their length.                   *)
EXTENDS Parser, Naturals, SequenceTheorems, FiniteSetTheorems,
        WellFoundedInduction, TLAPS

(****************************** induction **************************************)

Below == {p \in Nat \X Nat : p[1] < p[2]}

\* A set of numbers with zero and the successor of each of its members is Nat.
LEMMA NatInduct ==
    ASSUME NEW S \in SUBSET Nat, 0 \in S, \A n \in S : n + 1 \in S
    PROVE  S = Nat
<1>1. IsWellFoundedOn(Below, Nat)
  <2>1. OpToRel(<, Nat) = Below
    BY DEF OpToRel, Below
  <2> QED BY <2>1, NatLessThanWellFounded
<1> SUFFICES ASSUME Nat \ S # {} PROVE FALSE
  OBVIOUS
<1>2. PICK n \in Nat \ S : \A m \in Nat \ S : ~(<<m, n>> \in Below)
  BY <1>1, WFMin
<1>3. n - 1 \in Nat /\ n - 1 < n /\ n = (n - 1) + 1
  BY SMT
<1>4. <<n - 1, n>> \in Below
  BY <1>3 DEF Below
<1> QED BY <1>2, <1>3, <1>4

\* What holds of the empty sequence, and of a sequence with one element more
\* when it holds of the sequence, holds of all.
LEMMA SeqInduct ==
    ASSUME NEW T, NEW P \in SUBSET Seq(T), <<>> \in P,
           \A s \in P, x \in T : Append(s, x) \in P
    PROVE  P = Seq(T)
<1> DEFINE S == {n \in Nat : \A s \in Seq(T) : Len(s) = n => s \in P}
<1>1. 0 \in S
  <2>1. \A s \in Seq(T) : Len(s) = 0 => s = <<>>
    BY EmptySeq
  <2> QED BY <2>1
<1>2. ASSUME NEW n \in S PROVE n + 1 \in S
  <2> SUFFICES ASSUME NEW s \in Seq(T), Len(s) = n + 1 PROVE s \in P
    OBVIOUS
  <2>1. PICK f \in Seq(T), x \in T : s = Append(f, x)
    <3>1. s # <<>>
      BY EmptySeq
    <3> QED BY <3>1, SequenceEmptyOrAppend
  <2>2. Len(f) = n
    <3>1. Len(Append(f, x)) = Len(f) + 1 /\ Len(f) \in Nat /\ n \in Nat
      BY AppendProperties
    <3> QED BY <2>1, <3>1
  <2>3. f \in P
    BY <2>2
  <2> QED BY <2>1, <2>3
<1>3. S \in SUBSET Nat
  OBVIOUS
<1>4. S = Nat
  <2> HIDE DEF S
  <2> QED BY <1>1, <1>2, <1>3, NatInduct
<1>5. ASSUME NEW s \in Seq(T) PROVE s \in P
  <2>1. Len(s) \in S
    BY <1>4
  <2> QED BY <2>1
<1> QED BY <1>5

(*************************** FlattenSeq ****************************************)

\* The function FlattenSeq computes: at i, the first i sequences joined.
IsFlatten(f, s) ==
    f = [i \in 1..Len(s) |-> IF i = 1 THEN s[i] ELSE f[i - 1] \o s[i]]

\* One sequence begins with another.
Begins(s, t) == /\ Len(s) \in Nat /\ Len(t) \in Nat /\ Len(s) <= Len(t)
                /\ \A i \in 1..Len(s) : s[i] = t[i]

\* It depends at i on no more than the first i sequences.
LEMMA FlattenAgrees ==
    ASSUME NEW s, NEW t, Begins(s, t), NEW f, NEW g, IsFlatten(f, s), IsFlatten(g, t)
    PROVE  \A i \in 1..Len(s) : f[i] = g[i]
<1> USE DEF Begins
<1> DEFINE n == Len(s)
<1> DEFINE S == {m \in Nat : m \in 1..n => f[m] = g[m]}
<1>1. 0 \in S
  OBVIOUS
<1>2. ASSUME NEW m \in S PROVE m + 1 \in S
  <2> SUFFICES ASSUME m + 1 \in 1..n PROVE f[m + 1] = g[m + 1]
    OBVIOUS
  <2>1. m + 1 \in 1..Len(s) /\ m + 1 \in 1..Len(t) /\ (m + 1) - 1 = m
    OBVIOUS
  <2>2. /\ f[m + 1] = IF m + 1 = 1 THEN s[m + 1] ELSE f[m] \o s[m + 1]
        /\ g[m + 1] = IF m + 1 = 1 THEN t[m + 1] ELSE g[m] \o t[m + 1]
    BY <2>1 DEF IsFlatten
  <2>3. m + 1 # 1 => f[m] = g[m]
    OBVIOUS
  <2> QED BY <2>2, <2>3
<1>3. S = Nat
  <2>1. S \in SUBSET Nat
    OBVIOUS
  <2> HIDE DEF S
  <2> QED BY <1>1, <1>2, <2>1, NatInduct
<1> QED BY <1>3

\* There is such a function for every sequence of sequences.
LEMMA FlattenExists ==
    ASSUME NEW T, NEW s \in Seq(T)
    PROVE  \E f : IsFlatten(f, s)
<1> DEFINE P == {r \in Seq(T) : \E f : IsFlatten(f, r)}
<1>1. <<>> \in P
  <2>1. IsFlatten([i \in 1..0 |-> 0], <<>>)
    BY DEF IsFlatten
  <2> QED BY <2>1, EmptySeq
<1>2. ASSUME NEW r \in P, NEW x \in T PROVE Append(r, x) \in P
  <2> DEFINE a == Append(r, x)
             n == Len(r)
  <2>1. PICK f : IsFlatten(f, r)
    OBVIOUS
  <2>2. /\ a \in Seq(T) /\ Len(a) = n + 1 /\ n \in Nat
        /\ \A i \in 1..n : a[i] = r[i]
    BY AppendProperties
  <2> HIDE DEF a, n
  <2> DEFINE g == [i \in 1..n + 1 |->
                     IF i \in 1..n THEN f[i] ELSE IF i = 1 THEN a[i] ELSE f[i - 1] \o a[i]]
  <2>3. ASSUME NEW i \in 1..n + 1
        PROVE  g[i] = IF i = 1 THEN a[i] ELSE g[i - 1] \o a[i]
    <3>1. CASE i \in 1..n
      <4>1. f[i] = IF i = 1 THEN r[i] ELSE f[i - 1] \o r[i]
        BY <2>1, <3>1 DEF IsFlatten, n
      <4>2. i # 1 => i - 1 \in 1..n
        BY <3>1, <2>2
      <4> QED BY <2>2, <3>1, <4>1, <4>2
    <3>2. CASE i \notin 1..n
      <4>1. i # 1 => i - 1 \in 1..n /\ i - 1 \in 1..n + 1
        BY <3>2, <2>2
      <4>2. g[i] = IF i = 1 THEN a[i] ELSE f[i - 1] \o a[i]
        BY <3>2
      <4>3. i # 1 => g[i - 1] = f[i - 1]
        BY <4>1
      <4> HIDE DEF g
      <4> QED BY <4>2, <4>3
    <3> QED BY <3>1, <3>2
  <2>4. IsFlatten(g, a)
    <3> HIDE DEF g
    <3>1. g = [i \in 1..n + 1 |-> g[i]]
      BY DEF g
    <3>2. g = [i \in 1..n + 1 |-> IF i = 1 THEN a[i] ELSE g[i - 1] \o a[i]]
      BY <2>3, <3>1
    <3> QED BY <2>2, <3>2 DEF IsFlatten
  <2> QED BY <2>2, <2>4 DEF a
<1>3. P = Seq(T)
  <2>1. P \in SUBSET Seq(T)
    OBVIOUS
  <2> HIDE DEF P
  <2> QED BY <1>1, <1>2, <2>1, SeqInduct
<1> QED BY <1>3

\* FlattenSeq(s) is that function at the length of s.
LEMMA FlattenUnfolds ==
    ASSUME NEW T, NEW s \in Seq(T), s # <<>>
    PROVE  \E f : IsFlatten(f, s) /\ FlattenSeq(s) = f[Len(s)]
<1> DEFINE f == CHOOSE g : IsFlatten(g, s)
<1>1. IsFlatten(f, s)
  BY FlattenExists
<1>2. Len(s) # 0
  BY EmptySeq
<1>3. FlattenSeq(s) = f[Len(s)]
  BY <1>2 DEF FlattenSeq, IsFlatten
<1> QED BY <1>1, <1>3

\* One sequence more is joined at the end.
LEMMA FlattenAppends ==
    ASSUME NEW T, NEW s \in Seq(Seq(T)), NEW x \in Seq(T)
    PROVE  /\ s = <<>> => FlattenSeq(Append(s, x)) = x
           /\ s # <<>> => FlattenSeq(Append(s, x)) = FlattenSeq(s) \o x
<1> DEFINE a == Append(s, x)
           n == Len(s)
<1>1. /\ a \in Seq(Seq(T)) /\ a # <<>> /\ Len(a) = n + 1 /\ n \in Nat
      /\ \A i \in 1..n : a[i] = s[i]
      /\ a[n + 1] = x
  BY AppendProperties
<1>2. PICK g : IsFlatten(g, a) /\ FlattenSeq(a) = g[n + 1]
  <2> HIDE DEF a, n
  <2> QED BY <1>1, FlattenUnfolds
<1>3. g[n + 1] = IF n + 1 = 1 THEN x ELSE g[n] \o x
  <2> HIDE DEF a, n
  <2>1. n + 1 \in 1..Len(a) /\ (n + 1) - 1 = n
    BY <1>1
  <2> QED BY <1>1, <1>2, <2>1 DEF IsFlatten
<1>4. CASE s = <<>>
  <2>1. n = 0
    BY <1>4, EmptySeq
  <2> QED BY <1>2, <1>3, <1>4, <2>1
<1>5. CASE s # <<>>
  <2>1. n # 0
    BY <1>5, EmptySeq
  <2>2. PICK f : IsFlatten(f, s) /\ FlattenSeq(s) = f[n]
    BY <1>5, FlattenUnfolds
  <2>3. f[n] = g[n]
    <3> HIDE DEF a
    <3>1. Begins(s, a)
      BY <1>1 DEF Begins
    <3>2. \A i \in 1..Len(s) : f[i] = g[i]
      BY <1>2, <2>2, <3>1, FlattenAgrees
    <3> QED BY <1>1, <2>1, <3>2
  <2> QED BY <1>1, <1>2, <1>3, <1>5, <2>1, <2>2, <2>3
<1> QED BY <1>4, <1>5

(*************************** binding *******************************************)

\* What a function makes of the elements of a sequence, one after the other.
\* Filtering a sequence and scanning a sequence of texts are both of this form.
Mapped(g, s) == [i \in DOMAIN s |-> g[s[i]]]
Bind(g, s) == FlattenSeq(Mapped(g, s))

\* The functions to bind.
Maps(T, U) == [T -> Seq(U)]

LEMMA MapsValue ==
    ASSUME NEW T, NEW U, NEW g \in Maps(T, U), NEW x \in T
    PROVE  g[x] \in Seq(U)
BY DEF Maps

LEMMA MappedType ==
    ASSUME NEW T, NEW U, NEW g \in Maps(T, U), NEW s \in Seq(T)
    PROVE  /\ Mapped(g, s) \in Seq(Seq(U))
           /\ Len(Mapped(g, s)) = Len(s)
           /\ DOMAIN s = 1..Len(s) /\ Len(s) \in Nat
           /\ \A i \in 1..Len(s) : s[i] \in T /\ Mapped(g, s)[i] = g[s[i]]
<1>1. DOMAIN s = 1..Len(s) /\ Len(s) \in Nat /\ \A i \in 1..Len(s) : s[i] \in T
  BY LenProperties
<1>2. \A i \in 1..Len(s) : g[s[i]] \in Seq(U)
  BY <1>1 DEF Maps
<1>3. Mapped(g, s) = [i \in 1..Len(s) |-> g[s[i]]]
  BY <1>1 DEF Mapped
<1> QED BY <1>1, <1>2, <1>3

LEMMA MappedAppends ==
    ASSUME NEW T, NEW U, NEW g \in Maps(T, U), NEW s \in Seq(T), NEW x \in T
    PROVE  Mapped(g, Append(s, x)) = Append(Mapped(g, s), g[x])
<1> DEFINE a == Append(s, x)
           l == Mapped(g, a)
           r == Append(Mapped(g, s), g[x])
           n == Len(s)
<1>1. /\ a \in Seq(T) /\ Len(a) = n + 1 /\ n \in Nat
      /\ \A i \in 1..n : a[i] = s[i]
      /\ a[n + 1] = x
  BY AppendProperties
<1>2. g[x] \in Seq(U) /\ Mapped(g, s) \in Seq(Seq(U)) /\ Len(Mapped(g, s)) = n
  BY MapsValue, MappedType
<1>3. \A i \in 1..n : Mapped(g, s)[i] = g[s[i]]
  BY MappedType
<1>4. /\ r \in Seq(Seq(U)) /\ Len(r) = n + 1
      /\ \A i \in 1..n : r[i] = g[s[i]]
      /\ r[n + 1] = g[x]
  BY <1>2, <1>3, AppendProperties
<1>5. /\ l \in Seq(Seq(U)) /\ Len(l) = n + 1
      /\ \A i \in 1..n + 1 : l[i] = g[a[i]]
  <2> HIDE DEF a
  <2> QED BY <1>1, MappedType
<1> HIDE DEF a, l, r, n
<1>6. \A i \in 1..Len(l) : l[i] = r[i]
  <2> TAKE i \in 1..Len(l)
  <2>1. i \in 1..n \/ i = n + 1
    BY <1>1, <1>5
  <2>2. i \in 1..n + 1
    BY <1>5
  <2> QED BY <1>1, <1>4, <1>5, <2>1, <2>2
<1>7. l = r
  BY <1>4, <1>5, <1>6, SeqEqual
<1> QED BY <1>7 DEF a, l, r

LEMMA BindEmpty ==
    ASSUME NEW g
    PROVE  Bind(g, <<>>) = <<>>
<1>1. Mapped(g, <<>>) = <<>>
  BY DEF Mapped
<1>2. Len(<<>>) = 0
  BY EmptySeq
<1> QED BY <1>1, <1>2 DEF Bind, FlattenSeq

\* Joining sequences over a set gives a sequence over it.
LEMMA FlattenType ==
    ASSUME NEW T, NEW s \in Seq(Seq(T))
    PROVE  FlattenSeq(s) \in Seq(T)
<1> DEFINE P == {r \in Seq(Seq(T)) : FlattenSeq(r) \in Seq(T)}
<1>1. <<>> \in P
  BY EmptySeq DEF FlattenSeq
<1>2. ASSUME NEW r \in P, NEW x \in Seq(T) PROVE Append(r, x) \in P
  <2>1. FlattenSeq(r) \o x \in Seq(T)
    BY ConcatProperties
  <2>2. Append(r, x) \in Seq(Seq(T))
    BY AppendProperties
  <2>3. FlattenSeq(Append(r, x)) \in Seq(T)
    BY <2>1, FlattenAppends
  <2> QED BY <2>2, <2>3
<1>3. P = Seq(Seq(T))
  <2>1. P \in SUBSET Seq(Seq(T))
    OBVIOUS
  <2> HIDE DEF P
  <2> QED BY <1>1, <1>2, <2>1, SeqInduct
<1> QED BY <1>3

LEMMA BindType ==
    ASSUME NEW T, NEW U, NEW g \in Maps(T, U), NEW s \in Seq(T)
    PROVE  Bind(g, s) \in Seq(U)
<1>1. Mapped(g, s) \in Seq(Seq(U))
  BY MappedType
<1> QED BY <1>1, FlattenType DEF Bind

LEMMA BindAppends ==
    ASSUME NEW T, NEW U, NEW g \in Maps(T, U), NEW s \in Seq(T), NEW x \in T
    PROVE  Bind(g, Append(s, x)) = Bind(g, s) \o g[x]
<1>1. /\ Mapped(g, Append(s, x)) = Append(Mapped(g, s), g[x])
      /\ Mapped(g, s) \in Seq(Seq(U))
      /\ g[x] \in Seq(U)
  BY MapsValue, MappedType, MappedAppends
<1>2. CASE Mapped(g, s) = <<>>
  <2>1. FlattenSeq(<<>>) = <<>>
    BY EmptySeq DEF FlattenSeq
  <2>2. <<>> \o g[x] = g[x]
    BY <1>1, ConcatEmptySeq
  <2> QED BY <1>1, <1>2, <2>1, <2>2, FlattenAppends DEF Bind
<1>3. CASE Mapped(g, s) # <<>>
  BY <1>1, <1>3, FlattenAppends DEF Bind
<1> QED BY <1>2, <1>3

\* Binding goes through concatenation.
LEMMA BindConcat ==
    ASSUME NEW T, NEW U, NEW g \in Maps(T, U), NEW s \in Seq(T), NEW t \in Seq(T)
    PROVE  Bind(g, s \o t) = Bind(g, s) \o Bind(g, t)
<1> DEFINE P == {r \in Seq(T) : Bind(g, s \o r) = Bind(g, s) \o Bind(g, r)}
<1>1. <<>> \in P
  <2>1. s \o <<>> = s /\ Bind(g, s) \o <<>> = Bind(g, s)
    BY BindType, ConcatEmptySeq
  <2> QED BY <2>1, BindEmpty, EmptySeq
<1>2. ASSUME NEW r \in P, NEW x \in T PROVE Append(r, x) \in P
  <2>1. s \o Append(r, x) = Append(s \o r, x)
    <3>1. /\ Append(r, x) = r \o <<x>> /\ Append(s \o r, x) = (s \o r) \o <<x>>
          /\ <<x>> \in Seq(T) /\ s \o r \in Seq(T)
      BY AppendIsConcat, ConcatProperties
    <3> QED BY <3>1, ConcatAssociative
  <2>2. Bind(g, s \o Append(r, x)) = Bind(g, s \o r) \o g[x]
    <3>1. s \o r \in Seq(T)
      BY ConcatProperties
    <3> QED BY <2>1, <3>1, BindAppends
  <2>3. Bind(g, s \o r) \o g[x] = Bind(g, s) \o (Bind(g, r) \o g[x])
    <3>1. Bind(g, s) \in Seq(U) /\ Bind(g, r) \in Seq(U) /\ g[x] \in Seq(U)
      BY MapsValue, BindType
    <3>2. Bind(g, s \o r) = Bind(g, s) \o Bind(g, r)
      OBVIOUS
    <3>3. (Bind(g, s) \o Bind(g, r)) \o g[x] = Bind(g, s) \o (Bind(g, r) \o g[x])
      <4> DEFINE a == Bind(g, s)
                 b == Bind(g, r)
                 c == g[x]
      <4>1. a \in Seq(U) /\ b \in Seq(U) /\ c \in Seq(U)
        BY <3>1
      <4> HIDE DEF P, a, b, c
      <4>2. (a \o b) \o c = a \o (b \o c)
        BY <4>1, ConcatAssociative
      <4> QED BY <4>2 DEF a, b, c
    <3> QED BY <3>2, <3>3
  <2>4. Bind(g, r) \o g[x] = Bind(g, Append(r, x))
    BY BindAppends
  <2>5. Append(r, x) \in Seq(T)
    BY AppendProperties
  <2> QED BY <2>2, <2>3, <2>4, <2>5
<1>3. P = Seq(T)
  <2>1. P \in SUBSET Seq(T)
    OBVIOUS
  <2> HIDE DEF P
  <2> QED BY <1>1, <1>2, <2>1, SeqInduct
<1> QED BY <1>3

\* Binding twice is binding once, with what the second makes of the first.
LEMMA BindTwice ==
    ASSUME NEW T, NEW U, NEW V, NEW g \in Maps(T, U), NEW h \in Maps(U, V),
           NEW s \in Seq(T)
    PROVE  Bind(h, Bind(g, s)) = Bind([x \in T |-> Bind(h, g[x])], s)
<1> DEFINE k == [x \in T |-> Bind(h, g[x])]
           P == {r \in Seq(T) : Bind(h, Bind(g, r)) = Bind(k, r)}
<1>1. k \in Maps(T, V)
  <2>1. \A x \in T : Bind(h, g[x]) \in Seq(V)
    BY MapsValue, BindType
  <2> QED BY <2>1 DEF Maps
<1> HIDE DEF k
<1>2. <<>> \in P
  BY BindEmpty, EmptySeq
<1>3. ASSUME NEW r \in P, NEW x \in T PROVE Append(r, x) \in P
  <2>0. r \in Seq(T) /\ Bind(h, Bind(g, r)) = Bind(k, r)
    OBVIOUS
  <2>1. Bind(h, Bind(g, Append(r, x))) = Bind(h, Bind(g, r) \o g[x])
    BY BindAppends
  <2>2. Bind(h, Bind(g, r) \o g[x]) = Bind(h, Bind(g, r)) \o Bind(h, g[x])
    <3>1. Bind(g, r) \in Seq(U) /\ g[x] \in Seq(U)
      BY <2>0, MapsValue, BindType
    <3> HIDE DEF P
    <3> QED BY <3>1, BindConcat
  <2>3. Bind(k, Append(r, x)) = Bind(k, r) \o Bind(h, g[x])
    <3>1. k[x] = Bind(h, g[x])
      BY DEF k
    <3> HIDE DEF P
    <3>2. Bind(k, Append(r, x)) = Bind(k, r) \o k[x]
      BY <2>0, <1>1, BindAppends
    <3> QED BY <3>2, <3>1
  <2>4. Append(r, x) \in Seq(T)
    BY AppendProperties
  <2> QED BY <2>0, <2>1, <2>2, <2>3, <2>4
<1>4. P = Seq(T)
  <2>1. P \in SUBSET Seq(T)
    OBVIOUS
  <2> HIDE DEF P
  <2> QED BY <1>2, <1>3, <2>1, SeqInduct
<1> QED BY <1>4 DEF k

\* One element.
LEMMA BindOne ==
    ASSUME NEW T, NEW U, NEW g \in Maps(T, U), NEW x \in T
    PROVE  Bind(g, <<x>>) = g[x]
<1>1. Bind(g, Append(<<>>, x)) = Bind(g, <<>>) \o g[x]
  <2> DEFINE e == <<>>
  <2>1. e \in Seq(T)
    BY EmptySeq
  <2> HIDE DEF e
  <2>2. Bind(g, Append(e, x)) = Bind(g, e) \o g[x]
    BY <2>1, BindAppends
  <2> QED BY <2>2 DEF e
<1>2. Append(<<>>, x) = <<x>>
  OBVIOUS
<1>3. <<>> \o g[x] = g[x]
  BY MapsValue, ConcatEmptySeq
<1> QED BY <1>1, <1>2, <1>3, BindEmpty

\* What gives nothing for any element gives nothing for a sequence of them.
LEMMA BindNothing ==
    ASSUME NEW T, NEW s \in Seq(T), NEW g, \A x \in T : g[x] = <<>>
    PROVE  Bind(g, s) = <<>>
<1> DEFINE n == [x \in T |-> <<>>]
<1>1. n \in Maps(T, {})
  BY EmptySeq DEF Maps
<1>2. Bind(g, s) = Bind(n, s)
  <2>1. \A i \in DOMAIN s : s[i] \in T
    OBVIOUS
  <2>2. Mapped(g, s) = Mapped(n, s)
    BY <2>1 DEF Mapped
  <2> QED BY <2>2 DEF Bind
<1> HIDE DEF n
<1>3. Bind(n, s) \in Seq({})
  BY <1>1, BindType
<1> QED BY <1>2, <1>3

(*************************** filtering *****************************************)

\* Keeps the elements of T that are in K.
Only(T, K) == [x \in T |-> IF x \in K THEN <<x>> ELSE <<>>]

LEMMA OnlyType ==
    ASSUME NEW T, NEW K
    PROVE  Only(T, K) \in Maps(T, T) /\ Only(T, K) \in Maps(T, K)
<1>1. \A x \in T : x \in K => <<x>> \in Seq(K) /\ <<x>> \in Seq(T)
  OBVIOUS
<1>2. <<>> \in Seq(K) /\ <<>> \in Seq(T)
  BY EmptySeq
<1> QED BY <1>1, <1>2 DEF Only, Maps

\* Filtering by index, when what decides is the element, is Only.
LEMMA FilteredIsOnly ==
    ASSUME NEW T, NEW K, NEW s \in Seq(T),
           NEW kept, \A i \in DOMAIN s : i \in kept <=> s[i] \in K
    PROVE  Filtered(s, kept) = Bind(Only(T, K), s)
<1>1. \A i \in DOMAIN s : s[i] \in T
  OBVIOUS
<1>2. \A i \in DOMAIN s :
        Only(T, K)[s[i]] = IF i \in kept THEN <<s[i]>> ELSE <<>>
  BY <1>1 DEF Only
<1>3. Mapped(Only(T, K), s) = [i \in DOMAIN s |-> IF i \in kept THEN <<s[i]>> ELSE <<>>]
  BY <1>2 DEF Mapped
<1> QED BY <1>3 DEF Filtered, Bind

\* Filtering picks elements of the sequence.
LEMMA FilteredType ==
    ASSUME NEW T, NEW s \in Seq(T), NEW kept
    PROVE  Filtered(s, kept) \in Seq(T)
<1> DEFINE m == [i \in DOMAIN s |-> IF i \in kept THEN <<s[i]>> ELSE <<>>]
<1>1. DOMAIN s = 1..Len(s) /\ Len(s) \in Nat /\ \A i \in 1..Len(s) : s[i] \in T
  BY LenProperties
<1>2. \A i \in 1..Len(s) : (IF i \in kept THEN <<s[i]>> ELSE <<>>) \in Seq(T)
  BY <1>1, EmptySeq
<1>3. m \in Seq(Seq(T))
  BY <1>1, <1>2
<1> QED BY <1>3, FlattenType DEF Filtered

\* Filtering by an index set without an index of the sequence leaves nothing.
LEMMA FilteredNone ==
    ASSUME NEW T, NEW s \in Seq(T), NEW kept, \A i \in DOMAIN s : i \notin kept
    PROVE  Filtered(s, kept) = <<>>
<1>1. \A i \in DOMAIN s : i \in kept <=> s[i] \in {}
  OBVIOUS
<1>2. Filtered(s, kept) = Bind(Only(T, {}), s)
  BY <1>1, FilteredIsOnly
<1>3. \A x \in T : Only(T, {})[x] = <<>>
  BY DEF Only
<1> QED BY <1>2, <1>3, BindNothing

\* An element that is kept moves, if at all, to the front.
LEMMA OnlyPosition ==
    ASSUME NEW T, NEW K, NEW s \in Seq(T)
    PROVE  /\ Bind(Only(T, K), s) \in Seq(T)
           /\ Len(Bind(Only(T, K), s)) <= Len(s)
           /\ \A p \in 1..Len(s) : s[p] \in K =>
                \E q \in 1..p : /\ q <= Len(Bind(Only(T, K), s))
                                /\ Bind(Only(T, K), s)[q] = s[p]
<1> DEFINE g == Only(T, K)
           Moves(r) == \A p \in 1..Len(r) : r[p] \in K =>
                          \E q \in 1..p : q <= Len(Bind(g, r)) /\ Bind(g, r)[q] = r[p]
           P == {r \in Seq(T) : Len(Bind(g, r)) <= Len(r) /\ Moves(r)}
<1>1. g \in Maps(T, T) /\ \A x \in T : g[x] = IF x \in K THEN <<x>> ELSE <<>>
  BY OnlyType DEF Only
<1> HIDE DEF g
<1>2. <<>> \in P
  BY BindEmpty, EmptySeq
<1>3. ASSUME NEW r \in P, NEW x \in T PROVE Append(r, x) \in P
  <2> DEFINE a == Append(r, x)
             b == Bind(g, r)
             c == Bind(g, a)
  <2>1. r \in Seq(T) /\ Len(b) <= Len(r) /\ Moves(r)
    OBVIOUS
  <2> HIDE DEF P
  <2>2. /\ a \in Seq(T) /\ Len(a) = Len(r) + 1 /\ Len(r) \in Nat
        /\ \A i \in 1..Len(r) : a[i] = r[i]
        /\ a[Len(r) + 1] = x
    BY <2>1, AppendProperties
  <2>3. b \in Seq(T) /\ Len(b) \in Nat
    BY <1>1, <2>1, BindType
  <2>4. c = b \o g[x]
    BY <1>1, <2>1, BindAppends
  <2>5. CASE x \in K
    <3>1. c = Append(b, x)
      BY <1>1, <2>3, <2>4, <2>5, AppendIsConcat
    <3>2. /\ Len(c) = Len(b) + 1
          /\ \A i \in 1..Len(b) : c[i] = b[i]
          /\ c[Len(b) + 1] = x
      BY <2>3, <3>1, AppendProperties
    <3> HIDE DEF a, b, c
    <3>3. ASSUME NEW p \in 1..Len(a), a[p] \in K
          PROVE  \E q \in 1..p : q <= Len(c) /\ c[q] = a[p]
      <4>1. CASE p \in 1..Len(r)
        <5>1. r[p] \in K
          BY <2>2, <3>3, <4>1
        <5>2. PICK q \in 1..p : q <= Len(b) /\ b[q] = r[p]
          BY <2>1, <4>1, <5>1 DEF b
        <5> QED BY <2>2, <2>3, <3>2, <4>1, <5>2
      <4>2. CASE p = Len(r) + 1
        BY <2>1, <2>2, <2>3, <3>2, <4>2
      <4> QED BY <2>2, <4>1, <4>2
    <3>8. Len(c) <= Len(a)
      BY <2>1, <2>2, <2>3, <3>2 DEF b
    <3>9. a \in P
      BY <2>2, <3>3, <3>8 DEF P, c
    <3> QED BY <3>9 DEF a
  <2>6. CASE x \notin K
    <3>1. c = b
      BY <1>1, <2>3, <2>4, <2>6, ConcatEmptySeq
    <3> HIDE DEF a, b, c
    <3>2. ASSUME NEW p \in 1..Len(a), a[p] \in K
          PROVE  \E q \in 1..p : q <= Len(c) /\ c[q] = a[p]
      <4>1. p \in 1..Len(r)
        BY <2>2, <2>6, <3>2
      <4>2. r[p] \in K
        BY <2>2, <3>2, <4>1
      <4>3. PICK q \in 1..p : q <= Len(b) /\ b[q] = r[p]
        BY <2>1, <4>1, <4>2 DEF b
      <4> QED BY <2>2, <3>1, <4>1, <4>3
    <3>8. Len(c) <= Len(a)
      BY <2>1, <2>2, <2>3, <3>1 DEF b
    <3>9. a \in P
      BY <2>2, <3>2, <3>8 DEF P, c
    <3> QED BY <3>9 DEF a
  <2> QED BY <2>5, <2>6
<1>4. P = Seq(T)
  <2>1. P \in SUBSET Seq(T)
    OBVIOUS
  <2> HIDE DEF P
  <2> QED BY <1>2, <1>3, <2>1, SeqInduct
<1>5. s \in P
  BY <1>4
<1>6. Bind(g, s) \in Seq(T)
  BY <1>1, BindType
<1> QED BY <1>5, <1>6 DEF g

(*************************** order and number **********************************)

\* No element occurs twice.
Distinct(s) == \A i, j \in 1..Len(s) : s[i] = s[j] => i = j

\* What the elements of a set give, one pair for each part.
Parts(g, S) == {p \in S \X Nat : p[2] \in 1..Len(g[p[1]])}

\* As many parts as the sequence it gives is long.
Counted(g, s) == /\ IsFiniteSet(Parts(g, ToSet(s)))
                 /\ Cardinality(Parts(g, ToSet(s))) = Len(Bind(g, s))

LEMMA PartsOfOne ==
    ASSUME NEW T, NEW U, NEW g \in Maps(T, U), NEW x \in T
    PROVE  IsFiniteSet(Parts(g, {x})) /\ Cardinality(Parts(g, {x})) = Len(g[x])
<1> DEFINE n == Len(g[x])
           f == [m \in 1..n |-> <<x, m>>]
<1>1. n \in Nat
  BY MapsValue, LenProperties
<1> HIDE DEF n
<1>2. Parts(g, {x}) = {<<x, m>> : m \in 1..n}
  BY <1>1 DEF Parts, n
<1>3. f \in Bijection(1..n, Parts(g, {x}))
  BY <1>2 DEF Bijection, Injection, Surjection, IsInjective
<1>4. IsFiniteSet(1..n) /\ Cardinality(1..n) = n
  BY <1>1, FS_Interval
<1> QED BY <1>3, <1>4, FS_Bijection DEF ExistsBijection, n

LEMMA PartsOfMore ==
    ASSUME NEW T, NEW U, NEW g \in Maps(T, U), NEW s \in Seq(T), NEW x \in T,
           x \notin ToSet(s), Counted(g, s)
    PROVE  Counted(g, Append(s, x))
<1> DEFINE a == Append(s, x)
           A == Parts(g, ToSet(s))
           B == Parts(g, {x})
<1>1. ToSet(a) = ToSet(s) \cup {x}
  <2>1. /\ DOMAIN a = 1..Len(s) + 1 /\ DOMAIN s = 1..Len(s) /\ Len(s) \in Nat
        /\ \A i \in 1..Len(s) : a[i] = s[i]
        /\ a[Len(s) + 1] = x
    BY AppendProperties, LenProperties
  <2> HIDE DEF a
  <2> QED BY <2>1 DEF ToSet
<1>2. Parts(g, ToSet(a)) = A \cup B /\ A \cap B = {}
  BY <1>1 DEF Parts
<1>3. IsFiniteSet(B) /\ Cardinality(B) = Len(g[x])
  BY PartsOfOne
<1>4. IsFiniteSet(A) /\ Cardinality(A) = Len(Bind(g, s))
  BY DEF Counted
<1>5. Len(Bind(g, a)) = Len(Bind(g, s)) + Len(g[x])
  <2>1. Bind(g, a) = Bind(g, s) \o g[x]
    BY BindAppends
  <2>2. Bind(g, s) \in Seq(U) /\ g[x] \in Seq(U)
    BY BindType, MapsValue
  <2> QED BY <2>1, <2>2, ConcatProperties
<1>6. /\ IsFiniteSet(A \cup B)
      /\ Cardinality(A \cup B) = Cardinality(A) + Cardinality(B)
  <2>1. Cardinality(A) \in Nat /\ Cardinality(B) \in Nat /\ Cardinality({}) = 0
    BY <1>3, <1>4, FS_CardinalityType, FS_EmptySet
  <2> HIDE DEF A, B
  <2>2. /\ IsFiniteSet(A \cup B)
        /\ Cardinality(A \cup B) = Cardinality(A) + Cardinality(B) - Cardinality(A \cap B)
    BY <1>3, <1>4, FS_Union
  <2>3. Cardinality(A \cap B) = 0
    BY <1>2, <2>1
  <2> QED BY <2>1, <2>2, <2>3
<1> HIDE DEF a, A, B
<1>7. Counted(g, a)
  BY <1>2, <1>3, <1>4, <1>5, <1>6 DEF Counted
<1> QED BY <1>7 DEF a

LEMMA DistinctIsCounted ==
    ASSUME NEW T, NEW U, NEW g \in Maps(T, U), NEW s \in Seq(T), Distinct(s)
    PROVE  Counted(g, s)
<1> DEFINE P == {r \in Seq(T) : Distinct(r) => Counted(g, r)}
<1>1. <<>> \in P
  <2>1. Parts(g, ToSet(<<>>)) = {}
    BY DEF Parts, ToSet
  <2>2. Len(Bind(g, <<>>)) = 0
    BY BindEmpty, EmptySeq
  <2>3. Counted(g, <<>>)
    BY <2>1, <2>2, FS_EmptySet DEF Counted
  <2> QED BY <2>3, EmptySeq
<1>2. ASSUME NEW r \in P, NEW x \in T PROVE Append(r, x) \in P
  <2> DEFINE a == Append(r, x)
  <2>1. r \in Seq(T) /\ (Distinct(r) => Counted(g, r))
    OBVIOUS
  <2> HIDE DEF P
  <2>2. /\ a \in Seq(T) /\ Len(a) = Len(r) + 1 /\ Len(r) \in Nat
        /\ \A i \in 1..Len(r) : a[i] = r[i]
        /\ a[Len(r) + 1] = x
    BY <2>1, AppendProperties
  <2> HIDE DEF a
  <2>3. ASSUME Distinct(a) PROVE Counted(g, a)
    <3>1. Distinct(r)
      BY <2>2, <2>3 DEF Distinct
    <3>2. x \notin ToSet(r)
      <4> SUFFICES ASSUME NEW i \in DOMAIN r, r[i] = x PROVE FALSE
        BY DEF ToSet
      <4>1. i \in 1..Len(r)
        BY <2>1, LenProperties
      <4>2. a[i] = a[Len(r) + 1] /\ i \in 1..Len(a) /\ Len(r) + 1 \in 1..Len(a)
        BY <2>2, <4>1
      <4> QED BY <2>2, <2>3, <4>1, <4>2 DEF Distinct
    <3> QED BY <2>1, <3>1, <3>2, PartsOfMore DEF a
  <2> QED BY <2>2, <2>3 DEF P, a
<1>3. P = Seq(T)
  <2>1. P \in SUBSET Seq(T)
    OBVIOUS
  <2> HIDE DEF P
  <2> QED BY <1>1, <1>2, <2>1, SeqInduct
<1> QED BY <1>3

\* More elements, in whatever order, give at least as much.
LEMMA FewerCount ==
    ASSUME NEW T, NEW U, NEW g \in Maps(T, U), NEW s \in Seq(T), NEW t \in Seq(T),
           Distinct(s), Distinct(t), ToSet(s) \subseteq ToSet(t)
    PROVE  Len(Bind(g, s)) <= Len(Bind(g, t))
<1>1. Counted(g, s) /\ Counted(g, t)
  BY DistinctIsCounted
<1>2. Parts(g, ToSet(s)) \in SUBSET Parts(g, ToSet(t))
  BY DEF Parts
<1>3. Cardinality(Parts(g, ToSet(s))) <= Cardinality(Parts(g, ToSet(t)))
  BY <1>1, <1>2, FS_Subset DEF Counted
<1> QED BY <1>1, <1>3 DEF Counted

\* Two sequences joined give as much as the two of them.
LEMMA CountConcat ==
    ASSUME NEW T, NEW U, NEW g \in Maps(T, U), NEW s \in Seq(T), NEW t \in Seq(T)
    PROVE  /\ s \o t \in Seq(T)
           /\ Len(Bind(g, s \o t)) = Len(Bind(g, s)) + Len(Bind(g, t))
<1>1. Bind(g, s \o t) = Bind(g, s) \o Bind(g, t)
  BY BindConcat
<1>2. Bind(g, s) \in Seq(U) /\ Bind(g, t) \in Seq(U)
  BY BindType
<1>3. Len(Bind(g, s) \o Bind(g, t)) = Len(Bind(g, s)) + Len(Bind(g, t))
  BY <1>2, ConcatProperties
<1>4. s \o t \in Seq(T)
  BY ConcatProperties
<1> QED BY <1>1, <1>3, <1>4

\* A filter leaves something just when the sequence has something of it.
LEMMA OnlySome ==
    ASSUME NEW T, NEW K, NEW s \in Seq(T)
    PROVE  (\E i \in 1..Len(s) : s[i] \in K) <=> Len(Bind(Only(T, K), s)) # 0
<1>1. CASE \E i \in 1..Len(s) : s[i] \in K
  <2>1. PICK i \in 1..Len(s) : s[i] \in K
    BY <1>1
  <2>2. PICK q \in 1..i : q <= Len(Bind(Only(T, K), s))
    BY <2>1, OnlyPosition
  <2>3. Len(Bind(Only(T, K), s)) \in Nat /\ Len(s) \in Nat
    BY OnlyPosition, LenProperties
  <2> QED BY <1>1, <2>2, <2>3
<1>2. CASE ~\E i \in 1..Len(s) : s[i] \in K
  <2>1. \A i \in DOMAIN s : i \in {} <=> s[i] \in K
    BY <1>2, LenProperties
  <2>2. Filtered(s, {}) = Bind(Only(T, K), s)
    BY <2>1, FilteredIsOnly
  <2>3. Filtered(s, {}) = <<>>
    BY FilteredNone
  <2> QED BY <1>2, <2>2, <2>3, EmptySeq
<1> QED BY <1>1, <1>2

==============================================================================
