---------------------------- MODULE Collections ----------------------------
(***************************************************************************)
(* What the proofs need to know of the sequences and sums the components   *)
(* are written with: which items a sequence holds, that it holds each      *)
(* once, and what a sum taken cell by cell is after one of its terms       *)
(* changes.                                                                *)
(***************************************************************************)
EXTENDS Integers, Sequences, SequencesExt, FiniteSets, FiniteSetTheorems,
        SequenceTheorems, Counting, TLAPS

\* No item stands twice in s.
Once(s) == \A m, n \in DOMAIN s : s[m] = s[n] => m = n

\* The items of a sequence.
LEMMA ToSetSeq ==
  ASSUME NEW S, NEW s \in Seq(S)
  PROVE  ToSet(s) \subseteq S /\ (s # <<>> => ToSet(s) # {})
  BY DEF ToSet

\* Only the empty sequence has no length.
LEMMA EmptyLen ==
  ASSUME NEW S, NEW s \in Seq(S)
  PROVE  Len(s) \in Nat /\ (s = <<>> <=> Len(s) = 0)
<1>1. Len(<<>>) = 0
  OBVIOUS
<1>2. s # <<>> => Len(s) \in Nat \ {0}
  BY EmptySeq
<1> QED  BY <1>1, <1>2

\* The empty sequence holds nothing.
LEMMA OnceEmpty == Once(<<>>) /\ ToSet(<<>>) = {}
  BY DEF Once, ToSet

\* An item that is not in a sequence may be appended to it.
LEMMA OnceAppend ==
  ASSUME NEW S, NEW s \in Seq(S), NEW x \in S
  PROVE  /\ Append(s, x) \in Seq(S)
         /\ ToSet(Append(s, x)) = ToSet(s) \cup {x}
         /\ Once(s) /\ x \notin ToSet(s) => Once(Append(s, x))
<1> DEFINE t == Append(s, x)
<1>1. t \in Seq(S) /\ Len(t) = Len(s) + 1 /\ t[Len(s) + 1] = x
      /\ \A n \in 1 .. Len(s) : t[n] = s[n]
  BY AppendProperties
<1>2. DOMAIN s = 1 .. Len(s) /\ DOMAIN t = 1 .. Len(s) + 1 /\ Len(s) \in Nat
  BY <1>1, LenProperties
<1> HIDE DEF t
<1>3. ToSet(t) = ToSet(s) \cup {x}
  BY <1>1, <1>2 DEF ToSet
<1>4. Once(s) /\ x \notin ToSet(s) => Once(t)
  BY <1>1, <1>2 DEF ToSet, Once
<1> QED  BY <1>1, <1>3, <1>4 DEF t

\* Taking the oldest item away takes away just that one.
LEMMA OnceTail ==
  ASSUME NEW S, NEW s \in Seq(S), s # <<>>
  PROVE  /\ Head(s) \in S /\ Head(s) \in ToSet(s) /\ Tail(s) \in Seq(S)
         /\ ToSet(Tail(s)) \subseteq ToSet(s)
         /\ Once(s) => Once(Tail(s)) /\ ToSet(Tail(s)) = ToSet(s) \ {Head(s)}
<1> DEFINE t == Tail(s)
<1>1. /\ Head(s) \in S /\ t \in Seq(S) /\ Len(t) = Len(s) - 1
      /\ \A n \in 1 .. Len(t) : t[n] = s[n + 1]
  BY HeadTailProperties
<1>2. DOMAIN s = 1 .. Len(s) /\ DOMAIN t = 1 .. Len(t) /\ Len(s) \in Nat \ {0} /\ Len(t) \in Nat
  BY <1>1, LenProperties, EmptySeq
<1>3. Head(s) = s[1]
  BY <1>2
<1> HIDE DEF t
<1>4. Head(s) \in ToSet(s) /\ ToSet(t) \subseteq ToSet(s)
  BY <1>1, <1>2, <1>3 DEF ToSet
<1>5. ASSUME Once(s)  PROVE Once(t) /\ ToSet(t) = ToSet(s) \ {Head(s)}
  <2>1. Once(t)
    <3> SUFFICES ASSUME NEW m \in 1 .. Len(t), NEW n \in 1 .. Len(t), t[m] = t[n]  PROVE m = n
      BY <1>2 DEF Once
    <3>1. m + 1 \in DOMAIN s /\ n + 1 \in DOMAIN s /\ s[m + 1] = s[n + 1]
      BY <1>1, <1>2
    <3> QED  BY <3>1, <1>5 DEF Once
  <2>2. Head(s) \notin ToSet(t)
    BY <1>1, <1>2, <1>3, <1>5 DEF Once, ToSet
  <2>3. \A y \in ToSet(s) : y # Head(s) => y \in ToSet(t)
    <3> SUFFICES ASSUME NEW n \in 1 .. Len(s), s[n] # Head(s)  PROVE s[n] \in ToSet(t)
      BY <1>2 DEF ToSet
    <3>1. n - 1 \in 1 .. Len(t) /\ t[n - 1] = s[n]
      BY <1>1, <1>2, <1>3
    <3> QED  BY <3>1, <1>2 DEF ToSet
  <2> QED  BY <2>1, <2>2, <2>3, <1>4
<1> QED  BY <1>1, <1>4, <1>5 DEF t

\* So does taking the newest one.
LEMMA OnceFront ==
  ASSUME NEW S, NEW s \in Seq(S), s # <<>>
  PROVE  /\ Last(s) \in S /\ Last(s) \in ToSet(s) /\ Front(s) \in Seq(S)
         /\ Len(Front(s)) = Len(s) - 1
         /\ ToSet(Front(s)) \subseteq ToSet(s)
         /\ Once(s) => Once(Front(s)) /\ ToSet(Front(s)) = ToSet(s) \ {Last(s)}
<1> DEFINE t == Front(s)
<1>0. Len(s) \in Nat \ {0} /\ DOMAIN s = 1 .. Len(s)
  BY LenProperties, EmptySeq
<1>1. /\ Last(s) = s[Len(s)] /\ Last(s) \in S /\ t \in Seq(S) /\ Len(t) = Len(s) - 1
      /\ \A n \in 1 .. Len(t) : t[n] = s[n]
  BY <1>0, SubSeqProperties DEF Front, Last
<1>2. DOMAIN t = 1 .. Len(t) /\ Len(t) \in Nat
  BY <1>1, LenProperties
<1> HIDE DEF t
<1>4. Last(s) \in ToSet(s) /\ ToSet(t) \subseteq ToSet(s)
  BY <1>0, <1>1, <1>2 DEF ToSet
<1>5. ASSUME Once(s)  PROVE Once(t) /\ ToSet(t) = ToSet(s) \ {Last(s)}
  <2>1. Once(t)
    BY <1>0, <1>1, <1>2, <1>5 DEF Once
  <2>2. Last(s) \notin ToSet(t)
    BY <1>0, <1>1, <1>2, <1>5 DEF Once, ToSet
  <2>3. \A y \in ToSet(s) : y # Last(s) => y \in ToSet(t)
    BY <1>0, <1>1, <1>2 DEF ToSet
  <2> QED  BY <2>1, <2>2, <2>3, <1>4
<1> QED  BY <1>1, <1>4, <1>5 DEF t

\* Two sequences with nothing in common hold each item once together.
LEMMA OnceConcat ==
  ASSUME NEW S, NEW s \in Seq(S), NEW t \in Seq(S)
  PROVE  /\ s \o t \in Seq(S)
         /\ ToSet(s \o t) = ToSet(s) \cup ToSet(t)
         /\ Once(s) /\ Once(t) /\ ToSet(s) \cap ToSet(t) = {} => Once(s \o t)
<1> DEFINE u == s \o t
<1>1. u \in Seq(S) /\ Len(u) = Len(s) + Len(t)
      /\ \A n \in 1 .. Len(u) : u[n] = IF n <= Len(s) THEN s[n] ELSE t[n - Len(s)]
  BY ConcatProperties
<1>2. /\ DOMAIN s = 1 .. Len(s) /\ DOMAIN t = 1 .. Len(t) /\ DOMAIN u = 1 .. Len(s) + Len(t)
      /\ Len(s) \in Nat /\ Len(t) \in Nat
  BY <1>1, LenProperties
<1> HIDE DEF u
<1>3. \A n \in 1 .. Len(u) :
        IF n <= Len(s) THEN n \in 1 .. Len(s) /\ u[n] = s[n]
        ELSE n - Len(s) \in 1 .. Len(t) /\ u[n] = t[n - Len(s)]
  BY <1>1, <1>2
<1>4. \A n \in 1 .. Len(t) : n + Len(s) \in 1 .. Len(u) /\ u[n + Len(s)] = t[n]
  BY <1>1, <1>2
<1>5. ToSet(u) = ToSet(s) \cup ToSet(t)
  <2>1. ToSet(u) \subseteq ToSet(s) \cup ToSet(t)
    BY <1>1, <1>2, <1>3 DEF ToSet
  <2>2. ToSet(s) \subseteq ToSet(u)
    BY <1>1, <1>2 DEF ToSet
  <2>3. ToSet(t) \subseteq ToSet(u)
    BY <1>1, <1>2, <1>4 DEF ToSet
  <2> QED  BY <2>1, <2>2, <2>3
<1>6. ASSUME Once(s), Once(t), ToSet(s) \cap ToSet(t) = {}  PROVE Once(u)
  <2> SUFFICES ASSUME NEW m \in 1 .. Len(u), NEW n \in 1 .. Len(u), u[m] = u[n]  PROVE m = n
    BY <1>1, <1>2 DEF Once
  <2>1. CASE m \in 1 .. Len(s) /\ n \in 1 .. Len(s)
    BY <2>1, <1>1, <1>2, <1>6 DEF Once
  <2>2. CASE m > Len(s) /\ n > Len(s)
    BY <2>2, <1>2, <1>3, <1>6 DEF Once
  <2>3. \A a \in 1 .. Len(s), b \in 1 .. Len(t) : s[a] # t[b]
    BY <1>2, <1>6 DEF ToSet
  <2>4. CASE m <= Len(s) /\ n > Len(s)
    <3>1. u[m] = s[m] /\ m \in 1 .. Len(s) /\ u[n] = t[n - Len(s)] /\ n - Len(s) \in 1 .. Len(t)
      BY <2>4, <1>2, <1>3
    <3> QED  BY <3>1, <2>3
  <2>5. CASE n <= Len(s) /\ m > Len(s)
    <3>1. u[n] = s[n] /\ n \in 1 .. Len(s) /\ u[m] = t[m - Len(s)] /\ m - Len(s) \in 1 .. Len(t)
      BY <2>5, <1>2, <1>3
    <3> QED  BY <3>1, <2>3
  <2> QED  BY <2>1, <2>2, <2>4, <2>5, <1>1, <1>2
<1> QED  BY <1>1, <1>5, <1>6 DEF u

-----------------------------------------------------------------------------
(* Sums and counts.                                                        *)

\* What a sum is taken over.
LEMMA CellsIn ==
  ASSUME NEW S, NEW n \in [S -> Nat], NEW p
  PROVE  p \in Cells(n) <=> \E y \in S : p \in {y} \X (1 .. n[y])
<1>1. DOMAIN n = S
  OBVIOUS
<1>2. Cells(n) = UNION {{y} \X (1 .. n[y]) : y \in S}
  BY <1>1 DEF Cells
<1> QED  BY ONLY <1>2

\* What a sum becomes when one of its terms changes.
LEMMA TotalExcept ==
  ASSUME NEW S, NEW n \in [S -> Nat], NEW m \in [S -> Nat], NEW x \in S,
         \A y \in S : y # x => m[y] = n[y],
         IsFiniteSet(Cells(n))
  PROVE  IsFiniteSet(Cells(m)) /\ Total(m) + n[x] = Total(n) + m[x]
<1> DEFINE Rest == UNION {{y} \X (1 .. n[y]) : y \in S \ {x}}
           Pile(k) == {x} \X (1 .. k)
<1>1. \A k \in Nat : IsFiniteSet(Pile(k)) /\ Cardinality(Pile(k)) = k
  <2> SUFFICES ASSUME NEW k \in Nat  PROVE IsFiniteSet(Pile(k)) /\ Cardinality(Pile(k)) = k
    OBVIOUS
  <2>1. IsFiniteSet({x}) /\ Cardinality({x}) = 1
    BY FS_Singleton
  <2>2. IsFiniteSet(1 .. k) /\ Cardinality(1 .. k) = k
    <3>1. 1 \in Int /\ k \in Int
      OBVIOUS
    <3>2. IsFiniteSet(1 .. k) /\ Cardinality(1 .. k) = IF 1 > k THEN 0 ELSE k - 1 + 1
      BY <3>1, FS_Interval
    <3> QED  BY <3>2
  <2>3. IsFiniteSet({x} \X (1 .. k)) /\ Cardinality({x} \X (1 .. k)) = Cardinality({x}) * Cardinality(1 .. k)
    BY <2>1, <2>2, FS_Product
  <2> QED  BY <2>1, <2>2, <2>3
<1>2. Cells(n) = Rest \cup Pile(n[x])
  BY DEF Cells
<1>3. Cells(m) = Rest \cup Pile(m[x])
  <2>1. \A p : p \in Cells(m) <=> \E y \in S : p \in {y} \X (1 .. m[y])
    BY CellsIn
  <2>2. \A p : p \in Rest <=> \E y \in S : y # x /\ p \in {y} \X (1 .. n[y])
    OBVIOUS
  <2>3. \A p : p \in Cells(m) <=> p \in Rest \/ p \in Pile(m[x])
    BY <2>1, <2>2
  <2> QED  BY <2>3
<1>4. Rest \cap Pile(n[x]) = {} /\ Rest \cap Pile(m[x]) = {}
  OBVIOUS
<1>5. IsFiniteSet(Rest) /\ Cardinality(Rest) \in Nat
  <2>1. Rest \in SUBSET Cells(n)
    BY <1>2
  <2> QED  BY <2>1, FS_Subset, FS_CardinalityType
<1>6. n[x] \in Nat /\ m[x] \in Nat
  OBVIOUS
<1> HIDE DEF Rest, Pile
<1>7. \A k \in Nat : Rest \cap Pile(k) = {} =>
        /\ IsFiniteSet(Rest \cup Pile(k))
        /\ Cardinality(Rest \cup Pile(k)) = Cardinality(Rest) + k
  <2> SUFFICES ASSUME NEW k \in Nat, Rest \cap Pile(k) = {}
               PROVE  /\ IsFiniteSet(Rest \cup Pile(k))
                      /\ Cardinality(Rest \cup Pile(k)) = Cardinality(Rest) + k
    OBVIOUS
  <2>1. /\ IsFiniteSet(Rest \cup Pile(k))
        /\ Cardinality(Rest \cup Pile(k)) = Cardinality(Rest) + Cardinality(Pile(k)) - Cardinality(Rest \cap Pile(k))
    BY <1>1, <1>5, FS_Union
  <2>2. Cardinality(Rest \cap Pile(k)) = 0
    BY FS_EmptySet
  <2> QED  BY <1>1, <1>5, <2>1, <2>2
<1>8. Total(n) = Cardinality(Rest) + n[x]
  BY <1>2, <1>4, <1>6, <1>7 DEF Total
<1>9. IsFiniteSet(Cells(m)) /\ Total(m) = Cardinality(Rest) + m[x]
  BY <1>3, <1>4, <1>6, <1>7 DEF Total
<1> QED  BY <1>5, <1>6, <1>8, <1>9

\* A sum of nothing.
LEMMA TotalZero ==
  ASSUME NEW S, NEW n \in [S -> Nat], \A x \in S : n[x] = 0
  PROVE  IsFiniteSet(Cells(n)) /\ Total(n) = 0
<1>1. Cells(n) = {}
  <2>1. 1 .. 0 = {}
    OBVIOUS
  <2>2. \A x \in S : 1 .. n[x] = {}
    BY <2>1
  <2>3. ASSUME NEW p \in Cells(n)  PROVE FALSE
    <3>1. PICK x \in S : p \in {x} \X (1 .. n[x])
      BY CellsIn
    <3> QED  BY <2>2, <3>1
  <2> QED  BY <2>3
<1> QED  BY <1>1, FS_EmptySet DEF Total

\* Counting in a sequence, and in one that grew.
LEMMA OccursAppend ==
  ASSUME NEW S, NEW s \in Seq(S), NEW x \in S, NEW y
  PROVE  /\ Occurs(y, s) \in Nat
         /\ Occurs(y, Append(s, x)) = IF x = y THEN Occurs(y, s) + 1 ELSE Occurs(y, s)
<1> DEFINE t  == Append(s, x)
           at == {n \in DOMAIN s : s[n] = y}
<1>1. /\ Len(t) = Len(s) + 1 /\ t[Len(s) + 1] = x /\ \A n \in 1 .. Len(s) : t[n] = s[n]
      /\ t \in Seq(S)
  BY AppendProperties
<1>2. DOMAIN s = 1 .. Len(s) /\ DOMAIN t = 1 .. Len(s) + 1 /\ Len(s) \in Nat
  BY <1>1, LenProperties
<1>3. IsFiniteSet(at) /\ Cardinality(at) \in Nat
  <2>1. IsFiniteSet(1 .. Len(s)) /\ at \in SUBSET (1 .. Len(s))
    BY <1>2, FS_Interval
  <2> QED  BY <2>1, FS_Subset, FS_CardinalityType
<1> HIDE DEF t
<1>4. Len(s) + 1 \notin at
  BY <1>2
<1>5. {n \in DOMAIN t : t[n] = y} = IF x = y THEN at \cup {Len(s) + 1} ELSE at
  BY <1>1, <1>2
<1> HIDE DEF at
<1>6. Cardinality(at \cup {Len(s) + 1}) = Cardinality(at) + 1
  BY <1>3, <1>4, FS_AddElement
<1>7. Occurs(y, t) = IF x = y THEN Cardinality(at) + 1 ELSE Cardinality(at)
  BY <1>5, <1>6 DEF Occurs
<1>8. Occurs(y, s) = Cardinality(at)
  BY DEF Occurs, at
<1> QED  BY <1>3, <1>7, <1>8 DEF t

\* The same, as a sum.
LEMMA OccursWith ==
  ASSUME NEW S, NEW s \in Seq(S), NEW x \in S, NEW y
  PROVE  Occurs(y, s) \in Nat /\ Occurs(y, Append(s, x)) = Occurs(y, s) + Bit(x = y)
<1>1. /\ Occurs(y, s) \in Nat
      /\ Occurs(y, Append(s, x)) = IF x = y THEN Occurs(y, s) + 1 ELSE Occurs(y, s)
  BY OccursAppend
<1>2. CASE x = y
  <2>1. Bit(x = y) = 1
    BY <1>2 DEF Bit
  <2> QED  BY <1>1, <1>2, <2>1
<1>3. CASE x # y
  <2>1. Bit(x = y) = 0
    BY <1>3 DEF Bit
  <2> QED  BY <1>1, <1>3, <2>1
<1> QED  BY <1>2, <1>3

\* An item in a sequence that holds each once occurs once.
LEMMA OccursOnce ==
  ASSUME NEW S, NEW s \in Seq(S), Once(s), NEW x \in ToSet(s)
  PROVE  Occurs(x, s) = 1
<1>1. PICK n \in DOMAIN s : s[n] = x
  BY DEF ToSet
<1>2. {k \in DOMAIN s : s[k] = x} = {n}
  BY <1>1 DEF Once
<1> QED  BY <1>2, FS_Singleton DEF Occurs

\* Counting in a sequence of one, and in one without its first.
LEMMA OccursOne ==
  ASSUME NEW x, NEW y
  PROVE  Occurs(y, <<>>) = 0 /\ Occurs(y, <<x>>) = Bit(x = y)
<1>1. {n \in DOMAIN <<>> : <<>>[n] = y} = {}
  OBVIOUS
<1>2. {n \in DOMAIN <<x>> : <<x>>[n] = y} = IF x = y THEN {1} ELSE {}
  OBVIOUS
<1>3. Cardinality({}) = 0 /\ Cardinality({1}) = 1
  BY FS_EmptySet, FS_Singleton
<1> QED  BY <1>1, <1>2, <1>3 DEF Occurs, Bit

LEMMA OccursTail ==
  ASSUME NEW S, NEW s \in Seq(S), s # <<>>, NEW y
  PROVE  /\ Occurs(y, Tail(s)) \in Nat
         /\ Occurs(y, s) = Occurs(y, Tail(s)) + Bit(Head(s) = y)
<1> DEFINE t    == Tail(s)
           in   == {n \in DOMAIN t : t[n] = y}
           rest == {n \in DOMAIN s : n # 1 /\ s[n] = y}
           q    == [n \in in |-> n + 1]
<1>1. t \in Seq(S) /\ Len(t) = Len(s) - 1 /\ \A n \in 1 .. Len(t) : t[n] = s[n + 1]
  BY HeadTailProperties
<1>2. /\ DOMAIN s = 1 .. Len(s) /\ DOMAIN t = 1 .. Len(t) /\ Len(s) \in Nat \ {0}
      /\ Len(t) \in Nat /\ Head(s) = s[1]
  BY <1>1, LenProperties, EmptySeq
<1> HIDE DEF t
<1>3. IsFiniteSet(in) /\ Cardinality(in) \in Nat
  <2>1. IsFiniteSet(1 .. Len(t)) /\ in \in SUBSET (1 .. Len(t))
    BY <1>2, FS_Interval
  <2> QED  BY <2>1, FS_Subset, FS_CardinalityType
<1>4. \A n \in in : n + 1 \in rest
  BY <1>1, <1>2
<1>5. \A n \in rest : n - 1 \in in /\ (n - 1) + 1 = n
  BY <1>1, <1>2
<1>6. \A m, n \in in : m + 1 = n + 1 => m = n
  BY <1>2
<1> HIDE DEF in, rest
<1>7. q \in Bijection(in, rest)
  BY <1>4, <1>5, <1>6 DEF Bijection, Injection, Surjection, IsInjective
<1>8. IsFiniteSet(rest) /\ Cardinality(rest) = Cardinality(in)
  <2>1. ExistsBijection(in, rest)
    BY <1>7 DEF ExistsBijection
  <2> QED  BY <1>3, <2>1, FS_Bijection
<1>9. {n \in DOMAIN s : s[n] = y} = IF Head(s) = y THEN rest \cup {1} ELSE rest
  BY <1>2 DEF rest
<1>10. 1 \notin rest
  BY DEF rest
<1>11. Cardinality(rest \cup {1}) = Cardinality(rest) + 1
  BY <1>8, <1>10, FS_AddElement
<1>12. Occurs(y, t) = Cardinality(in)
  BY DEF Occurs, in
<1>13. Occurs(y, s) = Cardinality(rest) + Bit(Head(s) = y)
  <2>1. Cardinality(rest) \in Nat
    BY <1>3, <1>8
  <2>2. CASE Head(s) = y
    BY <1>9, <1>11, <2>2 DEF Occurs, Bit
  <2>3. CASE Head(s) # y
    <3>1. Occurs(y, s) = Cardinality(rest) /\ Bit(Head(s) = y) = 0
      BY <1>9, <2>3 DEF Occurs, Bit
    <3> QED  BY <2>1, <3>1
  <2> QED  BY <2>2, <2>3
<1> QED  BY <1>3, <1>8, <1>12, <1>13 DEF t

\* A sum over finitely many terms is of finitely many cells.
LEMMA TotalType ==
  ASSUME NEW S, IsFiniteSet(S), NEW n \in [S -> Nat]
  PROVE  IsFiniteSet(Cells(n)) /\ Total(n) \in Nat
<1> DEFINE T == {{x} \X (1 .. n[x]) : x \in S}
           p == [x \in S |-> {x} \X (1 .. n[x])]
<1>1. p \in Surjection(S, T)
  BY DEF Surjection
<1>2. IsFiniteSet(T)
  <2> HIDE DEF T, p
  <2> QED  BY <1>1, FS_Surjection
<1>3. \A t \in T : IsFiniteSet(t)
  <2> SUFFICES ASSUME NEW x \in S  PROVE IsFiniteSet({x} \X (1 .. n[x]))
    OBVIOUS
  <2>1. IsFiniteSet({x})
    BY FS_Singleton
  <2>2. IsFiniteSet(1 .. n[x])
    <3>1. 1 \in Int /\ n[x] \in Int
      OBVIOUS
    <3> QED  BY <3>1, FS_Interval
  <2> QED  BY <2>1, <2>2, FS_Product
<1>4. Cells(n) = UNION T
  BY DEF Cells
<1> HIDE DEF T
<1>5. IsFiniteSet(Cells(n))
  BY <1>2, <1>3, <1>4, FS_UNION
<1> QED  BY <1>5, FS_CardinalityType DEF Total

\* p takes each term of n to its place in m.
Reorders(p, n, m) == \A x \in DOMAIN n : m[p[x]] = n[x]

\* A sum does not depend on the order of its terms.
LEMMA TotalShuffled ==
  ASSUME NEW S, IsFiniteSet(S), NEW p \in Bijection(S, S)
  PROVE  \A n, m \in [S -> Nat] : Reorders(p, n, m) => Total(m) = Total(n)
<1> SUFFICES ASSUME NEW n \in [S -> Nat], NEW m \in [S -> Nat], \A x \in S : m[p[x]] = n[x]
             PROVE  Total(m) = Total(n)
  BY DEF Reorders
<1>0. /\ p \in [S -> S] /\ \A x, y \in S : p[x] = p[y] => x = y
      /\ \A y \in S : \E x \in S : p[x] = y
  BY DEF Bijection, Injection, Surjection, IsInjective
<1> DEFINE q == [c \in Cells(n) |-> <<p[c[1]], c[2]>>]
<1>1. \A c \in Cells(n) : c = <<c[1], c[2]>> /\ c[1] \in S /\ c[2] \in 1 .. n[c[1]]
  <2> SUFFICES ASSUME NEW c \in Cells(n)  PROVE c = <<c[1], c[2]>> /\ c[1] \in S /\ c[2] \in 1 .. n[c[1]]
    OBVIOUS
  <2>1. PICK x \in S : c \in {x} \X (1 .. n[x])
    BY CellsIn
  <2> QED  BY <2>1
<1>2. \A c \in Cells(n) : q[c] \in Cells(m)
  <2> SUFFICES ASSUME NEW c \in Cells(n)  PROVE <<p[c[1]], c[2]>> \in Cells(m)
    OBVIOUS
  <2>1. p[c[1]] \in S /\ c[2] \in 1 .. m[p[c[1]]]
    BY <1>0, <1>1
  <2>2. <<p[c[1]], c[2]>> \in {p[c[1]]} \X (1 .. m[p[c[1]]])
    BY <2>1
  <2> QED  BY <2>1, <2>2, CellsIn
<1>3. \A c, d \in Cells(n) : q[c] = q[d] => c = d
  <2> SUFFICES ASSUME NEW c \in Cells(n), NEW d \in Cells(n), <<p[c[1]], c[2]>> = <<p[d[1]], d[2]>>
               PROVE  c = d
    OBVIOUS
  <2>1. c[1] = d[1] /\ c[2] = d[2]
    BY <1>0, <1>1
  <2> QED  BY <1>1, <2>1
<1>4. \A e \in Cells(m) : \E c \in Cells(n) : q[c] = e
  <2> SUFFICES ASSUME NEW e \in Cells(m)  PROVE \E c \in Cells(n) : q[c] = e
    OBVIOUS
  <2>1. PICK y \in S : e \in {y} \X (1 .. m[y])
    BY CellsIn
  <2>2. PICK x \in S : p[x] = y
    BY <1>0
  <2>3. PICK k \in 1 .. m[y] : e = <<y, k>>
    BY <2>1
  <2>4. k \in 1 .. n[x]
    BY <2>2, <2>3
  <2>5. <<x, k>> \in {x} \X (1 .. n[x])
    BY <2>4
  <2>6. <<x, k>> \in Cells(n)
    BY <2>5, CellsIn
  <2> QED  BY <2>2, <2>3, <2>6
<1>5. q \in Bijection(Cells(n), Cells(m))
  <2>1. q \in [Cells(n) -> Cells(m)]
    BY <1>2
  <2> QED  BY <1>3, <1>4, <2>1 DEF Bijection, Injection, Surjection, IsInjective
<1>6. IsFiniteSet(Cells(n))
  BY TotalType
<1> HIDE DEF q
<1>7. Cardinality(Cells(m)) = Cardinality(Cells(n))
  BY <1>5, <1>6, FS_Bijection DEF ExistsBijection
<1> QED  BY <1>7 DEF Total

\* An element at either end adds its weight to the sequence's.
LEMMA WeightWith ==
  ASSUME NEW S, NEW w \in [S -> Nat], NEW s \in Seq(S), NEW x \in S
  PROVE  /\ Weight(s, w) \in Nat /\ w[x] \in Nat
         /\ Weight(Append(s, x), w) = Weight(s, w) + w[x]
         /\ Weight(<<x>> \o s, w) = Weight(s, w) + w[x]
<1> DEFINE t == Append(s, x)
           u == <<x>> \o s
           N == Len(s) + 1
<1>0. Len(s) \in Nat /\ DOMAIN s = 1 .. Len(s) /\ \A k \in 1 .. Len(s) : s[k] \in S
  BY LenProperties, ElementOfSeq
<1>1. /\ t \in Seq(S) /\ DOMAIN t = 1 .. N /\ t[N] = x
      /\ \A k \in 1 .. Len(s) : t[k] = s[k]
  BY <1>0, AppendProperties, LenProperties
<1>2. /\ u \in Seq(S) /\ DOMAIN u = 1 .. N /\ u[1] = x
      /\ \A k \in 1 .. Len(s) : u[k + 1] = s[k]
  <2>1. <<x>> \in Seq(S) /\ Len(<<x>>) = 1 /\ <<x>>[1] = x
    OBVIOUS
  <2>2. u \in Seq(S) /\ Len(u) = 1 + Len(s)
        /\ \A k \in 1 .. Len(u) : u[k] = IF k <= 1 THEN <<x>>[k] ELSE s[k - 1]
    BY <2>1, ConcatProperties
  <2>3. DOMAIN u = 1 .. N
    BY <1>0, <2>2, LenProperties
  <2> HIDE DEF u
  <2> QED  BY <1>0, <2>1, <2>2, <2>3
<1> HIDE DEF t, u
<1>3. \A k \in 1 .. N : t[k] \in S /\ u[k] \in S
  BY <1>0, <1>1, <1>2, ElementOfSeq
<1> DEFINE ns == [k \in DOMAIN s |-> w[s[k]]]
           nt == [k \in DOMAIN t |-> w[t[k]]]
           nu == [k \in DOMAIN u |-> w[u[k]]]
           n0 == [k \in 1 .. N |-> IF k = N THEN 0 ELSE w[s[k]]]
<1>4. /\ ns \in [1 .. Len(s) -> Nat] /\ nt \in [1 .. N -> Nat] /\ nu \in [1 .. N -> Nat]
      /\ n0 \in [1 .. N -> Nat]
  BY <1>0, <1>1, <1>2, <1>3
<1>5. IsFiniteSet(1 .. Len(s)) /\ IsFiniteSet(1 .. N)
  <2>1. 1 \in Int /\ Len(s) \in Int /\ N \in Int
    BY <1>0
  <2> QED  BY <2>1, FS_Interval
<1>6. Weight(s, w) = Total(ns) /\ Weight(t, w) = Total(nt) /\ Weight(u, w) = Total(nu)
  BY DEF Weight
<1>7. Total(n0) = Total(ns)
  <2>1. Cells(n0) = Cells(ns)
    <3>1. \A p : p \in Cells(n0) <=> \E k \in 1 .. N : p \in {k} \X (1 .. n0[k])
      BY <1>4, CellsIn
    <3>2. \A p : p \in Cells(ns) <=> \E k \in 1 .. Len(s) : p \in {k} \X (1 .. ns[k])
      BY <1>4, CellsIn
    <3>3. 1 .. n0[N] = {} /\ \A k \in 1 .. Len(s) : k \in 1 .. N /\ n0[k] = ns[k]
      BY <1>0
    <3>4. \A k \in 1 .. N : k = N \/ k \in 1 .. Len(s)
      BY <1>0
    <3> HIDE DEF n0, ns, N
    <3> QED  BY <3>1, <3>2, <3>3, <3>4
  <2> QED  BY <2>1 DEF Total
<1>8. Total(nt) = Total(ns) + w[x]
  <2>1. N \in 1 .. N /\ n0[N] = 0 /\ nt[N] = w[x] /\ \A k \in 1 .. N : k # N => nt[k] = n0[k]
    BY <1>0, <1>1
  <2>2. IsFiniteSet(Cells(n0)) /\ Total(n0) \in Nat
    BY <1>4, <1>5, TotalType
  <2>3. Total(nt) \in Nat
    BY <1>4, <1>5, TotalType
  <2> DEFINE D == 1 .. N
  <2>4. n0 \in [D -> Nat] /\ nt \in [D -> Nat] /\ N \in D /\ \A k \in D : k # N => nt[k] = n0[k]
    BY <1>4, <2>1
  <2> HIDE DEF n0, nt, ns, N, D
  <2>5. Total(nt) + n0[N] = Total(n0) + nt[N]
    <3>1. \A n, m \in [D -> Nat] : \A y \in D :
            IsFiniteSet(Cells(n)) /\ (\A k \in D : k # y => m[k] = n[k]) => Total(m) + n[y] = Total(n) + m[y]
      BY ONLY TotalExcept
    <3> QED  BY ONLY <2>2, <2>4, <3>1
  <2> QED  BY <1>7, <2>1, <2>2, <2>3, <2>5, <1>0
<1>9. Total(nu) = Total(nt)
  <2> DEFINE p == [k \in 1 .. N |-> IF k = N THEN 1 ELSE k + 1]
  <2>1. p \in [1 .. N -> 1 .. N] /\ \A j, k \in 1 .. N : p[j] = p[k] => j = k
    BY <1>0
  <2>2. \A k \in 1 .. N : \E j \in 1 .. N : p[j] = k
    <3> SUFFICES ASSUME NEW k \in 1 .. N  PROVE \E j \in 1 .. N : p[j] = k
      OBVIOUS
    <3>1. CASE k = 1
      BY <1>0, <3>1
    <3>2. CASE k # 1
      <4>1. k - 1 \in 1 .. N /\ p[k - 1] = k
        BY <1>0, <3>2
      <4> QED  BY <4>1
    <3> QED  BY <3>1, <3>2
  <2>3. \A k \in 1 .. N : nu[p[k]] = nt[k]
    <3> SUFFICES ASSUME NEW k \in 1 .. N  PROVE nu[p[k]] = nt[k]
      OBVIOUS
    <3>1. CASE k = N
      BY <1>0, <1>1, <1>2, <3>1
    <3>2. CASE k # N
      <4>1. k \in 1 .. Len(s) /\ p[k] = k + 1 /\ k + 1 \in 1 .. N
        BY <1>0, <3>2
      <4> QED  BY <4>1, <1>1, <1>2
    <3> QED  BY <3>1, <3>2
  <2> DEFINE D == 1 .. N
  <2>4. nu \in [D -> Nat] /\ nt \in [D -> Nat] /\ Reorders(p, nt, nu)
    BY <1>4, <2>3 DEF Reorders
  <2> HIDE DEF p, nu, nt, N
  <2>5. p \in Bijection(D, D)
    BY <2>1, <2>2 DEF Bijection, Injection, Surjection, IsInjective
  <2> HIDE DEF D
  <2>6. IsFiniteSet(D)
    BY <1>5 DEF D
  <2> QED  BY ONLY <2>4, <2>5, <2>6, TotalShuffled
<1>10. Total(ns) \in Nat
  BY <1>4, <1>5, TotalType
<1> HIDE DEF ns, nt, nu
<1> QED  BY <1>0, <1>6, <1>8, <1>9, <1>10 DEF t, u

\* Nothing weighs nothing.
LEMMA WeightEmpty ==
  ASSUME NEW w
  PROVE  Weight(<<>>, w) = 0
<1> DEFINE z == [n \in DOMAIN <<>> |-> w[<<>>[n]]]
<1>1. z \in [{} -> Nat] /\ \A x \in {} : z[x] = 0
  OBVIOUS
<1> HIDE DEF z
<1>2. Total(z) = 0
  BY <1>1, TotalZero
<1> QED  BY <1>2 DEF Weight, z

\* The first element takes its weight with it.
LEMMA WeightTail ==
  ASSUME NEW S, NEW w \in [S -> Nat], NEW s \in Seq(S), s # <<>>
  PROVE  /\ Weight(Tail(s), w) \in Nat /\ Weight(s, w) \in Nat /\ w[Head(s)] \in Nat
         /\ Weight(s, w) = Weight(Tail(s), w) + w[Head(s)]
<1>1. Head(s) \in S /\ Tail(s) \in Seq(S) /\ s = <<Head(s)>> \o Tail(s)
  BY HeadTailProperties
<1> DEFINE h == Head(s)
           t == Tail(s)
           u == <<h>> \o t
<1>2. Weight(t, w) \in Nat /\ w[h] \in Nat /\ Weight(u, w) = Weight(t, w) + w[h]
  BY <1>1, WeightWith
<1>3. s = u
  BY <1>1
<1> HIDE DEF u
<1>4. Weight(s, w) = Weight(t, w) + w[h]
  BY <1>2, <1>3
<1> QED  BY <1>2, <1>4

\* The size of a set with one element at most.
LEMMA AtMostOne ==
  ASSUME NEW S, \A x, y \in S : x = y
  PROVE  Cardinality(S) = Bit(S # {})
<1>1. CASE S = {}
  BY <1>1, FS_EmptySet DEF Bit
<1>2. CASE S # {}
  <2>1. PICK x \in S : S = {x}
    BY <1>2
  <2> QED  BY <1>2, <2>1, FS_Singleton DEF Bit
<1> QED  BY <1>1, <1>2

\* In a sequence without repetitions an item occurs once or not at all.
LEMMA OccursBit ==
  ASSUME NEW s, Once(s), NEW x
  PROVE  Occurs(x, s) = Bit(x \in ToSet(s))
<1> DEFINE at == {n \in DOMAIN s : s[n] = x}
<1>1. \A m, n \in at : m = n
  BY DEF Once
<1>2. at # {} <=> x \in ToSet(s)
  BY DEF ToSet
<1>3. Occurs(x, s) = Cardinality(at)
  BY DEF Occurs
<1> HIDE DEF at
<1> QED  BY <1>1, <1>2, <1>3, AtMostOne DEF Bit

\* A sum of which one term at most is one, and the others nothing.
LEMMA TotalBit ==
  ASSUME NEW S, NEW n \in [S -> Nat], \A x \in S : n[x] \in {0, 1},
         \A x, y \in S : n[x] = 1 /\ n[y] = 1 => x = y
  PROVE  Total(n) = Bit(\E x \in S : n[x] = 1)
<1>1. \A c \in Cells(n) : \E x \in S : c = <<x, 1>> /\ n[x] = 1
  <2> SUFFICES ASSUME NEW c \in Cells(n)  PROVE \E x \in S : c = <<x, 1>> /\ n[x] = 1
    OBVIOUS
  <2>1. PICK x \in S : c \in {x} \X (1 .. n[x])
    BY CellsIn
  <2>2. PICK k \in 1 .. n[x] : c = <<x, k>>
    BY <2>1
  <2>3. n[x] = 1 /\ k = 1
    BY <2>2
  <2> QED  BY <2>2, <2>3
<1>2. \A c, d \in Cells(n) : c = d
  BY <1>1
<1>3. Cells(n) # {} <=> \E x \in S : n[x] = 1
  <2>1. ASSUME NEW x \in S, n[x] = 1  PROVE Cells(n) # {}
    <3>1. <<x, 1>> \in {x} \X (1 .. n[x])
      BY <2>1
    <3> QED  BY <3>1, CellsIn
  <2> QED  BY <1>1, <2>1
<1>4. Cardinality(Cells(n)) = Bit(Cells(n) # {})
  BY <1>2, AtMostOne
<1> QED  BY <1>3, <1>4 DEF Total, Bit

\* A sum is no less than each of its terms.
LEMMA TotalAtLeast ==
  ASSUME NEW S, NEW n \in [S -> Nat], IsFiniteSet(Cells(n)), NEW x \in S
  PROVE  Total(n) \in Nat /\ n[x] \in Nat /\ n[x] <= Total(n)
<1> DEFINE m == [n EXCEPT ![x] = 0]
<1>1. m \in [S -> Nat] /\ m[x] = 0 /\ \A y \in S : y # x => m[y] = n[y]
  OBVIOUS
<1> HIDE DEF m
<1>2. IsFiniteSet(Cells(m)) /\ Total(m) + n[x] = Total(n) + m[x]
  BY <1>1, TotalExcept
<1>3. Total(n) \in Nat /\ Total(m) \in Nat
  BY <1>2, FS_CardinalityType DEF Total
<1> QED  BY <1>1, <1>2, <1>3

\* What does not occur in a sequence is not one of its items.
LEMMA OccursNone ==
  ASSUME NEW S, NEW s \in Seq(S), NEW x
  PROVE  Occurs(x, s) \in Nat /\ (Occurs(x, s) = 0 <=> x \notin ToSet(s))
<1> DEFINE at == {n \in DOMAIN s : s[n] = x}
<1>1. IsFiniteSet(at)
  <2>1. Len(s) \in Nat /\ DOMAIN s = 1 .. Len(s)
    BY LenProperties
  <2>2. IsFiniteSet(1 .. Len(s)) /\ at \in SUBSET (1 .. Len(s))
    BY <2>1, FS_Interval
  <2> QED  BY <2>2, FS_Subset
<1>2. Occurs(x, s) = Cardinality(at)
  BY DEF Occurs
<1>3. at = {} <=> x \notin ToSet(s)
  BY DEF ToSet
<1> HIDE DEF at
<1> QED  BY <1>1, <1>2, <1>3, FS_EmptySet, FS_CardinalityType

\* A sequence cut in two: each part holds its items once, and no item is in both.
LEMMA OnceCut ==
  ASSUME NEW S, NEW s \in Seq(S), NEW k \in 0 .. Len(s)
  PROVE  /\ SubSeq(s, 1, k) \in Seq(S) /\ Len(SubSeq(s, 1, k)) = k
         /\ SubSeq(s, k + 1, Len(s)) \in Seq(S) /\ Len(SubSeq(s, k + 1, Len(s))) = Len(s) - k
         /\ ToSet(SubSeq(s, 1, k)) \cup ToSet(SubSeq(s, k + 1, Len(s))) = ToSet(s)
         /\ Once(s) => /\ Once(SubSeq(s, 1, k)) /\ Once(SubSeq(s, k + 1, Len(s)))
                       /\ ToSet(SubSeq(s, 1, k)) \cap ToSet(SubSeq(s, k + 1, Len(s))) = {}
<1> DEFINE t == SubSeq(s, 1, k)
           u == SubSeq(s, k + 1, Len(s))
<1>1. DOMAIN s = 1 .. Len(s) /\ Len(s) \in Nat /\ k \in Nat /\ k <= Len(s) /\ \A n \in 1 .. Len(s) : s[n] \in S
  BY LenProperties, ElementOfSeq
<1>2. t \in Seq(S) /\ Len(t) = k /\ \A n \in 1 .. k : t[n] = s[n]
  <2>1. 1 \in Int /\ k \in Int /\ \A n \in 1 .. k : s[n] \in S
    BY <1>1
  <2>2. /\ t \in Seq(S) /\ Len(t) = IF 1 <= k THEN k - 1 + 1 ELSE 0
        /\ \A n \in 1 .. k - 1 + 1 : t[n] = s[1 + n - 1]
    BY <2>1, SubSeqProperties
  <2> QED  BY <1>1, <2>2
<1>3. u \in Seq(S) /\ Len(u) = Len(s) - k /\ \A n \in 1 .. Len(s) - k : u[n] = s[k + n]
  <2>1. k + 1 \in Int /\ Len(s) \in Int /\ \A n \in k + 1 .. Len(s) : s[n] \in S
    BY <1>1
  <2>2. /\ u \in Seq(S) /\ Len(u) = IF k + 1 <= Len(s) THEN Len(s) - (k + 1) + 1 ELSE 0
        /\ \A n \in 1 .. Len(s) - (k + 1) + 1 : u[n] = s[k + 1 + n - 1]
    BY <2>1, SubSeqProperties
  <2> HIDE DEF u
  <2>3. Len(u) = Len(s) - k
    <3>1. CASE k + 1 <= Len(s)
      <4>1. Len(u) = Len(s) - (k + 1) + 1
        BY <2>2, <3>1
      <4> QED  BY ONLY <1>1, <4>1
    <3>2. CASE ~ (k + 1 <= Len(s))
      <4>1. Len(u) = 0
        BY <2>2, <3>2
      <4>2. \A a, b \in Nat : a <= b /\ ~ (a + 1 <= b) => a = b /\ b - a = 0
        OBVIOUS
      <4>3. Len(s) - k = 0
        BY <1>1, <3>2, <4>2
      <4> QED  BY ONLY <4>1, <4>3
    <3> QED  BY <3>1, <3>2
  <2>4. \A n \in 1 .. Len(s) - k : n \in 1 .. Len(s) - (k + 1) + 1 /\ k + 1 + n - 1 = k + n
    BY <1>1
  <2>5. \A n \in 1 .. Len(s) - (k + 1) + 1 : u[n] = s[k + 1 + n - 1]
    BY <2>2 DEF u
  <2>6. \A n \in 1 .. Len(s) - k : u[n] = s[k + n]
    BY <2>4, <2>5
  <2> QED  BY <2>2, <2>3, <2>6 DEF u
<1>4. DOMAIN t = 1 .. k /\ DOMAIN u = 1 .. Len(s) - k
  BY <1>2, <1>3, LenProperties
<1> HIDE DEF t, u
<1>5. ToSet(t) \cup ToSet(u) = ToSet(s)
  <2>1. ToSet(t) \subseteq ToSet(s) /\ ToSet(u) \subseteq ToSet(s)
    <3>1. ToSet(t) \subseteq ToSet(s)
      BY <1>1, <1>2, <1>4 DEF ToSet
    <3>2. \A n \in 1 .. Len(s) - k : k + n \in 1 .. Len(s)
      BY <1>1
    <3> QED  BY <1>1, <1>3, <1>4, <3>1, <3>2 DEF ToSet
  <2>2. ASSUME NEW n \in 1 .. Len(s)  PROVE s[n] \in ToSet(t) \cup ToSet(u)
    <3>1. CASE n <= k
      BY <1>1, <1>2, <1>4, <3>1 DEF ToSet
    <3>2. CASE n > k
      <4>1. n - k \in 1 .. Len(s) - k /\ u[n - k] = s[n]
        BY <1>1, <1>3, <3>2
      <4> QED  BY <1>4, <4>1 DEF ToSet
    <3> QED  BY <1>1, <3>1, <3>2
  <2> QED  BY <1>1, <2>1, <2>2 DEF ToSet
<1>6. ASSUME Once(s)  PROVE Once(t) /\ Once(u) /\ ToSet(t) \cap ToSet(u) = {}
  <2>1. Once(t)
    BY <1>1, <1>2, <1>4, <1>6 DEF Once
  <2>2. Once(u)
    <3> SUFFICES ASSUME NEW m \in 1 .. Len(s) - k, NEW n \in 1 .. Len(s) - k, u[m] = u[n]  PROVE m = n
      BY <1>4 DEF Once
    <3>1. k + m \in DOMAIN s /\ k + n \in DOMAIN s /\ s[k + m] = s[k + n]
      BY <1>1, <1>3
    <3> QED  BY <1>1, <1>6, <3>1 DEF Once
  <2>3. ASSUME NEW m \in 1 .. k, NEW n \in 1 .. Len(s) - k  PROVE t[m] # u[n]
    <3>1. m \in DOMAIN s /\ k + n \in DOMAIN s /\ m # k + n
      BY <1>1
    <3>2. s[m] # s[k + n]
      BY <1>6, <3>1 DEF Once
    <3> QED  BY <1>2, <1>3, <3>2
  <2> QED  BY <1>4, <2>1, <2>2, <2>3 DEF ToSet
<1> QED  BY <1>2, <1>3, <1>5, <1>6 DEF t, u

\* A sequence without one of its items.
LEMMA RemoveAtItems ==
  ASSUME NEW S, NEW s \in Seq(S), NEW k \in 1 .. Len(s)
  PROVE  /\ RemoveAt(s, k) \in Seq(S) /\ Len(RemoveAt(s, k)) = Len(s) - 1
         /\ \A n \in 1 .. Len(s) - 1 : RemoveAt(s, k)[n] = IF n < k THEN s[n] ELSE s[n + 1]
<1> DEFINE t == SubSeq(s, 1, k - 1)
           u == SubSeq(s, k + 1, Len(s))
           r == t \o u
<1>1. Len(s) \in Nat /\ k \in Nat /\ 1 <= k /\ k <= Len(s) /\ \A n \in 1 .. Len(s) : s[n] \in S
  BY LenProperties, ElementOfSeq
<1>2. t \in Seq(S) /\ Len(t) = k - 1 /\ \A n \in 1 .. k - 1 : t[n] = s[n]
  <2>1. 1 \in Int /\ k - 1 \in Int /\ \A n \in 1 .. k - 1 : s[n] \in S
    BY <1>1
  <2>2. /\ t \in Seq(S) /\ Len(t) = IF 1 <= k - 1 THEN (k - 1) - 1 + 1 ELSE 0
        /\ \A n \in 1 .. (k - 1) - 1 + 1 : t[n] = s[1 + n - 1]
    BY <2>1, SubSeqProperties
  <2> QED  BY <1>1, <2>2
<1>3. u \in Seq(S) /\ Len(u) = Len(s) - k /\ \A n \in 1 .. Len(s) - k : u[n] = s[k + n]
  <2>1. k + 1 \in Int /\ Len(s) \in Int /\ \A n \in k + 1 .. Len(s) : s[n] \in S
    BY <1>1
  <2>2. /\ u \in Seq(S) /\ Len(u) = IF k + 1 <= Len(s) THEN Len(s) - (k + 1) + 1 ELSE 0
        /\ \A n \in 1 .. Len(s) - (k + 1) + 1 : u[n] = s[k + 1 + n - 1]
    BY <2>1, SubSeqProperties
  <2> QED  BY <1>1, <2>2
<1> HIDE DEF t, u
<1>4. /\ r \in Seq(S) /\ Len(r) = Len(t) + Len(u)
      /\ \A n \in 1 .. Len(t) + Len(u) : r[n] = IF n <= Len(t) THEN t[n] ELSE u[n - Len(t)]
  BY <1>2, <1>3, ConcatProperties
<1> HIDE DEF r
<1>5. Len(r) = Len(s) - 1
  BY <1>1, <1>2, <1>3, <1>4
<1>6. ASSUME NEW n \in 1 .. Len(s) - 1  PROVE r[n] = IF n < k THEN s[n] ELSE s[n + 1]
  <2>1. n \in 1 .. Len(t) + Len(u)
    BY <1>1, <1>2, <1>3
  <2>2. CASE n < k
    <3>1. n \in 1 .. k - 1 /\ n <= Len(t)
      BY <1>1, <1>2, <2>2
    <3> QED  BY <1>2, <1>4, <2>1, <2>2, <3>1
  <2>3. CASE n >= k
    <3>1. ~ (n <= Len(t)) /\ n - Len(t) \in 1 .. Len(s) - k /\ k + (n - Len(t)) = n + 1 /\ ~ (n < k)
      BY <1>1, <1>2, <2>3
    <3> QED  BY <1>3, <1>4, <2>1, <3>1
  <2> QED  BY <1>1, <2>2, <2>3
<1>7. r = RemoveAt(s, k)
  BY DEF RemoveAt, r, t, u
<1> QED  BY <1>4, <1>5, <1>6, <1>7
=============================================================================
