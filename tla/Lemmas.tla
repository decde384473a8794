------------------------------- MODULE Lemmas -------------------------------
(***************************************************************************)
(* Facts about numbers and sequences which the proofs of several modules   *)
(* cite.                                                                   *)
(***************************************************************************)
EXTENDS Integers, Sequences, SequencesExt, Sums, SequenceTheorems,
        FiniteSetTheorems, TLAPS

(***************************************************************************)
(* A nonempty set of naturals has a least element: the initial segments    *)
(* 1..x are finite sets, and strict inclusion is well founded on those.    *)
(***************************************************************************)
LEMMA SmallestExists ==
  ASSUME NEW T \in SUBSET Nat, T # {}
  PROVE  \E x \in T : \A y \in T : x <= y
<1>. DEFINE Segments == {1..x : x \in T}
<1>1. Segments \subseteq FiniteSubsetsOf(Nat)
  BY FS_Interval DEF FiniteSubsetsOf
<1>2. Segments # {}
  OBVIOUS
<1>3. PICK s \in Segments :
        \A t \in Segments : <<t, s>> \notin StrictSubsetOrdering(Nat)
  <2>. HIDE DEF Segments
  <2>. QED BY <1>1, <1>2, FS_StrictSubsetOrderingWellFounded, WFMin
<1>4. PICK x \in T : s = 1..x
  OBVIOUS
<1>5. ASSUME NEW y \in T, y < x PROVE FALSE
  <2>1. /\ 1..y \in SUBSET Nat /\ 1..x \in SUBSET Nat
        /\ (1..y) \subseteq (1..x) /\ x \in 1..x /\ x \notin 1..y
    BY <1>5
  <2>2. <<1..y, s>> \in StrictSubsetOrdering(Nat)
    BY <2>1, <1>4 DEF StrictSubsetOrdering
  <2>. QED BY <1>3, <2>2
<1>. QED BY <1>5

(* A function on 1..n with values in S is a sequence of length n over S.   *)
LEMMA FunctionIsSeq ==
  ASSUME NEW n \in Nat, NEW S, NEW f \in [1..n -> S]
  PROVE  f \in Seq(S) /\ Len(f) = n
OBVIOUS

(* The elements of a concatenation are those of its parts.                 *)
LEMMA ToSetConcat ==
  ASSUME NEW S, NEW s \in Seq(S), NEW t \in Seq(S)
  PROVE  ToSet(s \o t) = ToSet(s) \cup ToSet(t)
<1>1. /\ s \o t \in Seq(S) /\ Len(s \o t) = Len(s) + Len(t)
      /\ \A i \in 1..Len(s) + Len(t) :
           (s \o t)[i] = IF i <= Len(s) THEN s[i] ELSE t[i - Len(s)]
  BY ConcatProperties
<1>2. \A i \in 1..Len(t) : /\ (i + Len(s)) \in 1..Len(s \o t)
                           /\ (s \o t)[i + Len(s)] = t[i]
  BY <1>1
<1>3. ToSet(s \o t) \subseteq ToSet(s) \cup ToSet(t)
  BY <1>1 DEF ToSet
<1>4. \A x \in ToSet(s) : x \in ToSet(s \o t)
  BY <1>1 DEF ToSet
<1>5. ASSUME NEW x \in ToSet(t) PROVE x \in ToSet(s \o t)
  <2>1. PICK i \in 1..Len(t) : x = t[i]
    BY DEF ToSet
  <2>2. i + Len(s) \in DOMAIN (s \o t) /\ x = (s \o t)[i + Len(s)]
    BY <1>1, <1>2, <2>1
  <2>. QED BY <2>2 DEF ToSet
<1>. QED BY <1>3, <1>4, <1>5

(* The elements of an extension.                                           *)
LEMMA ToSetAppend ==
  ASSUME NEW S, NEW s \in Seq(S), NEW e \in S
  PROVE  ToSet(Append(s, e)) = ToSet(s) \cup {e}
<1>1. /\ Append(s, e) \in Seq(S) /\ Len(Append(s, e)) = Len(s) + 1
      /\ \A i \in 1..Len(s) : Append(s, e)[i] = s[i]
      /\ Append(s, e)[Len(s) + 1] = e
  BY AppendProperties
<1>. QED BY <1>1 DEF ToSet

(* The elements of a subsequence are elements of the sequence.             *)
LEMMA ToSetSubSeq ==
  ASSUME NEW S, NEW s \in Seq(S),
         NEW m \in 1..Len(s) + 1, NEW n \in m - 1..Len(s)
  PROVE  /\ SubSeq(s, m, n) \in Seq(S)
         /\ ToSet(SubSeq(s, m, n)) \subseteq ToSet(s)
<1>1. /\ SubSeq(s, m, n) \in Seq(S)
      /\ Len(SubSeq(s, m, n)) = IF m <= n THEN n - m + 1 ELSE 0
      /\ \A i \in 1..n - m + 1 : SubSeq(s, m, n)[i] = s[m + i - 1]
  <2>1. \A i \in m..n : s[i] \in S
    OBVIOUS
  <2>. QED BY <2>1, SubSeqProperties
<1>. QED BY <1>1 DEF ToSet

(* Cutting a sequence in two gives two sequences ...                       *)
LEMMA CutType ==
  ASSUME NEW S, NEW s \in Seq(S), NEW n \in 0..Len(s)
  PROVE  SubSeq(s, 1, n) \in Seq(S) /\ SubSeq(s, n + 1, Len(s)) \in Seq(S)
<1>1. /\ 1 \in 1..Len(s) + 1 /\ n \in 1 - 1..Len(s)
      /\ n + 1 \in 1..Len(s) + 1 /\ Len(s) \in n + 1 - 1..Len(s)
  <2>1. Len(s) \in Nat
    BY LenProperties
  <2>. QED BY <2>1
<1>2. SubSeq(s, 1, n) \in Seq(S)
  BY <1>1, ToSetSubSeq
<1>3. SubSeq(s, n + 1, Len(s)) \in Seq(S)
  BY <1>1, ToSetSubSeq
<1>. QED BY <1>2, <1>3

(* ... and loses no element.                                               *)
LEMMA ToSetSplit ==
  ASSUME NEW S, NEW s \in Seq(S), NEW n \in 0..Len(s)
  PROVE  ToSet(s) = ToSet(SubSeq(s, 1, n)) \cup ToSet(SubSeq(s, n + 1, Len(s)))
<1>1. SubSeq(s, 1, n) \o SubSeq(s, n + 1, Len(s)) = s
  <2>1. 1 \in 1..Len(s) + 1 /\ n \in 1 - 1..Len(s) /\ Len(s) \in n..Len(s)
    BY LenProperties
  <2>2. SubSeq(s, 1, n) \o SubSeq(s, n + 1, Len(s)) = SubSeq(s, 1, Len(s))
    BY <2>1, ConcatAdjacentSubSeq
  <2>. QED BY <2>2, SubSeqFull
<1>2. SubSeq(s, 1, n) \in Seq(S) /\ SubSeq(s, n + 1, Len(s)) \in Seq(S)
  BY CutType
<1>. DEFINE front == SubSeq(s, 1, n)
            back  == SubSeq(s, n + 1, Len(s))
<1>3. ToSet(front \o back) = ToSet(front) \cup ToSet(back)
  <2>. HIDE DEF front, back
  <2>1. front \in Seq(S) /\ back \in Seq(S)
    BY <1>2 DEF front, back
  <2>. QED BY <2>1, ToSetConcat
<1>. QED BY <1>1, <1>3

(* A nonempty sequence has its head among its elements, and its tail too.  *)
LEMMA NonEmptySeq ==
  ASSUME NEW S, NEW s \in Seq(S), s # <<>>
  PROVE  /\ Head(s) \in S /\ Tail(s) \in Seq(S) /\ Len(Tail(s)) = Len(s) - 1
         /\ Head(s) \in ToSet(s) /\ ToSet(Tail(s)) \subseteq ToSet(s)
         /\ ToSet(s) \subseteq {Head(s)} \cup ToSet(Tail(s))
<1>1. /\ Len(s) \in Nat \ {0} /\ Head(s) = s[1]
      /\ Tail(s) \in Seq(S) /\ Len(Tail(s)) = Len(s) - 1
      /\ \A i \in 1..Len(s) - 1 : Tail(s)[i] = s[i + 1]
  OBVIOUS
<1>2. \A i \in 2..Len(s) : i - 1 \in 1..Len(s) - 1 /\ s[i] = Tail(s)[i - 1]
  BY <1>1
<1>3. \A i \in 1..Len(s) - 1 : i + 1 \in 1..Len(s)
  BY <1>1
<1>4. \A i \in 1..Len(s) : i = 1 \/ i \in 2..Len(s)
  BY <1>1
<1>5. /\ ToSet(s) = {s[i] : i \in 1..Len(s)}
      /\ ToSet(Tail(s)) = {Tail(s)[i] : i \in 1..Len(s) - 1}
  <2>1. DOMAIN s = 1..Len(s) /\ DOMAIN Tail(s) = 1..Len(s) - 1
    BY <1>1
  <2>. HIDE <1>1
  <2>. QED BY <2>1 DEF ToSet
<1>6. Head(s) \in ToSet(s)
  BY <1>1, <1>5
<1>7. \A x \in ToSet(Tail(s)) : x \in ToSet(s)
  BY <1>1, <1>3, <1>5
<1>8. \A x \in ToSet(s) : x = Head(s) \/ x \in ToSet(Tail(s))
  BY <1>1, <1>2, <1>4, <1>5
<1>. QED BY <1>1, <1>6, <1>7, <1>8

(* The head and the tail of a sequence put together.                       *)
LEMMA ConsSeq ==
  ASSUME NEW S, NEW a \in S, NEW r \in Seq(S)
  PROVE  /\ <<a>> \o r \in Seq(S) /\ <<a>> \o r # <<>>
         /\ Head(<<a>> \o r) = a /\ Tail(<<a>> \o r) = r
OBVIOUS

LEMMA Pair ==
  ASSUME NEW S, NEW a \in S, NEW b \in S
  PROVE  <<a, b>> = <<a>> \o <<b>>
<1>1. /\ <<a, b>> \in Seq(S) /\ Len(<<a, b>>) = 2
      /\ <<a, b>>[1] = a /\ <<a, b>>[2] = b
  OBVIOUS
<1>2. /\ <<a>> \o <<b>> \in Seq(S) /\ Len(<<a>> \o <<b>>) = 2
      /\ (<<a>> \o <<b>>)[1] = a /\ (<<a>> \o <<b>>)[2] = b
  OBVIOUS
<1>3. \A i \in 1..2 : <<a, b>>[i] = (<<a>> \o <<b>>)[i]
  <2>1. 1..2 = {1, 2}
    OBVIOUS
  <2>. QED BY <1>1, <1>2, <2>1
<1>. DEFINE s == <<a, b>>
            t == <<a>> \o <<b>>
<1>4. /\ s \in Seq(S) /\ t \in Seq(S) /\ Len(s) = Len(t)
      /\ \A i \in 1..Len(s) : s[i] = t[i]
  BY <1>1, <1>2, <1>3
<1>5. s = t
  <2>. HIDE DEF s, t
  <2>. QED BY <1>4, SeqEqual
<1>. QED BY <1>5

LEMMA ConsTwo ==
  ASSUME NEW S, NEW a \in S, NEW b \in S, NEW r \in Seq(S)
  PROVE  /\ <<a, b>> \o r # <<>> /\ Head(<<a, b>> \o r) = a
         /\ Tail(<<a, b>> \o r) = <<b>> \o r
<1>1. <<a, b>> = <<a>> \o <<b>>
  BY Pair
<1>2. (<<a>> \o <<b>>) \o r = <<a>> \o (<<b>> \o r)
  <2>1. <<a>> \in Seq(S) /\ <<b>> \in Seq(S)
    OBVIOUS
  <2>. QED BY <2>1, ConcatAssociative
<1>3. <<b>> \o r \in Seq(S)
  BY ConsSeq
<1>. QED BY <1>1, <1>2, <1>3, ConsSeq

LEMMA FromOne ==
  ASSUME NEW n \in Nat, NEW T \in SUBSET (1..n)
  PROVE  T \in SUBSET (0..n)
OBVIOUS

(* Max of a nonempty set of numbers up to n is its largest element ...     *)
LEMMA MaxProperties ==
  ASSUME NEW n \in Nat, NEW T \in SUBSET (0..n), T # {}
  PROVE  Max(T) \in T /\ \A y \in T : y <= Max(T)
<1>. DEFINE D == {n - x : x \in T}
<1>1. D \in SUBSET Nat /\ D # {}
  <2>1. \A x \in T : x \in 0..n
    OBVIOUS
  <2>2. \A x \in T : n - x \in Nat
    BY <2>1
  <2>. QED BY <2>2
<1>2. PICK d \in D : \A e \in D : d <= e
  <2>. HIDE DEF D
  <2>. QED BY <1>1, SmallestExists
<1>3. PICK x \in T : d = n - x
  BY <1>2
<1>4. \A y \in T : x >= y
  <2>1. ASSUME NEW y \in T PROVE x >= y
    <3>1. n - y \in D
      OBVIOUS
    <3>2. n - x <= n - y
      BY <1>2, <1>3, <3>1
    <3>. QED BY <3>2
  <2>. QED BY <2>1
<1>. DEFINE P(x_1) == \A y \in T : x_1 >= y
<1>5. \E z \in T : P(z)
  BY <1>4
<1>6. (CHOOSE z \in T : P(z)) \in T /\ P(CHOOSE z \in T : P(z))
  <2>. HIDE DEF P
  <2>. QED BY <1>5
<1>. QED BY <1>6 DEF Max

(* ... and whatever is that is Max.                                        *)
LEMMA MaxIs ==
  ASSUME NEW n \in Nat, NEW T \in SUBSET (0..n), NEW x \in T, \A y \in T : y <= x
  PROVE  Max(T) = x
<1>1. Max(T) \in T /\ x <= Max(T)
  BY MaxProperties
<1>2. Max(T) <= x
  BY <1>1
<1>3. Max(T) \in 0..n /\ x \in 0..n
  BY <1>1
<1>4. \A y, z \in 0..n : y <= z /\ z <= y => y = z
  OBVIOUS
<1>. QED BY <1>1, <1>2, <1>3, <1>4

(* A set of naturals with 0 and the successor of each of its elements.     *)
LEMMA InductiveSet ==
  ASSUME NEW T \in SUBSET Nat, 0 \in T, \A k \in T : k + 1 \in T
  PROVE  \A k \in Nat : k \in T
<1>. SUFFICES ASSUME Nat \ T # {} PROVE FALSE
  OBVIOUS
<1>0. Nat \ T \in SUBSET Nat
  OBVIOUS
<1>1. PICK x \in Nat \ T : \A y \in Nat \ T : x <= y
  BY <1>0, SmallestExists
<1>2. x # 0 /\ x - 1 \in Nat
  BY <1>1
<1>3. x - 1 \in T
  BY <1>1, <1>2
<1>4. (x - 1) + 1 \in T /\ (x - 1) + 1 = x
  BY <1>3
<1>. QED BY <1>1, <1>4

(* A function on 0..n is given by its first value and a step from each of  *)
(* its values to the next.                                                 *)
Steps(f, n, first, step) ==
  f[0] = first /\ \A j \in 1..n : f[j] = step[j][f[j - 1]]

LEMMA PrefixFunction ==
  ASSUME NEW S, NEW n \in Nat, NEW first \in S, NEW step \in [1..n -> [S -> S]]
  PROVE  \E f \in [0..n -> S] : Steps(f, n, first, step)
<1>. DEFINE Has(k) == \E f \in [0..k -> S] : Steps(f, k, first, step)
            T == {k \in Nat : k <= n => Has(k)}
<1>1. 0 \in T
  <2>. DEFINE g == [i \in 0..0 |-> first]
  <2>1. g \in [0..0 -> S] /\ g[0] = first
    OBVIOUS
  <2>2. Steps(g, 0, first, step)
    <3>. HIDE DEF g
    <3>. QED BY <2>1 DEF Steps
  <2>3. Has(0)
    BY <2>1, <2>2
  <2>. QED BY <2>3
<1>2. ASSUME NEW k \in T PROVE k + 1 \in T
  <2>. SUFFICES ASSUME k + 1 <= n PROVE Has(k + 1)
    <3>. HIDE DEF Has
    <3>. QED OBVIOUS
  <2>0. k \in Nat /\ k <= n /\ k \in 0..k /\ k + 1 \in 1..n
    OBVIOUS
  <2>1. PICK f \in [0..k -> S] : Steps(f, k, first, step)
    BY <2>0
  <2>. DEFINE e == step[k + 1][f[k]]
              g == [i \in 0..k + 1 |-> IF i \in 0..k THEN f[i] ELSE e]
  <2>2. e \in S
    BY <2>0
  <2>. HIDE DEF e
  <2>3. g \in [0..k + 1 -> S]
    BY <2>2
  <2>4. (\A i \in 0..k : g[i] = f[i]) /\ g[k + 1] = e
    BY <2>0
  <2>. HIDE DEF g
  <2>5. ASSUME NEW j \in 1..k + 1 PROVE g[j] = step[j][g[j - 1]]
    <3>1. CASE j \in 1..k
      <4>1. j \in 0..k /\ j - 1 \in 0..k /\ f[j] = step[j][f[j - 1]]
        BY <2>1, <3>1 DEF Steps
      <4>. QED BY <2>4, <4>1
    <3>2. CASE j = k + 1
      <4>1. j - 1 = k
        BY <2>0, <3>2
      <4>. QED BY <2>0, <2>4, <3>2, <4>1 DEF e
    <3>. QED BY <2>0, <3>1, <3>2
  <2>6. g[0] = first
    <3>1. 0 \in 0..k
      BY <2>0
    <3>. QED BY <2>1, <2>4, <3>1 DEF Steps
  <2>. QED BY <2>3, <2>5, <2>6 DEF Steps
<1>3. \A k \in Nat : k \in T
  <2>. HIDE DEF T
  <2>1. T \in SUBSET Nat
    BY DEF T
  <2>. QED BY <1>1, <1>2, <2>1, InductiveSet
<1>. QED BY <1>3

-----------------------------------------------------------------------------
(* Sums: the function its definition describes exists, and is what it says *)
(* for each prefix.                                                        *)

LEMMA SumsAre ==
  ASSUME NEW s \in Seq(Nat)
  PROVE  /\ Sums(s) \in [0..Len(s) -> Nat]
         /\ Sums(s)[0] = 0
         /\ \A j \in 1..Len(s) : Sums(s)[j] = Sums(s)[j - 1] + s[j]
<1>. DEFINE n == Len(s)
            step == [j \in 1..n |-> [m \in Nat |-> m + s[j]]]
            Def(g) == g = [j \in 0..n |-> IF j = 0 THEN 0 ELSE g[j - 1] + s[j]]
<1>1. n \in Nat /\ \A j \in 1..n : s[j] \in Nat
  BY LenProperties, ElementOfSeq
<1>2. step \in [1..n -> [Nat -> Nat]]
  BY <1>1
<1>3. PICK h \in [0..n -> Nat] : h[0] = 0 /\ \A j \in 1..n : h[j] = step[j][h[j - 1]]
  <2>. DEFINE S == Nat
              first == 0
  <2>1. n \in Nat /\ first \in S /\ step \in [1..n -> [S -> S]]
    BY <1>1, <1>2
  <2>2. \E h \in [0..n -> S] : Steps(h, n, first, step)
    <3>. HIDE DEF S, first, step, n
    <3>. QED BY <2>1, PrefixFunction
  <2>. QED BY <2>2 DEF Steps
<1>4. ASSUME NEW j \in 1..n PROVE h[j] = h[j - 1] + s[j]
  <2>1. h[j - 1] \in Nat /\ h[j] = step[j][h[j - 1]]
    <3>1. j - 1 \in 0..n
      BY <1>1
    <3>. QED BY <1>3, <3>1
  <2>2. \A m \in Nat : step[j][m] = m + s[j]
    OBVIOUS
  <2>. HIDE DEF step
  <2>. QED BY <2>1, <2>2
<1>5. Def(h)
  <2>. HIDE DEF step, n
  <2>1. \A j \in 0..n : j # 0 => j \in 1..n
    BY <1>1
  <2>2. \A j \in 0..n : h[j] = IF j = 0 THEN 0 ELSE h[j - 1] + s[j]
    BY <1>3, <1>4, <2>1
  <2>. QED BY <2>2
<1>6. Def(CHOOSE g : Def(g))
  <2>. HIDE DEF Def
  <2>. QED BY <1>5
<1>. DEFINE sum == Sums(s)
<1>7. sum = CHOOSE g : Def(g)
  BY DEF Sums
<1>8. Def(sum)
  BY <1>6, <1>7
<1>. HIDE DEF sum, step, n
<1>9. sum[0] = 0 /\ \A j \in 1..n : sum[j] = sum[j - 1] + s[j]
  <2>1. (\A j \in 1..n : j \in 0..n /\ j # 0) /\ 0 \in 0..n
    BY <1>1
  <2>. QED BY <1>8, <2>1
<1>10. DOMAIN sum = 0..n /\ sum = [j \in DOMAIN sum |-> sum[j]]
  BY <1>8
<1>. DEFINE T == {k \in Nat : k <= n => sum[k] \in Nat}
<1>11. \A k \in Nat : k \in T
  <2>1. 0 \in T
    BY <1>9
  <2>2. ASSUME NEW k \in T PROVE k + 1 \in T
    <3>. SUFFICES ASSUME k + 1 <= n PROVE sum[k + 1] \in Nat
      OBVIOUS
    <3>1. k + 1 \in 1..n /\ (k + 1) - 1 = k /\ sum[k] \in Nat
      BY <1>1
    <3>2. sum[k + 1] = sum[k] + s[k + 1]
      BY <1>9, <3>1
    <3>3. s[k + 1] \in Nat
      BY <1>1, <3>1
    <3>. QED BY ONLY <3>1, <3>2, <3>3
  <2>3. T \in SUBSET Nat
    OBVIOUS
  <2>. HIDE DEF T
  <2>. QED BY <2>1, <2>2, <2>3, InductiveSet
<1>12. \A k \in 0..n : sum[k] \in Nat
  BY <1>1, <1>11
<1>. QED BY <1>9, <1>10, <1>12 DEF sum, n

(* More of them sum up to no less.                                         *)
LEMMA SumsRise ==
  ASSUME NEW s \in Seq(Nat), NEW i \in 0..Len(s), NEW j \in 0..Len(s), i <= j
  PROVE  Sums(s)[i] <= Sums(s)[j]
<1>. DEFINE n == Len(s)
            E == Sums(s)
            T == {k \in Nat : i <= k /\ k <= n => E[i] <= E[k]}
<1>1. n \in Nat /\ i \in Nat /\ j \in Nat /\ i <= j /\ j <= n
  BY LenProperties
<1>2. /\ \A k \in 0..n : E[k] \in Nat
      /\ \A k \in 1..n : E[k] = E[k - 1] + s[k]
      /\ \A k \in 1..n : s[k] \in Nat
  BY SumsAre, ElementOfSeq
<1>. HIDE DEF n, E
<1>3. 0 \in T
  <2>1. i <= 0 => i = 0
    BY <1>1
  <2>2. E[i] <= E[i]
    BY <1>1, <1>2, SMTT(30)
  <2>. QED BY <2>1, <2>2
<1>4. ASSUME NEW k \in T PROVE k + 1 \in T
  <2>. SUFFICES ASSUME i <= k + 1, k + 1 <= n PROVE E[i] <= E[k + 1]
    OBVIOUS
  <2>1. k \in Nat /\ k + 1 \in 1..n /\ (k + 1) - 1 = k /\ k \in 0..n /\ i \in 0..n
    BY <1>1
  <2>2. E[k + 1] = E[k] + s[k + 1]
    BY <1>2, <2>1
  <2>3. CASE i <= k
    <3>1. E[i] <= E[k]
      BY <1>1, <2>1, <2>3
    <3>. QED BY <1>2, <2>1, <2>2, <3>1, SMTT(30)
  <2>4. CASE i = k + 1
    <3>1. E[k + 1] \in Nat
      BY <1>1, <1>2, <2>1
    <3>. QED BY <2>4, <3>1
  <2>. QED BY <1>1, <2>1, <2>3, <2>4
<1>5. \A k \in Nat : k \in T
  <2>1. T \in SUBSET Nat
    OBVIOUS
  <2>. HIDE DEF T
  <2>. QED BY <1>3, <1>4, <2>1, InductiveSet
<1>. QED BY <1>1, <1>5 DEF E

LEMMA TotalNone == Total(<<>>) = 0
<1>. DEFINE s == <<>>
<1>1. s \in Seq(Nat) /\ Len(s) = 0
  OBVIOUS
<1>. HIDE DEF s
<1>2. Sums(s)[0] = 0
  BY <1>1, SumsAre
<1>. QED BY <1>1, <1>2 DEF Total, s

(* One more number adds to the total.                                      *)
LEMMA TotalAppend ==
  ASSUME NEW s \in Seq(Nat), NEW x \in Nat
  PROVE  Total(s) \in Nat /\ Total(Append(s, x)) = Total(s) + x
<1>. DEFINE n == Len(s)
            t == Append(s, x)
            E == Sums(s)
            F == Sums(t)
            T == {k \in Nat : k <= n => F[k] = E[k]}
<1>1. /\ n \in Nat /\ t \in Seq(Nat) /\ Len(t) = n + 1
      /\ t[n + 1] = x /\ \A j \in 1..n : t[j] = s[j]
  BY LenProperties, AppendProperties
<1>2. /\ E[0] = 0 /\ F[0] = 0 /\ E[n] \in Nat
      /\ \A j \in 1..n : E[j] = E[j - 1] + s[j]
      /\ \A j \in 1..n + 1 : F[j] = F[j - 1] + t[j]
  <2>1. E[0] = 0 /\ (\A j \in 1..n : E[j] = E[j - 1] + s[j]) /\ E[n] \in Nat
    <3>1. n \in 0..n
      BY <1>1
    <3>. QED BY <3>1, SumsAre
  <2>2. F[0] = 0 /\ \A j \in 1..Len(t) : F[j] = F[j - 1] + t[j]
    <3>. HIDE DEF t
    <3>. QED BY <1>1, SumsAre
  <2>. QED BY <1>1, <2>1, <2>2
<1>3. Total(s) = E[n] /\ Total(t) = F[n + 1]
  BY <1>1 DEF Total
<1>. HIDE DEF n, t, E, F
<1>4. \A k \in Nat : k \in T
  <2>1. 0 \in T
    BY <1>2
  <2>2. ASSUME NEW k \in T PROVE k + 1 \in T
    <3>. SUFFICES ASSUME k + 1 <= n PROVE F[k + 1] = E[k + 1]
      OBVIOUS
    <3>1. k + 1 \in 1..n /\ k + 1 \in 1..n + 1 /\ (k + 1) - 1 = k /\ F[k] = E[k]
      BY <1>1
    <3>. QED BY <1>1, <1>2, <3>1
  <2>3. T \in SUBSET Nat
    OBVIOUS
  <2>. HIDE DEF T
  <2>. QED BY <2>1, <2>2, <2>3, InductiveSet
<1>5. F[n] = E[n]
  BY <1>1, <1>4, SMTT(30)
<1>6. n + 1 \in 1..n + 1 /\ (n + 1) - 1 = n
  BY <1>1
<1>7. F[n + 1] = E[n] + x
  BY <1>1, <1>2, <1>5, <1>6
<1>. QED BY <1>2, <1>3, <1>7 DEF t

-----------------------------------------------------------------------------
(* FlattenSeq.  The recursive function in its definition exists, because   *)
(* it exists for each of the prefixes, and it is the only one.             *)

(* f[i] is the concatenation of the first i sequences of s. *)
Flattens(s, n, f) ==
  \A i \in 1..n : f[i] = IF i = 1 THEN s[i] ELSE f[i - 1] \o s[i]

(* There are prefixes of every length ...                                  *)
LEMMA FlattensExists ==
  ASSUME NEW S, NEW s \in Seq(Seq(S)), NEW n \in 0..Len(s)
  PROVE  \E f \in [1..n -> Seq(S)] : Flattens(s, n, f)
<1>. DEFINE Has(k) == \E f \in [1..k -> Seq(S)] : Flattens(s, k, f)
            T == {k \in Nat : k <= Len(s) => Has(k)}
<1>1. 0 \in T
  <2>1. [i \in 1..0 |-> <<>>] \in [1..0 -> Seq(S)]
    OBVIOUS
  <2>2. Flattens(s, 0, [i \in 1..0 |-> <<>>])
    BY DEF Flattens
  <2>3. Has(0)
    BY <2>1, <2>2
  <2>. QED BY <2>3
<1>2. ASSUME NEW k \in T PROVE k + 1 \in T
  <2>. SUFFICES ASSUME k + 1 <= Len(s) PROVE Has(k + 1)
    OBVIOUS
  <2>0. k \in Nat /\ Len(s) \in Nat /\ k <= Len(s) /\ k + 1 \in 1..Len(s)
    BY LenProperties
  <2>1. PICK f \in [1..k -> Seq(S)] : Flattens(s, k, f)
    BY <2>0
  <2>. DEFINE e == IF k = 0 THEN s[1] ELSE f[k] \o s[k + 1]
              g == [i \in 1..k + 1 |-> IF i \in 1..k THEN f[i] ELSE e]
  <2>2. e \in Seq(S)
    <3>1. \A i \in 1..Len(s) : s[i] \in Seq(S)
      BY ElementOfSeq
    <3>2. s[k + 1] \in Seq(S)
      BY <2>0, <3>1
    <3>3. CASE k = 0
      BY <3>2, <3>3
    <3>4. CASE k # 0
      <4>1. k \in 1..k
        BY <2>0, <3>4
      <4>2. f[k] \in Seq(S)
        BY <4>1
      <4>. QED BY <3>2, <3>4, <4>2, ConcatProperties
    <3>. QED BY <3>3, <3>4
  <2>. HIDE DEF e
  <2>3. g \in [1..k + 1 -> Seq(S)]
    BY <2>2
  <2>4. \A i \in 1..k : g[i] = f[i]
    BY <2>0
  <2>5. g[k + 1] = e
    BY <2>0
  <2>. HIDE DEF g
  <2>6. ASSUME NEW i \in 1..k + 1
        PROVE  g[i] = IF i = 1 THEN s[i] ELSE g[i - 1] \o s[i]
    <3>1. CASE i \in 1..k
      <4>1. i # 1 => i - 1 \in 1..k
        BY <2>0, <3>1
      <4>2. f[i] = IF i = 1 THEN s[i] ELSE f[i - 1] \o s[i]
        BY <2>1, <3>1 DEF Flattens
      <4>. QED BY <2>4, <3>1, <4>1, <4>2
    <3>2. CASE i = k + 1
      <4>1. k # 0 => k \in 1..k /\ i # 1 /\ i - 1 = k
        BY <2>0, <3>2
      <4>2. k = 0 => i = 1
        BY <3>2
      <4>. QED BY <2>4, <2>5, <3>2, <4>1, <4>2 DEF e
    <3>. QED BY <2>0, <3>1, <3>2
  <2>. QED BY <2>3, <2>6 DEF Flattens
<1>3. \A k \in Nat : k \in T
  <2>. HIDE DEF T
  <2>1. T \in SUBSET Nat
    BY DEF T
  <2>. QED BY <1>1, <1>2, <2>1, InductiveSet
<1>4. n \in Nat /\ n <= Len(s)
  BY LenProperties
<1>. QED BY <1>3, <1>4

(* ... and only one function has them ...                                  *)
LEMMA FlattensUnique ==
  ASSUME NEW s, NEW n \in Nat, NEW f, NEW g, Flattens(s, n, f), Flattens(s, n, g)
  PROVE  \A i \in 1..n : f[i] = g[i]
<1>. DEFINE T == {k \in Nat : k \in 1..n => f[k] = g[k]}
<1>1. 0 \in T
  OBVIOUS
<1>2. ASSUME NEW k \in T PROVE k + 1 \in T
  <2>. SUFFICES ASSUME k + 1 \in 1..n PROVE f[k + 1] = g[k + 1]
    OBVIOUS
  <2>1. /\ f[k + 1] = IF k + 1 = 1 THEN s[k + 1] ELSE f[(k + 1) - 1] \o s[k + 1]
        /\ g[k + 1] = IF k + 1 = 1 THEN s[k + 1] ELSE g[(k + 1) - 1] \o s[k + 1]
    BY DEF Flattens
  <2>2. k \in Nat /\ (k + 1) - 1 = k
    OBVIOUS
  <2>3. k + 1 # 1 => k \in 1..n
    BY <2>2
  <2>. QED BY <2>1, <2>2, <2>3
<1>3. \A k \in Nat : k \in T
  <2>. HIDE DEF T
  <2>1. T \in SUBSET Nat
    BY DEF T
  <2>. QED BY <1>1, <1>2, <2>1, InductiveSet
<1>. QED BY <1>3

(* ... so FlattenSeq is the longest of them ...                            *)
LEMMA FlattenIs ==
  ASSUME NEW S, NEW s \in Seq(Seq(S)), s # <<>>,
         NEW f, Flattens(s, Len(s), f)
  PROVE  FlattenSeq(s) = f[Len(s)]
<1>. DEFINE n == Len(s)
            Def(g) == g = [i \in 1..n |-> IF i = 1 THEN s[i] ELSE g[i - 1] \o s[i]]
<1>1. n \in Nat \ {0} /\ n \in 0..n /\ n \in 1..n
  BY LenProperties, EmptySeq
<1>2. PICK h \in [1..n -> Seq(S)] : Flattens(s, n, h)
  BY <1>1, FlattensExists
<1>3. Def(h)
  BY <1>2 DEF Flattens
<1>4. Def(CHOOSE g : Def(g))
  <2>. HIDE DEF Def
  <2>. QED BY <1>3
<1>. DEFINE flat == CHOOSE g : Def(g)
<1>5. FlattenSeq(s) = flat[n]
  BY <1>1 DEF FlattenSeq
<1>. HIDE DEF flat
<1>6. Def(flat)
  BY <1>4 DEF flat
<1>7. Flattens(s, n, flat)
  BY <1>6 DEF Flattens
<1>. QED BY <1>1, <1>5, <1>7, FlattensUnique

(* ... and a sequence over the same set.                                   *)
LEMMA FlattenType ==
  ASSUME NEW S, NEW s \in Seq(Seq(S))
  PROVE  FlattenSeq(s) \in Seq(S)
<1>1. CASE s = <<>>
  BY <1>1 DEF FlattenSeq
<1>2. CASE s # <<>>
  <2>1. Len(s) \in 0..Len(s) /\ Len(s) \in 1..Len(s)
    BY <1>2, LenProperties, EmptySeq
  <2>2. PICK f \in [1..Len(s) -> Seq(S)] : Flattens(s, Len(s), f)
    BY <2>1, FlattensExists
  <2>3. FlattenSeq(s) = f[Len(s)]
    BY <1>2, <2>2, FlattenIs
  <2>. QED BY <2>1, <2>2, <2>3
<1>. QED BY <1>1, <1>2


(***************************************************************************)
(* When no part has more than one element, the elements of t are those of  *)
(* the first k parts of s, in the order of the parts.                      *)
(***************************************************************************)
Picks(t, s, k) ==
  /\ \A i \in 1..Len(t) : \E a \in 1..k : s[a] = <<t[i]>>
  /\ \A i, j \in 1..Len(t) : i < j =>
       \E a, b \in 1..k : a < b /\ s[a] = <<t[i]>> /\ s[b] = <<t[j]>>
  /\ \A a \in 1..k : s[a] # <<>> => \E i \in 1..Len(t) : s[a] = <<t[i]>>

LEMMA PicksStep ==
  ASSUME NEW S, NEW s \in Seq(Seq(S)), NEW k \in Nat, k + 1 \in 1..Len(s),
         Len(s[k + 1]) <= 1, NEW t \in Seq(S), Picks(t, s, k)
  PROVE  Picks(t \o s[k + 1], s, k + 1)
<1>1. s[k + 1] \in Seq(S) /\ Len(t) \in Nat
  BY ElementOfSeq
<1>2. /\ \A a \in 1..k : a \in 1..k + 1 /\ a < k + 1
      /\ \A a \in 1..k + 1 : a = k + 1 \/ a \in 1..k
      /\ k + 1 \in 1..k + 1
  OBVIOUS
<1>3. CASE s[k + 1] = <<>>
  <2>1. t \o s[k + 1] = t
    BY <1>3
  <2>2. \A i \in 1..Len(t) : \E a \in 1..k + 1 : s[a] = <<t[i]>>
    BY <1>2 DEF Picks
  <2>3. ASSUME NEW i \in 1..Len(t), NEW j \in 1..Len(t), i < j
        PROVE  \E a, b \in 1..k + 1 : a < b /\ s[a] = <<t[i]>> /\ s[b] = <<t[j]>>
    <3>1. PICK a, b \in 1..k : a < b /\ s[a] = <<t[i]>> /\ s[b] = <<t[j]>>
      BY <2>3 DEF Picks
    <3>. QED BY <1>2, <3>1
  <2>4. \A a \in 1..k + 1 : s[a] # <<>> => \E i \in 1..Len(t) : s[a] = <<t[i]>>
    BY <1>2, <1>3 DEF Picks
  <2>. HIDE DEF Picks
  <2>5. Picks(t, s, k + 1)
    BY <2>2, <2>3, <2>4 DEF Picks
  <2>. QED BY <2>1, <2>5
<1>4. CASE s[k + 1] # <<>>
  <2>. DEFINE x == s[k + 1][1]
              u == t \o s[k + 1]
  <2>1. s[k + 1] = <<x>> /\ x \in S
    BY <1>1, <1>4
  <2>2. /\ Len(u) = Len(t) + 1 /\ u[Len(t) + 1] = x
        /\ \A i \in 1..Len(t) : u[i] = t[i]
        /\ \A i \in 1..Len(u) : i = Len(t) + 1 \/ i \in 1..Len(t)
        /\ Len(t) + 1 \in 1..Len(u) /\ \A i \in 1..Len(t) : i \in 1..Len(u)
    <3>1. <<x>> \in Seq(S) /\ Len(<<x>>) = 1 /\ <<x>>[1] = x /\ u = t \o <<x>>
      BY <1>1, <2>1
    <3>. HIDE DEF u, x
    <3>2. /\ Len(u) = Len(t) + 1 /\ u[Len(t) + 1] = x
          /\ \A i \in 1..Len(t) : u[i] = t[i]
      BY <1>1, <3>1
    <3>. QED BY <1>1, <3>2
  <2>. HIDE DEF x, u
  <2>3. ASSUME NEW i \in 1..Len(u) PROVE \E a \in 1..k + 1 : s[a] = <<u[i]>>
    <3>1. CASE i = Len(t) + 1
      BY <1>2, <2>1, <2>2, <3>1
    <3>2. CASE i \in 1..Len(t)
      <4>1. PICK a \in 1..k : s[a] = <<t[i]>>
        BY <3>2 DEF Picks
      <4>. QED BY <1>2, <2>2, <3>2, <4>1
    <3>. QED BY <2>2, <3>1, <3>2
  <2>4. ASSUME NEW i \in 1..Len(u), NEW j \in 1..Len(u), i < j
        PROVE  \E a, b \in 1..k + 1 : a < b /\ s[a] = <<u[i]>> /\ s[b] = <<u[j]>>
    <3>1. i \in 1..Len(t)
      BY <1>1, <2>2, <2>4
    <3>2. CASE j \in 1..Len(t)
      <4>1. PICK a, b \in 1..k : a < b /\ s[a] = <<t[i]>> /\ s[b] = <<t[j]>>
        BY <2>4, <3>1, <3>2 DEF Picks
      <4>. QED BY <1>2, <2>2, <3>1, <3>2, <4>1
    <3>3. CASE j = Len(t) + 1
      <4>1. PICK a \in 1..k : s[a] = <<t[i]>>
        BY <3>1 DEF Picks
      <4>. QED BY <1>2, <2>1, <2>2, <3>1, <3>3, <4>1
    <3>. QED BY <2>2, <3>2, <3>3
  <2>5. ASSUME NEW a \in 1..k + 1, s[a] # <<>>
        PROVE  \E i \in 1..Len(u) : s[a] = <<u[i]>>
    <3>1. CASE a = k + 1
      BY <2>1, <2>2, <3>1
    <3>2. CASE a \in 1..k
      BY <2>2, <2>5, <3>2 DEF Picks
    <3>. QED BY <1>2, <3>1, <3>2
  <2>. QED BY <2>3, <2>4, <2>5 DEF Picks, u
<1>. QED BY <1>3, <1>4

(* FlattenSeq picks the elements of such parts in their order.             *)
LEMMA FlattenPicks ==
  ASSUME NEW S, NEW s \in Seq(Seq(S)), \A a \in 1..Len(s) : Len(s[a]) <= 1
  PROVE  Picks(FlattenSeq(s), s, Len(s))
<1>1. CASE s = <<>>
  <2>1. FlattenSeq(s) = <<>> /\ Len(s) = 0
    BY <1>1 DEF FlattenSeq
  <2>. QED BY <2>1 DEF Picks
<1>2. CASE s # <<>>
  <2>. DEFINE n == Len(s)
  <2>1. n \in Nat /\ n \in 0..n /\ n \in 1..n /\ 1 \in 1..n
    BY <1>2, LenProperties, EmptySeq
  <2>2. PICK f \in [1..n -> Seq(S)] : Flattens(s, n, f)
    BY <2>1, FlattensExists
  <2>3. FlattenSeq(s) = f[n]
    BY <1>2, <2>2, FlattenIs
  <2>. DEFINE T == {k \in Nat : k \in 1..n => Picks(f[k], s, k)}
  <2>. HIDE DEF n
  <2>4. 0 \in T
    OBVIOUS
  <2>5. ASSUME NEW k \in T PROVE k + 1 \in T
    <3>. SUFFICES ASSUME k + 1 \in 1..n PROVE Picks(f[k + 1], s, k + 1)
      OBVIOUS
    <3>1. k \in Nat /\ Len(s[k + 1]) <= 1 /\ k + 1 \in 1..Len(s)
      BY DEF n
    <3>2. CASE k = 0
      <4>0. 1..k = {} /\ 1..Len(<<>>) = {} /\ k + 1 = 1
        BY <3>2
      <4>1. Picks(<<>>, s, k) /\ <<>> \in Seq(S)
        BY <4>0 DEF Picks
      <4>2. Picks(<<>> \o s[k + 1], s, k + 1)
        BY <3>1, <4>1, PicksStep
      <4>3. <<>> \o s[k + 1] = s[k + 1]
        <5>1. s[k + 1] \in Seq(S)
          BY <3>1, ElementOfSeq
        <5>. QED BY <5>1
      <4>4. f[k + 1] = s[k + 1]
        BY <2>2, <4>0 DEF Flattens
      <4>. QED BY <4>2, <4>3, <4>4
    <3>3. CASE k # 0
      <4>1. k \in 1..n /\ f[k] \in Seq(S)
        BY <2>1, <3>1, <3>3
      <4>2. Picks(f[k], s, k)
        BY <4>1
      <4>3. Picks(f[k] \o s[k + 1], s, k + 1)
        BY <3>1, <4>1, <4>2, PicksStep
      <4>4. (k + 1) - 1 = k /\ k + 1 # 1
        BY <3>1, <3>3
      <4>5. f[k + 1] = f[k] \o s[k + 1]
        BY <2>2, <4>4 DEF Flattens
      <4>. QED BY <4>3, <4>5
    <3>. QED BY <3>2, <3>3
  <2>6. \A k \in Nat : k \in T
    <3>. HIDE DEF T
    <3>1. T \in SUBSET Nat
      BY DEF T
    <3>. QED BY <2>4, <2>5, <3>1, InductiveSet
  <2>. QED BY <2>1, <2>3, <2>6 DEF n
<1>. QED BY <1>1, <1>2
-----------------------------------------------------------------------------
(* A set of sequences with the empty one and each extension of its members *)
(* has all of them.                                                        *)
LEMMA AllSequences ==
  ASSUME NEW S, NEW T \in SUBSET Seq(S), <<>> \in T,
         \A s \in T : \A x \in S : Append(s, x) \in T
  PROVE  \A s \in Seq(S) : s \in T
<1>. DEFINE K == {k \in Nat : \A s \in Seq(S) : Len(s) = k => s \in T}
<1>1. 0 \in K
  BY EmptySeq
<1>2. ASSUME NEW k \in K PROVE k + 1 \in K
  <2>. SUFFICES ASSUME NEW s \in Seq(S), Len(s) = k + 1 PROVE s \in T
    OBVIOUS
  <2>1. s # <<>>
    BY EmptySeq
  <2>2. PICK r \in Seq(S), x \in S : s = Append(r, x)
    BY <2>1, SequenceEmptyOrAppend
  <2>3. Len(r) \in Nat /\ Len(s) = Len(r) + 1
    BY <2>2, AppendProperties, LenProperties
  <2>4. Len(r) = k
    BY <2>3
  <2>5. r \in T
    BY <2>4
  <2>. QED BY <2>2, <2>5
<1>3. \A k \in Nat : k \in K
  <2>1. K \in SUBSET Nat
    OBVIOUS
  <2>. HIDE DEF K
  <2>. QED BY <1>1, <1>2, <2>1, InductiveSet
<1>. QED BY <1>3, LenProperties

(* FlattenSeq of an extension, and so of a concatenation.                  *)
LEMMA FlattenAppend ==
  ASSUME NEW S, NEW s \in Seq(Seq(S)), NEW x \in Seq(S)
  PROVE  FlattenSeq(Append(s, x)) = FlattenSeq(s) \o x
<1>. DEFINE t == Append(s, x)
            n == Len(s)
<1>1. /\ t \in Seq(Seq(S)) /\ t # <<>> /\ Len(t) = n + 1 /\ n \in Nat
      /\ \A i \in 1..n : t[i] = s[i]
      /\ t[n + 1] = x
  <2>. DEFINE Q == Seq(S)
  <2>1. s \in Seq(Q) /\ x \in Q
    OBVIOUS
  <2>2. /\ Append(s, x) \in Seq(Q) /\ Append(s, x) # << >>
        /\ Len(Append(s, x)) = Len(s)+1
        /\ \A i \in 1.. Len(s) : Append(s, x)[i] = s[i]
        /\ Append(s, x)[Len(s)+1] = x
    <3>. HIDE DEF Q
    <3>. QED BY <2>1, AppendProperties
  <2>. QED BY <2>2, LenProperties
<1>. HIDE DEF t
<1>2. PICK f \in [1..n + 1 -> Seq(S)] : Flattens(t, n + 1, f)
  <2>1. n + 1 \in 0..Len(t)
    BY <1>1
  <2>. QED BY <1>1, <2>1, FlattensExists
<1>3. FlattenSeq(t) = f[n + 1]
  BY <1>1, <1>2, FlattenIs
<1>4. CASE s = <<>>
  <2>1. n = 0 /\ FlattenSeq(s) = <<>>
    BY <1>4 DEF FlattenSeq
  <2>2. f[n + 1] = x
    BY <1>1, <1>2, <2>1 DEF Flattens
  <2>3. <<>> \o x = x
    BY ConcatEmptySeq
  <2>. QED BY <1>3, <2>1, <2>2, <2>3 DEF t
<1>5. CASE s # <<>>
  <2>1. n \in 1..n /\ n \in 1..n + 1 /\ n + 1 \in 1..n + 1 /\ n + 1 # 1
        /\ (n + 1) - 1 = n /\ \A i \in 1..n : i \in 1..n + 1 /\ i - 1 \in 0..n
    BY <1>1, <1>5, EmptySeq
  <2>2. f[n + 1] = f[n] \o x
    BY <1>1, <1>2, <2>1 DEF Flattens
  <2>3. Flattens(s, n, f)
    BY <1>1, <1>2, <2>1 DEF Flattens
  <2>4. FlattenSeq(s) = f[n]
    BY <1>5, <2>3, FlattenIs
  <2>. QED BY <1>3, <2>2, <2>4 DEF t
<1>. QED BY <1>4, <1>5

LEMMA FlattenConcat ==
  ASSUME NEW S, NEW s \in Seq(Seq(S)), NEW t \in Seq(Seq(S))
  PROVE  FlattenSeq(s \o t) = FlattenSeq(s) \o FlattenSeq(t)
<1>. DEFINE Q == Seq(S)
            T == {u \in Seq(Q) : FlattenSeq(s \o u) = FlattenSeq(s) \o FlattenSeq(u)}
<1>0. s \in Seq(Q) /\ t \in Seq(Q) /\ FlattenSeq(s) \in Seq(S)
  BY FlattenType
<1>1. <<>> \in T
  <2>1. FlattenSeq(<<>>) = <<>>
    BY DEF FlattenSeq
  <2>2. s \o <<>> = s /\ FlattenSeq(s) \o <<>> = FlattenSeq(s)
    <3>. HIDE DEF Q
    <3>. QED BY <1>0, ConcatEmptySeq
  <2>3. <<>> \in Seq(Q)
    <3>. HIDE DEF Q
    <3>. QED OBVIOUS
  <2>. HIDE DEF Q
  <2>. QED BY <2>1, <2>2, <2>3
<1>2. ASSUME NEW u \in T, NEW x \in Q PROVE Append(u, x) \in T
  <2>1. /\ Append(u, x) \in Seq(Q) /\ s \o u \in Seq(Q)
        /\ s \o Append(u, x) = Append(s \o u, x)
    <3>1. u \in Seq(Q)
      OBVIOUS
    <3>. HIDE DEF Q, T
    <3>2. /\ Append(u, x) = u \o <<x>> /\ <<x>> \in Seq(Q) /\ s \o u \in Seq(Q)
          /\ Append(u, x) \in Seq(Q)
      BY <1>0, <3>1, AppendIsConcat, ConcatProperties, AppendProperties
    <3>3. Append(s \o u, x) = (s \o u) \o <<x>>
      BY <3>2, AppendIsConcat
    <3>4. (s \o u) \o <<x>> = s \o (u \o <<x>>)
      BY <1>0, <3>1, <3>2, ConcatAssociative, SMTT(30)
    <3>. QED BY <3>2, <3>3, <3>4
  <2>2. FlattenSeq(Append(s \o u, x)) = FlattenSeq(s \o u) \o x
    BY <2>1, FlattenAppend
  <2>3. FlattenSeq(Append(u, x)) = FlattenSeq(u) \o x
    BY FlattenAppend
  <2>4. FlattenSeq(u) \in Seq(S) /\ x \in Seq(S)
    BY FlattenType
  <2>5. (FlattenSeq(s) \o FlattenSeq(u)) \o x = FlattenSeq(s) \o (FlattenSeq(u) \o x)
    <3>. DEFINE a == FlattenSeq(s)
                b == FlattenSeq(u)
    <3>1. a \in Seq(S) /\ b \in Seq(S) /\ x \in Seq(S)
      BY <1>0, <2>4
    <3>. HIDE DEF a, b, T, Q
    <3>2. (a \o b) \o x = a \o (b \o x)
      BY <3>1, ConcatAssociative, SMTT(30)
    <3>. QED BY <3>2 DEF a, b
  <2>. QED BY <2>1, <2>2, <2>3, <2>5
<1>3. T \in SUBSET Seq(Q)
  OBVIOUS
<1>4. t \in T
  <2>. HIDE DEF T, Q
  <2>. QED BY <1>0, <1>1, <1>2, <1>3, AllSequences
<1>. QED BY <1>4

(* Nothing in a row is nothing.                                            *)
LEMMA FlattenNone ==
  ASSUME NEW S, NEW s \in Seq(Seq(S)), \A a \in 1..Len(s) : s[a] = <<>>
  PROVE  FlattenSeq(s) = <<>>
<1>1. \A a \in 1..Len(s) : Len(s[a]) <= 1
  OBVIOUS
<1>2. Picks(FlattenSeq(s), s, Len(s))
  BY <1>1, FlattenPicks
<1>3. \A a \in 1..Len(s) : \A x : s[a] # <<x>>
  <2>1. \A x : <<x>> # <<>>
    OBVIOUS
  <2>. QED BY <2>1
<1>4. \A i \in 1..Len(FlattenSeq(s)) : FALSE
  BY <1>2, <1>3 DEF Picks
<1>. DEFINE t == FlattenSeq(s)
<1>5. t \in Seq(S)
  BY FlattenType
<1>. HIDE DEF t
<1>6. Len(t) = 0
  BY <1>4, <1>5, LenProperties DEF t
<1>. QED BY <1>5, <1>6, EmptySeq DEF t

(* Each element of s becomes what h has for it; FlatMap puts the sequences  *)
(* that h has in a row.                                                     *)
Each(s, h) == [i \in DOMAIN s |-> h[s[i]]]
FlatMap(s, h) == FlattenSeq(Each(s, h))

LEMMA EachIs ==
  ASSUME NEW S, NEW h, NEW s \in Seq(S)
  PROVE  /\ Len(Each(s, h)) = Len(s)
         /\ \A i \in 1..Len(s) : Each(s, h)[i] = h[s[i]]
<1>1. DOMAIN s = 1..Len(s) /\ Len(s) \in Nat
  BY LenProperties
<1>. QED BY <1>1 DEF Each

LEMMA EachType ==
  ASSUME NEW S, NEW T, NEW h \in [S -> T], NEW s \in Seq(S)
  PROVE  Each(s, h) \in Seq(T)
<1>1. DOMAIN s = 1..Len(s) /\ Len(s) \in Nat /\ \A i \in 1..Len(s) : s[i] \in S
  BY LenProperties, ElementOfSeq
<1>. DEFINE m == [i \in DOMAIN s |-> h[s[i]]]
<1>2. m \in [1..Len(s) -> T]
  BY <1>1
<1>. HIDE DEF m
<1>3. m \in Seq(T)
  BY <1>1, <1>2, FunctionIsSeq
<1>. QED BY <1>3 DEF m, Each

LEMMA FlatMapType ==
  ASSUME NEW S, NEW T, NEW h \in [S -> Seq(T)], NEW s \in Seq(S)
  PROVE  FlatMap(s, h) \in Seq(T)
<1>. DEFINE Q == Seq(T)
<1>1. h \in [S -> Q]
  OBVIOUS
<1>2. Each(s, h) \in Seq(Q)
  <2>. HIDE DEF Q
  <2>. QED BY <1>1, EachType
<1>. QED BY <1>2, FlattenType DEF FlatMap

LEMMA FlatMapConcat ==
  ASSUME NEW S, NEW T, NEW h \in [S -> Seq(T)], NEW s \in Seq(S), NEW t \in Seq(S)
  PROVE  FlatMap(s \o t, h) = FlatMap(s, h) \o FlatMap(t, h)
<1>. DEFINE Q == Seq(T)
            a == Each(s, h)
            b == Each(t, h)
            c == Each(s \o t, h)
<1>1. s \o t \in Seq(S) /\ h \in [S -> Q]
  BY ConcatProperties
<1>2. /\ a \in Seq(Q) /\ b \in Seq(Q) /\ c \in Seq(Q)
      /\ Len(a) = Len(s) /\ Len(b) = Len(t) /\ Len(c) = Len(s \o t)
      /\ \A i \in 1..Len(s) : a[i] = h[s[i]]
      /\ \A i \in 1..Len(t) : b[i] = h[t[i]]
      /\ \A i \in 1..Len(s \o t) : c[i] = h[(s \o t)[i]]
  <2>. HIDE DEF Q
  <2>1. \A u \in Seq(S) : /\ Each(u, h) \in Seq(Q) /\ Len(Each(u, h)) = Len(u)
                          /\ \A i \in 1..Len(u) : Each(u, h)[i] = h[u[i]]
    <3>. TAKE u \in Seq(S)
    <3>. HIDE DEF a, b, c
    <3>1. Each(u, h) \in Seq(Q)
      BY <1>1, EachType
    <3>2. Len(Each(u, h)) = Len(u) /\ \A i \in 1..Len(u) : Each(u, h)[i] = h[u[i]]
      BY EachIs
    <3>. QED BY <3>1, <3>2
  <2>. QED BY <1>1, <2>1
<1>3. /\ Len(s \o t) = Len(s) + Len(t) /\ Len(s) \in Nat /\ Len(t) \in Nat
      /\ \A i \in 1..Len(s) + Len(t) :
           (s \o t)[i] = IF i <= Len(s) THEN s[i] ELSE t[i - Len(s)]
  BY <1>1, ConcatProperties, LenProperties
<1>4. \A i \in 1..Len(s) + Len(t) : c[i] = h[(s \o t)[i]]
  BY <1>2, <1>3
<1>5. /\ FlatMap(s, h) = FlattenSeq(a) /\ FlatMap(t, h) = FlattenSeq(b)
      /\ FlatMap(s \o t, h) = FlattenSeq(c)
  BY DEF FlatMap
<1>. HIDE DEF a, b, c, Q
<1>6. /\ a \o b \in Seq(Q) /\ Len(a \o b) = Len(s) + Len(t)
      /\ \A i \in 1..Len(s) + Len(t) :
           (a \o b)[i] = IF i <= Len(s) THEN a[i] ELSE b[i - Len(s)]
  <2>1. Len(a \o b) = Len(a) + Len(b) /\ a \o b \in Seq(Q)
    BY <1>2, ConcatProperties
  <2>2. \A i \in 1..Len(a) + Len(b) :
           (a \o b)[i] = IF i <= Len(a) THEN a[i] ELSE b[i - Len(a)]
    BY <1>2, ConcatProperties
  <2>. QED BY <1>2, <2>1, <2>2
<1>7. \A i \in 1..Len(s) + Len(t) : c[i] = (a \o b)[i]
  <2>. SUFFICES ASSUME NEW i \in 1..Len(s) + Len(t) PROVE c[i] = (a \o b)[i]
    OBVIOUS
  <2>1. CASE i <= Len(s)
    <3>1. i \in 1..Len(s)
      BY <1>3, <2>1
    <3>. QED BY <1>2, <1>3, <1>4, <1>6, <2>1, <3>1
  <2>2. CASE ~(i <= Len(s))
    <3>1. i - Len(s) \in 1..Len(t)
      BY <1>3, <2>2
    <3>. QED BY <1>2, <1>3, <1>4, <1>6, <2>2, <3>1
  <2>. QED BY <2>1, <2>2
<1>8. c = a \o b
  BY <1>2, <1>3, <1>6, <1>7, SeqEqual
<1>9. FlattenSeq(a \o b) = FlattenSeq(a) \o FlattenSeq(b)
  BY <1>2, FlattenConcat DEF Q
<1>. QED BY <1>5, <1>8, <1>9

(* FlatMap of one element, and of what FlattenSeq puts in a row.           *)
LEMMA FlatMapOne ==
  ASSUME NEW S, NEW T, NEW h \in [S -> Seq(T)], NEW x \in S
  PROVE  FlatMap(<<x>>, h) = h[x] /\ FlatMap(<<>>, h) = <<>>
<1>. DEFINE Q == Seq(T)
<1>1. <<x>> \in Seq(S) /\ <<>> \in Seq(S) /\ Len(<<x>>) = 1 /\ <<x>>[1] = x
  OBVIOUS
<1>2. Len(Each(<<x>>, h)) = 1 /\ Each(<<x>>, h)[1] = h[x]
  <2>. DEFINE s == <<x>>
  <2>1. s \in Seq(S) /\ Len(s) = 1 /\ s[1] = x /\ 1 \in 1..1
    BY <1>1
  <2>. HIDE DEF s
  <2>2. DOMAIN s = 1..1
    BY <2>1, LenProperties
  <2>3. Len(Each(s, h)) = 1 /\ Each(s, h)[1] = h[x]
    BY <2>1, <2>2 DEF Each
  <2>. QED BY <2>3 DEF s
<1>3. Each(<<>>, h) = <<>>
  BY DEF Each
<1>4. FlatMap(<<>>, h) = <<>>
  BY <1>3 DEF FlatMap, FlattenSeq
<1>5. Each(<<x>>, h) = Append(<<>>, h[x])
  <2>1. Each(<<x>>, h) \in Seq(Q) /\ h[x] \in Q
    <3>1. h \in [S -> Q]
      OBVIOUS
    <3>. HIDE DEF Q
    <3>. QED BY <1>1, <3>1, EachType
  <2>. DEFINE e == Each(<<x>>, h)
              y == h[x]
  <2>2. e \in Seq(Q) /\ Len(e) = 1 /\ e[1] = y /\ y \in Q
    BY <1>2, <2>1
  <2>. HIDE DEF Q, e, y
  <2>3. Append(<<>>, y) \in Seq(Q) /\ Len(Append(<<>>, y)) = 1 /\ Append(<<>>, y)[1] = y
    BY <2>2
  <2>4. e = Append(<<>>, y)
    BY <2>2, <2>3, SeqEqual
  <2>. QED BY <2>4 DEF e, y
<1>6. FlattenSeq(Append(<<>>, h[x])) = FlattenSeq(<<>>) \o h[x]
  <2>1. <<>> \in Seq(Q)
    <3>. HIDE DEF Q
    <3>. QED OBVIOUS
  <2>. QED BY <2>1, FlattenAppend
<1>7. FlattenSeq(<<>>) \o h[x] = h[x]
  <2>1. FlattenSeq(<<>>) = <<>>
    BY DEF FlattenSeq
  <2>. QED BY <2>1, ConcatEmptySeq
<1>. QED BY <1>4, <1>5, <1>6, <1>7 DEF FlatMap

LEMMA FlatMapFlatten ==
  ASSUME NEW S, NEW T, NEW h \in [S -> Seq(T)], NEW s \in Seq(Seq(S))
  PROVE  FlatMap(FlattenSeq(s), h) = FlatMap(s, [x \in Seq(S) |-> FlatMap(x, h)])
<1>. DEFINE Q == Seq(S)
            g == [x \in Q |-> FlatMap(x, h)]
            D == {u \in Seq(Q) : FlatMap(FlattenSeq(u), h) = FlatMap(u, g)}
<1>0. g \in [Q -> Seq(T)] /\ \A x \in Q : g[x] = FlatMap(x, h)
  BY FlatMapType
<1>1. <<>> \in D
  <2>1. FlattenSeq(<<>>) = <<>>
    BY DEF FlattenSeq
  <2>2. Each(<<>>, h) = <<>> /\ Each(<<>>, g) = <<>>
    BY DEF Each
  <2>3. FlatMap(<<>>, h) = <<>> /\ FlatMap(<<>>, g) = <<>>
    BY <2>1, <2>2 DEF FlatMap
  <2>4. <<>> \in Seq(Q)
    <3>. HIDE DEF Q
    <3>. QED OBVIOUS
  <2>. HIDE DEF g, Q
  <2>. QED BY <2>1, <2>3, <2>4
<1>2. ASSUME NEW u \in D, NEW x \in Q PROVE Append(u, x) \in D
  <2>1. u \in Seq(Q) /\ FlatMap(FlattenSeq(u), h) = FlatMap(u, g)
    OBVIOUS
  <2>2. FlattenSeq(Append(u, x)) = FlattenSeq(u) \o x /\ FlattenSeq(u) \in Seq(S)
    <3>. HIDE DEF g, D
    <3>. QED BY <2>1, FlattenAppend, FlattenType
  <2>. DEFINE f == FlattenSeq(u)
  <2>3. FlatMap(f \o x, h) = FlatMap(f, h) \o FlatMap(x, h)
    <3>1. f \in Seq(S) /\ x \in Seq(S)
      BY <2>2
    <3>. HIDE DEF f, g, D, Q
    <3>. QED BY <3>1, FlatMapConcat, ZenonT(30)
  <2>. HIDE DEF f, D, g, Q
  <2>4. Append(u, x) = u \o <<x>> /\ <<x>> \in Seq(Q) /\ Append(u, x) \in Seq(Q)
    BY <2>1, AppendIsConcat, AppendProperties
  <2>5. FlatMap(u \o <<x>>, g) = FlatMap(u, g) \o FlatMap(<<x>>, g)
    <3>. DEFINE o == <<x>>
    <3>1. o \in Seq(Q) /\ u \in Seq(Q) /\ g \in [Q -> Seq(T)]
      BY <1>0, <2>1, <2>4
    <3>. HIDE DEF o
    <3>2. FlatMap(u \o o, g) = FlatMap(u, g) \o FlatMap(o, g)
      BY ONLY <3>1, FlatMapConcat, ZenonT(30)
    <3>. QED BY ONLY <3>2 DEF o
  <2>6. FlatMap(<<x>>, g) = g[x]
    BY <1>0, FlatMapOne
  <2>. QED BY <1>0, <2>1, <2>2, <2>3, <2>4, <2>5, <2>6 DEF D, f
<1>3. s \in D
  <2>1. D \in SUBSET Seq(Q) /\ s \in Seq(Q)
    OBVIOUS
  <2>. HIDE DEF D, Q
  <2>. QED BY <1>1, <1>2, <2>1, AllSequences
<1>. QED BY <1>3

(* FlatMap after FlatMap is one FlatMap.                                   *)
Maps(h, S, T) == h \in [S -> Seq(T)]

Joins(q, h, p, S) == \A x \in S : q[x] = FlatMap(h[x], p)

LEMMA FlatMapTwice ==
  ASSUME NEW S, NEW T, NEW U, NEW h, NEW p, NEW q, Maps(h, S, T), Maps(p, T, U),
         Joins(q, h, p, S), NEW s \in Seq(S)
  PROVE  FlatMap(FlatMap(s, h), p) = FlatMap(s, q)
<1>0. /\ h \in [S -> Seq(T)] /\ p \in [T -> Seq(U)]
      /\ \A x \in S : q[x] = FlatMap(h[x], p)
  BY DEF Maps, Joins
<1>. DEFINE Q == Seq(T)
            g == [x \in Q |-> FlatMap(x, p)]
            a == Each(s, h)
<1>1. \A i \in DOMAIN s : s[i] \in S /\ h[s[i]] \in Q
  <2>1. DOMAIN s = 1..Len(s) /\ \A i \in 1..Len(s) : s[i] \in S
    BY LenProperties, ElementOfSeq
  <2>. HIDE DEF Q
  <2>2. \A x \in S : h[x] \in Q
    BY <1>0 DEF Q
  <2>. QED BY <2>1, <2>2
<1>2. a \in Seq(Q)
  <2>1. h \in [S -> Q]
    BY <1>0
  <2>. HIDE DEF Q
  <2>. QED BY <2>1, EachType
<1>3. FlatMap(FlattenSeq(a), p) = FlatMap(a, g)
  <2>. HIDE DEF a
  <2>. QED BY <1>0, <1>2, FlatMapFlatten
<1>4. Each(a, g) = Each(s, q)
  <2>1. \A i \in DOMAIN s : g[h[s[i]]] = q[s[i]]
    BY <1>0, <1>1
  <2>2. DOMAIN a = DOMAIN s /\ \A i \in DOMAIN s : a[i] = h[s[i]]
    BY DEF Each
  <2>. HIDE DEF g, a
  <2>. QED BY <2>1, <2>2 DEF Each
<1>. HIDE DEF g
<1>. QED BY <1>3, <1>4 DEF FlatMap, a

(* FlatMap at the first and at the last element.                           *)
LEMMA FlatMapHead ==
  ASSUME NEW S, NEW T, NEW h \in [S -> Seq(T)], NEW s \in Seq(S), s # <<>>
  PROVE  FlatMap(s, h) = h[Head(s)] \o FlatMap(Tail(s), h)
<1>. DEFINE x == Head(s)
            t == Tail(s)
<1>1. x \in S /\ t \in Seq(S)
  BY NonEmptySeq
<1>2. s = <<x>> \o t
  OBVIOUS
<1>. HIDE DEF x, t
<1>3. <<x>> \in Seq(S)
  BY <1>1
<1>4. FlatMap(<<x>> \o t, h) = FlatMap(<<x>>, h) \o FlatMap(t, h)
  BY <1>1, <1>3, FlatMapConcat
<1>5. FlatMap(<<x>>, h) = h[x]
  BY <1>1, FlatMapOne
<1>. QED BY <1>2, <1>4, <1>5 DEF x, t

LEMMA FlatMapAppend ==
  ASSUME NEW S, NEW T, NEW h \in [S -> Seq(T)], NEW s \in Seq(S), NEW x \in S
  PROVE  FlatMap(Append(s, x), h) = FlatMap(s, h) \o h[x]
<1>1. <<x>> \in Seq(S) /\ Append(s, x) = s \o <<x>>
  BY AppendIsConcat
<1>2. FlatMap(s \o <<x>>, h) = FlatMap(s, h) \o FlatMap(<<x>>, h)
  BY <1>1, FlatMapConcat
<1>3. FlatMap(<<x>>, h) = h[x]
  BY FlatMapOne
<1>. QED BY <1>1, <1>2, <1>3

(* Functions that have nothing for any element, or the same for each.      *)
LEMMA FlatMapNone ==
  ASSUME NEW S, NEW h, NEW s \in Seq(S), \A x \in S : h[x] = <<>>
  PROVE  FlatMap(s, h) = <<>>
<1>. DEFINE e == Each(s, h)
            Q == Seq(S)
<1>0. <<>> \in Q
  OBVIOUS
<1>1. /\ DOMAIN s = 1..Len(s) /\ Len(s) \in Nat
      /\ \A i \in 1..Len(s) : s[i] \in S
  BY LenProperties, ElementOfSeq
<1>2. e \in [1..Len(s) -> Q] /\ \A i \in 1..Len(s) : e[i] = <<>>
  <2>. HIDE DEF Q
  <2>. QED BY <1>0, <1>1 DEF Each
<1>. HIDE DEF e
<1>3. e \in Seq(Q) /\ Len(e) = Len(s)
  <2>. HIDE DEF Q
  <2>. QED BY <1>1, <1>2, FunctionIsSeq
<1>4. FlattenSeq(e) = <<>>
  BY <1>2, <1>3, FlattenNone
<1>. QED BY <1>4 DEF FlatMap, e

LEMMA FlatMapSame ==
  ASSUME NEW S, NEW h, NEW g, NEW s \in Seq(S), \A x \in S : h[x] = g[x]
  PROVE  FlatMap(s, h) = FlatMap(s, g)
<1>1. \A i \in DOMAIN s : s[i] \in S
  BY LenProperties, ElementOfSeq
<1>2. Each(s, h) = Each(s, g)
  BY <1>1 DEF Each
<1>. QED BY <1>2 DEF FlatMap

(* FlatMap of a sequence of six.                                           *)
SixOf(s, h) == h[s[1]] \o h[s[2]] \o h[s[3]] \o h[s[4]] \o h[s[5]] \o h[s[6]]

LEMMA FlatMapSix ==
  ASSUME NEW S, NEW T, NEW h, Maps(h, S, T), NEW s \in Seq(S), Len(s) = 6
  PROVE  FlatMap(s, h) = SixOf(s, h)
<1>. USE DEF Maps
<1>. DEFINE a == s[1]
            b == s[2]
            c == s[3]
            d == s[4]
            e == s[5]
            f == s[6]
<1>0. /\ a \in S /\ b \in S /\ c \in S /\ d \in S /\ e \in S /\ f \in S
      /\ s = <<a, b, c, d, e, f>>
  <2>1. /\ a \in S /\ b \in S /\ c \in S /\ d \in S /\ e \in S /\ f \in S
    <3>1. \A i \in 1..6 : s[i] \in S
      BY ElementOfSeq
    <3>2. 1 \in 1..6 /\ 2 \in 1..6 /\ 3 \in 1..6 /\ 4 \in 1..6 /\ 5 \in 1..6 /\ 6 \in 1..6
      OBVIOUS
    <3>. QED BY <3>1, <3>2
  <2>. DEFINE t == <<a, b, c, d, e, f>>
  <2>2. t \in Seq(S) /\ Len(t) = 6
    <3>. HIDE DEF a, b, c, d, e, f
    <3>. QED BY <2>1
  <2>3. \A i \in 1..6 : s[i] = t[i]
    <3>1. /\ s[1] = t[1] /\ s[2] = t[2] /\ s[3] = t[3]
          /\ s[4] = t[4] /\ s[5] = t[5] /\ s[6] = t[6]
      OBVIOUS
    <3>2. \A i \in 1..6 : i = 1 \/ i = 2 \/ i = 3 \/ i = 4 \/ i = 5 \/ i = 6
      OBVIOUS
    <3>. HIDE DEF t
    <3>. QED BY <3>1, <3>2
  <2>4. s = t
    <3>. HIDE DEF t
    <3>. QED BY <2>2, <2>3, SeqEqual
  <2>. QED BY <2>1, <2>4
<1>. HIDE DEF a, b, c, d, e, f
<1>1. FlatMap(<<a>>, h) = h[a]
  BY <1>0, FlatMapOne, SMTT(30)
<1>a. ASSUME NEW r \in Seq(S), NEW x \in S
       PROVE  FlatMap(Append(r, x), h) = FlatMap(r, h) \o h[x]
  <2>1. h \in [S -> Seq(T)]
    OBVIOUS
  <2>. QED BY ONLY <2>1, FlatMapAppend
<1>2. FlatMap(<<a, b>>, h) = FlatMap(<<a>>, h) \o h[b]
  <2>1. <<a>> \in Seq(S) /\ <<a, b>> = Append(<<a>>, b)
    BY <1>0
  <2>. QED BY <1>0, <2>1, <1>a
<1>3. FlatMap(<<a, b, c>>, h) = FlatMap(<<a, b>>, h) \o h[c]
  <2>1. <<a, b>> \in Seq(S) /\ <<a, b, c>> = Append(<<a, b>>, c)
    BY <1>0
  <2>. QED BY <1>0, <2>1, <1>a
<1>4. FlatMap(<<a, b, c, d>>, h) = FlatMap(<<a, b, c>>, h) \o h[d]
  <2>1. <<a, b, c>> \in Seq(S) /\ <<a, b, c, d>> = Append(<<a, b, c>>, d)
    BY <1>0
  <2>. QED BY <1>0, <2>1, <1>a
<1>5. FlatMap(<<a, b, c, d, e>>, h) = FlatMap(<<a, b, c, d>>, h) \o h[e]
  <2>1. <<a, b, c, d>> \in Seq(S) /\ <<a, b, c, d, e>> = Append(<<a, b, c, d>>, e)
    BY <1>0
  <2>. QED BY <1>0, <2>1, <1>a
<1>6. FlatMap(<<a, b, c, d, e, f>>, h) = FlatMap(<<a, b, c, d, e>>, h) \o h[f]
  <2>1. <<a, b, c, d, e>> \in Seq(S) /\ <<a, b, c, d, e, f>> = Append(<<a, b, c, d, e>>, f)
    BY <1>0
  <2>. QED BY <1>0, <2>1, <1>a
<1>7. FlatMap(s, h) = h[a] \o h[b] \o h[c] \o h[d] \o h[e] \o h[f]
  BY <1>0, <1>1, <1>2, <1>3, <1>4, <1>5, <1>6
<1>. QED BY <1>7 DEF a, b, c, d, e, f, SixOf

(* A sequence up to n, and one further.                                    *)
LEMMA UpToNext ==
  ASSUME NEW S, NEW s \in Seq(S), NEW n \in 1..Len(s)
  PROVE  /\ SubSeq(s, 1, n - 1) \in Seq(S) /\ SubSeq(s, 1, n) \in Seq(S)
         /\ Len(SubSeq(s, 1, n - 1)) = n - 1 /\ s[n] \in S
         /\ SubSeq(s, 1, n) = Append(SubSeq(s, 1, n - 1), s[n])
<1>1. /\ Len(s) \in Nat /\ s[n] \in S /\ n - 1 \in 0..Len(s) /\ n \in 0..Len(s)
      /\ n \in Nat /\ n - 1 \in Nat
  BY LenProperties, ElementOfSeq
<1>2. \A k \in 0..Len(s) :
        /\ SubSeq(s, 1, k) \in Seq(S) /\ Len(SubSeq(s, 1, k)) = k
        /\ \A i \in 1..k : SubSeq(s, 1, k)[i] = s[i]
  <2>. TAKE k \in 0..Len(s)
  <2>1. SubSeq(s, 1, k) \in Seq(S)
    BY CutType
  <2>2. /\ Len(SubSeq(s, 1, k)) = k
        /\ \A i \in 1..k : SubSeq(s, 1, k)[i] = s[i]
    BY <1>1
  <2>. QED BY <2>1, <2>2
<1>. DEFINE a == SubSeq(s, 1, n - 1)
            b == SubSeq(s, 1, n)
            x == s[n]
<1>3. /\ a \in Seq(S) /\ Len(a) = n - 1 /\ \A i \in 1..n - 1 : a[i] = s[i]
      /\ b \in Seq(S) /\ Len(b) = n /\ \A i \in 1..n : b[i] = s[i] /\ x \in S
  BY <1>1, <1>2
<1>. HIDE DEF a, b
<1>4. /\ Append(a, x) \in Seq(S) /\ Len(Append(a, x)) = n
      /\ \A i \in 1..n : Append(a, x)[i] = s[i]
  <2>1. /\ Append(a, x) \in Seq(S) /\ Len(Append(a, x)) = Len(a) + 1
        /\ Append(a, x)[Len(a) + 1] = x
        /\ \A i \in 1..Len(a) : Append(a, x)[i] = a[i]
    BY <1>3, AppendProperties
  <2>2. \A i \in 1..n : i = n \/ i \in 1..n - 1
    BY <1>1
  <2>3. Len(a) + 1 = n
    BY <1>1, <1>3
  <2>. QED BY <1>3, <2>1, <2>2, <2>3
<1>5. b = Append(a, x)
  BY <1>3, <1>4, SeqEqual
<1>. QED BY <1>3, <1>5 DEF a, b

(***************************************************************************)
(* What FlattenSeq puts in a row: the element n of s begins where the      *)
(* elements before it end.                                                 *)
(***************************************************************************)
Upto(s, n) == FlattenSeq(SubSeq(s, 1, n))

LEMMA UptoIs ==
  ASSUME NEW S, NEW s \in Seq(Seq(S))
  PROVE  Upto(s, 0) = <<>> /\ Upto(s, Len(s)) = FlattenSeq(s)
<1>. DEFINE Q == Seq(S)
<1>1. s \in Seq(Q)
  OBVIOUS
<1>. HIDE DEF Q
<1>2. SubSeq(s, 1, 0) = <<>> /\ SubSeq(s, 1, Len(s)) = s
  BY <1>1, SubSeqFull, SubSeqEmpty
<1>3. FlattenSeq(<<>>) = <<>>
  BY DEF FlattenSeq
<1>. QED BY <1>2, <1>3 DEF Upto

LEMMA UptoNext ==
  ASSUME NEW S, NEW s \in Seq(Seq(S)), NEW n \in 1..Len(s)
  PROVE  /\ Upto(s, n - 1) \in Seq(S) /\ s[n] \in Seq(S) /\ Upto(s, n) \in Seq(S)
         /\ Upto(s, n) = Upto(s, n - 1) \o s[n]
         /\ Len(Upto(s, n)) = Len(Upto(s, n - 1)) + Len(s[n])
<1>. DEFINE Q == Seq(S)
            a == SubSeq(s, 1, n - 1)
            x == s[n]
<1>1. s \in Seq(Q)
  OBVIOUS
<1>2. a \in Seq(Q) /\ x \in Q /\ SubSeq(s, 1, n) = Append(a, x)
  <2>. HIDE DEF Q
  <2>. QED BY <1>1, UpToNext
<1>. HIDE DEF a, x
<1>3. FlattenSeq(Append(a, x)) = FlattenSeq(a) \o x
  BY <1>2, FlattenAppend
<1>. DEFINE f == FlattenSeq(a)
<1>4. f \in Seq(S) /\ x \in Seq(S)
  BY <1>2, FlattenType
<1>. HIDE DEF f
<1>5. f \o x \in Seq(S) /\ Len(f \o x) = Len(f) + Len(x)
  BY <1>4, ConcatProperties
<1>. QED BY <1>2, <1>3, <1>4, <1>5 DEF Upto, f, a, x

LEMMA UptoAt ==
  ASSUME NEW S, NEW s \in Seq(Seq(S)), NEW n \in 1..Len(s), NEW j \in 1..Len(s[n])
  PROVE  /\ Len(Upto(s, n - 1)) + j \in 1..Len(FlattenSeq(s))
         /\ FlattenSeq(s)[Len(Upto(s, n - 1)) + j] = s[n][j]
<1>. DEFINE Q == Seq(S)
            b == SubSeq(s, 1, n)
            c == SubSeq(s, n + 1, Len(s))
            f == FlattenSeq(c)
            d == Upto(s, n - 1)
            x == s[n]
<1>1. s \in Seq(Q)
  OBVIOUS
<1>2. b \in Seq(Q) /\ c \in Seq(Q) /\ s = b \o c
  <2>. HIDE DEF Q
  <2>1. n \in 0..Len(s) /\ 1 \in 1..Len(s) + 1 /\ n \in 1 - 1..Len(s)
        /\ Len(s) \in n..Len(s)
    BY <1>1, LenProperties
  <2>2. b \in Seq(Q) /\ c \in Seq(Q)
    BY <1>1, <2>1, CutType
  <2>3. SubSeq(s, 1, n) \o SubSeq(s, n + 1, Len(s)) = SubSeq(s, 1, Len(s))
    BY <1>1, <2>1, ConcatAdjacentSubSeq
  <2>. QED BY <1>1, <2>2, <2>3, SubSeqFull
<1>3. Upto(s, n) = FlattenSeq(b)
  BY DEF Upto
<1>4. d \in Seq(S) /\ x \in Seq(S) /\ Upto(s, n) = d \o x
  BY UptoNext
<1>. HIDE DEF b, c
<1>5. FlattenSeq(b \o c) = FlattenSeq(b) \o FlattenSeq(c)
  BY <1>2, FlattenConcat
<1>6. f \in Seq(S)
  BY <1>2, FlattenType
<1>7. FlattenSeq(s) = (d \o x) \o f /\ j \in 1..Len(x)
  BY <1>2, <1>3, <1>4, <1>5
<1>. HIDE DEF d, x, f
<1>8. Len(d) \in Nat /\ Len(x) \in Nat /\ Len(f) \in Nat
  BY <1>4, <1>6, LenProperties
<1>9. /\ d \o x \in Seq(S) /\ Len(d \o x) = Len(d) + Len(x)
      /\ (d \o x)[Len(d) + j] = x[j]
  <2>1. d \o x \in Seq(S) /\ Len(d \o x) = Len(d) + Len(x)
        /\ \A i \in 1..Len(d) + Len(x) :
             (d \o x)[i] = IF i <= Len(d) THEN d[i] ELSE x[i - Len(d)]
    BY <1>4, ConcatProperties
  <2>2. Len(d) + j \in 1..Len(d) + Len(x) /\ ~(Len(d) + j <= Len(d))
        /\ (Len(d) + j) - Len(d) = j
    BY <1>7, <1>8
  <2>. QED BY <2>1, <2>2
<1>. DEFINE e == d \o x
<1>10. e \in Seq(S) /\ Len(e) = Len(d) + Len(x) /\ e[Len(d) + j] = x[j]
  BY <1>9
<1>11. /\ Len(d) + j \in 1..Len(e \o f) /\ (e \o f)[Len(d) + j] = x[j]
  <2>. HIDE DEF e
  <2>1. Len(e \o f) = Len(e) + Len(f)
        /\ \A i \in 1..Len(e) + Len(f) :
             (e \o f)[i] = IF i <= Len(e) THEN e[i] ELSE f[i - Len(e)]
    <3>1. e \in Seq(S) /\ f \in Seq(S)
      BY <1>6, <1>10
    <3>. QED BY ONLY <3>1, ConcatProperties
  <2>2. Len(d) + j \in 1..Len(e) + Len(f) /\ Len(d) + j <= Len(e)
    BY <1>7, <1>8, <1>10
  <2>. QED BY <1>10, <2>1, <2>2
<1>. QED BY <1>7, <1>11 DEF d, x, e

(* The total of a concatenation.                                           *)
LEMMA TotalConcat ==
  ASSUME NEW s \in Seq(Nat), NEW t \in Seq(Nat)
  PROVE  /\ Total(s) \in Nat /\ Total(t) \in Nat /\ s \o t \in Seq(Nat)
         /\ Total(s \o t) = Total(s) + Total(t)
<1>. DEFINE T == {u \in Seq(Nat) : Total(s \o u) = Total(s) + Total(u)}
<1>1. \A u \in Seq(Nat) : Total(u) \in Nat
  BY TotalAppend
<1>2. <<>> \in T
  <2>1. s \o <<>> = s
    OBVIOUS
  <2>2. Total(s) + 0 = Total(s)
    BY <1>1
  <2>. QED BY <2>1, <2>2, TotalNone
<1>3. ASSUME NEW u \in T, NEW x \in Nat PROVE Append(u, x) \in T
  <2>1. u \in Seq(Nat) /\ Total(s \o u) = Total(s) + Total(u)
    OBVIOUS
  <2>. HIDE DEF T
  <2>2. s \o u \in Seq(Nat) /\ Append(u, x) \in Seq(Nat)
    BY <2>1, ConcatProperties, AppendProperties
  <2>3. s \o Append(u, x) = Append(s \o u, x)
    BY <2>1
  <2>4. Total(Append(u, x)) = Total(u) + x
    BY <2>1, TotalAppend
  <2>5. Total(Append(s \o u, x)) = Total(s \o u) + x
    <3>. DEFINE v == s \o u
    <3>1. v \in Seq(Nat)
      BY <2>2
    <3>. HIDE DEF v
    <3>2. Total(Append(v, x)) = Total(v) + x
      BY <3>1, TotalAppend
    <3>. QED BY <3>2 DEF v
  <2>6. Total(s) + Total(u) + x = Total(s) + (Total(u) + x)
    BY <1>1, <2>1
  <2>7. Total(s \o Append(u, x)) = Total(s) + Total(Append(u, x))
    BY <2>1, <2>3, <2>4, <2>5, <2>6
  <2>. QED BY <2>2, <2>7 DEF T
<1>4. T \in SUBSET Seq(Nat)
  OBVIOUS
<1>5. t \in T
  <2>. HIDE DEF T
  <2>. QED BY <1>2, <1>3, <1>4, AllSequences
<1>6. s \o t \in Seq(Nat)
  BY ConcatProperties
<1>. QED BY <1>1, <1>5, <1>6
=============================================================================
