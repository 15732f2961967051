---------------------------- MODULE StreamsProofs ----------------------------
(***************************************************************************)
(* Proofs about Streams, for every set of frames the upstream may send and *)
(* every length of the answer.  The library's induction theorems take an   *)
(* operator as their parameter; here induction is stated for sets of       *)
(* numbers (SetInduction), and the recursive functions the model uses are  *)
(* unrolled with it one by one.                                            *)
(***************************************************************************)
EXTENDS Streams, SequenceTheorems, FiniteSetTheorems, WellFoundedInduction, TLAPS

-----------------------------------------------------------------------------
(* Sequences of anything. *)

IsSeq(s) == s \in Seq(ToSet(s))

LEMMA ConcatLemma ==
    ASSUME NEW s, NEW t, IsSeq(s), IsSeq(t)
    PROVE  /\ IsSeq(s \o t) /\ Len(s \o t) = Len(s) + Len(t)
           /\ \A i \in 1..Len(s) : (s \o t)[i] = s[i]
           /\ \A i \in 1..Len(t) : (s \o t)[Len(s) + i] = t[i]
           /\ ToSet(s \o t) = ToSet(s) \cup ToSet(t)
<1>1. s \in Seq(ToSet(s) \cup ToSet(t)) /\ t \in Seq(ToSet(s) \cup ToSet(t)) BY DEF IsSeq
<1>2. /\ s \o t \in Seq(ToSet(s) \cup ToSet(t)) /\ Len(s \o t) = Len(s) + Len(t)
      /\ Len(s) \in Nat /\ Len(t) \in Nat /\ DOMAIN s = 1..Len(s) /\ DOMAIN t = 1..Len(t)
      /\ DOMAIN (s \o t) = 1..(Len(s) + Len(t))
  BY <1>1
<1>3. \A i \in 1..Len(s) : (s \o t)[i] = s[i] BY <1>1
<1>4. \A i \in 1..Len(t) : (s \o t)[Len(s) + i] = t[i] BY <1>1, <1>2
<1>5. ToSet(s \o t) = ToSet(s) \cup ToSet(t)
  <2>1. ASSUME NEW x \in ToSet(s \o t) PROVE x \in ToSet(s) \cup ToSet(t) BY <1>1, <1>2 DEF ToSet
  <2>2. ASSUME NEW x \in ToSet(s) PROVE x \in ToSet(s \o t) BY <1>2, <1>3 DEF ToSet
  <2>3. ASSUME NEW x \in ToSet(t) PROVE x \in ToSet(s \o t)
    <3>1. PICK i \in 1..Len(t) : x = t[i] BY <1>2 DEF ToSet
    <3>2. Len(s) + i \in 1..(Len(s) + Len(t)) /\ (s \o t)[Len(s) + i] = x BY <1>2, <1>4, <3>1
    <3> QED BY <1>2, <3>2 DEF ToSet
  <2> QED BY <2>1, <2>2, <2>3
<1>6. IsSeq(s \o t) BY <1>2, <1>5 DEF IsSeq
<1> QED BY <1>2, <1>3, <1>4, <1>5, <1>6

LEMMA TypedIsSeq == ASSUME NEW S, NEW s \in Seq(S) PROVE IsSeq(s)
<1>1. Len(s) \in Nat /\ DOMAIN s = 1..Len(s) OBVIOUS
<1>2. \A i \in 1..Len(s) : s[i] \in ToSet(s) BY <1>1 DEF ToSet
<1>3. s \in [1..Len(s) -> ToSet(s)] BY <1>1, <1>2, LenProperties
<1> QED BY <1>1, <1>3, IsASeq DEF IsSeq

LEMMA EmptyIsSeq == IsSeq(<<>>) /\ ToSet(<<>>) = {} /\ Len(<<>>) = 0
<1>1. <<>> \in Seq({}) /\ Len(<<>>) = 0 BY EmptySeq
<1>2. DOMAIN <<>> = 1..0 BY <1>1
<1>3. ToSet(<<>>) = {} BY <1>2 DEF ToSet
<1> QED BY <1>1, <1>3 DEF IsSeq

LEMMA OneElement == ASSUME NEW a PROVE IsSeq(<<a>>) /\ ToSet(<<a>>) = {a} /\ Len(<<a>>) = 1
<1>1. DOMAIN <<a>> = {1} OBVIOUS
<1>2. ToSet(<<a>>) = {a} BY <1>1 DEF ToSet
<1>3. <<a>> \in Seq({a}) OBVIOUS
<1> QED BY <1>2, <1>3 DEF IsSeq

LEMMA TwoElements ==
    ASSUME NEW a, NEW b PROVE IsSeq(<<a, b>>) /\ ToSet(<<a, b>>) = {a, b} /\ Len(<<a, b>>) = 2
<1>1. DOMAIN <<a, b>> = {1, 2} OBVIOUS
<1>2. ToSet(<<a, b>>) = {a, b} BY <1>1 DEF ToSet
<1>3. <<a, b>> \in Seq({a, b}) OBVIOUS
<1> QED BY <1>2, <1>3 DEF IsSeq

LEMMA ConcatTwice ==
    ASSUME NEW s, IsSeq(s), NEW t, IsSeq(t), NEW u, IsSeq(u)
    PROVE  s \o (t \o u) = (s \o t) \o u
<1> DEFINE S == ToSet(s) \cup ToSet(t) \cup ToSet(u)
<1>1. s \in Seq(S) /\ t \in Seq(S) /\ u \in Seq(S) BY DEF IsSeq
<1> HIDE DEF S
<1> QED BY <1>1, ConcatAssociative

LEMMA AppendTwo == ASSUME NEW s, IsSeq(s), NEW a, NEW b PROVE s \o <<a, b>> = (s \o <<a>>) \o <<b>>
<1> DEFINE S == ToSet(s) \cup {a, b}
           r == Append(s, a)
<1>1. s \in Seq(S) /\ a \in S /\ b \in S BY DEF IsSeq
<1> HIDE DEF S
<1>2. s \o <<a, b>> = Append(r, b) BY <1>1
<1>3. r \in Seq(S) /\ s \o <<a>> = r BY <1>1
<1> HIDE DEF r
<1>4. r \o <<b>> = Append(r, b) BY <1>1, <1>3
<1> QED BY <1>2, <1>3, <1>4

LEMMA ThreeElements ==
    ASSUME NEW a, NEW b, NEW c
    PROVE  IsSeq(<<a, b, c>>) /\ ToSet(<<a, b, c>>) = {a, b, c} /\ Len(<<a, b, c>>) = 3
<1>1. DOMAIN <<a, b, c>> = {1, 2, 3} OBVIOUS
<1>2. ToSet(<<a, b, c>>) = {a, b, c} BY <1>1 DEF ToSet
<1>3. <<a, b, c>> \in Seq({a, b, c}) OBVIOUS
<1> QED BY <1>2, <1>3 DEF IsSeq

LEMMA FourElements ==
    ASSUME NEW a, NEW b, NEW c, NEW d
    PROVE  IsSeq(<<a, b, c, d>>) /\ ToSet(<<a, b, c, d>>) = {a, b, c, d} /\ Len(<<a, b, c, d>>) = 4
<1>1. DOMAIN <<a, b, c, d>> = {1, 2, 3, 4} OBVIOUS
<1>2. ToSet(<<a, b, c, d>>) = {a, b, c, d} BY <1>1 DEF ToSet
<1>3. <<a, b, c, d>> \in Seq({a, b, c, d}) OBVIOUS
<1> QED BY <1>2, <1>3 DEF IsSeq

LEMMA SeqFacts ==
    ASSUME NEW s, IsSeq(s)
    PROVE  /\ Len(s) \in Nat /\ DOMAIN s = 1..Len(s)
           /\ \A i \in 1..Len(s) : s[i] \in ToSet(s)
           /\ s # <<>> => Len(s) \in 1..Len(s) /\ Last(s) = s[Len(s)]
  BY DEF IsSeq, ToSet, Last

LEMMA PrefixLemma ==
    ASSUME NEW s, IsSeq(s), NEW n \in 0..Len(s)
    PROVE  /\ IsSeq(SubSeq(s, 1, n)) /\ Len(SubSeq(s, 1, n)) = n
           /\ \A i \in 1..n : SubSeq(s, 1, n)[i] = s[i]
<1>1. s \in Seq(ToSet(s)) BY DEF IsSeq
<1>2. SubSeq(s, 1, n) \in Seq(ToSet(s)) /\ Len(SubSeq(s, 1, n)) = n BY <1>1
<1>3. \A i \in 1..n : SubSeq(s, 1, n)[i] = s[i] BY <1>1
<1> QED BY <1>2, <1>3, TypedIsSeq

LEMMA FunctionSeq ==
    ASSUME NEW n \in Nat, NEW f, f = [i \in 1..n |-> f[i]]
    PROVE  IsSeq(f) /\ Len(f) = n
<1>1. DOMAIN f = 1..n OBVIOUS
<1>2. \A i \in 1..n : f[i] \in ToSet(f) BY <1>1 DEF ToSet
<1>3. f \in [1..n -> ToSet(f)] BY <1>1, <1>2
<1> QED BY <1>1, <1>3 DEF IsSeq

LEMMA AppendItem ==
    ASSUME NEW items, IsSeq(items), NEW x
    PROVE  /\ IsSeq(Append(items, x)) /\ Len(Append(items, x)) = Len(items) + 1
           /\ \A k \in DOMAIN items : Append(items, x)[k] = items[k]
           /\ Append(items, x)[Len(items) + 1] = x
<1> DEFINE S == ToSet(items) \cup {x}
<1>1. items \in Seq(S) /\ x \in S BY DEF IsSeq
<1> HIDE DEF S
<1>2. /\ Append(items, x) \in Seq(S) /\ Len(Append(items, x)) = Len(items) + 1
      /\ Append(items, x)[Len(items) + 1] = x /\ DOMAIN items = 1..Len(items)
      /\ \A k \in 1..Len(items) : Append(items, x)[k] = items[k]
  BY <1>1, AppendProperties
<1>3. IsSeq(Append(items, x)) BY <1>2, TypedIsSeq
<1> QED BY <1>2, <1>3

LEMMA MapSeq ==
    ASSUME NEW s, IsSeq(s), NEW t, t = [k \in DOMAIN s |-> t[k]]
    PROVE  IsSeq(t) /\ Len(t) = Len(s) /\ DOMAIN t = DOMAIN s /\ ToSet(t) = {t[k] : k \in DOMAIN s}
<1>1. Len(s) \in Nat /\ DOMAIN s = 1..Len(s) BY SeqFacts
<1>2. DOMAIN t = DOMAIN s OBVIOUS
<1>3. t = [k \in 1..Len(s) |-> t[k]] BY <1>1
<1> QED BY <1>1, <1>2, <1>3, FunctionSeq DEF ToSet

\* The head of a list, and what is left of it.
LEMMA HeadTail ==
    ASSUME NEW s, IsSeq(s), s # <<>>
    PROVE  /\ IsSeq(Tail(s)) /\ ToSet(s) = {Head(s)} \cup ToSet(Tail(s))
<1>1. s \in Seq(ToSet(s)) /\ DOMAIN s = 1..Len(s) /\ Len(s) \in Nat \ {0} BY SeqFacts DEF IsSeq
<1>2. Tail(s) \in Seq(ToSet(s)) /\ Len(Tail(s)) = Len(s) - 1 /\ \A i \in 1..(Len(s) - 1) : Tail(s)[i] = s[i + 1]
  BY <1>1
<1>3. IsSeq(Tail(s)) BY <1>2, TypedIsSeq
<1>4. DOMAIN Tail(s) = 1..(Len(s) - 1) BY <1>2, <1>3, SeqFacts
<1>5. Head(s) = s[1] BY <1>1
<1>6. \A x \in ToSet(s) : x = Head(s) \/ x \in ToSet(Tail(s))
  <2> SUFFICES ASSUME NEW i \in 1..Len(s), i # 1 PROVE s[i] \in ToSet(Tail(s)) BY <1>1, <1>5 DEF ToSet
  <2>1. i - 1 \in 1..(Len(s) - 1) /\ (i - 1) + 1 = i BY <1>1
  <2>2. s[i] = Tail(s)[i - 1] BY <1>2, <2>1
  <2> QED BY <1>4, <2>1, <2>2 DEF ToSet
<1>7. \A x \in ToSet(Tail(s)) : x \in ToSet(s)
  <2>1. \A i \in 1..(Len(s) - 1) : i + 1 \in DOMAIN s BY <1>1
  <2> QED BY <1>2, <1>4, <2>1 DEF ToSet
<1>8. Head(s) \in ToSet(s) BY <1>1, <1>5 DEF ToSet
<1> QED BY <1>3, <1>6, <1>7, <1>8

\* The places of a list are numbers, and one entry can be put in place of another.
LEMMA ReplaceOne ==
    ASSUME NEW s, IsSeq(s), NEW k \in DOMAIN s, NEW x PROVE IsSeq([s EXCEPT ![k] = x])
<1>1. s \in Seq(ToSet(s) \cup {x}) BY DEF IsSeq
<1>2. [s EXCEPT ![k] = x] \in Seq(ToSet(s) \cup {x}) BY <1>1
<1> QED BY <1>2, TypedIsSeq

-----------------------------------------------------------------------------
(* Induction. *)

LEMMA Least ==
    ASSUME NEW S \in SUBSET Nat, S # {}
    PROVE  \E n \in S : \A m \in S : n <= m
<1> DEFINE R == {rr \in Nat \X Nat : rr[1] < rr[2]}
<1>1. IsWellFoundedOn(R, Nat) BY NatLessThanWellFounded DEF OpToRel
<1> HIDE DEF R
<1>2. PICK n \in S : \A m \in S : ~(<<m, n>> \in R) BY <1>1, WFMin
<1>3. ASSUME NEW m \in S PROVE n <= m
  <2>1. ~(<<m, n>> \in R) BY <1>2
  <2>2. <<m, n>> \in Nat \X Nat BY <1>2
  <2>3. ~(m < n) BY <2>1, <2>2 DEF R
  <2> QED BY <2>3
<1> QED BY <1>2, <1>3

LEMMA SetInduction ==
    ASSUME NEW S \in SUBSET Nat, 0 \in S, \A n \in S : n + 1 \in S
    PROVE  S = Nat
<1>1. SUFFICES ASSUME Nat \ S # {} PROVE FALSE OBVIOUS
<1> DEFINE T == Nat \ S
<1>2. PICK n \in T : \A m \in T : n <= m
  <2>1. T \in SUBSET Nat /\ T # {} BY <1>1
  <2> HIDE DEF T
  <2> QED BY <2>1, Least
<1>3. n # 0 /\ n - 1 \in Nat BY <1>2
<1>4. n - 1 \in S BY <1>2, <1>3
<1>5. (n - 1) + 1 \in S BY <1>4
<1> QED BY <1>5, <1>2, <1>3

\* The same up to a bound.
LEMMA BoundedInduction ==
    ASSUME NEW n \in Nat, NEW S, 0 \in S, \A k \in 0..(n - 1) : k \in S => k + 1 \in S
    PROVE  \A k \in 0..n : k \in S
<1> DEFINE A == {k \in Nat : k <= n => k \in S}
<1>1. A \in SUBSET Nat /\ 0 \in A OBVIOUS
<1>2. \A k \in A : k + 1 \in A OBVIOUS
<1> HIDE DEF A
<1>3. A = Nat BY <1>1, <1>2, SetInduction
<1> QED BY <1>3 DEF A

Recurs(f, n, base, F) == \A i \in 0..n : f[i] = IF i = 0 THEN base ELSE F[<<f[i - 1], i>>]

\* A recursive definition over 0..n has a solution, with values in V.
LEMMA Recursion ==
    ASSUME NEW n \in Nat, NEW V, NEW base \in V, NEW F \in [V \X (1..n) -> V]
    PROVE  \E f \in [0..n -> V] : Recurs(f, n, base, F)
<1> DEFINE S == {m \in Nat : \E f \in [0..m -> V] :
                               \A i \in 0..m : f[i] = IF i = 0 THEN base ELSE F[<<f[i - 1], i>>]}
<1>1. 0 \in S
  <2> DEFINE f == [i \in 0..0 |-> base]
  <2>1. f \in [0..0 -> V] /\ \A i \in 0..0 : i = 0 /\ f[i] = base OBVIOUS
  <2> QED BY <2>1
<1>2. ASSUME NEW k \in 0..(n - 1), k \in S PROVE k + 1 \in S
  <2>1. PICK f \in [0..k -> V] : \A i \in 0..k : f[i] = IF i = 0 THEN base ELSE F[<<f[i - 1], i>>]
    BY <1>2
  <2> DEFINE g == [i \in 0..(k + 1) |-> IF i <= k THEN f[i] ELSE F[<<f[k], k + 1>>]]
  <2>2. f[k] \in V /\ k + 1 \in 1..n /\ F[<<f[k], k + 1>>] \in V BY <2>1
  <2>3. g \in [0..(k + 1) -> V] BY <2>1, <2>2
  <2>4. ASSUME NEW i \in 0..(k + 1) PROVE g[i] = IF i = 0 THEN base ELSE F[<<g[i - 1], i>>]
    <3>1. CASE i <= k
      <4>1. i \in 0..k /\ g[i] = f[i] /\ (i # 0 => i - 1 \in 0..k /\ g[i - 1] = f[i - 1]) BY <3>1
      <4> QED BY <2>1, <4>1
    <3>2. CASE i = k + 1
      <4>1. i # 0 /\ i - 1 = k /\ g[i - 1] = f[k] /\ g[i] = F[<<f[k], k + 1>>] BY <3>2
      <4> QED BY <3>2, <4>1
    <3> QED BY <3>1, <3>2
  <2>5. k + 1 \in Nat OBVIOUS
  <2> HIDE DEF g
  <2> QED BY <2>3, <2>4, <2>5
<1>3. n \in S
  <2> HIDE DEF S
  <2>1. \A k \in 0..n : k \in S BY <1>1, <1>2, BoundedInduction
  <2> QED BY <2>1
<1> QED BY <1>3 DEF Recurs

-----------------------------------------------------------------------------
(* Folds from the left. *)

LEMMA MaxLemma == ASSUME NEW k \in Nat PROVE Max(1..(k + 1)) = k + 1
  BY DEF Max

LEMMA MaxIn ==
    ASSUME NEW n \in Nat, NEW T \in SUBSET (1..n), T # {}
    PROVE  Max(T) \in T /\ \A y \in T : Max(T) >= y
<1> DEFINE U == {n - t : t \in T}
<1>0. \A t \in T : t \in 1..n /\ n - t \in Nat OBVIOUS
<1>1. U \in SUBSET Nat /\ U # {} BY <1>0
<1> HIDE DEF U
<1>2. PICK u \in U : \A v \in U : u <= v BY <1>1, Least
<1>3. PICK t \in T : u = n - t BY <1>2 DEF U
<1>4. \A y \in T : n - y \in U BY DEF U
<1>5. \A y \in T : t >= y BY <1>2, <1>3, <1>4
<1> QED BY <1>3, <1>5 DEF Max

Folds(g, n, base, F) ==
  \A T \in SUBSET (1..n) : g[T] = IF T = {} THEN base ELSE F[<<g[T \ {Max(T)}], Max(T)>>]

\* So has the fold from the left, which recurs over sets of places.
LEMMA FoldIter ==
    ASSUME NEW n \in Nat, NEW V, NEW base \in V, NEW F \in [V \X (1..n) -> V]
    PROVE  \E g \in [SUBSET (1..n) -> V] : Folds(g, n, base, F)
<1>a. ASSUME NEW T \in SUBSET (1..n), T # {} PROVE Max(T) \in T /\ \A y \in T : Max(T) >= y
  BY <1>a, MaxIn
<1> DEFINE Sol(m, g) == \A T \in SUBSET (1..m) : g[T] = IF T = {} THEN base ELSE F[<<g[T \ {Max(T)}], Max(T)>>]
           S == {m \in Nat : \E g \in [SUBSET (1..m) -> V] : Sol(m, g)}
<1>1. 0 \in S
  <2> DEFINE g == [T \in SUBSET (1..0) |-> base]
  <2>1. g \in [SUBSET (1..0) -> V] /\ \A T \in SUBSET (1..0) : T = {} /\ g[T] = base OBVIOUS
  <2>2. Sol(0, g) BY <2>1
  <2> QED BY <2>1, <2>2
<1>2. ASSUME NEW k \in 0..(n - 1), k \in S PROVE k + 1 \in S
  <2>1. PICK f \in [SUBSET (1..k) -> V] : Sol(k, f) BY <1>2
  <2> DEFINE g == [T \in SUBSET (1..(k + 1)) |-> IF T = {} THEN base ELSE F[<<f[T \ {Max(T)}], Max(T)>>]]
  <2>2. ASSUME NEW T \in SUBSET (1..(k + 1)), T # {}
        PROVE  T \ {Max(T)} \in SUBSET (1..k) /\ Max(T) \in 1..n
    <3>1. T \in SUBSET (1..n) OBVIOUS
    <3>2. Max(T) \in T /\ \A y \in T : Max(T) >= y BY <1>a, <2>2, <3>1
    <3> DEFINE x == Max(T)
    <3>a. x \in T /\ \A y \in T : x >= y BY <3>2
    <3> HIDE DEF x
    <3>3. x \in 1..(k + 1) /\ x \in 1..n BY <3>1, <3>a
    <3>4. ASSUME NEW y \in T, y # x PROVE y \in 1..k
      <4>1. y \in 1..(k + 1) /\ x >= y BY <3>a
      <4> QED BY <3>3, <3>4, <4>1
    <3>5. T \ {x} \in SUBSET (1..k) BY <3>4
    <3> QED BY <3>3, <3>5 DEF x
  <2>3. g \in [SUBSET (1..(k + 1)) -> V] BY <2>1, <2>2
  <2>4. \A T \in SUBSET (1..k) : g[T] = f[T]
    <3> SUFFICES ASSUME NEW T \in SUBSET (1..k) PROVE g[T] = f[T] OBVIOUS
    <3>1. T \in SUBSET (1..(k + 1)) OBVIOUS
    <3>2. f[T] = IF T = {} THEN base ELSE F[<<f[T \ {Max(T)}], Max(T)>>] BY <2>1
    <3> QED BY <3>1, <3>2
  <2>5. Sol(k + 1, g) BY <2>2, <2>4
  <2>6. k + 1 \in Nat OBVIOUS
  <2> HIDE DEF g, Sol
  <2> QED BY <2>3, <2>5, <2>6
<1>3. n \in S
  <2> HIDE DEF S
  <2>1. \A k \in 0..n : k \in S BY <1>1, <1>2, BoundedInduction
  <2> QED BY <2>1
<1> QED BY <1>3 DEF Folds

\* What such a fold comes to, step by step; h follows F where its values are in V.
Follows(h, n, V, base, F) ==
  /\ h[{}] = base
  /\ \A T \in SUBSET (1..n) :
       T # {} /\ h[T \ {Max(T)}] \in V => h[T] = F[<<h[T \ {Max(T)}], Max(T)>>]

Reaches(f, n, base, F, r) == Recurs(f, n, base, F) /\ f[n] = r

LEMMA FoldSteps ==
    ASSUME NEW n \in Nat, NEW V, NEW base \in V, NEW F \in [V \X (1..n) -> V],
           NEW h, Follows(h, n, V, base, F)
    PROVE  \E f \in [0..n -> V] : Reaches(f, n, base, F, h[1..n])
<1> DEFINE f == [i \in 0..n |-> h[1..i]]
<1>1. f[0] = base
  <2>1. 1..0 = {} OBVIOUS
  <2> QED BY <2>1 DEF Follows
<1>2. ASSUME NEW i \in 1..n, f[i - 1] \in V PROVE f[i] = F[<<f[i - 1], i>>]
  <2>1. i - 1 \in Nat /\ i = (i - 1) + 1 /\ i - 1 \in 0..n /\ i \in 0..n OBVIOUS
  <2>2. Max(1..i) = i BY <2>1, MaxLemma
  <2>3. (1..i) \ {i} = 1..(i - 1) /\ 1..i \in SUBSET (1..n) /\ 1..i # {}
    <3>1. (1..i) \ {i} = 1..(i - 1) BY <2>1
    <3>2. 1..i \in SUBSET (1..n) /\ i \in 1..i BY <2>1
    <3> QED BY <3>1, <3>2
  <2>4. f[i - 1] = h[1..(i - 1)] /\ f[i] = h[1..i] BY <2>1
  <2> HIDE DEF f
  <2> QED BY <1>2, <2>2, <2>3, <2>4 DEF Follows
<1> DEFINE S == {i \in 0..n : f[i] \in V}
<1>3. \A i \in 0..n : i \in S
  <2>1. 0 \in S BY <1>1
  <2>2. ASSUME NEW k \in 0..(n - 1), k \in S PROVE k + 1 \in S
    <3>1. k + 1 \in 1..n /\ k + 1 \in 0..n /\ (k + 1) - 1 = k OBVIOUS
    <3> HIDE DEF f
    <3>2. f[k + 1] = F[<<f[k], k + 1>>] /\ f[k] \in V BY <1>2, <2>2, <3>1
    <3> QED BY <3>1, <3>2
  <2> HIDE DEF S
  <2> QED BY <2>1, <2>2, BoundedInduction
<1>4. f \in [0..n -> V] BY <1>3
<1>5. \A i \in 0..n : f[i] = IF i = 0 THEN base ELSE F[<<f[i - 1], i>>]
  <2> SUFFICES ASSUME NEW i \in 0..n, i # 0 PROVE f[i] = F[<<f[i - 1], i>>] BY <1>1
  <2>1. i \in 1..n /\ i - 1 \in 0..n OBVIOUS
  <2> HIDE DEF f
  <2>2. f[i - 1] \in V BY <1>4, <2>1
  <2> QED BY <1>2, <2>1, <2>2
<1>6. f[n] = h[1..n] OBVIOUS
<1> HIDE DEF f
<1> QED BY <1>4, <1>5, <1>6 DEF Recurs, Reaches

-----------------------------------------------------------------------------
(* What a loop keeps of a list. *)

Chosen(f, s, K) ==
  /\ f[0] = <<>> /\ Among(s, K) = f[Len(s)]
  /\ \A i \in 1..Len(s) : f[i] = IF i \in K THEN Append(f[i - 1], s[i]) ELSE f[i - 1]

LEMMA AmongUnrolled ==
    ASSUME NEW s, IsSeq(s), NEW K
    PROVE  \E f \in [0..Len(s) -> Seq(ToSet(s))] : Chosen(f, s, K)
<1> DEFINE n == Len(s)
           V == Seq(ToSet(s))
           F == [w \in V \X (1..n) |-> IF w[2] \in K THEN Append(w[1], s[w[2]]) ELSE w[1]]
           Solves(f) == f = [i \in 0..n |-> IF i = 0 THEN <<>>
                                            ELSE IF i \in K THEN Append(f[i - 1], s[i]) ELSE f[i - 1]]
<1>1. n \in Nat /\ \A i \in 1..n : s[i] \in ToSet(s) BY SeqFacts
<1>2. <<>> \in V BY EmptySeq
<1>3. F \in [V \X (1..n) -> V] BY <1>1
<1>4. \A v \in V, i \in 1..n : F[<<v, i>>] = IF i \in K THEN Append(v, s[i]) ELSE v OBVIOUS
<1> DEFINE none == <<>>
<1> HIDE DEF F, V, n, none
<1>5. PICK f \in [0..n -> V] : \A i \in 0..n : f[i] = IF i = 0 THEN none ELSE F[<<f[i - 1], i>>]
  <2>1. none \in V BY <1>2 DEF none
  <2>2. \E f \in [0..n -> V] : Recurs(f, n, none, F) BY <1>1, <1>3, <2>1, Recursion
  <2> QED BY <2>2 DEF Recurs
<1>6. Solves(f)
  <2>1. \A i \in 0..n : f[i] = IF i = 0 THEN none
                               ELSE IF i \in K THEN Append(f[i - 1], s[i]) ELSE f[i - 1]
    <3> SUFFICES ASSUME NEW i \in 0..n, i # 0 PROVE f[i] = IF i \in K THEN Append(f[i - 1], s[i]) ELSE f[i - 1]
      BY <1>5
    <3>1. i \in 1..n /\ i - 1 \in 0..n /\ f[i - 1] \in V BY <1>1
    <3>2. f[i] = F[<<f[i - 1], i>>] BY <1>5, <3>1
    <3> QED BY <1>4, <3>1, <3>2
  <2>2. f = [i \in 0..n |-> f[i]] OBVIOUS
  <2> QED BY <2>1, <2>2 DEF none
<1> DEFINE g == CHOOSE g : Solves(g)
<1>7. Solves(g) BY <1>6
<1>8. Among(s, K) = g[n] BY DEF Among, n
<1> HIDE DEF g
<1>9. /\ g[0] = <<>>
      /\ \A i \in 1..n : g[i] = IF i \in K THEN Append(g[i - 1], s[i]) ELSE g[i - 1]
  <2>1. g[0] = <<>> BY <1>1, <1>7
  <2>2. ASSUME NEW i \in 1..n PROVE g[i] = IF i \in K THEN Append(g[i - 1], s[i]) ELSE g[i - 1]
    <3>1. i \in 0..n /\ i # 0 BY <1>1
    <3> QED BY <1>7, <3>1
  <2> QED BY <2>1, <2>2
<1> HIDE DEF Solves
<1>10. \A i \in 0..n : i \in {j \in 0..n : g[j] \in V}
  <2> DEFINE S == {j \in 0..n : g[j] \in V}
  <2>1. 0 \in S BY <1>1, <1>2, <1>9
  <2>2. ASSUME NEW k \in 0..(n - 1), k \in S PROVE k + 1 \in S
    <3>1. k + 1 \in 1..n /\ k + 1 \in 0..n /\ (k + 1) - 1 = k BY <1>1
    <3>2. g[k + 1] = IF k + 1 \in K THEN Append(g[k], s[k + 1]) ELSE g[k] BY <1>9, <3>1
    <3>3. g[k] \in V /\ s[k + 1] \in ToSet(s) BY <1>1, <2>2, <3>1
    <3>4. Append(g[k], s[k + 1]) \in V BY <3>3 DEF V
    <3> QED BY <3>1, <3>2, <3>3, <3>4
  <2> HIDE DEF S
  <2>3. \A k \in 0..n : k \in S BY <1>1, <2>1, <2>2, BoundedInduction
  <2> QED BY <2>3 DEF S
<1>11. g = [i \in 0..n |-> g[i]] BY <1>7 DEF Solves
<1>12. g \in [0..n -> V] BY <1>10, <1>11
<1>13. Chosen(g, s, K) BY <1>8, <1>9 DEF n, Chosen
<1> QED BY <1>12, <1>13 DEF n, V

\* p gives the places in s[1..n] of the elements of r: all that are in K, in their order.
Picks(p, r, s, n, K) ==
  /\ p \in [1..Len(r) -> 1..n]
  /\ \A j \in 1..Len(r) : r[j] = s[p[j]] /\ p[j] \in K
  /\ \A j, k \in 1..Len(r) : j < k => p[j] < p[k]
  /\ \A i \in 1..n : i \in K => \E j \in 1..Len(r) : p[j] = i

LEMMA AmongLemma ==
    ASSUME NEW s, IsSeq(s), NEW K
    PROVE  /\ IsSeq(Among(s, K)) /\ Among(s, K) \in Seq(ToSet(s))
           /\ Len(Among(s, K)) <= Len(s)
           /\ \E p : Picks(p, Among(s, K), s, Len(s), K)
<1> DEFINE n == Len(s)
           V == Seq(ToSet(s))
<1>1. n \in Nat /\ \A i \in 1..n : s[i] \in ToSet(s) BY SeqFacts
<1>2. PICK f \in [0..n -> V] :
        /\ f[0] = <<>> /\ Among(s, K) = f[n]
        /\ \A i \in 1..n : f[i] = IF i \in K THEN Append(f[i - 1], s[i]) ELSE f[i - 1]
  <2>1. \E f \in [0..Len(s) -> Seq(ToSet(s))] : Chosen(f, s, K) BY AmongUnrolled
  <2> QED BY <2>1 DEF Chosen
<1> DEFINE S == {i \in 0..n : Len(f[i]) <= i /\ \E p : Picks(p, f[i], s, i, K)}
<1>3. 0 \in S
  <2>1. Len(f[0]) = 0 /\ 1..0 = {} BY <1>2, EmptyIsSeq
  <2>2. Picks([i \in 1..0 |-> i], f[0], s, 0, K) BY <2>1 DEF Picks
  <2> QED BY <1>1, <2>1, <2>2
<1>4. ASSUME NEW k \in 0..(n - 1), k \in S PROVE k + 1 \in S
  <2>1. k + 1 \in 1..n /\ k + 1 \in 0..n /\ (k + 1) - 1 = k /\ k \in 0..n BY <1>1
  <2>2. f[k + 1] = IF k + 1 \in K THEN Append(f[k], s[k + 1]) ELSE f[k] BY <1>2, <2>1
  <2>3. PICK p : Picks(p, f[k], s, k, K) BY <1>4
  <2>4. Len(f[k]) <= k /\ f[k] \in V /\ Len(f[k]) \in Nat BY <1>2, <1>4, <2>1
  <2>5. CASE k + 1 \notin K
    <3>a. \A i \in 1..(k + 1) : i \in K => i \in 1..k BY <2>5
    <3>1. Picks(p, f[k + 1], s, k + 1, K) BY <2>1, <2>2, <2>3, <2>4, <2>5, <3>a DEF Picks
    <3> QED BY <2>1, <2>2, <2>4, <2>5, <3>1
  <2>6. CASE k + 1 \in K
    <3> DEFINE l == Len(f[k])
               r == Append(f[k], s[k + 1])
               q == [j \in 1..(l + 1) |-> IF j <= l THEN p[j] ELSE k + 1]
    <3>1. Len(r) = l + 1 /\ r[l + 1] = s[k + 1] /\ \A j \in 1..l : r[j] = f[k][j]
      BY <1>1, <2>1, <2>4
    <3>2. \A j \in 1..l : p[j] \in 1..k /\ f[k][j] = s[p[j]] /\ p[j] \in K BY <2>3 DEF Picks
    <3>3. \A i, j \in 1..l : i < j => p[i] < p[j] BY <2>3 DEF Picks
    <3>4. l \in Nat /\ l <= k BY <2>4
    <3> HIDE DEF l, r
    <3>5. q \in [1..(l + 1) -> 1..(k + 1)] BY <2>1, <3>2, <3>4
    <3>6. \A j \in 1..(l + 1) : r[j] = s[q[j]] /\ q[j] \in K BY <2>6, <3>1, <3>2, <3>4
    <3>7. \A i, j \in 1..(l + 1) : i < j => q[i] < q[j]
      <4> SUFFICES ASSUME NEW i \in 1..(l + 1), NEW j \in 1..(l + 1), i < j PROVE q[i] < q[j] OBVIOUS
      <4>1. i \in 1..l /\ q[i] = p[i] /\ p[i] \in 1..k BY <3>2, <3>4
      <4>2. CASE j \in 1..l BY <3>3, <4>1, <4>2
      <4>3. CASE j = l + 1
        <5>1. q[j] = k + 1 BY <3>4, <4>3
        <5> QED BY <4>1, <5>1
      <4> QED BY <3>4, <4>2, <4>3
    <3>a. ASSUME NEW i \in 1..(k + 1), i \in K PROVE \E j \in 1..(l + 1) : q[j] = i
      <4>1. CASE i \in 1..k
        <5>1. \E j \in 1..l : p[j] = i BY <2>3, <3>a, <4>1 DEF Picks, l
        <5> QED BY <3>4, <5>1
      <4>2. CASE i = k + 1
        <5>1. l + 1 \in 1..(l + 1) /\ q[l + 1] = k + 1 BY <3>4
        <5> QED BY <4>2, <5>1
      <4> QED BY <2>1, <4>1, <4>2
    <3> HIDE DEF q
    <3>8. Picks(q, r, s, k + 1, K) BY <3>1, <3>5, <3>6, <3>7, <3>a DEF Picks
    <3>9. f[k + 1] = r BY <2>2, <2>6 DEF r
    <3> QED BY <2>1, <3>1, <3>4, <3>8, <3>9
  <2> QED BY <2>5, <2>6
<1>5. n \in S
  <2> HIDE DEF S
  <2>1. \A k \in 0..n : k \in S BY <1>1, <1>3, <1>4, BoundedInduction
  <2> QED BY <1>1, <2>1
<1>6. Among(s, K) \in V BY <1>1, <1>2
<1>7. IsSeq(Among(s, K)) BY <1>6, TypedIsSeq
<1> QED BY <1>2, <1>5, <1>6, <1>7

\* The steps of a concatenation of lists.
Joined(f, ss) ==
  /\ f[0] = <<>> /\ f[Len(ss)] = FlattenSeq(ss)
  /\ \A i \in 0..Len(ss) : IsSeq(f[i])
  /\ \A i \in 1..Len(ss) : f[i] = f[i - 1] \o ss[i]

LEMMA FlattenUnrolled ==
    ASSUME NEW ss, IsSeq(ss), \A i \in DOMAIN ss : IsSeq(ss[i])
    PROVE  \E f : Joined(f, ss)
<1> DEFINE n == Len(ss)
           U == UNION {ToSet(ss[i]) : i \in DOMAIN ss}
           V == Seq(U)
           F == [w \in V \X (1..n) |-> IF w[2] = 1 THEN ss[1] ELSE w[1] \o ss[w[2]]]
           Solves(f) == f = [i \in 1..n |-> IF i = 1 THEN ss[i] ELSE f[i - 1] \o ss[i]]
<1>1. n \in Nat /\ DOMAIN ss = 1..n BY SeqFacts
<1>2. CASE n = 0
  <2>1. FlattenSeq(ss) = ss /\ ss = <<>> BY <1>1, <1>2, EmptyIsSeq DEF FlattenSeq, IsSeq
  <2> DEFINE f == [i \in {0} |-> <<>>]
  <2>2. f[0] = <<>> OBVIOUS
  <2> HIDE DEF f
  <2>3. Joined(f, ss) BY <1>1, <1>2, <2>1, <2>2, EmptyIsSeq DEF Joined
  <2> QED BY <2>3
<1>3. CASE n # 0
  <2>1. \A i \in 1..n : ss[i] \in V
    <3> SUFFICES ASSUME NEW i \in 1..n PROVE ss[i] \in V OBVIOUS
    <3>1. ToSet(ss[i]) \subseteq U /\ ss[i] \in Seq(ToSet(ss[i])) BY <1>1 DEF IsSeq
    <3> HIDE DEF U
    <3> QED BY <3>1
  <2>2. F \in [V \X (1..n) -> V] BY <1>1, <1>3, <2>1
  <2>3. \A v \in V, i \in 1..n : F[<<v, i>>] = IF i = 1 THEN ss[1] ELSE v \o ss[i] OBVIOUS
  <2> DEFINE none == <<>>
  <2>4. none \in V BY EmptySeq
  <2> HIDE DEF F, V, n, U, none
  <2>5. PICK f \in [0..n -> V] : \A i \in 0..n : f[i] = IF i = 0 THEN none ELSE F[<<f[i - 1], i>>]
    <3>1. \E f \in [0..n -> V] : Recurs(f, n, none, F) BY <1>1, <2>2, <2>4, Recursion
    <3> QED BY <3>1 DEF Recurs
  <2>6. \E g : Solves(g)
    <3> DEFINE g == [i \in 1..n |-> f[i]]
    <3>1. ASSUME NEW i \in 1..n PROVE g[i] = IF i = 1 THEN ss[i] ELSE g[i - 1] \o ss[i]
      <4>1. i \in 0..n /\ i # 0 /\ i - 1 \in 0..n /\ (i # 1 => i - 1 \in 1..n) BY <1>1
      <4>2. f[i] = IF i = 1 THEN ss[1] ELSE f[i - 1] \o ss[i] BY <2>3, <2>5, <4>1
      <4> QED BY <4>1, <4>2
    <3>2. g = [i \in 1..n |-> g[i]] OBVIOUS
    <3> HIDE DEF g
    <3>3. Solves(g) BY <3>1, <3>2
    <3> QED BY <3>3
  <2> DEFINE g == CHOOSE g : Solves(g)
  <2>7. Solves(g) BY <2>6
  <2>8. FlattenSeq(ss) = g[n] BY <1>3 DEF FlattenSeq, n
  <2> HIDE DEF g
  <2>9. g[1] = ss[1] /\ \A i \in 1..(n - 1) : g[i + 1] = g[i] \o ss[i + 1]
    <3>1. 1 \in 1..n BY <1>1, <1>3
    <3>2. ASSUME NEW i \in 1..(n - 1) PROVE g[i + 1] = g[i] \o ss[i + 1]
      <4>1. i + 1 \in 1..n /\ i + 1 # 1 /\ (i + 1) - 1 = i BY <1>1
      <4> QED BY <2>7, <4>1
    <3> QED BY <2>7, <3>1, <3>2
  <2> HIDE DEF Solves
  <2> DEFINE S == {i \in 0..n : i # 0 => IsSeq(g[i])}
  <2>10. \A i \in 0..n : i \in S
    <3>1. 0 \in S BY <1>1
    <3>2. ASSUME NEW k \in 0..(n - 1), k \in S PROVE k + 1 \in S
      <4>1. k + 1 \in 1..n /\ k + 1 \in 0..n /\ k \in Nat BY <1>1
      <4>2. CASE k = 0 BY <1>1, <2>9, <4>1, <4>2
      <4>3. CASE k # 0
        <5>1. IsSeq(g[k]) /\ IsSeq(ss[k + 1]) /\ g[k + 1] = g[k] \o ss[k + 1]
          BY <1>1, <2>9, <3>2, <4>1, <4>3
        <5>2. IsSeq(g[k + 1]) BY <5>1, ConcatLemma
        <5> QED BY <4>1, <5>2
      <4> QED BY <4>2, <4>3
    <3> HIDE DEF S
    <3> QED BY <1>1, <3>1, <3>2, BoundedInduction
  <2> DEFINE h == [i \in 0..n |-> IF i = 0 THEN <<>> ELSE g[i]]
  <2>11. h[0] = <<>> /\ h[n] = FlattenSeq(ss) BY <1>1, <1>3, <2>8
  <2>12. \A i \in 0..n : IsSeq(h[i]) BY <2>10, EmptyIsSeq
  <2>13. ASSUME NEW i \in 1..n PROVE h[i] = h[i - 1] \o ss[i]
    <3>1. CASE i = 1
      <4>1. h[i] = ss[1] /\ h[i - 1] = <<>> /\ IsSeq(ss[1]) BY <1>1, <2>9, <3>1
      <4>2. <<>> \o ss[1] = ss[1]
        <5>1. ss[1] \in Seq(ToSet(ss[1])) BY <4>1 DEF IsSeq
        <5> QED BY <5>1
      <4> QED BY <3>1, <4>1, <4>2
    <3>2. CASE i # 1
      <4>1. i - 1 \in 1..(n - 1) /\ (i - 1) + 1 = i /\ i \in 0..n /\ i - 1 \in 0..n BY <1>1, <3>2
      <4>2. g[i] = g[i - 1] \o ss[i] BY <2>9, <4>1
      <4>3. h[i] = g[i] /\ h[i - 1] = g[i - 1] BY <4>1, <3>2
      <4> HIDE DEF h
      <4> QED BY <4>2, <4>3
    <3> QED BY <3>1, <3>2
  <2> HIDE DEF h
  <2>14. Joined(h, ss) BY <2>11, <2>12, <2>13 DEF Joined, n
  <2> QED BY <2>14
<1> QED BY <1>2, <1>3

LEMMA FlattenLemma ==
    ASSUME NEW ss, IsSeq(ss), \A i \in DOMAIN ss : IsSeq(ss[i])
    PROVE  /\ IsSeq(FlattenSeq(ss))
           /\ ToSet(FlattenSeq(ss)) = UNION {ToSet(ss[i]) : i \in DOMAIN ss}
<1> DEFINE n == Len(ss)
<1>1. n \in Nat /\ DOMAIN ss = 1..n BY SeqFacts
<1>2. PICK f : Joined(f, ss) BY FlattenUnrolled
<1>3. /\ f[0] = <<>> /\ f[n] = FlattenSeq(ss) /\ \A i \in 0..n : IsSeq(f[i])
      /\ \A i \in 1..n : f[i] = f[i - 1] \o ss[i]
  BY <1>2 DEF Joined
<1> DEFINE S == {i \in 0..n : ToSet(f[i]) = UNION {ToSet(ss[j]) : j \in 1..i}}
<1>4. 0 \in S
  <2>1. 1..0 = {} /\ ToSet(f[0]) = {} BY <1>3, EmptyIsSeq
  <2> QED BY <1>1, <2>1
<1>5. ASSUME NEW k \in 0..(n - 1), k \in S PROVE k + 1 \in S
  <2>1. k + 1 \in 1..n /\ k + 1 \in 0..n /\ k \in 0..n /\ (k + 1) - 1 = k BY <1>1
  <2>2. f[k + 1] = f[k] \o ss[k + 1] /\ IsSeq(f[k]) /\ IsSeq(ss[k + 1]) BY <1>1, <1>3, <2>1
  <2>3. ToSet(f[k + 1]) = ToSet(f[k]) \cup ToSet(ss[k + 1]) BY <2>2, ConcatLemma
  <2>4. 1..(k + 1) = 1..k \cup {k + 1} BY <2>1
  <2>5. ToSet(f[k + 1]) = UNION {ToSet(ss[j]) : j \in 1..(k + 1)} BY <1>5, <2>3, <2>4
  <2> QED BY <2>1, <2>5
<1> HIDE DEF S
<1>6. \A i \in 0..n : i \in S BY <1>1, <1>4, <1>5, BoundedInduction
<1>7. n \in S BY <1>1, <1>6
<1> QED BY <1>1, <1>3, <1>7 DEF S

\* Two loops that keep the same of the same first n elements keep the same.
LEMMA ChosenAgree ==
    ASSUME NEW s, IsSeq(s), NEW t, IsSeq(t), NEW K, NEW J, NEW f, Chosen(f, s, K), NEW g, Chosen(g, t, J),
           NEW n \in Nat, n <= Len(s), n <= Len(t), \A i \in 1..n : s[i] = t[i] /\ (i \in K <=> i \in J)
    PROVE  f[n] = g[n]
<1>1. Len(s) \in Nat /\ Len(t) \in Nat BY SeqFacts
<1>2. f[0] = <<>> /\ \A i \in 1..Len(s) : f[i] = IF i \in K THEN Append(f[i - 1], s[i]) ELSE f[i - 1]
  BY DEF Chosen
<1>3. g[0] = <<>> /\ \A i \in 1..Len(t) : g[i] = IF i \in J THEN Append(g[i - 1], t[i]) ELSE g[i - 1]
  BY DEF Chosen
<1> DEFINE S == {i \in 0..n : f[i] = g[i]}
<1>4. 0 \in S BY <1>2, <1>3
<1>5. ASSUME NEW k \in 0..(n - 1), k \in S PROVE k + 1 \in S
  <2>1. k + 1 \in 1..Len(s) /\ k + 1 \in 1..Len(t) /\ k + 1 \in 1..n /\ k + 1 \in 0..n /\ (k + 1) - 1 = k
    BY <1>1
  <2>2. f[k] = g[k] BY <1>5
  <2> HIDE DEF S
  <2>3. f[k + 1] = IF k + 1 \in K THEN Append(f[k], s[k + 1]) ELSE f[k] BY <1>2, <2>1
  <2>4. g[k + 1] = IF k + 1 \in J THEN Append(g[k], t[k + 1]) ELSE g[k] BY <1>3, <2>1
  <2>5. f[k + 1] = g[k + 1] BY <2>1, <2>2, <2>3, <2>4
  <2> QED BY <2>1, <2>5 DEF S
<1> HIDE DEF S
<1>6. \A i \in 0..n : i \in S BY <1>4, <1>5, BoundedInduction
<1>7. n \in S BY <1>6
<1> QED BY <1>7 DEF S

LEMMA AmongSame ==
    ASSUME NEW s, IsSeq(s), NEW K, NEW J, \A i \in 1..Len(s) : i \in K <=> i \in J
    PROVE  Among(s, K) = Among(s, J)
<1>1. Len(s) \in Nat BY SeqFacts
<1>2. PICK f : Chosen(f, s, K) BY AmongUnrolled
<1>3. PICK g : Chosen(g, s, J) BY AmongUnrolled
<1> DEFINE n == Len(s)
           t == s
<1>4. n \in Nat /\ n <= Len(s) /\ n <= Len(t) /\ \A i \in 1..n : s[i] = t[i] /\ (i \in K <=> i \in J)
  BY <1>1
<1>a. Chosen(g, t, J) /\ IsSeq(t) BY <1>3
<1> HIDE DEF n, t
<1>5. f[n] = g[n] BY <1>2, <1>a, <1>4, ChosenAgree
<1> QED BY <1>2, <1>3, <1>5 DEF Chosen, n

\* One more element is kept or not.
LEMMA AmongAppend ==
    ASSUME NEW s, IsSeq(s), NEW x, NEW K, NEW J, \A i \in 1..Len(s) : i \in K <=> i \in J
    PROVE  Among(Append(s, x), J) = IF Len(s) + 1 \in J THEN Append(Among(s, K), x) ELSE Among(s, K)
<1> DEFINE t == Append(s, x)
           n == Len(s)
<1>1. n \in Nat /\ DOMAIN s = 1..n BY SeqFacts
<1>2. IsSeq(t) /\ Len(t) = n + 1 /\ t[n + 1] = x /\ \A i \in 1..n : t[i] = s[i] BY <1>1, AppendItem
<1> HIDE DEF t, n
<1>3. PICK f : Chosen(f, s, K) BY AmongUnrolled
<1>4. PICK g : Chosen(g, t, J) BY <1>2, AmongUnrolled
<1>5. n = Len(s) BY DEF n
<1>6. f[n] = g[n] BY <1>1, <1>2, <1>3, <1>4, <1>5, ChosenAgree
<1>7. n + 1 \in 1..(n + 1) /\ (n + 1) - 1 = n BY <1>1
<1>8. g[n + 1] = IF n + 1 \in J THEN Append(g[n], x) ELSE g[n] BY <1>2, <1>4, <1>7 DEF Chosen
<1>9. Among(s, K) = f[n] /\ Among(t, J) = g[n + 1] BY <1>2, <1>3, <1>4, <1>5 DEF Chosen
<1>10. Among(t, J) = IF n + 1 \in J THEN Append(Among(s, K), x) ELSE Among(s, K) BY <1>6, <1>8, <1>9
<1> QED BY <1>10 DEF n, t

\* A place after all that are kept is kept too.
LEMMA AmongLater ==
    ASSUME NEW s, IsSeq(s), NEW K, NEW l \in 1..Len(s), \A k \in 1..Len(s) : k \in K => k < l
    PROVE  Among(s, K \cup {l}) = Append(Among(s, K), s[l])
<1> DEFINE n == Len(s)
           J == K \cup {l}
<1>1. n \in Nat /\ l \in 1..n /\ l - 1 \in Nat /\ l - 1 <= n /\ n - l \in Nat BY SeqFacts
<1>2. \A i \in 1..(l - 1) : i \in K <=> i \in J BY <1>1
<1>3. l \in J /\ l \notin K /\ \A i \in (l + 1)..n : i \notin J /\ i \notin K BY <1>1
<1> HIDE DEF n, J
<1>4. n = Len(s) BY DEF n
<1>5. PICK f : Chosen(f, s, K) BY AmongUnrolled
<1>6. PICK g : Chosen(g, s, J) BY AmongUnrolled
<1>7. f[l - 1] = g[l - 1]
  <2> DEFINE m == l - 1
  <2>1. m \in Nat /\ m <= Len(s) /\ \A i \in 1..m : s[i] = s[i] /\ (i \in K <=> i \in J) BY <1>1, <1>2, <1>4
  <2> HIDE DEF m
  <2>2. f[m] = g[m] BY <1>5, <1>6, <2>1, ChosenAgree
  <2> QED BY <2>2 DEF m
<1>8. \A i \in 1..n : f[i] = IF i \in K THEN Append(f[i - 1], s[i]) ELSE f[i - 1] BY <1>4, <1>5 DEF Chosen
<1>9. \A i \in 1..n : g[i] = IF i \in J THEN Append(g[i - 1], s[i]) ELSE g[i - 1] BY <1>4, <1>6 DEF Chosen
<1>10. g[l] = Append(f[l], s[l]) BY <1>1, <1>3, <1>7, <1>8, <1>9
<1> DEFINE S == {i \in 0..(n - l) : f[l + i] = f[l] /\ g[l + i] = g[l]}
<1>11. 0 \in S BY <1>1
<1>12. ASSUME NEW k \in 0..(n - l), k \in S, k < n - l PROVE k + 1 \in S
  <2>1. l + (k + 1) \in 1..n /\ l + (k + 1) \in (l + 1)..n /\ (l + (k + 1)) - 1 = l + k /\ k + 1 \in 0..(n - l)
    BY <1>1, <1>12
  <2>2. f[l + k] = f[l] /\ g[l + k] = g[l] BY <1>12
  <2> HIDE DEF S
  <2>3. f[l + (k + 1)] = f[l + k] BY <1>3, <1>8, <2>1
  <2>4. g[l + (k + 1)] = g[l + k] BY <1>3, <1>9, <2>1
  <2> QED BY <2>1, <2>2, <2>3, <2>4 DEF S
<1> HIDE DEF S
<1>13. \A i \in 0..(n - l) : i \in S
  <2>1. \A k \in 0..((n - l) - 1) : k \in S => k + 1 \in S
    <3> SUFFICES ASSUME NEW k \in 0..((n - l) - 1), k \in S PROVE k + 1 \in S OBVIOUS
    <3>1. k \in 0..(n - l) /\ k < n - l BY <1>1
    <3> QED BY <1>12, <3>1
  <2> DEFINE m == n - l
  <2>2. m \in Nat BY <1>1
  <2> HIDE DEF m
  <2>3. \A k \in 0..(m - 1) : k \in S => k + 1 \in S BY <2>1 DEF m
  <2>4. \A i \in 0..m : i \in S BY <1>11, <2>2, <2>3, BoundedInduction
  <2> QED BY <2>4 DEF m
<1>14. n - l \in S BY <1>1, <1>13
<1>15. f[n] = f[l] /\ g[n] = g[l]
  <2>1. l + (n - l) = n BY <1>1
  <2> QED BY <1>14, <2>1 DEF S
<1>16. Among(s, K) = f[n] /\ Among(s, J) = g[n] BY <1>4, <1>5, <1>6 DEF Chosen
<1> QED BY <1>10, <1>15, <1>16 DEF J

TellsOf(m, a) == m = [k \in DOMAIN a |-> m[k]]

\* What is said of each element of a list, when it grows.
LEMMA MapAppend ==
    ASSUME NEW a, IsSeq(a), NEW b, IsSeq(b), Len(b) = Len(a) + 1, NEW m, TellsOf(m, a),
           NEW q, TellsOf(q, b), \A k \in DOMAIN a : q[k] = m[k]
    PROVE  q = Append(m, q[Len(a) + 1]) /\ IsSeq(m) /\ Len(m) = Len(a)
<1> DEFINE n == Len(a)
           y == q[n + 1]
           r == Append(m, y)
<1>1. n \in Nat /\ DOMAIN a = 1..n BY SeqFacts
<1>2. DOMAIN b = 1..(n + 1) BY SeqFacts
<1>3. IsSeq(m) /\ Len(m) = n /\ DOMAIN m = 1..n BY <1>1, MapSeq DEF TellsOf
<1> HIDE DEF n, y
<1>4. IsSeq(r) /\ Len(r) = n + 1 /\ r[n + 1] = y /\ \A k \in 1..n : r[k] = m[k] BY <1>3, AppendItem
<1> HIDE DEF r
<1>5. DOMAIN r = 1..(n + 1) /\ r = [k \in 1..(n + 1) |-> r[k]]
  <2>1. r \in Seq(ToSet(r)) /\ Len(r) \in Nat BY <1>4, SeqFacts DEF IsSeq
  <2>2. r \in [1..Len(r) -> ToSet(r)] BY <2>1
  <2> QED BY <1>4, <2>2
<1>6. \A k \in 1..(n + 1) : q[k] = r[k]
  <2> SUFFICES ASSUME NEW k \in 1..(n + 1) PROVE q[k] = r[k] OBVIOUS
  <2>1. k \in 1..n \/ k = n + 1 BY <1>1
  <2> QED BY <1>1, <1>4, <2>1 DEF y
<1>7. q = [k \in 1..(n + 1) |-> q[k]] BY <1>2 DEF TellsOf
<1>8. q = r BY <1>5, <1>6, <1>7
<1> QED BY <1>3, <1>8 DEF r, y, n

LEMMA SaidAppend ==
    ASSUME NEW s, IsSeq(s), NEW x, NEW K, NEW J, \A i \in 1..Len(s) : i \in K <=> i \in J
    PROVE  Said(Append(s, x), J) = IF Len(s) + 1 \in J THEN Append(Said(s, K), x.what) ELSE Said(s, K)
<1> DEFINE a == Among(s, K)
           b == Among(Append(s, x), J)
           m == [k \in DOMAIN a |-> a[k].what]
           q == [k \in DOMAIN b |-> b[k].what]
<1>1. b = IF Len(s) + 1 \in J THEN Append(a, x) ELSE a BY AmongAppend
<1>2. IsSeq(a) BY AmongLemma
<1>3. Said(s, K) = m /\ Said(Append(s, x), J) = q BY DEF Said
<1>4. TellsOf(m, a) /\ TellsOf(q, b) BY DEF TellsOf
<1>5. (\A k \in DOMAIN a : m[k] = a[k].what) /\ \A k \in DOMAIN b : q[k] = b[k].what OBVIOUS
<1> HIDE DEF a, b, m, q
<1>6. CASE Len(s) + 1 \notin J
  <2>1. b = a BY <1>1, <1>6
  <2>2. \A k \in DOMAIN a : q[k] = m[k] BY <1>5, <2>1
  <2>3. q = m BY <1>4, <2>1, <2>2 DEF TellsOf
  <2> QED BY <1>3, <1>6, <2>3
<1>7. CASE Len(s) + 1 \in J
  <2>1. b = Append(a, x) BY <1>1, <1>7
  <2>2. /\ IsSeq(b) /\ Len(b) = Len(a) + 1 /\ b[Len(a) + 1] = x /\ \A k \in DOMAIN a : b[k] = a[k]
        /\ DOMAIN a = 1..Len(a) /\ Len(a) \in Nat /\ DOMAIN b = 1..(Len(a) + 1)
    BY <1>2, <2>1, AppendItem, SeqFacts
  <2>3. \A k \in DOMAIN a : q[k] = m[k] BY <1>5, <2>2
  <2>4. q[Len(a) + 1] = x.what BY <1>5, <2>2
  <2>5. q = Append(m, q[Len(a) + 1]) BY <1>2, <1>4, <2>2, <2>3, MapAppend
  <2> QED BY <1>3, <1>7, <2>4, <2>5
<1> QED BY <1>6, <1>7

\* Two concatenations of lists that begin alike.
LEMMA JoinedAgree ==
    ASSUME NEW ss, IsSeq(ss), NEW tt, IsSeq(tt), NEW f, Joined(f, ss), NEW g, Joined(g, tt),
           NEW n \in Nat, n <= Len(ss), n <= Len(tt), \A i \in 1..n : ss[i] = tt[i]
    PROVE  f[n] = g[n]
<1>1. Len(ss) \in Nat /\ Len(tt) \in Nat BY SeqFacts
<1>2. f[0] = g[0] /\ \A i \in 1..Len(ss) : f[i] = f[i - 1] \o ss[i] BY DEF Joined
<1>3. \A i \in 1..Len(tt) : g[i] = g[i - 1] \o tt[i] BY DEF Joined
<1> DEFINE S == {i \in 0..n : f[i] = g[i]}
<1>4. 0 \in S BY <1>2
<1>5. ASSUME NEW k \in 0..(n - 1), k \in S PROVE k + 1 \in S
  <2>1. k + 1 \in 1..Len(ss) /\ k + 1 \in 1..Len(tt) /\ k + 1 \in 1..n /\ k + 1 \in 0..n /\ (k + 1) - 1 = k
    BY <1>1
  <2>2. f[k] = g[k] BY <1>5
  <2> HIDE DEF S
  <2>3. f[k + 1] = f[k] \o ss[k + 1] BY <1>2, <2>1
  <2>4. g[k + 1] = g[k] \o tt[k + 1] BY <1>3, <2>1
  <2>5. f[k + 1] = g[k + 1] BY <2>1, <2>2, <2>3, <2>4
  <2> QED BY <2>1, <2>5 DEF S
<1> HIDE DEF S
<1>6. \A i \in 0..n : i \in S BY <1>4, <1>5, BoundedInduction
<1>7. n \in S BY <1>6
<1> QED BY <1>7 DEF S

AreLists(ss) == IsSeq(ss) /\ \A i \in DOMAIN ss : IsSeq(ss[i])

\* One more list, or more of the last one.
LEMMA FlattenMore ==
    ASSUME NEW ss, AreLists(ss), NEW tt, AreLists(tt), NEW n \in Nat, Len(tt) = n + 1,
           Len(ss) \in {n, n + 1}, \A i \in 1..n : tt[i] = ss[i], NEW x, IsSeq(x),
           tt[n + 1] = IF Len(ss) = n THEN x ELSE ss[n + 1] \o x
    PROVE  FlattenSeq(tt) = FlattenSeq(ss) \o x
<1>1. PICK f : Joined(f, ss) BY FlattenUnrolled DEF AreLists
<1>2. PICK g : Joined(g, tt) BY FlattenUnrolled DEF AreLists
<1>3. f[n] = g[n] BY <1>1, <1>2, JoinedAgree DEF AreLists
<1>4. n + 1 \in 1..(n + 1) /\ (n + 1) - 1 = n OBVIOUS
<1>5. FlattenSeq(tt) = g[n] \o tt[n + 1] BY <1>2, <1>4 DEF Joined
<1>6. CASE Len(ss) = n
  <2>1. FlattenSeq(ss) = f[n] BY <1>1, <1>6 DEF Joined
  <2> QED BY <1>3, <1>5, <1>6, <2>1
<1>7. CASE Len(ss) = n + 1
  <2>1. FlattenSeq(ss) = f[n] \o ss[n + 1] /\ IsSeq(f[n])
    <3>1. n \in 0..(n + 1) OBVIOUS
    <3> QED BY <1>1, <1>4, <1>7, <3>1 DEF Joined
  <2>2. tt[n + 1] = ss[n + 1] \o x /\ IsSeq(ss[n + 1])
    <3>1. n + 1 \in DOMAIN ss BY <1>4, <1>7, SeqFacts DEF AreLists
    <3> QED BY <1>7, <3>1 DEF AreLists
  <2>3. f[n] \o (ss[n + 1] \o x) = (f[n] \o ss[n + 1]) \o x
    <3> DEFINE a == f[n]
               b == ss[n + 1]
    <3>1. IsSeq(a) /\ IsSeq(b) BY <2>1, <2>2
    <3> HIDE DEF a, b
    <3>2. a \o (b \o x) = (a \o b) \o x BY <3>1, ConcatTwice
    <3> QED BY <3>2 DEF a, b
  <2> QED BY <1>3, <1>5, <2>1, <2>2, <2>3
<1> QED BY <1>6, <1>7

-----------------------------------------------------------------------------
(* Counting, and putting numbers in order. *)

LEMMA CountNext ==
    ASSUME NEW n \in Nat, NEW K
    PROVE  /\ IsFiniteSet({j \in 1..n : j \in K}) /\ Cardinality({j \in 1..n : j \in K}) \in Nat
           /\ Cardinality({j \in 1..(n + 1) : j \in K}) =
                Cardinality({j \in 1..n : j \in K}) + IF n + 1 \in K THEN 1 ELSE 0
<1> DEFINE A == {j \in 1..n : j \in K}
           B == {j \in 1..(n + 1) : j \in K}
<1>1. IsFiniteSet(1..n) BY FS_Interval
<1>2. IsFiniteSet(A) BY <1>1, FS_Subset
<1>3. Cardinality(A) \in Nat BY <1>2, FS_CardinalityType
<1>4. n + 1 \notin A OBVIOUS
<1>5. B = IF n + 1 \in K THEN A \cup {n + 1} ELSE A OBVIOUS
<1> HIDE DEF A, B
<1>6. Cardinality(B) = Cardinality(A) + IF n + 1 \in K THEN 1 ELSE 0 BY <1>2, <1>3, <1>4, <1>5, FS_AddElement
<1> QED BY <1>2, <1>3, <1>6 DEF A, B

Rank(S, n) == Cardinality({m \in S : m < n})

LEMMA RankGrows ==
    ASSUME NEW S \in SUBSET Nat, IsFiniteSet(S), NEW n \in S, NEW k \in S, n < k
    PROVE  Rank(S, n) \in Nat /\ Rank(S, k) \in Nat /\ Rank(S, n) < Rank(S, k)
<1> DEFINE A == {m \in S : m < n}
           B == {m \in S : m < k}
<1>0. \A m \in S : m \in Nat OBVIOUS
<1>1. IsFiniteSet(A) /\ IsFiniteSet(B) BY FS_Subset
<1>2. A \cup {n} \subseteq B /\ n \notin A
  <2>1. \A m \in S : m < n => m < k BY <1>0
  <2>2. ~(n < n) BY <1>0
  <2> QED BY <2>1, <2>2
<1> HIDE DEF A, B
<1>3. Cardinality(A \cup {n}) = Cardinality(A) + 1 BY <1>1, <1>2, FS_AddElement
<1>4. Cardinality(A \cup {n}) <= Cardinality(B) BY <1>1, <1>2, FS_Subset
<1>5. Cardinality(A) \in Nat /\ Cardinality(B) \in Nat BY <1>1, FS_CardinalityType
<1> QED BY <1>3, <1>4, <1>5 DEF Rank, A, B

LEMMA RankExists ==
    ASSUME NEW S \in SUBSET Nat, IsFiniteSet(S), NEW k \in 0..(Cardinality(S) - 1)
    PROVE  \E n \in S : Rank(S, n) = k
<1> DEFINE c == Cardinality(S)
           W == {j \in 0..(c - 1) : \E n \in S : Rank(S, n) = j}
<1>0. \A m \in S : m \in Nat OBVIOUS
<1>1. c \in Nat /\ c # 0 BY FS_CardinalityType
<1>2. 0 \in W
  <2>1. S # {} BY <1>1, FS_EmptySet
  <2>2. PICK n \in S : \A m \in S : n <= m BY <2>1, Least
  <2>3. ASSUME NEW m \in S PROVE ~(m < n) BY <1>0, <2>2
  <2>4. {m \in S : m < n} = {} BY <2>3
  <2>5. Rank(S, n) = 0 BY <2>4, FS_EmptySet DEF Rank
  <2> QED BY <1>1, <2>5
<1>3. ASSUME NEW j \in 0..((c - 1) - 1), j \in W PROVE j + 1 \in W
  <2>1. PICK n \in S : Rank(S, n) = j BY <1>3
  <2> DEFINE A == {m \in S : m < n}
             T == {m \in S : m > n}
  <2>2. A \cup {n} \cup T = S /\ n \notin A
    <3>1. ASSUME NEW m \in S PROVE m < n \/ m = n \/ m > n BY <1>0
    <3>2. ~(n < n) BY <1>0
    <3> QED BY <3>1, <3>2
  <2>3. IsFiniteSet(A) BY FS_Subset
  <2>4. Cardinality(A \cup {n}) = j + 1
    <3>1. Cardinality(A) = j BY <2>1 DEF Rank
    <3> HIDE DEF A
    <3> QED BY <2>2, <2>3, <3>1, FS_AddElement
  <2>5. T # {}
    <3>1. SUFFICES ASSUME T = {} PROVE FALSE OBVIOUS
    <3>2. A \cup {n} = S BY <2>2, <3>1
    <3> HIDE DEF A, T
    <3>3. c = j + 1 BY <2>4, <3>2
    <3> HIDE DEF c
    <3> QED BY <1>1, <3>3
  <2>6. PICK l \in T : \A m \in T : l <= m
    <3>1. T \in SUBSET Nat OBVIOUS
    <3> HIDE DEF T
    <3> QED BY <2>5, <3>1, Least
  <2>7. {m \in S : m < l} = A \cup {n}
    <3>1. l \in S /\ n < l /\ \A m \in S : m > n => l <= m BY <2>6
    <3>2. ASSUME NEW m \in S PROVE m < l <=> m < n \/ m = n
      <4>1. m \in Nat /\ l \in Nat /\ n \in Nat BY <1>0, <3>1
      <4> QED BY <3>1, <4>1
    <3> QED BY <3>2
  <2>8. l \in S /\ Rank(S, l) = j + 1
    <3>1. l \in S BY <2>6
    <3> HIDE DEF A
    <3> QED BY <2>4, <2>7, <3>1 DEF Rank
  <2>9. j + 1 \in 0..(c - 1) BY <1>1
  <2> QED BY <2>8, <2>9
<1> DEFINE d == c - 1
<1>4. d \in Nat /\ k \in 0..d BY <1>1
<1> HIDE DEF W
<1>5. \A j \in 0..(d - 1) : j \in W => j + 1 \in W BY <1>3
<1> HIDE DEF d
<1>6. \A j \in 0..d : j \in W BY <1>2, <1>4, <1>5, BoundedInduction
<1> QED BY <1>4, <1>6 DEF W

\* Ascending lists each number of the set once.
LEMMA AscendingLemma ==
    ASSUME NEW S \in SUBSET Nat, IsFiniteSet(S)
    PROVE  /\ IsSeq(Ascending(S)) /\ Len(Ascending(S)) = Cardinality(S) /\ Cardinality(S) \in Nat
           /\ DOMAIN Ascending(S) = 1..Cardinality(S)
           /\ \A k \in DOMAIN Ascending(S) : Ascending(S)[k] \in S
           /\ \A j, k \in DOMAIN Ascending(S) : Ascending(S)[j] = Ascending(S)[k] => j = k
           /\ \A n \in S : \E k \in DOMAIN Ascending(S) : Ascending(S)[k] = n
<1> DEFINE a == Ascending(S)
           c == Cardinality(S)
           At(k) == CHOOSE n \in S : Rank(S, n) = k - 1
<1>0. \A m \in S : m \in Nat OBVIOUS
<1>1. c \in Nat BY FS_CardinalityType
<1>2. a = [k \in 1..c |-> At(k)] BY DEF Ascending, Rank
<1> HIDE DEF a, c
<1>3. DOMAIN a = 1..c /\ a = [k \in 1..c |-> a[k]] /\ \A k \in 1..c : a[k] = At(k)
  <2> HIDE DEF At
  <2> QED BY <1>2
<1>4. ASSUME NEW k \in 1..c PROVE a[k] \in S /\ Rank(S, a[k]) = k - 1
  <2>1. k - 1 \in 0..(c - 1) BY <1>1
  <2>2. \E n \in S : Rank(S, n) = k - 1 BY <2>1, RankExists DEF c
  <2> QED BY <1>3, <2>2
<1>5. IsSeq(a) /\ Len(a) = c BY <1>1, <1>3, FunctionSeq
<1>6. \A j, k \in 1..c : a[j] = a[k] => j = k
  <2> SUFFICES ASSUME NEW j \in 1..c, NEW k \in 1..c, a[j] = a[k] PROVE j = k OBVIOUS
  <2>1. j - 1 = k - 1 BY <1>4
  <2> QED BY <1>1, <2>1
<1>7. ASSUME NEW n \in S PROVE \E k \in 1..c : a[k] = n
  <2> DEFINE A == {m \in S : m < n}
  <2>1. IsFiniteSet(A) /\ n \notin A /\ A \cup {n} \subseteq S
    <3>1. ~(n < n) BY <1>0
    <3> QED BY <3>1, FS_Subset
  <2>5. Rank(S, n) = Cardinality(A) BY DEF Rank
  <2> HIDE DEF A
  <2>2. Cardinality(A) \in Nat /\ Cardinality(A \cup {n}) = Cardinality(A) + 1
    BY <2>1, FS_CardinalityType, FS_AddElement
  <2>3. Cardinality(A \cup {n}) <= c BY <2>1, FS_Subset DEF c
  <2> DEFINE k == Cardinality(A) + 1
  <2>4. k \in 1..c /\ k - 1 = Cardinality(A) BY <1>1, <2>2, <2>3
  <2> HIDE DEF k
  <2>6. a[k] \in S /\ Rank(S, a[k]) = Rank(S, n) BY <1>4, <2>4, <2>5
  <2>7. ~(a[k] < n) /\ ~(n < a[k])
    <3> DEFINE m == a[k]
    <3>1. m \in S /\ Rank(S, m) = Rank(S, n) BY <2>6
    <3> HIDE DEF m
    <3>2. ASSUME m < n PROVE FALSE
      <4>1. Rank(S, m) \in Nat /\ Rank(S, m) < Rank(S, n) BY <3>1, <3>2, RankGrows
      <4> QED BY <3>1, <4>1
    <3>3. ASSUME n < m PROVE FALSE
      <4>1. Rank(S, m) \in Nat /\ Rank(S, n) < Rank(S, m) BY <3>1, <3>3, RankGrows
      <4> QED BY <3>1, <4>1
    <3> QED BY <3>2, <3>3 DEF m
  <2>8. a[k] = n
    <3>1. a[k] \in Nat /\ n \in Nat BY <1>0, <2>6
    <3> QED BY <2>7, <3>1
  <2> QED BY <2>4, <2>8
<1> QED BY <1>1, <1>3, <1>4, <1>5, <1>6, <1>7 DEF a, c

-----------------------------------------------------------------------------
(* What is written. *)

\* Events of which only the last may be a terminal one that claims success.
Modest(events) == IsSeq(events) /\ \A i \in 1..(Len(events) - 1) : ~Claims(events[i])

\* Events of which none is.
Quiet(events) == IsSeq(events) /\ \A e \in ToSet(events) : ~Claims(e)

LEMMA QuietConcat ==
    ASSUME NEW s, NEW t, Quiet(s), Quiet(t) PROVE Quiet(s \o t)
  BY ConcatLemma DEF Quiet

LEMMA QuietThenOne ==
    ASSUME NEW s, Quiet(s), NEW e
    PROVE  Modest(s \o <<e>>) /\ s \o <<e>> # <<>> /\ Last(s \o <<e>>) = e /\ Len(s \o <<e>>) = Len(s) + 1
<1>1. IsSeq(s) /\ IsSeq(<<e>>) /\ Len(<<e>>) = 1 /\ <<e>>[1] = e BY OneElement DEF Quiet
<1>2. /\ IsSeq(s \o <<e>>) /\ Len(s \o <<e>>) = Len(s) + 1
      /\ \A i \in 1..Len(s) : (s \o <<e>>)[i] = s[i]
      /\ (s \o <<e>>)[Len(s) + 1] = e
  BY <1>1, ConcatLemma
<1>3. Len(s) \in Nat /\ \A i \in 1..Len(s) : s[i] \in ToSet(s) BY <1>1, SeqFacts
<1>4. s \o <<e>> # <<>> BY <1>2, <1>3, EmptyIsSeq
<1> QED BY <1>2, <1>3, <1>4 DEF Modest, Quiet, Last

LEMMA QuietIsModest == ASSUME NEW s, Quiet(s) PROVE Modest(s)
  BY SeqFacts DEF Quiet, Modest

\* What a write that breaks leaves is quiet.
LEMMA BrokenIsQuiet ==
    ASSUME IsSeq(out), NEW events, Modest(events), Broken(events)
    PROVE  \E sent : Quiet(sent) /\ out' = out \o sent
<1>1. PICK n \in 0..(Len(events) - 1) : out' = out \o SubSeq(events, 1, n) BY DEF Broken
<1>2. IsSeq(events) /\ Len(events) \in Nat BY SeqFacts DEF Modest
<1>3. /\ IsSeq(SubSeq(events, 1, n)) /\ Len(SubSeq(events, 1, n)) = n
      /\ \A i \in 1..n : SubSeq(events, 1, n)[i] = events[i]
  BY <1>2, PrefixLemma
<1>4. \A i \in 1..n : ~Claims(events[i]) BY <1>2 DEF Modest
<1>5. DOMAIN SubSeq(events, 1, n) = 1..n BY <1>3, SeqFacts
<1>6. Quiet(SubSeq(events, 1, n)) BY <1>3, <1>4, <1>5 DEF Quiet, ToSet
<1> QED BY <1>1, <1>6

-----------------------------------------------------------------------------
(* How an answer ends. *)

Phases == {"prepare", "walk", "closing", "done", "failed", "refused", "read"}

\* Every candidate ended with a finish reason.
Complete == DOMAIN seen # {} /\ \A idx \in DOMAIN seen : seen[idx].finish # None

Flow ==
    /\ IsSeq(out) /\ phase \in Phases
    /\ phase = "closing" /\ cause = None => Complete
    /\ EndIsHonest

IsItem(x) == x = [type |-> x.type, status |-> x.status, text |-> x.text, sig |-> x.sig, call |-> x.call]

IsAnswer(x) == x.type \in {"message", "function_call"}

Running == phase \in {"prepare", "walk", "closing"}

\* What is said to be actionable is among the items, complete or still open.
Actionable ==
    Running /\ actionable =>
      \E k \in DOMAIN outputs : IsAnswer(outputs[k]) /\ (k = active \/ outputs[k].status = "completed")

ItemsInv ==
    /\ IsSeq(outputs) /\ \A k \in DOMAIN outputs : IsItem(outputs[k])
    /\ active \in 0..Len(outputs)
    /\ Actionable

EndInv == Flow /\ ItemsInv /\ IsFiniteSet(DOMAIN states)

\* A step before the end of the answer.
LEMMA QuietStep ==
    ASSUME Flow, phase \in {"walk", "closing"},
           NEW sent, Quiet(sent), out' = out \o sent,
           \/ phase' = "walk"
           \/ phase' = "closing" /\ (cause' = None => Complete')
           \/ phase' = "failed" /\ cause' = "write"
    PROVE  Flow'
<1>1. IsSeq(out) /\ \A i \in DOMAIN out : ~Claims(out[i]) BY DEF Flow, EndIsHonest
<1>2. IsSeq(out') /\ ToSet(out') = ToSet(out) \cup ToSet(sent) BY <1>1, ConcatLemma DEF Quiet
<1>3. \A i \in DOMAIN out' : ~Claims(out'[i]) BY <1>1, <1>2 DEF Quiet, ToSet
<1>4. \A i \in DOMAIN out' : ~Claims(out[i])' BY <1>3 DEF Claims
<1> QED BY <1>2, <1>4 DEF Flow, EndIsHonest, Phases, Intact

\* The end of it.
LEMMA EndStep ==
    ASSUME Flow, phase = "closing", protocol' = protocol,
           NEW s, Quiet(s), NEW e, out' = out \o (s \o <<e>>),
           \/ /\ phase' = "done" /\ Claims(e) /\ cause' = None /\ Complete'
              /\ protocol = "responses" /\ e.ev = "response.completed" =>
                   \E k \in DOMAIN outputs' : IsAnswer(outputs'[k]) /\ outputs'[k].status = "completed"
           \/ phase' = "failed" /\ ~Claims(e) /\ (Fails(e) \/ protocol = "json")
    PROVE  Flow'
<1>1. IsSeq(out) /\ \A i \in DOMAIN out : ~Claims(out[i]) BY DEF Flow, EndIsHonest
<1>2. IsSeq(s) /\ IsSeq(<<e>>) /\ ToSet(<<e>>) = {e} BY OneElement DEF Quiet
<1>3. IsSeq(s \o <<e>>) /\ ToSet(s \o <<e>>) = ToSet(s) \cup {e} /\ Len(s \o <<e>>) = Len(s) + 1
      /\ (s \o <<e>>)[Len(s) + 1] = e
  BY <1>2, ConcatLemma, QuietThenOne DEF Last
<1>4. /\ IsSeq(out') /\ ToSet(out') = ToSet(out) \cup ToSet(s) \cup {e}
      /\ Len(out') = Len(out) + (Len(s) + 1) /\ Len(out) \in Nat /\ Len(s) \in Nat
      /\ out'[Len(out) + (Len(s) + 1)] = e
  BY <1>1, <1>2, <1>3, ConcatLemma, SeqFacts
<1>5. Last(out') = e /\ Last(out)' = e BY <1>4 DEF Last
<1>6. \A x \in ToSet(out') : Claims(x) => x = e BY <1>1, <1>4 DEF Quiet, ToSet
<1>7. \A i \in DOMAIN out' : Claims(out'[i]) => phase' = "done" BY <1>6 DEF ToSet
<1>8. \A i \in DOMAIN out' : Claims(out[i])' => phase' = "done" BY <1>7 DEF Claims
<1>9. Claims(Last(out))' = Claims(e) /\ Fails(Last(out))' = Fails(e) BY <1>5 DEF Claims, Fails
<1> QED BY <1>4, <1>5, <1>8, <1>9 DEF Flow, EndIsHonest, Phases, Intact, Complete, IsAnswer

LEMMA PrepareStep ==
    ASSUME Flow, phase = "prepare", out' = out, phase' \in {"prepare", "refused", "walk"}
    PROVE  Flow'
  BY EmptyIsSeq, SeqFacts DEF Flow, EndIsHonest, Phases, Intact, Claims

LEMMA NoEvents == ASSUME IsSeq(out), out' = out PROVE Quiet(<<>>) /\ out' = out \o <<>>
  BY EmptyIsSeq DEF Quiet, IsSeq

\* Nothing wrong at the end of the stream: every candidate is complete.
LEMMA NoComplaints == ASSUME Complaints = {} PROVE Complete
<1> DEFINE Wrong(idx) == IF seen[idx].finish = None THEN {"upstream_interrupted"}
                         ELSE IF ~seen[idx].content /\ seen[idx].finish = "STOP" THEN {"empty_response"}
                         ELSE {}
<1>1. DOMAIN seen # {} BY DEF Complaints
<1>2. \A idx \in DOMAIN seen : Wrong(idx) = {} BY <1>1 DEF Complaints
<1>3. \A idx \in DOMAIN seen : seen[idx].finish # None BY <1>2
<1> QED BY <1>1, <1>3 DEF Complete

LEMMA ComplaintsAreErrors == None \notin Complaints
<1>1. None # "upstream_interrupted" /\ None # "empty_response" BY ErrorsAssumption DEF Errors
<1> QED BY <1>1 DEF Complaints

LEMMA WalkStep == ASSUME Flow, WalkNext PROVE Flow'
<1>1. IsSeq(out) BY DEF Flow
<1>2. CASE \E f \in Frames : PrepareFrame(f)
  <2>1. phase = "prepare" /\ out' = out /\ phase' \in {"prepare", "refused", "walk"}
    BY <1>2 DEF PrepareFrame, Verdict
  <2> QED BY <2>1, PrepareStep
<1>3. CASE PrepareFails BY <1>3, PrepareStep DEF PrepareFails
<1>4. CASE \E f \in Frames : ReadFrame(f)
  <2>1. PICK f \in Frames : ReadFrame(f) BY <1>4
  <2>2. phase = "walk" /\ out' = out BY <2>1 DEF ReadFrame
  <2>3. phase' = "walk" \/ (phase' = "closing" /\ cause' = "invalid_response")
    BY <2>1 DEF ReadFrame
  <2>4. cause' = "invalid_response" => cause' # None BY ErrorsAssumption DEF Errors
  <2> QED BY <1>1, <2>2, <2>3, <2>4, NoEvents, QuietStep
<1>5. CASE WalkEnds
  <2>1. phase = "walk" /\ phase' = "closing" /\ out' = out /\ seen' = seen BY <1>5 DEF WalkEnds
  <2>2. cause' = None => Complete
    BY <1>5, NoComplaints, ComplaintsAreErrors DEF WalkEnds
  <2>3. cause' = None => Complete' BY <2>1, <2>2 DEF Complete
  <2> QED BY <1>1, <2>1, <2>3, NoEvents, QuietStep
<1>6. CASE WalkFails
  <2>1. phase = "walk" /\ phase' = "closing" /\ out' = out /\ cause' \in {"transport", "response_too_large"}
    BY <1>6 DEF WalkFails
  <2>2. cause' # None BY <2>1, ErrorsAssumption DEF Errors
  <2> QED BY <1>1, <2>1, <2>2, NoEvents, QuietStep
<1>7. CASE ToolRefused
  <2>1. phase = "walk" /\ phase' = "closing" /\ out' = out /\ cause' \in {"invalid_tool_call", "response_too_large"}
    BY <1>7 DEF ToolRefused, Visiting
  <2>2. cause' # None BY <2>1, ErrorsAssumption DEF Errors
  <2> QED BY <1>1, <2>1, <2>2, NoEvents, QuietStep
<1>8. CASE ToolRepeated
  <2>1. phase = "walk" /\ phase' = "walk" /\ out' = out BY <1>8 DEF ToolRepeated, Visiting, Goes
  <2> QED BY <1>1, <2>1, NoEvents, QuietStep
<1> QED BY <1>2, <1>3, <1>4, <1>5, <1>6, <1>7, <1>8 DEF WalkNext

\* A writer delivers quiet events while it walks, or breaks off.
LEMMA WriteStep ==
    ASSUME Flow, phase = "walk", NEW events, Quiet(events),
           (Delivered(events) /\ Goes) \/ Broken(events)
    PROVE  Flow'
<1>1. CASE Delivered(events) /\ Goes
  BY <1>1, QuietStep DEF Delivered, Goes
<1>2. CASE Broken(events)
  <2>1. IsSeq(out) BY DEF Flow
  <2>2. PICK sent : Quiet(sent) /\ out' = out \o sent BY <1>2, <2>1, QuietIsModest, BrokenIsQuiet
  <2>3. phase' = "failed" /\ cause' = "write" BY <1>2 DEF Broken
  <2> QED BY <2>2, <2>3, QuietStep
<1> QED BY <1>1, <1>2

\* A writer ends: what it writes last says how, unless the client is gone.
LEMMA CloseStep ==
    ASSUME Flow, phase = "closing", protocol' = protocol, NEW s, Quiet(s), NEW e,
           \/ /\ Delivered(s \o <<e>>)
              /\ \/ /\ phase' = "done" /\ Claims(e) /\ cause = None /\ cause' = None /\ seen' = seen
                    /\ protocol = "responses" /\ e.ev = "response.completed" =>
                         \E k \in DOMAIN outputs' : IsAnswer(outputs'[k]) /\ outputs'[k].status = "completed"
                 \/ phase' = "failed" /\ ~Claims(e) /\ Fails(e)
           \/ Broken(s \o <<e>>)
    PROVE  Flow'
<1>1. CASE Broken(s \o <<e>>)
  <2>1. IsSeq(out) BY DEF Flow
  <2>2. PICK sent : Quiet(sent) /\ out' = out \o sent BY <1>1, <2>1, QuietThenOne, BrokenIsQuiet
  <2>3. phase' = "failed" /\ cause' = "write" BY <1>1 DEF Broken
  <2> QED BY <2>2, <2>3, QuietStep
<1>2. CASE ~Broken(s \o <<e>>)
  <2>1. cause = None /\ seen' = seen => Complete' BY DEF Flow, Complete
  <2>2. out' = out \o (s \o <<e>>) BY <1>2 DEF Delivered
  <2>3. \/ phase' = "failed" /\ ~Claims(e) /\ Fails(e)
        \/ /\ phase' = "done" /\ Claims(e) /\ cause = None /\ cause' = None /\ seen' = seen
           /\ protocol = "responses" /\ e.ev = "response.completed" =>
                \E k \in DOMAIN outputs' : IsAnswer(outputs'[k]) /\ outputs'[k].status = "completed"
    BY <1>2
  <2> QED BY <2>1, <2>2, <2>3, EndStep
<1> QED BY <1>1, <1>2

-----------------------------------------------------------------------------
(* The writers. *)

LEMMA QuietTwo == ASSUME NEW a, NEW b, ~Claims(a), ~Claims(b) PROVE Quiet(<<a, b>>)
  BY TwoElements DEF Quiet
LEMMA QuietOne == ASSUME NEW a, ~Claims(a) PROVE Quiet(<<a>>)
  BY OneElement DEF Quiet
LEMMA QuietNone == Quiet(<<>>)
  BY EmptyIsSeq DEF Quiet

LEMMA QuietClosing == Quiet(Closing)
<1>1. ~Claims(Delta(index, "signature", pendingSig)) /\ ~Claims(Stop(index))
  BY DEF Claims, Delta, Stop
<1> QED BY <1>1, QuietOne, QuietNone, QuietConcat DEF Closing

LEMMA QuietOpening == ASSUME NEW kind PROVE Quiet(Opening(kind))
<1>1. ~Claims(Start(AfterClose, kind)) BY DEF Claims, Start
<1> QED BY <1>1, QuietOne, QuietNone, QuietConcat, QuietClosing DEF Opening

LEMMA ClaudeFlow == ASSUME Flow, ClaudeStep PROVE Flow'
<1>0. ClaudeNext /\ protocol = "claude" BY DEF ClaudeStep
<1>1. CASE WalkNext BY <1>1, WalkStep
<1>2. CASE ClaudeCandidate
  <2> DEFINE events == IF started THEN <<>> ELSE <<[ev |-> "message_start"]>>
  <2>1. Quiet(events)
    <3>1. ~Claims([ev |-> "message_start"]) BY DEF Claims
    <3> QED BY <3>1, QuietOne, QuietNone
  <2>2. phase = "walk" /\ ((Delivered(events) /\ Goes) \/ Broken(events))
    BY <1>2 DEF ClaudeCandidate, Visiting
  <2> HIDE DEF events
  <2> QED BY <2>1, <2>2, WriteStep
<1>3. CASE ClaudeTool
  <2> DEFINE p == Head(todo)
             i == AfterClose
             blockOf == <<Start(i, "tool_use"), Delta(i, "tool_use", CallOf(p)), Stop(i)>>
             events == Closing \o blockOf
  <2>1. Quiet(blockOf)
    <3>1. ~Claims(Start(i, "tool_use")) /\ ~Claims(Delta(i, "tool_use", CallOf(p))) /\ ~Claims(Stop(i))
      BY DEF Claims, Start, Delta, Stop
    <3> QED BY <3>1, ThreeElements DEF Quiet
  <2>2. phase = "walk" /\ ((Delivered(events) /\ Goes) \/ Broken(events))
    BY <1>3 DEF ClaudeTool, NewTool, Visiting
  <2> HIDE DEF blockOf
  <2>3. Quiet(events) BY <2>1, QuietConcat, QuietClosing
  <2> HIDE DEF events
  <2> QED BY <2>2, <2>3, WriteStep
<1>4. CASE ClaudeThought
  <2> DEFINE p == Head(todo)
             delta == IF p.body THEN <<Delta(IndexIn("thinking"), "thinking", This)>> ELSE <<>>
             events == Opening("thinking") \o delta
  <2>1. Quiet(delta)
    <3>1. ~Claims(Delta(IndexIn("thinking"), "thinking", This)) BY DEF Claims, Delta
    <3> QED BY <3>1, QuietOne, QuietNone
  <2>2. phase = "walk" /\ ((Goes /\ out' = out) \/ (Delivered(events) /\ Goes) \/ Broken(events))
    BY <1>4 DEF ClaudeThought, Visiting
  <2> HIDE DEF delta
  <2>3. Quiet(events) BY <2>1, QuietConcat, QuietOpening
  <2>4. IsSeq(out) BY DEF Flow
  <2> HIDE DEF events
  <2> QED BY <2>2, <2>3, <2>4, NoEvents, WriteStep DEF Delivered
<1>5. CASE ClaudeText
  <2> DEFINE p == Head(todo)
             delta == <<Delta(IndexIn("text"), "text", This)>>
             events == Opening("text") \o delta
  <2>1. Quiet(delta)
    <3>1. ~Claims(Delta(IndexIn("text"), "text", This)) BY DEF Claims, Delta
    <3> QED BY <3>1, QuietOne
  <2>2. phase = "walk" /\ ((Goes /\ out' = out) \/ (Delivered(events) /\ Goes) \/ Broken(events))
    BY <1>5 DEF ClaudeText, Visiting
  <2> HIDE DEF delta
  <2>3. Quiet(events) BY <2>1, QuietConcat, QuietOpening
  <2>4. IsSeq(out) BY DEF Flow
  <2> HIDE DEF events
  <2> QED BY <2>2, <2>3, <2>4, NoEvents, WriteStep DEF Delivered
<1>6. CASE ClaudeEnd
  <2>1. CASE cause # None
    <3> DEFINE e == [ev |-> "error"]
    <3>1. ~Claims(e) /\ Fails(e) BY DEF Claims, Fails
    <3>2. Quiet(<<>>) /\ <<>> \o <<e>> = <<e>> BY QuietNone
    <3>3. phase = "closing" /\ ((Delivered(<<e>>) /\ phase' = "failed") \/ Broken(<<e>>)) /\ protocol' = protocol
      BY <1>6, <2>1 DEF ClaudeEnd, Broken
    <3> HIDE DEF e
    <3> QED BY <3>1, <3>2, <3>3, CloseStep
  <2>2. CASE cause = None
    <3> DEFINE d == [ev |-> "message_delta", stop |-> StopReason]
               e == [ev |-> "message_stop"]
    <3>1. ~Claims(d) /\ Claims(e) /\ e.ev # "response.completed" BY DEF Claims
    <3>2. /\ phase = "closing" /\ protocol' = protocol
          /\ \/ Delivered(Closing \o <<d, e>>) /\ phase' = "done" /\ cause' = cause /\ seen' = seen
             \/ Broken(Closing \o <<d, e>>)
      BY <1>6, <2>2 DEF ClaudeEnd, Broken
    <3>3. Closing \o <<d, e>> = (Closing \o <<d>>) \o <<e>>
      <4> DEFINE c == Closing
      <4>1. IsSeq(c) BY QuietClosing DEF Quiet
      <4> HIDE DEF c, d, e
      <4>2. c \o <<d, e>> = (c \o <<d>>) \o <<e>> BY <4>1, AppendTwo
      <4> QED BY <4>2 DEF c
    <3> HIDE DEF d, e
    <3>4. Quiet(Closing \o <<d>>) BY <3>1, QuietOne, QuietClosing, QuietConcat
    <3> QED BY <1>0, <2>2, <3>1, <3>2, <3>3, <3>4, CloseStep
  <2> QED BY <2>1, <2>2
<1> QED BY <1>0, <1>1, <1>2, <1>3, <1>4, <1>5, <1>6 DEF ClaudeNext

LEMMA QuietClosingItem == ASSUME NEW status PROVE Quiet(ClosingItem(status))
<1>1. /\ ~Claims(TextDone(active, text)) /\ ~Claims(PartDone(active, text))
      /\ ~Claims(ItemDone(active, ClosedItem(status)))
  BY DEF Claims, TextDone, PartDone, ItemDone
<1> QED BY <1>1, ThreeElements, QuietNone DEF ClosingItem, Quiet

LEMMA ResponsesFlow == ASSUME Flow, ItemsInv, ResponsesStep PROVE Flow'
<1>0. ResponsesNext /\ protocol = "responses" BY DEF ResponsesStep
<1>a. IsSeq(out) BY DEF Flow
<1>1. CASE WalkNext BY <1>1, WalkStep
<1>2. CASE ResponsesBegins
  <2>1. Quiet(Prologue)
    <3>1. ~Claims([ev |-> "response.created"]) /\ ~Claims([ev |-> "response.in_progress"]) BY DEF Claims
    <3> QED BY <3>1, QuietTwo DEF Prologue
  <2>2. phase = "walk" /\ ((Delivered(Prologue) /\ Goes) \/ Broken(Prologue))
    BY <1>2 DEF ResponsesBegins, Goes
  <2> QED BY <2>1, <2>2, WriteStep
<1>3. CASE ResponsesCandidate \/ ResponsesSignature
  <2>1. phase = "walk" /\ phase' = "walk" /\ out' = out
    BY <1>3 DEF ResponsesCandidate, ResponsesSignature, Visiting, Goes
  <2> QED BY <1>a, <2>1, NoEvents, QuietStep
<1>4. CASE ResponsesTool
  <2> DEFINE p == Head(todo)
             i == Len(outputs) + 1
             item == [Item("function_call", CallOf(p)) EXCEPT !.status = "completed"]
             rest == <<Added(i, "function_call"),
                       [ev |-> "delta", index |-> i, kind |-> "function_call", what |-> CallOf(p)],
                       [ev |-> "done", index |-> i, what |-> CallOf(p)], ItemDone(i, item)>>
             events == ClosingItem("completed") \o rest
  <2>1. Quiet(rest)
    <3>1. /\ ~Claims(Added(i, "function_call")) /\ ~Claims(ItemDone(i, item))
          /\ ~Claims([ev |-> "delta", index |-> i, kind |-> "function_call", what |-> CallOf(p)])
          /\ ~Claims([ev |-> "done", index |-> i, what |-> CallOf(p)])
      BY DEF Claims, Added, ItemDone
    <3> QED BY <3>1, FourElements DEF Quiet
  <2>2. phase = "walk" /\ ((Delivered(events) /\ Goes) \/ Broken(events))
    BY <1>4 DEF ResponsesTool, NewTool, Visiting
  <2> HIDE DEF rest
  <2>3. Quiet(events) BY <2>1, QuietConcat, QuietClosingItem
  <2> HIDE DEF events
  <2> QED BY <2>2, <2>3, WriteStep
<1>5. CASE ResponsesText
  <2> DEFINE p == Head(todo)
             type == TypeOf(p.kind)
             i == IF Continues(p) THEN active ELSE Len(outputs) + 1
             opens == <<Added(i, type), PartAdded(i)>>
             first == IF Continues(p) THEN <<>> ELSE ClosingItem("completed") \o opens
             delta == <<TextDelta(i, type)>>
             events == first \o delta
  <2>1. Quiet(opens) /\ Quiet(delta)
    <3>1. ~Claims(Added(i, type)) /\ ~Claims(PartAdded(i)) /\ ~Claims(TextDelta(i, type))
      BY DEF Claims, Added, PartAdded, TextDelta
    <3> QED BY <3>1, QuietOne, QuietTwo
  <2>2. phase = "walk" /\ ((Delivered(events) /\ Goes) \/ Broken(events))
    BY <1>5 DEF ResponsesText, Visiting
  <2> HIDE DEF opens, delta, i, type
  <2>3. Quiet(first) BY <2>1, QuietConcat, QuietClosingItem, QuietNone
  <2> HIDE DEF first
  <2>4. Quiet(events) BY <2>1, <2>3, QuietConcat
  <2> HIDE DEF events
  <2> QED BY <2>2, <2>4, WriteStep
<1>6. CASE ResponsesEnd
  <2> DEFINE final == OutputsClosed(EndStatus)
             e == [ev |-> EndEvent, output |-> final, reason |-> EndReason, error |-> EndCause]
             s == ClosingItem(EndStatus)
  <2>1. /\ phase = "closing" /\ protocol' = protocol
        /\ \/ /\ Delivered(s \o <<e>>) /\ outputs' = final /\ cause' = EndCause /\ seen' = seen
              /\ phase' = IF EndCause = None THEN "done" ELSE "failed"
           \/ Broken(s \o <<e>>)
    BY <1>6 DEF ResponsesEnd, Broken
  <2>2. Quiet(s) BY QuietClosingItem
  <2>3. None # "interrupted" /\ None # "empty_response"
    BY ReasonsAssumption, ErrorsAssumption DEF Reasons, Errors
  <2>4. CASE EndCause = None
    <3>1. cause = None /\ (actionable \/ Reason # None) BY <2>3, <2>4 DEF EndCause
    <3>2. Claims(e) BY <2>4 DEF Claims, EndEvent
    <3>3. ASSUME e.ev = "response.completed"
          PROVE  \E k \in DOMAIN final : IsAnswer(final[k]) /\ final[k].status = "completed"
      <4>1. EndReason = None BY <3>3 DEF EndEvent
      <4>2. actionable /\ EndStatus = "completed" BY <2>3, <3>1, <4>1 DEF EndReason, EndStatus
      <4>3. PICK k \in DOMAIN outputs :
              IsAnswer(outputs[k]) /\ (k = active \/ outputs[k].status = "completed")
        BY <1>6, <4>2 DEF ItemsInv, Actionable, Running, ResponsesEnd
      <4>4. IsItem(outputs[k]) BY DEF ItemsInv
      <4>5. CASE active = k
        <5>1. DOMAIN outputs = 1..Len(outputs) BY SeqFacts DEF ItemsInv
        <5>2. active # 0 BY <4>5, <5>1, SeqFacts DEF ItemsInv
        <5>3. final = [outputs EXCEPT ![k] = [outputs[k] EXCEPT !.text = text, !.status = "completed"]]
          BY <4>2, <4>5, <5>2 DEF OutputsClosed, ClosedItem
        <5>4. final[k] = [outputs[k] EXCEPT !.text = text, !.status = "completed"] /\ k \in DOMAIN final
          BY <5>3
        <5>5. final[k].type = outputs[k].type /\ final[k].status = "completed"
          BY <4>4, <5>4 DEF IsItem
        <5> QED BY <4>3, <5>4, <5>5 DEF IsAnswer
      <4>6. CASE active # k
        <5>1. k \in DOMAIN final /\ final[k] = outputs[k] BY <4>6 DEF OutputsClosed
        <5> QED BY <4>3, <4>6, <5>1
      <4> QED BY <4>5, <4>6
    <3> HIDE DEF e, s, final
    <3> QED BY <2>1, <2>2, <2>4, <3>1, <3>2, <3>3, CloseStep
  <2>5. CASE EndCause # None
    <3>1. EndReason = "interrupted" BY <2>5 DEF EndCause, EndReason
    <3>2. ~Claims(e) /\ Fails(e) BY <2>3, <2>5, <3>1 DEF Claims, Fails, EndEvent
    <3> HIDE DEF e, s, final
    <3> QED BY <2>1, <2>2, <2>5, <3>2, CloseStep
  <2> QED BY <2>4, <2>5
<1> QED BY <1>0, <1>1, <1>2, <1>3, <1>4, <1>5, <1>6 DEF ResponsesNext

LEMMA OpenAIFlow == ASSUME Flow, IsFiniteSet(DOMAIN states), OpenAIStep PROVE Flow'
<1>0. OpenAINext /\ protocol = "openai" BY DEF OpenAIStep
<1>1. CASE WalkNext BY <1>1, WalkStep
<1>2. CASE OpenAICandidate
  <2> DEFINE c == Head(todo)
             events == IF c.index \notin DOMAIN states THEN <<Chunk(c.index, "role", None)>> ELSE <<>>
  <2>1. Quiet(events)
    <3>1. ~Claims(Chunk(c.index, "role", None)) BY DEF Claims, Chunk
    <3> QED BY <3>1, QuietOne, QuietNone
  <2>2. phase = "walk" /\ ((Delivered(events) /\ Goes) \/ Broken(events))
    BY <1>2 DEF OpenAICandidate, Visiting
  <2> HIDE DEF events
  <2> QED BY <2>1, <2>2, WriteStep
<1>3. CASE OpenAITool
  <2> DEFINE p == Head(todo)
             e == [ev |-> "chunk", index |-> p.index, kind |-> "tool_calls", what |-> CallOf(p),
                   place |-> states[p.index].toolIndex]
  <2>1. Quiet(<<e>>)
    <3>1. ~Claims(e) BY DEF Claims
    <3> QED BY <3>1, QuietOne
  <2>2. phase = "walk" /\ ((Delivered(<<e>>) /\ Goes) \/ Broken(<<e>>))
    BY <1>3 DEF OpenAITool, NewTool, Visiting
  <2> HIDE DEF e
  <2> QED BY <2>1, <2>2, WriteStep
<1>4. CASE OpenAIText
  <2> DEFINE p == Head(todo)
             field == IF p.kind = "thought" THEN "reasoning_content" ELSE "content"
             body == IF p.body THEN <<Chunk(p.index, field, This)>> ELSE <<>>
             sig == IF p.sig # None THEN <<Chunk(p.index, "reasoning_signature", p.sig)>> ELSE <<>>
             events == body \o sig
  <2>1. Quiet(body) /\ Quiet(sig)
    <3>1. ~Claims(Chunk(p.index, field, This)) /\ ~Claims(Chunk(p.index, "reasoning_signature", p.sig))
      BY DEF Claims, Chunk
    <3> QED BY <3>1, QuietOne, QuietNone
  <2>2. phase = "walk" /\ ((Delivered(events) /\ Goes) \/ Broken(events))
    BY <1>4 DEF OpenAIText, Visiting
  <2> HIDE DEF body, sig
  <2>3. Quiet(events) BY <2>1, QuietConcat
  <2> HIDE DEF events
  <2> QED BY <2>2, <2>3, WriteStep
<1>5. CASE OpenAIEnd
  <2>1. CASE cause # None
    <3> DEFINE e == [ev |-> "error"]
    <3>1. ~Claims(e) /\ Fails(e) BY DEF Claims, Fails
    <3>2. Quiet(<<>>) /\ <<>> \o <<e>> = <<e>> BY QuietNone
    <3>3. phase = "closing" /\ ((Delivered(<<e>>) /\ phase' = "failed") \/ Broken(<<e>>)) /\ protocol' = protocol
      BY <1>5, <2>1 DEF OpenAIEnd, Broken
    <3> HIDE DEF e
    <3> QED BY <3>1, <3>2, <3>3, CloseStep
  <2>2. CASE cause = None
    <3> DEFINE order == Ascending(DOMAIN states)
               finishes == [k \in DOMAIN order |->
                              Chunk(order[k], "finish",
                                    FinishReason(states[order[k]].finish, states[order[k]].toolIndex > 0))]
               e == [ev |-> "[DONE]"]
    <3>1. /\ phase = "closing" /\ protocol' = protocol
          /\ \/ Delivered(finishes \o <<e>>) /\ phase' = "done" /\ cause' = cause /\ seen' = seen
             \/ Broken(finishes \o <<e>>)
      BY <1>5, <2>2 DEF OpenAIEnd, Broken
    <3>2. Claims(e) /\ e.ev # "response.completed" BY DEF Claims
    <3>3. DOMAIN order = 1..Cardinality(DOMAIN states) /\ Cardinality(DOMAIN states) \in Nat
      BY FS_CardinalityType DEF Ascending
    <3> HIDE DEF order
    <3>4. /\ finishes = [k \in 1..Cardinality(DOMAIN states) |-> finishes[k]]
          /\ DOMAIN finishes = 1..Cardinality(DOMAIN states)
          /\ \A k \in DOMAIN finishes : ~Claims(finishes[k])
      BY <3>3 DEF Claims, Chunk
    <3> HIDE DEF finishes, e
    <3>5. Quiet(finishes) BY <3>3, <3>4, FunctionSeq DEF Quiet, ToSet
    <3> QED BY <1>0, <2>2, <3>1, <3>2, <3>5, CloseStep
  <2> QED BY <2>1, <2>2
<1> QED BY <1>0, <1>1, <1>2, <1>3, <1>4, <1>5 DEF OpenAINext

LEMMA CollectFlow == ASSUME Flow, CollectStep PROVE Flow'
<1>0. CollectNext /\ protocol = "json" BY DEF CollectStep
<1>a. IsSeq(out) BY DEF Flow
<1>1. CASE \E f \in Frames : ReadFrame(f) BY <1>1, WalkStep DEF WalkNext
<1>2. CASE WalkEnds \/ WalkFails \/ ToolRefused BY <1>2, WalkStep DEF WalkNext
<1>3. CASE CollectRepeated BY <1>3, WalkStep DEF CollectRepeated, WalkNext
<1>4. CASE CollectCandidate \/ CollectPart
  <2>1. phase = "walk" /\ phase' = "walk" /\ out' = out
    BY <1>4 DEF CollectCandidate, CollectPart, NewTool, Visiting, Goes
  <2> QED BY <1>a, <2>1, NoEvents, QuietStep
<1>5. CASE CollectEnd
  <2>1. /\ phase = "closing" /\ protocol' = "json" /\ cause' = cause /\ seen' = seen
        /\ phase' = IF cause = None THEN "done" ELSE "failed"
        /\ \E answer : answer.ev = "json" /\ out' = IF cause = None THEN <<answer>> ELSE <<>>
    BY <1>0, <1>5 DEF CollectEnd
  <2>2. PICK answer : answer.ev = "json" /\ out' = IF cause = None THEN <<answer>> ELSE <<>> BY <2>1
  <2>3. CASE cause = None
    <3>1. out' = <<answer>> /\ phase' = "done" BY <2>1, <2>2, <2>3
    <3>2. IsSeq(out') /\ Last(out') = answer /\ DOMAIN out' = {1} BY <3>1, OneElement DEF Last
    <3>3. Claims(answer) BY <2>2 DEF Claims
    <3>4. Claims(Last(out))' BY <3>2, <3>3 DEF Claims, Last
    <3>5. Complete' BY <2>1, <2>3 DEF Flow, Complete
    <3> QED BY <2>1, <2>3, <3>1, <3>2, <3>4, <3>5 DEF Flow, EndIsHonest, Phases, Complete
  <2>4. CASE cause # None
    <3>1. out' = <<>> /\ phase' = "failed" /\ DOMAIN <<>> = {} BY <2>1, <2>2, <2>4
    <3>2. IsSeq(out') BY <3>1, EmptyIsSeq
    <3> QED BY <2>1, <3>1, <3>2 DEF Flow, EndIsHonest, Phases
  <2> QED BY <2>3, <2>4
<1> QED BY <1>0, <1>1, <1>2, <1>3, <1>4, <1>5 DEF CollectNext

\* The items after the open one was closed.
LEMMA ClosedItems ==
    ASSUME ItemsInv, NEW status
    PROVE  /\ IsSeq(OutputsClosed(status)) /\ Len(OutputsClosed(status)) = Len(outputs)
           /\ \A k \in DOMAIN outputs :
                /\ IsItem(OutputsClosed(status)[k])
                /\ OutputsClosed(status)[k].type = outputs[k].type
                /\ OutputsClosed(status)[k].status = IF k = active THEN status ELSE outputs[k].status
<1>1. outputs \in Seq(ToSet(outputs)) /\ DOMAIN outputs = 1..Len(outputs) /\ Len(outputs) \in Nat
  BY SeqFacts DEF ItemsInv, IsSeq
<1>2. CASE active = 0 BY <1>1, <1>2 DEF OutputsClosed, ItemsInv
<1>3. CASE active # 0
  <2>1. active \in DOMAIN outputs BY <1>1, <1>3 DEF ItemsInv
  <2>2. OutputsClosed(status) = [outputs EXCEPT ![active] = [outputs[active] EXCEPT !.text = text, !.status = status]]
    BY <1>3 DEF OutputsClosed, ClosedItem
  <2>3. /\ OutputsClosed(status) \in Seq(ToSet(outputs) \cup {[outputs[active] EXCEPT !.text = text, !.status = status]})
        /\ Len(OutputsClosed(status)) = Len(outputs)
    BY <1>1, <2>1, <2>2
  <2>4. IsSeq(OutputsClosed(status)) BY <2>3, TypedIsSeq
  <2>5. \A k \in DOMAIN outputs : OutputsClosed(status)[k] =
          IF k = active THEN [outputs[k] EXCEPT !.text = text, !.status = status] ELSE outputs[k]
    BY <2>1, <2>2
  <2>6. \A k \in DOMAIN outputs : IsItem(outputs[k]) BY DEF ItemsInv
  <2> QED BY <2>3, <2>4, <2>5, <2>6 DEF IsItem
<1> QED BY <1>2, <1>3

\* A signature changes no item but in its signature.
LEMMA SignedItems ==
    ASSUME NEW items, IsSeq(items), \A k \in DOMAIN items : IsItem(items[k]), NEW i \in DOMAIN items, NEW sig
    PROVE  /\ IsSeq(Signed(items, i, sig)) /\ Len(Signed(items, i, sig)) = Len(items)
           /\ \A k \in DOMAIN items :
                /\ IsItem(Signed(items, i, sig)[k])
                /\ Signed(items, i, sig)[k].type = items[k].type
                /\ Signed(items, i, sig)[k].status = items[k].status
<1>1. items \in Seq(ToSet(items)) /\ DOMAIN items = 1..Len(items) /\ Len(items) \in Nat
  BY SeqFacts DEF IsSeq
<1>2. CASE sig = None BY <1>2 DEF Signed
<1>3. CASE sig # None
  <2>1. Signed(items, i, sig) = [items EXCEPT ![i] = [items[i] EXCEPT !.sig = sig]] BY <1>3 DEF Signed
  <2>2. /\ Signed(items, i, sig) \in Seq(ToSet(items) \cup {[items[i] EXCEPT !.sig = sig]})
        /\ Len(Signed(items, i, sig)) = Len(items)
    BY <1>1, <2>1
  <2>3. IsSeq(Signed(items, i, sig)) BY <2>2, TypedIsSeq
  <2>4. \A k \in DOMAIN items : Signed(items, i, sig)[k] = IF k = i THEN [items[k] EXCEPT !.sig = sig] ELSE items[k]
    BY <2>1
  <2> QED BY <2>2, <2>3, <2>4 DEF IsItem
<1> QED BY <1>2, <1>3

\* An answer that runs has run since its start.
\* A writer only works while the answer runs.
LEMMA StepsRun == ASSUME ClaudeStep \/ ResponsesStep \/ OpenAIStep \/ CollectStep PROVE Running
<1>1. WalkNext => phase \in {"prepare", "walk"}
  BY DEF WalkNext, PrepareFrame, PrepareFails, ReadFrame, WalkEnds, WalkFails, ToolRefused, ToolRepeated, Visiting
<1>2. ClaudeNext => phase \in {"prepare", "walk", "closing"}
  BY <1>1 DEF ClaudeNext, ClaudeCandidate, ClaudeTool, ClaudeThought, ClaudeText, ClaudeEnd, NewTool, Visiting
<1>3. ResponsesNext => phase \in {"prepare", "walk", "closing"}
  BY <1>1 DEF ResponsesNext, ResponsesBegins, ResponsesCandidate, ResponsesTool, ResponsesText,
              ResponsesSignature, ResponsesEnd, NewTool, Visiting
<1>4. OpenAINext => phase \in {"prepare", "walk", "closing"}
  BY <1>1 DEF OpenAINext, OpenAICandidate, OpenAITool, OpenAIText, OpenAIEnd, NewTool, Visiting
<1>5. CollectNext => phase \in {"prepare", "walk", "closing"}
  BY <1>1 DEF CollectNext, CollectRepeated, ReadFrame, WalkEnds, WalkFails, ToolRefused,
              ToolRepeated, CollectCandidate, CollectPart, CollectEnd, NewTool, Visiting
<1> QED BY <1>2, <1>3, <1>4, <1>5 DEF ClaudeStep, ResponsesStep, OpenAIStep, CollectStep, Running

LEMMA RunningStep == ASSUME [Next]_vars, Running' PROVE Running
<1>1. CASE UNCHANGED phase BY <1>1 DEF Running
<1>2. UNCHANGED vars => UNCHANGED phase BY DEF vars, walkVars
<1> QED BY <1>1, <1>2, StepsRun DEF Next, Finished

LEMMA ItemsSame ==
    ASSUME ItemsInv, Running' => Running, UNCHANGED <<outputs, active, actionable>> PROVE ItemsInv'
<1>1. Actionable' BY DEF ItemsInv, Actionable, IsAnswer
<1>2. (IsSeq(outputs) /\ active \in 0..Len(outputs))' BY DEF ItemsInv, IsSeq
<1>3. (\A k \in DOMAIN outputs : IsItem(outputs[k]))' BY DEF ItemsInv, IsItem
<1> QED BY <1>1, <1>2, <1>3 DEF ItemsInv

\* The list of items after a step, from what it says of each of them.
LEMMA ItemsNext ==
    ASSUME IsSeq(outputs'), \A k \in DOMAIN outputs' : IsItem(outputs'[k]), active' \in 0..Len(outputs'),
           Running' /\ actionable' =>
             \E k \in DOMAIN outputs' : IsAnswer(outputs'[k]) /\ (k = active' \/ outputs'[k].status = "completed")
    PROVE  ItemsInv'
<1>1. Actionable' BY DEF Actionable, IsAnswer
<1>2. (IsSeq(outputs) /\ active \in 0..Len(outputs))' BY DEF IsSeq
<1>3. (\A k \in DOMAIN outputs : IsItem(outputs[k]))' BY DEF IsItem
<1> QED BY <1>1, <1>2, <1>3 DEF ItemsInv

LEMMA ItemsStep == ASSUME ItemsInv, [Next]_vars PROVE ItemsInv'
<1>0. Running' => Running BY RunningStep
<1>1. CASE UNCHANGED responsesVars BY <1>0, <1>1, ItemsSame DEF responsesVars
<1>2. CASE ResponsesTool
  <2>1. CASE UNCHANGED responsesVars BY <1>1, <2>1
  <2>2. CASE ~UNCHANGED responsesVars
    <3> DEFINE closed == OutputsClosed("completed")
               item == [Item("function_call", CallOf(Head(todo))) EXCEPT !.status = "completed"]
    <3>1. outputs' = Append(closed, item) /\ active' = 0
      BY <1>2, <2>2 DEF ResponsesTool
    <3>2. IsItem(item) /\ IsAnswer(item) /\ item.status = "completed" BY DEF Item, IsItem, IsAnswer
    <3>3. /\ IsSeq(closed) /\ Len(closed) = Len(outputs) /\ Len(outputs) \in Nat
          /\ DOMAIN closed = 1..Len(outputs) /\ DOMAIN outputs = 1..Len(outputs)
          /\ \A k \in DOMAIN closed : IsItem(closed[k])
      BY ClosedItems, SeqFacts DEF ItemsInv
    <3> HIDE DEF closed, item
    <3>4. /\ IsSeq(outputs') /\ Len(outputs') = Len(outputs) + 1 /\ outputs'[Len(outputs) + 1] = item
          /\ \A k \in DOMAIN closed : outputs'[k] = closed[k]
          /\ DOMAIN outputs' = 1..(Len(outputs) + 1)
      BY <3>1, <3>3, AppendItem, SeqFacts
    <3>5. \A k \in DOMAIN outputs' : IsItem(outputs'[k])
      <4> SUFFICES ASSUME NEW k \in DOMAIN outputs' PROVE IsItem(outputs'[k]) OBVIOUS
      <4>1. k \in DOMAIN closed \/ k = Len(outputs) + 1 BY <3>3, <3>4
      <4> QED BY <3>2, <3>3, <3>4, <4>1
    <3>6. Len(outputs) + 1 \in DOMAIN outputs' BY <3>3, <3>4
    <3> QED BY <3>1, <3>2, <3>3, <3>4, <3>5, <3>6, ItemsNext
  <2> QED BY <2>1, <2>2
<1>3. CASE ResponsesText
  <2>1. CASE UNCHANGED responsesVars BY <1>1, <2>1
  <2>2. CASE ~UNCHANGED responsesVars
    <3> DEFINE p == Head(todo)
               type == TypeOf(p.kind)
               i == IF Continues(p) THEN active ELSE Len(outputs) + 1
               items == IF Continues(p) THEN outputs
                        ELSE Append(OutputsClosed("completed"), Item(type, None))
    <3>1. /\ outputs' = Signed(items, i, p.sig) /\ active' = i
          /\ actionable' = (actionable \/ type = "message")
      BY <1>3, <2>2 DEF ResponsesText
    <3>2. /\ IsSeq(items) /\ \A k \in DOMAIN items : IsItem(items[k])
          /\ Len(outputs) \in Nat /\ i \in DOMAIN items
          /\ \A k \in DOMAIN outputs : /\ k \in DOMAIN items /\ items[k].type = outputs[k].type
                                       /\ (k = active \/ outputs[k].status = "completed") =>
                                            (k = i \/ items[k].status = "completed")
          /\ items[i].type = type
      <4>a. Len(outputs) \in Nat /\ DOMAIN outputs = 1..Len(outputs) BY SeqFacts DEF ItemsInv
      <4>1. CASE Continues(p)
        <5>1. items = outputs /\ i = active /\ active # 0 /\ outputs[active].type = type
          BY <4>1 DEF Continues
        <5>2. active \in DOMAIN outputs
          <6>1. active \in 0..Len(outputs) BY DEF ItemsInv
          <6> HIDE DEF items, i, type
          <6> QED BY <4>a, <5>1, <6>1
        <5> HIDE DEF items, i
        <5> QED BY <4>a, <5>1, <5>2 DEF ItemsInv
      <4>2. CASE ~Continues(p)
        <5> DEFINE closed == OutputsClosed("completed")
                   new == Item(type, None)
        <5>1. items = Append(closed, new) /\ i = Len(outputs) + 1 BY <4>2
        <5>2. IsItem(new) /\ new.type = type BY DEF Item, IsItem
        <5>3. /\ IsSeq(closed) /\ Len(closed) = Len(outputs) /\ DOMAIN closed = 1..Len(outputs)
              /\ \A k \in DOMAIN outputs :
                   /\ IsItem(closed[k]) /\ closed[k].type = outputs[k].type
                   /\ closed[k].status = IF k = active THEN "completed" ELSE outputs[k].status
          BY ClosedItems, SeqFacts DEF ItemsInv
        <5> HIDE DEF closed, new, items, i, type
        <5>4. /\ IsSeq(items) /\ Len(items) = Len(outputs) + 1 /\ items[Len(outputs) + 1] = new
              /\ \A k \in DOMAIN outputs : items[k] = closed[k]
              /\ DOMAIN items = 1..(Len(outputs) + 1)
          BY <4>a, <5>1, <5>3, AppendItem, SeqFacts
        <5>5. \A k \in DOMAIN items : k \in DOMAIN outputs \/ k = Len(outputs) + 1 BY <4>a, <5>4
        <5> QED BY <4>a, <5>1, <5>2, <5>3, <5>4, <5>5
      <4> QED BY <4>1, <4>2
    <3> HIDE DEF items, i
    <3>3. /\ IsSeq(outputs') /\ Len(outputs') = Len(items) /\ DOMAIN outputs' = DOMAIN items
          /\ DOMAIN items = 1..Len(items) /\ Len(items) \in Nat
          /\ \A k \in DOMAIN items : /\ IsItem(outputs'[k]) /\ outputs'[k].type = items[k].type
                                     /\ outputs'[k].status = items[k].status
      BY <3>1, <3>2, SignedItems, SeqFacts
    <3>4. active' \in 0..Len(outputs') BY <3>1, <3>2, <3>3
    <3>5. ASSUME actionable'
          PROVE  \E k \in DOMAIN outputs' :
                    IsAnswer(outputs'[k]) /\ (k = active' \/ outputs'[k].status = "completed")
      <4>1. CASE actionable
        <5>0. Running BY <1>3 DEF ResponsesText, Visiting, Running
        <5>1. PICK k \in DOMAIN outputs : IsAnswer(outputs[k]) /\ (k = active \/ outputs[k].status = "completed")
          BY <4>1, <5>0 DEF ItemsInv, Actionable
        <5> QED BY <3>1, <3>2, <3>3, <5>1 DEF IsAnswer
      <4>2. CASE type = "message" BY <3>1, <3>2, <3>3, <4>2 DEF IsAnswer
      <4> QED BY <3>1, <3>5, <4>1, <4>2
    <3> QED BY <3>3, <3>4, <3>5, ItemsNext
  <2> QED BY <2>1, <2>2
<1>4. CASE ResponsesSignature
  <2>1. CASE active = 0
    <3>1. UNCHANGED <<outputs, active, actionable>> BY <1>4, <2>1 DEF ResponsesSignature
    <3> QED BY <1>0, <3>1, ItemsSame
  <2>2. CASE active # 0
    <3>1. outputs' = Signed(outputs, active, Head(todo).sig) /\ UNCHANGED <<active, actionable>>
      BY <1>4, <2>2 DEF ResponsesSignature
    <3>2. Len(outputs) \in Nat /\ DOMAIN outputs = 1..Len(outputs) /\ active \in DOMAIN outputs
      BY <2>2, SeqFacts DEF ItemsInv
    <3>3. /\ IsSeq(outputs') /\ Len(outputs') = Len(outputs) /\ DOMAIN outputs' = DOMAIN outputs
          /\ \A k \in DOMAIN outputs : /\ IsItem(outputs'[k]) /\ outputs'[k].type = outputs[k].type
                                       /\ outputs'[k].status = outputs[k].status
      BY <3>1, <3>2, SignedItems, SeqFacts DEF ItemsInv
    <3>4. active' \in 0..Len(outputs') BY <3>1, <3>3 DEF ItemsInv
    <3>5. ASSUME Running', actionable'
          PROVE  \E k \in DOMAIN outputs' :
                    IsAnswer(outputs'[k]) /\ (k = active' \/ outputs'[k].status = "completed")
      <4>1. PICK k \in DOMAIN outputs : IsAnswer(outputs[k]) /\ (k = active \/ outputs[k].status = "completed")
        BY <1>0, <3>1, <3>5 DEF ItemsInv, Actionable
      <4> QED BY <3>1, <3>3, <4>1 DEF IsAnswer
    <3> QED BY <3>3, <3>4, <3>5, ItemsNext
  <2> QED BY <2>1, <2>2
<1>5. CASE ResponsesEnd
  <2>1. CASE UNCHANGED responsesVars BY <1>1, <2>1
  <2>2. CASE ~UNCHANGED responsesVars
    <3>1. outputs' = OutputsClosed(EndStatus) /\ active' = 0 /\ phase' \in {"done", "failed"}
      BY <1>5, <2>2 DEF ResponsesEnd
    <3>2. /\ IsSeq(outputs') /\ Len(outputs') = Len(outputs) /\ Len(outputs) \in Nat
          /\ DOMAIN outputs' = DOMAIN outputs /\ \A k \in DOMAIN outputs : IsItem(outputs'[k])
      BY <3>1, ClosedItems, SeqFacts DEF ItemsInv
    <3>3. ~Running' BY <3>1 DEF Running
    <3>4. active' \in 0..Len(outputs') BY <3>1, <3>2
    <3> QED BY <3>2, <3>3, <3>4, ItemsNext
  <2> QED BY <2>1, <2>2
<1>6. ResponsesStep => \/ UNCHANGED responsesVars \/ ResponsesTool \/ ResponsesText
                       \/ ResponsesSignature \/ ResponsesEnd
                       \/ UNCHANGED <<outputs, active, actionable>>
  BY DEF ResponsesStep, ResponsesNext, ResponsesBegins, ResponsesCandidate
<1>7. CASE UNCHANGED <<outputs, active, actionable>> BY <1>0, <1>7, ItemsSame
<1>8. ~ResponsesStep => UNCHANGED responsesVars
  BY DEF Next, ClaudeStep, OpenAIStep, CollectStep, Finished, vars, responsesVars
<1> QED BY <1>1, <1>2, <1>3, <1>4, <1>5, <1>6, <1>7, <1>8

LEMMA StatesStep == ASSUME IsFiniteSet(DOMAIN states), [Next]_vars PROVE IsFiniteSet(DOMAIN states')
<1>1. CASE UNCHANGED states BY <1>1
<1>2. CASE OpenAICandidate
  <2>1. UNCHANGED states \/ DOMAIN states' = DOMAIN states \cup {Head(todo).index} BY <1>2 DEF OpenAICandidate
  <2> QED BY <2>1, FS_AddElement
<1>3. CASE OpenAITool
  <2>1. UNCHANGED states \/ DOMAIN states' = DOMAIN states BY <1>3 DEF OpenAITool
  <2> QED BY <2>1
<1>4. OpenAINext => UNCHANGED states \/ OpenAICandidate \/ OpenAITool
  BY DEF OpenAINext, OpenAIText, OpenAIEnd
<1>5. [Next]_vars => UNCHANGED states \/ OpenAINext
  BY DEF Next, ClaudeStep, ResponsesStep, OpenAIStep, CollectStep, Finished, vars
<1> QED BY <1>1, <1>2, <1>3, <1>4, <1>5

LEMMA FlowSame == ASSUME Flow, UNCHANGED vars PROVE Flow'
  BY DEF Flow, vars, walkVars, responsesVars, IsSeq, Complete, EndIsHonest, Claims, Fails, Intact

LEMMA EndInvStart == ASSUME StreamsInit PROVE EndInv
<1>1. out = <<>> /\ outputs = <<>> /\ states = <<>> /\ cause = None /\ phase \in {"prepare", "walk"}
      /\ active = 0 /\ actionable = FALSE
  BY DEF StreamsInit, Init, ResponsesInit, OpenAIInit
<1>2. DOMAIN <<>> = {} /\ IsSeq(<<>>) /\ Len(<<>>) = 0 BY EmptyIsSeq
<1>3. IsFiniteSet({}) BY FS_EmptySet
<1>4. Flow BY <1>1, <1>2 DEF Flow, Phases, EndIsHonest
<1>5. ItemsInv BY <1>1, <1>2 DEF ItemsInv, Actionable
<1> QED BY <1>1, <1>2, <1>3, <1>4, <1>5 DEF EndInv

LEMMA EndInvStep == ASSUME EndInv, [Next]_vars PROVE EndInv'
<1>1. ItemsInv' BY ItemsStep DEF EndInv
<1>2. IsFiniteSet(DOMAIN states') BY StatesStep DEF EndInv
<1>3. Flow'
  <2>1. CASE UNCHANGED vars BY <2>1, FlowSame DEF EndInv
  <2>2. CASE Next
    BY <2>1, <2>2, ClaudeFlow, ResponsesFlow, OpenAIFlow, CollectFlow DEF EndInv, Next, Finished
  <2> QED BY <2>1, <2>2
<1> QED BY <1>1, <1>2, <1>3 DEF EndInv

-----------------------------------------------------------------------------
(* Events are written one after the other. *)

Grown(t, s, e) ==
  /\ IsSeq(s) /\ IsSeq(t) /\ t = Append(s, e) /\ Len(s) \in Nat /\ Len(t) = Len(s) + 1
  /\ DOMAIN s = 1..Len(s) /\ DOMAIN t = 1..(Len(s) + 1)
  /\ t[Len(s) + 1] = e /\ \A i \in 1..Len(s) : t[i] = s[i]

LEMMA GrownAppend ==
    ASSUME NEW s, IsSeq(s), NEW e PROVE Grown(Append(s, e), s, e) /\ s \o <<e>> = Append(s, e)
<1> DEFINE t == Append(s, e)
<1>1. DOMAIN s = 1..Len(s) /\ Len(s) \in Nat BY SeqFacts
<1>2. IsSeq(t) /\ Len(t) = Len(s) + 1 /\ t[Len(s) + 1] = e /\ \A i \in 1..Len(s) : t[i] = s[i]
  BY <1>1, AppendItem
<1>3. s \o <<e>> = t
  <2> DEFINE S == ToSet(s) \cup {e}
  <2>1. s \in Seq(S) /\ e \in S BY DEF IsSeq
  <2> HIDE DEF S
  <2> QED BY <2>1
<1>4. t = Append(s, e) OBVIOUS
<1> HIDE DEF t
<1>5. DOMAIN t = 1..(Len(s) + 1) BY <1>2, SeqFacts
<1>6. Grown(t, s, e) BY <1>1, <1>2, <1>4, <1>5 DEF Grown
<1> QED BY <1>3, <1>6 DEF t

Count(s, ev) == Before(s, Len(s) + 1, ev)

LEMMA CountIs ==
    ASSUME NEW s, Len(s) \in Nat, NEW ev PROVE Count(s, ev) = Cardinality({j \in 1..Len(s) : s[j].ev = ev})
<1>1. 1..(Len(s) + 1 - 1) = 1..Len(s) OBVIOUS
<1>2. Count(s, ev) = Cardinality({j \in 1..(Len(s) + 1 - 1) : s[j].ev = ev}) BY DEF Count, Before
<1> QED BY <1>1, <1>2

LEMMA CountGrown ==
    ASSUME NEW s, NEW t, NEW e, Grown(t, s, e), NEW ev
    PROVE  /\ Count(s, ev) \in Nat /\ Count(t, ev) = Count(s, ev) + IF e.ev = ev THEN 1 ELSE 0
           /\ \A i \in 1..(Len(s) + 1) : Before(t, i, ev) = Before(s, i, ev)
           /\ Before(t, Len(s) + 1, ev) = Count(s, ev)
<1> DEFINE n == Len(s)
           K == {j \in 1..(n + 1) : t[j].ev = ev}
           A == {j \in 1..n : j \in K}
           B == {j \in 1..(n + 1) : j \in K}
<1>1. /\ n \in Nat /\ Len(t) = n + 1 /\ t[n + 1] = e /\ \A i \in 1..n : t[i] = s[i]
      /\ n + 1 \in 1..(n + 1)
  BY DEF Grown
<1>2. A = {j \in 1..n : s[j].ev = ev} /\ B = {j \in 1..(n + 1) : t[j].ev = ev} BY <1>1
<1>3. n + 1 \in K <=> e.ev = ev BY <1>1
<1>4. Count(s, ev) = Cardinality(A)
  <2>1. Count(s, ev) = Cardinality({j \in 1..Len(s) : s[j].ev = ev}) BY <1>1, CountIs
  <2> QED BY <1>2, <2>1
<1>5. Count(t, ev) = Cardinality(B)
  <2>1. Count(t, ev) = Cardinality({j \in 1..Len(t) : t[j].ev = ev}) BY <1>1, CountIs
  <2> QED BY <1>1, <1>2, <2>1
<1>6. ASSUME NEW i \in 1..(n + 1) PROVE Before(t, i, ev) = Before(s, i, ev)
  <2>1. \A j \in 1..(i - 1) : t[j] = s[j] BY <1>1
  <2>2. {j \in 1..(i - 1) : t[j].ev = ev} = {j \in 1..(i - 1) : s[j].ev = ev} BY <2>1
  <2> QED BY <2>2 DEF Before
<1> HIDE DEF n, K
<1>7. Cardinality(A) \in Nat /\ Cardinality(B) = Cardinality(A) + IF n + 1 \in K THEN 1 ELSE 0
  BY <1>1, CountNext
<1>8. Before(t, n + 1, ev) = Count(s, ev) BY <1>1, <1>6 DEF Count, n
<1> QED BY <1>3, <1>4, <1>5, <1>6, <1>7, <1>8 DEF n

Marks(K, s, S) == \A i \in 1..Len(s) : i \in K <=> s[i] \in S

LEMMA SaidGrown ==
    ASSUME NEW s, NEW t, NEW e, Grown(t, s, e), NEW S, NEW K, Marks(K, s, S), NEW J, Marks(J, t, S)
    PROVE  Said(t, J) = IF e \in S THEN Append(Said(s, K), e.what) ELSE Said(s, K)
<1>1. IsSeq(s) /\ t = Append(s, e) /\ Len(s) \in Nat /\ Len(t) = Len(s) + 1
      /\ t[Len(s) + 1] = e /\ \A i \in 1..Len(s) : t[i] = s[i]
  BY DEF Grown
<1>2. \A i \in 1..Len(s) : i \in K <=> i \in J BY <1>1 DEF Marks
<1>3. Len(s) + 1 \in J <=> e \in S BY <1>1 DEF Marks
<1> QED BY <1>1, <1>2, <1>3, SaidAppend

LEMMA ProseGrown ==
    ASSUME NEW s, NEW t, NEW e, Grown(t, s, e)
    PROVE  Prose(t) = IF Tells(e) THEN Append(Prose(s), e.what) ELSE Prose(s)
<1> DEFINE S == {x \in ToSet(t) : Tells(x)}
           K == {i \in DOMAIN s : Tells(s[i])}
           J == {i \in DOMAIN t : Tells(t[i])}
<1>1. /\ DOMAIN s = 1..Len(s) /\ DOMAIN t = 1..(Len(s) + 1) /\ Len(s) \in Nat /\ t[Len(s) + 1] = e
      /\ Len(t) = Len(s) + 1 /\ \A i \in 1..Len(s) : t[i] = s[i]
  BY DEF Grown
<1>2. \A i \in 1..(Len(s) + 1) : t[i] \in ToSet(t) BY <1>1 DEF ToSet
<1>3. Marks(K, s, S)
  <2>1. \A i \in 1..Len(s) : s[i] \in ToSet(t) BY <1>1, <1>2
  <2> QED BY <1>1, <2>1 DEF Marks
<1>4. Marks(J, t, S) BY <1>1, <1>2 DEF Marks
<1>5. e \in S <=> Tells(e)
  <2>1. Len(s) + 1 \in 1..(Len(s) + 1) BY <1>1
  <2> QED BY <1>1, <1>2, <2>1
<1> HIDE DEF S, K, J
<1>6. Said(t, J) = IF e \in S THEN Append(Said(s, K), e.what) ELSE Said(s, K) BY <1>3, <1>4, SaidGrown
<1> QED BY <1>5, <1>6 DEF Prose, K, J

\* The ids of the calls some events deliver.
IdOf(e) == IF e.ev = "output_item.done" THEN e.item.call.id ELSE e.what.id

Ids(s) == {IdOf(s[i]) : i \in {i \in DOMAIN s : IsCall(s[i])}}

Once(s) == \A i, j \in DOMAIN s : IsCall(s[i]) /\ IsCall(s[j]) /\ IdOf(s[i]) = IdOf(s[j]) => i = j

LEMMA IdsGrown ==
    ASSUME NEW s, NEW t, NEW e, Grown(t, s, e), Once(s), IsCall(e) => IdOf(e) \notin Ids(s)
    PROVE  Once(t) /\ Ids(t) = IF IsCall(e) THEN Ids(s) \cup {IdOf(e)} ELSE Ids(s)
<1>1. /\ DOMAIN s = 1..Len(s) /\ DOMAIN t = 1..(Len(s) + 1) /\ Len(s) \in Nat /\ t[Len(s) + 1] = e
      /\ \A i \in 1..Len(s) : t[i] = s[i]
  BY DEF Grown
<1>2. \A i \in DOMAIN t : i \in DOMAIN s \/ i = Len(s) + 1 BY <1>1
<1>3. \A i \in DOMAIN s : i \in DOMAIN t /\ t[i] = s[i] /\ i # Len(s) + 1 BY <1>1
<1>4. Len(s) + 1 \in DOMAIN t BY <1>1
<1>5. Once(t)
  <2> SUFFICES ASSUME NEW i \in DOMAIN t, NEW j \in DOMAIN t, IsCall(t[i]), IsCall(t[j]), IdOf(t[i]) = IdOf(t[j])
               PROVE  i = j
    BY DEF Once
  <2>1. CASE i \in DOMAIN s /\ j \in DOMAIN s BY <1>3, <2>1 DEF Once
  <2>2. CASE i \in DOMAIN s /\ j = Len(s) + 1 BY <1>1, <1>3, <2>2 DEF Ids
  <2>3. CASE j \in DOMAIN s /\ i = Len(s) + 1 BY <1>1, <1>3, <2>3 DEF Ids
  <2> QED BY <1>2, <2>1, <2>2, <2>3
<1>6. ASSUME NEW x PROVE x \in Ids(t) <=> x \in Ids(s) \/ (IsCall(e) /\ x = IdOf(e))
  <2>1. x \in Ids(t) <=> \E i \in DOMAIN t : IsCall(t[i]) /\ x = IdOf(t[i]) BY DEF Ids
  <2>2. x \in Ids(s) <=> \E i \in DOMAIN s : IsCall(s[i]) /\ x = IdOf(s[i]) BY DEF Ids
  <2> QED BY <1>1, <1>2, <1>3, <1>4, <2>1, <2>2
<1>7. Ids(t) = IF IsCall(e) THEN Ids(s) \cup {IdOf(e)} ELSE Ids(s) BY <1>6
<1> QED BY <1>5, <1>7

\* What some events told: the texts, and the calls by their ids, each once.
Told(s, prose, ids) == IsSeq(s) /\ Prose(s) = prose /\ Ids(s) = ids /\ Once(s)

LEMMA ToldGrown ==
    ASSUME NEW s, NEW prose, NEW ids, Told(s, prose, ids), NEW e, IsCall(e) => IdOf(e) \notin ids
    PROVE  Told(Append(s, e), IF Tells(e) THEN Append(prose, e.what) ELSE prose,
                              IF IsCall(e) THEN ids \cup {IdOf(e)} ELSE ids)
<1> DEFINE t == Append(s, e)
<1>1. Grown(t, s, e) BY GrownAppend DEF Told
<1> HIDE DEF t
<1>2. IsSeq(t) BY <1>1 DEF Grown
<1>3. Prose(t) = IF Tells(e) THEN Append(Prose(s), e.what) ELSE Prose(s) BY <1>1, ProseGrown
<1>4. Once(t) /\ Ids(t) = IF IsCall(e) THEN Ids(s) \cup {IdOf(e)} ELSE Ids(s) BY <1>1, IdsGrown DEF Told
<1> QED BY <1>2, <1>3, <1>4 DEF Told, t

LEMMA NothingTold == Told(<<>>, <<>>, {})
<1>1. IsSeq(<<>>) /\ DOMAIN <<>> = {} BY EmptyIsSeq
<1>2. Said(<<>>, {}) = <<>>
  <2>1. Among(<<>>, {}) = <<>>
    <3>1. IsSeq(Among(<<>>, {})) /\ Len(Among(<<>>, {})) <= 0 BY <1>1, AmongLemma, EmptyIsSeq
    <3> DEFINE a == Among(<<>>, {})
    <3> HIDE DEF a
    <3>2. a = <<>> BY <3>1 DEF a, IsSeq
    <3> QED BY <3>2 DEF a
  <2> QED BY <1>1, <2>1 DEF Said
<1>3. {i \in DOMAIN <<>> : Tells(<<>>[i])} = {} BY <1>1
<1> QED BY <1>1, <1>2, <1>3 DEF Told, Prose, Ids, Once

-----------------------------------------------------------------------------
(* A write that breaks leaves a prefix. *)

Begins(t, s) == \E m \in 0..Len(s) : t = SubSeq(s, 1, m)

LEMMA BeginsFacts ==
    ASSUME NEW s, IsSeq(s), NEW t, Begins(t, s)
    PROVE  /\ IsSeq(t) /\ Len(t) \in Nat /\ Len(s) \in Nat /\ Len(t) <= Len(s)
           /\ DOMAIN t = 1..Len(t) /\ DOMAIN s = 1..Len(s)
           /\ \A i \in 1..Len(t) : t[i] = s[i]
           /\ Len(t) = Len(s) => t = s
<1>1. PICK m \in 0..Len(s) : t = SubSeq(s, 1, m) BY DEF Begins
<1>2. IsSeq(t) /\ Len(t) = m /\ \A i \in 1..m : t[i] = s[i] BY <1>1, PrefixLemma
<1>3. Len(s) \in Nat /\ DOMAIN s = 1..Len(s) /\ DOMAIN t = 1..Len(t) BY <1>2, SeqFacts
<1>4. ASSUME m = Len(s) PROVE t = s
  <2>1. s \in Seq(ToSet(s)) BY DEF IsSeq
  <2> QED BY <1>1, <1>4, <2>1
<1>5. Len(t) = Len(s) => t = s BY <1>2, <1>4
<1>6. Len(t) <= Len(s) /\ Len(t) \in Nat BY <1>2, <1>3
<1>7. \A i \in 1..Len(t) : t[i] = s[i] BY <1>1, <1>2
<1> QED BY <1>2, <1>3, <1>5, <1>6, <1>7

LEMMA BrokenBegins ==
    ASSUME IsSeq(out), NEW events, IsSeq(events), Broken(events)
    PROVE  Begins(out', out \o events) /\ phase' = "failed" /\ cause' = "write"
<1>1. PICK n \in 0..(Len(events) - 1) : out' = out \o SubSeq(events, 1, n) BY DEF Broken
<1> DEFINE S == ToSet(out) \cup ToSet(events)
<1>2. out \in Seq(S) /\ events \in Seq(S) BY DEF IsSeq
<1> HIDE DEF S
<1>3. Len(out) \in Nat /\ Len(events) \in Nat /\ n \in 0..Len(events) /\ Len(out \o events) = Len(out) + Len(events)
  BY <1>2
<1>4. Len(out) + n \in 0..Len(out \o events) BY <1>3
<1>5. out \o SubSeq(events, 1, n) = SubSeq(out \o events, 1, Len(out) + n)
  <2> DEFINE a == out \o SubSeq(events, 1, n)
             b == SubSeq(out \o events, 1, Len(out) + n)
  <2>1. a \in Seq(S) /\ Len(a) = Len(out) + n BY <1>2, <1>3
  <2>2. b \in Seq(S) /\ Len(b) = Len(out) + n BY <1>2, <1>3
  <2>3. \A i \in 1..(Len(out) + n) : a[i] = b[i] BY <1>2, <1>3
  <2> HIDE DEF a, b
  <2>4. a = b BY <2>1, <2>2, <2>3, SeqEqual
  <2> QED BY <2>4 DEF a, b
<1>6. Begins(out', out \o events) BY <1>1, <1>4, <1>5 DEF Begins
<1> QED BY <1>6 DEF Broken

LEMMA BeginsOnce == ASSUME NEW s, IsSeq(s), Once(s), NEW t, Begins(t, s) PROVE Once(t)
<1>1. DOMAIN t \subseteq DOMAIN s /\ \A i \in DOMAIN t : t[i] = s[i] BY BeginsFacts
<1> QED BY <1>1 DEF Once

LEMMA BeginsBefore ==
    ASSUME NEW s, IsSeq(s), NEW t, Begins(t, s), NEW i \in 1..Len(t), NEW ev
    PROVE  Before(t, i, ev) = Before(s, i, ev)
<1>1. Len(t) \in Nat /\ \A j \in 1..Len(t) : t[j] = s[j] BY BeginsFacts
<1>2. \A j \in 1..(i - 1) : t[j] = s[j] BY <1>1
<1>3. {j \in 1..(i - 1) : t[j].ev = ev} = {j \in 1..(i - 1) : s[j].ev = ev} BY <1>2
<1> QED BY <1>3 DEF Before

-----------------------------------------------------------------------------
(* What is left to visit: each part comes after its candidate. *)

IsVisit(v) ==
  /\ v.kind \in {"candidate", "text", "thought", "tool"} /\ v.index \in Nat
  /\ v.kind = "tool" => v.id = None \/ v.id \in Nat

Leads(s, i, M) ==
  \/ s[i].kind = "candidate" \/ s[i].index \in M
  \/ \E j \in 1..(i - 1) : s[j].kind = "candidate" /\ s[j].index = s[i].index

Led(s, M) == IsSeq(s) /\ \A i \in 1..Len(s) : IsVisit(s[i]) /\ Leads(s, i, M)

LEMMA LedConcat == ASSUME NEW s, NEW t, NEW M, Led(s, M), Led(t, M) PROVE Led(s \o t, M)
<1> DEFINE r == s \o t
           m == Len(s)
           n == Len(t)
<1>1. /\ IsSeq(r) /\ Len(r) = m + n /\ m \in Nat /\ n \in Nat
      /\ \A i \in 1..m : r[i] = s[i]
      /\ \A i \in 1..n : r[m + i] = t[i]
  BY ConcatLemma, SeqFacts DEF Led
<1>2. /\ \A i \in 1..m : IsVisit(s[i]) /\ Leads(s, i, M)
      /\ \A i \in 1..n : IsVisit(t[i]) /\ Leads(t, i, M)
  BY DEF Led
<1> HIDE DEF r, m, n
<1>3. ASSUME NEW i \in 1..m PROVE IsVisit(r[i]) /\ Leads(r, i, M)
  <2>1. \A j \in 1..(i - 1) : j \in 1..m BY <1>1
  <2> QED BY <1>1, <1>2, <2>1 DEF Leads
<1>4. ASSUME NEW k \in 1..n PROVE IsVisit(r[m + k]) /\ Leads(r, m + k, M)
  <2>1. r[m + k] = t[k] /\ IsVisit(t[k]) /\ Leads(t, k, M) BY <1>1, <1>2
  <2>2. ASSUME NEW j \in 1..(k - 1) PROVE m + j \in 1..((m + k) - 1) /\ r[m + j] = t[j]
    <3>1. j \in 1..n BY <1>1
    <3> QED BY <1>1, <3>1
  <2> QED BY <2>1, <2>2 DEF Leads
<1>5. \A i \in 1..(m + n) : i \in 1..m \/ (i - m \in 1..n /\ m + (i - m) = i) BY <1>1
<1>6. \A i \in 1..(m + n) : IsVisit(r[i]) /\ Leads(r, i, M)
  <2> SUFFICES ASSUME NEW i \in 1..(m + n) PROVE IsVisit(r[i]) /\ Leads(r, i, M) OBVIOUS
  <2>1. CASE i \in 1..m BY <1>3, <2>1
  <2>2. CASE i - m \in 1..n /\ m + (i - m) = i
    <3>1. IsVisit(r[m + (i - m)]) /\ Leads(r, m + (i - m), M) BY <1>4, <2>2
    <3> QED BY <2>2, <3>1
  <2> QED BY <1>5, <2>1, <2>2
<1>7. Led(r, M) BY <1>1, <1>6 DEF Led
<1> QED BY <1>7 DEF r

LEMMA LedNone == ASSUME NEW M PROVE Led(<<>>, M)
  BY EmptyIsSeq DEF Led

LEMMA LedFlatten ==
    ASSUME NEW ss, IsSeq(ss), NEW M, \A i \in DOMAIN ss : Led(ss[i], M) PROVE Led(FlattenSeq(ss), M)
<1> DEFINE n == Len(ss)
<1>1. n \in Nat /\ DOMAIN ss = 1..n BY SeqFacts
<1>2. \A i \in DOMAIN ss : IsSeq(ss[i]) BY DEF Led
<1>3. PICK f : Joined(f, ss) BY <1>2, FlattenUnrolled
<1>4. f[0] = <<>> /\ f[n] = FlattenSeq(ss) /\ \A i \in 1..n : f[i] = f[i - 1] \o ss[i] BY <1>3 DEF Joined
<1> HIDE DEF n
<1> DEFINE S == {i \in 0..n : Led(f[i], M)}
<1>5. 0 \in S BY <1>1, <1>4, LedNone
<1>6. ASSUME NEW k \in 0..(n - 1), k \in S PROVE k + 1 \in S
  <2>1. k + 1 \in 1..n /\ k + 1 \in 0..n /\ (k + 1) - 1 = k BY <1>1
  <2>2. f[k + 1] = f[k] \o ss[k + 1] /\ Led(f[k], M) /\ Led(ss[k + 1], M) BY <1>1, <1>4, <1>6, <2>1
  <2> QED BY <2>1, <2>2, LedConcat
<1> HIDE DEF S
<1>7. \A i \in 0..n : i \in S BY <1>1, <1>5, <1>6, BoundedInduction
<1>8. n \in S BY <1>1, <1>7
<1> QED BY <1>4, <1>8 DEF S

\* A frame asks to visit each candidate before its parts.
LEMMA VisitsLed ==
    ASSUME NEW f \in Frames, ValidIndices(f)
    PROVE  Led(Visits(f), {}) /\ (f # <<>> => Visits(f) # <<>>)
<1> DEFINE C(i) == [index |-> f[i].index, finish |-> f[i].finish, kind |-> "candidate"]
           VisitStep(i, p) == [index |-> f[i].index, kind |-> p.kind, body |-> p.body, sig |-> p.sig,
                           id |-> p.id, call |-> p.call]
           P(i) == [j \in DOMAIN f[i].parts |-> VisitStep(i, f[i].parts[j])]
           Of(i) == <<C(i)>> \o P(i)
           ss == [i \in DOMAIN f |-> Of(i)]
<1>1. IsSeq(f) /\ \A i \in DOMAIN f :
        /\ IsSeq(f[i].parts)
        /\ \A j \in DOMAIN f[i].parts : /\ f[i].parts[j].kind \in {"text", "thought", "tool"}
                                        /\ f[i].parts[j].id = None \/ f[i].parts[j].id \in Nat
  BY FramesAssumption DEF IsSeq, ToSet
<1>2. \A i \in DOMAIN f : f[i].index \in Nat
  <2>1. MaxCandidates \in Nat /\ \A i \in DOMAIN f : f[i].index \in 0..(MaxCandidates - 1)
    BY FramesAssumption DEF ValidIndices
  <2> QED BY <2>1
<1>3. ASSUME NEW i \in DOMAIN f PROVE Led(Of(i), {}) /\ Of(i) # <<>>
  <2> DEFINE x == C(i)
             t == P(i)
             n == Len(t)
  <2>1. IsSeq(t) /\ Len(t) = Len(f[i].parts) /\ DOMAIN t = DOMAIN f[i].parts
    <3> DEFINE s == f[i].parts
    <3>1. t = [j \in DOMAIN s |-> t[j]] /\ IsSeq(s) BY <1>1
    <3> HIDE DEF t, s
    <3>2. IsSeq(t) /\ Len(t) = Len(s) /\ DOMAIN t = DOMAIN s BY <3>1, MapSeq
    <3> QED BY <3>2 DEF s
  <2>2. ASSUME NEW j \in DOMAIN f[i].parts PROVE IsVisit(t[j]) /\ t[j].index = f[i].index
    <3>1. t[j] = VisitStep(i, f[i].parts[j]) BY <2>2
    <3>2. /\ VisitStep(i, f[i].parts[j]).kind = f[i].parts[j].kind /\ VisitStep(i, f[i].parts[j]).id = f[i].parts[j].id
          /\ VisitStep(i, f[i].parts[j]).index = f[i].index
      OBVIOUS
    <3> HIDE DEF t, VisitStep
    <3> QED BY <1>1, <1>2, <2>2, <3>1, <3>2 DEF IsVisit
  <2>3. x.kind = "candidate" /\ x.index = f[i].index /\ IsVisit(x) BY <1>2 DEF IsVisit
  <2>4. Of(i) = <<x>> \o t OBVIOUS
  <2> HIDE DEF Of, C, P, x, t
  <2> DEFINE r == <<x>> \o t
  <2>5. /\ IsSeq(r) /\ Len(r) = 1 + n /\ n \in Nat /\ DOMAIN t = 1..n /\ r[1] = x
        /\ \A j \in 1..n : r[1 + j] = t[j]
    BY <2>1, OneElement, ConcatLemma, SeqFacts
  <2> HIDE DEF n, r
  <2>6. ASSUME NEW j \in 1..(1 + n) PROVE IsVisit(r[j]) /\ Leads(r, j, {})
    <3>1. CASE j = 1 BY <2>3, <2>5, <3>1 DEF Leads
    <3>2. CASE j # 1
      <4>1. j - 1 \in 1..n /\ 1 + (j - 1) = j /\ 1 \in 1..(j - 1) BY <2>5, <3>2
      <4>2. r[j] = t[j - 1] /\ IsVisit(t[j - 1]) /\ t[j - 1].index = f[i].index
        BY <2>1, <2>2, <2>5, <4>1
      <4> QED BY <2>3, <2>5, <4>1, <4>2 DEF Leads
    <3> QED BY <3>1, <3>2
  <2>7. Led(r, {}) BY <2>5, <2>6 DEF Led
  <2>8. r # <<>> BY <2>5, EmptyIsSeq
  <2> QED BY <2>4, <2>7, <2>8 DEF r
<1>4. Visits(f) = IF protocol = "claude" /\ f # <<>> THEN Of(1) ELSE FlattenSeq(ss) BY DEF Visits
<1>5. ss = [i \in DOMAIN f |-> ss[i]] /\ \A i \in DOMAIN f : ss[i] = Of(i) OBVIOUS
<1> HIDE DEF Of, ss
<1>6. IsSeq(ss) /\ DOMAIN ss = DOMAIN f BY <1>1, <1>5, MapSeq
<1>7. Led(FlattenSeq(ss), {}) BY <1>3, <1>5, <1>6, LedFlatten
<1>8. f # <<>> => 1 \in DOMAIN f
  <2>1. Len(f) \in Nat /\ DOMAIN f = 1..Len(f) BY <1>1, SeqFacts
  <2>2. f \in Seq(ToSet(f)) BY <1>1 DEF IsSeq
  <2>3. f # <<>> => Len(f) # 0 BY <2>2
  <2> QED BY <2>1, <2>3
<1>9. 1 \in DOMAIN f => FlattenSeq(ss) # <<>>
  <2> SUFFICES ASSUME 1 \in DOMAIN f, FlattenSeq(ss) = <<>> PROVE FALSE OBVIOUS
  <2>1. IsSeq(ss[1]) /\ ss[1] # <<>> BY <1>3, <1>5 DEF Led
  <2>2. ToSet(ss[1]) # {}
    <3>1. Len(ss[1]) \in 1..Len(ss[1]) BY <2>1, SeqFacts
    <3> QED BY <2>1, <3>1, SeqFacts
  <2>3. ToSet(FlattenSeq(ss)) = UNION {ToSet(ss[i]) : i \in DOMAIN ss}
    <3>1. \A i \in DOMAIN ss : IsSeq(ss[i]) BY <1>3, <1>5, <1>6 DEF Led
    <3> QED BY <1>6, <3>1, FlattenLemma
  <2>4. ToSet(<<>>) = {} BY EmptyIsSeq DEF ToSet
  <2> QED BY <1>6, <2>2, <2>3, <2>4
<1> QED BY <1>3, <1>4, <1>7, <1>8, <1>9

\* Once the next one is visited the rest is led by what was met.
LEMMA LedTail ==
    ASSUME NEW s, s # <<>>, NEW M, Led(s, M)
    PROVE  /\ IsVisit(Head(s)) /\ (Head(s).kind # "candidate" => Head(s).index \in M)
           /\ Led(Tail(s), IF Head(s).kind = "candidate" THEN M \cup {Head(s).index} ELSE M)
<1> DEFINE h == Head(s)
           t == Tail(s)
           N == IF h.kind = "candidate" THEN M \cup {h.index} ELSE M
           n == Len(s)
<1>1. s \in Seq(ToSet(s)) BY DEF Led, IsSeq
<1>2. n \in Nat /\ n # 0 /\ 1 \in 1..n BY <1>1
<1>3. h = s[1] BY <1>1
<1>4. /\ t \in Seq(ToSet(s)) /\ Len(t) = n - 1 /\ \A i \in 1..(n - 1) : t[i] = s[i + 1]
  BY <1>1
<1>5. IsSeq(t) BY <1>4, TypedIsSeq
<1>6. \A i \in 1..n : IsVisit(s[i]) /\ Leads(s, i, M) BY DEF Led
<1> HIDE DEF h, t, n
<1>7. IsVisit(h) /\ (h.kind # "candidate" => h.index \in M)
  <2>1. 1..(1 - 1) = {} OBVIOUS
  <2> QED BY <1>2, <1>3, <1>6, <2>1 DEF Leads
<1>8. ASSUME NEW i \in 1..(n - 1) PROVE IsVisit(t[i]) /\ Leads(t, i, N)
  <2>1. i + 1 \in 1..n /\ (i + 1) - 1 = i /\ t[i] = s[i + 1] BY <1>2, <1>4
  <2>2. IsVisit(s[i + 1]) /\ Leads(s, i + 1, M) BY <1>6, <2>1
  <2>3. CASE t[i].kind = "candidate" \/ t[i].index \in M BY <2>1, <2>2, <2>3 DEF Leads
  <2>4. CASE \E j \in 1..i : s[j].kind = "candidate" /\ s[j].index = t[i].index
    <3>1. PICK j \in 1..i : s[j].kind = "candidate" /\ s[j].index = t[i].index BY <2>4
    <3>2. CASE j = 1 BY <1>3, <2>1, <2>2, <3>1, <3>2 DEF Leads
    <3>3. CASE j # 1
      <4>1. j - 1 \in 1..(i - 1) /\ j - 1 \in 1..(n - 1) /\ (j - 1) + 1 = j BY <1>2, <3>3
      <4>2. t[j - 1] = s[j] BY <1>4, <4>1
      <4> QED BY <2>1, <2>2, <3>1, <4>1, <4>2 DEF Leads
    <3> QED BY <3>2, <3>3
  <2> QED BY <2>1, <2>2, <2>3, <2>4 DEF Leads
<1> HIDE DEF N
<1>9. Led(t, N) BY <1>4, <1>5, <1>8 DEF Led
<1> QED BY <1>7, <1>9 DEF h, t, N

-----------------------------------------------------------------------------
(* The walk. *)

CandidatesOf(s) == {s[k].index : k \in {k \in DOMAIN s : s[k].kind = "candidate"}}

Met == CandidatesOf(given)

\* Nothing was lost of the stream so far.
Whole == phase \in {"prepare", "walk"} \/ (phase = "closing" /\ cause = None)

WalkInv ==
  /\ IsSeq(given) /\ Met \subseteq Nat /\ Led(todo, Met)
  /\ phase = "closing" => todo = <<>>
  /\ DOMAIN seen # {} /\ todo = <<>> /\ Whole => Met # {}

Idle ==
  /\ UNCHANGED <<protocol, seen, todo, given, calls, used>> /\ (Whole' => Whole)
  /\ phase' = "closing" => phase = "closing" \/ todo = <<>>

Refused == UNCHANGED <<protocol, given, calls, used>> /\ todo' = <<>> /\ ~Whole'

Known(p) == p.kind = "tool" /\ Repeats(p) /\ ~Unusable(p)

New(p) == p.kind = "tool" /\ ~Repeats(p) /\ ~Unusable(p)

VisitStep ==
  /\ phase = "walk" /\ todo # <<>> /\ Visited /\ Goes
  /\ \/ Head(todo).kind # "tool" /\ UNCHANGED <<calls, used>>
     \/ Known(Head(todo)) /\ Remembered(Head(todo)) /\ UNCHANGED calls
     \/ New(Head(todo)) /\ Register(Head(todo))

Reads == \E f \in Frames : ReadFrame(f)

LEMMA WalkKinds == ASSUME WalkNext PROVE Idle \/ Refused \/ Reads \/ VisitStep
<1>0. None # "transport" /\ None # "response_too_large" /\ None # "invalid_tool_call"
  BY ErrorsAssumption DEF Errors
<1>1. CASE \E f \in Frames : PrepareFrame(f)
  <2>1. PICK f \in Frames : PrepareFrame(f) BY <1>1
  <2>2. phase' \in {"prepare", "refused", "walk"} BY <2>1 DEF PrepareFrame, Verdict
  <2> QED BY <2>1, <2>2 DEF PrepareFrame, Idle, Whole
<1>2. CASE PrepareFails BY <1>2 DEF PrepareFails, Idle, Whole
<1>3. CASE Reads BY <1>3
<1>4. CASE WalkEnds BY <1>4 DEF WalkEnds, Idle, Whole
<1>5. CASE WalkFails
  <2>1. /\ UNCHANGED <<protocol, seen, todo, given, calls, used>> /\ phase' = "closing" /\ todo = <<>>
        /\ cause' \in {"transport", "response_too_large"}
    BY <1>5 DEF WalkFails
  <2> QED BY <1>0, <2>1 DEF Idle, Whole
<1>6. CASE ToolRefused
  <2>1. /\ UNCHANGED <<protocol, given, calls, used>> /\ todo' = <<>> /\ phase' = "closing"
        /\ cause' \in {"invalid_tool_call", "response_too_large"}
    BY <1>6 DEF ToolRefused
  <2> QED BY <1>0, <2>1 DEF Refused, Whole
<1>7. CASE ToolRepeated BY <1>7 DEF ToolRepeated, VisitStep, Visiting, Known
<1> QED BY <1>1, <1>2, <1>3, <1>4, <1>5, <1>6, <1>7 DEF WalkNext, Reads

LEMMA BrokenKind == ASSUME NEW events, Broken(events) PROVE Idle
  BY DEF Broken, Idle, Whole

LEMMA ClaudeKinds == ASSUME ClaudeNext PROVE Idle \/ Refused \/ Reads \/ VisitStep
<1>1. CASE WalkNext BY <1>1, WalkKinds
<1>2. CASE ClaudeCandidate BY <1>2, BrokenKind DEF ClaudeCandidate, Visiting, VisitStep
<1>3. CASE ClaudeTool BY <1>3, BrokenKind DEF ClaudeTool, NewTool, Visiting, VisitStep, New
<1>4. CASE ClaudeThought BY <1>4, BrokenKind DEF ClaudeThought, Visiting, VisitStep
<1>5. CASE ClaudeText BY <1>5, BrokenKind DEF ClaudeText, Visiting, VisitStep
<1>6. CASE ClaudeEnd BY <1>6, BrokenKind DEF ClaudeEnd, Idle, Whole
<1> QED BY <1>1, <1>2, <1>3, <1>4, <1>5, <1>6 DEF ClaudeNext

LEMMA ResponsesKinds == ASSUME ResponsesNext PROVE Idle \/ Refused \/ Reads \/ VisitStep
<1>1. CASE WalkNext BY <1>1, WalkKinds
<1>2. CASE ResponsesBegins BY <1>2, BrokenKind DEF ResponsesBegins, Idle, Whole
<1>3. CASE ResponsesCandidate BY <1>3 DEF ResponsesCandidate, Visiting, VisitStep
<1>4. CASE ResponsesTool BY <1>4, BrokenKind DEF ResponsesTool, NewTool, Visiting, VisitStep, New
<1>5. CASE ResponsesText BY <1>5, BrokenKind DEF ResponsesText, Visiting, VisitStep
<1>6. CASE ResponsesSignature BY <1>6 DEF ResponsesSignature, Visiting, VisitStep
<1>7. CASE ResponsesEnd BY <1>7, BrokenKind DEF ResponsesEnd, Idle, Whole
<1> QED BY <1>1, <1>2, <1>3, <1>4, <1>5, <1>6, <1>7 DEF ResponsesNext

LEMMA OpenAIKinds == ASSUME OpenAINext PROVE Idle \/ Refused \/ Reads \/ VisitStep
<1>1. CASE WalkNext BY <1>1, WalkKinds
<1>2. CASE OpenAICandidate BY <1>2, BrokenKind DEF OpenAICandidate, Visiting, VisitStep
<1>3. CASE OpenAITool BY <1>3, BrokenKind DEF OpenAITool, NewTool, Visiting, VisitStep, New
<1>4. CASE OpenAIText BY <1>4, BrokenKind DEF OpenAIText, Visiting, VisitStep
<1>5. CASE OpenAIEnd BY <1>5, BrokenKind DEF OpenAIEnd, Idle, Whole
<1> QED BY <1>1, <1>2, <1>3, <1>4, <1>5 DEF OpenAINext

LEMMA CollectKinds == ASSUME CollectNext PROVE Idle \/ Refused \/ Reads \/ VisitStep
<1>1. CASE Reads BY <1>1
<1>2. CASE WalkEnds \/ WalkFails \/ ToolRefused BY <1>2, WalkKinds DEF WalkNext
<1>3. CASE CollectRepeated BY <1>3, WalkKinds DEF CollectRepeated, WalkNext
<1>4. CASE CollectCandidate BY <1>4 DEF CollectCandidate, Visiting, VisitStep
<1>5. CASE CollectPart BY <1>5 DEF CollectPart, NewTool, Visiting, VisitStep, New
<1>6. CASE CollectEnd BY <1>6 DEF CollectEnd, Idle, Whole
<1> QED BY <1>1, <1>2, <1>3, <1>4, <1>5, <1>6 DEF CollectNext, Reads

\* What any step does to the walk.
LEMMA StepKinds == ASSUME [Next]_vars PROVE Idle \/ Refused \/ Reads \/ VisitStep
<1>1. CASE UNCHANGED vars BY <1>1 DEF vars, walkVars, Idle, Whole
<1> QED BY <1>1, ClaudeKinds, ResponsesKinds, OpenAIKinds, CollectKinds
        DEF Next, ClaudeStep, ResponsesStep, OpenAIStep, CollectStep, Finished

LEMMA MetSame == ASSUME given' = given PROVE Met' = Met BY DEF Met, CandidatesOf

LEMMA MetGrows ==
    ASSUME IsSeq(given), NEW h, given' = Append(given, h)
    PROVE  Met' = IF h.kind = "candidate" THEN Met \cup {h.index} ELSE Met
<1> DEFINE t == Append(given, h)
<1>1. Grown(t, given, h) BY GrownAppend
<1>2. Met' = CandidatesOf(t) BY DEF Met, CandidatesOf
<1> HIDE DEF t
<1>3. /\ DOMAIN t = 1..(Len(given) + 1) /\ DOMAIN given = 1..Len(given) /\ Len(given) \in Nat
      /\ t[Len(given) + 1] = h /\ \A i \in 1..Len(given) : t[i] = given[i]
  BY <1>1 DEF Grown
<1>4. \A i \in DOMAIN t : i \in DOMAIN given \/ i = Len(given) + 1 BY <1>3
<1>5. \A i \in DOMAIN given : i \in DOMAIN t BY <1>3
<1>6. Len(given) + 1 \in DOMAIN t BY <1>3
<1>7. ASSUME NEW x PROVE x \in CandidatesOf(t) <=> x \in Met \/ (h.kind = "candidate" /\ x = h.index)
  <2>1. x \in CandidatesOf(t) <=> \E k \in DOMAIN t : t[k].kind = "candidate" /\ x = t[k].index
    BY DEF CandidatesOf
  <2>2. x \in Met <=> \E k \in DOMAIN given : given[k].kind = "candidate" /\ x = given[k].index
    BY DEF Met, CandidatesOf
  <2> QED BY <1>3, <1>4, <1>5, <1>6, <2>1, <2>2
<1> QED BY <1>2, <1>7

LEMMA WalkInvStep == ASSUME WalkInv, [Next]_vars PROVE WalkInv'
<1>1. CASE Idle
  <2>1. /\ UNCHANGED <<protocol, seen, todo, given>> /\ (Whole' => Whole)
        /\ phase' = "closing" => phase = "closing" \/ todo = <<>>
    BY <1>1 DEF Idle
  <2>2. Met' = Met BY <2>1, MetSame
  <2>3. IsSeq(given)' /\ Led(todo, Met)' BY <2>1, <2>2 DEF WalkInv, IsSeq, Led, Leads, IsVisit
  <2> QED BY <2>1, <2>2, <2>3 DEF WalkInv
<1>2. CASE Refused
  <2>1. given' = given /\ todo' = <<>> /\ ~Whole' BY <1>2 DEF Refused
  <2>2. Met' = Met BY <2>1, MetSame
  <2>3. Led(<<>>, Met) BY LedNone
  <2>4. IsSeq(given)' /\ Led(todo, Met)' BY <2>1, <2>2, <2>3 DEF WalkInv, IsSeq, Led, Leads, IsVisit
  <2> QED BY <2>1, <2>2, <2>4 DEF WalkInv
<1>3. CASE Reads
  <2>1. PICK f \in Frames : ReadFrame(f) BY <1>3 DEF Reads
  <2>2. given' = given /\ protocol' = protocol /\ todo = <<>> /\ phase = "walk" BY <2>1 DEF ReadFrame
  <2>3. Met' = Met /\ IsSeq(given)' BY <2>2, MetSame DEF WalkInv, IsSeq
  <2>4. CASE ~ValidIndices(f)
    <3>1. todo' = todo /\ seen' = seen /\ phase' = "closing" /\ cause' = "invalid_response" BY <2>1, <2>4 DEF ReadFrame
    <3>2. ~Whole' BY <3>1, ErrorsAssumption DEF Errors, Whole
    <3>3. Led(todo, Met)' BY <2>3, <3>1 DEF WalkInv, Led, Leads, IsVisit, IsSeq
    <3> QED BY <2>2, <2>3, <3>1, <3>2, <3>3 DEF WalkInv
  <2>5. CASE ValidIndices(f)
    <3>1. todo' = Visits(f) /\ DOMAIN seen' = DOMAIN seen \cup IndicesOf(f) /\ phase' = "walk"
      BY <2>1, <2>2, <2>5 DEF ReadFrame
    <3>2. Led(Visits(f), {}) /\ (f # <<>> => Visits(f) # <<>>) BY <2>5, VisitsLed
    <3>3. Led(Visits(f), Met) BY <3>2 DEF Led, Leads
    <3>4. Led(todo, Met)' BY <2>3, <3>1, <3>3 DEF Led, Leads, IsVisit, IsSeq
    <3>5. f = <<>> => DOMAIN seen' = DOMAIN seen
      <4>1. f = <<>> => IndicesOf(f) = {} BY EmptyIsSeq DEF IndicesOf
      <4> QED BY <3>1, <4>1
    <3>6. Whole BY <2>2 DEF Whole
    <3> QED BY <2>2, <2>3, <3>1, <3>2, <3>4, <3>5, <3>6 DEF WalkInv
  <2> QED BY <2>4, <2>5
<1>4. CASE VisitStep
  <2> DEFINE h == Head(todo)
             N == IF h.kind = "candidate" THEN Met \cup {h.index} ELSE Met
  <2>1. todo # <<>> /\ todo' = Tail(todo) /\ given' = Append(given, h) /\ phase' = "walk"
    BY <1>4 DEF VisitStep, Visited, Goes
  <2>2. Met' = N BY <2>1, MetGrows DEF WalkInv
  <2>3. IsVisit(h) /\ (h.kind # "candidate" => h.index \in Met) /\ Led(Tail(todo), N)
    BY <2>1, LedTail DEF WalkInv
  <2> HIDE DEF h
  <2>4. N \subseteq Nat /\ N # {} BY <2>3 DEF WalkInv, IsVisit
  <2> HIDE DEF N
  <2>5. Led(todo, Met)' BY <2>1, <2>2, <2>3 DEF Led, Leads, IsVisit, IsSeq
  <2>6. IsSeq(given)'
    <3>1. Grown(Append(given, h), given, h) BY GrownAppend DEF WalkInv
    <3>2. IsSeq(Append(given, h)) BY <3>1 DEF Grown
    <3> QED BY <2>1, <3>2 DEF IsSeq
  <2> QED BY <2>1, <2>2, <2>4, <2>5, <2>6 DEF WalkInv
<1> QED BY <1>1, <1>2, <1>3, <1>4, StepKinds

LEMMA WalkInvStart == ASSUME given = <<>>, todo = <<>>, DOMAIN seen = {} PROVE WalkInv
<1>1. Met = {} BY EmptyIsSeq DEF Met, CandidatesOf
<1> QED BY <1>1, EmptyIsSeq, LedNone DEF WalkInv

-----------------------------------------------------------------------------
(* The registry of the tool calls. *)

NewCalls == {k \in DOMAIN given : IsNewCall(k)}

Numbered(p) == p.kind = "tool" /\ p.id # None

Registry ==
  /\ IsFiniteSet(DOMAIN used) /\ IsFiniteSet(NewCalls) /\ Cardinality(DOMAIN used) = Cardinality(NewCalls)
  /\ \A n \in Nat : -n \in DOMAIN used => n <= Cardinality(DOMAIN used)
  /\ DOMAIN calls = {CallKey(given[j]) : j \in {j \in DOMAIN given : Numbered(given[j])}}
  /\ \A k \in DOMAIN calls : calls[k].id \in DOMAIN used

\* The id of a new call is new, that of a known one is known.
LEMMA CallIdIsNew ==
    ASSUME Registry, NEW p, IsVisit(p), p.kind = "tool"
    PROVE  IF Repeats(p) THEN CallId(p) \in DOMAIN used ELSE CallId(p) \notin DOMAIN used
<1> DEFINE c == Cardinality(DOMAIN used)
<1>1. c \in Nat BY FS_CardinalityType DEF Registry
<1>2. CASE Repeats(p) BY <1>2 DEF Repeats, CallId, Registry
<1>3. CASE ~Repeats(p)
  <2>1. FreshId \notin DOMAIN used
    <3>1. \A n \in Nat : -n \in DOMAIN used => n <= c BY DEF Registry
    <3>2. FreshId = -(1 + c) BY DEF FreshId
    <3> HIDE DEF c
    <3>3. 1 + c \in Nat /\ ~(1 + c <= c) BY <1>1
    <3> QED BY <3>1, <3>2, <3>3
  <2> QED BY <1>3, <2>1 DEF CallId
<1> QED BY <1>2, <1>3

LEMMA CallsKnown ==
    ASSUME Registry, NEW p, p.kind = "tool"
    PROVE  Repeats(p) <=> p.id # None /\ \E j \in DOMAIN given : given[j].kind = "tool" /\ CallKey(given[j]) = CallKey(p)
<1>1. \A j \in DOMAIN given : CallKey(given[j]) = CallKey(p) => given[j].id = p.id BY DEF CallKey
<1>2. CallKey(p) \in DOMAIN calls <=> \E j \in DOMAIN given : Numbered(given[j]) /\ CallKey(given[j]) = CallKey(p)
  BY DEF Registry
<1> QED BY <1>1, <1>2 DEF Repeats, Numbered

\* What is visited next is a new call if the registry does not know it.
LEMMA NewCallsNext ==
    ASSUME Registry, IsSeq(given), NEW h, given' = Append(given, h), protocol' = protocol
    PROVE  /\ NewCalls' = IF h.kind = "tool" /\ ~Repeats(h) THEN NewCalls \cup {Len(given) + 1} ELSE NewCalls
           /\ Len(given) + 1 \notin NewCalls
<1>1. PICK t : given' = t /\ Grown(t, given, h) BY GrownAppend
<1>2. PICK n : n = Len(given) OBVIOUS
<1>3. /\ DOMAIN t = 1..(n + 1) /\ DOMAIN given = 1..n /\ n \in Nat
      /\ t[n + 1] = h /\ \A i \in 1..n : t[i] = given[i]
  BY <1>1, <1>2 DEF Grown
<1>b. protocol' = protocol OBVIOUS
<1>4. \A i \in 1..n : CallKey(given[i])' = CallKey(given[i]) BY <1>1, <1>3, <1>b DEF CallKey
<1>5. CallKey(given[n + 1])' = CallKey(h) BY <1>1, <1>3, <1>b DEF CallKey
<1>a. (n + 1) - 1 = n BY <1>3
<1>6. ASSUME NEW k \in 1..n PROVE IsNewCall(k)' <=> IsNewCall(k)
  <2>1. \A j \in 1..(k - 1) : j \in 1..n BY <1>3
  <2>2. t[k] = given[k] /\ \A j \in 1..(k - 1) : t[j] = given[j] BY <1>3, <2>1
  <2>3. /\ CallKey(given[k])' = CallKey(given[k])
        /\ \A j \in 1..(k - 1) : CallKey(given[j])' = CallKey(given[j])
    BY <1>4, <2>1
  <2> QED BY <1>1, <2>2, <2>3 DEF IsNewCall
<1>7. IsNewCall(n + 1)' <=> h.kind = "tool" /\ ~Repeats(h)
  <2>1. IsNewCall(n + 1)' <=> /\ h.kind = "tool"
                              /\ h.id # None => \A j \in 1..n : given[j].kind = "tool" => CallKey(given[j]) # CallKey(h)
    BY <1>1, <1>3, <1>4, <1>5, <1>a DEF IsNewCall
  <2> QED BY <1>3, <2>1, CallsKnown
<1>8. \A k : k \in NewCalls' <=> k \in 1..(n + 1) /\ IsNewCall(k)' BY <1>1, <1>3 DEF NewCalls
<1>9. \A k : k \in NewCalls <=> k \in 1..n /\ IsNewCall(k) BY <1>3 DEF NewCalls
<1>10. \A k \in 1..(n + 1) : k \in 1..n \/ k = n + 1 BY <1>3
<1>11. n + 1 \in 1..(n + 1) /\ n + 1 \notin 1..n /\ \A k \in 1..n : k \in 1..(n + 1) BY <1>3
<1>12. ASSUME NEW k PROVE k \in NewCalls' <=> k \in NewCalls \/ (k = n + 1 /\ h.kind = "tool" /\ ~Repeats(h))
  BY <1>6, <1>7, <1>8, <1>9, <1>10, <1>11
<1> QED BY <1>2, <1>9, <1>11, <1>12

LEMMA RegistrySame ==
    ASSUME Registry, UNCHANGED <<protocol, given, calls, used>> PROVE Registry'
<1>1. NewCalls' = NewCalls BY DEF NewCalls, IsNewCall, CallKey
<1> QED BY <1>1 DEF Registry, CallKey, Numbered

LEMMA RegistryVisit == ASSUME Registry, WalkInv, VisitStep PROVE Registry'
<1>h. PICK h : h = Head(todo) OBVIOUS
<1>n. PICK n : n = Len(given) OBVIOUS
<1> DEFINE t == Append(given, h)
           D == DOMAIN used
           c == Cardinality(D)
<1>1. given' = t /\ protocol' = protocol /\ IsVisit(h) BY <1>h, LedTail DEF VisitStep, Visited, Goes, WalkInv
<1>2. /\ NewCalls' = IF h.kind = "tool" /\ ~Repeats(h) THEN NewCalls \cup {n + 1} ELSE NewCalls
      /\ n + 1 \notin NewCalls
  BY <1>1, <1>n, NewCallsNext DEF WalkInv
<1>3. Grown(t, given, h) BY GrownAppend DEF WalkInv
<1> HIDE DEF t
<1>4. /\ DOMAIN t = 1..(n + 1) /\ DOMAIN given = 1..n /\ n \in Nat
      /\ t[n + 1] = h /\ \A i \in 1..n : t[i] = given[i]
  BY <1>3, <1>n DEF Grown
<1> DEFINE Keys == {CallKey(given[j]) : j \in {j \in DOMAIN given : Numbered(given[j])}}
           KeysNext == {CallKey(given[j])' : j \in {j \in DOMAIN given' : Numbered(given[j])'}}
<1>5. KeysNext = IF Numbered(h) THEN Keys \cup {CallKey(h)} ELSE Keys
  <2>1. \A i \in 1..n : CallKey(given[i])' = CallKey(given[i]) /\ (Numbered(given[i])' <=> Numbered(given[i]))
    BY <1>1, <1>4 DEF CallKey, Numbered
  <2>2. CallKey(given[n + 1])' = CallKey(h) /\ (Numbered(given[n + 1])' <=> Numbered(h))
    BY <1>1, <1>4 DEF CallKey, Numbered
  <2>3. \A i \in 1..(n + 1) : i \in 1..n \/ i = n + 1 BY <1>4
  <2>4. n + 1 \in 1..(n + 1) /\ \A i \in 1..n : i \in 1..(n + 1) BY <1>4
  <2>5. ASSUME NEW x PROVE x \in KeysNext <=> x \in Keys \/ (Numbered(h) /\ x = CallKey(h))
    <3>1. x \in KeysNext <=> \E j \in 1..(n + 1) : Numbered(given[j])' /\ x = CallKey(given[j])' BY <1>1, <1>4
    <3>2. x \in Keys <=> \E j \in 1..n : Numbered(given[j]) /\ x = CallKey(given[j]) BY <1>4
    <3> HIDE DEF Keys, KeysNext
    <3> QED BY <2>1, <2>2, <2>3, <2>4, <3>1, <3>2
  <2> HIDE DEF Keys, KeysNext
  <2> QED BY <2>5
<1>6. /\ IsFiniteSet(D) /\ IsFiniteSet(NewCalls) /\ c = Cardinality(NewCalls) /\ c \in Nat
      /\ \A m \in Nat : -m \in D => m <= c
      /\ DOMAIN calls = Keys /\ \A k \in DOMAIN calls : calls[k].id \in D
  BY FS_CardinalityType DEF Registry
<1> HIDE DEF Keys
<1>7. CASE h.kind # "tool"
  <2>1. used' = used /\ calls' = calls /\ NewCalls' = NewCalls BY <1>2, <1>7, <1>h DEF VisitStep, Known, New
  <2>2. DOMAIN calls' = KeysNext BY <1>5, <1>6, <1>7, <2>1 DEF Numbered
  <2> QED BY <1>6, <2>1, <2>2 DEF Registry
<1>8. CASE h.kind = "tool" /\ Repeats(h)
  <2>1. calls' = calls /\ Remembered(h) /\ NewCalls' = NewCalls BY <1>2, <1>8, <1>h DEF VisitStep, New
  <2>2. DOMAIN used' = D
    <3>1. CallId(h) \in D BY <1>1, <1>8, CallIdIsNew
    <3> QED BY <2>1, <3>1 DEF Remembered
  <2>3. CallKey(h) \in DOMAIN calls BY <1>8 DEF Repeats
  <2>4. DOMAIN calls' = KeysNext BY <1>5, <1>6, <2>1, <2>3
  <2> QED BY <1>6, <2>1, <2>2, <2>4 DEF Registry
<1>9. CASE h.kind = "tool" /\ ~Repeats(h)
  <2> DEFINE id == CallId(h)
  <2>1. Register(h) /\ NewCalls' = NewCalls \cup {n + 1} BY <1>2, <1>9, <1>h DEF VisitStep, Known
  <2>2. id \notin D BY <1>1, <1>9, CallIdIsNew
  <2>3. DOMAIN used' = D \cup {id} BY <2>1 DEF Register, Remembered
  <2>4. /\ IsFiniteSet(DOMAIN used') /\ Cardinality(DOMAIN used') = c + 1
        /\ IsFiniteSet(NewCalls') /\ Cardinality(NewCalls') = c + 1
    BY <1>2, <1>6, <2>1, <2>2, <2>3, FS_AddElement
  <2>5. ASSUME NEW m \in Nat, -m \in DOMAIN used' PROVE m <= c + 1
    <3>1. CASE -m \in D BY <1>6, <3>1
    <3>2. CASE -m = id
      <4>1. id \in Nat \/ id = -(1 + c) BY <1>1, <1>9 DEF CallId, FreshId, IsVisit
      <4> HIDE DEF id, c
      <4> QED BY <1>6, <3>2, <4>1
    <3> QED BY <2>3, <2>5, <3>1, <3>2
  <2>6. DOMAIN calls' = KeysNext /\ \A k \in DOMAIN calls' : calls'[k].id \in DOMAIN used'
    <3>1. CASE h.id = None
      <4>1. calls' = calls BY <2>1, <3>1 DEF Register
      <4> QED BY <1>5, <1>6, <2>3, <3>1, <4>1 DEF Numbered
    <3>2. CASE h.id # None
      <4>1. calls' = [k \in DOMAIN calls \cup {CallKey(h)} |->
                        IF k = CallKey(h) THEN [call |-> h.call, id |-> id] ELSE calls[k]]
        BY <2>1, <3>2 DEF Register
      <4>2. DOMAIN calls' = DOMAIN calls \cup {CallKey(h)} BY <4>1
      <4>3. Numbered(h) BY <1>9, <3>2 DEF Numbered
      <4> HIDE DEF id
      <4>4. ASSUME NEW k \in DOMAIN calls' PROVE calls'[k].id \in DOMAIN used'
        <5>1. CASE k = CallKey(h) BY <2>3, <4>1, <4>2, <5>1
        <5>2. CASE k # CallKey(h) BY <1>6, <2>3, <4>1, <4>2, <5>2
        <5> QED BY <5>1, <5>2
      <4> QED BY <1>5, <1>6, <4>2, <4>3, <4>4
    <3> QED BY <3>1, <3>2
  <2> HIDE DEF KeysNext
  <2> QED BY <1>6, <2>4, <2>5, <2>6 DEF Registry, KeysNext
<1> QED BY <1>7, <1>8, <1>9

LEMMA RegistryStep == ASSUME Registry, WalkInv, [Next]_vars PROVE Registry'
<1>1. CASE Idle BY <1>1, RegistrySame DEF Idle
<1>2. CASE Refused BY <1>2, RegistrySame DEF Refused
<1>3. CASE Reads BY <1>3, RegistrySame DEF Reads, ReadFrame
<1> QED BY <1>1, <1>2, <1>3, StepKinds, RegistryVisit

LEMMA RegistryStart == ASSUME given = <<>>, calls = <<>>, used = <<>> PROVE Registry
<1>1. DOMAIN <<>> = {} /\ IsFiniteSet({}) /\ Cardinality({}) = 0 BY EmptyIsSeq, FS_EmptySet
<1>2. NewCalls = {} BY <1>1 DEF NewCalls
<1> QED BY <1>1, <1>2 DEF Registry

-----------------------------------------------------------------------------
(* The events of the Claude protocol. *)

Plain(e) == e.ev \in {"message_start", "content_block_start", "content_block_delta", "content_block_stop"}

\* Blocks 0 to n - 1 are closed and open is the kind of block n, if it is open.
Nested(s, n, open) ==
  /\ IsSeq(s) /\ n \in Nat /\ \A i \in 1..Len(s) : Plain(s[i]) /\ ClaudeOrder(s, i)
  /\ Count(s, "content_block_stop") = n
  /\ Count(s, "content_block_start") = IF open = None THEN n ELSE n + 1
  /\ open # None => \E j \in 1..Len(s) : s[j].ev = "content_block_start" /\ s[j].index = n /\ s[j].kind = open

LEMMA NestedNone == Nested(<<>>, 0, None)
<1>1. IsSeq(<<>>) /\ Len(<<>>) = 0 BY EmptyIsSeq
<1>2. \A ev : Count(<<>>, ev) = 0
  <2> SUFFICES ASSUME NEW ev PROVE Count(<<>>, ev) = 0 OBVIOUS
  <2>1. Count(<<>>, ev) = Cardinality({j \in 1..Len(<<>>) : <<>>[j].ev = ev}) BY <1>1, CountIs
  <2>2. {j \in 1..Len(<<>>) : <<>>[j].ev = ev} = {} BY <1>1
  <2> QED BY <2>1, <2>2, FS_EmptySet
<1> QED BY <1>1, <1>2 DEF Nested

LEMMA ClaudeOrderKept ==
    ASSUME NEW s, NEW t, NEW e, Grown(t, s, e), NEW i \in 1..Len(s), Plain(s[i]), ClaudeOrder(s, i)
    PROVE  ClaudeOrder(t, i)
<1>1. t[i] = s[i] /\ \A j \in 1..(i - 1) : t[j] = s[j] BY DEF Grown
<1>2. \A ev : Before(t, i, ev) = Before(s, i, ev)
  <2>1. i \in 1..(Len(s) + 1) BY DEF Grown
  <2> QED BY <2>1, CountGrown
<1> QED BY <1>1, <1>2 DEF ClaudeOrder, Plain

\* What an event does to the blocks.
LEMMA NestedGrown ==
    ASSUME NEW s, NEW n, NEW open, Nested(s, n, open), NEW e, NEW m, NEW kind,
           \/ e.ev = "message_start" /\ Len(s) = 0 /\ open = None /\ m = n /\ kind = None
           \/ /\ e.ev = "content_block_start" /\ e.index = n /\ e.kind = kind /\ kind # None
              /\ open = None /\ m = n /\ Len(s) # 0
           \/ /\ e.ev = "content_block_delta" /\ e.index = n /\ open # None /\ m = n /\ kind = open
              /\ e.kind = open \/ (e.kind = "signature" /\ open = "thinking")
           \/ e.ev = "content_block_stop" /\ e.index = n /\ open # None /\ m = n + 1 /\ kind = None
    PROVE  Nested(Append(s, e), m, kind)
<1>1. PICK t : t = Append(s, e) /\ Grown(t, s, e) BY GrownAppend DEF Nested
<1>2. /\ IsSeq(t) /\ Len(s) \in Nat /\ Len(t) = Len(s) + 1 /\ t[Len(s) + 1] = e
      /\ \A i \in 1..Len(s) : t[i] = s[i]
  BY <1>1 DEF Grown
<1>3. \A i \in 1..Len(s) : Plain(t[i]) /\ ClaudeOrder(t, i) BY <1>1, <1>2, ClaudeOrderKept DEF Nested
<1>4. \A ev : /\ Before(t, Len(s) + 1, ev) = Count(s, ev)
              /\ Count(t, ev) = Count(s, ev) + IF e.ev = ev THEN 1 ELSE 0
  BY <1>1, CountGrown
<1>5. /\ n \in Nat /\ Count(s, "content_block_stop") = n
      /\ Count(s, "content_block_start") = IF open = None THEN n ELSE n + 1
      /\ open # None => \E j \in 1..Len(s) : s[j].ev = "content_block_start" /\ s[j].index = n /\ s[j].kind = open
  BY DEF Nested
<1>6. (Len(s) + 1) - 1 = Len(s) BY <1>2
<1>7. Plain(e) BY DEF Plain
<1>8. ClaudeOrder(t, Len(s) + 1)
  <2>1. CASE e.ev = "message_start" BY <1>2, <2>1 DEF ClaudeOrder
  <2>2. CASE e.ev = "content_block_start" BY <1>2, <1>4, <1>5, <2>2 DEF ClaudeOrder
  <2>3. CASE e.ev = "content_block_delta" BY <1>2, <1>4, <1>5, <1>6, <2>3 DEF ClaudeOrder
  <2>4. CASE e.ev = "content_block_stop" BY <1>2, <1>4, <1>5, <2>4 DEF ClaudeOrder
  <2> QED BY <1>7, <2>1, <2>2, <2>3, <2>4 DEF Plain
<1>9. \A i \in 1..(Len(s) + 1) : Plain(t[i]) /\ ClaudeOrder(t, i) BY <1>2, <1>3, <1>7, <1>8
<1>10. m \in Nat /\ Count(t, "content_block_stop") = m
       /\ Count(t, "content_block_start") = IF kind = None THEN m ELSE m + 1
  BY <1>4, <1>5
<1>11. kind # None => \E j \in 1..(Len(s) + 1) : t[j].ev = "content_block_start" /\ t[j].index = m /\ t[j].kind = kind
  <2>1. CASE e.ev = "content_block_start" BY <1>2, <2>1
  <2>2. CASE e.ev = "content_block_delta" BY <1>2, <1>5, <2>2
  <2> QED BY <2>1, <2>2
<1>12. Nested(t, m, kind) BY <1>2, <1>9, <1>10, <1>11 DEF Nested
<1> QED BY <1>1, <1>12

\* Signatures, each written last in its block.
Seals(e) == e.ev = "content_block_delta" /\ e.kind = "signature"

Seal(s) == Said(s, {i \in DOMAIN s : Seals(s[i])})

Sealed(s, sigs) ==
  /\ IsSeq(s) /\ Seal(s) = sigs
  /\ \A i \in DOMAIN s : Seals(s[i]) => i + 1 \in DOMAIN s /\ s[i + 1].ev = "content_block_stop"

LEMMA SealsGrown ==
    ASSUME NEW s, NEW t, NEW e, Grown(t, s, e)
    PROVE  Seal(t) = IF Seals(e) THEN Append(Seal(s), e.what) ELSE Seal(s)
<1> DEFINE S == {x \in ToSet(t) : Seals(x)}
           K == {i \in DOMAIN s : Seals(s[i])}
           J == {i \in DOMAIN t : Seals(t[i])}
<1>1. /\ DOMAIN s = 1..Len(s) /\ DOMAIN t = 1..(Len(s) + 1) /\ Len(s) \in Nat /\ t[Len(s) + 1] = e
      /\ Len(t) = Len(s) + 1 /\ \A i \in 1..Len(s) : t[i] = s[i]
  BY DEF Grown
<1>2. \A i \in 1..(Len(s) + 1) : t[i] \in ToSet(t) BY <1>1 DEF ToSet
<1>3. Marks(K, s, S)
  <2>1. \A i \in 1..Len(s) : s[i] \in ToSet(t) BY <1>1, <1>2
  <2> QED BY <1>1, <2>1 DEF Marks
<1>4. Marks(J, t, S) BY <1>1, <1>2 DEF Marks
<1>5. e \in S <=> Seals(e)
  <2>1. Len(s) + 1 \in 1..(Len(s) + 1) BY <1>1
  <2> QED BY <1>1, <1>2, <2>1
<1> HIDE DEF S, K, J
<1>6. Said(t, J) = IF e \in S THEN Append(Said(s, K), e.what) ELSE Said(s, K) BY <1>3, <1>4, SaidGrown
<1> QED BY <1>5, <1>6 DEF K, J, Seal

LEMMA SealedGrown ==
    ASSUME NEW s, NEW sigs, Sealed(s, sigs), NEW e, ~Seals(e) PROVE Sealed(Append(s, e), sigs)
<1>1. PICK t : t = Append(s, e) /\ Grown(t, s, e) BY GrownAppend DEF Sealed
<1>2. /\ IsSeq(t) /\ DOMAIN s = 1..Len(s) /\ DOMAIN t = 1..(Len(s) + 1) /\ Len(s) \in Nat /\ t[Len(s) + 1] = e
      /\ \A i \in 1..Len(s) : t[i] = s[i]
  BY <1>1 DEF Grown
<1>3. Seal(t) = sigs BY <1>1, SealsGrown DEF Sealed
<1>4. ASSUME NEW i \in DOMAIN t, Seals(t[i]) PROVE i + 1 \in DOMAIN t /\ t[i + 1].ev = "content_block_stop"
  <2>1. i \in DOMAIN s BY <1>2, <1>4
  <2>2. i + 1 \in DOMAIN s /\ s[i + 1].ev = "content_block_stop" BY <1>2, <1>4, <2>1 DEF Sealed
  <2> QED BY <1>2, <2>2
<1>5. Sealed(t, sigs) BY <1>2, <1>3, <1>4 DEF Sealed
<1> QED BY <1>1, <1>5

LEMMA SealedTwice ==
    ASSUME NEW s, NEW sigs, Sealed(s, sigs), NEW e, Seals(e), NEW f, f.ev = "content_block_stop"
    PROVE  Sealed(Append(Append(s, e), f), Append(sigs, e.what))
<1>1. PICK t : t = Append(s, e) /\ Grown(t, s, e) BY GrownAppend DEF Sealed
<1>2. /\ IsSeq(t) /\ DOMAIN s = 1..Len(s) /\ DOMAIN t = 1..(Len(s) + 1) /\ Len(s) \in Nat /\ t[Len(s) + 1] = e
      /\ \A i \in 1..Len(s) : t[i] = s[i]
      /\ Len(t) = Len(s) + 1
  BY <1>1 DEF Grown
<1>3. PICK u : u = Append(t, f) /\ Grown(u, t, f) BY <1>2, GrownAppend
<1>4. /\ IsSeq(u) /\ DOMAIN u = 1..(Len(s) + 2) /\ u[Len(s) + 2] = f
      /\ \A i \in 1..(Len(s) + 1) : u[i] = t[i]
  <2>1. IsSeq(u) /\ DOMAIN u = 1..(Len(t) + 1) /\ u[Len(t) + 1] = f /\ \A i \in 1..Len(t) : u[i] = t[i]
    BY <1>3 DEF Grown
  <2>2. Len(t) + 1 = Len(s) + 2 BY <1>2
  <2> QED BY <1>2, <2>1, <2>2
<1>5. ~Seals(f) BY DEF Seals
<1>6. Seal(t) = Append(sigs, e.what) BY <1>1, SealsGrown DEF Sealed
<1>7. Seal(u) = Append(sigs, e.what) BY <1>3, <1>5, <1>6, SealsGrown
<1>8. ASSUME NEW i \in DOMAIN u, Seals(u[i]) PROVE i + 1 \in DOMAIN u /\ u[i + 1].ev = "content_block_stop"
  <2>1. CASE i \in DOMAIN s
    <3>1. u[i] = s[i] BY <1>2, <1>4, <2>1
    <3>2. i + 1 \in DOMAIN s /\ s[i + 1].ev = "content_block_stop" BY <1>8, <2>1, <3>1 DEF Sealed
    <3>3. u[i + 1] = s[i + 1] BY <1>2, <1>4, <3>2
    <3> QED BY <1>2, <1>4, <3>2, <3>3
  <2>2. CASE i = Len(s) + 1
    <3>1. (Len(s) + 1) + 1 = Len(s) + 2 /\ Len(s) + 2 \in 1..(Len(s) + 2) BY <1>2
    <3> QED BY <1>4, <2>2, <3>1
  <2>3. i # Len(s) + 2 BY <1>4, <1>5, <1>8
  <2>4. i \in DOMAIN s \/ i = Len(s) + 1 BY <1>2, <1>4, <2>3
  <2> QED BY <2>1, <2>2, <2>4
<1>9. Sealed(u, Append(sigs, e.what)) BY <1>4, <1>7, <1>8 DEF Sealed
<1> QED BY <1>1, <1>3, <1>9

LEMMA NothingSealed == Sealed(<<>>, <<>>)
<1>1. IsSeq(<<>>) /\ DOMAIN <<>> = {} BY EmptyIsSeq
<1>2. {i \in DOMAIN <<>> : Seals(<<>>[i])} = {i \in DOMAIN <<>> : Tells(<<>>[i])} BY <1>1
<1>3. Prose(<<>>) = <<>> BY NothingTold DEF Told
<1> QED BY <1>1, <1>2, <1>3 DEF Sealed, Seal, Prose

\* The whole of it.
Tale(s, n, open, prose, ids, sigs) == Nested(s, n, open) /\ Told(s, prose, ids) /\ Sealed(s, sigs)

LEMMA TaleNone == Tale(<<>>, 0, None, <<>>, {}, <<>>)
  BY NestedNone, NothingTold, NothingSealed DEF Tale

LEMMA TaleBegins ==
    ASSUME NEW n, NEW prose, NEW ids, NEW sigs, Tale(<<>>, n, None, prose, ids, sigs), NEW e, e.ev = "message_start"
    PROVE  Tale(Append(<<>>, e), n, None, prose, ids, sigs)
<1>1. Len(<<>>) = 0 BY EmptyIsSeq
<1>2. Nested(Append(<<>>, e), n, None) BY <1>1, NestedGrown DEF Tale
<1>3. ~IsCall(e) /\ ~Tells(e) /\ ~Seals(e) BY DEF IsCall, Tells, Seals
<1>4. Told(Append(<<>>, e), prose, ids) BY <1>3, ToldGrown DEF Tale
<1>5. Sealed(Append(<<>>, e), sigs) BY <1>3, SealedGrown DEF Tale
<1> QED BY <1>2, <1>4, <1>5 DEF Tale

LEMMA TaleStart ==
    ASSUME NEW s, Len(s) # 0, NEW n, NEW prose, NEW ids, NEW sigs, Tale(s, n, None, prose, ids, sigs),
           NEW kind, kind # None
    PROVE  Tale(Append(s, Start(n, kind)), n, kind, prose, ids, sigs)
<1>1. PICK e : e = Start(n, kind) OBVIOUS
<1>2. e.ev = "content_block_start" /\ e.index = n /\ e.kind = kind BY <1>1 DEF Start
<1>3. Nested(Append(s, e), n, kind) BY <1>2, NestedGrown DEF Tale
<1>4. ~IsCall(e) /\ ~Tells(e) /\ ~Seals(e) BY <1>2 DEF IsCall, Tells, Seals
<1>5. Told(Append(s, e), prose, ids) BY <1>4, ToldGrown DEF Tale
<1>6. Sealed(Append(s, e), sigs) BY <1>4, SealedGrown DEF Tale
<1> QED BY <1>1, <1>3, <1>5, <1>6 DEF Tale

LEMMA TaleText ==
    ASSUME NEW s, NEW n, NEW prose, NEW ids, NEW sigs, NEW kind \in {"text", "thinking"}, kind # None,
           Tale(s, n, kind, prose, ids, sigs), NEW what
    PROVE  Tale(Append(s, Delta(n, kind, what)), n, kind, Append(prose, what), ids, sigs)
<1>1. PICK e : e = Delta(n, kind, what) OBVIOUS
<1>2. e.ev = "content_block_delta" /\ e.index = n /\ e.kind = kind /\ e.what = what BY <1>1 DEF Delta
<1>3. Nested(Append(s, e), n, kind) BY <1>2, NestedGrown DEF Tale
<1>4. ~IsCall(e) /\ Tells(e) /\ ~Seals(e) BY <1>2 DEF IsCall, Tells, Seals
<1>5. Told(Append(s, e), Append(prose, what), ids) BY <1>2, <1>4, ToldGrown DEF Tale
<1>6. Sealed(Append(s, e), sigs) BY <1>4, SealedGrown DEF Tale
<1> QED BY <1>1, <1>3, <1>5, <1>6 DEF Tale

LEMMA TaleCall ==
    ASSUME NEW s, NEW n, NEW prose, NEW ids, NEW sigs, None # "tool_use",
           Tale(s, n, "tool_use", prose, ids, sigs), NEW what, what.id \notin ids
    PROVE  Tale(Append(s, Delta(n, "tool_use", what)), n, "tool_use", prose, ids \cup {what.id}, sigs)
<1>1. PICK e : e = Delta(n, "tool_use", what) OBVIOUS
<1>2. e.ev = "content_block_delta" /\ e.index = n /\ e.kind = "tool_use" /\ e.what = what BY <1>1 DEF Delta
<1>3. Nested(Append(s, e), n, "tool_use") BY <1>2, NestedGrown DEF Tale
<1>4. IsCall(e) /\ ~Tells(e) /\ ~Seals(e) /\ IdOf(e) = what.id BY <1>2 DEF IsCall, Tells, Seals, IdOf
<1>5. Told(Append(s, e), prose, ids \cup {what.id}) BY <1>4, ToldGrown DEF Tale
<1>6. Sealed(Append(s, e), sigs) BY <1>4, SealedGrown DEF Tale
<1> QED BY <1>1, <1>3, <1>5, <1>6 DEF Tale

LEMMA TaleStop ==
    ASSUME NEW s, NEW n, NEW prose, NEW ids, NEW sigs, NEW open, open # None, Tale(s, n, open, prose, ids, sigs)
    PROVE  Tale(Append(s, Stop(n)), n + 1, None, prose, ids, sigs)
<1>1. PICK e : e = Stop(n) OBVIOUS
<1>2. e.ev = "content_block_stop" /\ e.index = n BY <1>1 DEF Stop
<1>3. Nested(Append(s, e), n + 1, None) BY <1>2, NestedGrown DEF Tale
<1>4. ~IsCall(e) /\ ~Tells(e) /\ ~Seals(e) BY <1>2 DEF IsCall, Tells, Seals
<1>5. Told(Append(s, e), prose, ids) BY <1>4, ToldGrown DEF Tale
<1>6. Sealed(Append(s, e), sigs) BY <1>4, SealedGrown DEF Tale
<1> QED BY <1>1, <1>3, <1>5, <1>6 DEF Tale

LEMMA TaleSeal ==
    ASSUME NEW s, NEW n, NEW prose, NEW ids, NEW sigs, None # "thinking",
           Tale(s, n, "thinking", prose, ids, sigs), NEW sig
    PROVE  Tale(Append(Append(s, Delta(n, "signature", sig)), Stop(n)), n + 1, None, prose, ids, Append(sigs, sig))
<1>1. PICK e, f : e = Delta(n, "signature", sig) /\ f = Stop(n) OBVIOUS
<1>2. /\ e.ev = "content_block_delta" /\ e.index = n /\ e.kind = "signature" /\ e.what = sig
      /\ f.ev = "content_block_stop" /\ f.index = n
  BY <1>1 DEF Delta, Stop
<1>3. Nested(Append(s, e), n, "thinking") BY <1>2, NestedGrown DEF Tale
<1>4. Nested(Append(Append(s, e), f), n + 1, None) BY <1>2, <1>3, NestedGrown
<1>5. ~IsCall(e) /\ ~Tells(e) /\ Seals(e) /\ ~IsCall(f) /\ ~Tells(f) BY <1>2 DEF IsCall, Tells, Seals
<1>6. Told(Append(s, e), prose, ids) BY <1>5, ToldGrown DEF Tale
<1>7. Told(Append(Append(s, e), f), prose, ids) BY <1>5, <1>6, ToldGrown
<1>8. Sealed(Append(Append(s, e), f), Append(sigs, sig)) BY <1>2, <1>5, SealedTwice DEF Tale
<1> QED BY <1>1, <1>4, <1>7, <1>8 DEF Tale

-----------------------------------------------------------------------------
(* What the Claude writer does to the tale. *)

LEMMA NothingMore == ASSUME NEW s, IsSeq(s) PROVE s \o <<>> = s /\ <<>> \o s = s
  BY DEF IsSeq

LEMMA OneMore == ASSUME NEW s, IsSeq(s), NEW e PROVE s \o <<e>> = Append(s, e) /\ IsSeq(Append(s, e))
  BY GrownAppend DEF Grown

LEMMA TwoMore == ASSUME NEW s, IsSeq(s), NEW e, NEW f PROVE s \o <<e, f>> = Append(Append(s, e), f)
<1>1. s \o <<e, f>> = (s \o <<e>>) \o <<f>> BY AppendTwo
<1>2. s \o <<e>> = Append(s, e) /\ IsSeq(Append(s, e)) BY OneMore
<1>3. PICK t : t = Append(s, e) OBVIOUS
<1>4. t \o <<f>> = Append(t, f) BY <1>2, <1>3, OneMore
<1> QED BY <1>1, <1>2, <1>3, <1>4

LEMMA TaleClosing ==
    ASSUME NEW s, NEW prose, NEW ids, NEW sigs, Tale(s, index, block, prose, ids, sigs),
           block \in {None, "text", "thinking"}
    PROVE  /\ Tale(s \o Closing, AfterClose, None, prose, ids,
                   IF HoldsSignature THEN Append(sigs, pendingSig) ELSE sigs)
           /\ IsSeq(Closing) /\ (Len(s) # 0 => Len(s \o Closing) # 0)
<1>1. IsSeq(s) BY DEF Tale, Told
<1>2. CASE block = None
  <2>1. Closing = <<>> /\ AfterClose = index /\ ~HoldsSignature
    BY <1>2, BlocksAssumption DEF Closing, AfterClose, HoldsSignature
  <2>2. s \o <<>> = s BY <1>1, NothingMore
  <2> QED BY <1>2, <2>1, <2>2, EmptyIsSeq
<1>3. CASE block # None /\ HoldsSignature
  <2>1. PICK e, f : e = Delta(index, "signature", pendingSig) /\ f = Stop(index) OBVIOUS
  <2>2. Closing = <<e>> \o <<f>> BY <1>3, <2>1 DEF Closing
  <2>3. <<e>> \o <<f>> = <<e, f>>
    <3> DEFINE S == {e, f}
    <3>1. <<e>> \in Seq(S) /\ <<f>> \in Seq(S) /\ <<e, f>> \in Seq(S) OBVIOUS
    <3>2. Len(<<e>>) = 1 /\ Len(<<f>>) = 1 /\ <<e>>[1] = e /\ <<f>>[1] = f OBVIOUS
    <3>3. <<e, f>> = Append(<<e>>, f) OBVIOUS
    <3> QED BY <3>3, OneElement, OneMore
  <2>4. s \o <<e, f>> = Append(Append(s, e), f) BY <1>1, TwoMore
  <2>5. block = "thinking" /\ AfterClose = index + 1 BY <1>3 DEF HoldsSignature, AfterClose
  <2>6. Tale(Append(Append(s, e), f), index + 1, None, prose, ids, Append(sigs, pendingSig))
    BY <2>1, <2>5, TaleSeal, BlocksAssumption
  <2>7. IsSeq(<<e, f>>) /\ Len(<<e, f>>) = 2 BY TwoElements
  <2>8. Len(s \o <<e, f>>) = Len(s) + 2 /\ Len(s) \in Nat BY <1>1, <2>7, ConcatLemma, SeqFacts
  <2>9. Len(s \o <<e, f>>) # 0 BY <2>8
  <2> QED BY <1>3, <2>2, <2>3, <2>4, <2>5, <2>6, <2>7, <2>9
<1>4. CASE block # None /\ ~HoldsSignature
  <2>1. PICK f : f = Stop(index) OBVIOUS
  <2>2. Closing = <<>> \o <<f>> BY <1>4, <2>1 DEF Closing
  <2>3. <<>> \o <<f>> = <<f>> OBVIOUS
  <2>4. s \o <<f>> = Append(s, f) BY <1>1, OneMore
  <2>5. AfterClose = index + 1 BY <1>4 DEF AfterClose
  <2>6. Tale(Append(s, f), index + 1, None, prose, ids, sigs) BY <1>4, <2>1, TaleStop
  <2>7. IsSeq(<<f>>) /\ Len(<<f>>) = 1 BY OneElement
  <2>8. Len(s \o <<f>>) = Len(s) + 1 /\ Len(s) \in Nat BY <1>1, <2>7, ConcatLemma, SeqFacts
  <2>9. Len(s \o <<f>>) # 0 BY <2>8
  <2> QED BY <1>4, <2>2, <2>3, <2>4, <2>5, <2>6, <2>7, <2>9
<1> QED BY <1>2, <1>3, <1>4

LEMMA TaleOpening ==
    ASSUME NEW s, Len(s) # 0, NEW prose, NEW ids, NEW sigs, Tale(s, index, block, prose, ids, sigs),
           block \in {None, "text", "thinking"}, NEW kind \in {"text", "thinking"}
    PROVE  /\ Tale(s \o Opening(kind), IndexIn(kind), kind, prose, ids,
                   IF block # kind /\ HoldsSignature THEN Append(sigs, pendingSig) ELSE sigs)
           /\ IsSeq(Opening(kind))
<1>1. IsSeq(s) BY DEF Tale, Told
<1>2. CASE block = kind
  <2>1. Opening(kind) = <<>> /\ IndexIn(kind) = index BY <1>2 DEF Opening, IndexIn
  <2>2. s \o <<>> = s BY <1>1, NothingMore
  <2> QED BY <1>2, <2>1, <2>2, EmptyIsSeq
<1>3. CASE block # kind
  <2>1. PICK e : e = Start(AfterClose, kind) OBVIOUS
  <2>2. PICK r : r = s \o Closing OBVIOUS
  <2>3. Opening(kind) = Closing \o <<e>> /\ IndexIn(kind) = AfterClose BY <1>3, <2>1 DEF Opening, IndexIn
  <2>4. /\ Tale(r, AfterClose, None, prose, ids, IF HoldsSignature THEN Append(sigs, pendingSig) ELSE sigs)
        /\ IsSeq(Closing) /\ Len(r) # 0
    BY <2>2, TaleClosing
  <2>5. Tale(Append(r, e), AfterClose, kind, prose, ids, IF HoldsSignature THEN Append(sigs, pendingSig) ELSE sigs)
    BY <2>1, <2>4, TaleStart, BlocksAssumption
  <2>6. IsSeq(<<e>>) BY OneElement
  <2>7. s \o (Closing \o <<e>>) = r \o <<e>> BY <1>1, <2>2, <2>4, <2>6, ConcatTwice
  <2>8. r \o <<e>> = Append(r, e) BY <2>4, OneMore DEF Tale, Told
  <2>9. IsSeq(Closing \o <<e>>) BY <2>4, <2>6, ConcatLemma
  <2> QED BY <1>3, <2>3, <2>5, <2>7, <2>8, <2>9
<1> QED BY <1>2, <1>3

-----------------------------------------------------------------------------
(* Which signatures are due: C are the places where a thinking block ends, O *)
(* those where one begins or goes on, Q those that bring a signature.        *)

Apart(k, l, C) == \A j \in (k + 1)..l : j \notin C

Pondering(n, C, O) == \E k \in 1..n : k \in O /\ Apart(k, n, C)

Lasts(l, n, C, O, Q) ==
  /\ l \in 1..n /\ l \in Q /\ l \notin C
  /\ \E k \in 1..l : k \in O /\ Apart(k, l, C)
  /\ \A j \in (l + 1)..n : Apart(l, j, C) => j \notin Q

Due(l, n, C, O, Q) == Lasts(l, n, C, O, Q) /\ Apart(l, n, C)

Settled(n, C, O, Q) == {l \in 1..n : Lasts(l, n, C, O, Q) /\ ~Apart(l, n, C)}

SignedBy(g, K) == LET a == Among(g, K) IN [k \in DOMAIN a |-> a[k].sig]

\* Whether a thinking block is open, and what is held back for it.
Holding(g, n, C, O, Q, thinking, sig) ==
  /\ thinking <=> Pondering(n, C, O)
  /\ ~thinking => sig = None
  /\ sig = None => \A l \in 1..n : ~Due(l, n, C, O, Q)
  /\ sig # None => \E l \in 1..n : Due(l, n, C, O, Q) /\ sig = g[l].sig

Agree(J, K, n) == \A j \in 1..n : j \in J <=> j \in K

LEMMA ApartNext ==
    ASSUME NEW n \in Nat, NEW C, NEW D, Agree(D, C, n)
    PROVE  /\ \A k, l \in 1..n : Apart(k, l, D) <=> Apart(k, l, C)
           /\ \A k \in 1..n : Apart(k, n + 1, D) <=> Apart(k, n, C) /\ n + 1 \notin D
           /\ Apart(n + 1, n + 1, D)
<1>1. ASSUME NEW k \in 1..n, NEW l \in 1..n PROVE Apart(k, l, D) <=> Apart(k, l, C)
  <2>1. \A j \in (k + 1)..l : j \in 1..n OBVIOUS
  <2> QED BY <2>1 DEF Apart, Agree
<1>2. ASSUME NEW k \in 1..n PROVE Apart(k, n + 1, D) <=> Apart(k, n, C) /\ n + 1 \notin D
  <2>1. \A j \in (k + 1)..(n + 1) : j \in (k + 1)..n \/ j = n + 1 OBVIOUS
  <2>2. \A j \in (k + 1)..n : j \in 1..n /\ j \in (k + 1)..(n + 1) OBVIOUS
  <2>3. n + 1 \in (k + 1)..(n + 1) OBVIOUS
  <2> QED BY <2>1, <2>2, <2>3 DEF Apart, Agree
<1>3. Apart(n + 1, n + 1, D)
  <2>1. ((n + 1) + 1)..(n + 1) = {} OBVIOUS
  <2> QED BY <2>1 DEF Apart
<1> QED BY <1>1, <1>2, <1>3

\* A further place changes only what is still held back.
LEMMA LastsNext ==
    ASSUME NEW n \in Nat, NEW C, NEW O, NEW Q, NEW C2, NEW O2, NEW Q2,
           Agree(C2, C, n), Agree(O2, O, n), Agree(Q2, Q, n)
    PROVE  /\ \A l \in 1..n : Lasts(l, n + 1, C2, O2, Q2) <=>
                Lasts(l, n, C, O, Q) /\ (Apart(l, n, C) /\ n + 1 \notin C2 => n + 1 \notin Q2)
           /\ Lasts(n + 1, n + 1, C2, O2, Q2) <=>
                n + 1 \in Q2 /\ n + 1 \notin C2 /\ (n + 1 \in O2 \/ Pondering(n, C, O))
<1>1. /\ \A k, l \in 1..n : Apart(k, l, C2) <=> Apart(k, l, C)
      /\ \A k \in 1..n : Apart(k, n + 1, C2) <=> Apart(k, n, C) /\ n + 1 \notin C2
      /\ Apart(n + 1, n + 1, C2)
  BY ApartNext
<1>2. ASSUME NEW l \in 1..n
      PROVE  Lasts(l, n + 1, C2, O2, Q2) <=>
               Lasts(l, n, C, O, Q) /\ (Apart(l, n, C) /\ n + 1 \notin C2 => n + 1 \notin Q2)
  <2>1. (l \in Q2 <=> l \in Q) /\ (l \in C2 <=> l \in C) /\ l \in 1..(n + 1) BY DEF Agree
  <2>2. (\E k \in 1..l : k \in O2 /\ Apart(k, l, C2)) <=> (\E k \in 1..l : k \in O /\ Apart(k, l, C))
    <3>1. \A k \in 1..l : k \in 1..n OBVIOUS
    <3>2. \A k \in 1..l : (k \in O2 <=> k \in O) /\ (Apart(k, l, C2) <=> Apart(k, l, C)) BY <1>1, <3>1 DEF Agree
    <3> QED BY <3>2
  <2>3. (\A j \in (l + 1)..(n + 1) : Apart(l, j, C2) => j \notin Q2) <=>
          /\ \A j \in (l + 1)..n : Apart(l, j, C) => j \notin Q
          /\ Apart(l, n, C) /\ n + 1 \notin C2 => n + 1 \notin Q2
    <3>1. \A j \in (l + 1)..(n + 1) : j \in (l + 1)..n \/ j = n + 1 OBVIOUS
    <3>2. \A j \in (l + 1)..n : j \in 1..n /\ j \in (l + 1)..(n + 1) OBVIOUS
    <3>3. n + 1 \in (l + 1)..(n + 1) OBVIOUS
    <3>4. \A j \in (l + 1)..n : (j \in Q2 <=> j \in Q) /\ (Apart(l, j, C2) <=> Apart(l, j, C))
      BY <1>1, <3>2 DEF Agree
    <3> QED BY <1>1, <3>1, <3>2, <3>3, <3>4
  <2> QED BY <2>1, <2>2, <2>3 DEF Lasts
<1>3. Lasts(n + 1, n + 1, C2, O2, Q2) <=> n + 1 \in Q2 /\ n + 1 \notin C2 /\ (n + 1 \in O2 \/ Pondering(n, C, O))
  <2>1. ((n + 1) + 1)..(n + 1) = {} /\ n + 1 \in 1..(n + 1) OBVIOUS
  <2>2. \A k \in 1..(n + 1) : k \in 1..n \/ k = n + 1 OBVIOUS
  <2>3. \A k \in 1..n : k \in 1..(n + 1) /\ (k \in O2 <=> k \in O) BY DEF Agree
  <2>4. n + 1 \notin C2 => ((\E k \in 1..(n + 1) : k \in O2 /\ Apart(k, n + 1, C2)) <=> n + 1 \in O2 \/ Pondering(n, C, O))
    BY <1>1, <2>1, <2>2, <2>3 DEF Pondering
  <2> QED BY <2>1, <2>4 DEF Lasts
<1> QED BY <1>2, <1>3

LEMMA SettledNext ==
    ASSUME NEW n \in Nat, NEW C, NEW O, NEW Q, NEW C2, NEW O2, NEW Q2,
           Agree(C2, C, n), Agree(O2, O, n), Agree(Q2, Q, n)
    PROVE  Settled(n + 1, C2, O2, Q2) =
             Settled(n, C, O, Q) \cup IF n + 1 \in C2 THEN {l \in 1..n : Due(l, n, C, O, Q)} ELSE {}
<1>1. /\ \A k \in 1..n : Apart(k, n + 1, C2) <=> Apart(k, n, C) /\ n + 1 \notin C2
      /\ Apart(n + 1, n + 1, C2)
  BY ApartNext
<1>2. \A l \in 1..n : Lasts(l, n + 1, C2, O2, Q2) <=>
         Lasts(l, n, C, O, Q) /\ (Apart(l, n, C) /\ n + 1 \notin C2 => n + 1 \notin Q2)
  BY LastsNext
<1>3. \A l \in 1..(n + 1) : l \in 1..n \/ l = n + 1 OBVIOUS
<1>4. \A l \in 1..n : l \in 1..(n + 1) OBVIOUS
<1>5. ASSUME NEW l
      PROVE  l \in Settled(n + 1, C2, O2, Q2) <=>
               l \in Settled(n, C, O, Q) \/ (n + 1 \in C2 /\ l \in 1..n /\ Due(l, n, C, O, Q))
  BY <1>1, <1>2, <1>3, <1>4 DEF Settled, Due
<1> QED BY <1>5

\* Of what is due there is one, after all that is settled.
LEMMA DueIsLast ==
    ASSUME NEW n \in Nat, NEW C, NEW O, NEW Q, NEW l \in 1..n, Due(l, n, C, O, Q)
    PROVE  /\ {k \in 1..n : Due(k, n, C, O, Q)} = {l}
           /\ \A k \in Settled(n, C, O, Q) : k < l
<1>1. l \in Q /\ l \notin C /\ Apart(l, n, C) /\ \A j \in (l + 1)..n : Apart(l, j, C) => j \notin Q
  BY DEF Due, Lasts
<1>2. \A j \in (l + 1)..n : j \notin C BY <1>1 DEF Apart
<1>3. ASSUME NEW k \in 1..n, k > l PROVE ~Lasts(k, n, C, O, Q)
  <2>1. k \in (l + 1)..n BY <1>3
  <2>2. Apart(l, k, C)
    <3>1. \A j \in (l + 1)..k : j \in (l + 1)..n OBVIOUS
    <3> QED BY <1>2, <3>1 DEF Apart
  <2> QED BY <1>1, <2>1, <2>2 DEF Lasts
<1>4. ASSUME NEW k \in 1..n, k < l, Due(k, n, C, O, Q) PROVE FALSE
  <2>1. Apart(k, n, C) /\ \A j \in (k + 1)..n : Apart(k, j, C) => j \notin Q BY <1>4 DEF Due, Lasts
  <2>2. l \in (k + 1)..n BY <1>4
  <2>3. \A j \in (k + 1)..l : j \in (k + 1)..n OBVIOUS
  <2>4. Apart(k, l, C) BY <2>1, <2>3 DEF Apart
  <2> QED BY <1>1, <2>1, <2>2, <2>4
<1>5. ASSUME NEW k \in Settled(n, C, O, Q) PROVE k < l
  <2>1. k \in 1..n /\ Lasts(k, n, C, O, Q) /\ ~Apart(k, n, C) BY DEF Settled
  <2>2. k # l BY <1>1, <2>1
  <2> QED BY <1>3, <2>1, <2>2
<1>6. \A k \in 1..n : Due(k, n, C, O, Q) => k = l
  <2>1. \A k \in 1..n : k < l \/ k = l \/ k > l OBVIOUS
  <2> QED BY <1>3, <1>4, <2>1 DEF Due
<1> QED BY <1>5, <1>6

LEMMA SignedAppend ==
    ASSUME NEW g, IsSeq(g), NEW K, NEW l \in 1..Len(g), \A k \in 1..Len(g) : k \in K => k < l
    PROVE  SignedBy(g, K \cup {l}) = Append(SignedBy(g, K), g[l].sig)
<1> DEFINE a == Among(g, K)
           b == Among(g, K \cup {l})
           m == [k \in DOMAIN a |-> a[k].sig]
           q == [k \in DOMAIN b |-> b[k].sig]
<1>1. IsSeq(a) /\ IsSeq(b) /\ b = Append(a, g[l]) BY AmongLemma, AmongLater
<1>2. m = [k \in DOMAIN a |-> m[k]] /\ \A k \in DOMAIN a : m[k] = a[k].sig OBVIOUS
<1>3. q = [k \in DOMAIN b |-> q[k]] /\ \A k \in DOMAIN b : q[k] = b[k].sig OBVIOUS
<1>4. SignedBy(g, K) = m /\ SignedBy(g, K \cup {l}) = q BY DEF SignedBy
<1> HIDE DEF a, b, m, q
<1>5. /\ Len(b) = Len(a) + 1 /\ b[Len(a) + 1] = g[l] /\ \A k \in DOMAIN a : b[k] = a[k]
      /\ DOMAIN a = 1..Len(a) /\ DOMAIN b = 1..Len(b) /\ Len(a) \in Nat
  BY <1>1, AppendItem, SeqFacts
<1>6. \A k \in DOMAIN a : q[k] = m[k]
  <2>1. \A k \in DOMAIN a : k \in DOMAIN b BY <1>5
  <2> QED BY <1>2, <1>3, <1>5, <2>1
<1>7. TellsOf(m, a) /\ TellsOf(q, b) BY <1>2, <1>3 DEF TellsOf
<1>8. q = Append(m, q[Len(a) + 1])
  <2>1. IsSeq(a) /\ IsSeq(b) BY <1>1
  <2>2. Len(b) = Len(a) + 1 BY <1>5
  <2> QED BY <1>6, <1>7, <2>1, <2>2, MapAppend
<1>9. q[Len(a) + 1] = g[l].sig
  <2>1. Len(a) + 1 \in DOMAIN b BY <1>5
  <2> QED BY <1>3, <1>5, <2>1
<1> QED BY <1>4, <1>8, <1>9

LEMMA SignedSame ==
    ASSUME NEW g, NEW h, NEW t, Grown(t, g, h), NEW K, Len(g) + 1 \notin K
    PROVE  SignedBy(t, K) = SignedBy(g, K)
<1>1. IsSeq(g) /\ t = Append(g, h) BY DEF Grown
<1>2. \A i \in 1..Len(g) : i \in K <=> i \in K OBVIOUS
<1>3. Among(Append(g, h), K) = Among(g, K) BY <1>1, <1>2, AmongAppend
<1> QED BY <1>1, <1>3 DEF SignedBy

\* What one more part h does to it.
Turns(h, n, C, O, Q, thinking, sig, thinkingNext, sigNext) ==
  /\ n + 1 \in C => n + 1 \notin O
  /\ n + 1 \in Q => h.sig # None
  /\ thinkingNext <=> n + 1 \notin C /\ (n + 1 \in O \/ thinking)
  /\ sigNext = IF n + 1 \in C THEN None ELSE IF n + 1 \in Q /\ thinkingNext THEN h.sig ELSE sig

LEMMA HoldingNext ==
    ASSUME NEW g, NEW h, NEW t, Grown(t, g, h), NEW n \in Nat, n = Len(g),
           NEW C, NEW O, NEW Q, NEW C2, NEW O2, NEW Q2, Agree(C2, C, n), Agree(O2, O, n), Agree(Q2, Q, n),
           NEW thinking, NEW sig, Holding(g, n, C, O, Q, thinking, sig),
           NEW thinking2, NEW sig2, Turns(h, n, C2, O2, Q2, thinking, sig, thinking2, sig2)
    PROVE  /\ Holding(t, n + 1, C2, O2, Q2, thinking2, sig2)
           /\ SignedBy(t, Settled(n + 1, C2, O2, Q2)) =
                IF n + 1 \in C2 /\ sig # None THEN Append(SignedBy(g, Settled(n, C, O, Q)), sig)
                ELSE SignedBy(g, Settled(n, C, O, Q))
<1>1. /\ IsSeq(g) /\ Len(t) = n + 1 /\ t[n + 1] = h /\ \A i \in 1..n : t[i] = g[i]
  BY DEF Grown
<1>0. /\ n + 1 \in C2 => n + 1 \notin O2
      /\ n + 1 \in Q2 => h.sig # None
      /\ thinking2 <=> n + 1 \notin C2 /\ (n + 1 \in O2 \/ thinking)
      /\ sig2 = IF n + 1 \in C2 THEN None ELSE IF n + 1 \in Q2 /\ thinking2 THEN h.sig ELSE sig
  BY DEF Turns
<1>2. /\ thinking <=> Pondering(n, C, O)
      /\ ~thinking => sig = None
      /\ sig = None => \A l \in 1..n : ~Due(l, n, C, O, Q)
      /\ sig # None => \E l \in 1..n : Due(l, n, C, O, Q) /\ sig = g[l].sig
  BY DEF Holding
<1>3. /\ \A k \in 1..n : Apart(k, n + 1, C2) <=> Apart(k, n, C) /\ n + 1 \notin C2
      /\ Apart(n + 1, n + 1, C2)
  BY ApartNext
<1>4. /\ \A l \in 1..n : Lasts(l, n + 1, C2, O2, Q2) <=>
            Lasts(l, n, C, O, Q) /\ (Apart(l, n, C) /\ n + 1 \notin C2 => n + 1 \notin Q2)
      /\ Lasts(n + 1, n + 1, C2, O2, Q2) <=>
           n + 1 \in Q2 /\ n + 1 \notin C2 /\ (n + 1 \in O2 \/ Pondering(n, C, O))
  BY LastsNext
<1>5. /\ \A l \in 1..(n + 1) : l \in 1..n \/ l = n + 1
      /\ \A l \in 1..n : l \in 1..(n + 1)
      /\ n + 1 \in 1..(n + 1) /\ n + 1 \notin 1..n
  OBVIOUS
<1>6. thinking2 <=> Pondering(n + 1, C2, O2)
  <2>1. \A k \in 1..n : k \in O2 <=> k \in O BY DEF Agree
  <2> QED BY <1>0, <1>2, <1>3, <1>5, <2>1 DEF Pondering
<1>7. \A l \in 1..n : Due(l, n + 1, C2, O2, Q2) <=> Due(l, n, C, O, Q) /\ n + 1 \notin C2 /\ n + 1 \notin Q2
  BY <1>3, <1>4 DEF Due
<1>8. Due(n + 1, n + 1, C2, O2, Q2) <=> n + 1 \in Q2 /\ thinking2
  BY <1>0, <1>2, <1>3, <1>4 DEF Due
<1>9. ~thinking2 => sig2 = None BY <1>0, <1>2
<1>10. sig2 = None => \A l \in 1..(n + 1) : ~Due(l, n + 1, C2, O2, Q2)
  <2> SUFFICES ASSUME sig2 = None, NEW l \in 1..(n + 1), Due(l, n + 1, C2, O2, Q2) PROVE FALSE OBVIOUS
  <2>1. CASE l = n + 1 BY <1>0, <1>8, <2>1
  <2>2. CASE l \in 1..n BY <1>0, <1>2, <1>7, <2>2
  <2> QED BY <1>5, <2>1, <2>2
<1>11. sig2 # None => \E l \in 1..(n + 1) : Due(l, n + 1, C2, O2, Q2) /\ sig2 = t[l].sig
  <2> SUFFICES ASSUME sig2 # None PROVE \E l \in 1..(n + 1) : Due(l, n + 1, C2, O2, Q2) /\ sig2 = t[l].sig OBVIOUS
  <2>1. n + 1 \notin C2 BY <1>0
  <2>2. CASE n + 1 \in Q2 /\ thinking2 BY <1>0, <1>1, <1>5, <1>8, <2>1, <2>2
  <2>3. CASE ~(n + 1 \in Q2 /\ thinking2)
    <3>1. sig2 = sig /\ sig # None /\ thinking BY <1>0, <1>2, <2>1, <2>3
    <3>2. n + 1 \notin Q2 BY <1>0, <2>1, <2>3, <3>1
    <3>3. PICK l \in 1..n : Due(l, n, C, O, Q) /\ sig = g[l].sig BY <1>2, <3>1
    <3> QED BY <1>1, <1>5, <1>7, <2>1, <3>1, <3>2, <3>3
  <2> QED BY <2>2, <2>3
<1>12. Holding(t, n + 1, C2, O2, Q2, thinking2, sig2) BY <1>6, <1>9, <1>10, <1>11 DEF Holding
<1> DEFINE S == Settled(n, C, O, Q)
           S2 == Settled(n + 1, C2, O2, Q2)
           W == {l \in 1..n : Due(l, n, C, O, Q)}
<1>13. S2 = S \cup IF n + 1 \in C2 THEN W ELSE {} BY SettledNext
<1>14. \A k \in S : k \in 1..n BY DEF Settled
<1>15. n + 1 \notin S2
  <2>1. n + 1 \notin S BY <1>5, <1>14
  <2>2. n + 1 \notin W BY <1>5
  <2> HIDE DEF S, S2, W
  <2> QED BY <1>13, <2>1, <2>2
<1>16. SignedBy(t, S2) = SignedBy(g, S2)
  <2> HIDE DEF S2
  <2> QED BY <1>15, SignedSame
<1>17. CASE n + 1 \in C2 /\ sig # None
  <2>1. PICK l \in 1..n : Due(l, n, C, O, Q) /\ sig = g[l].sig BY <1>2, <1>17
  <2>2. W = {l} /\ \A k \in S : k < l BY <2>1, DueIsLast
  <2> HIDE DEF S, S2, W
  <2>3. S2 = S \cup {l} BY <1>13, <1>17, <2>2
  <2>4. SignedBy(g, S \cup {l}) = Append(SignedBy(g, S), g[l].sig)
    <3>1. \A k \in 1..Len(g) : k \in S => k < l BY <2>2
    <3> QED BY <1>1, <3>1, SignedAppend
  <2> QED BY <1>12, <1>16, <1>17, <2>1, <2>3, <2>4 DEF S, S2
<1>18. CASE ~(n + 1 \in C2 /\ sig # None)
  <2>1. S2 = S
    <3>1. n + 1 \in C2 => W = {} BY <1>2, <1>18
    <3> HIDE DEF S, S2, W
    <3> QED BY <1>13, <3>1
  <2> HIDE DEF S, S2, W
  <2> QED BY <1>12, <1>16, <1>18, <2>1 DEF S, S2
<1> QED BY <1>17, <1>18

-----------------------------------------------------------------------------
(* What the parts visited so far amount to. *)

Prosaic == {k \in DOMAIN given : IsProse(k)}

Closers == {k \in DOMAIN given : IsNewCall(k) \/ (given[k].kind = "text" /\ given[k].body)}

Openers == {k \in DOMAIN given : OpensThinking(k)}

Signers == {k \in DOMAIN given : given[k].kind \in {"text", "thought"} /\ given[k].sig # None}

Talks(h) == h.kind \in {"text", "thought"} /\ h.body

Starts(h) == h.kind = "tool" /\ ~Repeats(h)

Ends(h) == Starts(h) \/ (h.kind = "text" /\ h.body)

Opens(h) == h.kind = "thought" /\ (h.body \/ h.sig # None)

Signs(h) == h.kind \in {"text", "thought"} /\ h.sig # None

LEMMA PartsNext ==
    ASSUME Registry, IsSeq(given), NEW h, given' = Append(given, h), protocol' = protocol,
           NEW n \in Nat, n = Len(given)
    PROVE  /\ Agree(Prosaic', Prosaic, n) /\ (n + 1 \in Prosaic' <=> Talks(h))
           /\ Agree(Closers', Closers, n) /\ (n + 1 \in Closers' <=> Ends(h))
           /\ Agree(Openers', Openers, n) /\ (n + 1 \in Openers' <=> Opens(h))
           /\ Agree(Signers', Signers, n) /\ (n + 1 \in Signers' <=> Signs(h))
<1>1. PICK t : given' = t /\ Grown(t, given, h) BY GrownAppend
<1>2. /\ DOMAIN t = 1..(n + 1) /\ DOMAIN given = 1..n
      /\ t[n + 1] = h /\ \A i \in 1..n : t[i] = given[i]
  BY <1>1 DEF Grown
<1>3. n + 1 \in 1..(n + 1) /\ n + 1 \notin 1..n /\ \A i \in 1..n : i \in 1..(n + 1) OBVIOUS
<1>4. NewCalls' = IF Starts(h) THEN NewCalls \cup {n + 1} ELSE NewCalls
  BY NewCallsNext DEF Starts
<1>5. \A i \in 1..n : i \in NewCalls' <=> i \in NewCalls BY <1>3, <1>4
<1>6. n + 1 \in NewCalls' <=> Starts(h)
  <2>1. n + 1 \notin NewCalls BY <1>2, <1>3 DEF NewCalls
  <2> QED BY <1>4, <2>1
<1>7. \A i : i \in NewCalls' <=> i \in 1..(n + 1) /\ IsNewCall(i)' BY <1>1, <1>2 DEF NewCalls
<1>8. \A i : i \in NewCalls <=> i \in 1..n /\ IsNewCall(i) BY <1>2 DEF NewCalls
<1>9. Agree(Prosaic', Prosaic, n) /\ (n + 1 \in Prosaic' <=> Talks(h))
  <2>1. \A i : i \in Prosaic' <=> i \in 1..(n + 1) /\ Talks(t[i]) BY <1>1, <1>2 DEF Prosaic, IsProse, Talks
  <2>2. \A i : i \in Prosaic <=> i \in 1..n /\ Talks(given[i]) BY <1>2 DEF Prosaic, IsProse, Talks
  <2> QED BY <1>2, <1>3, <2>1, <2>2 DEF Agree
<1>10. Agree(Closers', Closers, n) /\ (n + 1 \in Closers' <=> Ends(h))
  <2>1. \A i : i \in Closers' <=> i \in 1..(n + 1) /\ (i \in NewCalls' \/ (t[i].kind = "text" /\ t[i].body))
    BY <1>1, <1>2, <1>7 DEF Closers
  <2>2. \A i : i \in Closers <=> i \in 1..n /\ (i \in NewCalls \/ (given[i].kind = "text" /\ given[i].body))
    BY <1>2, <1>8 DEF Closers
  <2> QED BY <1>2, <1>3, <1>5, <1>6, <2>1, <2>2 DEF Agree, Ends
<1>11. Agree(Openers', Openers, n) /\ (n + 1 \in Openers' <=> Opens(h))
  <2>1. \A i : i \in Openers' <=> i \in 1..(n + 1) /\ Opens(t[i]) BY <1>1, <1>2 DEF Openers, OpensThinking, Opens
  <2>2. \A i : i \in Openers <=> i \in 1..n /\ Opens(given[i]) BY <1>2 DEF Openers, OpensThinking, Opens
  <2> QED BY <1>2, <1>3, <2>1, <2>2 DEF Agree
<1>12. Agree(Signers', Signers, n) /\ (n + 1 \in Signers' <=> Signs(h))
  <2>1. \A i : i \in Signers' <=> i \in 1..(n + 1) /\ Signs(t[i]) BY <1>1, <1>2 DEF Signers, Signs
  <2>2. \A i : i \in Signers <=> i \in 1..n /\ Signs(given[i]) BY <1>2 DEF Signers, Signs
  <2> QED BY <1>2, <1>3, <2>1, <2>2 DEF Agree
<1> QED BY <1>9, <1>10, <1>11, <1>12

\* The places of some of the parts, when there is one more.
LEMMA PlacesNext ==
    ASSUME IsSeq(given), NEW h, given' = Append(given, h), NEW n \in Nat, n = Len(given),
           NEW K, NEW J, Agree(J, K, n)
    PROVE  /\ Places(J)' = IF n + 1 \in J THEN Append(Places(K), n + 1) ELSE Places(K)
           /\ IsSeq(Places(K))
<1>1. PICK t : given' = t /\ Grown(t, given, h) BY GrownAppend
<1>2. DOMAIN t = 1..(n + 1) /\ DOMAIN given = 1..n BY <1>1 DEF Grown
<1> DEFINE a == [k \in 1..n |-> k]
           b == [k \in 1..(n + 1) |-> k]
<1>3. IsSeq(a) /\ Len(a) = n
  <2>1. a = [k \in 1..n |-> a[k]] OBVIOUS
  <2> HIDE DEF a
  <2> QED BY <2>1, FunctionSeq
<1>4. b = Append(a, n + 1)
  <2> DEFINE c == Append(a, n + 1)
  <2>1. IsSeq(c) /\ Len(c) = n + 1 /\ c[n + 1] = n + 1 /\ \A k \in 1..n : c[k] = a[k] /\ a[k] = k
    <3>1. DOMAIN a = 1..n /\ \A k \in 1..n : a[k] = k OBVIOUS
    <3> HIDE DEF a
    <3> QED BY <1>3, <3>1, AppendItem
  <2>2. b = [k \in 1..(n + 1) |-> b[k]] /\ \A k \in 1..(n + 1) : b[k] = k OBVIOUS
  <2> HIDE DEF a, b, c
  <2>3. IsSeq(b) /\ Len(b) = n + 1 BY <2>2, FunctionSeq
  <2>4. \A k \in 1..(n + 1) : b[k] = c[k]
    <3>1. \A k \in 1..(n + 1) : k \in 1..n \/ k = n + 1 OBVIOUS
    <3> QED BY <2>1, <2>2, <3>1
  <2> DEFINE S == ToSet(b) \cup ToSet(c)
  <2>5. b \in Seq(S) /\ c \in Seq(S) BY <2>1, <2>3 DEF IsSeq
  <2> HIDE DEF S
  <2>6. b = c BY <2>1, <2>3, <2>4, <2>5, SeqEqual
  <2> QED BY <2>6 DEF c
<1>5. Places(J)' = Among(b, J) BY <1>1, <1>2 DEF Places
<1>6. Places(K) = Among(a, K) BY <1>2 DEF Places
<1> HIDE DEF a, b
<1>7. Among(Append(a, n + 1), J) = IF Len(a) + 1 \in J THEN Append(Among(a, K), n + 1) ELSE Among(a, K)
  <2>1. \A i \in 1..Len(a) : i \in K <=> i \in J BY <1>3 DEF Agree
  <2>2. PICK x : x = n + 1 OBVIOUS
  <2>3. IsSeq(a) BY <1>3
  <2>4. Among(Append(a, x), J) = IF Len(a) + 1 \in J THEN Append(Among(a, K), x) ELSE Among(a, K)
    BY <2>1, <2>3, AmongAppend
  <2> QED BY <2>2, <2>4
<1>8. IsSeq(Among(a, K)) BY <1>3, AmongLemma
<1> QED BY <1>3, <1>4, <1>5, <1>6, <1>7, <1>8

-----------------------------------------------------------------------------
(* What every answer keeps. *)

AnswerIsKept == EventsAreInOrder /\ TextIsTold /\ CallsAreOnce /\ SignaturesAreKept

LEMMA CountedOnce ==
    ASSUME NEW f, f = [x \in DOMAIN f |-> f[x]], IsInjective(f), NEW T, IsFiniteSet(T),
           \A y : y \in T <=> \E x \in DOMAIN f : y = f[x]
    PROVE  Cardinality(DOMAIN f) = Cardinality(T)
<1> DEFINE S == DOMAIN f
<1>1. f \in [S -> T] BY Zenon
<1>2. f \in Injection(S, T) BY <1>1 DEF Injection
<1>3. f \in Surjection(S, T) BY <1>1 DEF Surjection
<1>4. Cardinality(S) = Cardinality(T) <=> f \in Surjection(S, T) BY <1>2, FS_Injection
<1> QED BY <1>3, <1>4

\* An answer that is streamed, as its events told it.
StreamGood ==
  /\ protocol \in Streamed /\ Registry /\ EventsAreInOrder /\ SignaturesAreKept /\ Once(out)
  /\ \A i \in DOMAIN out : IsCall(out[i]) => (out[i].ev = "output_item.done" <=> protocol = "responses")
  /\ Intact => Prose(out) = Places(Prosaic) /\ Ids(out) = DOMAIN used
  /\ protocol = "responses" /\ Over /\ Intact /\ out # <<>> =>
       FlattenSeq([k \in DOMAIN outputs |-> outputs[k].text]) = Places(Prosaic)

LEMMA StreamKept == ASSUME StreamGood PROVE AnswerIsKept
<1>0. /\ protocol \in Streamed /\ Registry /\ EventsAreInOrder /\ SignaturesAreKept /\ Once(out)
      /\ \A i \in DOMAIN out : IsCall(out[i]) => (out[i].ev = "output_item.done" <=> protocol = "responses")
      /\ Intact => Prose(out) = Places(Prosaic) /\ Ids(out) = DOMAIN used
  BY DEF StreamGood
<1>1. protocol # "json" BY <1>0 DEF Streamed
<1>2. TextIsTold BY <1>1 DEF StreamGood, TextIsTold, Prosaic
<1> DEFINE K == {i \in DOMAIN out : IsCall(out[i])}
<1>3. CallIds = [i \in K |-> IF protocol = "responses" THEN out[i].item.call.id ELSE out[i].what.id]
  BY <1>1 DEF CallIds
<1>4. DOMAIN CallIds = K /\ \A i \in K : CallIds[i] = IdOf(out[i]) BY <1>0, <1>3 DEF IdOf
<1>5. CallIds = [i \in DOMAIN CallIds |-> CallIds[i]] BY <1>3
<1> DEFINE f == CallIds
<1>6. f = [x \in DOMAIN f |-> f[x]] /\ DOMAIN f = K /\ \A i \in K : f[i] = IdOf(out[i]) BY <1>4, <1>5
<1> HIDE DEF f
<1>7. IsInjective(f) BY <1>0, <1>6 DEF IsInjective, Once
<1>8. CASE ~Intact BY <1>0, <1>2, <1>7, <1>8 DEF CallsAreOnce, f, AnswerIsKept
<1>9. CASE Intact
  <2>1. \A y : y \in DOMAIN used <=> \E x \in DOMAIN f : y = f[x] BY <1>0, <1>6, <1>9 DEF Ids
  <2>2. IsFiniteSet(DOMAIN used) /\ Cardinality(DOMAIN used) = Cardinality(NewCalls) BY <1>0 DEF Registry
  <2>3. Cardinality(DOMAIN f) = Cardinality(DOMAIN used) BY <1>6, <1>7, <2>1, <2>2, CountedOnce
  <2>4. Cardinality(DOMAIN CallIds) = Cardinality({k \in DOMAIN given : IsNewCall(k)})
    BY <2>2, <2>3 DEF f, NewCalls
  <2> QED BY <1>0, <1>2, <1>7, <2>4 DEF CallsAreOnce, f, AnswerIsKept
<1> QED BY <1>2, <1>8, <1>9 DEF AnswerIsKept

-----------------------------------------------------------------------------
(* The answer in the Claude protocol. *)

Written == SignedBy(given, Settled(Len(given), Closers, Openers, Signers))

ClaudeLink ==
  /\ block \in {None, "text", "thinking"}
  /\ started <=> Met # {}
  /\ IF started THEN Len(out) # 0 ELSE out = <<>> /\ block = None
  /\ Holding(given, Len(given), Closers, Openers, Signers, block = "thinking", pendingSig)
  /\ Tale(out, index, block, Places(Prosaic), DOMAIN used, Written)

\* What was visited changes neither by itself nor by what is kept of it.
LEMMA PartsSame ==
    ASSUME UNCHANGED <<protocol, given>>
    PROVE  /\ Met' = Met /\ Prosaic' = Prosaic /\ Closers' = Closers /\ Openers' = Openers /\ Signers' = Signers
           /\ Places(Prosaic)' = Places(Prosaic)
<1>1. Met' = Met BY MetSame
<1>2. Prosaic' = Prosaic BY DEF Prosaic, IsProse
<1>3. Closers' = Closers BY DEF Closers, IsNewCall, CallKey
<1>4. Openers' = Openers BY DEF Openers, OpensThinking
<1>5. Signers' = Signers BY DEF Signers
<1>6. Places(Prosaic)' = Places(Prosaic) BY <1>2 DEF Places
<1> QED BY <1>1, <1>2, <1>3, <1>4, <1>5, <1>6

LEMMA ClaudeLinkSame ==
    ASSUME ClaudeLink, UNCHANGED <<protocol, given, claudeVars, out>>, DOMAIN used' = DOMAIN used
    PROVE  ClaudeLink'
<1>1. /\ Met' = Met /\ Closers' = Closers /\ Openers' = Openers /\ Signers' = Signers
      /\ Places(Prosaic)' = Places(Prosaic)
  BY PartsSame
<1>2. Written' = Written BY <1>1 DEF Written
<1>3. UNCHANGED <<started, index, block, pendingSig>> BY DEF claudeVars
<1> QED BY <1>1, <1>2, <1>3 DEF ClaudeLink

LEMMA ClaudeLinkVisit ==
    ASSUME ClaudeLink, Registry, IsSeq(given), NEW h, given' = Append(given, h), protocol' = protocol,
           block' \in {None, "text", "thinking"}, started' <=> Met' # {},
           IF started' THEN Len(out') # 0 ELSE out' = <<>> /\ block' = None,
           block' = "thinking" <=> ~Ends(h) /\ (Opens(h) \/ block = "thinking"),
           pendingSig' = IF Ends(h) THEN None
                         ELSE IF Signs(h) /\ block' = "thinking" THEN h.sig ELSE pendingSig,
           Tale(out', index', block', IF Talks(h) THEN Append(Places(Prosaic), This) ELSE Places(Prosaic),
                DOMAIN used', IF Ends(h) /\ pendingSig # None THEN Append(Written, pendingSig) ELSE Written)
    PROVE  ClaudeLink'
<1>1. PICK t : given' = t /\ Grown(t, given, h) BY GrownAppend
<1>2. PICK n \in Nat : n = Len(given) /\ n + 1 = Len(t) BY <1>1 DEF Grown
<1>3. /\ Agree(Prosaic', Prosaic, n) /\ (n + 1 \in Prosaic' <=> Talks(h))
      /\ Agree(Closers', Closers, n) /\ (n + 1 \in Closers' <=> Ends(h))
      /\ Agree(Openers', Openers, n) /\ (n + 1 \in Openers' <=> Opens(h))
      /\ Agree(Signers', Signers, n) /\ (n + 1 \in Signers' <=> Signs(h))
  BY <1>2, PartsNext
<1>4. n + 1 \in Closers' => n + 1 \notin Openers' BY <1>3 DEF Ends, Opens, Starts
<1>5. n + 1 \in Signers' => h.sig # None BY <1>3 DEF Signs
<1>6. /\ Holding(t, n + 1, Closers', Openers', Signers', block' = "thinking", pendingSig')
      /\ SignedBy(t, Settled(n + 1, Closers', Openers', Signers')) =
           IF Ends(h) /\ pendingSig # None THEN Append(Written, pendingSig) ELSE Written
  <2>1. PICK C, O, Q, C2, O2, Q2 : /\ C = Closers /\ O = Openers /\ Q = Signers
                                   /\ C2 = Closers' /\ O2 = Openers' /\ Q2 = Signers'
    OBVIOUS
  <2>2. PICK th, sig, th2, sig2 : /\ th = (block = "thinking") /\ sig = pendingSig
                                  /\ th2 = (block' = "thinking") /\ sig2 = pendingSig'
    OBVIOUS
  <2>3. Agree(C2, C, n) /\ Agree(O2, O, n) /\ Agree(Q2, Q, n) BY <1>3, <2>1
  <2>4. (n + 1 \in C2 => n + 1 \notin O2) /\ (n + 1 \in Q2 => h.sig # None) BY <1>4, <1>5, <2>1
  <2>5. Holding(given, n, C, O, Q, th, sig) BY <1>2, <2>1, <2>2 DEF ClaudeLink
  <2>6. th2 <=> n + 1 \notin C2 /\ (n + 1 \in O2 \/ th) BY <1>3, <2>1, <2>2
  <2>7. sig2 = IF n + 1 \in C2 THEN None ELSE IF n + 1 \in Q2 /\ th2 THEN h.sig ELSE sig
    BY <1>3, <2>1, <2>2
  <2>8. /\ Holding(t, n + 1, C2, O2, Q2, th2, sig2)
        /\ SignedBy(t, Settled(n + 1, C2, O2, Q2)) =
             IF n + 1 \in C2 /\ sig # None THEN Append(SignedBy(given, Settled(n, C, O, Q)), sig)
             ELSE SignedBy(given, Settled(n, C, O, Q))
    <3>1. PICK g : g = given OBVIOUS
    <3>2. Grown(t, g, h) /\ n = Len(g) /\ Holding(g, n, C, O, Q, th, sig) BY <1>1, <1>2, <2>5, <3>1
    <3>3. Turns(h, n, C2, O2, Q2, th, sig, th2, sig2) BY <2>4, <2>6, <2>7 DEF Turns
    <3>4. /\ Holding(t, n + 1, C2, O2, Q2, th2, sig2)
          /\ SignedBy(t, Settled(n + 1, C2, O2, Q2)) =
               IF n + 1 \in C2 /\ sig # None THEN Append(SignedBy(g, Settled(n, C, O, Q)), sig)
               ELSE SignedBy(g, Settled(n, C, O, Q))
      BY <2>3, <3>2, <3>3, HoldingNext
    <3> QED BY <3>1, <3>4
  <2>9. Written = SignedBy(given, Settled(n, C, O, Q)) BY <1>2, <2>1 DEF Written
  <2> QED BY <1>3, <2>1, <2>2, <2>8, <2>9
<1>7. Places(Prosaic)' = IF Talks(h) THEN Append(Places(Prosaic), This) ELSE Places(Prosaic)
  <2>1. PICK K, J : K = Prosaic /\ J = Prosaic' OBVIOUS
  <2>2. Places(J)' = IF n + 1 \in J THEN Append(Places(K), n + 1) ELSE Places(K)
    BY <1>2, <1>3, <2>1, PlacesNext
  <2>3. Places(Prosaic)' = Places(J)' BY <2>1 DEF Places
  <2> QED BY <1>2, <1>3, <2>1, <2>2, <2>3 DEF This
<1>8. Written' = IF Ends(h) /\ pendingSig # None THEN Append(Written, pendingSig) ELSE Written
  BY <1>1, <1>2, <1>6 DEF Written
<1>9. Holding(given, Len(given), Closers, Openers, Signers, block = "thinking", pendingSig)' BY <1>1, <1>2, <1>6
<1>10. Tale(out, index, block, Places(Prosaic), DOMAIN used, Written)' BY <1>7, <1>8
<1> QED BY <1>9, <1>10 DEF ClaudeLink

ClaudeGood(s) ==
  /\ IsSeq(s) /\ Once(s)
  /\ \A i \in 1..Len(s) : ClaudeOrder(s, i) /\ (IsCall(s[i]) => s[i].ev # "output_item.done")

LEMMA ClaudeGoodBegins == ASSUME NEW s, ClaudeGood(s), NEW t, Begins(t, s) PROVE ClaudeGood(t)
<1>1. IsSeq(s) /\ Once(s) BY DEF ClaudeGood
<1>2. /\ IsSeq(t) /\ Len(t) \in Nat /\ Len(s) \in Nat /\ Len(t) <= Len(s)
      /\ \A i \in 1..Len(t) : t[i] = s[i]
      /\ Len(t) = Len(s) => t = s
  BY <1>1, BeginsFacts
<1>3. Once(t) BY <1>1, BeginsOnce
<1>4. ASSUME NEW i \in 1..Len(t) PROVE ClaudeOrder(t, i) /\ (IsCall(t[i]) => t[i].ev # "output_item.done")
  <2>1. i \in 1..Len(s) /\ t[i] = s[i] BY <1>2
  <2>2. ClaudeOrder(s, i) /\ (IsCall(s[i]) => s[i].ev # "output_item.done") BY <2>1 DEF ClaudeGood
  <2>3. CASE i = Len(s) BY <1>2, <2>2, <2>3
  <2>4. CASE i # Len(s)
    <3>1. \A ev : Before(t, i, ev) = Before(s, i, ev) BY <1>1, BeginsBefore
    <3>2. \A j \in 1..(i - 1) : t[j] = s[j] BY <1>2
    <3>3. ~IsLast(s, i) BY <2>4 DEF IsLast
    <3>4. ClaudeOrder(t, i) BY <2>1, <2>2, <3>1, <3>2, <3>3 DEF ClaudeOrder
    <3> QED BY <2>1, <2>2, <3>4
  <2> QED BY <2>3, <2>4
<1> QED BY <1>2, <1>3, <1>4 DEF ClaudeGood

LEMMA TaleGood ==
    ASSUME NEW s, NEW n, NEW open, NEW prose, NEW ids, NEW sigs, Tale(s, n, open, prose, ids, sigs)
    PROVE  ClaudeGood(s)
<1>1. IsSeq(s) /\ Once(s) BY DEF Tale, Told
<1>2. \A i \in 1..Len(s) : Plain(s[i]) /\ ClaudeOrder(s, i) BY DEF Tale, Nested
<1> QED BY <1>1, <1>2 DEF ClaudeGood, Plain

\* The terminal events.
LEMMA TaleFails ==
    ASSUME NEW s, NEW n, NEW open, NEW prose, NEW ids, NEW sigs, Tale(s, n, open, prose, ids, sigs),
           NEW e, e.ev = "error"
    PROVE  ClaudeGood(Append(s, e)) /\ Told(Append(s, e), prose, ids)
<1>1. PICK t : t = Append(s, e) /\ Grown(t, s, e) BY GrownAppend DEF Tale, Told
<1>2. ~IsCall(e) /\ ~Tells(e) BY DEF IsCall, Tells
<1>3. Told(t, prose, ids) BY <1>1, <1>2, ToldGrown DEF Tale
<1>4. Len(t) = Len(s) + 1 /\ Len(s) \in Nat /\ t[Len(s) + 1] = e /\ \A i \in 1..Len(s) : t[i] = s[i]
  BY <1>1 DEF Grown
<1>5. \A i \in 1..Len(s) : Plain(s[i]) /\ ClaudeOrder(s, i) BY DEF Tale, Nested
<1>6. \A i \in 1..Len(s) : ClaudeOrder(t, i) BY <1>1, <1>5, ClaudeOrderKept
<1>7. ClaudeOrder(t, Len(s) + 1) BY <1>4 DEF ClaudeOrder, IsLast
<1>8. \A i \in 1..(Len(s) + 1) : i \in 1..Len(s) \/ i = Len(s) + 1 BY <1>4
<1>9. \A i \in 1..(Len(s) + 1) : ClaudeOrder(t, i) /\ (IsCall(t[i]) => t[i].ev # "output_item.done")
  <2>1. \A i \in 1..Len(s) : t[i].ev # "output_item.done" BY <1>4, <1>5 DEF Plain
  <2> QED BY <1>2, <1>4, <1>6, <1>7, <1>8, <2>1
<1> QED BY <1>1, <1>3, <1>4, <1>9 DEF ClaudeGood, Told

LEMMA TaleEnds ==
    ASSUME NEW s, Len(s) # 0, NEW n, NEW prose, NEW ids, NEW sigs, Tale(s, n, None, prose, ids, sigs),
           NEW e, e.ev = "message_delta", NEW f, f.ev = "message_stop"
    PROVE  /\ ClaudeGood(Append(Append(s, e), f)) /\ Told(Append(Append(s, e), f), prose, ids)
           /\ Sealed(Append(Append(s, e), f), sigs)
<1>1. PICK t : t = Append(s, e) /\ Grown(t, s, e) BY GrownAppend DEF Tale, Told
<1>2. ~IsCall(e) /\ ~Tells(e) /\ ~Seals(e) /\ ~IsCall(f) /\ ~Tells(f) /\ ~Seals(f) BY DEF IsCall, Tells, Seals
<1>3. Told(t, prose, ids) /\ Sealed(t, sigs) BY <1>1, <1>2, ToldGrown, SealedGrown DEF Tale
<1>4. PICK u : u = Append(t, f) /\ Grown(u, t, f) BY <1>3, GrownAppend DEF Told
<1>5. Told(u, prose, ids) /\ Sealed(u, sigs) BY <1>2, <1>3, <1>4, ToldGrown, SealedGrown
<1>6. /\ Len(t) = Len(s) + 1 /\ Len(s) \in Nat /\ t[Len(s) + 1] = e /\ \A i \in 1..Len(s) : t[i] = s[i]
  BY <1>1 DEF Grown
<1>7. Len(u) = Len(s) + 2 /\ u[Len(s) + 2] = f /\ \A i \in 1..(Len(s) + 1) : u[i] = t[i]
  <2>1. Len(u) = Len(t) + 1 /\ u[Len(t) + 1] = f /\ \A i \in 1..Len(t) : u[i] = t[i] BY <1>4 DEF Grown
  <2>2. Len(t) + 1 = Len(s) + 2 BY <1>6
  <2> QED BY <1>6, <2>1, <2>2
<1>8. \A i \in 1..Len(s) : Plain(s[i]) /\ ClaudeOrder(s, i) BY DEF Tale, Nested
<1>9. /\ \A ev : \A i \in 1..(Len(s) + 1) : Before(t, i, ev) = Before(s, i, ev)
      /\ \A ev : Before(t, Len(s) + 1, ev) = Count(s, ev)
      /\ Count(t, "message_delta") = Count(s, "message_delta") + 1
  <2>1. Count(t, "message_delta") = Count(s, "message_delta") + IF e.ev = "message_delta" THEN 1 ELSE 0
    BY <1>1, CountGrown
  <2>2. \A ev : /\ \A i \in 1..(Len(s) + 1) : Before(t, i, ev) = Before(s, i, ev)
                /\ Before(t, Len(s) + 1, ev) = Count(s, ev)
    BY <1>1, CountGrown
  <2> QED BY <2>1, <2>2
<1>10. /\ \A ev : \A i \in 1..(Len(s) + 2) : Before(u, i, ev) = Before(t, i, ev)
       /\ Before(u, Len(s) + 2, "message_delta") = Count(t, "message_delta")
  <2>1. /\ \A ev : \A i \in 1..(Len(t) + 1) : Before(u, i, ev) = Before(t, i, ev)
        /\ Before(u, Len(t) + 1, "message_delta") = Count(t, "message_delta")
    <3>1. Grown(u, t, f) BY <1>4
    <3>2. ASSUME NEW ev
          PROVE  /\ \A i \in 1..(Len(t) + 1) : Before(u, i, ev) = Before(t, i, ev)
                 /\ Before(u, Len(t) + 1, ev) = Count(t, ev)
      BY <3>1, CountGrown
    <3> QED BY <3>2
  <2>2. Len(t) + 1 = Len(s) + 2 BY <1>6
  <2> QED BY <2>1, <2>2
<1>11. Count(s, "message_delta") = 0
  <2>1. \A j \in 1..Len(s) : s[j].ev # "message_delta" BY <1>8 DEF Plain
  <2>2. {j \in 1..Len(s) : s[j].ev = "message_delta"} = {} BY <2>1
  <2>3. Count(s, "message_delta") = Cardinality({j \in 1..Len(s) : s[j].ev = "message_delta"}) BY <1>6, CountIs
  <2> QED BY <2>2, <2>3, FS_EmptySet
<1>12. ASSUME NEW i \in 1..Len(s) PROVE ClaudeOrder(u, i)
  <2>1. ClaudeOrder(t, i) /\ t[i] = s[i] /\ Plain(t[i]) BY <1>1, <1>6, <1>8, ClaudeOrderKept
  <2>2. i \in 1..Len(t) BY <1>6
  <2> QED BY <1>4, <2>1, <2>2, ClaudeOrderKept
<1>13. ClaudeOrder(u, Len(s) + 1)
  <2>1. Len(s) + 1 \in 1..(Len(s) + 2) /\ Len(s) + 1 \in 1..(Len(s) + 1) /\ Len(s) + 1 > 1 BY <1>6
  <2>2. u[Len(s) + 1] = e BY <1>6, <1>7, <2>1
  <2>3. \A ev : Before(u, Len(s) + 1, ev) = Count(s, ev) BY <1>9, <1>10, <2>1
  <2>4. Count(s, "content_block_start") = Count(s, "content_block_stop") BY DEF Tale, Nested
  <2> QED BY <2>1, <2>2, <2>3, <2>4 DEF ClaudeOrder
<1>14. ClaudeOrder(u, Len(s) + 2)
  <2>1. Before(u, Len(s) + 2, "message_delta") = 1 BY <1>9, <1>10, <1>11
  <2> QED BY <1>7, <2>1 DEF ClaudeOrder, IsLast
<1>15. \A i \in 1..(Len(s) + 2) : i \in 1..Len(s) \/ i = Len(s) + 1 \/ i = Len(s) + 2 BY <1>6
<1>16. \A i \in 1..(Len(s) + 2) : ClaudeOrder(u, i) /\ (IsCall(u[i]) => u[i].ev # "output_item.done")
  <2>1. \A i \in 1..Len(s) : i \in 1..(Len(s) + 1) BY <1>6
  <2>2. \A i \in 1..Len(s) : u[i].ev # "output_item.done" BY <1>6, <1>7, <1>8, <2>1 DEF Plain
  <2>3. Len(s) + 1 \in 1..(Len(s) + 1) BY <1>6
  <2>4. u[Len(s) + 1] = e /\ u[Len(s) + 2] = f BY <1>6, <1>7, <2>3
  <2> QED BY <1>2, <1>12, <1>13, <1>14, <1>15, <2>2, <2>4
<1>17. ClaudeGood(u) BY <1>5, <1>7, <1>16 DEF ClaudeGood, Told
<1> QED BY <1>1, <1>4, <1>5, <1>17

\* An answer in the Claude protocol, as its events told it.
ClaudeWell ==
  /\ protocol = "claude" /\ Registry /\ ClaudeGood(out) /\ SignaturesAreKept
  /\ Intact => Told(out, Places(Prosaic), DOMAIN used)

LEMMA ClaudeWellKept == ASSUME ClaudeWell PROVE AnswerIsKept
<1>1. ClaudeGood(out) /\ protocol = "claude" BY DEF ClaudeWell
<1>2. DOMAIN out = 1..Len(out) BY <1>1, SeqFacts DEF ClaudeGood
<1>3. EventsAreInOrder BY <1>1, <1>2 DEF EventsAreInOrder, ClaudeGood
<1>4. \A i \in DOMAIN out : IsCall(out[i]) => (out[i].ev = "output_item.done" <=> protocol = "responses")
  BY <1>1, <1>2 DEF ClaudeGood
<1>5. Once(out) BY <1>1 DEF ClaudeGood
<1>6. Intact => Prose(out) = Places(Prosaic) /\ Ids(out) = DOMAIN used BY DEF ClaudeWell, Told
<1>7. Registry /\ SignaturesAreKept /\ protocol \in Streamed BY <1>1 DEF ClaudeWell, Streamed
<1>8. StreamGood BY <1>1, <1>3, <1>4, <1>5, <1>6, <1>7 DEF StreamGood
<1> QED BY <1>8, StreamKept

LEMMA ClaudeLinkKept ==
    ASSUME ClaudeLink, protocol = "claude", Registry, phase # "done" PROVE AnswerIsKept
<1>1. ClaudeGood(out) BY TaleGood DEF ClaudeLink
<1>2. Told(out, Places(Prosaic), DOMAIN used) BY DEF ClaudeLink, Tale
<1>3. SignaturesAreKept BY DEF SignaturesAreKept
<1>4. ClaudeWell BY <1>1, <1>2, <1>3 DEF ClaudeWell
<1> QED BY <1>4, ClaudeWellKept

LEMMA ClaudeBroken ==
    ASSUME protocol = "claude", Registry, IsSeq(out), NEW events, IsSeq(events), ClaudeGood(out \o events),
           Broken(events)
    PROVE  AnswerIsKept'
<1>1. Begins(out', out \o events) /\ phase' = "failed" /\ cause' = "write" BY BrokenBegins
<1>2. UNCHANGED <<protocol, given, calls, used>> BY DEF Broken
<1>3. ClaudeGood(out') BY <1>1, ClaudeGoodBegins
<1>4. ClaudeGood(out)' BY <1>3 DEF ClaudeGood, IsSeq, Once, ClaudeOrder, Before, IsLast, IsCall, IdOf
<1>5. Registry' BY <1>2, RegistrySame
<1>6. SignaturesAreKept' BY <1>1 DEF SignaturesAreKept
<1>7. ClaudeWell' BY <1>1, <1>2, <1>4, <1>5, <1>6 DEF ClaudeWell, Intact
<1>8. (ClaudeWell => AnswerIsKept)' BY ClaudeWellKept, PTL
<1> QED BY <1>7, <1>8

-----------------------------------------------------------------------------
(* The signatures at the end. *)

LEMMA LastSignatureIs ==
    ASSUME IsSeq(given), NEW l \in DOMAIN given
    PROVE  LastSignature(l) <=> Lasts(l, Len(given), Closers, Openers, Signers)
<1>1. DOMAIN given = 1..Len(given) /\ Len(given) \in Nat BY SeqFacts
<1>2. ASSUME NEW k \in 1..Len(given), NEW m \in 1..Len(given)
      PROVE  SameBlock(k, m) <=> Apart(k, m, Closers)
  <2>1. \A j \in (k + 1)..m : j \in 1..Len(given) BY <1>1
  <2> QED BY <1>1, <2>1 DEF SameBlock, Apart, Closers
<1>3. \A j \in 1..Len(given) : j \in Signers <=> given[j].kind \in {"text", "thought"} /\ given[j].sig # None
  BY <1>1 DEF Signers
<1>4. \A j \in 1..Len(given) : j \in Openers <=> OpensThinking(j) BY <1>1 DEF Openers
<1>5. l \in Signers => (l \notin Closers <=> ~(given[l].kind = "text" /\ given[l].body))
  BY DEF Signers, Closers, IsNewCall
<1>6. (\E k \in 1..l : OpensThinking(k) /\ SameBlock(k, l)) <=> (\E k \in 1..l : k \in Openers /\ Apart(k, l, Closers))
  <2>1. \A k \in 1..l : k \in 1..Len(given) BY <1>1
  <2> QED BY <1>1, <1>2, <1>4, <2>1
<1>7. (\A j \in (l + 1)..Len(given) : SameBlock(l, j) => given[j].kind \notin {"text", "thought"} \/ given[j].sig = None)
        <=> \A j \in (l + 1)..Len(given) : Apart(l, j, Closers) => j \notin Signers
  <2>1. \A j \in (l + 1)..Len(given) : j \in 1..Len(given) BY <1>1
  <2> QED BY <1>1, <1>2, <1>3, <2>1
<1> QED BY <1>1, <1>3, <1>5, <1>6, <1>7 DEF LastSignature, Lasts

LEMMA AllWritten ==
    ASSUME IsSeq(given), ClaudeLink
    PROVE  SignedBy(given, {l \in DOMAIN given : LastSignature(l)}) =
             IF HoldsSignature THEN Append(Written, pendingSig) ELSE Written
<1>1. PICK n \in Nat : n = Len(given) BY SeqFacts
<1>2. PICK C, O, Q : C = Closers /\ O = Openers /\ Q = Signers OBVIOUS
<1>3. Holding(given, n, C, O, Q, block = "thinking", pendingSig) BY <1>1, <1>2 DEF ClaudeLink
<1>4. DOMAIN given = 1..n BY <1>1, SeqFacts
<1>5. \A l \in 1..n : LastSignature(l) <=> Lasts(l, n, C, O, Q) BY <1>1, <1>2, <1>4, LastSignatureIs
<1> DEFINE L == {l \in DOMAIN given : LastSignature(l)}
           S == Settled(n, C, O, Q)
           W == {l \in 1..n : Due(l, n, C, O, Q)}
<1>6. L = S \cup W BY <1>4, <1>5 DEF Settled, Due
<1>7. Written = SignedBy(given, S) BY <1>1, <1>2 DEF Written
<1>8. HoldsSignature <=> pendingSig # None BY <1>3 DEF HoldsSignature, Holding
<1>9. CASE pendingSig = None
  <2>1. W = {} BY <1>3, <1>9 DEF Holding
  <2> HIDE DEF L, S, W
  <2>2. L = S BY <1>6, <2>1
  <2> QED BY <1>7, <1>8, <1>9, <2>2 DEF L
<1>10. CASE pendingSig # None
  <2>1. PICK l \in 1..n : Due(l, n, C, O, Q) /\ pendingSig = given[l].sig BY <1>3, <1>10 DEF Holding
  <2>2. W = {l} /\ \A k \in S : k < l BY <2>1, DueIsLast
  <2> HIDE DEF L, S, W
  <2>3. L = S \cup {l} BY <1>6, <2>2
  <2>4. SignedBy(given, S \cup {l}) = Append(SignedBy(given, S), given[l].sig)
    <3>1. \A k \in 1..Len(given) : k \in S => k < l BY <2>2
    <3>2. l \in 1..Len(given) BY <1>1
    <3> QED BY <3>1, <3>2, SignedAppend
  <2> QED BY <1>7, <1>8, <1>10, <2>1, <2>3, <2>4 DEF L
<1> QED BY <1>9, <1>10

-----------------------------------------------------------------------------
(* The steps of the Claude writer. *)

LEMMA WalkShape ==
    ASSUME WalkNext
    PROVE  /\ UNCHANGED <<protocol, out>> /\ phase' # "done"
           /\ UNCHANGED <<given, used>> \/ ToolRepeated
<1>1. CASE \E f \in Frames : PrepareFrame(f)
  <2>1. PICK f \in Frames : PrepareFrame(f) BY <1>1
  <2>2. phase' \in {"prepare", "refused", "walk"} BY <2>1 DEF PrepareFrame, Verdict
  <2> QED BY <2>1, <2>2 DEF PrepareFrame
<1>2. CASE \E f \in Frames : ReadFrame(f)
  <2>1. PICK f \in Frames : ReadFrame(f) BY <1>2
  <2>2. phase' \in {"closing", "walk"} BY <2>1 DEF ReadFrame
  <2> QED BY <2>1, <2>2 DEF ReadFrame
<1>3. CASE PrepareFails BY <1>3 DEF PrepareFails
<1>4. CASE WalkEnds BY <1>4 DEF WalkEnds
<1>5. CASE WalkFails BY <1>5 DEF WalkFails
<1>6. CASE ToolRefused BY <1>6 DEF ToolRefused
<1>7. CASE ToolRepeated BY <1>7 DEF ToolRepeated, Visiting, Goes
<1> QED BY <1>1, <1>2, <1>3, <1>4, <1>5, <1>6, <1>7 DEF WalkNext

\* A call that is only repeated is known by its id.
LEMMA RepeatedShape ==
    ASSUME ToolRepeated, WalkInv, Registry
    PROVE  /\ DOMAIN used' = DOMAIN used /\ given' = Append(given, Head(todo)) /\ protocol' = protocol
           /\ Head(todo).kind = "tool" /\ Repeats(Head(todo)) /\ phase' = "walk" /\ out' = out
<1>1. PICK h : h = Head(todo) OBVIOUS
<1>2. /\ given' = Append(given, h) /\ protocol' = protocol /\ phase' = phase /\ phase = "walk" /\ todo # <<>>
      /\ h.kind = "tool" /\ Repeats(h) /\ Remembered(h) /\ out' = out
  BY <1>1 DEF ToolRepeated, Visiting, Visited, Goes
<1>3. IsVisit(h) BY <1>1, <1>2, LedTail DEF WalkInv
<1>4. CallId(h) \in DOMAIN used BY <1>2, <1>3, CallIdIsNew
<1>5. DOMAIN used' = DOMAIN used BY <1>2, <1>4 DEF Remembered
<1> QED BY <1>1, <1>2, <1>5

LEMMA ThreeMore ==
    ASSUME NEW s, IsSeq(s), NEW a, NEW b, NEW c
    PROVE  s \o <<a, b, c>> = Append(Append(Append(s, a), b), c)
<1>1. <<a, b, c>> = Append(<<a, b>>, c) OBVIOUS
<1>2. IsSeq(<<a, b>>) /\ IsSeq(<<c>>) BY OneElement, TwoElements
<1>3. <<a, b, c>> = <<a, b>> \o <<c>> BY <1>1, <1>2, OneMore
<1>4. s \o <<a, b, c>> = (s \o <<a, b>>) \o <<c>>
  <2>1. PICK u, v : u = <<a, b>> /\ v = <<c>> OBVIOUS
  <2>2. s \o (u \o v) = (s \o u) \o v BY <1>2, <2>1, ConcatTwice
  <2> QED BY <1>3, <2>1, <2>2
<1>5. IsSeq(s \o <<a, b>>) BY <1>2, ConcatLemma
<1>6. (s \o <<a, b>>) \o <<c>> = Append(s \o <<a, b>>, c) BY <1>5, OneMore
<1> QED BY <1>4, <1>6, TwoMore

\* What is held of the link, told of constants.
LEMMA ClaudeHolds ==
    ASSUME ClaudeLink, WalkInv
    PROVE  /\ block \in {None, "text", "thinking"} /\ IsSeq(out)
           /\ Tale(out, index, block, Places(Prosaic), DOMAIN used, Written)
           /\ HoldsSignature <=> pendingSig # None
           /\ HoldsSignature => block = "thinking"
           /\ SigAfterClose = None
           /\ Met # {} => Len(out) # 0
<1>1. HoldsSignature <=> pendingSig # None BY DEF ClaudeLink, Holding, HoldsSignature
<1> QED BY <1>1 DEF ClaudeLink, Tale, Told, HoldsSignature, SigAfterClose

LEMMA ClaudeWalkLink ==
    ASSUME WalkInv, Registry, Registry', ClaudeLink, protocol = "claude", WalkNext, UNCHANGED claudeVars
    PROVE  IF Running' THEN ClaudeLink' ELSE AnswerIsKept'
<1>1. /\ UNCHANGED <<protocol, out>> /\ phase' # "done"
      /\ UNCHANGED <<given, used>> \/ ToolRepeated
  BY WalkShape
<1>2. CASE UNCHANGED <<given, used>>
  <2>1. ClaudeLink' BY <1>1, <1>2, ClaudeLinkSame
  <2>2. (ClaudeLink /\ protocol = "claude" /\ Registry /\ phase # "done" => AnswerIsKept)' BY ClaudeLinkKept, PTL
  <2> QED BY <1>1, <2>1, <2>2
<1>3. CASE ToolRepeated
  <2>1. PICK h : h = Head(todo) OBVIOUS
  <2>2. /\ DOMAIN used' = DOMAIN used /\ given' = Append(given, h) /\ protocol' = protocol
        /\ h.kind = "tool" /\ Repeats(h) /\ phase' = "walk" /\ out' = out
    BY <1>3, <2>1, RepeatedShape
  <2>3. IsSeq(given) BY DEF WalkInv
  <2>4. ~Ends(h) /\ ~Opens(h) /\ ~Signs(h) /\ ~Talks(h) BY <2>2 DEF Ends, Opens, Signs, Talks, Starts
  <2>5. Met' = Met BY <2>2, <2>3, MetGrows
  <2>6. UNCHANGED <<started, index, block, pendingSig>> BY DEF claudeVars
  <2>7. ClaudeLink' BY <2>2, <2>3, <2>4, <2>5, <2>6, ClaudeLinkVisit DEF ClaudeLink
  <2> QED BY <2>2, <2>7 DEF Running
<1> QED BY <1>1, <1>2, <1>3

LEMMA ClaudeCandidateLink ==
    ASSUME WalkInv, Registry, ClaudeLink, protocol = "claude", ClaudeCandidate
    PROVE  IF Running' THEN ClaudeLink' ELSE AnswerIsKept'
<1> DEFINE events == IF started THEN <<>> ELSE <<[ev |-> "message_start"]>>
<1>1. PICK h : h = Head(todo) OBVIOUS
<1>2. phase = "walk" /\ todo # <<>> /\ h.kind = "candidate" BY <1>1 DEF ClaudeCandidate, Visiting
<1>3. /\ block \in {None, "text", "thinking"} /\ IsSeq(out)
      /\ Tale(out, index, block, Places(Prosaic), DOMAIN used, Written)
      /\ IF started THEN Len(out) # 0 ELSE out = <<>> /\ block = None
  BY ClaudeHolds DEF ClaudeLink
<1>4. /\ Tale(out \o events, index, block, Places(Prosaic), DOMAIN used, Written)
      /\ IsSeq(events) /\ Len(out \o events) # 0
  <2>1. CASE started
    <3>1. out \o <<>> = out BY <1>3, NothingMore
    <3> QED BY <1>3, <2>1, <3>1, EmptyIsSeq
  <2>2. CASE ~started
    <3>1. PICK e : e = [ev |-> "message_start"] OBVIOUS
    <3>2. events = <<e>> /\ e.ev = "message_start" BY <2>2, <3>1
    <3>3. out = <<>> /\ block = None BY <1>3, <2>2
    <3>4. Tale(Append(<<>>, e), index, None, Places(Prosaic), DOMAIN used, Written)
      BY <1>3, <3>2, <3>3, TaleBegins
    <3>5. out \o <<e>> = Append(out, e) BY <1>3, OneMore
    <3>6. Len(out) = 0 /\ Len(Append(out, e)) = Len(out) + 1 BY <1>3, <3>3, EmptyIsSeq, AppendItem
    <3> QED BY <3>2, <3>3, <3>4, <3>5, <3>6, OneElement
  <2> QED BY <2>1, <2>2
<1>5. CASE Broken(events)
  <2>1. ClaudeGood(out \o events) BY <1>4, TaleGood
  <2>2. AnswerIsKept' BY <1>3, <1>4, <1>5, <2>1, ClaudeBroken
  <2> QED BY <1>5, <2>2 DEF Broken, Running
<1>6. CASE /\ Delivered(events) /\ Visited /\ Goes /\ started' = TRUE
           /\ UNCHANGED <<calls, used, index, block, pendingSig>>
  <2>1. given' = Append(given, h) /\ protocol' = protocol /\ phase' = "walk" /\ out' = out \o events
    BY <1>1, <1>2, <1>6 DEF Visited, Goes, Delivered
  <2>2. IsSeq(given) BY DEF WalkInv
  <2>3. ~Ends(h) /\ ~Opens(h) /\ ~Signs(h) /\ ~Talks(h) BY <1>2 DEF Ends, Opens, Signs, Talks, Starts
  <2>4. Met' # {} BY <1>2, <2>1, <2>2, MetGrows
  <2> HIDE DEF events
  <2>5. ClaudeLink' BY <1>3, <1>4, <1>6, <2>1, <2>2, <2>3, <2>4, ClaudeLinkVisit
  <2> QED BY <2>1, <2>5 DEF Running
<1> QED BY <1>5, <1>6 DEF ClaudeCandidate

LEMMA ClaudeToolLink ==
    ASSUME WalkInv, Registry, ClaudeLink, protocol = "claude", ClaudeTool
    PROVE  IF Running' THEN ClaudeLink' ELSE AnswerIsKept'
<1>1. PICK h : h = Head(todo) OBVIOUS
<1>2. PICK i : i = AfterClose OBVIOUS
<1>3. PICK a, b, c : a = Start(i, "tool_use") /\ b = Delta(i, "tool_use", CallOf(h)) /\ c = Stop(i) OBVIOUS
<1> DEFINE events == Closing \o <<a, b, c>>
           sigs == IF HoldsSignature THEN Append(Written, pendingSig) ELSE Written
<1>4. phase = "walk" /\ todo # <<>> /\ h.kind = "tool" /\ ~Repeats(h)
  BY <1>1 DEF ClaudeTool, NewTool, Visiting
<1>5. IsVisit(h) /\ h.index \in Met BY <1>1, <1>4, LedTail DEF WalkInv
<1>6. /\ block \in {None, "text", "thinking"} /\ IsSeq(out) /\ Len(out) # 0
      /\ Tale(out, index, block, Places(Prosaic), DOMAIN used, Written)
  BY <1>5, ClaudeHolds
<1>7. CallOf(h).id = CallId(h) /\ CallId(h) \notin DOMAIN used BY <1>4, <1>5, CallIdIsNew DEF CallOf
<1>8. PICK r : r = out \o Closing OBVIOUS
<1>9. Tale(r, i, None, Places(Prosaic), DOMAIN used, sigs) /\ IsSeq(Closing) /\ Len(r) # 0
  BY <1>2, <1>6, <1>8, TaleClosing
<1> HIDE DEF sigs
<1>10. Tale(Append(Append(Append(r, a), b), c), i + 1, None, Places(Prosaic), DOMAIN used \cup {CallId(h)}, sigs)
  <2>1. None # "tool_use" BY BlocksAssumption
  <2>2. Tale(Append(r, a), i, "tool_use", Places(Prosaic), DOMAIN used, sigs) BY <1>3, <1>9, <2>1, TaleStart
  <2>3. Tale(Append(Append(r, a), b), i, "tool_use", Places(Prosaic), DOMAIN used \cup {CallId(h)}, sigs)
    <3>1. PICK s, x : s = Append(r, a) /\ x = CallOf(h) OBVIOUS
    <3>2. Tale(Append(s, Delta(i, "tool_use", x)), i, "tool_use", Places(Prosaic), DOMAIN used \cup {x.id}, sigs)
      BY <1>7, <2>1, <2>2, <3>1, TaleCall
    <3> QED BY <1>3, <1>7, <3>1, <3>2
  <2> QED BY <1>3, <2>1, <2>3, TaleStop
<1>11. out \o events = Append(Append(Append(r, a), b), c) /\ IsSeq(events)
  <2>1. IsSeq(<<a, b, c>>) BY ThreeElements
  <2>2. IsSeq(events) BY <1>9, <2>1, ConcatLemma
  <2>3. out \o events = r \o <<a, b, c>> BY <1>6, <1>8, <1>9, <2>1, ConcatTwice
  <2>4. r \o <<a, b, c>> = Append(Append(Append(r, a), b), c) BY <1>9, ThreeMore DEF Tale, Told
  <2> QED BY <2>2, <2>3, <2>4
<1>12. CASE Broken(events)
  <2>1. ClaudeGood(out \o events) BY <1>10, <1>11, TaleGood
  <2>2. AnswerIsKept' BY <1>6, <1>11, <1>12, <2>1, ClaudeBroken
  <2> QED BY <1>12, <2>2 DEF Broken, Running
<1>13. CASE /\ Delivered(events) /\ Visited /\ Goes /\ Register(h)
            /\ index' = i + 1 /\ block' = None /\ pendingSig' = SigAfterClose /\ started' = started
  <2>1. given' = Append(given, h) /\ protocol' = protocol /\ phase' = "walk" /\ out' = out \o events
    BY <1>1, <1>4, <1>13 DEF Visited, Goes, Delivered
  <2>2. IsSeq(given) BY DEF WalkInv
  <2>3. Ends(h) /\ ~Talks(h) BY <1>4 DEF Ends, Starts, Talks
  <2>4. Met' = Met BY <1>4, <2>1, <2>2, MetGrows
  <2>5. DOMAIN used' = DOMAIN used \cup {CallId(h)} BY <1>13 DEF Register, Remembered
  <2>6. started' <=> Met' # {} BY <1>13, <2>4 DEF ClaudeLink
  <2>7. started' = TRUE /\ Len(out') # 0
    <3>1. Len(out \o events) # 0
      <4>1. Len(out \o events) = Len(out) + Len(events) /\ Len(out) \in Nat /\ Len(events) \in Nat
        BY <1>6, <1>11, ConcatLemma, SeqFacts
      <4> QED BY <1>6, <4>1
    <3> QED BY <1>5, <1>13, <2>1, <3>1 DEF ClaudeLink
  <2>8. pendingSig' = None /\ (HoldsSignature <=> pendingSig # None) BY <1>13, ClaudeHolds
  <2>9. sigs = IF Ends(h) /\ pendingSig # None THEN Append(Written, pendingSig) ELSE Written
    BY <2>3, <2>8 DEF sigs
  <2> HIDE DEF events
  <2>10. Tale(out', index', block', IF Talks(h) THEN Append(Places(Prosaic), This) ELSE Places(Prosaic), DOMAIN used',
              IF Ends(h) /\ pendingSig # None THEN Append(Written, pendingSig) ELSE Written)
    BY <1>10, <1>11, <1>13, <2>1, <2>3, <2>5, <2>9
  <2>11. block' \in {None, "text", "thinking"} /\ (block' = "thinking" <=> ~Ends(h) /\ (Opens(h) \/ block = "thinking"))
    BY <1>13, <2>3, BlocksAssumption
  <2>12. ClaudeLink' BY <2>1, <2>2, <2>3, <2>6, <2>7, <2>8, <2>10, <2>11, ClaudeLinkVisit
  <2> QED BY <2>1, <2>12 DEF Running
<1> QED BY <1>1, <1>2, <1>3, <1>12, <1>13 DEF ClaudeTool

LEMMA NotShorter == ASSUME NEW s, IsSeq(s), Len(s) # 0, NEW t, IsSeq(t) PROVE Len(s \o t) # 0
<1>1. Len(s \o t) = Len(s) + Len(t) /\ Len(s) \in Nat /\ Len(t) \in Nat BY ConcatLemma, SeqFacts
<1> QED BY <1>1

\* What a write of the Claude writer does that goes on, or breaks off.
LEMMA ClaudeWrites ==
    ASSUME WalkInv, Registry, ClaudeLink, protocol = "claude", NEW h, h = Head(todo), todo # <<>>, phase = "walk",
           h.kind \in {"text", "thought"}, NEW events, IsSeq(events),
           Tale(out \o events, index', block', IF Talks(h) THEN Append(Places(Prosaic), This) ELSE Places(Prosaic),
                DOMAIN used, IF Ends(h) /\ pendingSig # None THEN Append(Written, pendingSig) ELSE Written),
           Delivered(events), Visited, Goes, UNCHANGED <<used, started>>,
           block' \in {None, "text", "thinking"},
           block' = "thinking" <=> ~Ends(h) /\ (Opens(h) \/ block = "thinking"),
           pendingSig' = IF Ends(h) THEN None
                         ELSE IF Signs(h) /\ block' = "thinking" THEN h.sig ELSE pendingSig
    PROVE  IF Running' THEN ClaudeLink' ELSE AnswerIsKept'
<1>1. given' = Append(given, h) /\ protocol' = protocol /\ phase' = "walk" /\ out' = out \o events
  BY DEF Visited, Goes, Delivered
<1>2. IsSeq(given) BY DEF WalkInv
<1>3. IsVisit(h) /\ h.index \in Met BY LedTail DEF WalkInv
<1>4. IsSeq(out) /\ Len(out) # 0 BY <1>3, ClaudeHolds
<1>5. Met' = Met BY <1>1, <1>2, MetGrows
<1>6. started' <=> Met' # {} BY <1>5 DEF ClaudeLink
<1>7. started' = TRUE /\ Len(out') # 0
  <2>1. Len(out \o events) # 0 BY <1>4, NotShorter
  <2> QED BY <1>1, <1>3, <2>1 DEF ClaudeLink
<1>8. Tale(out', index', block', IF Talks(h) THEN Append(Places(Prosaic), This) ELSE Places(Prosaic), DOMAIN used',
           IF Ends(h) /\ pendingSig # None THEN Append(Written, pendingSig) ELSE Written)
  BY <1>1
<1>9. ClaudeLink' BY <1>1, <1>2, <1>6, <1>7, <1>8, ClaudeLinkVisit
<1> QED BY <1>1, <1>9 DEF Running

LEMMA ClaudeBreaks ==
    ASSUME Registry, ClaudeLink, WalkInv, protocol = "claude", NEW events, IsSeq(events), Broken(events),
           NEW n, NEW open, NEW prose, NEW ids, NEW sigs, Tale(out \o events, n, open, prose, ids, sigs)
    PROVE  IF Running' THEN ClaudeLink' ELSE AnswerIsKept'
<1>1. ClaudeGood(out \o events) BY TaleGood
<1>2. AnswerIsKept' BY <1>1, ClaudeHolds, ClaudeBroken
<1> QED BY <1>2 DEF Broken, Running

LEMMA ClaudeThoughtLink ==
    ASSUME WalkInv, Registry, ClaudeLink, protocol = "claude", ClaudeThought
    PROVE  IF Running' THEN ClaudeLink' ELSE AnswerIsKept'
<1>1. PICK h : h = Head(todo) OBVIOUS
<1>2. phase = "walk" /\ todo # <<>> /\ h.kind = "thought" BY <1>1 DEF ClaudeThought, Visiting
<1>3. IsVisit(h) /\ h.index \in Met BY <1>1, <1>2, LedTail DEF WalkInv
<1>4. /\ block \in {None, "text", "thinking"} /\ IsSeq(out) /\ Len(out) # 0
      /\ Tale(out, index, block, Places(Prosaic), DOMAIN used, Written)
      /\ HoldsSignature => block = "thinking"
  BY <1>3, ClaudeHolds
<1>5. ~Ends(h) /\ (Talks(h) <=> h.body) /\ (Signs(h) <=> h.sig # None) BY <1>2 DEF Ends, Starts, Talks, Signs
<1>6. CASE ~h.body /\ h.sig = None
  <2>1. /\ Visited /\ Goes /\ UNCHANGED <<used, started, index, block, pendingSig, out>>
    BY <1>1, <1>6 DEF ClaudeThought, claudeVars
  <2>2. given' = Append(given, h) /\ protocol' = protocol /\ phase' = "walk"
    BY <1>1, <1>2, <2>1 DEF Visited, Goes
  <2>3. ~Opens(h) /\ ~Signs(h) /\ ~Talks(h) BY <1>5, <1>6 DEF Opens
  <2>4. IsSeq(given) BY DEF WalkInv
  <2>5. Met' = Met BY <1>2, <2>2, <2>4, MetGrows
  <2>6. ClaudeLink' BY <1>5, <2>1, <2>2, <2>3, <2>4, <2>5, ClaudeLinkVisit DEF ClaudeLink
  <2> QED BY <2>2, <2>6 DEF Running
<1>7. CASE ~(~h.body /\ h.sig = None)
  <2> DEFINE tail == IF h.body THEN <<Delta(IndexIn("thinking"), "thinking", This)>> ELSE <<>>
             events == Opening("thinking") \o tail
             prose == IF Talks(h) THEN Append(Places(Prosaic), This) ELSE Places(Prosaic)
             sigs == IF Ends(h) /\ pendingSig # None THEN Append(Written, pendingSig) ELSE Written
  <2>1. PICK r, i, p, u, w : /\ r = out \o Opening("thinking") /\ i = IndexIn("thinking")
                             /\ p = Places(Prosaic) /\ u = DOMAIN used /\ w = Written
    OBVIOUS
  <2>2. Tale(r, i, "thinking", p, u, w) /\ IsSeq(Opening("thinking")) BY <1>4, <2>1, TaleOpening
  <2>3. Opens(h) BY <1>2, <1>7 DEF Opens
  <2>4. IsSeq(events) /\ Tale(out \o events, i, "thinking", prose, u, w)
    <3>1. CASE h.body
      <4>1. PICK e, k : e = Delta(i, "thinking", This) /\ k = This OBVIOUS
      <4>2. "thinking" # None BY BlocksAssumption
      <4>3. Tale(Append(r, Delta(i, "thinking", k)), i, "thinking", Append(p, k), u, w) BY <2>2, <4>2, TaleText
      <4>4. tail = <<e>> /\ IsSeq(<<e>>) BY <2>1, <3>1, <4>1, OneElement
      <4>5. out \o (Opening("thinking") \o <<e>>) = r \o <<e>> BY <1>4, <2>1, <2>2, <4>4, ConcatTwice
      <4>6. r \o <<e>> = Append(r, e) BY <2>2, OneMore DEF Tale, Told
      <4>7. IsSeq(Opening("thinking") \o <<e>>) BY <2>2, <4>4, ConcatLemma
      <4>8. prose = Append(p, k) BY <1>5, <2>1, <3>1, <4>1
      <4>9. events = Opening("thinking") \o <<e>> BY <4>4
      <4> HIDE DEF events, prose, tail
      <4> QED BY <4>1, <4>3, <4>5, <4>6, <4>7, <4>8, <4>9
    <3>2. CASE ~h.body
      <4>1. tail = <<>> BY <3>2
      <4>2. Opening("thinking") \o <<>> = Opening("thinking") BY <2>2, NothingMore
      <4>3. prose = p BY <1>5, <2>1, <3>2
      <4>4. events = Opening("thinking") BY <4>1, <4>2
      <4> HIDE DEF events, prose, tail
      <4> QED BY <2>1, <2>2, <4>3, <4>4
    <3> QED BY <3>1, <3>2
  <2>5. sigs = Written BY <1>5
  <2> HIDE DEF sigs, prose
  <2>6. CASE Broken(events)
    <3> HIDE DEF events, tail
    <3> QED BY <2>4, <2>6, ClaudeBreaks
  <2>7. CASE ~Broken(events)
    <3>1. /\ Delivered(events) /\ Visited /\ Goes /\ UNCHANGED <<used, started>>
          /\ block' = "thinking" /\ index' = i
          /\ pendingSig' = IF h.sig # None THEN h.sig ELSE SigIn("thinking")
      BY <1>1, <1>7, <2>1, <2>7 DEF ClaudeThought
    <3>2. SigIn("thinking") = pendingSig BY <1>4 DEF SigIn, SigAfterClose
    <3>3. pendingSig' = IF Ends(h) THEN None
                        ELSE IF Signs(h) /\ block' = "thinking" THEN h.sig ELSE pendingSig
      BY <1>5, <3>1, <3>2
    <3>4. block' \in {None, "text", "thinking"} /\ (block' = "thinking" <=> ~Ends(h) /\ (Opens(h) \/ block = "thinking"))
      BY <1>5, <2>3, <3>1
    <3>5. Tale(out \o events, index', block', prose, DOMAIN used, sigs) BY <2>1, <2>4, <2>5, <3>1
    <3> HIDE DEF events, tail
    <3> QED BY <1>1, <1>2, <2>4, <3>1, <3>3, <3>4, <3>5, ClaudeWrites DEF prose, sigs
  <2> QED BY <2>6, <2>7
<1> QED BY <1>6, <1>7

LEMMA ClaudeTextLink ==
    ASSUME WalkInv, Registry, ClaudeLink, protocol = "claude", ClaudeText
    PROVE  IF Running' THEN ClaudeLink' ELSE AnswerIsKept'
<1>1. PICK h : h = Head(todo) OBVIOUS
<1>2. phase = "walk" /\ todo # <<>> /\ h.kind = "text" BY <1>1 DEF ClaudeText, Visiting
<1>3. IsVisit(h) /\ h.index \in Met BY <1>1, <1>2, LedTail DEF WalkInv
<1>4. /\ block \in {None, "text", "thinking"} /\ IsSeq(out) /\ Len(out) # 0
      /\ Tale(out, index, block, Places(Prosaic), DOMAIN used, Written)
      /\ HoldsSignature => block = "thinking"
      /\ HoldsSignature <=> pendingSig # None
      /\ SigAfterClose = None
  BY <1>3, ClaudeHolds
<1>5. (Ends(h) <=> h.body) /\ (Talks(h) <=> h.body) /\ (Signs(h) <=> h.sig # None) /\ ~Opens(h)
  BY <1>2 DEF Ends, Starts, Talks, Signs, Opens
<1>6. CASE ~h.body
  <2>1. /\ Visited /\ Goes /\ UNCHANGED <<used, started, index, block, out>>
        /\ pendingSig' = IF h.sig # None /\ block = "thinking" THEN h.sig ELSE pendingSig
    BY <1>1, <1>6 DEF ClaudeText
  <2>2. given' = Append(given, h) /\ protocol' = protocol /\ phase' = "walk"
    BY <1>1, <1>2, <2>1 DEF Visited, Goes
  <2>4. IsSeq(given) BY DEF WalkInv
  <2>5. Met' = Met BY <1>2, <2>2, <2>4, MetGrows
  <2>6. block' = "thinking" <=> ~Ends(h) /\ (Opens(h) \/ block = "thinking") BY <1>5, <1>6, <2>1
  <2>7. pendingSig' = IF Ends(h) THEN None ELSE IF Signs(h) /\ block' = "thinking" THEN h.sig ELSE pendingSig
    BY <1>5, <1>6, <2>1
  <2>8. Tale(out', index', block', IF Talks(h) THEN Append(Places(Prosaic), This) ELSE Places(Prosaic), DOMAIN used',
             IF Ends(h) /\ pendingSig # None THEN Append(Written, pendingSig) ELSE Written)
    BY <1>4, <1>5, <1>6, <2>1
  <2>9. /\ block' \in {None, "text", "thinking"} /\ (started' <=> Met' # {})
        /\ IF started' THEN Len(out') # 0 ELSE out' = <<>> /\ block' = None
    BY <1>4, <2>1, <2>5 DEF ClaudeLink
  <2>10. ClaudeLink' BY <2>2, <2>4, <2>6, <2>7, <2>8, <2>9, ClaudeLinkVisit
  <2> QED BY <2>2, <2>10 DEF Running
<1>7. CASE h.body
  <2> DEFINE events == Opening("text") \o <<Delta(IndexIn("text"), "text", This)>>
  <2>1. PICK r, i, p, u, k : /\ r = out \o Opening("text") /\ i = IndexIn("text")
                             /\ p = Places(Prosaic) /\ u = DOMAIN used /\ k = This
    OBVIOUS
  <2>2. PICK w : w = IF Ends(h) /\ pendingSig # None THEN Append(Written, pendingSig) ELSE Written OBVIOUS
  <2>3. Tale(r, i, "text", p, u, w) /\ IsSeq(Opening("text"))
    <3>1. PICK v : v = Written OBVIOUS
    <3>2. /\ Tale(r, i, "text", p, u, IF block # "text" /\ HoldsSignature THEN Append(v, pendingSig) ELSE v)
          /\ IsSeq(Opening("text"))
      BY <1>4, <2>1, <3>1, TaleOpening
    <3>3. w = IF block # "text" /\ HoldsSignature THEN Append(v, pendingSig) ELSE v BY <1>4, <1>5, <1>7, <2>2, <3>1
    <3> QED BY <3>2, <3>3
  <2>4. PICK e : e = Delta(i, "text", k) OBVIOUS
  <2>5. IsSeq(events) /\ Tale(out \o events, i, "text", Append(p, k), u, w)
    <3>2. "text" # None BY BlocksAssumption
    <3>3. Tale(Append(r, Delta(i, "text", k)), i, "text", Append(p, k), u, w) BY <2>3, <3>2, TaleText
    <3>4. IsSeq(<<e>>) /\ events = Opening("text") \o <<e>> BY <2>1, <2>4, OneElement
    <3>5. out \o (Opening("text") \o <<e>>) = r \o <<e>> BY <1>4, <2>1, <2>3, <3>4, ConcatTwice
    <3>6. r \o <<e>> = Append(r, e) BY <2>3, OneMore DEF Tale, Told
    <3>7. IsSeq(Opening("text") \o <<e>>) BY <2>3, <3>4, ConcatLemma
    <3> HIDE DEF events
    <3> QED BY <2>4, <3>3, <3>4, <3>5, <3>6, <3>7
  <2>6. CASE Broken(events)
    <3> HIDE DEF events
    <3> QED BY <2>5, <2>6, ClaudeBreaks
  <2>7. CASE ~Broken(events)
    <3>1. /\ Delivered(events) /\ Visited /\ Goes /\ UNCHANGED <<used, started>>
          /\ block' = "text" /\ index' = i /\ pendingSig' = SigIn("text")
      BY <1>1, <1>7, <2>1, <2>7 DEF ClaudeText
    <3>2. pendingSig' = None
      <4>1. block = "text" => pendingSig = None BY <1>4
      <4> QED BY <1>4, <3>1, <4>1 DEF SigIn
    <3>3. pendingSig' = IF Ends(h) THEN None
                        ELSE IF Signs(h) /\ block' = "thinking" THEN h.sig ELSE pendingSig
      BY <1>5, <1>7, <3>2
    <3>4. block' \in {None, "text", "thinking"} /\ (block' = "thinking" <=> ~Ends(h) /\ (Opens(h) \/ block = "thinking"))
      BY <1>5, <1>7, <3>1
    <3>5. Tale(out \o events, index', block', IF Talks(h) THEN Append(Places(Prosaic), This) ELSE Places(Prosaic),
               DOMAIN used, IF Ends(h) /\ pendingSig # None THEN Append(Written, pendingSig) ELSE Written)
      BY <1>5, <1>7, <2>1, <2>2, <2>5, <3>1
    <3> HIDE DEF events
    <3> QED BY <1>1, <1>2, <2>5, <3>1, <3>3, <3>4, <3>5, ClaudeWrites
  <2> QED BY <2>6, <2>7
<1> QED BY <1>6, <1>7

\* The end of the answer.
LEMMA ClaudeEndKept ==
    ASSUME WalkInv, Flow, Registry, ClaudeLink, protocol = "claude", ClaudeEnd
    PROVE  IF Running' THEN ClaudeLink' ELSE AnswerIsKept'
<1>1. phase = "closing" /\ todo = <<>> /\ IsSeq(given) BY DEF ClaudeEnd, WalkInv
<1>2. /\ block \in {None, "text", "thinking"} /\ IsSeq(out)
      /\ Tale(out, index, block, Places(Prosaic), DOMAIN used, Written)
      /\ Met # {} => Len(out) # 0
  BY ClaudeHolds
<1>3. PICK p, u : p = Places(Prosaic) /\ u = DOMAIN used OBVIOUS
<1>4. CASE cause # None
  <2>1. PICK e : e = [ev |-> "error"] OBVIOUS
  <2>2. e.ev = "error" /\ IsSeq(<<e>>) BY <2>1, OneElement
  <2>3. ClaudeGood(Append(out, e)) /\ Told(Append(out, e), p, u) BY <1>2, <1>3, <2>2, TaleFails
  <2>4. out \o <<e>> = Append(out, e) BY <1>2, OneMore
  <2>5. CASE Broken(<<e>>)
    <3>1. ClaudeGood(out \o <<e>>) BY <2>3, <2>4
    <3>2. AnswerIsKept' BY <1>2, <2>2, <2>5, <3>1, ClaudeBroken
    <3> QED BY <2>5, <3>2 DEF Broken, Running
  <2>6. CASE ~Broken(<<e>>)
    <3>1. out' = out \o <<e>> /\ phase' = "failed" /\ UNCHANGED <<protocol, given, calls, used>>
      BY <1>4, <2>1, <2>6 DEF ClaudeEnd, Delivered
    <3>2. ClaudeGood(out') /\ Told(out', p, u) BY <2>3, <2>4, <3>1
    <3>3. (ClaudeGood(out) /\ Told(out, p, u))'
      BY <3>2 DEF ClaudeGood, IsSeq, Once, ClaudeOrder, Before, IsLast, IsCall, IdOf, Told, Prose, Said, Ids, Tells
    <3>4. Registry' BY <3>1, RegistrySame
    <3>5. SignaturesAreKept' BY <3>1 DEF SignaturesAreKept
    <3>6. Places(Prosaic)' = p /\ DOMAIN used' = u BY <1>3, <3>1, PartsSame
    <3>7. ClaudeWell' BY <3>1, <3>3, <3>4, <3>5, <3>6 DEF ClaudeWell
    <3>8. (ClaudeWell => AnswerIsKept)' BY ClaudeWellKept, PTL
    <3> QED BY <3>1, <3>7, <3>8 DEF Running
  <2> QED BY <2>5, <2>6
<1>5. CASE cause = None
  <2>1. Met # {}
    <3>1. DOMAIN seen # {} BY <1>1, <1>5 DEF Flow, Complete
    <3> QED BY <1>1, <1>5, <3>1 DEF WalkInv, Whole
  <2>2. PICK r, w : r = out \o Closing /\ w = IF HoldsSignature THEN Append(Written, pendingSig) ELSE Written OBVIOUS
  <2>3. PICK i : i = AfterClose OBVIOUS
  <2>4. Tale(r, i, None, p, u, w) /\ IsSeq(Closing) /\ Len(r) # 0
    <3>1. PICK v : v = Written OBVIOUS
    <3>2. /\ Tale(r, i, None, p, u, IF HoldsSignature THEN Append(v, pendingSig) ELSE v)
          /\ IsSeq(Closing) /\ Len(r) # 0
      BY <1>2, <1>3, <2>1, <2>2, <2>3, <3>1, TaleClosing
    <3> QED BY <2>2, <3>1, <3>2
  <2>5. PICK e, f : e = [ev |-> "message_delta", stop |-> StopReason] /\ f = [ev |-> "message_stop"] OBVIOUS
  <2>6. e.ev = "message_delta" /\ f.ev = "message_stop" /\ IsSeq(<<e, f>>) BY <2>5, TwoElements
  <2>7. PICK t : t = Append(Append(r, e), f) OBVIOUS
  <2>8. ClaudeGood(t) /\ Told(t, p, u) /\ Sealed(t, w) BY <2>4, <2>6, <2>7, TaleEnds
  <2>9. PICK events : events = Closing \o <<e, f>> OBVIOUS
  <2>10. out \o events = t /\ IsSeq(events)
    <3>1. PICK g, x : g = <<e, f>> /\ x = Closing OBVIOUS
    <3>2. IsSeq(out) /\ IsSeq(x) /\ IsSeq(g) BY <1>2, <2>4, <2>6, <3>1
    <3>3. out \o (x \o g) = (out \o x) \o g BY <3>2, ConcatTwice
    <3>4. out \o events = r \o <<e, f>> BY <2>2, <2>9, <3>1, <3>3
    <3>5. r \o <<e, f>> = t BY <2>4, <2>7, TwoMore DEF Tale, Told
    <3>6. IsSeq(events) BY <2>4, <2>6, <2>9, ConcatLemma
    <3> QED BY <3>4, <3>5, <3>6
  <2>11. CASE Broken(events)
    <3>1. ClaudeGood(out \o events) BY <2>8, <2>10
    <3>2. AnswerIsKept' BY <1>2, <2>10, <2>11, <3>1, ClaudeBroken
    <3> QED BY <2>11, <3>2 DEF Broken, Running
  <2>12. CASE ~Broken(events)
    <3>1. out' = t /\ phase' = "done" /\ UNCHANGED <<protocol, given, calls, used>>
      BY <1>5, <2>5, <2>9, <2>10, <2>12 DEF ClaudeEnd, Delivered
    <3>2. ClaudeGood(out') /\ Told(out', p, u) /\ Sealed(out', w) BY <2>8, <3>1
    <3>3. (ClaudeGood(out) /\ Told(out, p, u) /\ Sealed(out, w))'
      BY <3>2 DEF ClaudeGood, IsSeq, Once, ClaudeOrder, Before, IsLast, IsCall, IdOf, Told, Prose, Said, Ids, Tells,
                  Sealed, Seal, Seals
    <3>4. Registry' BY <3>1, RegistrySame
    <3>5. SignaturesAreKept'
      <4>1. SignedBy(given, {l \in DOMAIN given : LastSignature(l)}) = w BY <1>1, <2>2, AllWritten
      <4>2. SignedBy(given, {l \in DOMAIN given : LastSignature(l)})' = w
        <5>1. \A l : LastSignature(l)' <=> LastSignature(l)
          BY <3>1 DEF LastSignature, SameBlock, OpensThinking, IsNewCall, CallKey
        <5> QED BY <3>1, <4>1, <5>1 DEF SignedBy
      <4>3. (Seal(out) = SignedBy(given, {l \in DOMAIN given : LastSignature(l)}))' BY <3>2, <4>2 DEF Sealed
      <4>4. \A j \in DOMAIN out' : Seals(out'[j]) => out'[j + 1].ev = "content_block_stop" BY <3>2 DEF Sealed
      <4> QED BY <4>3, <4>4 DEF SignaturesAreKept, Seal, Seals, SignedBy
    <3>6. Places(Prosaic)' = p /\ DOMAIN used' = u BY <1>3, <3>1, PartsSame
    <3>7. ClaudeWell' BY <3>1, <3>3, <3>4, <3>5, <3>6 DEF ClaudeWell
    <3>8. (ClaudeWell => AnswerIsKept)' BY ClaudeWellKept, PTL
    <3> QED BY <3>1, <3>7, <3>8 DEF Running
  <2> QED BY <2>11, <2>12
<1> QED BY <1>4, <1>5

LEMMA ClaudeStepLink ==
    ASSUME WalkInv, Flow, Registry, Registry', ClaudeLink, ClaudeStep
    PROVE  IF Running' THEN ClaudeLink' ELSE AnswerIsKept'
<1>1. protocol = "claude" /\ ClaudeNext BY DEF ClaudeStep
<1> QED BY <1>1, ClaudeWalkLink, ClaudeCandidateLink, ClaudeToolLink, ClaudeThoughtLink, ClaudeTextLink, ClaudeEndKept
        DEF ClaudeNext

LEMMA ClaudeLinkStart ==
    ASSUME ClaudeInit, given = <<>>, used = <<>>, out = <<>> PROVE ClaudeLink
<1>1. IsSeq(<<>>) /\ DOMAIN <<>> = {} /\ Len(<<>>) = 0 BY EmptyIsSeq
<1>2. Met = {} /\ Prosaic = {} /\ Closers = {} /\ Openers = {} /\ Signers = {}
  BY <1>1 DEF Met, CandidatesOf, Prosaic, Closers, Openers, Signers
<1>3. Among(<<>>, {}) = <<>>
  <2>1. IsSeq(Among(<<>>, {})) /\ Len(Among(<<>>, {})) <= 0 BY <1>1, AmongLemma
  <2> DEFINE a == Among(<<>>, {})
  <2> HIDE DEF a
  <2>2. a = <<>> BY <2>1 DEF a, IsSeq
  <2> QED BY <2>2 DEF a
<1>4. Settled(0, {}, {}, {}) = {} BY DEF Settled
<1>5. Written = <<>>
  <2>1. Written = SignedBy(<<>>, {}) BY <1>1, <1>2, <1>4 DEF Written
  <2>2. SignedBy(<<>>, {}) = [k \in DOMAIN <<>> |-> <<>>[k].sig] BY <1>3 DEF SignedBy
  <2> QED BY <1>1, <2>1, <2>2
<1>6. Places(Prosaic) = <<>> BY <1>1, <1>2, <1>3 DEF Places
<1>7. Holding(<<>>, 0, {}, {}, {}, FALSE, None) BY DEF Holding, Pondering, Due
<1>8. block = None /\ index = 0 /\ started = FALSE /\ pendingSig = None BY DEF ClaudeInit
<1>9. block # "thinking" BY <1>8, BlocksAssumption
<1> QED BY <1>1, <1>2, <1>5, <1>6, <1>7, <1>8, <1>9, TaleNone DEF ClaudeLink

-----------------------------------------------------------------------------
(* The chunks of the OpenAI protocol. *)

ChunksBefore(s, i, idx, kind) == {j \in 1..(i - 1) : s[j].ev = "chunk" /\ s[j].index = idx /\ s[j].kind = kind}

\* The candidates of places began with their role and have that many calls each.
Lined(s, places) ==
  /\ IsSeq(s)
  /\ \A i \in 1..Len(s) : /\ s[i].ev = "chunk" /\ s[i].kind # "finish" /\ s[i].index \in DOMAIN places
                          /\ OpenAIOrder(s, i)
  /\ \A idx \in DOMAIN places : ChunksBefore(s, Len(s) + 1, idx, "role") # {}
  /\ \A idx \in DOMAIN places : places[idx] = Cardinality(ChunksBefore(s, Len(s) + 1, idx, "tool_calls"))

\* OpenAIOrder told of the chunks before.
LEMMA OrderOfChunk ==
    ASSUME NEW s, NEW i, s[i].ev = "chunk"
    PROVE  OpenAIOrder(s, i) <=>
             /\ s[i].kind = "role" <=> ChunksBefore(s, i, s[i].index, "role") = {}
             /\ s[i].kind = "tool_calls" => s[i].place = Cardinality(ChunksBefore(s, i, s[i].index, "tool_calls"))
             /\ s[i].kind # "finish" => \A j \in 1..(i - 1) : s[j].kind # "finish"
             /\ s[i].kind = "finish" => ChunksBefore(s, i, s[i].index, "finish") = {}
  BY DEF OpenAIOrder, ChunksBefore

LEMMA ChunksSame ==
    ASSUME NEW s, NEW t, NEW n \in Nat, \A j \in 1..n : t[j] = s[j], NEW i \in 1..(n + 1), NEW idx, NEW kind
    PROVE  ChunksBefore(t, i, idx, kind) = ChunksBefore(s, i, idx, kind)
<1>1. \A j \in 1..(i - 1) : t[j] = s[j] OBVIOUS
<1> QED BY <1>1 DEF ChunksBefore

LEMMA OrderSame ==
    ASSUME NEW s, NEW t, NEW n \in Nat, \A j \in 1..n : t[j] = s[j], NEW i \in 1..n, s[i].ev = "chunk"
    PROVE  OpenAIOrder(t, i) <=> OpenAIOrder(s, i)
<1>1. i \in 1..(n + 1) /\ t[i] = s[i] /\ \A j \in 1..(i - 1) : t[j] = s[j] OBVIOUS
<1>2. \A kind : ChunksBefore(t, i, t[i].index, kind) = ChunksBefore(s, i, s[i].index, kind) BY <1>1, ChunksSame
<1>3. t[i].ev = "chunk" /\ t[i] = s[i] /\ \A j \in 1..(i - 1) : t[j] = s[j] BY <1>1
<1>4. OpenAIOrder(s, i) <=>
        /\ s[i].kind = "role" <=> ChunksBefore(s, i, s[i].index, "role") = {}
        /\ s[i].kind = "tool_calls" => s[i].place = Cardinality(ChunksBefore(s, i, s[i].index, "tool_calls"))
        /\ s[i].kind # "finish" => \A j \in 1..(i - 1) : s[j].kind # "finish"
        /\ s[i].kind = "finish" => ChunksBefore(s, i, s[i].index, "finish") = {}
  BY OrderOfChunk
<1>5. OpenAIOrder(t, i) <=>
        /\ t[i].kind = "role" <=> ChunksBefore(t, i, t[i].index, "role") = {}
        /\ t[i].kind = "tool_calls" => t[i].place = Cardinality(ChunksBefore(t, i, t[i].index, "tool_calls"))
        /\ t[i].kind # "finish" => \A j \in 1..(i - 1) : t[j].kind # "finish"
        /\ t[i].kind = "finish" => ChunksBefore(t, i, t[i].index, "finish") = {}
  BY <1>3, OrderOfChunk
<1> QED BY <1>2, <1>3, <1>4, <1>5

LEMMA ChunksGrown ==
    ASSUME NEW s, NEW t, NEW e, Grown(t, s, e), e.ev = "chunk", NEW idx, NEW kind
    PROVE  /\ ChunksBefore(t, Len(s) + 1, idx, kind) = ChunksBefore(s, Len(s) + 1, idx, kind)
           /\ ChunksBefore(t, Len(t) + 1, idx, kind) =
                ChunksBefore(s, Len(s) + 1, idx, kind) \cup
                  IF e.index = idx /\ e.kind = kind THEN {Len(s) + 1} ELSE {}
           /\ IsFiniteSet(ChunksBefore(s, Len(s) + 1, idx, kind))
           /\ Len(s) + 1 \notin ChunksBefore(s, Len(s) + 1, idx, kind)
<1>1. PICK n : n = Len(s) OBVIOUS
<1>2. n \in Nat /\ Len(t) = n + 1 /\ t[n + 1] = e /\ \A i \in 1..n : t[i] = s[i] BY <1>1 DEF Grown
<1>3. n + 1 \in 1..(n + 1) /\ (n + 1) - 1 = n /\ ((n + 1) + 1) - 1 = n + 1 /\ n + 1 \notin 1..n BY <1>2
<1>4. ChunksBefore(t, n + 1, idx, kind) = ChunksBefore(s, n + 1, idx, kind)
  <2>1. PICK i \in 1..(n + 1) : i = n + 1 BY <1>3
  <2>2. ChunksBefore(t, i, idx, kind) = ChunksBefore(s, i, idx, kind) BY <1>2, ChunksSame
  <2> QED BY <2>1, <2>2
<1>5. ChunksBefore(s, n + 1, idx, kind) = {j \in 1..n : s[j].ev = "chunk" /\ s[j].index = idx /\ s[j].kind = kind}
  BY <1>3 DEF ChunksBefore
<1>6. ChunksBefore(t, (n + 1) + 1, idx, kind) =
        {j \in 1..(n + 1) : t[j].ev = "chunk" /\ t[j].index = idx /\ t[j].kind = kind}
  BY <1>3 DEF ChunksBefore
<1>7. \A j : j \in 1..(n + 1) <=> j \in 1..n \/ j = n + 1 BY <1>2
<1>8. ChunksBefore(t, (n + 1) + 1, idx, kind) =
        ChunksBefore(s, n + 1, idx, kind) \cup IF e.index = idx /\ e.kind = kind THEN {n + 1} ELSE {}
  BY <1>2, <1>5, <1>6, <1>7
<1>9. IsFiniteSet(1..n) BY <1>2, FS_Interval
<1>10. IsFiniteSet(ChunksBefore(s, n + 1, idx, kind)) /\ n + 1 \notin ChunksBefore(s, n + 1, idx, kind)
  BY <1>3, <1>5, <1>9, FS_Subset
<1> QED BY <1>1, <1>2, <1>4, <1>8, <1>10

\* What a chunk does to them.
LEMMA LinedGrown ==
    ASSUME NEW s, NEW places, Lined(s, places), NEW e, e.ev = "chunk", NEW next,
           \/ /\ e.kind = "role" /\ e.index \notin DOMAIN places
              /\ DOMAIN next = DOMAIN places \cup {e.index} /\ next[e.index] = 0
              /\ \A idx \in DOMAIN places : next[idx] = places[idx]
           \/ /\ e.kind = "tool_calls" /\ e.index \in DOMAIN places /\ e.place = places[e.index]
              /\ DOMAIN next = DOMAIN places /\ next[e.index] = places[e.index] + 1
              /\ \A idx \in DOMAIN places : idx # e.index => next[idx] = places[idx]
           \/ /\ e.kind \in {"content", "reasoning_content", "reasoning_signature"} /\ e.index \in DOMAIN places
              /\ next = places
    PROVE  Lined(Append(s, e), next)
<1>1. PICK t : t = Append(s, e) /\ Grown(t, s, e) BY GrownAppend DEF Lined
<1>2. PICK n : n = Len(s) OBVIOUS
<1>3. /\ IsSeq(t) /\ n \in Nat /\ Len(t) = n + 1 /\ t[n + 1] = e /\ \A i \in 1..n : t[i] = s[i]
      /\ n + 1 \in 1..(n + 1) /\ (n + 1) - 1 = n /\ \A i \in 1..(n + 1) : i \in 1..n \/ i = n + 1
  BY <1>1, <1>2 DEF Grown
<1>4. /\ \A i \in 1..n : /\ s[i].ev = "chunk" /\ s[i].kind # "finish" /\ s[i].index \in DOMAIN places
                         /\ OpenAIOrder(s, i)
      /\ \A idx \in DOMAIN places : ChunksBefore(s, n + 1, idx, "role") # {}
      /\ \A idx \in DOMAIN places : places[idx] = Cardinality(ChunksBefore(s, n + 1, idx, "tool_calls"))
  BY <1>2 DEF Lined
<1>5. ASSUME NEW idx, NEW kind
      PROVE  /\ ChunksBefore(t, n + 1, idx, kind) = ChunksBefore(s, n + 1, idx, kind)
             /\ ChunksBefore(t, Len(t) + 1, idx, kind) =
                  ChunksBefore(s, n + 1, idx, kind) \cup
                    IF e.index = idx /\ e.kind = kind THEN {n + 1} ELSE {}
             /\ IsFiniteSet(ChunksBefore(s, n + 1, idx, kind))
             /\ n + 1 \notin ChunksBefore(s, n + 1, idx, kind)
  <2>1. Grown(t, s, e) BY <1>1
  <2> QED BY <1>2, <2>1, ChunksGrown
<1>6. \A idx, kind : idx \notin DOMAIN places => ChunksBefore(s, n + 1, idx, kind) = {}
  BY <1>3, <1>4 DEF ChunksBefore
<1>7. DOMAIN places \subseteq DOMAIN next /\ e.index \in DOMAIN next /\ e.kind # "finish" OBVIOUS
<1>8. ASSUME NEW i \in 1..n
      PROVE t[i].ev = "chunk" /\ t[i].kind # "finish" /\ t[i].index \in DOMAIN next /\ OpenAIOrder(t, i)
  <2>1. OpenAIOrder(t, i) BY <1>3, <1>4, OrderSame
  <2> QED BY <1>3, <1>4, <1>7, <2>1
<1>9. OpenAIOrder(t, n + 1)
  <2>1. e.kind = "role" <=> ChunksBefore(t, n + 1, e.index, "role") = {} BY <1>4, <1>5, <1>6
  <2>2. e.kind = "tool_calls" => e.place = Cardinality(ChunksBefore(t, n + 1, e.index, "tool_calls")) BY <1>4, <1>5
  <2>3. \A j \in 1..((n + 1) - 1) : t[j].kind # "finish" BY <1>3, <1>8
  <2> QED BY <1>3, <1>7, <2>1, <2>2, <2>3, OrderOfChunk
<1>10. \A i \in 1..Len(t) :
         t[i].ev = "chunk" /\ t[i].kind # "finish" /\ t[i].index \in DOMAIN next /\ OpenAIOrder(t, i)
  BY <1>3, <1>7, <1>8, <1>9
<1>11. \A idx \in DOMAIN next : ChunksBefore(t, Len(t) + 1, idx, "role") # {} BY <1>4, <1>5
<1>12. \A idx \in DOMAIN next : next[idx] = Cardinality(ChunksBefore(t, Len(t) + 1, idx, "tool_calls"))
  <2>0. ASSUME NEW idx, e.kind # "tool_calls"
        PROVE  ChunksBefore(t, Len(t) + 1, idx, "tool_calls") = ChunksBefore(s, n + 1, idx, "tool_calls")
    <3>1. ChunksBefore(t, Len(t) + 1, idx, "tool_calls") =
            ChunksBefore(s, n + 1, idx, "tool_calls") \cup
              IF e.index = idx /\ e.kind = "tool_calls" THEN {n + 1} ELSE {}
      BY <1>5
    <3> QED BY <2>0, <3>1
  <2>1. CASE e.kind = "role"
    <3> SUFFICES ASSUME NEW idx \in DOMAIN next
                 PROVE next[idx] = Cardinality(ChunksBefore(t, Len(t) + 1, idx, "tool_calls"))
      OBVIOUS
    <3>1. ChunksBefore(t, Len(t) + 1, idx, "tool_calls") = ChunksBefore(s, n + 1, idx, "tool_calls") BY <2>0, <2>1
    <3>2. CASE idx \in DOMAIN places BY <1>4, <2>1, <3>1, <3>2
    <3>3. CASE idx \notin DOMAIN places
      <4>1. ChunksBefore(s, n + 1, idx, "tool_calls") = {} BY <1>6, <3>3
      <4>2. next[idx] = 0 BY <2>1, <3>3
      <4> QED BY <3>1, <4>1, <4>2, FS_EmptySet
    <3> QED BY <3>2, <3>3
  <2>2. CASE e.kind = "tool_calls"
    <3> SUFFICES ASSUME NEW idx \in DOMAIN next
                 PROVE next[idx] = Cardinality(ChunksBefore(t, Len(t) + 1, idx, "tool_calls"))
      OBVIOUS
    <3>1. PICK C : C = ChunksBefore(s, n + 1, idx, "tool_calls") OBVIOUS
    <3>2. IsFiniteSet(C) /\ n + 1 \notin C /\ places[idx] = Cardinality(C) BY <1>4, <1>5, <2>2, <3>1
    <3>3. Cardinality(C \cup {n + 1}) = Cardinality(C) + 1 BY <3>2, FS_AddElement
    <3>4. ChunksBefore(t, Len(t) + 1, idx, "tool_calls") = IF e.index = idx THEN C \cup {n + 1} ELSE C
      <4>1. PICK kind : kind = "tool_calls" OBVIOUS
      <4>2. ChunksBefore(t, Len(t) + 1, idx, kind) =
              ChunksBefore(s, n + 1, idx, kind) \cup IF e.index = idx /\ e.kind = kind THEN {n + 1} ELSE {}
        BY <1>5
      <4>3. ChunksBefore(t, Len(t) + 1, idx, kind) = C \cup IF e.index = idx THEN {n + 1} ELSE {}
        BY <2>2, <3>1, <4>1, <4>2
      <4> QED BY <4>1, <4>3
    <3> QED BY <2>2, <3>2, <3>3, <3>4
  <2>3. CASE e.kind \in {"content", "reasoning_content", "reasoning_signature"}
    <3>1. e.kind # "tool_calls" /\ next = places BY <2>3
    <3> QED BY <1>4, <2>0, <3>1
  <2> QED BY <2>1, <2>2, <2>3
<1>13. Lined(t, next) BY <1>3, <1>10, <1>11, <1>12 DEF Lined
<1> QED BY <1>1, <1>13

LEMMA LinedNone == ASSUME NEW places, DOMAIN places = {} PROVE Lined(<<>>, places)
  BY EmptyIsSeq DEF Lined

OpenAIGood(s) ==
  /\ IsSeq(s) /\ Once(s)
  /\ \A i \in 1..Len(s) : OpenAIOrder(s, i) /\ (IsCall(s[i]) => s[i].ev # "output_item.done")

LEMMA OpenAIGoodBegins == ASSUME NEW s, OpenAIGood(s), NEW t, Begins(t, s) PROVE OpenAIGood(t)
<1>1. IsSeq(s) /\ Once(s) BY DEF OpenAIGood
<1>2. /\ IsSeq(t) /\ Len(t) \in Nat /\ Len(s) \in Nat /\ Len(t) <= Len(s)
      /\ \A i \in 1..Len(t) : t[i] = s[i]
      /\ Len(t) = Len(s) => t = s
  BY <1>1, BeginsFacts
<1>3. Once(t) BY <1>1, BeginsOnce
<1>4. ASSUME NEW i \in 1..Len(t) PROVE OpenAIOrder(t, i) /\ (IsCall(t[i]) => t[i].ev # "output_item.done")
  <2>1. i \in 1..Len(s) /\ t[i] = s[i] BY <1>2
  <2>2. OpenAIOrder(s, i) /\ (IsCall(s[i]) => s[i].ev # "output_item.done") BY <2>1 DEF OpenAIGood
  <2>3. CASE i = Len(s) BY <1>2, <2>2, <2>3
  <2>4. CASE i # Len(s)
    <3>1. s[i].ev = "chunk" BY <2>2, <2>4 DEF OpenAIOrder, IsLast
    <3>2. OpenAIOrder(t, i) BY <1>2, <2>2, <3>1, OrderSame
    <3> QED BY <2>1, <2>2, <3>2
  <2> QED BY <2>3, <2>4
<1> QED BY <1>2, <1>3, <1>4 DEF OpenAIGood

LEMMA LinedGood ==
    ASSUME NEW s, NEW places, Lined(s, places), Once(s) PROVE OpenAIGood(s)
  BY DEF Lined, OpenAIGood

\* Events that tell nothing.
Mute(s) == IsSeq(s) /\ \A i \in DOMAIN s : ~Tells(s[i]) /\ ~IsCall(s[i])

LEMMA ToldMute ==
    ASSUME NEW s, NEW prose, NEW ids, Told(s, prose, ids), NEW f, Mute(f)
    PROVE  Told(s \o f, prose, ids)
<1>1. PICK n : n = Len(f) OBVIOUS
<1>2. n \in Nat /\ DOMAIN f = 1..n /\ IsSeq(f) /\ IsSeq(s) BY <1>1, SeqFacts DEF Mute, Told
<1> DEFINE S == {i \in 0..n : Told(s \o SubSeq(f, 1, i), prose, ids)}
           V == ToSet(s) \cup ToSet(f)
<1>3. s \in Seq(V) /\ f \in Seq(V) BY <1>2 DEF IsSeq
<1> HIDE DEF V
<1>4. 0 \in S
  <2>1. s \o SubSeq(f, 1, 0) = s BY <1>3
  <2>2. Told(s \o SubSeq(f, 1, 0), prose, ids) BY <2>1
  <2>3. 0 \in 0..n BY <1>2
  <2> QED BY <2>2, <2>3
<1>5. ASSUME NEW k \in 0..(n - 1), k \in S PROVE k + 1 \in S
  <2>1. PICK a, e : a = s \o SubSeq(f, 1, k) /\ e = f[k + 1] OBVIOUS
  <2>2. Told(a, prose, ids) BY <1>5, <2>1
  <2>3. k + 1 \in 1..n /\ ~Tells(e) /\ ~IsCall(e) BY <1>2, <2>1 DEF Mute
  <2>4. Told(Append(a, e), prose, ids) BY <2>2, <2>3, ToldGrown
  <2>5. s \o SubSeq(f, 1, k + 1) = Append(a, e)
    <3>1. SubSeq(f, 1, k + 1) = Append(SubSeq(f, 1, k), e) BY <1>1, <1>2, <1>3, <2>1
    <3>2. PICK g : g = SubSeq(f, 1, k) OBVIOUS
    <3>3. g \in Seq(V) BY <1>1, <1>2, <1>3, <3>2
    <3>4. e \in V BY <1>1, <1>2, <1>3, <2>1, <2>3
    <3>5. s \o Append(g, e) = Append(s \o g, e) BY <1>3, <3>3, <3>4
    <3> QED BY <2>1, <3>1, <3>2, <3>5
  <2>6. Told(s \o SubSeq(f, 1, k + 1), prose, ids) BY <2>4, <2>5
  <2>7. k + 1 \in 0..n BY <1>2
  <2> QED BY <2>6, <2>7
<1> HIDE DEF S
<1>6. \A i \in 0..n : i \in S BY <1>2, <1>4, <1>5, BoundedInduction
<1>7. n \in S BY <1>2, <1>6
<1>8. SubSeq(f, 1, n) = f BY <1>1, <1>3
<1> QED BY <1>7, <1>8 DEF S

-----------------------------------------------------------------------------
(* The answer in the OpenAI protocol. *)

CallsAt == [idx \in DOMAIN states |-> states[idx].toolIndex]

IsState(x) == x = [toolIndex |-> x.toolIndex, finish |-> x.finish]

OpenAILink ==
  /\ DOMAIN states = Met /\ \A idx \in DOMAIN states : IsState(states[idx])
  /\ Lined(out, CallsAt)
  /\ Told(out, Places(Prosaic), DOMAIN used)

OpenAIWell ==
  /\ protocol = "openai" /\ Registry /\ OpenAIGood(out)
  /\ Intact => Told(out, Places(Prosaic), DOMAIN used)

LEMMA OpenAIWellKept == ASSUME OpenAIWell PROVE AnswerIsKept
<1>1. OpenAIGood(out) /\ protocol = "openai" BY DEF OpenAIWell
<1>2. DOMAIN out = 1..Len(out) BY <1>1, SeqFacts DEF OpenAIGood
<1>3. EventsAreInOrder BY <1>1, <1>2 DEF EventsAreInOrder, OpenAIGood
<1>4. \A i \in DOMAIN out : IsCall(out[i]) => (out[i].ev = "output_item.done" <=> protocol = "responses")
  BY <1>1, <1>2 DEF OpenAIGood
<1>5. Once(out) BY <1>1 DEF OpenAIGood
<1>6. Intact => Prose(out) = Places(Prosaic) /\ Ids(out) = DOMAIN used BY DEF OpenAIWell, Told
<1>7. Registry /\ SignaturesAreKept /\ protocol \in Streamed BY <1>1 DEF OpenAIWell, Streamed, SignaturesAreKept
<1>8. StreamGood BY <1>1, <1>3, <1>4, <1>5, <1>6, <1>7 DEF StreamGood
<1> QED BY <1>8, StreamKept

LEMMA OpenAILinkKept == ASSUME OpenAILink, protocol = "openai", Registry PROVE AnswerIsKept
<1>1. Once(out) BY DEF OpenAILink, Told
<1>2. OpenAIGood(out) BY <1>1, LinedGood DEF OpenAILink
<1>3. Told(out, Places(Prosaic), DOMAIN used) BY DEF OpenAILink
<1>4. OpenAIWell BY <1>2, <1>3 DEF OpenAIWell
<1> QED BY <1>4, OpenAIWellKept

LEMMA OpenAIBroken ==
    ASSUME protocol = "openai", Registry, IsSeq(out), NEW events, IsSeq(events), OpenAIGood(out \o events),
           Broken(events)
    PROVE  AnswerIsKept'
<1>1. Begins(out', out \o events) /\ phase' = "failed" /\ cause' = "write" BY BrokenBegins
<1>2. UNCHANGED <<protocol, given, calls, used>> BY DEF Broken
<1>3. OpenAIGood(out') BY <1>1, OpenAIGoodBegins
<1>4. OpenAIGood(out)' BY <1>3 DEF OpenAIGood, IsSeq, Once, OpenAIOrder, IsLast, IsCall, IdOf
<1>5. Registry' BY <1>2, RegistrySame
<1>6. OpenAIWell' BY <1>1, <1>2, <1>4, <1>5 DEF OpenAIWell, Intact
<1>7. (OpenAIWell => AnswerIsKept)' BY OpenAIWellKept, PTL
<1> QED BY <1>6, <1>7

LEMMA OpenAIBreaks ==
    ASSUME protocol = "openai", Registry, OpenAILink, NEW events, IsSeq(events), Broken(events),
           NEW places, Lined(out \o events, places), NEW prose, NEW ids, Told(out \o events, prose, ids)
    PROVE  IF Running' THEN OpenAILink' ELSE AnswerIsKept'
<1>1. OpenAIGood(out \o events) BY LinedGood DEF Told
<1>2. IsSeq(out) BY DEF OpenAILink, Told
<1>3. AnswerIsKept' BY <1>1, <1>2, OpenAIBroken
<1> QED BY <1>3 DEF Broken, Running

\* The places of the texts, when one more part is visited.
LEMMA ProseNext ==
    ASSUME Registry, IsSeq(given), NEW h, given' = Append(given, h), protocol' = protocol
    PROVE  Places(Prosaic)' = IF Talks(h) THEN Append(Places(Prosaic), This) ELSE Places(Prosaic)
<1>1. PICK n \in Nat : n = Len(given) BY SeqFacts
<1>2. Agree(Prosaic', Prosaic, n) /\ (n + 1 \in Prosaic' <=> Talks(h)) BY <1>1, PartsNext
<1>3. PICK K, J : K = Prosaic /\ J = Prosaic' OBVIOUS
<1>4. Places(J)' = IF n + 1 \in J THEN Append(Places(K), n + 1) ELSE Places(K)
  BY <1>1, <1>2, <1>3, PlacesNext
<1>5. Places(Prosaic)' = Places(J)' BY <1>3 DEF Places
<1> QED BY <1>1, <1>2, <1>3, <1>4, <1>5 DEF This

LEMMA OpenAILinkVisit ==
    ASSUME Registry, IsSeq(given), NEW h, given' = Append(given, h), protocol' = protocol, phase' = "walk",
           DOMAIN states' = Met', \A idx \in DOMAIN states' : IsState(states'[idx]), Lined(out', CallsAt'),
           Told(out', IF Talks(h) THEN Append(Places(Prosaic), This) ELSE Places(Prosaic), DOMAIN used')
    PROVE  IF Running' THEN OpenAILink' ELSE AnswerIsKept'
<1>1. Told(out', Places(Prosaic)', DOMAIN used') BY ProseNext
<1>2. Told(out, Places(Prosaic), DOMAIN used)' BY <1>1 DEF Told, Prose, Said, Tells, Ids, IdOf, IsCall, Once, IsSeq
<1>3. Lined(out, CallsAt)' OBVIOUS
<1>4. OpenAILink' BY <1>2, <1>3 DEF OpenAILink, IsState
<1> QED BY <1>4 DEF Running

LEMMA OpenAIWalkLink ==
    ASSUME WalkInv, Registry, Registry', OpenAILink, protocol = "openai", WalkNext, UNCHANGED states
    PROVE  IF Running' THEN OpenAILink' ELSE AnswerIsKept'
<1>1. /\ UNCHANGED <<protocol, out>> /\ phase' # "done"
      /\ UNCHANGED <<given, used>> \/ ToolRepeated
  BY WalkShape
<1>2. CASE UNCHANGED <<given, used>>
  <2>1. Met' = Met /\ Places(Prosaic)' = Places(Prosaic) BY <1>1, <1>2, PartsSame
  <2>2. CallsAt' = CallsAt BY DEF CallsAt
  <2>3. OpenAILink' BY <1>1, <1>2, <2>1, <2>2 DEF OpenAILink, IsState
  <2>4. (OpenAILink /\ protocol = "openai" /\ Registry => AnswerIsKept)' BY OpenAILinkKept, PTL
  <2> QED BY <1>1, <2>3, <2>4
<1>3. CASE ToolRepeated
  <2>1. PICK h : h = Head(todo) OBVIOUS
  <2>2. /\ DOMAIN used' = DOMAIN used /\ given' = Append(given, h) /\ protocol' = protocol
        /\ h.kind = "tool" /\ phase' = "walk" /\ out' = out
    BY <1>3, <2>1, RepeatedShape
  <2>3. IsSeq(given) BY DEF WalkInv
  <2>4. ~Talks(h) /\ Met' = Met BY <2>2, <2>3, MetGrows DEF Talks
  <2>5. CallsAt' = CallsAt BY DEF CallsAt
  <2>6. Told(out', IF Talks(h) THEN Append(Places(Prosaic), This) ELSE Places(Prosaic), DOMAIN used')
    BY <2>2, <2>4 DEF OpenAILink
  <2>7. DOMAIN states' = Met' /\ (\A idx \in DOMAIN states' : IsState(states'[idx])) /\ Lined(out', CallsAt')
    BY <2>2, <2>4, <2>5 DEF OpenAILink
  <2> QED BY <2>2, <2>3, <2>6, <2>7, OpenAILinkVisit
<1> QED BY <1>1, <1>2, <1>3

LEMMA OpenAICandidateLink ==
    ASSUME WalkInv, Registry, OpenAILink, protocol = "openai", OpenAICandidate
    PROVE  IF Running' THEN OpenAILink' ELSE AnswerIsKept'
<1> DEFINE new == Head(todo).index \notin DOMAIN states
           events == IF new THEN <<Chunk(Head(todo).index, "role", None)>> ELSE <<>>
           old == IF new THEN [toolIndex |-> 0, finish |-> None] ELSE states[Head(todo).index]
<1>1. PICK h : h = Head(todo) OBVIOUS
<1>2. phase = "walk" /\ todo # <<>> /\ h.kind = "candidate" BY <1>1 DEF OpenAICandidate, Visiting
<1>3. IsSeq(given) BY DEF WalkInv
<1>4. PICK s, p, u, places : s = out /\ p = Places(Prosaic) /\ u = DOMAIN used /\ places = CallsAt OBVIOUS
<1>5. Lined(s, places) /\ Told(s, p, u) /\ IsSeq(s) /\ DOMAIN places = DOMAIN states
  BY <1>4 DEF OpenAILink, Told, CallsAt
<1>6. PICK next : next = [idx \in DOMAIN places \cup {h.index} |-> IF idx \in DOMAIN places THEN places[idx] ELSE 0]
  OBVIOUS
<1>7. IsSeq(events) /\ Lined(s \o events, next) /\ Told(s \o events, p, u)
  <2>1. CASE new
    <3>1. PICK e : e = Chunk(h.index, "role", None) OBVIOUS
    <3>2. e.ev = "chunk" /\ e.kind = "role" /\ e.index = h.index BY <3>1 DEF Chunk
    <3>3. events = <<e>> BY <1>1, <2>1, <3>1
    <3>4. e.index \notin DOMAIN places BY <1>1, <1>5, <2>1, <3>2
    <3>5. /\ DOMAIN next = DOMAIN places \cup {e.index} /\ next[e.index] = 0
          /\ \A idx \in DOMAIN places : next[idx] = places[idx]
      BY <1>6, <3>2, <3>4
    <3>6. Lined(Append(s, e), next) BY <1>5, <3>2, <3>4, <3>5, LinedGrown
    <3>7. ~Tells(e) /\ ~IsCall(e) BY <3>2 DEF Tells, IsCall
    <3>8. Told(Append(s, e), p, u) BY <1>5, <3>7, ToldGrown
    <3>9. s \o <<e>> = Append(s, e) /\ IsSeq(<<e>>) BY <1>5, OneMore, OneElement
    <3> QED BY <3>3, <3>6, <3>8, <3>9
  <2>2. CASE ~new
    <3>1. events = <<>> /\ s \o <<>> = s BY <1>5, <2>2, NothingMore
    <3>2. next = places
      <4>1. DOMAIN places \cup {h.index} = DOMAIN places BY <1>1, <1>5, <2>2
      <4>2. places = [idx \in DOMAIN places |-> places[idx]] BY <1>4 DEF CallsAt
      <4>3. next = [idx \in DOMAIN places |-> IF idx \in DOMAIN places THEN places[idx] ELSE 0] BY <1>6, <4>1
      <4>4. next = [idx \in DOMAIN places |-> places[idx]] BY <4>3
      <4> QED BY <4>2, <4>4
    <3> QED BY <1>5, <3>1, <3>2, EmptyIsSeq
  <2> QED BY <2>1, <2>2
<1>8. CASE Broken(events)
  <2> HIDE DEF events
  <2> QED BY <1>4, <1>7, <1>8, OpenAIBreaks
<1>9. CASE ~Broken(events)
  <2>1. /\ given' = Append(given, h) /\ protocol' = protocol /\ phase' = "walk" /\ out' = s \o events
        /\ used' = used
        /\ states' = [i \in DOMAIN states \cup {h.index} |->
                        IF i # h.index THEN states[i]
                        ELSE [old EXCEPT !.finish = IF h.finish # None THEN h.finish ELSE @]]
    BY <1>1, <1>2, <1>4, <1>9 DEF OpenAICandidate, Visited, Goes, Delivered
  <2>2. Met' = Met \cup {h.index} BY <1>2, <1>3, <2>1, MetGrows
  <2>3. DOMAIN states' = Met' BY <2>1, <2>2 DEF OpenAILink
  <2>4. IsState(old) /\ old.toolIndex = IF h.index \in DOMAIN places THEN places[h.index] ELSE 0
    <3>1. CASE new BY <1>1, <1>5, <3>1 DEF IsState
    <3>2. CASE ~new
      <4>1. old = states[h.index] /\ h.index \in DOMAIN states BY <1>1, <3>2
      <4>2. IsState(states[h.index]) BY <4>1 DEF OpenAILink
      <4>3. places[h.index] = states[h.index].toolIndex BY <1>4, <4>1 DEF CallsAt
      <4> QED BY <1>5, <4>1, <4>2, <4>3
    <3> QED BY <3>1, <3>2
  <2> HIDE DEF old
  <2>5. PICK o : o = old OBVIOUS
  <2>6. \A idx \in DOMAIN states' : /\ IsState(states'[idx])
                                    /\ states'[idx].toolIndex = next[idx]
    <3> SUFFICES ASSUME NEW idx \in DOMAIN states'
                 PROVE IsState(states'[idx]) /\ states'[idx].toolIndex = next[idx]
      OBVIOUS
    <3>1. CASE idx = h.index
      <4>1. PICK x : states'[idx] = [o EXCEPT !.finish = x] BY <2>1, <2>5, <3>1
      <4>2. o = [toolIndex |-> o.toolIndex, finish |-> o.finish] BY <2>4, <2>5 DEF IsState
      <4>3. states'[idx] = [toolIndex |-> o.toolIndex, finish |-> x] BY <4>1, <4>2
      <4>4. IsState(states'[idx]) /\ states'[idx].toolIndex = o.toolIndex BY <4>3 DEF IsState
      <4> QED BY <1>6, <2>4, <2>5, <3>1, <4>4
    <3>2. CASE idx # h.index
      <4>1. idx \in DOMAIN states /\ states'[idx] = states[idx] BY <2>1, <3>2
      <4>2. IsState(states[idx]) /\ places[idx] = states[idx].toolIndex BY <1>4, <4>1 DEF OpenAILink, CallsAt
      <4>3. next[idx] = places[idx] BY <1>5, <1>6, <4>1
      <4> QED BY <4>1, <4>2, <4>3
    <3> QED BY <3>1, <3>2
  <2>7. CallsAt' = next
    <3>1. CallsAt' = [idx \in DOMAIN states' |-> states'[idx].toolIndex] BY DEF CallsAt
    <3>2. DOMAIN states' = DOMAIN places \cup {h.index} BY <1>5, <2>1
    <3>3. next = [idx \in DOMAIN places \cup {h.index} |-> next[idx]] BY <1>6
    <3> QED BY <2>6, <3>1, <3>2, <3>3
  <2>8. ~Talks(h) BY <1>2 DEF Talks
  <2> HIDE DEF events
  <2>9. Told(out', IF Talks(h) THEN Append(Places(Prosaic), This) ELSE Places(Prosaic), DOMAIN used')
    BY <1>4, <1>7, <2>1, <2>8
  <2>10. Lined(out', CallsAt') BY <1>7, <2>1, <2>7
  <2>11. \A idx \in DOMAIN states' : IsState(states'[idx]) BY <2>6
  <2> QED BY <1>3, <2>1, <2>3, <2>9, <2>10, <2>11, OpenAILinkVisit
<1> QED BY <1>8, <1>9

LEMMA OpenAIToolLink ==
    ASSUME WalkInv, Registry, OpenAILink, protocol = "openai", OpenAITool
    PROVE  IF Running' THEN OpenAILink' ELSE AnswerIsKept'
<1>1. PICK h : h = Head(todo) OBVIOUS
<1>2. phase = "walk" /\ todo # <<>> /\ h.kind = "tool" /\ ~Repeats(h)
  BY <1>1 DEF OpenAITool, NewTool, Visiting
<1>3. IsSeq(given) BY DEF WalkInv
<1>4. IsVisit(h) /\ h.index \in Met BY <1>1, <1>2, LedTail DEF WalkInv
<1>5. PICK s, p, u, places, id : s = out /\ p = Places(Prosaic) /\ u = DOMAIN used /\ places = CallsAt /\ id = CallId(h)
  OBVIOUS
<1>6. Lined(s, places) /\ Told(s, p, u) /\ IsSeq(s) /\ DOMAIN places = DOMAIN states /\ h.index \in DOMAIN places
  BY <1>4, <1>5 DEF OpenAILink, Told, CallsAt
<1>7. PICK e : e = [ev |-> "chunk", index |-> h.index, kind |-> "tool_calls", what |-> CallOf(h),
                    place |-> states[h.index].toolIndex]
  OBVIOUS
<1>8. /\ e.ev = "chunk" /\ e.kind = "tool_calls" /\ e.index = h.index /\ e.place = places[h.index]
      /\ e.what.id = id
  BY <1>5, <1>6, <1>7 DEF CallOf, CallsAt
<1>9. id \notin u BY <1>2, <1>4, <1>5, CallIdIsNew
<1>10. PICK next : next = [places EXCEPT ![h.index] = places[h.index] + 1] OBVIOUS
<1>11. DOMAIN next = DOMAIN places /\ next[e.index] = places[e.index] + 1
       /\ \A idx \in DOMAIN places : idx # e.index => next[idx] = places[idx]
  BY <1>6, <1>8, <1>10
<1>12. Lined(Append(s, e), next) BY <1>6, <1>8, <1>11, LinedGrown
<1>13. Told(Append(s, e), p, u \cup {id})
  <2>1. ~Tells(e) /\ IsCall(e) /\ IdOf(e) = id BY <1>8 DEF Tells, IsCall, IdOf
  <2> QED BY <1>6, <1>9, <2>1, ToldGrown
<1>14. s \o <<e>> = Append(s, e) /\ IsSeq(<<e>>) BY <1>6, OneMore, OneElement
<1>15. CASE Broken(<<e>>) BY <1>5, <1>12, <1>13, <1>14, <1>15, OpenAIBreaks
<1>16. CASE ~Broken(<<e>>)
  <2>1. /\ given' = Append(given, h) /\ protocol' = protocol /\ phase' = "walk" /\ out' = Append(s, e)
        /\ DOMAIN used' = u \cup {id}
        /\ states' = [states EXCEPT ![h.index].toolIndex = @ + 1]
    BY <1>1, <1>2, <1>5, <1>7, <1>14, <1>16 DEF OpenAITool, Visited, Goes, Delivered, Register, Remembered
  <2>2. Met' = Met BY <1>2, <1>3, <2>1, MetGrows
  <2>3. DOMAIN states' = Met' BY <2>1, <2>2 DEF OpenAILink
  <2>4. \A idx \in DOMAIN states' : /\ IsState(states'[idx])
                                    /\ states'[idx].toolIndex = next[idx]
    <3> SUFFICES ASSUME NEW idx \in DOMAIN states'
                 PROVE IsState(states'[idx]) /\ states'[idx].toolIndex = next[idx]
      OBVIOUS
    <3>1. PICK o : o = states[idx] OBVIOUS
    <3>2. idx \in DOMAIN states /\ o = [toolIndex |-> o.toolIndex, finish |-> o.finish] /\ places[idx] = o.toolIndex
      BY <1>5, <2>1, <3>1 DEF OpenAILink, IsState, CallsAt
    <3>3. CASE idx = h.index
      <4>1. states'[idx] = [o EXCEPT !.toolIndex = o.toolIndex + 1] BY <2>1, <3>1, <3>2, <3>3
      <4>2. states'[idx] = [toolIndex |-> o.toolIndex + 1, finish |-> o.finish] BY <3>2, <4>1
      <4>3. IsState(states'[idx]) /\ states'[idx].toolIndex = o.toolIndex + 1 BY <4>2 DEF IsState
      <4> QED BY <1>8, <1>11, <3>2, <3>3, <4>3
    <3>4. CASE idx # h.index
      <4>1. states'[idx] = o BY <2>1, <3>1, <3>2, <3>4
      <4>2. IsState(o) BY <3>2 DEF IsState
      <4> QED BY <1>6, <1>8, <1>11, <3>2, <3>4, <4>1, <4>2
    <3> QED BY <3>3, <3>4
  <2>5. CallsAt' = next
    <3>1. CallsAt' = [idx \in DOMAIN states' |-> states'[idx].toolIndex] BY DEF CallsAt
    <3>2. DOMAIN states' = DOMAIN places BY <1>6, <2>1
    <3>3. next = [idx \in DOMAIN places |-> next[idx]] BY <1>10
    <3> QED BY <2>4, <3>1, <3>2, <3>3
  <2>6. ~Talks(h) BY <1>2 DEF Talks
  <2>7. Told(out', IF Talks(h) THEN Append(Places(Prosaic), This) ELSE Places(Prosaic), DOMAIN used')
    BY <1>5, <1>13, <2>1, <2>6
  <2>8. Lined(out', CallsAt') BY <1>12, <2>1, <2>5
  <2>9. \A idx \in DOMAIN states' : IsState(states'[idx]) BY <2>4
  <2> QED BY <1>3, <2>1, <2>3, <2>7, <2>8, <2>9, OpenAILinkVisit
<1> QED BY <1>15, <1>16

LEMMA OpenAITextLink ==
    ASSUME WalkInv, Registry, OpenAILink, protocol = "openai", OpenAIText
    PROVE  IF Running' THEN OpenAILink' ELSE AnswerIsKept'
<1>1. PICK h : h = Head(todo) OBVIOUS
<1>2. phase = "walk" /\ todo # <<>> /\ h.kind \in {"text", "thought"} BY <1>1 DEF OpenAIText, Visiting
<1>3. IsSeq(given) BY DEF WalkInv
<1>4. IsVisit(h) /\ h.index \in Met BY <1>1, <1>2, LedTail DEF WalkInv
<1>5. PICK s, p, u, places, k : s = out /\ p = Places(Prosaic) /\ u = DOMAIN used /\ places = CallsAt /\ k = This
  OBVIOUS
<1>6. Lined(s, places) /\ Told(s, p, u) /\ IsSeq(s) /\ h.index \in DOMAIN places
  BY <1>4, <1>5 DEF OpenAILink, Told, CallsAt
<1>7. PICK a, b, c : /\ a = Chunk(h.index, IF h.kind = "thought" THEN "reasoning_content" ELSE "content", k)
                     /\ b = IF h.body THEN <<a>> ELSE <<>>
                     /\ c = Chunk(h.index, "reasoning_signature", h.sig)
  OBVIOUS
<1>8. PICK d, q : /\ d = IF h.sig # None THEN <<c>> ELSE <<>>
                  /\ q = IF Talks(h) THEN Append(p, k) ELSE p
  OBVIOUS
<1>9. PICK events : events = b \o d OBVIOUS
<1>10. Lined(s \o b, places) /\ Told(s \o b, q, u) /\ IsSeq(b)
  <2>1. CASE h.body
    <3>1. a.ev = "chunk" /\ a.kind \in {"content", "reasoning_content"} /\ a.index = h.index /\ a.what = k
      BY <1>7 DEF Chunk
    <3>2. Lined(Append(s, a), places) BY <1>6, <3>1, LinedGrown
    <3>3. Tells(a) /\ ~IsCall(a) BY <3>1 DEF Tells, IsCall
    <3>4. q = Append(p, a.what) BY <1>2, <1>8, <2>1, <3>1 DEF Talks
    <3>5. Told(Append(s, a), q, u) BY <1>6, <3>3, <3>4, ToldGrown
    <3>6. s \o <<a>> = Append(s, a) /\ IsSeq(<<a>>) /\ b = <<a>> BY <1>6, <1>7, <2>1, OneMore, OneElement
    <3> QED BY <3>2, <3>5, <3>6
  <2>2. CASE ~h.body
    <3>1. b = <<>> /\ q = p BY <1>7, <1>8, <2>2 DEF Talks
    <3>2. s \o <<>> = s BY <1>6, NothingMore
    <3> QED BY <1>6, <3>1, <3>2, EmptyIsSeq
  <2> QED BY <2>1, <2>2
<1>11. PICK r : r = s \o b OBVIOUS
<1>12. IsSeq(r) BY <1>10, <1>11 DEF Told
<1>13. Lined(r \o d, places) /\ Told(r \o d, q, u) /\ IsSeq(d)
  <2>1. CASE h.sig # None
    <3>1. c.ev = "chunk" /\ c.kind = "reasoning_signature" /\ c.index = h.index BY <1>7 DEF Chunk
    <3>2. Lined(Append(r, c), places) BY <1>6, <1>10, <1>11, <3>1, LinedGrown
    <3>3. ~Tells(c) /\ ~IsCall(c) BY <3>1 DEF Tells, IsCall
    <3>4. Told(Append(r, c), q, u) BY <1>10, <1>11, <3>3, ToldGrown
    <3>5. r \o <<c>> = Append(r, c) /\ IsSeq(<<c>>) /\ d = <<c>> BY <1>8, <1>12, <2>1, OneMore, OneElement
    <3> QED BY <3>2, <3>4, <3>5
  <2>2. CASE h.sig = None
    <3>1. d = <<>> /\ r \o <<>> = r BY <1>8, <1>12, <2>2, NothingMore
    <3> QED BY <1>10, <1>11, <3>1, EmptyIsSeq
  <2> QED BY <2>1, <2>2
<1>14. s \o events = r \o d /\ IsSeq(events) BY <1>6, <1>9, <1>10, <1>11, <1>13, ConcatTwice, ConcatLemma
<1>15. CASE Broken(events) BY <1>5, <1>13, <1>14, <1>15, OpenAIBreaks
<1>16. CASE ~Broken(events)
  <2>1. /\ given' = Append(given, h) /\ protocol' = protocol /\ phase' = "walk" /\ out' = s \o events
        /\ UNCHANGED <<used, states>>
    BY <1>1, <1>2, <1>5, <1>7, <1>8, <1>9, <1>16 DEF OpenAIText, Visited, Goes, Delivered
  <2>2. Met' = Met BY <1>2, <1>3, <2>1, MetGrows
  <2>3. DOMAIN states' = Met' /\ \A idx \in DOMAIN states' : IsState(states'[idx]) BY <2>1, <2>2 DEF OpenAILink
  <2>4. CallsAt' = places BY <1>5, <2>1 DEF CallsAt
  <2>5. Told(out', IF Talks(h) THEN Append(Places(Prosaic), This) ELSE Places(Prosaic), DOMAIN used')
    BY <1>5, <1>8, <1>13, <1>14, <2>1
  <2>6. Lined(out', CallsAt') BY <1>13, <1>14, <2>1, <2>4
  <2> QED BY <1>3, <2>1, <2>3, <2>5, <2>6, OpenAILinkVisit
<1> QED BY <1>15, <1>16

\* The finish reasons, one for each candidate, then [DONE].
LEMMA FinishesGood ==
    ASSUME NEW s, NEW places, Lined(s, places), Once(s), NEW order, IsSeq(order),
           \A k \in DOMAIN order : order[k] \in DOMAIN places,
           \A j, k \in DOMAIN order : order[j] = order[k] => j = k,
           NEW f, IsSeq(f), Len(f) = Len(order),
           \A k \in DOMAIN order : f[k].ev = "chunk" /\ f[k].kind = "finish" /\ f[k].index = order[k],
           NEW e, e.ev # "chunk", ~IsCall(e)
    PROVE  OpenAIGood(s \o (f \o <<e>>))
<1>1. PICK n, m : n = Len(s) /\ m = Len(order) OBVIOUS
<1>2. n \in Nat /\ m \in Nat /\ DOMAIN order = 1..m /\ IsSeq(s) /\ DOMAIN s = 1..n /\ DOMAIN f = 1..m
  BY <1>1, SeqFacts DEF Lined
<1>3. PICK g : g = f \o <<e>> OBVIOUS
<1>4. IsSeq(g) /\ Len(g) = m + 1 /\ (\A k \in 1..m : g[k] = f[k]) /\ g[m + 1] = e
  <2>1. IsSeq(<<e>>) /\ Len(<<e>>) = 1 /\ <<e>>[1] = e BY OneElement
  <2> QED BY <1>1, <1>2, <1>3, <2>1, ConcatLemma
<1>5. PICK t : t = s \o g OBVIOUS
<1>6. /\ IsSeq(t) /\ Len(t) = n + (m + 1) /\ \A i \in 1..n : t[i] = s[i]
      /\ \A k \in 1..(m + 1) : t[n + k] = g[k]
  <2>1. IsSeq(s) /\ IsSeq(g) BY <1>2, <1>4
  <2>2. /\ IsSeq(s \o g) /\ Len(s \o g) = Len(s) + Len(g)
        /\ \A i \in 1..Len(s) : (s \o g)[i] = s[i]
        /\ \A i \in 1..Len(g) : (s \o g)[Len(s) + i] = g[i]
    BY <2>1, ConcatLemma
  <2> QED BY <1>1, <1>4, <1>5, <2>2
<1>7. \A k \in 1..m : t[n + k] = f[k] BY <1>2, <1>4, <1>6
<1>8. t[n + (m + 1)] = e BY <1>2, <1>4, <1>6
<1>9. \A i \in 1..n : s[i].ev = "chunk" /\ s[i].kind # "finish" /\ OpenAIOrder(s, i) BY <1>1 DEF Lined
<1>10. ASSUME NEW i \in 1..n PROVE OpenAIOrder(t, i) BY <1>2, <1>6, <1>9, OrderSame
<1>11. ASSUME NEW k \in 1..m PROVE OpenAIOrder(t, n + k)
  <2>1. PICK x : x = t[n + k] OBVIOUS
  <2>2. x.ev = "chunk" /\ x.kind = "finish" /\ x.index = order[k]
    <3>1. x = f[k] BY <1>7, <2>1
    <3>2. k \in DOMAIN order BY <1>2
    <3> QED BY <3>1, <3>2
  <2>3. ChunksBefore(t, n + k, x.index, "role") # {}
    <3>1. ChunksBefore(s, n + 1, x.index, "role") # {} BY <1>1, <1>2, <2>2 DEF Lined
    <3>2. PICK j \in 1..n : s[j].ev = "chunk" /\ s[j].index = x.index /\ s[j].kind = "role"
      BY <1>2, <3>1 DEF ChunksBefore
    <3>3. j \in 1..((n + k) - 1) /\ t[j] = s[j] BY <1>2, <1>6
    <3> QED BY <3>2, <3>3 DEF ChunksBefore
  <2>4. ChunksBefore(t, n + k, x.index, "finish") = {}
    <3> SUFFICES ASSUME NEW j \in 1..((n + k) - 1), t[j].kind = "finish", t[j].index = x.index PROVE FALSE
      BY DEF ChunksBefore
    <3>1. CASE j \in 1..n BY <1>6, <1>9, <3>1
    <3>2. CASE j \notin 1..n
      <4>1. PICK l : l = j - n OBVIOUS
      <4>2. l \in 1..m /\ j = n + l /\ l # k BY <1>2, <3>2, <4>1
      <4>3. t[n + l].index = order[l] BY <1>2, <1>7, <4>2
      <4> QED BY <1>2, <2>2, <4>2, <4>3
    <3> QED BY <3>1, <3>2
  <2>5. t[n + k].ev = "chunk" /\ t[n + k].kind = "finish" /\ t[n + k].index = x.index BY <2>1, <2>2
  <2>6. PICK i : i = n + k OBVIOUS
  <2>7. OpenAIOrder(t, i) BY <2>3, <2>4, <2>5, <2>6, OrderOfChunk
  <2> QED BY <2>6, <2>7
<1>12. OpenAIOrder(t, n + (m + 1)) BY <1>6, <1>8 DEF OpenAIOrder, IsLast
<1>13. ASSUME NEW i \in 1..Len(t)
       PROVE  i \in 1..n \/ i = n + (m + 1) \/ \E k \in 1..m : i = n + k
  <2>1. CASE i \notin 1..n /\ i # n + (m + 1)
    <3>1. i - n \in 1..m /\ i = n + (i - n) BY <1>2, <1>6, <2>1
    <3> QED BY <3>1
  <2> QED BY <2>1
<1>14. \A i \in 1..Len(t) : OpenAIOrder(t, i) BY <1>10, <1>11, <1>12, <1>13
<1>15. ASSUME NEW i \in 1..Len(t), IsCall(t[i]) PROVE i \in 1..n
  <2>1. ASSUME NEW k \in 1..m PROVE ~IsCall(t[n + k])
    <3>1. PICK x : x = f[k] OBVIOUS
    <3>2. k \in DOMAIN order BY <1>2
    <3>3. x.ev = "chunk" /\ x.kind = "finish" BY <3>1, <3>2
    <3>4. ~IsCall(x) BY <3>3 DEF IsCall
    <3>5. t[n + k] = x BY <1>7, <3>1
    <3> QED BY <3>4, <3>5
  <2>2. ~IsCall(t[n + (m + 1)]) BY <1>8
  <2> QED BY <1>13, <1>15, <2>1, <2>2
<1>16. DOMAIN t = 1..Len(t) BY <1>6, SeqFacts
<1>17. Once(t)
  <2> SUFFICES ASSUME NEW i \in 1..Len(t), NEW j \in 1..Len(t), IsCall(t[i]), IsCall(t[j]), IdOf(t[i]) = IdOf(t[j])
               PROVE  i = j
    BY <1>16 DEF Once
  <2>1. i \in 1..n /\ j \in 1..n BY <1>15
  <2> QED BY <1>2, <1>6, <2>1 DEF Once
<1>18. \A i \in 1..Len(t) : IsCall(t[i]) => t[i].ev # "output_item.done" BY <1>6, <1>9, <1>15
<1>19. OpenAIGood(t) BY <1>6, <1>14, <1>17, <1>18 DEF OpenAIGood
<1> QED BY <1>3, <1>5, <1>19

LEMMA OpenAIEndKept ==
    ASSUME WalkInv, Registry, OpenAILink, protocol = "openai", IsFiniteSet(DOMAIN states), OpenAIEnd
    PROVE  IF Running' THEN OpenAILink' ELSE AnswerIsKept'
<1>1. PICK s, p, u, places, order : /\ s = out /\ p = Places(Prosaic) /\ u = DOMAIN used /\ places = CallsAt
                                    /\ order = Ascending(DOMAIN states)
  OBVIOUS
<1>2. Lined(s, places) /\ Told(s, p, u) /\ IsSeq(s) /\ Once(s) /\ DOMAIN places = DOMAIN states
  BY <1>1 DEF OpenAILink, Told, CallsAt
<1>3. /\ IsSeq(order) /\ \A k \in DOMAIN order : order[k] \in DOMAIN places
      /\ \A j, k \in DOMAIN order : order[j] = order[k] => j = k
  <2>1. DOMAIN states \in SUBSET Nat BY DEF OpenAILink, WalkInv
  <2> QED BY <1>1, <1>2, <2>1, AscendingLemma
<1> DEFINE finishes == [k \in DOMAIN order |->
                          Chunk(order[k], "finish",
                                FinishReason(states[order[k]].finish, states[order[k]].toolIndex > 0))]
           events == IF cause # None THEN <<[ev |-> "error"]>> ELSE finishes \o <<[ev |-> "[DONE]"]>>
<1>4. OpenAIGood(s \o events) /\ Told(s \o events, p, u) /\ IsSeq(events)
  <2>1. CASE cause # None
    <3>1. PICK e, f : e = [ev |-> "error"] /\ f = <<>> OBVIOUS
    <3>2. e.ev = "error" /\ events = <<e>> BY <2>1, <3>1
    <3>3. ~IsCall(e) /\ ~Tells(e) BY <3>2 DEF IsCall, Tells
    <3>4. IsSeq(f) /\ Len(f) = 0 /\ DOMAIN f = {} /\ IsSeq(<<e>>) BY <3>1, EmptyIsSeq, OneElement
    <3>5. \A k \in DOMAIN f : /\ f[k] \in DOMAIN places
                              /\ f[k].ev = "chunk" /\ f[k].kind = "finish" /\ f[k].index = f[k]
      BY <3>4
    <3>6. \A j, k \in DOMAIN f : f[j] = f[k] => j = k BY <3>4
    <3>7. OpenAIGood(s \o (f \o <<e>>)) BY <1>2, <3>2, <3>3, <3>4, <3>5, <3>6, FinishesGood
    <3>8. f \o <<e>> = <<e>> BY <3>1, <3>4, NothingMore
    <3>9. Told(Append(s, e), p, u) BY <1>2, <3>3, ToldGrown
    <3>10. s \o <<e>> = Append(s, e) BY <1>2, OneMore
    <3> QED BY <3>2, <3>4, <3>7, <3>8, <3>9, <3>10
  <2>2. CASE cause = None
    <3>1. PICK e, f : e = [ev |-> "[DONE]"] /\ f = finishes OBVIOUS
    <3>2. e.ev = "[DONE]" /\ events = f \o <<e>> BY <2>2, <3>1
    <3>3. ~IsCall(e) /\ ~Tells(e) BY <3>2 DEF IsCall, Tells
    <3>4. \A k \in DOMAIN order : f[k].ev = "chunk" /\ f[k].kind = "finish" /\ f[k].index = order[k]
      BY <3>1 DEF Chunk
    <3>5. f = [k \in DOMAIN order |-> f[k]] BY <3>1
    <3> HIDE DEF events, finishes
    <3>6. IsSeq(f) /\ Len(f) = Len(order) /\ DOMAIN f = DOMAIN order BY <1>3, <3>5, MapSeq
    <3>7. OpenAIGood(s \o (f \o <<e>>)) BY <1>2, <1>3, <3>2, <3>3, <3>4, <3>6, FinishesGood
    <3>8. Mute(f) BY <3>4, <3>6 DEF Mute, Tells, IsCall
    <3>9. IsSeq(<<e>>) BY OneElement
    <3>10. Told(s \o f, p, u) BY <1>2, <3>8, ToldMute
    <3>11. PICK r : r = s \o f OBVIOUS
    <3>12. Told(Append(r, e), p, u) BY <3>3, <3>10, <3>11, ToldGrown
    <3>13. r \o <<e>> = Append(r, e) BY <3>10, <3>11, OneMore DEF Told
    <3>14. s \o (f \o <<e>>) = r \o <<e>> BY <1>2, <3>6, <3>9, <3>11, ConcatTwice
    <3>15. IsSeq(f \o <<e>>) BY <3>6, <3>9, ConcatLemma
    <3> QED BY <3>2, <3>7, <3>12, <3>13, <3>14, <3>15
  <2> QED BY <2>1, <2>2
<1>5. CASE Broken(events)
  <2> HIDE DEF events
  <2>1. AnswerIsKept' BY <1>1, <1>2, <1>4, <1>5, OpenAIBroken
  <2> QED BY <1>5, <2>1 DEF Broken, Running
<1>6. CASE ~Broken(events)
  <2>1. out' = s \o events /\ phase' \in {"done", "failed"} /\ UNCHANGED <<protocol, given, calls, used>>
    BY <1>1, <1>6 DEF OpenAIEnd, Delivered
  <2> HIDE DEF events
  <2>2. OpenAIGood(out') /\ Told(out', p, u) BY <1>4, <2>1
  <2>3. (OpenAIGood(out) /\ Told(out, p, u))'
    BY <2>2 DEF OpenAIGood, IsSeq, Once, OpenAIOrder, IsLast, IsCall, IdOf, Told, Prose, Said, Ids, Tells
  <2>4. Registry' BY <2>1, RegistrySame
  <2>5. Places(Prosaic)' = p /\ DOMAIN used' = u BY <1>1, <2>1, PartsSame
  <2>6. OpenAIWell' BY <2>1, <2>3, <2>4, <2>5 DEF OpenAIWell
  <2>7. (OpenAIWell => AnswerIsKept)' BY OpenAIWellKept, PTL
  <2> QED BY <2>1, <2>6, <2>7 DEF Running
<1> QED BY <1>5, <1>6

LEMMA OpenAIStepLink ==
    ASSUME WalkInv, Registry, Registry', OpenAILink, IsFiniteSet(DOMAIN states), OpenAIStep
    PROVE  IF Running' THEN OpenAILink' ELSE AnswerIsKept'
<1>1. protocol = "openai" /\ OpenAINext BY DEF OpenAIStep
<1> QED BY <1>1, OpenAIWalkLink, OpenAICandidateLink, OpenAIToolLink, OpenAITextLink, OpenAIEndKept DEF OpenAINext

\* Nothing was visited and nothing told.
LEMMA NothingPlaced == ASSUME given = <<>> PROVE Met = {} /\ Places(Prosaic) = <<>>
<1>1. IsSeq(<<>>) /\ DOMAIN <<>> = {} /\ Len(<<>>) = 0 BY EmptyIsSeq
<1>2. Met = {} /\ Prosaic = {} BY <1>1 DEF Met, CandidatesOf, Prosaic
<1>3. Among(<<>>, {}) = <<>>
  <2>1. IsSeq(Among(<<>>, {})) /\ Len(Among(<<>>, {})) <= 0 BY <1>1, AmongLemma
  <2> DEFINE a == Among(<<>>, {})
  <2> HIDE DEF a
  <2>2. a = <<>> BY <2>1 DEF a, IsSeq
  <2> QED BY <2>2 DEF a
<1> QED BY <1>1, <1>2, <1>3 DEF Places

LEMMA OpenAILinkStart ==
    ASSUME OpenAIInit, given = <<>>, used = <<>>, out = <<>> PROVE OpenAILink
<1>1. DOMAIN <<>> = {} BY EmptyIsSeq
<1>2. Met = {} /\ Places(Prosaic) = <<>> BY NothingPlaced
<1>3. DOMAIN states = {} /\ DOMAIN CallsAt = {} BY <1>1 DEF OpenAIInit, CallsAt
<1>4. Lined(<<>>, CallsAt) BY <1>3, LinedNone
<1>5. Told(<<>>, <<>>, {}) BY NothingTold
<1> QED BY <1>1, <1>2, <1>3, <1>4, <1>5 DEF OpenAILink

-----------------------------------------------------------------------------
(* The events of the Responses protocol. *)

Inner(e) == e.ev \in {"response.created", "response.in_progress", "output_item.added", "content_part.added",
                      "delta", "done", "content_part.done", "output_item.done"}

\* The items that are done are those, and one more may be open.
Listed(s, dones, open) ==
  /\ IsSeq(s) /\ 2 <= Len(s) /\ IsSeq(dones) /\ Done(s) = dones
  /\ \A i \in 1..Len(s) : Inner(s[i]) /\ ResponsesOrder(s, i) /\ (s[i].ev = "output_item.done" => i > 2)
  /\ Count(s, "output_item.done") = Len(dones)
  /\ Count(s, "output_item.added") = IF open THEN Len(dones) + 1 ELSE Len(dones)

LEMMA DoneGrown ==
    ASSUME NEW s, NEW t, NEW e, Grown(t, s, e)
    PROVE  Done(t) = IF e.ev = "output_item.done" THEN Append(Done(s), e.item) ELSE Done(s)
<1> DEFINE K == {j \in DOMAIN s : s[j].ev = "output_item.done"}
           J == {j \in DOMAIN t : t[j].ev = "output_item.done"}
           a == Among(s, K)
           b == Among(t, J)
           m == [k \in DOMAIN a |-> a[k].item]
           q == [k \in DOMAIN b |-> b[k].item]
<1>1. /\ IsSeq(s) /\ t = Append(s, e) /\ DOMAIN s = 1..Len(s) /\ DOMAIN t = 1..(Len(s) + 1) /\ Len(s) \in Nat
      /\ t[Len(s) + 1] = e /\ \A i \in 1..Len(s) : t[i] = s[i]
  BY DEF Grown
<1>2. \A i \in 1..Len(s) : i \in K <=> i \in J BY <1>1
<1>3. Len(s) + 1 \in J <=> e.ev = "output_item.done" BY <1>1
<1>4. Done(s) = m /\ Done(t) = q BY DEF Done
<1>5. TellsOf(m, a) /\ TellsOf(q, b) BY DEF TellsOf
<1>6. (\A k \in DOMAIN a : m[k] = a[k].item) /\ \A k \in DOMAIN b : q[k] = b[k].item OBVIOUS
<1> HIDE DEF m, q, K, J
<1>7. b = IF Len(s) + 1 \in J THEN Append(a, e) ELSE a
  <2>1. Among(Append(s, e), J) = IF Len(s) + 1 \in J THEN Append(Among(s, K), e) ELSE Among(s, K)
    BY <1>1, <1>2, AmongAppend
  <2> QED BY <1>1, <2>1
<1>8. IsSeq(a) BY <1>1, AmongLemma
<1> HIDE DEF a, b
<1>9. CASE Len(s) + 1 \notin J
  <2>1. b = a BY <1>7, <1>9
  <2>2. \A k \in DOMAIN a : q[k] = m[k] BY <1>6, <2>1
  <2>3. q = m BY <1>5, <2>1, <2>2 DEF TellsOf
  <2> QED BY <1>3, <1>4, <1>9, <2>3
<1>10. CASE Len(s) + 1 \in J
  <2>1. b = Append(a, e) BY <1>7, <1>10
  <2>2. /\ IsSeq(b) /\ Len(b) = Len(a) + 1 /\ b[Len(a) + 1] = e /\ \A k \in DOMAIN a : b[k] = a[k]
        /\ DOMAIN a = 1..Len(a) /\ Len(a) \in Nat /\ DOMAIN b = 1..(Len(a) + 1)
    BY <1>8, <2>1, AppendItem, SeqFacts
  <2>3. \A k \in DOMAIN a : q[k] = m[k] BY <1>6, <2>2
  <2>4. q[Len(a) + 1] = e.item BY <1>6, <2>2
  <2>5. q = Append(m, q[Len(a) + 1]) BY <1>5, <1>8, <2>2, <2>3, MapAppend
  <2> QED BY <1>3, <1>4, <1>10, <2>4, <2>5
<1> QED BY <1>9, <1>10

LEMMA NothingDone == Done(<<>>) = <<>>
<1>1. IsSeq(<<>>) /\ DOMAIN <<>> = {} /\ Len(<<>>) = 0 BY EmptyIsSeq
<1>2. PICK K : K = {j \in DOMAIN <<>> : <<>>[j].ev = "output_item.done"} OBVIOUS
<1>3. PICK a : a = Among(<<>>, K) OBVIOUS
<1>4. IsSeq(a) /\ Len(a) <= 0 BY <1>1, <1>3, AmongLemma
<1>5. a = <<>> BY <1>4 DEF IsSeq
<1>6. Done(<<>>) = [k \in DOMAIN a |-> a[k].item] BY <1>2, <1>3 DEF Done
<1> QED BY <1>1, <1>5, <1>6

LEMMA ResponsesOrderKept ==
    ASSUME NEW s, NEW t, NEW n \in Nat, \A i \in 1..n : t[i] = s[i],
           \A ev : \A i \in 1..n : Before(t, i, ev) = Before(s, i, ev),
           NEW i \in 1..n, Inner(s[i]), ResponsesOrder(s, i), s[i].ev = "output_item.done" => i > 2
    PROVE  ResponsesOrder(t, i)
<1>1. t[i] = s[i] /\ \A ev : Before(t, i, ev) = Before(s, i, ev) OBVIOUS
<1>2. CASE s[i].ev = "output_item.done"
  <2>1. i - 1 \in 1..n /\ i - 2 \in 1..n BY <1>2
  <2>2. t[i - 1] = s[i - 1] /\ t[i - 2] = s[i - 2] BY <2>1
  <2> QED BY <1>1, <1>2, <2>2 DEF ResponsesOrder
<1>3. CASE s[i].ev # "output_item.done" BY <1>1, <1>3 DEF ResponsesOrder, Inner
<1> QED BY <1>2, <1>3

\* What an event does to the items.
LEMMA ListedGrown ==
    ASSUME NEW s, NEW dones, NEW open, Listed(s, dones, open), NEW e, e.index = Len(dones) + 1, NEW next, NEW opens,
           \/ e.ev = "output_item.added" /\ ~open /\ opens /\ next = dones
           \/ /\ e.ev \in {"content_part.added", "delta", "done", "content_part.done"}
              /\ open /\ opens /\ next = dones
           \/ /\ e.ev = "output_item.done" /\ open /\ ~opens /\ next = Append(dones, e.item)
              /\ e.item.type # "function_call" => e.item.text = s[Len(s)].what /\ e.item.text = s[Len(s) - 1].what
    PROVE  Listed(Append(s, e), next, opens)
<1>1. PICK t : t = Append(s, e) /\ Grown(t, s, e) BY GrownAppend DEF Listed
<1>2. PICK n : n = Len(s) OBVIOUS
<1>3. /\ IsSeq(t) /\ n \in Nat /\ 2 <= n /\ Len(t) = n + 1 /\ t[n + 1] = e /\ \A i \in 1..n : t[i] = s[i]
      /\ n \in 1..n /\ n - 1 \in 1..n /\ (n + 1) - 1 = n /\ (n + 1) - 2 = n - 1
      /\ \A i \in 1..(n + 1) : i \in 1..n \/ i = n + 1
  BY <1>1, <1>2 DEF Grown, Listed
<1>4. /\ \A i \in 1..n : Inner(s[i]) /\ ResponsesOrder(s, i) /\ (s[i].ev = "output_item.done" => i > 2)
      /\ IsSeq(dones) /\ Done(s) = dones /\ Count(s, "output_item.done") = Len(dones)
      /\ Count(s, "output_item.added") = IF open THEN Len(dones) + 1 ELSE Len(dones)
  BY <1>2 DEF Listed
<1>5. /\ \A ev : \A i \in 1..n : Before(t, i, ev) = Before(s, i, ev)
      /\ \A ev : Before(t, n + 1, ev) = Count(s, ev)
      /\ \A ev : Count(t, ev) = Count(s, ev) + IF e.ev = ev THEN 1 ELSE 0
  <2>1. \A ev : /\ Count(t, ev) = Count(s, ev) + IF e.ev = ev THEN 1 ELSE 0
                /\ \A i \in 1..(Len(s) + 1) : Before(t, i, ev) = Before(s, i, ev)
                /\ Before(t, Len(s) + 1, ev) = Count(s, ev)
    BY <1>1, CountGrown
  <2> QED BY <1>2, <1>3, <2>1
<1>6. Len(dones) \in Nat BY <1>4, SeqFacts
<1>7. ASSUME NEW i \in 1..n
      PROVE  Inner(t[i]) /\ ResponsesOrder(t, i) /\ (t[i].ev = "output_item.done" => i > 2)
  <2>1. ResponsesOrder(t, i) BY <1>3, <1>4, <1>5, ResponsesOrderKept
  <2> QED BY <1>3, <1>4, <2>1
<1>8. Inner(e) BY DEF Inner
<1>9. ResponsesOrder(t, n + 1)
  <2>1. CASE e.ev = "output_item.added" BY <1>3, <1>4, <1>5, <2>1 DEF ResponsesOrder
  <2>2. CASE e.ev \in {"content_part.added", "delta", "done", "content_part.done"}
    BY <1>3, <1>4, <1>5, <2>2 DEF ResponsesOrder
  <2>3. CASE e.ev = "output_item.done"
    <3>1. t[n] = s[n] /\ t[n - 1] = s[n - 1] BY <1>3
    <3> QED BY <1>2, <1>3, <1>4, <1>5, <2>3, <3>1 DEF ResponsesOrder
  <2> QED BY <2>1, <2>2, <2>3
<1>10. \A i \in 1..Len(t) : Inner(t[i]) /\ ResponsesOrder(t, i) /\ (t[i].ev = "output_item.done" => i > 2)
  BY <1>3, <1>7, <1>8, <1>9
<1>11. Done(t) = next
  <2>1. Done(t) = IF e.ev = "output_item.done" THEN Append(Done(s), e.item) ELSE Done(s) BY <1>1, DoneGrown
  <2> QED BY <1>4, <2>1
<1>12. IsSeq(next) /\ Len(next) = IF e.ev = "output_item.done" THEN Len(dones) + 1 ELSE Len(dones)
  <2>1. CASE e.ev = "output_item.done"
    <3>1. PICK y : y = e.item OBVIOUS
    <3>2. next = Append(dones, y) BY <2>1, <3>1
    <3>3. IsSeq(Append(dones, y)) /\ Len(Append(dones, y)) = Len(dones) + 1 BY <1>4, AppendItem
    <3> QED BY <2>1, <3>2, <3>3
  <2>2. CASE e.ev # "output_item.done" BY <1>4, <2>2
  <2> QED BY <2>1, <2>2
<1>13. /\ Count(t, "output_item.done") = Len(next)
       /\ Count(t, "output_item.added") = IF opens THEN Len(next) + 1 ELSE Len(next)
  BY <1>4, <1>5, <1>6, <1>12
<1>14. Listed(t, next, opens) BY <1>3, <1>10, <1>11, <1>12, <1>13 DEF Listed
<1> QED BY <1>1, <1>14

ResponsesGood(s) ==
  /\ IsSeq(s) /\ Once(s)
  /\ \A i \in 1..Len(s) : /\ ResponsesOrder(s, i) /\ (IsCall(s[i]) => s[i].ev = "output_item.done")
                          /\ s[i].ev = "output_item.done" => i > 2

LEMMA ResponsesGoodBegins == ASSUME NEW s, ResponsesGood(s), NEW t, Begins(t, s) PROVE ResponsesGood(t)
<1>1. IsSeq(s) /\ Once(s) BY DEF ResponsesGood
<1>2. /\ IsSeq(t) /\ Len(t) \in Nat /\ Len(s) \in Nat /\ Len(t) <= Len(s)
      /\ \A i \in 1..Len(t) : t[i] = s[i]
      /\ Len(t) = Len(s) => t = s
  BY <1>1, BeginsFacts
<1>3. Once(t) BY <1>1, BeginsOnce
<1>4. ASSUME NEW i \in 1..Len(t)
      PROVE  /\ ResponsesOrder(t, i) /\ (IsCall(t[i]) => t[i].ev = "output_item.done")
             /\ t[i].ev = "output_item.done" => i > 2
  <2>1. i \in 1..Len(s) /\ t[i] = s[i] BY <1>2
  <2>2. /\ ResponsesOrder(s, i) /\ (IsCall(s[i]) => s[i].ev = "output_item.done")
        /\ s[i].ev = "output_item.done" => i > 2
    BY <2>1 DEF ResponsesGood
  <2>3. CASE i = Len(s)
    <3>1. t = s BY <1>2, <2>3
    <3> QED BY <2>2, <3>1
  <2>4. CASE i # Len(s)
    <3>1. \A ev : \A j \in 1..Len(t) : Before(t, j, ev) = Before(s, j, ev) BY <1>1, BeginsBefore
    <3>2. Inner(s[i]) BY <2>2, <2>4 DEF ResponsesOrder, IsLast, Inner
    <3>3. PICK n \in Nat : n = Len(t) BY <1>2
    <3>4. ResponsesOrder(t, i) BY <1>2, <2>2, <3>1, <3>2, <3>3, ResponsesOrderKept
    <3> QED BY <2>1, <2>2, <3>4
  <2> QED BY <2>3, <2>4
<1> QED BY <1>2, <1>3, <1>4 DEF ResponsesGood

LEMMA ListedGood ==
    ASSUME NEW s, NEW dones, NEW open, Listed(s, dones, open), Once(s) PROVE ResponsesGood(s)
<1>1. \A i \in 1..Len(s) : Inner(s[i]) /\ ResponsesOrder(s, i) /\ (s[i].ev = "output_item.done" => i > 2)
  BY DEF Listed
<1>2. \A e : Inner(e) /\ IsCall(e) => e.ev = "output_item.done" BY DEF Inner, IsCall
<1> QED BY <1>1, <1>2 DEF ResponsesGood, Listed

\* The terminal event repeats the items that were done.
LEMMA ListedEnds ==
    ASSUME NEW s, NEW e, Listed(s, e.output, FALSE), NEW prose, NEW ids, Told(s, prose, ids),
           e.ev \in {"response.completed", "response.incomplete"}
    PROVE  ResponsesGood(Append(s, e)) /\ Told(Append(s, e), prose, ids)
<1> DEFINE dones == e.output
<1>1. PICK t : t = Append(s, e) /\ Grown(t, s, e) BY GrownAppend DEF Listed
<1>2. ~IsCall(e) /\ ~Tells(e) BY DEF IsCall, Tells
<1>3. Told(t, prose, ids) BY <1>1, <1>2, ToldGrown
<1>4. PICK n : n = Len(s) OBVIOUS
<1>5. /\ IsSeq(t) /\ n \in Nat /\ Len(t) = n + 1 /\ t[n + 1] = e /\ \A i \in 1..n : t[i] = s[i]
      /\ \A i \in 1..(n + 1) : i \in 1..n \/ i = n + 1
  BY <1>1, <1>4 DEF Grown
<1>6. /\ \A i \in 1..n : Inner(s[i]) /\ ResponsesOrder(s, i) /\ (s[i].ev = "output_item.done" => i > 2)
      /\ Done(s) = dones /\ Count(s, "output_item.done") = Len(dones) /\ Count(s, "output_item.added") = Len(dones)
  BY <1>4 DEF Listed
<1>7. /\ \A ev : \A i \in 1..n : Before(t, i, ev) = Before(s, i, ev)
      /\ \A ev : Before(t, n + 1, ev) = Count(s, ev)
  <2>1. \A ev : /\ \A i \in 1..(Len(s) + 1) : Before(t, i, ev) = Before(s, i, ev)
                /\ Before(t, Len(s) + 1, ev) = Count(s, ev)
    <3>1. Grown(t, s, e) BY <1>1
    <3> HIDE DEF dones
    <3> QED BY <3>1, CountGrown
  <2> QED BY <1>4, <1>5, <2>1
<1>8. \A i \in 1..n : ResponsesOrder(t, i) BY <1>5, <1>6, <1>7, ResponsesOrderKept
<1>9. Done(t) = dones
  <2>1. Done(t) = IF e.ev = "output_item.done" THEN Append(Done(s), e.item) ELSE Done(s) BY <1>1, DoneGrown
  <2> QED BY <1>6, <2>1
<1>10. ResponsesOrder(t, n + 1) BY <1>5, <1>6, <1>7, <1>9 DEF ResponsesOrder, IsLast
<1>11. \A x : Inner(x) /\ IsCall(x) => x.ev = "output_item.done" BY DEF Inner, IsCall
<1>12. \A i \in 1..Len(t) : /\ ResponsesOrder(t, i) /\ (IsCall(t[i]) => t[i].ev = "output_item.done")
                            /\ t[i].ev = "output_item.done" => i > 2
  BY <1>2, <1>5, <1>6, <1>8, <1>10, <1>11
<1>13. ResponsesGood(t) BY <1>3, <1>5, <1>12 DEF ResponsesGood, Told
<1> QED BY <1>1, <1>3, <1>13

TextsIn(items) == [k \in DOMAIN items |-> items[k].text]

LEMMA TextsAppend ==
    ASSUME NEW items, IsSeq(items), AreLists(TextsIn(items)), NEW y, IsSeq(y.text)
    PROVE  /\ AreLists(TextsIn(Append(items, y)))
           /\ FlattenSeq(TextsIn(Append(items, y))) = FlattenSeq(TextsIn(items)) \o y.text
<1>1. PICK n, next, ss, tt, x : /\ n = Len(items) /\ next = Append(items, y) /\ ss = TextsIn(items)
                                /\ tt = TextsIn(next) /\ x = y.text
  OBVIOUS
<1>2. n \in Nat /\ DOMAIN items = 1..n BY <1>1, SeqFacts
<1>3. IsSeq(next) /\ Len(next) = n + 1 /\ next[n + 1] = y /\ \A k \in 1..n : next[k] = items[k]
  <2>1. /\ IsSeq(Append(items, y)) /\ Len(Append(items, y)) = Len(items) + 1
        /\ \A k \in DOMAIN items : Append(items, y)[k] = items[k]
        /\ Append(items, y)[Len(items) + 1] = y
    BY AppendItem
  <2> QED BY <1>1, <1>2, <2>1
<1>4. DOMAIN next = 1..(n + 1) BY <1>3, SeqFacts
<1>5. /\ ss = [k \in DOMAIN items |-> ss[k]] /\ tt = [k \in DOMAIN next |-> tt[k]]
      /\ (\A k \in 1..n : ss[k] = items[k].text) /\ \A k \in 1..(n + 1) : tt[k] = next[k].text
  BY <1>1, <1>2, <1>4 DEF TextsIn
<1>6. IsSeq(tt) /\ Len(tt) = n + 1 /\ DOMAIN tt = 1..(n + 1) BY <1>3, <1>4, <1>5, MapSeq
<1>7. IsSeq(ss) /\ Len(ss) = n /\ DOMAIN ss = 1..n BY <1>1, <1>2, <1>5, MapSeq
<1>8. AreLists(ss) BY <1>1
<1>9. \A k \in 1..n : tt[k] = ss[k]
  <2> SUFFICES ASSUME NEW k \in 1..n PROVE tt[k] = ss[k] OBVIOUS
  <2>1. k \in 1..(n + 1) BY <1>2
  <2> QED BY <1>3, <1>5, <2>1
<1>10. tt[n + 1] = x
  <2>1. n + 1 \in 1..(n + 1) BY <1>2
  <2> QED BY <1>1, <1>3, <1>5, <2>1
<1>11. AreLists(tt)
  <2>1. \A k \in 1..n : IsSeq(ss[k]) BY <1>7, <1>8 DEF AreLists
  <2>2. \A k \in 1..(n + 1) : k \in 1..n \/ k = n + 1 BY <1>2
  <2>3. IsSeq(x) BY <1>1
  <2>4. \A k \in 1..(n + 1) : IsSeq(tt[k]) BY <1>9, <1>10, <2>1, <2>2, <2>3
  <2> QED BY <1>6, <2>4 DEF AreLists
<1>12. FlattenSeq(tt) = FlattenSeq(ss) \o x
  <2>1. IsSeq(x) BY <1>1
  <2>2. Len(ss) \in {n, n + 1} /\ tt[n + 1] = IF Len(ss) = n THEN x ELSE ss[n + 1] \o x BY <1>7, <1>10
  <2> QED BY <1>2, <1>6, <1>8, <1>9, <1>11, <2>1, <2>2, FlattenMore
<1> QED BY <1>1, <1>11, <1>12

LEMMA TextsNone == AreLists(TextsIn(<<>>)) /\ FlattenSeq(TextsIn(<<>>)) = <<>>
<1>1. IsSeq(<<>>) /\ DOMAIN <<>> = {} /\ Len(<<>>) = 0 BY EmptyIsSeq
<1>2. TextsIn(<<>>) = <<>> BY <1>1 DEF TextsIn
<1>3. AreLists(<<>>) BY <1>1 DEF AreLists
<1>4. PICK f : Joined(f, <<>>) BY <1>1, FlattenUnrolled
<1>5. FlattenSeq(<<>>) = <<>> BY <1>1, <1>4 DEF Joined
<1> QED BY <1>2, <1>3, <1>5

\* What was written: the items that are done, the text of the open one, all
\* texts, and the ids of all calls.
Story(s, dones, open, body, prose, ids) ==
  /\ Listed(s, dones, open) /\ Told(s, prose, ids)
  /\ IsSeq(body) /\ (open \/ body = <<>>)
  /\ AreLists(TextsIn(dones)) /\ prose = FlattenSeq(TextsIn(dones)) \o body

LEMMA StoryStarts == Story(Prologue, <<>>, FALSE, <<>>, <<>>, {})
<1>1. PICK a, b : a = [ev |-> "response.created"] /\ b = [ev |-> "response.in_progress"] OBVIOUS
<1>2. PICK s, t : s = Append(<<>>, a) /\ t = Append(s, b) OBVIOUS
<1>3. Told(<<>>, <<>>, {}) BY NothingTold
<1>4. ~Tells(a) /\ ~IsCall(a) /\ ~Tells(b) /\ ~IsCall(b) BY <1>1 DEF Tells, IsCall
<1>5. Told(s, <<>>, {}) BY <1>2, <1>3, <1>4, ToldGrown
<1>6. Told(t, <<>>, {}) BY <1>2, <1>4, <1>5, ToldGrown
<1>7. Grown(s, <<>>, a) BY <1>2, EmptyIsSeq, GrownAppend
<1>8. Grown(t, s, b) BY <1>2, <1>5, GrownAppend DEF Told
<1>9. Len(s) = 1 /\ s[1] = a BY <1>7, EmptyIsSeq DEF Grown
<1>10. IsSeq(t) /\ Len(t) = 2 /\ t[1] = a /\ t[2] = b BY <1>8, <1>9 DEF Grown
<1>11. Done(t) = <<>>
  <2>1. Done(s) = <<>> BY <1>1, <1>7, DoneGrown, NothingDone
  <2> QED BY <1>1, <1>8, <2>1, DoneGrown
<1>12. \A i \in 1..2 : Inner(t[i]) /\ ResponsesOrder(t, i) /\ t[i].ev # "output_item.done"
  <2>1. Inner(t[1]) /\ ResponsesOrder(t, 1) /\ t[1].ev # "output_item.done" BY <1>1, <1>10 DEF Inner, ResponsesOrder
  <2>2. Inner(t[2]) /\ ResponsesOrder(t, 2) /\ t[2].ev # "output_item.done" BY <1>1, <1>10 DEF Inner, ResponsesOrder
  <2>3. \A i \in 1..2 : i = 1 \/ i = 2 OBVIOUS
  <2> QED BY <2>1, <2>2, <2>3
<1>13. \A i \in 1..2 : t[i].ev # "output_item.done" /\ t[i].ev # "output_item.added"
  <2>1. \A i \in 1..2 : i = 1 \/ i = 2 OBVIOUS
  <2> QED BY <1>1, <1>10, <2>1
<1>14. Count(t, "output_item.done") = 0 /\ Count(t, "output_item.added") = 0
  <2>1. /\ Count(t, "output_item.done") = Cardinality({j \in 1..Len(t) : t[j].ev = "output_item.done"})
        /\ Count(t, "output_item.added") = Cardinality({j \in 1..Len(t) : t[j].ev = "output_item.added"})
    BY <1>10, CountIs
  <2>2. {j \in 1..Len(t) : t[j].ev = "output_item.done"} = {} /\ {j \in 1..Len(t) : t[j].ev = "output_item.added"} = {}
    BY <1>10, <1>13
  <2> QED BY <2>1, <2>2, FS_EmptySet
<1>15. IsSeq(<<>>) /\ Len(<<>>) = 0 BY EmptyIsSeq
<1>16. Listed(t, <<>>, FALSE) BY <1>10, <1>11, <1>12, <1>14, <1>15 DEF Listed
<1>17. t = Prologue
  <2>1. <<>> \o <<a, b>> = t BY <1>2, EmptyIsSeq, TwoMore
  <2>2. PICK p : p = <<a, b>> OBVIOUS
  <2>3. <<>> \o p = p BY <2>2, TwoElements, NothingMore
  <2> QED BY <1>1, <2>1, <2>2, <2>3 DEF Prologue
<1>18. FlattenSeq(TextsIn(<<>>)) \o <<>> = <<>> BY <1>15, TextsNone, NothingMore
<1>19. Story(t, <<>>, FALSE, <<>>, <<>>, {}) BY <1>6, <1>15, <1>16, <1>18, TextsNone DEF Story
<1> QED BY <1>17, <1>19

\* A part is announced, or its text written or repeated.
LEMMA StoryGrown ==
    ASSUME NEW s, NEW dones, NEW body, NEW prose, NEW ids, Story(s, dones, TRUE, body, prose, ids),
           NEW e, e.index = Len(dones) + 1, e.ev \in {"content_part.added", "delta", "done", "content_part.done"}
    PROVE  Story(Append(s, e), dones, TRUE, IF Tells(e) THEN Append(body, e.what) ELSE body,
                 IF Tells(e) THEN Append(prose, e.what) ELSE prose, ids)
<1>1. Listed(Append(s, e), dones, TRUE) BY ListedGrown DEF Story
<1>2. ~IsCall(e) BY DEF IsCall
<1>3. Told(Append(s, e), IF Tells(e) THEN Append(prose, e.what) ELSE prose, ids) BY <1>2, ToldGrown DEF Story
<1>4. PICK f, x : f = FlattenSeq(TextsIn(dones)) /\ x = e.what OBVIOUS
<1>5. IsSeq(f) /\ IsSeq(body) /\ prose = f \o body BY <1>4, FlattenLemma DEF Story, AreLists
<1>6. f \o Append(body, x) = Append(f \o body, x) /\ IsSeq(Append(body, x))
  <2>1. body \o <<x>> = Append(body, x) /\ (f \o body) \o <<x>> = Append(f \o body, x)
    <3>1. IsSeq(f \o body) BY <1>5, ConcatLemma
    <3> QED BY <1>5, <3>1, OneMore
  <2>2. f \o (body \o <<x>>) = (f \o body) \o <<x>>
    <3>1. PICK z : z = <<x>> /\ IsSeq(z) BY OneElement
    <3>2. f \o (body \o z) = (f \o body) \o z BY <1>5, <3>1, ConcatTwice
    <3> QED BY <3>1, <3>2
  <2> QED BY <1>5, <2>1, <2>2, AppendItem
<1>7. AreLists(TextsIn(dones)) BY DEF Story
<1>8. CASE Tells(e)
  <2>1. Append(prose, e.what) = f \o Append(body, e.what) /\ IsSeq(Append(body, e.what)) BY <1>4, <1>5, <1>6
  <2> QED BY <1>1, <1>3, <1>4, <1>7, <1>8, <2>1 DEF Story
<1>9. CASE ~Tells(e) BY <1>1, <1>3, <1>4, <1>5, <1>7, <1>9 DEF Story
<1> QED BY <1>8, <1>9

LEMMA StoryOpens ==
    ASSUME NEW s, NEW dones, NEW body, NEW prose, NEW ids, Story(s, dones, FALSE, body, prose, ids),
           NEW e, e.ev = "output_item.added", e.index = Len(dones) + 1
    PROVE  Story(Append(s, e), dones, TRUE, <<>>, prose, ids)
<1>1. Listed(Append(s, e), dones, TRUE) BY ListedGrown DEF Story
<1>2. ~IsCall(e) /\ ~Tells(e) BY DEF IsCall, Tells
<1>3. Told(Append(s, e), prose, ids) BY <1>2, ToldGrown DEF Story
<1>4. body = <<>> BY DEF Story
<1> QED BY <1>1, <1>3, <1>4 DEF Story

LEMMA StoryCloses ==
    ASSUME NEW s, NEW dones, NEW body, NEW prose, NEW ids, Story(s, dones, TRUE, body, prose, ids),
           NEW e, e.ev = "output_item.done", e.index = Len(dones) + 1, e.item.text = body,
           IsCall(e) => IdOf(e) \notin ids,
           e.item.type # "function_call" => e.item.text = s[Len(s)].what /\ e.item.text = s[Len(s) - 1].what
    PROVE  Story(Append(s, e), Append(dones, e.item), FALSE, <<>>, prose,
                 IF IsCall(e) THEN ids \cup {IdOf(e)} ELSE ids)
<1>1. PICK y : y = e.item OBVIOUS
<1>2. Listed(Append(s, e), Append(dones, y), FALSE) BY <1>1, ListedGrown DEF Story
<1>3. ~Tells(e) BY DEF Tells
<1>4. Told(Append(s, e), prose, IF IsCall(e) THEN ids \cup {IdOf(e)} ELSE ids) BY <1>3, ToldGrown DEF Story
<1>5. IsSeq(dones) /\ AreLists(TextsIn(dones)) /\ IsSeq(y.text) /\ prose = FlattenSeq(TextsIn(dones)) \o y.text
  BY <1>1 DEF Story, Listed
<1>6. /\ AreLists(TextsIn(Append(dones, y)))
      /\ FlattenSeq(TextsIn(Append(dones, y))) = FlattenSeq(TextsIn(dones)) \o y.text
  BY <1>5, TextsAppend
<1>7. IsSeq(prose)
  <2>1. IsSeq(FlattenSeq(TextsIn(dones))) BY <1>5, FlattenLemma DEF AreLists
  <2> QED BY <1>5, <2>1, ConcatLemma
<1>8. prose = FlattenSeq(TextsIn(Append(dones, y))) \o <<>> /\ IsSeq(<<>>)
  BY <1>5, <1>6, <1>7, NothingMore, EmptyIsSeq
<1> QED BY <1>1, <1>2, <1>4, <1>6, <1>8 DEF Story

-----------------------------------------------------------------------------
(* The answer in the Responses protocol. *)

\* The outputs are the items that are done, and x after them if it is open.
Listing(dones, x) ==
  IF active = 0 THEN outputs = dones
  ELSE /\ outputs = Append(dones, x) /\ active = Len(dones) + 1
       /\ IsItem(x) /\ x.type \in {"reasoning", "message"}

OpenText == IF active = 0 THEN <<>> ELSE text

ResponsesLink ==
  /\ out = <<>> => /\ phase \in {"prepare", "walk"} /\ given = <<>> /\ todo = <<>> /\ used = <<>>
                   /\ outputs = <<>> /\ active = 0
  /\ out # <<>> => /\ phase # "prepare"
                   /\ \E dones, x : /\ Listing(dones, x)
                                    /\ Story(out, dones, active # 0, OpenText, Places(Prosaic), DOMAIN used)

ResponsesWell ==
  /\ protocol = "responses" /\ Registry /\ ResponsesGood(out)
  /\ Intact => Told(out, Places(Prosaic), DOMAIN used)
  /\ Over /\ Intact /\ out # <<>> => FlattenSeq(TextsIn(outputs)) = Places(Prosaic)

LEMMA ResponsesWellKept == ASSUME ResponsesWell PROVE AnswerIsKept
<1>1. ResponsesGood(out) /\ protocol = "responses" BY DEF ResponsesWell
<1>2. DOMAIN out = 1..Len(out) BY <1>1, SeqFacts DEF ResponsesGood
<1>3. EventsAreInOrder BY <1>1, <1>2 DEF EventsAreInOrder, ResponsesGood
<1>4. \A i \in DOMAIN out : IsCall(out[i]) => (out[i].ev = "output_item.done" <=> protocol = "responses")
  BY <1>1, <1>2 DEF ResponsesGood
<1>5. Once(out) BY <1>1 DEF ResponsesGood
<1>6. Intact => Prose(out) = Places(Prosaic) /\ Ids(out) = DOMAIN used BY DEF ResponsesWell, Told
<1>7. Registry /\ SignaturesAreKept /\ protocol \in Streamed BY <1>1 DEF ResponsesWell, Streamed, SignaturesAreKept
<1>8. Over /\ Intact /\ out # <<>> => FlattenSeq([k \in DOMAIN outputs |-> outputs[k].text]) = Places(Prosaic)
  BY DEF ResponsesWell, TextsIn
<1>9. StreamGood BY <1>1, <1>3, <1>4, <1>5, <1>6, <1>7, <1>8 DEF StreamGood
<1> QED BY <1>9, StreamKept

LEMMA ResponsesNothing ==
    ASSUME protocol = "responses", Registry, out = <<>>, given = <<>>, used = <<>> PROVE AnswerIsKept
<1>1. IsSeq(<<>>) /\ DOMAIN <<>> = {} /\ Len(<<>>) = 0 BY EmptyIsSeq
<1>2. Told(<<>>, <<>>, {}) BY NothingTold
<1>3. ResponsesGood(<<>>) BY <1>1, <1>2 DEF ResponsesGood, Told
<1>4. Told(out, Places(Prosaic), DOMAIN used) BY <1>1, <1>2, NothingPlaced
<1>5. ResponsesWell BY <1>3, <1>4 DEF ResponsesWell
<1> QED BY <1>5, ResponsesWellKept

LEMMA ResponsesLinkKept ==
    ASSUME ResponsesLink, protocol = "responses", Registry, Running PROVE AnswerIsKept
<1>1. CASE out = <<>> BY <1>1, ResponsesNothing DEF ResponsesLink
<1>2. CASE out # <<>>
  <2>1. PICK dones, x : Story(out, dones, active # 0, OpenText, Places(Prosaic), DOMAIN used)
    BY <1>2 DEF ResponsesLink
  <2>2. Told(out, Places(Prosaic), DOMAIN used) BY <2>1 DEF Story
  <2>3. ResponsesGood(out) BY <2>1, <2>2, ListedGood DEF Story, Told
  <2>4. ~Over BY DEF Running, Over
  <2>5. ResponsesWell BY <2>2, <2>3, <2>4 DEF ResponsesWell
  <2> QED BY <2>5, ResponsesWellKept
<1> QED BY <1>1, <1>2

LEMMA ResponsesBroken ==
    ASSUME protocol = "responses", Registry, IsSeq(out), NEW events, IsSeq(events), ResponsesGood(out \o events),
           Broken(events)
    PROVE  IF Running' THEN ResponsesLink' ELSE AnswerIsKept'
<1>1. Begins(out', out \o events) /\ phase' = "failed" /\ cause' = "write" BY BrokenBegins
<1>2. UNCHANGED <<protocol, given, calls, used>> BY DEF Broken
<1>3. ResponsesGood(out') BY <1>1, ResponsesGoodBegins
<1>4. ResponsesGood(out)'
  BY <1>3 DEF ResponsesGood, IsSeq, Once, ResponsesOrder, Before, IsLast, Done, IsCall, IdOf
<1>5. Registry' BY <1>2, RegistrySame
<1>6. ResponsesWell' BY <1>1, <1>2, <1>4, <1>5 DEF ResponsesWell, Intact
<1>7. (ResponsesWell => AnswerIsKept)' BY ResponsesWellKept, PTL
<1> QED BY <1>1, <1>6, <1>7 DEF Running

LEMMA StoryGood ==
    ASSUME NEW s, NEW dones, NEW open, NEW body, NEW prose, NEW ids, Story(s, dones, open, body, prose, ids)
    PROVE  ResponsesGood(s) /\ s # <<>>
<1>1. ResponsesGood(s) BY ListedGood DEF Story, Told
<1>2. s # <<>> BY EmptyIsSeq DEF Story, Listed
<1> QED BY <1>1, <1>2

\* The last of some items is replaced.
LEMMA LastReplaced ==
    ASSUME NEW items, IsSeq(items), NEW x, NEW y
    PROVE  [Append(items, x) EXCEPT ![Len(items) + 1] = y] = Append(items, y)
<1> DEFINE a == Append(items, x)
           b == Append(items, y)
           c == [a EXCEPT ![Len(items) + 1] = y]
           S == ToSet(items) \cup {x, y}
<1>1. items \in Seq(S) /\ x \in S /\ y \in S BY DEF IsSeq
<1>2. PICK n \in Nat : n = Len(items) BY SeqFacts
<1> HIDE DEF S
<1>3. a \in Seq(S) /\ Len(a) = n + 1 /\ b \in Seq(S) /\ Len(b) = n + 1 BY <1>1, <1>2
<1>4. c \in Seq(S) /\ Len(c) = n + 1 BY <1>1, <1>2, <1>3
<1>a. DOMAIN a = 1..(n + 1) /\ DOMAIN items = 1..n BY <1>2, <1>3, SeqFacts
<1>b. (\A k \in 1..n : a[k] = items[k] /\ b[k] = items[k]) /\ b[n + 1] = y BY <1>2, <1>a, AppendItem
<1>5. \A k \in 1..(n + 1) : c[k] = b[k]
  <2> SUFFICES ASSUME NEW k \in 1..(n + 1) PROVE c[k] = b[k] OBVIOUS
  <2>1. c[k] = IF k = n + 1 THEN y ELSE a[k] BY <1>2, <1>a
  <2> HIDE DEF a, b, c
  <2>2. k \in 1..n \/ k = n + 1 BY <1>2
  <2> QED BY <1>2, <1>b, <2>1, <2>2
<1> HIDE DEF a, b, c
<1>6. c = b BY <1>3, <1>4, <1>5, SeqEqual
<1> QED BY <1>6 DEF a, b, c

\* closeItem, whether or not an item is open.
LEMMA StoryClosed ==
    ASSUME NEW dones, NEW x, Listing(dones, x), NEW s, NEW prose, NEW ids,
           Story(s, dones, active # 0, OpenText, prose, ids), NEW status
    PROVE  /\ Story(s \o ClosingItem(status), OutputsClosed(status), FALSE, <<>>, prose, ids)
           /\ IsSeq(ClosingItem(status))
<1>1. IsSeq(s) /\ IsSeq(dones) BY DEF Story, Told, Listed
<1>2. CASE active = 0
  <2>1. ClosingItem(status) = <<>> /\ OutputsClosed(status) = dones /\ OpenText = <<>>
    BY <1>2 DEF ClosingItem, OutputsClosed, Listing, OpenText
  <2>2. s \o <<>> = s BY <1>1, NothingMore
  <2> QED BY <1>2, <2>1, <2>2, EmptyIsSeq
<1>3. CASE active # 0
  <2>1. /\ outputs = Append(dones, x) /\ active = Len(dones) + 1
        /\ IsItem(x) /\ x.type \in {"reasoning", "message"} /\ OpenText = text
    BY <1>3 DEF Listing, OpenText
  <2>2. PICK n, k, y, body : n = active /\ k = Len(dones) /\ y = ClosedItem(status) /\ body = text OBVIOUS
  <2>3. outputs[n] = x BY <1>1, <2>1, <2>2, AppendItem
  <2>4. y = [type |-> x.type, status |-> status, text |-> body, sig |-> x.sig, call |-> x.call]
    <3>1. y = [x EXCEPT !.text = body, !.status = status] BY <2>2, <2>3 DEF ClosedItem
    <3>2. x = [type |-> x.type, status |-> x.status, text |-> x.text, sig |-> x.sig, call |-> x.call]
      BY <2>1 DEF IsItem
    <3> QED BY <3>1, <3>2
  <2>5. y.text = body /\ y.type # "function_call" BY <2>1, <2>4
  <2>6. PICK a, b, c : a = TextDone(n, body) /\ b = PartDone(n, body) /\ c = ItemDone(n, y) OBVIOUS
  <2>7. /\ a.ev = "done" /\ a.index = k + 1 /\ a.what = body
        /\ b.ev = "content_part.done" /\ b.index = k + 1 /\ b.what = body
        /\ c.ev = "output_item.done" /\ c.index = k + 1 /\ c.item = y
    BY <2>1, <2>2, <2>6 DEF TextDone, PartDone, ItemDone
  <2>8. ~Tells(a) /\ ~Tells(b) /\ ~IsCall(c) BY <2>5, <2>7 DEF Tells, IsCall
  <2>9. PICK t, u : t = Append(s, a) /\ u = Append(t, b) OBVIOUS
  <2>10. Story(s, dones, TRUE, body, prose, ids) BY <1>3, <2>1, <2>2
  <2>11. Story(t, dones, TRUE, body, prose, ids) BY <2>2, <2>7, <2>8, <2>9, <2>10, StoryGrown
  <2>12. Story(u, dones, TRUE, body, prose, ids) BY <2>2, <2>7, <2>8, <2>9, <2>11, StoryGrown
  <2>13. u[Len(u)] = b /\ u[Len(u) - 1] = a
    <3>1. Grown(t, s, a) BY <1>1, <2>9, GrownAppend
    <3>2. IsSeq(t) BY <3>1 DEF Grown
    <3>3. Grown(u, t, b) BY <2>9, <3>2, GrownAppend
    <3>4. PICK m \in Nat : m = Len(s) BY <3>1 DEF Grown
    <3>5. Len(t) = m + 1 /\ t[m + 1] = a BY <3>1, <3>4 DEF Grown
    <3>6. Len(u) = (m + 1) + 1 /\ u[(m + 1) + 1] = b /\ u[m + 1] = t[m + 1]
      <4>1. m + 1 \in 1..(m + 1) OBVIOUS
      <4> QED BY <3>3, <3>5, <4>1 DEF Grown
    <3>7. ((m + 1) + 1) - 1 = m + 1 OBVIOUS
    <3> QED BY <3>5, <3>6, <3>7
  <2>14. Story(Append(u, c), Append(dones, c.item), FALSE, <<>>, prose, ids)
    BY <2>2, <2>5, <2>7, <2>8, <2>12, <2>13, StoryCloses
  <2>15. ClosingItem(status) = <<a, b, c>> BY <1>3, <2>2, <2>6 DEF ClosingItem
  <2>16. s \o <<a, b, c>> = Append(u, c) /\ IsSeq(<<a, b, c>>) BY <1>1, <2>9, ThreeMore, ThreeElements
  <2>17. OutputsClosed(status) = Append(dones, y)
    <3>1. OutputsClosed(status) = [outputs EXCEPT ![active] = y] BY <1>3, <2>2 DEF OutputsClosed
    <3> QED BY <1>1, <2>1, <3>1, LastReplaced
  <2> QED BY <2>7, <2>14, <2>15, <2>16, <2>17
<1> QED BY <1>2, <1>3

\* What is signed is the open item.
LEMMA StorySigned ==
    ASSUME NEW dones, IsSeq(dones), NEW x, IsItem(x), NEW sig
    PROVE  \E y : /\ Signed(Append(dones, x), Len(dones) + 1, sig) = Append(dones, y)
                  /\ IsItem(y) /\ y.type = x.type
<1>1. CASE sig = None BY <1>1 DEF Signed
<1>2. CASE sig # None
  <2>1. PICK items, n : items = Append(dones, x) /\ n = Len(dones) + 1 OBVIOUS
  <2>2. items[n] = x BY <2>1, AppendItem
  <2>3. PICK y : y = [x EXCEPT !.sig = sig] OBVIOUS
  <2>4. Signed(items, n, sig) = [items EXCEPT ![n] = [items[n] EXCEPT !.sig = sig]] BY <1>2 DEF Signed
  <2>5. Signed(items, n, sig) = [items EXCEPT ![n] = y] BY <2>2, <2>3, <2>4
  <2>6. Signed(items, n, sig) = Append(dones, y) BY <2>1, <2>5, LastReplaced
  <2>7. y = [type |-> x.type, status |-> x.status, text |-> x.text, sig |-> sig, call |-> x.call]
    BY <2>3 DEF IsItem
  <2>8. IsItem(y) /\ y.type = x.type BY <2>7 DEF IsItem
  <2> QED BY <2>1, <2>6, <2>8
<1> QED BY <1>1, <1>2

LEMMA ResponsesLinkVisit ==
    ASSUME Registry, IsSeq(given), NEW h, given' = Append(given, h), protocol' = protocol, phase' = "walk",
           NEW dones, NEW x, Listing(dones, x)', NEW prose,
           prose = IF Talks(h) THEN Append(Places(Prosaic), This) ELSE Places(Prosaic),
           Story(out', dones, active' # 0, OpenText', prose, DOMAIN used')
    PROVE  IF Running' THEN ResponsesLink' ELSE AnswerIsKept'
<1>1. Places(Prosaic)' = prose BY ProseNext
<1>2. out' # <<>> BY StoryGood
<1>3. Story(out, dones, active # 0, OpenText, Places(Prosaic), DOMAIN used)'
  <2>1. PICK s, open, body, ids : s = out' /\ open = (active' # 0) /\ body = OpenText' /\ ids = DOMAIN used'
    OBVIOUS
  <2>2. Story(s, dones, open, body, prose, ids) BY <2>1
  <2> QED BY <1>1, <2>1, <2>2
<1>4. ResponsesLink' BY <1>2, <1>3 DEF ResponsesLink
<1> QED BY <1>4 DEF Running

LEMMA ResponsesWalkLink ==
    ASSUME WalkInv, Registry, Registry', ResponsesLink, protocol = "responses", phase = "prepare" \/ out # <<>>,
           WalkNext, UNCHANGED responsesVars
    PROVE  IF Running' THEN ResponsesLink' ELSE AnswerIsKept'
<1>1. CASE phase = "prepare"
  <2>1. /\ out = <<>> /\ given = <<>> /\ todo = <<>> /\ used = <<>> /\ outputs = <<>> /\ active = 0
    BY <1>1 DEF ResponsesLink
  <2>2. (\E f \in Frames : PrepareFrame(f)) \/ PrepareFails
    BY <1>1 DEF WalkNext, ReadFrame, WalkEnds, WalkFails, ToolRefused, ToolRepeated, Visiting
  <2>3. /\ UNCHANGED <<out, given, todo, used, outputs, active, protocol>>
        /\ phase' \in {"prepare", "walk", "refused"}
    <3>1. CASE PrepareFails BY <3>1 DEF PrepareFails, responsesVars
    <3>2. CASE \E f \in Frames : PrepareFrame(f)
      <4>1. PICK f \in Frames : PrepareFrame(f) BY <3>2
      <4> QED BY <4>1 DEF PrepareFrame, Verdict, responsesVars
    <3> QED BY <2>2, <3>1, <3>2
  <2>4. CASE phase' = "refused"
    <3>1. (protocol = "responses" /\ Registry /\ out = <<>> /\ given = <<>> /\ used = <<>> => AnswerIsKept)'
      BY ResponsesNothing, PTL
    <3> QED BY <2>1, <2>3, <2>4, <3>1 DEF Running
  <2>5. CASE phase' \in {"prepare", "walk"} BY <2>1, <2>3, <2>5 DEF Running, ResponsesLink
  <2> QED BY <2>3, <2>4, <2>5
<1>2. CASE phase # "prepare"
  <2>1. UNCHANGED <<protocol, out>> /\ (UNCHANGED <<given, used>> \/ ToolRepeated) /\ UNCHANGED <<outputs, active, text>>
    BY WalkShape DEF responsesVars
  <2>2. phase' \in {"walk", "closing"}
    <3>1. CASE \E f \in Frames : ReadFrame(f)
      <4>1. PICK f \in Frames : ReadFrame(f) BY <3>1
      <4> QED BY <4>1 DEF ReadFrame
    <3> QED BY <1>2, <3>1 DEF WalkNext, PrepareFrame, PrepareFails, WalkEnds, WalkFails, ToolRefused, ToolRepeated,
                            Visiting, Goes
  <2>3. PICK dones, x : /\ Listing(dones, x)
                        /\ Story(out, dones, active # 0, OpenText, Places(Prosaic), DOMAIN used)
    BY <1>2 DEF ResponsesLink
  <2>4. Listing(dones, x)' /\ OpenText' = OpenText BY <2>1, <2>3 DEF Listing, IsItem, OpenText
  <2>5. CASE UNCHANGED <<given, used>>
    <3>1. Places(Prosaic)' = Places(Prosaic) BY <2>1, <2>5, PartsSame
    <3>2. Story(out, dones, active # 0, OpenText, Places(Prosaic), DOMAIN used)' BY <2>1, <2>3, <2>4, <2>5, <3>1
    <3>3. out' # <<>> /\ phase' # "prepare" BY <1>2, <2>1, <2>2
    <3> QED BY <2>2, <2>4, <3>2, <3>3 DEF ResponsesLink, Running
  <2>6. CASE ToolRepeated
    <3>1. PICK h : h = Head(todo) OBVIOUS
    <3>2. /\ DOMAIN used' = DOMAIN used /\ given' = Append(given, h) /\ protocol' = protocol
          /\ h.kind = "tool" /\ phase' = "walk"
      BY <2>6, <3>1, RepeatedShape
    <3>3. IsSeq(given) BY DEF WalkInv
    <3>4. PICK prose : prose = Places(Prosaic) OBVIOUS
    <3>5. prose = IF Talks(h) THEN Append(Places(Prosaic), This) ELSE Places(Prosaic) BY <3>2, <3>4 DEF Talks
    <3>6. Story(out', dones, active' # 0, OpenText', prose, DOMAIN used') BY <2>1, <2>3, <2>4, <3>2, <3>4
    <3> QED BY <2>4, <3>2, <3>3, <3>5, <3>6, ResponsesLinkVisit
  <2> QED BY <2>1, <2>5, <2>6
<1> QED BY <1>1, <1>2

LEMMA ResponsesBeginsLink ==
    ASSUME Registry, ResponsesLink, protocol = "responses", ResponsesBegins
    PROVE  IF Running' THEN ResponsesLink' ELSE AnswerIsKept'
<1>1. /\ out = <<>> /\ phase = "walk" /\ given = <<>> /\ todo = <<>> /\ used = <<>> /\ outputs = <<>> /\ active = 0
      /\ UNCHANGED <<outputs, active, text>>
  BY DEF ResponsesLink, ResponsesBegins, responsesVars
<1>2. Story(Prologue, <<>>, FALSE, <<>>, <<>>, {}) BY StoryStarts
<1>3. IsSeq(Prologue) BY <1>2 DEF Story, Told
<1>4. out \o Prologue = Prologue BY <1>1, <1>3, NothingMore
<1>5. CASE Broken(Prologue)
  <2>1. ResponsesGood(out \o Prologue) BY <1>2, <1>4, StoryGood
  <2> QED BY <1>1, <1>3, <1>5, <2>1, EmptyIsSeq, ResponsesBroken
<1>6. CASE ~Broken(Prologue)
  <2>1. out' = Prologue /\ UNCHANGED <<protocol, phase, given, used>>
    BY <1>4, <1>6 DEF ResponsesBegins, Delivered
  <2>2. Places(Prosaic) = <<>> /\ DOMAIN used = {} BY <1>1, NothingPlaced, EmptyIsSeq
  <2>3. Places(Prosaic)' = <<>> BY <2>1, <2>2, PartsSame
  <2>4. Listing(<<>>, <<>>)' /\ OpenText' = <<>> BY <1>1 DEF Listing, OpenText
  <2>5. active' = 0 /\ used' = used BY <1>1, <2>1
  <2>6. Story(out, <<>>, active # 0, OpenText, Places(Prosaic), DOMAIN used)'
    BY <1>2, <2>1, <2>2, <2>3, <2>4, <2>5
  <2>7. out' # <<>> BY <1>2, <2>1, StoryGood
  <2> QED BY <1>1, <2>1, <2>4, <2>6, <2>7 DEF ResponsesLink, Running
<1> QED BY <1>5, <1>6

\* What is known when a part is visited.
LEMMA ResponsesHolds ==
    ASSUME WalkInv, ResponsesLink, todo # <<>>
    PROVE  \E dones, x : /\ Listing(dones, x) /\ IsSeq(dones) /\ IsSeq(out)
                         /\ Story(out, dones, active # 0, OpenText, Places(Prosaic), DOMAIN used)
<1>1. out # <<>> BY DEF ResponsesLink
<1>2. PICK dones, x : /\ Listing(dones, x)
                      /\ Story(out, dones, active # 0, OpenText, Places(Prosaic), DOMAIN used)
  BY <1>1 DEF ResponsesLink
<1>3. IsSeq(dones) /\ IsSeq(out) BY <1>2 DEF Story, Told, Listed
<1> QED BY <1>2, <1>3

LEMMA ResponsesCandidateLink ==
    ASSUME WalkInv, Registry, ResponsesLink, protocol = "responses", ResponsesCandidate
    PROVE  IF Running' THEN ResponsesLink' ELSE AnswerIsKept'
<1>1. PICK h : h = Head(todo) OBVIOUS
<1>2. /\ todo # <<>> /\ h.kind = "candidate" /\ given' = Append(given, h) /\ protocol' = protocol /\ phase' = "walk"
      /\ UNCHANGED <<used, out, outputs, active, text>>
  BY <1>1 DEF ResponsesCandidate, Visiting, Visited, Goes
<1>3. PICK dones, x : /\ Listing(dones, x)
                      /\ Story(out, dones, active # 0, OpenText, Places(Prosaic), DOMAIN used)
  BY <1>2, ResponsesHolds
<1>4. Listing(dones, x)' /\ OpenText' = OpenText BY <1>2, <1>3 DEF Listing, IsItem, OpenText
<1>5. PICK prose : prose = Places(Prosaic) OBVIOUS
<1>6. prose = IF Talks(h) THEN Append(Places(Prosaic), This) ELSE Places(Prosaic) BY <1>2, <1>5 DEF Talks
<1>7. Story(out', dones, active' # 0, OpenText', prose, DOMAIN used') BY <1>2, <1>3, <1>4, <1>5
<1>8. IsSeq(given) BY DEF WalkInv
<1> QED BY <1>2, <1>4, <1>6, <1>7, <1>8, ResponsesLinkVisit

LEMMA ResponsesSignatureLink ==
    ASSUME WalkInv, Registry, ResponsesLink, protocol = "responses", ResponsesSignature
    PROVE  IF Running' THEN ResponsesLink' ELSE AnswerIsKept'
<1>1. PICK h : h = Head(todo) OBVIOUS
<1>2. /\ todo # <<>> /\ ~h.body /\ given' = Append(given, h) /\ protocol' = protocol /\ phase' = "walk"
      /\ UNCHANGED <<used, out, active, text>>
      /\ outputs' = IF active = 0 THEN outputs ELSE Signed(outputs, active, h.sig)
  BY <1>1 DEF ResponsesSignature, Visiting, Visited, Goes
<1>3. PICK dones, x : /\ Listing(dones, x) /\ IsSeq(dones)
                      /\ Story(out, dones, active # 0, OpenText, Places(Prosaic), DOMAIN used)
  BY <1>2, ResponsesHolds
<1>4. PICK y : Listing(dones, y)'
  <2>1. CASE active = 0 BY <1>2, <1>3, <2>1 DEF Listing
  <2>2. CASE active # 0
    <3>1. outputs = Append(dones, x) /\ active = Len(dones) + 1 /\ IsItem(x) /\ x.type \in {"reasoning", "message"}
      BY <1>3, <2>2 DEF Listing
    <3>2. PICK sig : sig = h.sig OBVIOUS
    <3>3. PICK y : Signed(Append(dones, x), Len(dones) + 1, sig) = Append(dones, y) /\ IsItem(y) /\ y.type = x.type
      BY <1>3, <3>1, StorySigned
    <3>4. outputs' = Append(dones, y) BY <1>2, <2>2, <3>1, <3>2, <3>3
    <3> QED BY <1>2, <2>2, <3>1, <3>3, <3>4 DEF Listing, IsItem
  <2> QED BY <2>1, <2>2
<1>5. OpenText' = OpenText BY <1>2 DEF OpenText
<1>6. PICK prose : prose = Places(Prosaic) OBVIOUS
<1>7. prose = IF Talks(h) THEN Append(Places(Prosaic), This) ELSE Places(Prosaic) BY <1>2, <1>6 DEF Talks
<1>8. Story(out', dones, active' # 0, OpenText', prose, DOMAIN used') BY <1>2, <1>3, <1>5, <1>6
<1>9. IsSeq(given) BY DEF WalkInv
<1> QED BY <1>2, <1>4, <1>7, <1>8, <1>9, ResponsesLinkVisit

LEMMA ResponsesEndLink ==
    ASSUME WalkInv, Registry, ResponsesLink, protocol = "responses", ResponsesEnd
    PROVE  IF Running' THEN ResponsesLink' ELSE AnswerIsKept'
<1>1. phase = "closing" BY DEF ResponsesEnd
<1>2. out # <<>> BY <1>1 DEF ResponsesLink
<1>3. PICK dones, x : /\ Listing(dones, x)
                      /\ Story(out, dones, active # 0, OpenText, Places(Prosaic), DOMAIN used)
  BY <1>2 DEF ResponsesLink
<1>4. PICK s, prose, ids, status, final : /\ s = out /\ prose = Places(Prosaic) /\ ids = DOMAIN used
                                          /\ status = EndStatus /\ final = OutputsClosed(status)
  OBVIOUS
<1>5. PICK c, e : /\ c = ClosingItem(status)
                  /\ e = [ev |-> EndEvent, output |-> final, reason |-> EndReason, error |-> EndCause]
  OBVIOUS
<1>6. Story(s, dones, active # 0, OpenText, prose, ids) BY <1>3, <1>4
<1>7. Story(s \o c, final, FALSE, <<>>, prose, ids) /\ IsSeq(c)
  <2>1. /\ Story(s \o ClosingItem(status), OutputsClosed(status), FALSE, <<>>, prose, ids)
        /\ IsSeq(ClosingItem(status))
    BY <1>3, <1>6, StoryClosed
  <2> QED BY <1>4, <1>5, <2>1
<1>8. PICK r : r = s \o c OBVIOUS
<1>9. Listed(r, final, FALSE) /\ Told(r, prose, ids) /\ IsSeq(r) BY <1>7, <1>8 DEF Story, Told
<1>10. e.ev \in {"response.completed", "response.incomplete"} /\ e.output = final BY <1>5 DEF EndEvent
<1>11. ResponsesGood(Append(r, e)) /\ Told(Append(r, e), prose, ids)
  <2>1. Listed(r, e.output, FALSE) /\ Told(r, prose, ids) BY <1>9, <1>10
  <2>2. e.ev \in {"response.completed", "response.incomplete"} BY <1>10
  <2> QED BY <2>1, <2>2, ListedEnds
<1>12. PICK events : events = c \o <<e>> OBVIOUS
<1>13. s \o events = Append(r, e) /\ IsSeq(events) /\ IsSeq(s)
  <2>1. IsSeq(s) BY <1>6 DEF Story, Told
  <2>2. PICK z : z = <<e>> /\ IsSeq(z) BY OneElement
  <2>3. s \o (c \o z) = (s \o c) \o z /\ IsSeq(c \o z) BY <1>7, <2>1, <2>2, ConcatTwice, ConcatLemma
  <2>4. r \o <<e>> = Append(r, e) BY <1>9, OneMore
  <2> QED BY <1>8, <1>12, <2>1, <2>2, <2>3, <2>4
<1>14. CASE Broken(events)
  <2>1. ResponsesGood(out \o events) BY <1>4, <1>11, <1>13
  <2>2. IsSeq(out) BY <1>4, <1>13
  <2> QED BY <1>13, <1>14, <2>1, <2>2, ResponsesBroken
<1>15. CASE ~Broken(events)
  <2>1. /\ out' = s \o events /\ outputs' = final /\ phase' \in {"done", "failed"}
        /\ UNCHANGED <<protocol, given, calls, used>>
    BY <1>4, <1>5, <1>12, <1>15 DEF ResponsesEnd, Delivered
  <2>2. ResponsesGood(out') /\ Told(out', prose, ids) BY <1>11, <1>13, <2>1
  <2>3. ResponsesGood(out)'
    BY <2>2 DEF ResponsesGood, IsSeq, Once, ResponsesOrder, Before, IsLast, Done, IsCall, IdOf
  <2>4. Places(Prosaic)' = prose /\ DOMAIN used' = ids BY <1>4, <2>1, PartsSame
  <2>5. Told(out, Places(Prosaic), DOMAIN used)'
    BY <2>2, <2>4 DEF Told, IsSeq, Prose, Said, Tells, Ids, IdOf, IsCall, Once
  <2>6. Registry' BY <2>1, RegistrySame
  <2>7. FlattenSeq(TextsIn(final)) = prose
    <3>1. AreLists(TextsIn(final)) /\ prose = FlattenSeq(TextsIn(final)) \o <<>> BY <1>7 DEF Story
    <3>2. PICK f : f = FlattenSeq(TextsIn(final)) OBVIOUS
    <3>3. IsSeq(f) BY <3>1, <3>2, FlattenLemma DEF AreLists
    <3> QED BY <3>1, <3>2, <3>3, NothingMore
  <2>8. (FlattenSeq(TextsIn(outputs)) = Places(Prosaic))'
    <3>1. TextsIn(outputs)' = TextsIn(final) BY <2>1 DEF TextsIn
    <3> QED BY <2>4, <2>7, <3>1
  <2>9. ResponsesWell' BY <2>1, <2>3, <2>5, <2>6, <2>8 DEF ResponsesWell
  <2>10. (ResponsesWell => AnswerIsKept)' BY ResponsesWellKept, PTL
  <2> QED BY <2>1, <2>9, <2>10 DEF Running
<1> QED BY <1>14, <1>15

LEMMA FourMore ==
    ASSUME NEW s, IsSeq(s), NEW a, NEW b, NEW c, NEW d
    PROVE  /\ s \o <<a, b, c, d>> = Append(Append(Append(Append(s, a), b), c), d)
           /\ IsSeq(<<a, b, c, d>>)
<1>1. PICK u, v, w : u = <<a, b>> /\ v = <<c, d>> /\ w = <<a, b, c, d>> OBVIOUS
<1>2. IsSeq(u) /\ IsSeq(v) BY <1>1, TwoElements
<1>3. w = Append(Append(u, c), d) BY <1>1
<1>4. u \o v = Append(Append(u, c), d) BY <1>1, <1>2, TwoMore
<1>5. s \o (u \o v) = (s \o u) \o v BY <1>2, ConcatTwice
<1>6. IsSeq(s \o u) /\ IsSeq(u \o v) BY <1>2, ConcatLemma
<1>7. (s \o u) \o v = Append(Append(s \o u, c), d) BY <1>1, <1>6, TwoMore
<1>8. s \o u = Append(Append(s, a), b) BY <1>1, TwoMore
<1> QED BY <1>1, <1>3, <1>4, <1>5, <1>6, <1>7, <1>8

\* A tool call is an item of its own.
LEMMA StoryCalls ==
    ASSUME NEW s, NEW dones, NEW prose, NEW ids, Story(s, dones, FALSE, <<>>, prose, ids),
           NEW a, a.ev = "output_item.added", a.index = Len(dones) + 1,
           NEW b, b.ev = "delta", b.index = Len(dones) + 1, b.kind = "function_call",
           NEW c, c.ev = "done", c.index = Len(dones) + 1,
           NEW d, d.ev = "output_item.done", d.index = Len(dones) + 1,
           d.item.type = "function_call", d.item.text = <<>>, d.item.call.id \notin ids
    PROVE  /\ Story(s \o <<a, b, c, d>>, Append(dones, d.item), FALSE, <<>>, prose, ids \cup {d.item.call.id})
           /\ IsSeq(<<a, b, c, d>>)
<1>1. IsSeq(s) BY DEF Story, Told
<1>2. PICK t, u, v : t = Append(s, a) /\ u = Append(t, b) /\ v = Append(u, c) OBVIOUS
<1>3. ~Tells(b) /\ ~Tells(c) BY DEF Tells
<1>4. Story(t, dones, TRUE, <<>>, prose, ids) BY <1>2, StoryOpens
<1>5. Story(u, dones, TRUE, <<>>, prose, ids) BY <1>2, <1>3, <1>4, StoryGrown
<1>6. Story(v, dones, TRUE, <<>>, prose, ids) BY <1>2, <1>3, <1>5, StoryGrown
<1>7. IsCall(d) /\ IdOf(d) = d.item.call.id BY DEF IsCall, IdOf
<1>8. Story(Append(v, d), Append(dones, d.item), FALSE, <<>>, prose, IF IsCall(d) THEN ids \cup {IdOf(d)} ELSE ids)
  BY <1>6, <1>7, StoryCloses
<1>9. PICK w, y : w = <<a, b, c, d>> /\ y = Append(v, d) OBVIOUS
<1>10. s \o w = y /\ IsSeq(w) BY <1>1, <1>2, <1>9, FourMore
<1>11. Story(y, Append(dones, d.item), FALSE, <<>>, prose, ids \cup {d.item.call.id}) BY <1>7, <1>8, <1>9
<1> QED BY <1>9, <1>10, <1>11

LEMMA ClosedLength ==
    ASSUME NEW dones, IsSeq(dones), NEW x, Listing(dones, x), NEW status
    PROVE  Len(OutputsClosed(status)) = Len(outputs)
<1>1. CASE active = 0 BY <1>1 DEF OutputsClosed
<1>2. CASE active # 0
  <2>1. PICK y : y = ClosedItem(status) OBVIOUS
  <2>2. outputs = Append(dones, x) /\ active = Len(dones) + 1 BY <1>2 DEF Listing
  <2>3. OutputsClosed(status) = [outputs EXCEPT ![active] = y] BY <1>2, <2>1 DEF OutputsClosed
  <2>4. OutputsClosed(status) = Append(dones, y) BY <2>2, <2>3, LastReplaced
  <2>5. Len(Append(dones, y)) = Len(dones) + 1 /\ Len(Append(dones, x)) = Len(dones) + 1 BY AppendItem
  <2> QED BY <2>2, <2>4, <2>5
<1> QED BY <1>1, <1>2

LEMMA ResponsesToolLink ==
    ASSUME WalkInv, Registry, ResponsesLink, protocol = "responses", ResponsesTool
    PROVE  IF Running' THEN ResponsesLink' ELSE AnswerIsKept'
<1>1. PICK h : h = Head(todo) OBVIOUS
<1>2. phase = "walk" /\ todo # <<>> /\ h.kind = "tool" /\ ~Repeats(h)
  BY <1>1 DEF ResponsesTool, NewTool, Visiting
<1>3. IsSeq(given) BY DEF WalkInv
<1>4. IsVisit(h) BY <1>1, <1>2, LedTail DEF WalkInv
<1>5. PICK dones, x : /\ Listing(dones, x) /\ IsSeq(dones) /\ IsSeq(out)
                      /\ Story(out, dones, active # 0, OpenText, Places(Prosaic), DOMAIN used)
  BY <1>2, ResponsesHolds
<1>6. PICK s, prose, ids, id, i : /\ s = out /\ prose = Places(Prosaic) /\ ids = DOMAIN used /\ id = CallId(h)
                                  /\ i = Len(outputs) + 1
  OBVIOUS
<1>7. PICK closing, closed : closing = ClosingItem("completed") /\ closed = OutputsClosed("completed") OBVIOUS
<1>8. Story(s \o closing, closed, FALSE, <<>>, prose, ids) /\ IsSeq(closing)
  <2>1. Story(s, dones, active # 0, OpenText, prose, ids) BY <1>5, <1>6
  <2>2. /\ Story(s \o ClosingItem("completed"), OutputsClosed("completed"), FALSE, <<>>, prose, ids)
        /\ IsSeq(ClosingItem("completed"))
    BY <1>5, <2>1, StoryClosed
  <2> QED BY <1>7, <2>2
<1>9. id \notin ids BY <1>2, <1>4, <1>6, CallIdIsNew
<1>10. i = Len(closed) + 1 BY <1>5, <1>6, <1>7, ClosedLength
<1>11. PICK item : item = [Item("function_call", CallOf(h)) EXCEPT !.status = "completed"] OBVIOUS
<1>12. /\ IsItem(item) /\ item.type = "function_call" /\ item.text = <<>> /\ item.call.id = id
  BY <1>6, <1>11 DEF Item, CallOf, IsItem
<1>13. PICK a, b, c, d : /\ a = Added(i, "function_call")
                         /\ b = [ev |-> "delta", index |-> i, kind |-> "function_call", what |-> CallOf(h)]
                         /\ c = [ev |-> "done", index |-> i, what |-> CallOf(h)]
                         /\ d = ItemDone(i, item)
  OBVIOUS
<1>14. PICK r, z : r = s \o closing /\ z = <<a, b, c, d>> OBVIOUS
<1>15. Story(r \o z, Append(closed, item), FALSE, <<>>, prose, ids \cup {id}) /\ IsSeq(z)
  <2>1. a.ev = "output_item.added" /\ a.index = Len(closed) + 1 BY <1>10, <1>13 DEF Added
  <2>2. b.ev = "delta" /\ b.index = Len(closed) + 1 /\ b.kind = "function_call" BY <1>10, <1>13
  <2>3. c.ev = "done" /\ c.index = Len(closed) + 1 BY <1>10, <1>13
  <2>4. d.ev = "output_item.done" /\ d.index = Len(closed) + 1 /\ d.item = item BY <1>10, <1>13 DEF ItemDone
  <2>5. Story(r, closed, FALSE, <<>>, prose, ids) BY <1>8, <1>14
  <2>6. d.item.type = "function_call" /\ d.item.text = <<>> /\ d.item.call.id \notin ids
    BY <1>9, <1>12, <2>4
  <2>7. /\ Story(r \o <<a, b, c, d>>, Append(closed, d.item), FALSE, <<>>, prose, ids \cup {d.item.call.id})
        /\ IsSeq(<<a, b, c, d>>)
    BY <2>1, <2>2, <2>3, <2>4, <2>5, <2>6, StoryCalls
  <2> QED BY <1>12, <1>14, <2>4, <2>7
<1>16. PICK events : events = closing \o z OBVIOUS
<1>17. s \o events = r \o z /\ IsSeq(events) /\ IsSeq(s)
  <2>1. IsSeq(s) /\ IsSeq(closing) /\ IsSeq(z) BY <1>5, <1>6, <1>8, <1>15
  <2>2. s \o (closing \o z) = (s \o closing) \o z /\ IsSeq(closing \o z) BY <2>1, ConcatTwice, ConcatLemma
  <2> QED BY <1>14, <1>16, <2>1, <2>2
<1>18. \/ /\ Delivered(events) /\ Visited /\ Goes /\ Register(h)
          /\ outputs' = Append(closed, item) /\ active' = 0 /\ text' = <<>>
       \/ Broken(events)
  BY <1>1, <1>6, <1>7, <1>11, <1>13, <1>14, <1>16 DEF ResponsesTool
<1>19. CASE Broken(events)
  <2>1. ResponsesGood(out \o events) BY <1>6, <1>15, <1>17, StoryGood
  <2> QED BY <1>6, <1>17, <1>19, <2>1, ResponsesBroken
<1>20. CASE /\ Delivered(events) /\ Visited /\ Goes /\ Register(h)
            /\ outputs' = Append(closed, item) /\ active' = 0 /\ text' = <<>>
  <2>1. given' = Append(given, h) /\ protocol' = protocol /\ phase' = "walk" /\ out' = r \o z
    BY <1>1, <1>2, <1>6, <1>17, <1>20 DEF Visited, Goes, Delivered
  <2>2. DOMAIN used' = ids \cup {id} BY <1>6, <1>20 DEF Register, Remembered
  <2>3. ~Talks(h) BY <1>2 DEF Talks
  <2>4. PICK next : next = Append(closed, item) OBVIOUS
  <2>5. Listing(next, item)' /\ OpenText' = <<>> BY <1>20, <2>4 DEF Listing, OpenText
  <2>6. prose = IF Talks(h) THEN Append(Places(Prosaic), This) ELSE Places(Prosaic) BY <1>6, <2>3
  <2>7. Story(out', next, active' # 0, OpenText', prose, DOMAIN used')
    BY <1>15, <1>20, <2>1, <2>2, <2>4, <2>5
  <2> QED BY <1>3, <2>1, <2>5, <2>6, <2>7, ResponsesLinkVisit
<1> QED BY <1>18, <1>19, <1>20

\* startText: where a text is written, what is written before it and what the
\* item says already.
Target(h, type, i, items, pre, body) ==
  /\ type \in {"reasoning", "message"}
  /\ i = IF Continues(h) THEN active ELSE Len(outputs) + 1
  /\ items = IF Continues(h) THEN outputs ELSE Append(OutputsClosed("completed"), Item(type, None))
  /\ pre = IF Continues(h) THEN <<>> ELSE ClosingItem("completed") \o <<Added(i, type), PartAdded(i)>>
  /\ body = IF Continues(h) THEN text ELSE <<>>

\* The last of those items is open, with that text.
Aimed(s, i, items, pre, body, prose, ids) ==
  \E next, y : /\ Story(s \o pre, next, TRUE, body, prose, ids)
               /\ IsSeq(pre) /\ IsSeq(next) /\ i = Len(next) + 1 /\ items = Append(next, y)
               /\ IsItem(y) /\ y.type \in {"reasoning", "message"}

LEMMA ResponsesTarget ==
    ASSUME NEW dones, IsSeq(dones), NEW x, Listing(dones, x), NEW s, NEW prose, NEW ids,
           Story(s, dones, active # 0, OpenText, prose, ids),
           NEW h, NEW type, NEW i, NEW items, NEW pre, NEW body, Target(h, type, i, items, pre, body)
    PROVE  Aimed(s, i, items, pre, body, prose, ids)
<1>0. /\ type \in {"reasoning", "message"}
      /\ i = IF Continues(h) THEN active ELSE Len(outputs) + 1
      /\ items = IF Continues(h) THEN outputs ELSE Append(OutputsClosed("completed"), Item(type, None))
      /\ pre = IF Continues(h) THEN <<>> ELSE ClosingItem("completed") \o <<Added(i, type), PartAdded(i)>>
      /\ body = IF Continues(h) THEN text ELSE <<>>
  BY DEF Target
<1>1. CASE Continues(h)
  <2>1. active # 0 BY <1>1 DEF Continues
  <2>2. /\ outputs = Append(dones, x) /\ active = Len(dones) + 1
        /\ IsItem(x) /\ x.type \in {"reasoning", "message"} /\ OpenText = text
    BY <2>1 DEF Listing, OpenText
  <2>3. s \o <<>> = s BY NothingMore DEF Story, Told
  <2>4. body = text BY <1>0, <1>1
  <2>5. Story(s, dones, TRUE, body, prose, ids) BY <2>1, <2>2, <2>4
  <2>6. pre = <<>> /\ i = Len(dones) + 1 /\ items = Append(dones, x) BY <1>0, <1>1, <2>2
  <2>7. Story(s \o pre, dones, TRUE, body, prose, ids) BY <2>3, <2>5, <2>6
  <2> QED BY <2>2, <2>6, <2>7, EmptyIsSeq DEF Aimed
<1>2. CASE ~Continues(h)
  <2>1. PICK closing, closed, y : /\ closing = ClosingItem("completed") /\ closed = OutputsClosed("completed")
                                  /\ y = Item(type, None)
    OBVIOUS
  <2>2. Story(s \o closing, closed, FALSE, <<>>, prose, ids) /\ IsSeq(closing)
    <3>1. /\ Story(s \o ClosingItem("completed"), OutputsClosed("completed"), FALSE, <<>>, prose, ids)
          /\ IsSeq(ClosingItem("completed"))
      BY StoryClosed
    <3> QED BY <2>1, <3>1
  <2>3. i = Len(closed) + 1 BY <1>0, <1>2, <2>1, ClosedLength
  <2>4. IsSeq(s) /\ IsSeq(closed) BY <2>2 DEF Story, Told, Listed
  <2>5. PICK a, b : a = Added(i, type) /\ b = PartAdded(i) OBVIOUS
  <2>6. /\ a.ev = "output_item.added" /\ a.index = Len(closed) + 1
        /\ b.ev = "content_part.added" /\ b.index = Len(closed) + 1
    BY <2>3, <2>5 DEF Added, PartAdded
  <2>7. ~Tells(b) BY <2>6 DEF Tells
  <2>8. PICK r, t, u, z : r = s \o closing /\ t = Append(r, a) /\ u = Append(t, b) /\ z = <<a, b>> OBVIOUS
  <2>9. Story(r, closed, FALSE, <<>>, prose, ids) /\ IsSeq(r) BY <2>2, <2>8 DEF Story, Told
  <2>10. Story(t, closed, TRUE, <<>>, prose, ids) BY <2>6, <2>8, <2>9, StoryOpens
  <2>11. Story(u, closed, TRUE, <<>>, prose, ids) BY <2>6, <2>7, <2>8, <2>10, StoryGrown
  <2>12. r \o z = u /\ IsSeq(z) BY <2>8, <2>9, TwoMore, TwoElements
  <2>13. pre = closing \o z BY <1>0, <1>2, <2>1, <2>5, <2>8
  <2>14. s \o (closing \o z) = (s \o closing) \o z /\ IsSeq(closing \o z)
    <3>1. IsSeq(closing) /\ IsSeq(s) /\ IsSeq(z) BY <2>2, <2>4, <2>12
    <3> QED BY <3>1, ConcatTwice, ConcatLemma
  <2>15. s \o pre = u /\ IsSeq(pre) BY <2>8, <2>12, <2>13, <2>14
  <2>16. IsItem(y) /\ y.type = type BY <2>1 DEF IsItem, Item
  <2>17. items = Append(closed, y) BY <1>0, <1>2, <2>1
  <2>18. Story(s \o pre, closed, TRUE, body, prose, ids) BY <1>0, <1>2, <2>11, <2>15
  <2> QED BY <1>0, <2>3, <2>4, <2>15, <2>16, <2>17, <2>18 DEF Aimed
<1> QED BY <1>1, <1>2

LEMMA ResponsesTextLink ==
    ASSUME WalkInv, Registry, ResponsesLink, protocol = "responses", ResponsesText
    PROVE  IF Running' THEN ResponsesLink' ELSE AnswerIsKept'
<1>1. PICK h : h = Head(todo) OBVIOUS
<1>2. phase = "walk" /\ todo # <<>> /\ h.kind \in {"text", "thought"} /\ h.body
  BY <1>1 DEF ResponsesText, Visiting
<1>3. IsSeq(given) BY DEF WalkInv
<1>4. PICK dones, x : /\ Listing(dones, x) /\ IsSeq(dones) /\ IsSeq(out)
                      /\ Story(out, dones, active # 0, OpenText, Places(Prosaic), DOMAIN used)
  BY <1>2, ResponsesHolds
<1>5. PICK s, prose, ids, k, type : /\ s = out /\ prose = Places(Prosaic) /\ ids = DOMAIN used /\ k = This
                                    /\ type = TypeOf(h.kind)
  OBVIOUS
<1>6. type \in {"reasoning", "message"} BY <1>5 DEF TypeOf
<1>7. PICK i : i = IF Continues(h) THEN active ELSE Len(outputs) + 1 OBVIOUS
<1>8. PICK items, pre, body :
        /\ items = IF Continues(h) THEN outputs ELSE Append(OutputsClosed("completed"), Item(type, None))
        /\ pre = IF Continues(h) THEN <<>> ELSE ClosingItem("completed") \o <<Added(i, type), PartAdded(i)>>
        /\ body = IF Continues(h) THEN text ELSE <<>>
  OBVIOUS
<1>9. PICK next, y : /\ Story(s \o pre, next, TRUE, body, prose, ids)
                     /\ IsSeq(pre) /\ IsSeq(next) /\ i = Len(next) + 1 /\ items = Append(next, y)
                     /\ IsItem(y) /\ y.type \in {"reasoning", "message"}
  <2>1. Story(s, dones, active # 0, OpenText, prose, ids) BY <1>4, <1>5
  <2>2. Target(h, type, i, items, pre, body) BY <1>6, <1>7, <1>8 DEF Target
  <2>3. IsSeq(dones) /\ Listing(dones, x) BY <1>4
  <2>4. Aimed(s, i, items, pre, body, prose, ids) BY <2>1, <2>2, <2>3, ResponsesTarget
  <2> QED BY <2>4 DEF Aimed
<1>10. PICK e, r, z : e = TextDelta(i, type) /\ r = s \o pre /\ z = <<e>> OBVIOUS
<1>11. e.ev = "delta" /\ e.index = Len(next) + 1 /\ e.kind = type /\ e.what = k BY <1>5, <1>9, <1>10 DEF TextDelta
<1>12. Tells(e) BY <1>6, <1>11 DEF Tells
<1>13. Story(Append(r, e), next, TRUE, Append(body, k), Append(prose, k), ids)
  <2>1. Story(r, next, TRUE, body, prose, ids) BY <1>9, <1>10
  <2>2. Story(Append(r, e), next, TRUE, IF Tells(e) THEN Append(body, e.what) ELSE body,
              IF Tells(e) THEN Append(prose, e.what) ELSE prose, ids)
    BY <1>11, <2>1, StoryGrown
  <2> QED BY <1>11, <1>12, <2>2
<1>14. PICK events : events = pre \o z OBVIOUS
<1>15. s \o events = Append(r, e) /\ IsSeq(events) /\ IsSeq(s)
  <2>1. IsSeq(s) /\ IsSeq(pre) /\ IsSeq(z) /\ IsSeq(r)
    BY <1>4, <1>5, <1>9, <1>10, OneElement DEF Story, Told
  <2>2. s \o (pre \o z) = (s \o pre) \o z /\ IsSeq(pre \o z) BY <2>1, ConcatTwice, ConcatLemma
  <2>3. r \o <<e>> = Append(r, e) BY <2>1, OneMore
  <2> QED BY <1>10, <1>14, <2>1, <2>2, <2>3
<1>16. \/ /\ Delivered(events) /\ Visited /\ Goes /\ UNCHANGED used
          /\ outputs' = Signed(items, i, h.sig) /\ active' = i /\ text' = Append(body, This)
       \/ Broken(events)
  BY <1>1, <1>5, <1>7, <1>8, <1>10, <1>14 DEF ResponsesText
<1>17. CASE Broken(events)
  <2>1. ResponsesGood(out \o events) BY <1>5, <1>13, <1>15, StoryGood
  <2> QED BY <1>5, <1>15, <1>17, <2>1, ResponsesBroken
<1>18. CASE /\ Delivered(events) /\ Visited /\ Goes /\ UNCHANGED used
            /\ outputs' = Signed(items, i, h.sig) /\ active' = i /\ text' = Append(body, This)
  <2>1. given' = Append(given, h) /\ protocol' = protocol /\ phase' = "walk" /\ out' = Append(r, e)
    BY <1>1, <1>2, <1>5, <1>15, <1>18 DEF Visited, Goes, Delivered
  <2>2. PICK sig : sig = h.sig OBVIOUS
  <2>3. PICK w : /\ Signed(Append(next, y), Len(next) + 1, sig) = Append(next, w)
                 /\ IsItem(w) /\ w.type = y.type
    BY <1>9, StorySigned
  <2>4. outputs' = Append(next, w) /\ active' = Len(next) + 1 /\ active' # 0
    BY <1>9, <1>18, <2>2, <2>3, SeqFacts
  <2>5. Listing(next, w)' /\ OpenText' = Append(body, k)
    BY <1>5, <1>9, <1>18, <2>3, <2>4 DEF Listing, OpenText, IsItem
  <2>6. PICK more : more = Append(prose, k) OBVIOUS
  <2>7. more = IF Talks(h) THEN Append(Places(Prosaic), This) ELSE Places(Prosaic)
    BY <1>2, <1>5, <2>6 DEF Talks
  <2>8. Story(out', next, active' # 0, OpenText', more, DOMAIN used')
    BY <1>5, <1>13, <1>18, <2>1, <2>4, <2>5, <2>6
  <2> QED BY <1>3, <2>1, <2>5, <2>7, <2>8, ResponsesLinkVisit
<1> QED BY <1>16, <1>17, <1>18

LEMMA ResponsesStepLink ==
    ASSUME WalkInv, Registry, Registry', ResponsesLink, ResponsesStep
    PROVE  IF Running' THEN ResponsesLink' ELSE AnswerIsKept'
<1>1. protocol = "responses" /\ ResponsesNext BY DEF ResponsesStep
<1>2. CASE (phase = "prepare" \/ out # <<>>) /\ WalkNext /\ UNCHANGED responsesVars BY <1>1, <1>2, ResponsesWalkLink
<1>3. CASE ResponsesBegins BY <1>1, <1>3, ResponsesBeginsLink
<1>4. CASE ResponsesCandidate BY <1>1, <1>4, ResponsesCandidateLink
<1>5. CASE ResponsesTool BY <1>1, <1>5, ResponsesToolLink
<1>6. CASE ResponsesText BY <1>1, <1>6, ResponsesTextLink
<1>7. CASE ResponsesSignature BY <1>1, <1>7, ResponsesSignatureLink
<1>8. CASE ResponsesEnd BY <1>1, <1>8, ResponsesEndLink
<1> QED BY <1>1, <1>2, <1>3, <1>4, <1>5, <1>6, <1>7, <1>8 DEF ResponsesNext

LEMMA ResponsesLinkStart ==
    ASSUME ResponsesInit, given = <<>>, todo = <<>>, used = <<>>, out = <<>>, phase \in {"prepare", "walk"}
    PROVE  ResponsesLink
  BY DEF ResponsesLink, ResponsesInit

-----------------------------------------------------------------------------
(* The parts that are collected of a candidate. *)

IsPart(q) == q = [kind |-> q.kind, text |-> q.text, sig |-> q.sig, id |-> q.id, name |-> q.name] /\ IsSeq(q.text)

AreParts(parts) == IsSeq(parts) /\ \A k \in DOMAIN parts : IsPart(parts[k])

TextBy(q, kinds) == IF q.kind \in kinds THEN q.text ELSE <<>>

TextsBy(parts, kinds) == [k \in DOMAIN parts |-> TextBy(parts[k], kinds)]

\* What the parts of these kinds tell.
Speech(parts, kinds) == FlattenSeq(TextsBy(parts, kinds))

LEMMA TextsByParts ==
    ASSUME NEW parts, AreParts(parts), NEW kinds
    PROVE  /\ AreLists(TextsBy(parts, kinds)) /\ Len(TextsBy(parts, kinds)) = Len(parts)
           /\ DOMAIN TextsBy(parts, kinds) = DOMAIN parts
           /\ \A k \in DOMAIN parts : TextsBy(parts, kinds)[k] = TextBy(parts[k], kinds)
           /\ Speech(parts, kinds) = FlattenSeq(TextsBy(parts, kinds))
           /\ \A kind : TextsOf(parts, kind) = Speech(parts, {kind})
<1>1. PICK ss : ss = TextsBy(parts, kinds) OBVIOUS
<1>2. ss = [k \in DOMAIN parts |-> ss[k]] BY <1>1 DEF TextsBy
<1>3. IsSeq(parts) BY DEF AreParts
<1>4. IsSeq(ss) /\ Len(ss) = Len(parts) /\ DOMAIN ss = DOMAIN parts BY <1>2, <1>3, MapSeq
<1>5. \A k \in DOMAIN parts : ss[k] = TextBy(parts[k], kinds) BY <1>1 DEF TextsBy
<1>6. \A k \in DOMAIN ss : IsSeq(ss[k])
  <2> SUFFICES ASSUME NEW k \in DOMAIN ss PROVE IsSeq(ss[k]) OBVIOUS
  <2>1. IsSeq(parts[k].text) BY <1>4 DEF AreParts, IsPart
  <2> QED BY <1>4, <1>5, <2>1, EmptyIsSeq DEF TextBy
<1>7. Speech(parts, kinds) = FlattenSeq(ss) BY <1>1 DEF Speech
<1>8. ASSUME NEW kind PROVE TextsOf(parts, kind) = Speech(parts, {kind})
  <2>1. TextsBy(parts, {kind}) = [k \in DOMAIN parts |-> IF parts[k].kind = kind THEN parts[k].text ELSE <<>>]
    BY DEF TextsBy, TextBy
  <2> QED BY <2>1 DEF TextsOf, Speech
<1> QED BY <1>1, <1>4, <1>5, <1>6, <1>7, <1>8 DEF AreLists

\* One more list or part, or more of the last one.
Longer(tt, ss, n, x) ==
  /\ Len(tt) = n + 1 /\ Len(ss) \in {n, n + 1} /\ \A i \in 1..n : tt[i] = ss[i]
  /\ tt[n + 1] = IF Len(ss) = n THEN x ELSE ss[n + 1] \o x

LEMMA FlattenLonger ==
    ASSUME NEW ss, AreLists(ss), NEW tt, AreLists(tt), NEW n \in Nat, NEW x, IsSeq(x), Longer(tt, ss, n, x)
    PROVE  FlattenSeq(tt) = FlattenSeq(ss) \o x
<1>1. Len(tt) = n + 1 /\ Len(ss) \in {n, n + 1} BY DEF Longer
<1>2. \A i \in 1..n : tt[i] = ss[i] BY DEF Longer
<1>3. tt[n + 1] = IF Len(ss) = n THEN x ELSE ss[n + 1] \o x BY DEF Longer
<1> QED BY <1>1, <1>2, <1>3, FlattenMore

MoreText(next, parts, kinds, n, x) ==
  /\ Len(next) = n + 1 /\ Len(parts) \in {n, n + 1} /\ \A i \in 1..n : next[i] = parts[i]
  /\ TextBy(next[n + 1], kinds) = IF Len(parts) = n THEN x ELSE TextBy(parts[n + 1], kinds) \o x

LEMMA TextsOfMore ==
    ASSUME NEW parts, AreParts(parts), NEW next, AreParts(next), NEW n \in Nat, NEW kinds, NEW x, IsSeq(x),
           MoreText(next, parts, kinds, n, x)
    PROVE  Speech(next, kinds) = Speech(parts, kinds) \o x
<1>1. PICK ss, tt : ss = TextsBy(parts, kinds) /\ tt = TextsBy(next, kinds) OBVIOUS
<1>2. /\ AreLists(ss) /\ Len(ss) = Len(parts) /\ \A k \in DOMAIN parts : ss[k] = TextBy(parts[k], kinds)
      /\ Speech(parts, kinds) = FlattenSeq(ss)
  BY <1>1, TextsByParts
<1>3. /\ AreLists(tt) /\ Len(tt) = Len(next) /\ \A k \in DOMAIN next : tt[k] = TextBy(next[k], kinds)
      /\ Speech(next, kinds) = FlattenSeq(tt)
  BY <1>1, TextsByParts
<1>4. /\ Len(next) = n + 1 /\ Len(parts) \in {n, n + 1} /\ \A i \in 1..n : next[i] = parts[i]
      /\ TextBy(next[n + 1], kinds) = IF Len(parts) = n THEN x ELSE TextBy(parts[n + 1], kinds) \o x
  BY DEF MoreText
<1>5. DOMAIN parts = 1..Len(parts) /\ DOMAIN next = 1..(n + 1) BY <1>4, SeqFacts DEF AreParts
<1>a. PICK m \in Nat : m = Len(parts) BY SeqFacts DEF AreParts
<1>b. DOMAIN parts = 1..m /\ (m = n \/ m = n + 1) BY <1>4, <1>5, <1>a
<1>6. \A i \in 1..n : tt[i] = ss[i]
  <2> SUFFICES ASSUME NEW i \in 1..n PROVE tt[i] = ss[i] OBVIOUS
  <2>1. i \in DOMAIN parts /\ i \in DOMAIN next BY <1>5, <1>b
  <2> QED BY <1>2, <1>3, <1>4, <2>1
<1>7. tt[n + 1] = IF Len(ss) = n THEN x ELSE ss[n + 1] \o x
  <2>1. n + 1 \in DOMAIN next /\ (m # n => n + 1 \in DOMAIN parts) BY <1>5, <1>b
  <2> QED BY <1>2, <1>3, <1>4, <1>a, <2>1
<1>8. Longer(tt, ss, n, x) BY <1>2, <1>3, <1>4, <1>6, <1>7 DEF Longer
<1>9. FlattenSeq(tt) = FlattenSeq(ss) \o x BY <1>2, <1>3, <1>8, FlattenLonger
<1> QED BY <1>2, <1>3, <1>9

\* What is visited makes a part of its own or goes on with the last one.
Extends(next, parts, p, id, place) ==
  /\ parts # <<>> /\ p.kind # "tool" /\ p.body /\ parts[Len(parts)].kind = p.kind
  /\ next = [parts EXCEPT ![Len(parts)].text = Append(parts[Len(parts)].text, place)]

NewPart(p, id, place) ==
  [kind |-> p.kind, text |-> IF p.body THEN <<place>> ELSE <<>>, sig |-> p.sig, id |-> id, name |-> p.call]

Appends(next, parts, p, id, place) == next = Append(parts, NewPart(p, id, place))

Adds(next, parts, p, id, place) == Extends(next, parts, p, id, place) \/ Appends(next, parts, p, id, place)

LEMMA WithPartAdds == ASSUME NEW parts, NEW p, NEW id PROVE Adds(WithPart(parts, p, id), parts, p, id, This)
<1>1. CASE Joins(parts, p)
  <2>1. WithPart(parts, p, id) = [parts EXCEPT ![Len(parts)].text = Append(parts[Len(parts)].text, This)]
    BY <1>1 DEF WithPart
  <2>2. parts # <<>> /\ p.kind # "tool" /\ p.body /\ parts[Len(parts)].kind = p.kind BY <1>1 DEF Joins, Last
  <2> QED BY <2>1, <2>2 DEF Adds, Extends
<1>2. CASE ~Joins(parts, p) BY <1>2 DEF WithPart, Adds, Appends, SavedPart, NewPart
<1> QED BY <1>1, <1>2

\* A call among some parts, in its place.
Called(parts, k, id) == k \in DOMAIN parts /\ parts[k].kind = "tool" /\ parts[k].id = id

LEMMA PartExtended ==
    ASSUME NEW parts, AreParts(parts), NEW next, NEW p, NEW id, NEW place, Extends(next, parts, p, id, place)
    PROVE  /\ AreParts(next)
           /\ \A k, c : Called(next, k, c) <=> Called(parts, k, c)
           /\ \A kinds : Speech(next, kinds) = IF p.kind \in kinds THEN Append(Speech(parts, kinds), place)
                                              ELSE Speech(parts, kinds)
<1>1. IsSeq(parts) /\ parts # <<>> BY DEF AreParts, Extends
<1>2. PICK m \in Nat : m = Len(parts) /\ DOMAIN parts = 1..m BY <1>1, SeqFacts
<1>3. m # 0
  <2>1. ASSUME m = 0 PROVE FALSE
    <3>1. parts = <<>> BY <1>1, <1>2, <2>1 DEF IsSeq
    <3> QED BY <1>1, <3>1
  <2> QED BY <2>1
<1>4. PICK n \in Nat : m = n + 1
  <2>1. m - 1 \in Nat /\ m = (m - 1) + 1 BY <1>3
  <2> QED BY <2>1
<1>5. PICK q : q = parts[m] OBVIOUS
<1>6. PICK body : body = Append(q.text, place) OBVIOUS
<1>7. m \in DOMAIN parts BY <1>2, <1>3
<1>8. q = [kind |-> q.kind, text |-> q.text, sig |-> q.sig, id |-> q.id, name |-> q.name] /\ IsSeq(q.text)
  BY <1>5, <1>7 DEF AreParts, IsPart
<1>9. PICK r : r = [kind |-> q.kind, text |-> body, sig |-> q.sig, id |-> q.id, name |-> q.name] OBVIOUS
<1>10. next = [parts EXCEPT ![m] = r]
  <2>1. next = [parts EXCEPT ![m].text = body] BY <1>2, <1>5, <1>6 DEF Extends
  <2>2. next = [parts EXCEPT ![m] = [q EXCEPT !.text = body]] BY <1>5, <2>1
  <2>3. [q EXCEPT !.text = body] = r BY <1>8, <1>9
  <2> QED BY <2>2, <2>3
<1>11. DOMAIN next = DOMAIN parts /\ next[m] = r /\ \A i \in 1..n : next[i] = parts[i]
  <2>1. \A i \in 1..n : i \in DOMAIN parts /\ i # m BY <1>2, <1>4
  <2> QED BY <1>7, <1>10, <2>1
<1>12. next = [i \in DOMAIN parts |-> next[i]] BY <1>10
<1>13. IsSeq(next) /\ Len(next) = m BY <1>1, <1>2, <1>12, MapSeq
<1>14. IsSeq(body) BY <1>6, <1>8, AppendItem
<1>15. IsPart(r) BY <1>9, <1>14 DEF IsPart
<1>16. AreParts(next)
  <2> SUFFICES ASSUME NEW k \in DOMAIN next PROVE IsPart(next[k]) BY <1>13 DEF AreParts
  <2>1. k = m \/ k \in 1..n BY <1>2, <1>4, <1>11
  <2>2. IsPart(parts[k]) BY <1>11 DEF AreParts
  <2> QED BY <1>11, <1>15, <2>1, <2>2
<1>17. ASSUME NEW k, NEW c PROVE Called(next, k, c) <=> Called(parts, k, c)
  <2>1. k \in DOMAIN parts => k = m \/ k \in 1..n BY <1>2, <1>4
  <2>2. r.kind = q.kind /\ r.id = q.id BY <1>9
  <2> QED BY <1>5, <1>11, <2>1, <2>2 DEF Called
<1>18. ASSUME NEW kinds
       PROVE  Speech(next, kinds) = IF p.kind \in kinds THEN Append(Speech(parts, kinds), place) ELSE Speech(parts, kinds)
  <2>1. q.kind = p.kind BY <1>2, <1>5 DEF Extends
  <2>2. Len(next) = n + 1 /\ Len(parts) = n + 1 BY <1>2, <1>4, <1>13
  <2>3. IsSeq(Speech(parts, kinds)) BY TextsByParts, FlattenLemma DEF AreLists
  <2>4. CASE p.kind \in kinds
    <3>1. PICK x : x = <<place>> /\ IsSeq(x) BY OneElement
    <3>2. TextBy(r, kinds) = body /\ TextBy(q, kinds) = q.text BY <1>9, <2>1, <2>4 DEF TextBy
    <3>3. body = q.text \o x BY <1>6, <1>8, <3>1, OneMore
    <3>4. TextBy(next[n + 1], kinds) = IF Len(parts) = n THEN x ELSE TextBy(parts[n + 1], kinds) \o x
      BY <1>4, <1>5, <1>11, <2>2, <3>2, <3>3
    <3>5. Speech(next, kinds) = Speech(parts, kinds) \o x
      <4>1. MoreText(next, parts, kinds, n, x) BY <1>11, <2>2, <3>4 DEF MoreText
      <4>2. IsSeq(x) BY <3>1
      <4> QED BY <1>16, <4>1, <4>2, TextsOfMore
    <3> QED BY <2>3, <2>4, <3>1, <3>5, OneMore
  <2>5. CASE p.kind \notin kinds
    <3>1. PICK x : x = <<>> /\ IsSeq(x) BY EmptyIsSeq
    <3>2. TextBy(r, kinds) = <<>> /\ TextBy(q, kinds) = <<>> BY <1>9, <2>1, <2>5 DEF TextBy
    <3>3. <<>> = <<>> \o x BY <3>1, NothingMore
    <3>4. TextBy(next[n + 1], kinds) = IF Len(parts) = n THEN x ELSE TextBy(parts[n + 1], kinds) \o x
      BY <1>4, <1>5, <1>11, <2>2, <3>2, <3>3
    <3>5. Speech(next, kinds) = Speech(parts, kinds) \o x
      <4>1. MoreText(next, parts, kinds, n, x) BY <1>11, <2>2, <3>4 DEF MoreText
      <4>2. IsSeq(x) BY <3>1
      <4> QED BY <1>16, <4>1, <4>2, TextsOfMore
    <3> QED BY <2>3, <2>5, <3>1, <3>5, NothingMore
  <2> QED BY <2>4, <2>5
<1> QED BY <1>16, <1>17, <1>18

LEMMA PartAppended ==
    ASSUME NEW parts, AreParts(parts), NEW next, NEW p, NEW id, NEW place, Appends(next, parts, p, id, place)
    PROVE  /\ AreParts(next)
           /\ \A k, c : Called(next, k, c) <=>
                          Called(parts, k, c) \/ (p.kind = "tool" /\ k = Len(parts) + 1 /\ c = id)
           /\ \A kinds : Speech(next, kinds) = IF p.kind \in kinds /\ p.body THEN Append(Speech(parts, kinds), place)
                                              ELSE Speech(parts, kinds)
<1>1. IsSeq(parts) BY DEF AreParts
<1>2. PICK n \in Nat : n = Len(parts) /\ DOMAIN parts = 1..n BY <1>1, SeqFacts
<1>3. PICK y : y = NewPart(p, id, place) OBVIOUS
<1>4. y.kind = p.kind /\ y.id = id /\ y.text = IF p.body THEN <<place>> ELSE <<>> BY <1>3 DEF NewPart
<1>5. IsPart(y)
  <2>1. IsSeq(y.text) BY <1>4, EmptyIsSeq, OneElement
  <2>2. y = [kind |-> y.kind, text |-> y.text, sig |-> y.sig, id |-> y.id, name |-> y.name] BY <1>3 DEF NewPart
  <2> QED BY <2>1, <2>2 DEF IsPart
<1>6. next = Append(parts, y) BY <1>3 DEF Appends
<1>7. Grown(next, parts, y) BY <1>1, <1>6, GrownAppend
<1>8. IsSeq(next) /\ Len(next) = n + 1 /\ next[n + 1] = y /\ \A i \in 1..n : next[i] = parts[i] BY <1>2, <1>7 DEF Grown
<1>9. DOMAIN next = 1..(n + 1) BY <1>8, SeqFacts
<1>10. AreParts(next)
  <2> SUFFICES ASSUME NEW k \in DOMAIN next PROVE IsPart(next[k]) BY <1>8 DEF AreParts
  <2>1. k = n + 1 \/ k \in 1..n BY <1>9
  <2>2. k \in 1..n => IsPart(parts[k]) BY <1>2 DEF AreParts
  <2> QED BY <1>5, <1>8, <2>1, <2>2
<1>11. ASSUME NEW k, NEW c
       PROVE Called(next, k, c) <=> Called(parts, k, c) \/ (p.kind = "tool" /\ k = Len(parts) + 1 /\ c = id)
  <2>1. k \in DOMAIN next <=> k \in DOMAIN parts \/ k = n + 1 BY <1>2, <1>9
  <2>2. k \in DOMAIN parts => k # n + 1 /\ next[k] = parts[k] BY <1>2, <1>8
  <2>3. CASE k \in DOMAIN parts BY <1>2, <2>1, <2>2, <2>3 DEF Called
  <2>4. CASE k = n + 1 BY <1>2, <1>4, <1>8, <2>1, <2>2, <2>4 DEF Called
  <2>5. CASE k \notin DOMAIN next BY <1>2, <2>1, <2>5 DEF Called
  <2> QED BY <2>1, <2>3, <2>4, <2>5
<1>12. ASSUME NEW kinds
       PROVE  Speech(next, kinds) = IF p.kind \in kinds /\ p.body THEN Append(Speech(parts, kinds), place)
                                    ELSE Speech(parts, kinds)
  <2>1. PICK x : x = IF p.kind \in kinds /\ p.body THEN <<place>> ELSE <<>> OBVIOUS
  <2>2. IsSeq(x) BY <2>1, EmptyIsSeq, OneElement
  <2>3. TextBy(next[n + 1], kinds) = x BY <1>4, <1>8, <2>1 DEF TextBy
  <2>4. TextBy(next[n + 1], kinds) = IF Len(parts) = n THEN x ELSE TextBy(parts[n + 1], kinds) \o x BY <1>2, <2>3
  <2>5. Speech(next, kinds) = Speech(parts, kinds) \o x
    <3>1. MoreText(next, parts, kinds, n, x) BY <1>2, <1>8, <2>4 DEF MoreText
    <3> QED BY <1>10, <2>2, <3>1, TextsOfMore
  <2>6. IsSeq(Speech(parts, kinds)) BY TextsByParts, FlattenLemma DEF AreLists
  <2> QED BY <2>1, <2>5, <2>6, OneMore, NothingMore
<1> QED BY <1>10, <1>11, <1>12

LEMMA PartsResigned ==
    ASSUME NEW parts, AreParts(parts), NEW next, next = [k \in DOMAIN parts |-> next[k]],
           \A k \in DOMAIN parts : next[k] = parts[k] \/ \E sig : next[k] = [parts[k] EXCEPT !.sig = sig]
    PROVE  /\ AreParts(next)
           /\ \A k, c : Called(next, k, c) <=> Called(parts, k, c)
           /\ \A kinds : Speech(next, kinds) = Speech(parts, kinds)
<1>1. IsSeq(parts) BY DEF AreParts
<1>2. IsSeq(next) /\ DOMAIN next = DOMAIN parts BY <1>1, MapSeq
<1>3. ASSUME NEW k \in DOMAIN parts
      PROVE  IsPart(next[k]) /\ next[k].kind = parts[k].kind /\ next[k].id = parts[k].id /\ next[k].text = parts[k].text
  <2>1. PICK q, r : q = parts[k] /\ r = next[k] OBVIOUS
  <2>2. q = [kind |-> q.kind, text |-> q.text, sig |-> q.sig, id |-> q.id, name |-> q.name] /\ IsSeq(q.text)
    BY <2>1 DEF AreParts, IsPart
  <2>3. r = q \/ \E sig : r = [q EXCEPT !.sig = sig] BY <2>1
  <2>4. CASE r = q BY <2>1, <2>2, <2>4 DEF IsPart
  <2>5. CASE \E sig : r = [q EXCEPT !.sig = sig]
    <3>1. PICK sig : r = [q EXCEPT !.sig = sig] BY <2>5
    <3>2. r = [kind |-> q.kind, text |-> q.text, sig |-> sig, id |-> q.id, name |-> q.name] BY <2>2, <3>1
    <3> QED BY <2>1, <2>2, <3>2 DEF IsPart
  <2> QED BY <2>3, <2>4, <2>5
<1>4. AreParts(next) BY <1>2, <1>3 DEF AreParts
<1>5. \A k, c : Called(next, k, c) <=> Called(parts, k, c) BY <1>2, <1>3 DEF Called
<1>6. ASSUME NEW kinds PROVE Speech(next, kinds) = Speech(parts, kinds)
  <2>1. \A k \in DOMAIN parts : TextBy(next[k], kinds) = TextBy(parts[k], kinds) BY <1>3 DEF TextBy
  <2>2. TextsBy(next, kinds) = TextsBy(parts, kinds) BY <1>2, <2>1 DEF TextsBy
  <2>3. Speech(next, kinds) = FlattenSeq(TextsBy(next, kinds)) BY <1>4, TextsByParts
  <2>4. Speech(parts, kinds) = FlattenSeq(TextsBy(parts, kinds)) BY TextsByParts
  <2> QED BY <2>2, <2>3, <2>4
<1> QED BY <1>4, <1>5, <1>6

LEMMA NoParts == AreParts(<<>>) /\ (\A k, c : ~Called(<<>>, k, c)) /\ \A kinds : Speech(<<>>, kinds) = <<>>
<1>1. IsSeq(<<>>) /\ DOMAIN <<>> = {} /\ Len(<<>>) = 0 BY EmptyIsSeq
<1>2. AreParts(<<>>) BY <1>1 DEF AreParts
<1>3. \A k, c : ~Called(<<>>, k, c) BY <1>1 DEF Called
<1>4. ASSUME NEW kinds PROVE Speech(<<>>, kinds) = <<>>
  <2>1. PICK ss : ss = TextsBy(<<>>, kinds) OBVIOUS
  <2>2. AreLists(ss) /\ Len(ss) = 0 /\ Speech(<<>>, kinds) = FlattenSeq(ss) BY <1>1, <1>2, <2>1, TextsByParts
  <2>3. PICK f : Joined(f, ss) BY <2>2, FlattenUnrolled DEF AreLists
  <2> QED BY <2>2, <2>3 DEF Joined
<1> QED BY <1>2, <1>3, <1>4

-----------------------------------------------------------------------------
(* The blocks of a message, whatever parts were collected. *)

BlockOf(q, sig) == [type |-> q.kind, text |-> q.text, id |-> q.id, name |-> q.name, sig |-> sig]

BlockOp(acc, q) ==
  LET lastThinking == acc # <<>> /\ Last(acc).type = "thought"
  IN  CASE q.kind = "tool" \/ q.text # <<>> ->
             Append(acc, [type |-> q.kind, text |-> q.text, id |-> q.id, name |-> q.name,
                          sig |-> IF q.kind = "text" THEN None ELSE q.sig])
        [] OTHER -> IF lastThinking /\ q.sig # None THEN [acc EXCEPT ![Len(acc)].sig = q.sig] ELSE acc

\* The blocks that can be made of some parts.
BlocksOf(parts) == {BlockOf(q, sig) : q \in ToSet(parts), sig \in {None} \cup {q.sig : q \in ToSet(parts)}}

\* The steps of a message.
Built(f, parts) ==
  /\ f[0] = <<>> /\ f[Len(parts)] = Blocks(parts)
  /\ \A i \in 0..Len(parts) : f[i] \in Seq(BlocksOf(parts))
  /\ \A i \in 1..Len(parts) : f[i] = BlockOp(f[i - 1], parts[i])

LEMMA BlocksUnrolled == ASSUME NEW parts, IsSeq(parts) PROVE \E f : Built(f, parts)
<1> DEFINE n == Len(parts)
           Made(q, sig) == [type |-> q.kind, text |-> q.text, id |-> q.id, name |-> q.name, sig |-> sig]
           Sigs == {None} \cup {q.sig : q \in ToSet(parts)}
           U == {Made(q, sig) : q \in ToSet(parts), sig \in Sigs}
           V == Seq(U)
           F == [w \in V \X (1..n) |-> BlockOp(w[1], parts[w[2]])]
           Solves(h) == h = [T \in SUBSET (1..n) |->
                               IF T = {} THEN <<>> ELSE BlockOp(h[T \ {Max(T)}], parts[Max(T)])]
<1>a. Blocks(parts) = FoldLeft(LAMBDA acc, q : BlockOp(acc, q), <<>>, parts) BY DEF Blocks, BlockOp
<1>1. n \in Nat /\ DOMAIN parts = 1..n /\ \A i \in 1..n : parts[i] \in ToSet(parts) BY SeqFacts DEF ToSet
<1>2. <<>> \in V OBVIOUS
<1>b. \A q \in ToSet(parts), sig \in Sigs : Made(q, sig) \in U
  <2> HIDE DEF Made, Sigs
  <2> QED OBVIOUS
<1>c. ASSUME NEW acc \in V, NEW q \in ToSet(parts) PROVE BlockOp(acc, q) \in V
  <2>1. \A sig \in Sigs : Made(q, sig) \in U
    <3> HIDE DEF Made, Sigs, U
    <3> QED BY <1>b
  <2>2. (IF q.kind = "text" THEN None ELSE q.sig) \in Sigs OBVIOUS
  <2>3. Append(acc, Made(q, IF q.kind = "text" THEN None ELSE q.sig)) \in V
    <3> HIDE DEF U, Made
    <3> QED BY <2>1, <2>2
  <2>4. ASSUME acc # <<>> PROVE [acc EXCEPT ![Len(acc)].sig = q.sig] \in V
    <3> DEFINE k == Len(acc)
               x == [acc[k] EXCEPT !.sig = q.sig]
    <3>1. k \in DOMAIN acc /\ acc[k] \in U
      <4> HIDE DEF U
      <4> QED BY <2>4
    <3>2. PICK p \in ToSet(parts), sig \in Sigs : acc[k] = Made(p, sig) BY <3>1
    <3>3. x = Made(p, q.sig) BY <3>2
    <3>4. x \in U
      <4>1. q.sig \in Sigs OBVIOUS
      <4> HIDE DEF U, Sigs, Made, x
      <4> QED BY <1>b, <3>3, <4>1
    <3> HIDE DEF U, x
    <3> QED BY <3>1, <3>4 DEF x
  <2> HIDE DEF V
  <2> QED BY <2>3, <2>4 DEF BlockOp
<1> HIDE DEF V
<1>3. \A acc \in V, i \in 1..n : BlockOp(acc, parts[i]) \in V BY <1>1, <1>c
<1>4. F \in [V \X (1..n) -> V] BY <1>3
<1>5. \A acc \in V, i \in 1..n : F[<<acc, i>>] = BlockOp(acc, parts[i]) OBVIOUS
<1>6. \A T \in SUBSET (1..n) : T # {} => Max(T) \in T
  <2> SUFFICES ASSUME NEW T \in SUBSET (1..n), T # {} PROVE Max(T) \in T OBVIOUS
  <2> HIDE DEF n
  <2> QED BY <1>1, MaxIn
<1> HIDE DEF F, n
<1>7. \E h : Solves(h)
  <2>1. PICK g \in [SUBSET (1..n) -> V] : Folds(g, n, <<>>, F) BY <1>1, <1>2, <1>4, FoldIter
  <2>2. \A T \in SUBSET (1..n) : g[T] = IF T = {} THEN <<>> ELSE BlockOp(g[T \ {Max(T)}], parts[Max(T)])
    <3> SUFFICES ASSUME NEW T \in SUBSET (1..n), T # {} PROVE g[T] = BlockOp(g[T \ {Max(T)}], parts[Max(T)])
      BY <2>1 DEF Folds
    <3>1. Max(T) \in 1..n /\ T \ {Max(T)} \in SUBSET (1..n) BY <1>6
    <3>2. g[T \ {Max(T)}] \in V BY <3>1
    <3>3. g[T] = F[<<g[T \ {Max(T)}], Max(T)>>] BY <2>1 DEF Folds
    <3> QED BY <1>5, <3>1, <3>2, <3>3
  <2>3. g = [T \in SUBSET (1..n) |-> g[T]] OBVIOUS
  <2> QED BY <2>2, <2>3
<1> DEFINE h == CHOOSE h : Solves(h)
<1>8. Solves(h) BY <1>7
<1>9. Blocks(parts) = h[1..n] BY <1>a, <1>1 DEF FoldLeft, MapThenFoldSet
<1> HIDE DEF h
<1>10. Follows(h, n, V, <<>>, F)
  <2>1. h[{}] = <<>> BY <1>8
  <2>2. ASSUME NEW T \in SUBSET (1..n), T # {}, h[T \ {Max(T)}] \in V
        PROVE  h[T] = F[<<h[T \ {Max(T)}], Max(T)>>]
    <3>1. Max(T) \in 1..n BY <1>6, <2>2
    <3>2. h[T] = BlockOp(h[T \ {Max(T)}], parts[Max(T)]) BY <1>8, <2>2
    <3> QED BY <1>5, <2>2, <3>1, <3>2
  <2> HIDE DEF Solves
  <2> QED BY <2>1, <2>2 DEF Follows
<1>11. \E f \in [0..n -> V] : Reaches(f, n, <<>>, F, h[1..n])
  <2> HIDE DEF Solves
  <2> QED BY <1>1, <1>2, <1>4, <1>10, FoldSteps
<1>12. PICK f \in [0..n -> V] : Reaches(f, n, <<>>, F, h[1..n]) BY <1>11
<1>13. V = Seq(BlocksOf(parts)) BY DEF V, BlocksOf, BlockOf
<1>14. ASSUME NEW i \in 1..n PROVE f[i] = BlockOp(f[i - 1], parts[i])
  <2>1. i \in 0..n /\ i - 1 \in 0..n /\ i # 0 BY <1>1
  <2>2. f[i] = F[<<f[i - 1], i>>] /\ f[i - 1] \in V BY <1>12, <2>1 DEF Reaches, Recurs
  <2> QED BY <1>5, <2>2
<1>15. f[0] = <<>> /\ f[n] = Blocks(parts)
  <2>1. 0 \in 0..n BY <1>1
  <2> QED BY <1>9, <1>12, <2>1 DEF Reaches, Recurs
<1> QED BY <1>1, <1>13, <1>14, <1>15 DEF Built, n

LEMMA BlocksAreSeq ==
    ASSUME NEW parts, IsSeq(parts)
    PROVE  /\ IsSeq(Blocks(parts))
           /\ \A b \in ToSet(Blocks(parts)) :
                \E q \in ToSet(parts) : b.type = q.kind /\ b.id = q.id /\ b.name = q.name
<1>1. PICK f : Built(f, parts) BY BlocksUnrolled
<1>2. Len(parts) \in 0..Len(parts) BY SeqFacts
<1>3. Blocks(parts) \in Seq(BlocksOf(parts)) BY <1>1, <1>2 DEF Built
<1>4. IsSeq(Blocks(parts)) BY <1>3, TypedIsSeq
<1>5. ASSUME NEW b \in ToSet(Blocks(parts))
      PROVE  \E q \in ToSet(parts) : b.type = q.kind /\ b.id = q.id /\ b.name = q.name
  <2>1. b \in BlocksOf(parts) BY <1>3 DEF ToSet
  <2>2. PICK q \in ToSet(parts) : \E sig : b = BlockOf(q, sig) BY <2>1 DEF BlocksOf
  <2>3. b.type = q.kind /\ b.id = q.id /\ b.name = q.name BY <2>2 DEF BlockOf
  <2> QED BY <2>3
<1> QED BY <1>4, <1>5

\* The texts of the blocks of some types, one by one.
ListsOf(blocks, types) == [b \in DOMAIN blocks |-> IF blocks[b].type \in types THEN blocks[b].text ELSE <<>>]

AreTexts(blocks) == IsSeq(blocks) /\ \A b \in DOMAIN blocks : IsSeq(blocks[b].text)

LEMMA ListsAre ==
    ASSUME NEW blocks, AreTexts(blocks), NEW types
    PROVE  AreLists(ListsOf(blocks, types)) /\ BlockTexts(blocks, types) = FlattenSeq(ListsOf(blocks, types))
<1>1. PICK ss : ss = ListsOf(blocks, types) OBVIOUS
<1>2. ss = [b \in DOMAIN blocks |-> ss[b]] BY <1>1 DEF ListsOf
<1>3. IsSeq(ss) /\ DOMAIN ss = DOMAIN blocks BY <1>2, MapSeq DEF AreTexts
<1>4. ASSUME NEW b \in DOMAIN blocks PROVE IsSeq(ss[b]) BY <1>1, EmptyIsSeq DEF ListsOf, AreTexts
<1>5. BlockTexts(blocks, types) = FlattenSeq(ss) BY <1>1 DEF BlockTexts, ListsOf
<1> QED BY <1>1, <1>3, <1>4, <1>5 DEF AreLists

LEMMA BlockAdded ==
    ASSUME NEW acc, AreTexts(acc), NEW e, IsSeq(e.text), NEW types
    PROVE  BlockTexts(Append(acc, e), types) =
             BlockTexts(acc, types) \o IF e.type \in types THEN e.text ELSE <<>>
<1>1. PICK next, ss, tt, x : /\ next = Append(acc, e) /\ ss = ListsOf(acc, types) /\ tt = ListsOf(next, types)
                             /\ x = IF e.type \in types THEN e.text ELSE <<>>
  OBVIOUS
<1>2. IsSeq(acc) BY DEF AreTexts
<1>3. PICK n \in Nat : n = Len(acc) /\ DOMAIN acc = 1..n BY <1>2, SeqFacts
<1>4. /\ IsSeq(next) /\ DOMAIN next = 1..(n + 1) /\ next[n + 1] = e /\ \A k \in 1..n : next[k] = acc[k]
  <2>1. PICK t : t = next /\ Grown(t, acc, e) BY <1>1, <1>2, GrownAppend
  <2> QED BY <1>3, <2>1 DEF Grown
<1>5. AreTexts(next)
  <2>1. \A k \in 1..(n + 1) : k \in 1..n \/ k = n + 1 BY <1>3
  <2>2. \A k \in 1..n : IsSeq(acc[k].text) BY <1>3 DEF AreTexts
  <2>3. \A k \in 1..(n + 1) : IsSeq(next[k].text) BY <1>4, <2>1, <2>2
  <2> QED BY <1>4, <2>3 DEF AreTexts
<1>6. AreLists(ss) /\ BlockTexts(acc, types) = FlattenSeq(ss) BY <1>1, ListsAre
<1>7. AreLists(tt) /\ BlockTexts(next, types) = FlattenSeq(tt) BY <1>1, <1>5, ListsAre
<1>8. IsSeq(x) BY <1>1, EmptyIsSeq
<1>9. Len(ss) = n /\ Len(tt) = n + 1
  <2>1. DOMAIN ss = 1..n /\ DOMAIN tt = 1..(n + 1) BY <1>1, <1>3, <1>4 DEF ListsOf
  <2>2. IsSeq(ss) /\ IsSeq(tt) BY <1>6, <1>7 DEF AreLists
  <2>3. Len(ss) \in Nat /\ DOMAIN ss = 1..Len(ss) /\ Len(tt) \in Nat /\ DOMAIN tt = 1..Len(tt) BY <2>2, SeqFacts
  <2> QED BY <1>3, <2>1, <2>3
<1>10. \A k \in 1..n : tt[k] = ss[k]
  <2> SUFFICES ASSUME NEW k \in 1..n PROVE tt[k] = ss[k] OBVIOUS
  <2>1. k \in DOMAIN next /\ next[k] = acc[k] /\ k \in DOMAIN acc BY <1>3, <1>4
  <2> QED BY <1>1, <2>1 DEF ListsOf
<1>11. tt[n + 1] = x
  <2>1. n + 1 \in DOMAIN next BY <1>3, <1>4
  <2> QED BY <1>1, <1>3, <1>4, <2>1 DEF ListsOf
<1>12. Longer(tt, ss, n, x) BY <1>9, <1>10, <1>11 DEF Longer
<1>13. FlattenSeq(tt) = FlattenSeq(ss) \o x BY <1>3, <1>6, <1>7, <1>8, <1>12, FlattenLonger
<1> QED BY <1>1, <1>6, <1>7, <1>13

\* The blocks tell what the parts do, of each kind and in their order.
LEMMA BlocksTell == ASSUME NEW parts, AreParts(parts), NEW kinds PROVE BlockTexts(Blocks(parts), kinds) = Speech(parts, kinds)
<1>1. IsSeq(parts) BY DEF AreParts
<1>2. PICK f : Built(f, parts) BY <1>1, BlocksUnrolled
<1>3. PICK ss : ss = TextsBy(parts, kinds) OBVIOUS
<1>4. /\ AreLists(ss) /\ Len(ss) = Len(parts) /\ \A k \in DOMAIN parts : ss[k] = TextBy(parts[k], kinds)
      /\ Speech(parts, kinds) = FlattenSeq(ss)
  BY <1>3, TextsByParts
<1>5. PICK g : Joined(g, ss) BY <1>4, FlattenUnrolled DEF AreLists
<1>6. PICK n \in Nat : n = Len(parts) /\ DOMAIN parts = 1..n BY <1>1, SeqFacts
<1>7. /\ g[0] = <<>> /\ g[n] = Speech(parts, kinds) /\ \A i \in 0..n : IsSeq(g[i])
      /\ \A i \in 1..n : g[i] = g[i - 1] \o ss[i]
  BY <1>4, <1>5, <1>6 DEF Joined
<1>8. /\ f[0] = <<>> /\ f[n] = Blocks(parts) /\ \A i \in 0..n : f[i] \in Seq(BlocksOf(parts))
      /\ \A i \in 1..n : f[i] = BlockOp(f[i - 1], parts[i])
  BY <1>2, <1>6 DEF Built
<1>9. ASSUME NEW acc \in Seq(BlocksOf(parts)) PROVE AreTexts(acc)
  <2>1. IsSeq(acc) BY TypedIsSeq
  <2>2. ASSUME NEW b \in DOMAIN acc PROVE IsSeq(acc[b].text)
    <3>1. acc[b] \in BlocksOf(parts) OBVIOUS
    <3>2. PICK q \in ToSet(parts) : \E sig : acc[b] = BlockOf(q, sig) BY <3>1 DEF BlocksOf
    <3>3. IsSeq(q.text) BY DEF AreParts, IsPart, ToSet
    <3> QED BY <3>2, <3>3 DEF BlockOf
  <2> QED BY <2>1, <2>2 DEF AreTexts
<1> DEFINE S == {i \in 0..n : BlockTexts(f[i], kinds) = g[i]}
<1>10. 0 \in S
  <2>1. IsSeq(<<>>) /\ DOMAIN <<>> = {} /\ Len(<<>>) = 0 BY EmptyIsSeq
  <2>2. ListsOf(<<>>, kinds) = <<>> BY <2>1 DEF ListsOf
  <2>3. AreTexts(<<>>) BY <2>1 DEF AreTexts
  <2>4. BlockTexts(<<>>, kinds) = FlattenSeq(<<>>) BY <2>2, <2>3, ListsAre
  <2>5. PICK e : Joined(e, <<>>) BY <2>1, FlattenUnrolled
  <2>6. FlattenSeq(<<>>) = <<>> BY <2>1, <2>5 DEF Joined
  <2> QED BY <1>6, <1>7, <1>8, <2>4, <2>6
<1>11. ASSUME NEW k \in 0..(n - 1), k \in S PROVE k + 1 \in S
  <2>1. k + 1 \in 1..n /\ k + 1 \in 0..n /\ k \in 0..n /\ (k + 1) - 1 = k BY <1>6
  <2>2. PICK acc, next, q : acc = f[k] /\ next = f[k + 1] /\ q = parts[k + 1] OBVIOUS
  <2>3. acc \in Seq(BlocksOf(parts)) /\ AreTexts(acc) /\ next = BlockOp(acc, q) BY <1>8, <1>9, <2>1, <2>2
  <2>4. BlockTexts(acc, kinds) = g[k] /\ IsSeq(g[k]) BY <1>7, <1>11, <2>1, <2>2
  <2>5. g[k + 1] = g[k] \o ss[k + 1] /\ ss[k + 1] = IF q.kind \in kinds THEN q.text ELSE <<>>
    BY <1>4, <1>6, <1>7, <2>1, <2>2 DEF TextBy
  <2>6. IsSeq(q.text) BY <1>6, <2>1, <2>2 DEF AreParts, IsPart
  <2>7. CASE q.kind = "tool" \/ q.text # <<>>
    <3>1. PICK e : e = [type |-> q.kind, text |-> q.text, id |-> q.id, name |-> q.name,
                        sig |-> IF q.kind = "text" THEN None ELSE q.sig]
      OBVIOUS
    <3>2. next = Append(acc, e) BY <2>3, <2>7, <3>1 DEF BlockOp
    <3>3. e.type = q.kind /\ e.text = q.text BY <3>1
    <3>4. BlockTexts(Append(acc, e), kinds) = BlockTexts(acc, kinds) \o IF e.type \in kinds THEN e.text ELSE <<>>
      BY <2>3, <2>6, <3>3, BlockAdded
    <3> QED BY <2>1, <2>2, <2>4, <2>5, <3>2, <3>3, <3>4
  <2>8. CASE ~(q.kind = "tool" \/ q.text # <<>>)
    <3>1. next = IF acc # <<>> /\ Last(acc).type = "thought" /\ q.sig # None
                 THEN [acc EXCEPT ![Len(acc)].sig = q.sig] ELSE acc
      BY <2>3, <2>8 DEF BlockOp
    <3>2. BlockTexts(next, kinds) = BlockTexts(acc, kinds)
      <4>1. CASE next = acc BY <4>1
      <4>2. CASE acc # <<>> /\ next = [acc EXCEPT ![Len(acc)].sig = q.sig]
        <5>1. DOMAIN next = DOMAIN acc BY <4>2
        <5>2. ASSUME NEW b \in DOMAIN acc PROVE next[b].type = acc[b].type /\ next[b].text = acc[b].text
          <6>1. acc[b] \in BlocksOf(parts) BY <2>3
          <6>2. PICK p \in ToSet(parts) : \E sig : acc[b] = BlockOf(p, sig) BY <6>1 DEF BlocksOf
          <6>3. next[b] = acc[b] \/ next[b] = [acc[b] EXCEPT !.sig = q.sig] BY <4>2
          <6> QED BY <6>2, <6>3 DEF BlockOf
        <5>3. ListsOf(next, kinds) = ListsOf(acc, kinds) BY <5>1, <5>2 DEF ListsOf
        <5> QED BY <5>3 DEF BlockTexts, ListsOf
      <4> QED BY <3>1, <4>1, <4>2
    <3>3. ss[k + 1] = <<>> BY <2>5, <2>8
    <3>4. g[k] \o <<>> = g[k] BY <2>4, NothingMore
    <3> QED BY <2>1, <2>2, <2>4, <2>5, <3>2, <3>3, <3>4
  <2> QED BY <2>7, <2>8
<1> HIDE DEF S
<1>12. \A i \in 0..n : i \in S BY <1>6, <1>10, <1>11, BoundedInduction
<1>13. n \in S BY <1>6, <1>12
<1> QED BY <1>7, <1>8, <1>13 DEF S

-----------------------------------------------------------------------------
(* The calls that are collected: each id once. *)

Tool(s, i, k, id) == i \in DOMAIN s /\ Called(s[i].parts, k, id)

FiledIn(s, u) ==
  /\ \A i, k, id : Tool(s, i, k, id) => id \in u
  /\ \A id \in u : \E i, k : Tool(s, i, k, id)
  /\ \A i, j, k, l, id : Tool(s, i, k, id) /\ Tool(s, j, l, id) => i = j /\ k = l

SameTools(t, s) == \A i, k, id : Tool(t, i, k, id) <=> Tool(s, i, k, id)

OneMoreTool(t, s, i0, k0, id0) ==
  \A i, k, id : Tool(t, i, k, id) <=> Tool(s, i, k, id) \/ (i = i0 /\ k = k0 /\ id = id0)

LEMMA FiledSame == ASSUME NEW s, NEW t, NEW u, FiledIn(s, u), SameTools(t, s) PROVE FiledIn(t, u)
<1>1. \A i, k, id : Tool(t, i, k, id) <=> Tool(s, i, k, id) BY DEF SameTools
<1>2. \A i, k, id : Tool(t, i, k, id) => id \in u BY <1>1 DEF FiledIn
<1>3. \A id \in u : \E i, k : Tool(t, i, k, id) BY <1>1 DEF FiledIn
<1>4. ASSUME NEW i, NEW j, NEW k, NEW l, NEW id, Tool(t, i, k, id), Tool(t, j, l, id) PROVE i = j /\ k = l
  <2>1. Tool(s, i, k, id) /\ Tool(s, j, l, id) BY <1>1, <1>4
  <2> QED BY <2>1 DEF FiledIn
<1> QED BY <1>2, <1>3, <1>4 DEF FiledIn

LEMMA FiledMore ==
    ASSUME NEW s, NEW t, NEW u, FiledIn(s, u), NEW i0, NEW k0, NEW id0, id0 \notin u, OneMoreTool(t, s, i0, k0, id0)
    PROVE  FiledIn(t, u \cup {id0})
<1>1. \A i, k, id : Tool(t, i, k, id) <=> Tool(s, i, k, id) \/ (i = i0 /\ k = k0 /\ id = id0) BY DEF OneMoreTool
<1>2. \A i, k, id : Tool(t, i, k, id) => id \in u \cup {id0} BY <1>1 DEF FiledIn
<1>3. \A id \in u \cup {id0} : \E i, k : Tool(t, i, k, id)
  <2> SUFFICES ASSUME NEW id \in u \cup {id0} PROVE \E i, k : Tool(t, i, k, id) OBVIOUS
  <2>1. CASE id = id0 BY <1>1, <2>1
  <2>2. CASE id \in u
    <3>1. PICK i, k : Tool(s, i, k, id) BY <2>2 DEF FiledIn
    <3> QED BY <1>1, <3>1
  <2> QED BY <2>1, <2>2
<1>4. ASSUME NEW i, NEW j, NEW k, NEW l, NEW id, Tool(t, i, k, id), Tool(t, j, l, id) PROVE i = j /\ k = l
  <2>1. Tool(s, i, k, id) \/ (i = i0 /\ k = k0 /\ id = id0) BY <1>1, <1>4
  <2>2. Tool(s, j, l, id) \/ (j = i0 /\ l = k0 /\ id = id0) BY <1>1, <1>4
  <2>3. Tool(s, i, k, id) \/ Tool(s, j, l, id) => id # id0 BY DEF FiledIn
  <2>4. Tool(s, i, k, id) /\ Tool(s, j, l, id) => i = j /\ k = l BY DEF FiledIn
  <2> QED BY <2>1, <2>2, <2>3, <2>4
<1> QED BY <1>2, <1>3, <1>4 DEF FiledIn

-----------------------------------------------------------------------------
(* The answer that is not streamed. *)

Kinds == SUBSET {"text", "thought"}

Collected(x, said) ==
  /\ x = [parts |-> x.parts, finish |-> x.finish] /\ AreParts(x.parts)
  /\ \A K \in Kinds : Speech(x.parts, K) = said[K]

\* What a candidate said of each kind, and of both.
SpokenBy(K, i) == Places(ProseOf(K, i))

SpokenAll(i) == [K \in Kinds |-> SpokenBy(K, i)]

CollectLink ==
  /\ out = <<>> /\ Met = DOMAIN saved /\ IsFiniteSet(DOMAIN saved)
  /\ \A k \in DOMAIN given : given[k].index \in Met
  /\ \A i \in DOMAIN saved : Collected(saved[i], SpokenAll(i))
  /\ FiledIn(saved, DOMAIN used)

\* What a visit adds to what a candidate said.
SpokenNext(h, K, i) ==
  IF h.kind \in K /\ h.body /\ h.index = i THEN Append(SpokenBy(K, i), This) ELSE SpokenBy(K, i)

AllNext(h, i) == [K \in Kinds |-> SpokenNext(h, K, i)]

LEMMA SpokenGrows ==
    ASSUME IsSeq(given), NEW h, given' = Append(given, h), NEW kinds \in Kinds, NEW i
    PROVE  SpokenBy(kinds, i)' = SpokenNext(h, kinds, i)
<1>1. PICK n \in Nat : n = Len(given) BY SeqFacts
<1>2. PICK K, J : K = ProseOf(kinds, i) /\ J = ProseOf(kinds, i)' OBVIOUS
<1>3. PICK t : given' = t /\ Grown(t, given, h) BY GrownAppend
<1>4. DOMAIN t = 1..(n + 1) /\ DOMAIN given = 1..n /\ t[n + 1] = h /\ \A k \in 1..n : t[k] = given[k]
  BY <1>1, <1>3 DEF Grown
<1>5. \A k : k \in K <=> k \in 1..n /\ given[k].body /\ given[k].kind \in kinds /\ given[k].index = i
  BY <1>2, <1>4 DEF ProseOf, IsProse, Kinds
<1>6. \A k : k \in J <=> k \in 1..(n + 1) /\ t[k].body /\ t[k].kind \in kinds /\ t[k].index = i
  BY <1>2, <1>3, <1>4 DEF ProseOf, IsProse, Kinds
<1>7. Agree(J, K, n)
  <2> SUFFICES ASSUME NEW j \in 1..n PROVE j \in J <=> j \in K BY DEF Agree
  <2>1. j \in 1..(n + 1) /\ t[j] = given[j] BY <1>4
  <2> QED BY <1>5, <1>6, <2>1
<1>8. n + 1 \in J <=> h.body /\ h.kind \in kinds /\ h.index = i
  <2>1. n + 1 \in 1..(n + 1) OBVIOUS
  <2> QED BY <1>4, <1>6, <2>1
<1>9. Places(J)' = IF n + 1 \in J THEN Append(Places(K), n + 1) ELSE Places(K) BY <1>1, <1>7, PlacesNext
<1>10. SpokenBy(kinds, i)' = Places(J)' BY <1>2 DEF SpokenBy, Places
<1>11. SpokenBy(kinds, i) = Places(K) BY <1>2 DEF SpokenBy
<1>12. SpokenNext(h, kinds, i) = IF n + 1 \in J THEN Append(Places(K), n + 1) ELSE Places(K)
  BY <1>1, <1>8, <1>11 DEF SpokenNext, This
<1> QED BY <1>9, <1>10, <1>12

LEMMA NothingSpoken ==
    ASSUME IsSeq(given), NEW i, \A k \in DOMAIN given : given[k].index # i, NEW kinds
    PROVE  SpokenBy(kinds, i) = <<>>
<1>1. ProseOf(kinds, i) = {} BY DEF ProseOf
<1>2. PICK s : s = [k \in DOMAIN given |-> k] OBVIOUS
<1>3. s = [k \in DOMAIN given |-> s[k]] BY <1>2
<1>4. IsSeq(s) BY <1>3, MapSeq
<1>5. PICK a, p : a = Among(s, {}) /\ IsSeq(a) /\ Picks(p, a, s, Len(s), {})
  <2>1. IsSeq(Among(s, {})) /\ \E p : Picks(p, Among(s, {}), s, Len(s), {}) BY <1>4, AmongLemma
  <2> QED BY <2>1
<1>6. a = <<>>
  <2>1. Len(a) \in Nat /\ \A j \in 1..Len(a) : FALSE BY <1>5, SeqFacts DEF Picks
  <2>2. Len(a) = 0
    <3>1. ASSUME Len(a) # 0 PROVE FALSE
      <4>1. 1 \in 1..Len(a) BY <2>1, <3>1
      <4> QED BY <2>1, <4>1
    <3> QED BY <3>1
  <2> QED BY <1>5, <2>2 DEF IsSeq
<1> QED BY <1>1, <1>2, <1>5, <1>6 DEF SpokenBy, Places

LEMMA CollectLinkVisit ==
    ASSUME CollectLink, IsSeq(given), NEW h, given' = Append(given, h), out' = <<>>,
           DOMAIN saved' = Met', IsFiniteSet(DOMAIN saved'), h.index \in Met',
           \A i \in DOMAIN saved' : Collected(saved'[i], AllNext(h, i)),
           FiledIn(saved', DOMAIN used')
    PROVE  CollectLink'
<1>1. Met \subseteq Met' BY MetGrows
<1>2. PICK t : given' = t /\ Grown(t, given, h) BY GrownAppend
<1>3. \A k \in DOMAIN t : t[k].index \in Met'
  <2> SUFFICES ASSUME NEW k \in DOMAIN t PROVE t[k].index \in Met' OBVIOUS
  <2>1. PICK n \in Nat : n = Len(given) BY SeqFacts
  <2>2. DOMAIN t = 1..(n + 1) /\ DOMAIN given = 1..n /\ t[n + 1] = h /\ \A j \in 1..n : t[j] = given[j]
    BY <1>2, <2>1 DEF Grown
  <2>3. k = n + 1 \/ k \in DOMAIN given BY <2>2
  <2>4. \A j \in DOMAIN given : given[j].index \in Met BY DEF CollectLink
  <2> QED BY <1>1, <2>2, <2>3, <2>4
<1>4. (\A k \in DOMAIN given : given[k].index \in Met)' BY <1>2, <1>3
<1>5. (\A i \in DOMAIN saved : Collected(saved[i], SpokenAll(i)))'
  <2> SUFFICES ASSUME NEW i \in DOMAIN saved' PROVE Collected(saved'[i], SpokenAll(i)') OBVIOUS
  <2>1. \A K \in Kinds : SpokenBy(K, i)' = SpokenNext(h, K, i) BY SpokenGrows
  <2>2. SpokenAll(i)' = AllNext(h, i) BY <2>1 DEF SpokenAll, AllNext
  <2> QED BY <2>2
<1> QED BY <1>4, <1>5 DEF CollectLink

\* What is collected of one candidate changes, and how that files the calls.
LEMMA SavedReplaced ==
    ASSUME NEW i0 \in DOMAIN saved, NEW next, saved' = [saved EXCEPT ![i0].parts = next],
           NEW said, Collected(saved[i0], said)
    PROVE  /\ DOMAIN saved' = DOMAIN saved
           /\ saved'[i0] = [parts |-> next, finish |-> saved[i0].finish]
           /\ \A i \in DOMAIN saved : i # i0 => saved'[i] = saved[i]
           /\ \A i, k, id : Tool(saved', i, k, id) <=> IF i = i0 THEN Called(next, k, id) ELSE Tool(saved, i, k, id)
<1>1. PICK x : x = saved[i0] OBVIOUS
<1>2. x = [parts |-> x.parts, finish |-> x.finish] BY <1>1 DEF Collected
<1>3. PICK y : y = [parts |-> next, finish |-> x.finish] OBVIOUS
<1>4. saved' = [saved EXCEPT ![i0] = y]
  <2>1. saved' = [saved EXCEPT ![i0] = [x EXCEPT !.parts = next]] BY <1>1
  <2>2. [x EXCEPT !.parts = next] = y BY <1>2, <1>3
  <2> QED BY <2>1, <2>2
<1>5. PICK t : t = saved' OBVIOUS
<1>6. DOMAIN t = DOMAIN saved /\ t[i0] = y /\ \A i \in DOMAIN saved : i # i0 => t[i] = saved[i] BY <1>4, <1>5
<1>7. ASSUME NEW i, NEW k, NEW id
      PROVE  Tool(t, i, k, id) <=> IF i = i0 THEN Called(next, k, id) ELSE Tool(saved, i, k, id)
  <2>1. CASE i = i0
    <3>1. y.parts = next BY <1>3
    <3> QED BY <1>6, <2>1, <3>1 DEF Tool
  <2>2. CASE i # i0 BY <1>6, <2>2 DEF Tool
  <2> QED BY <2>1, <2>2
<1> QED BY <1>1, <1>3, <1>5, <1>6, <1>7

LEMMA CollectRepeatedLink ==
    ASSUME WalkInv, Registry, CollectLink, protocol = "json", CollectRepeated PROVE CollectLink'
<1>1. PICK h : h = Head(todo) OBVIOUS
<1>2. ToolRepeated BY DEF CollectRepeated
<1>3. /\ DOMAIN used' = DOMAIN used /\ given' = Append(given, h) /\ h.kind = "tool" /\ out' = out
  BY <1>1, <1>2, RepeatedShape
<1>4. todo # <<>> BY <1>2 DEF ToolRepeated, Visiting
<1>5. h.index \in Met BY <1>1, <1>3, <1>4, LedTail DEF WalkInv
<1>6. PICK i0, parts, id : i0 = h.index /\ parts = saved[i0].parts /\ id = CallId(h) OBVIOUS
<1>7. i0 \in DOMAIN saved BY <1>5, <1>6 DEF CollectLink
<1>8. PICK next : next = [k \in DOMAIN parts |->
                            IF parts[k].kind = "tool" /\ parts[k].id = id /\ h.sig # None
                            THEN [parts[k] EXCEPT !.sig = h.sig] ELSE parts[k]]
  OBVIOUS
<1>9. saved' = [saved EXCEPT ![i0].parts = next] BY <1>1, <1>6, <1>8 DEF CollectRepeated
<1>10. PICK said : said = SpokenAll(i0) /\ Collected(saved[i0], said)
  BY <1>7 DEF CollectLink
<1>11. /\ DOMAIN saved' = DOMAIN saved
       /\ saved'[i0] = [parts |-> next, finish |-> saved[i0].finish]
       /\ \A i \in DOMAIN saved : i # i0 => saved'[i] = saved[i]
       /\ \A i, k, c : Tool(saved', i, k, c) <=> IF i = i0 THEN Called(next, k, c) ELSE Tool(saved, i, k, c)
  BY <1>7, <1>9, <1>10, SavedReplaced
<1>12. AreParts(parts) BY <1>6, <1>10 DEF Collected
<1>13. /\ AreParts(next)
       /\ \A k, c : Called(next, k, c) <=> Called(parts, k, c)
       /\ \A kinds : Speech(next, kinds) = Speech(parts, kinds)
  <2>1. next = [k \in DOMAIN parts |-> next[k]] BY <1>8
  <2>2. \A k \in DOMAIN parts : next[k] = parts[k] \/ \E sig : next[k] = [parts[k] EXCEPT !.sig = sig]
    <3> SUFFICES ASSUME NEW k \in DOMAIN parts
                 PROVE  next[k] = parts[k] \/ \E sig : next[k] = [parts[k] EXCEPT !.sig = sig]
      OBVIOUS
    <3>1. next[k] = parts[k] \/ next[k] = [parts[k] EXCEPT !.sig = h.sig] BY <1>8
    <3> QED BY <3>1
  <2> QED BY <1>12, <2>1, <2>2, PartsResigned
<1>14. Collected(saved'[i0], said)
  <2>1. PICK y : y = saved'[i0] OBVIOUS
  <2>2. y.parts = next /\ y = [parts |-> y.parts, finish |-> y.finish] BY <1>11, <2>1
  <2>3. \A K \in Kinds : Speech(parts, K) = said[K] BY <1>6, <1>10 DEF Collected
  <2> QED BY <1>13, <2>1, <2>2, <2>3 DEF Collected
<1>15. \A i \in DOMAIN saved' : Collected(saved'[i], AllNext(h, i))
  <2> SUFFICES ASSUME NEW i \in DOMAIN saved'
               PROVE  Collected(saved'[i], AllNext(h, i))
    OBVIOUS
  <2>1. AllNext(h, i) = SpokenAll(i)
    BY <1>3 DEF AllNext, SpokenAll, SpokenNext, Kinds
  <2>2. i \in DOMAIN saved BY <1>11
  <2>3. CASE i = i0 BY <1>10, <1>14, <2>1, <2>3
  <2>4. CASE i # i0
    <3>1. Collected(saved[i], SpokenAll(i)) BY <2>2 DEF CollectLink
    <3> QED BY <1>11, <2>1, <2>2, <2>4, <3>1
  <2> QED BY <2>3, <2>4
<1>16. FiledIn(saved', DOMAIN used')
  <2>1. PICK s, t, u : s = saved /\ t = saved' /\ u = DOMAIN used OBVIOUS
  <2>2. SameTools(t, s)
    <3> SUFFICES ASSUME NEW i, NEW k, NEW c PROVE Tool(t, i, k, c) <=> Tool(s, i, k, c) BY DEF SameTools
    <3>1. Tool(t, i, k, c) <=> IF i = i0 THEN Called(next, k, c) ELSE Tool(s, i, k, c) BY <1>11, <2>1
    <3>2. Called(next, k, c) <=> Called(parts, k, c) BY <1>13
    <3>3. Tool(s, i0, k, c) <=> Called(parts, k, c) BY <1>6, <1>7, <2>1 DEF Tool
    <3> QED BY <3>1, <3>2, <3>3
  <2>3. FiledIn(s, u) BY <2>1 DEF CollectLink
  <2>4. FiledIn(t, u) BY <2>2, <2>3, FiledSame
  <2> QED BY <1>3, <2>1, <2>4
<1>17. Met' = Met /\ IsSeq(given)
  <2>1. IsSeq(given) BY DEF WalkInv
  <2> QED BY <1>3, <2>1, MetGrows
<1>18. DOMAIN saved' = Met' /\ IsFiniteSet(DOMAIN saved') /\ out' = <<>> BY <1>3, <1>11, <1>17 DEF CollectLink
<1> QED BY <1>3, <1>5, <1>15, <1>16, <1>17, <1>18, CollectLinkVisit

LEMMA CollectCandidateLink ==
    ASSUME WalkInv, Registry, CollectLink, protocol = "json", CollectCandidate PROVE CollectLink'
<1>1. PICK h, i0 : h = Head(todo) /\ i0 = h.index OBVIOUS
<1>2. PICK old : old = IF i0 \in DOMAIN saved THEN saved[i0] ELSE [parts |-> <<>>, finish |-> None] OBVIOUS
<1>3. PICK reason : reason = IF h.finish # None THEN h.finish ELSE old.finish OBVIOUS
<1>4. PICK x : x = [old EXCEPT !.finish = reason] OBVIOUS
<1>5. /\ todo # <<>> /\ h.kind = "candidate" /\ given' = Append(given, h) /\ UNCHANGED <<used, out>>
      /\ saved' = [i \in DOMAIN saved \cup {i0} |-> IF i # i0 THEN saved[i] ELSE x]
  BY <1>1, <1>2, <1>3, <1>4 DEF CollectCandidate, Visiting, Visited
<1>6. IsSeq(given) BY DEF WalkInv
<1>7. Met' = Met \cup {i0} BY <1>1, <1>5, <1>6, MetGrows
<1>8. /\ DOMAIN saved' = DOMAIN saved \cup {i0} /\ saved'[i0] = x
      /\ \A i \in DOMAIN saved : i # i0 => saved'[i] = saved[i]
  BY <1>5
<1>9. DOMAIN saved' = Met' /\ IsFiniteSet(DOMAIN saved') /\ out' = <<>>
  <2>1. IsFiniteSet(DOMAIN saved \cup {i0}) BY FS_AddElement DEF CollectLink
  <2> QED BY <1>5, <1>7, <1>8, <2>1 DEF CollectLink
<1>10. PICK said : said = SpokenAll(i0) OBVIOUS
<1>11. Collected(old, said)
  <2>1. CASE i0 \in DOMAIN saved BY <1>2, <1>10, <2>1 DEF CollectLink
  <2>2. CASE i0 \notin DOMAIN saved
    <3>1. \A k \in DOMAIN given : given[k].index # i0 BY <2>2 DEF CollectLink
    <3>2. \A K \in Kinds : said[K] = <<>> BY <1>6, <1>10, <3>1, NothingSpoken DEF SpokenAll
    <3>3. old = [parts |-> <<>>, finish |-> None] BY <1>2, <2>2
    <3>4. old.parts = <<>> /\ old = [parts |-> old.parts, finish |-> old.finish] BY <3>3
    <3> QED BY <3>2, <3>4, NoParts DEF Collected
  <2> QED BY <2>1, <2>2
<1>12. x = [parts |-> old.parts, finish |-> reason] BY <1>4, <1>11 DEF Collected
<1>13. Collected(x, said) BY <1>11, <1>12 DEF Collected
<1>14. \A i \in DOMAIN saved' : Collected(saved'[i], AllNext(h, i))
  <2> SUFFICES ASSUME NEW i \in DOMAIN saved'
               PROVE  Collected(saved'[i], AllNext(h, i))
    OBVIOUS
  <2>1. AllNext(h, i) = SpokenAll(i)
    BY <1>5 DEF AllNext, SpokenAll, SpokenNext, Kinds
  <2>2. CASE i = i0 BY <1>8, <1>10, <1>13, <2>1, <2>2
  <2>3. CASE i # i0
    <3>1. i \in DOMAIN saved BY <1>8, <2>3
    <3>2. Collected(saved[i], SpokenAll(i)) BY <3>1 DEF CollectLink
    <3> QED BY <1>8, <2>1, <2>3, <3>1, <3>2
  <2> QED BY <2>2, <2>3
<1>15. FiledIn(saved', DOMAIN used')
  <2>1. PICK s, t, u : s = saved /\ t = saved' /\ u = DOMAIN used OBVIOUS
  <2>2. SameTools(t, s)
    <3> SUFFICES ASSUME NEW i, NEW k, NEW c PROVE Tool(t, i, k, c) <=> Tool(s, i, k, c) BY DEF SameTools
    <3>1. CASE i # i0
      <4>1. (i \in DOMAIN t <=> i \in DOMAIN s) /\ (i \in DOMAIN s => t[i] = s[i]) BY <1>8, <2>1, <3>1
      <4> QED BY <4>1 DEF Tool
    <3>2. CASE i = i0
      <4>1. Tool(t, i, k, c) <=> Called(old.parts, k, c)
        <5>1. i \in DOMAIN t /\ t[i].parts = old.parts BY <1>8, <1>12, <2>1, <3>2
        <5> QED BY <5>1 DEF Tool
      <4>2. CASE i0 \in DOMAIN s
        <5>1. s[i] = old BY <1>2, <2>1, <3>2, <4>2
        <5> QED BY <3>2, <4>1, <4>2, <5>1 DEF Tool
      <4>3. CASE i0 \notin DOMAIN s
        <5>1. old.parts = <<>> BY <1>2, <2>1, <4>3
        <5>2. ~Called(<<>>, k, c) BY NoParts
        <5> QED BY <3>2, <4>1, <4>3, <5>1, <5>2 DEF Tool
      <4> QED BY <4>2, <4>3
    <3> QED BY <3>1, <3>2
  <2>3. FiledIn(s, u) BY <2>1 DEF CollectLink
  <2>4. FiledIn(t, u) BY <2>2, <2>3, FiledSame
  <2> QED BY <1>5, <2>1, <2>4
<1>16. h.index \in Met' BY <1>1, <1>7
<1> QED BY <1>5, <1>6, <1>9, <1>14, <1>15, <1>16, CollectLinkVisit

LEMMA PartAdds ==
    ASSUME NEW parts, AreParts(parts), NEW next, NEW p, NEW id, NEW place, Adds(next, parts, p, id, place)
    PROVE  /\ AreParts(next)
           /\ \A k, c : Called(next, k, c) <=>
                          Called(parts, k, c) \/ (p.kind = "tool" /\ k = Len(parts) + 1 /\ c = id)
           /\ \A kinds : Speech(next, kinds) = IF p.kind \in kinds /\ p.body THEN Append(Speech(parts, kinds), place)
                                               ELSE Speech(parts, kinds)
<1>1. CASE Extends(next, parts, p, id, place)
  <2>1. p.kind # "tool" /\ p.body BY <1>1 DEF Extends
  <2>2. AreParts(next) BY <1>1, PartExtended
  <2>3. \A k, c : Called(next, k, c) <=> Called(parts, k, c) BY <1>1, PartExtended
  <2>4. \A kinds : Speech(next, kinds) = IF p.kind \in kinds THEN Append(Speech(parts, kinds), place) ELSE Speech(parts, kinds)
    BY <1>1, PartExtended
  <2> QED BY <2>1, <2>2, <2>3, <2>4
<1>2. CASE Appends(next, parts, p, id, place) BY <1>2, PartAppended
<1> QED BY <1>1, <1>2 DEF Adds

LEMMA CollectPartLink ==
    ASSUME WalkInv, Registry, CollectLink, protocol = "json", CollectPart PROVE CollectLink'
<1>1. PICK h : h = Head(todo) OBVIOUS
<1>2. /\ todo # <<>> /\ ((h.kind = "tool" /\ ~Repeats(h)) \/ h.kind \in {"text", "thought"})
      /\ given' = Append(given, h) /\ out' = out
  BY <1>1 DEF CollectPart, NewTool, Visiting, Visited
<1>3. IsVisit(h) /\ h.index \in Met BY <1>1, <1>2, LedTail DEF WalkInv
<1>4. PICK i0, parts, id, place : /\ i0 = h.index /\ parts = saved[i0].parts /\ place = This
                                  /\ id = IF h.kind = "tool" THEN CallId(h) ELSE None
  OBVIOUS
<1>5. i0 \in DOMAIN saved BY <1>3, <1>4 DEF CollectLink
<1>6. PICK next : next = WithPart(parts, h, id) OBVIOUS
<1>7. saved' = [saved EXCEPT ![i0].parts = next] BY <1>1, <1>4, <1>6 DEF CollectPart
<1>8. DOMAIN used' = IF h.kind = "tool" THEN DOMAIN used \cup {id} ELSE DOMAIN used
  BY <1>1, <1>4 DEF CollectPart, Register, Remembered
<1>9. h.kind = "tool" => id \notin DOMAIN used BY <1>2, <1>3, <1>4, CallIdIsNew
<1>10. PICK said : said = SpokenAll(i0) /\ Collected(saved[i0], said)
  BY <1>5 DEF CollectLink
<1>11. /\ DOMAIN saved' = DOMAIN saved
       /\ saved'[i0] = [parts |-> next, finish |-> saved[i0].finish]
       /\ \A i \in DOMAIN saved : i # i0 => saved'[i] = saved[i]
       /\ \A i, k, c : Tool(saved', i, k, c) <=> IF i = i0 THEN Called(next, k, c) ELSE Tool(saved, i, k, c)
  BY <1>5, <1>7, <1>10, SavedReplaced
<1>12. AreParts(parts) BY <1>4, <1>10 DEF Collected
<1>13. Adds(next, parts, h, id, place) BY <1>4, <1>6, WithPartAdds
<1>14. AreParts(next) BY <1>12, <1>13, PartAdds
<1>15. ASSUME NEW k, NEW c
       PROVE  Called(next, k, c) <=> Called(parts, k, c) \/ (h.kind = "tool" /\ k = Len(parts) + 1 /\ c = id)
  BY <1>12, <1>13, PartAdds
<1>16. ASSUME NEW kinds
       PROVE  Speech(next, kinds) = IF h.kind \in kinds /\ h.body THEN Append(Speech(parts, kinds), place)
                                    ELSE Speech(parts, kinds)
  BY <1>12, <1>13, PartAdds
<1>17. Collected(saved'[i0], AllNext(h, i0))
  <2>1. PICK y : y = saved'[i0] OBVIOUS
  <2>2. y.parts = next /\ y = [parts |-> y.parts, finish |-> y.finish] BY <1>11, <2>1
  <2>3. ASSUME NEW K \in Kinds PROVE Speech(next, K) = AllNext(h, i0)[K]
    <3>1. Speech(parts, K) = SpokenBy(K, i0) BY <1>4, <1>10 DEF Collected, SpokenAll
    <3>2. Speech(next, K) = IF h.kind \in K /\ h.body THEN Append(Speech(parts, K), place) ELSE Speech(parts, K)
      BY <1>16
    <3> QED BY <1>4, <3>1, <3>2 DEF AllNext, SpokenNext
  <2> QED BY <1>14, <2>1, <2>2, <2>3 DEF Collected
<1>18. \A i \in DOMAIN saved' : Collected(saved'[i], AllNext(h, i))
  <2> SUFFICES ASSUME NEW i \in DOMAIN saved'
               PROVE  Collected(saved'[i], AllNext(h, i))
    OBVIOUS
  <2>1. CASE i = i0 BY <1>17, <2>1
  <2>2. CASE i # i0
    <3>1. AllNext(h, i) = SpokenAll(i)
      BY <1>4, <2>2 DEF AllNext, SpokenAll, SpokenNext, Kinds
    <3>2. i \in DOMAIN saved BY <1>11
    <3>3. Collected(saved[i], SpokenAll(i)) BY <3>2 DEF CollectLink
    <3> QED BY <1>11, <2>2, <3>1, <3>2, <3>3
  <2> QED BY <2>1, <2>2
<1>19. FiledIn(saved', DOMAIN used')
  <2>1. PICK s, t, u, n : s = saved /\ t = saved' /\ u = DOMAIN used /\ n = Len(parts) + 1 OBVIOUS
  <2>2. FiledIn(s, u) BY <2>1 DEF CollectLink
  <2>3. ASSUME NEW i, NEW k, NEW c
        PROVE  Tool(t, i, k, c) <=> Tool(s, i, k, c) \/ (h.kind = "tool" /\ i = i0 /\ k = n /\ c = id)
    <3>1. Tool(t, i, k, c) <=> IF i = i0 THEN Called(next, k, c) ELSE Tool(s, i, k, c) BY <1>11, <2>1
    <3>2. Called(next, k, c) <=> Called(parts, k, c) \/ (h.kind = "tool" /\ k = n /\ c = id) BY <1>15, <2>1
    <3>3. Tool(s, i0, k, c) <=> Called(parts, k, c) BY <1>4, <1>5, <2>1 DEF Tool
    <3> QED BY <3>1, <3>2, <3>3
  <2>4. CASE h.kind = "tool"
    <3>1. OneMoreTool(t, s, i0, n, id) BY <2>3, <2>4 DEF OneMoreTool
    <3>2. id \notin u BY <1>9, <2>1, <2>4
    <3>3. FiledIn(t, u \cup {id}) BY <2>2, <3>1, <3>2, FiledMore
    <3> QED BY <1>8, <2>1, <2>4, <3>3
  <2>5. CASE h.kind # "tool"
    <3>1. SameTools(t, s) BY <2>3, <2>5 DEF SameTools
    <3>2. FiledIn(t, u) BY <2>2, <3>1, FiledSame
    <3> QED BY <1>8, <2>1, <2>5, <3>2
  <2> QED BY <2>4, <2>5
<1>20. Met' = Met /\ IsSeq(given)
  <2>1. IsSeq(given) BY DEF WalkInv
  <2>2. h.kind # "candidate" BY <1>2
  <2> QED BY <1>2, <2>1, <2>2, MetGrows
<1>21. DOMAIN saved' = Met' /\ IsFiniteSet(DOMAIN saved') /\ out' = <<>> BY <1>2, <1>11, <1>20 DEF CollectLink
<1>22. h.index \in Met' BY <1>3, <1>20
<1> QED BY <1>2, <1>18, <1>19, <1>20, <1>21, <1>22, CollectLinkVisit

-----------------------------------------------------------------------------
(* The answer that is written as a whole. *)

\* The calls of some parts, each in its place.
CallsPlaced(list, parts, p) ==
  /\ \A j \in DOMAIN list : Called(parts, p[j], list[j].id)
  /\ \A j, k \in DOMAIN list : p[j] = p[k] => j = k
  /\ \A k, id : Called(parts, k, id) => \E j \in DOMAIN list : p[j] = k

LEMMA CallsOfParts == ASSUME NEW parts, AreParts(parts) PROVE \E p : CallsPlaced(CallsOf(parts), parts, p)
<1>1. PICK K : K = {k \in DOMAIN parts : parts[k].kind = "tool"} OBVIOUS
<1>2. PICK r : r = Among(parts, K) OBVIOUS
<1>3. IsSeq(parts) BY DEF AreParts
<1>4. PICK p : Picks(p, r, parts, Len(parts), K) BY <1>2, <1>3, AmongLemma
<1>5. IsSeq(r) BY <1>2, <1>3, AmongLemma
<1>6. PICK m, n \in Nat : m = Len(r) /\ DOMAIN r = 1..m /\ n = Len(parts) /\ DOMAIN parts = 1..n BY <1>3, <1>5, SeqFacts
<1>7. /\ p \in [1..m -> 1..n] /\ \A j \in 1..m : r[j] = parts[p[j]] /\ p[j] \in K
      /\ \A j, k \in 1..m : j < k => p[j] < p[k]
      /\ \A i \in 1..n : i \in K => \E j \in 1..m : p[j] = i
  BY <1>4, <1>6 DEF Picks
<1>8. PICK list : list = CallsOf(parts) OBVIOUS
<1>9. DOMAIN list = 1..m /\ \A j \in 1..m : list[j].id = r[j].id BY <1>1, <1>2, <1>6, <1>8 DEF CallsOf
<1>10. ASSUME NEW j \in DOMAIN list PROVE Called(parts, p[j], list[j].id)
  <2>1. j \in 1..m /\ p[j] \in K /\ r[j] = parts[p[j]] /\ list[j].id = r[j].id BY <1>7, <1>9
  <2> QED BY <1>1, <2>1 DEF Called
<1>11. ASSUME NEW j \in DOMAIN list, NEW k \in DOMAIN list, p[j] = p[k] PROVE j = k
  <2>1. j \in 1..m /\ k \in 1..m /\ p[j] \in 1..n /\ p[k] \in 1..n BY <1>7, <1>9
  <2>2. (j < k => p[j] < p[k]) /\ (k < j => p[k] < p[j]) BY <1>7, <2>1
  <2> QED BY <1>6, <1>11, <2>1, <2>2
<1>12. ASSUME NEW k, NEW id, Called(parts, k, id) PROVE \E j \in DOMAIN list : p[j] = k
  <2>1. k \in K /\ k \in 1..n BY <1>1, <1>6, <1>12 DEF Called
  <2> QED BY <1>7, <1>9, <2>1
<1>13. CallsPlaced(list, parts, p) BY <1>10, <1>11, <1>12 DEF CallsPlaced
<1> QED BY <1>8, <1>13

\* a lists the members of S, each once.
Lists(a, S) ==
  /\ \A k \in DOMAIN a : a[k] \in S
  /\ \A j, k \in DOMAIN a : a[j] = a[k] => j = k
  /\ \A i \in S : \E k \in DOMAIN a : a[k] = i

\* The choices are made of what was collected of the candidates a.
MadeOf(choices, s, a) ==
  /\ DOMAIN choices = DOMAIN a
  /\ \A k \in DOMAIN a : AreParts(s[a[k]].parts) /\ choices[k].calls = CallsOf(s[a[k]].parts)

\* f names the calls of the choices.
NamesCalls(f, choices) ==
  /\ DOMAIN f = UNION {{k} \X DOMAIN choices[k].calls : k \in DOMAIN choices}
  /\ \A c \in DOMAIN f : f[c] = choices[c[1]].calls[c[2]].id

LEMMA NamedPlaces ==
    ASSUME NEW f, NEW choices, NamesCalls(f, choices)
    PROVE  /\ \A c \in DOMAIN f : \E k \in DOMAIN choices : \E j \in DOMAIN choices[k].calls : c = <<k, j>>
           /\ \A k \in DOMAIN choices : \A j \in DOMAIN choices[k].calls :
                <<k, j>> \in DOMAIN f /\ f[<<k, j>>] = choices[k].calls[j].id
<1>1. ASSUME NEW c \in DOMAIN f PROVE \E k \in DOMAIN choices : \E j \in DOMAIN choices[k].calls : c = <<k, j>>
  <2>1. PICK k \in DOMAIN choices : c \in {k} \X DOMAIN choices[k].calls BY DEF NamesCalls
  <2> QED BY <2>1
<1>2. ASSUME NEW k \in DOMAIN choices, NEW j \in DOMAIN choices[k].calls
      PROVE  <<k, j>> \in DOMAIN f /\ f[<<k, j>>] = choices[k].calls[j].id
  <2>1. <<k, j>> \in {k} \X DOMAIN choices[k].calls OBVIOUS
  <2>2. <<k, j>> \in DOMAIN f BY <2>1 DEF NamesCalls
  <2>3. <<k, j>>[1] = k /\ <<k, j>>[2] = j OBVIOUS
  <2> QED BY <2>2, <2>3 DEF NamesCalls
<1> QED BY <1>1, <1>2

\* The call at <<k, j>> is among what was collected.
LEMMA NamedTool ==
    ASSUME NEW s, NEW a, Lists(a, DOMAIN s), NEW choices, MadeOf(choices, s, a), NEW k \in DOMAIN choices
    PROVE  /\ a[k] \in DOMAIN s
           /\ \E p : /\ \A j \in DOMAIN choices[k].calls : Tool(s, a[k], p[j], choices[k].calls[j].id)
                     /\ \A i, j \in DOMAIN choices[k].calls : p[i] = p[j] => i = j
                     /\ \A l, id : Tool(s, a[k], l, id) =>
                          \E j \in DOMAIN choices[k].calls : p[j] = l /\ choices[k].calls[j].id = id
<1>1. k \in DOMAIN a /\ a[k] \in DOMAIN s BY DEF MadeOf, Lists
<1>2. PICK parts, list : parts = s[a[k]].parts /\ list = choices[k].calls OBVIOUS
<1>3. AreParts(parts) /\ list = CallsOf(parts) BY <1>1, <1>2 DEF MadeOf
<1>4. PICK p : CallsPlaced(list, parts, p)
  <2>1. \E p : CallsPlaced(CallsOf(parts), parts, p) BY <1>3, CallsOfParts
  <2> QED BY <1>3, <2>1
<1>5. ASSUME NEW l, NEW id PROVE Tool(s, a[k], l, id) <=> Called(parts, l, id) BY <1>1, <1>2 DEF Tool
<1>6. ASSUME NEW l, NEW id, Called(parts, l, id) PROVE \E j \in DOMAIN list : p[j] = l /\ list[j].id = id
  <2>1. PICK j \in DOMAIN list : p[j] = l BY <1>4, <1>6 DEF CallsPlaced
  <2>2. Called(parts, p[j], list[j].id) BY <1>4 DEF CallsPlaced
  <2> QED BY <1>6, <2>1, <2>2 DEF Called
<1> HIDE DEF Tool
<1>7. \A j \in DOMAIN list : Tool(s, a[k], p[j], list[j].id) BY <1>4, <1>5 DEF CallsPlaced
<1>8. \A i, j \in DOMAIN list : p[i] = p[j] => i = j BY <1>4 DEF CallsPlaced
<1>9. \A l, id : Tool(s, a[k], l, id) => \E j \in DOMAIN list : p[j] = l /\ list[j].id = id BY <1>5, <1>6
<1> QED BY <1>1, <1>2, <1>7, <1>8, <1>9

LEMMA NamesOnce ==
    ASSUME NEW s, NEW u, FiledIn(s, u), NEW a, Lists(a, DOMAIN s), NEW choices, MadeOf(choices, s, a),
           NEW f, NamesCalls(f, choices)
    PROVE  IsInjective(f) /\ \A y : y \in u <=> \E x \in DOMAIN f : y = f[x]
<1>1. ASSUME NEW x \in DOMAIN f, NEW y \in DOMAIN f, f[x] = f[y] PROVE x = y
  <2>1. PICK k \in DOMAIN choices : \E i \in DOMAIN choices[k].calls : x = <<k, i>> BY NamedPlaces
  <2>2. PICK i \in DOMAIN choices[k].calls : x = <<k, i>> BY <2>1
  <2>3. PICK l \in DOMAIN choices : \E j \in DOMAIN choices[l].calls : y = <<l, j>> BY NamedPlaces
  <2>4. PICK j \in DOMAIN choices[l].calls : y = <<l, j>> BY <2>3
  <2>5. f[x] = choices[k].calls[i].id /\ f[y] = choices[l].calls[j].id BY <2>2, <2>4, NamedPlaces
  <2>6. PICK p : /\ \A m \in DOMAIN choices[k].calls : Tool(s, a[k], p[m], choices[k].calls[m].id)
                 /\ \A m, n \in DOMAIN choices[k].calls : p[m] = p[n] => m = n
    BY NamedTool
  <2>7. PICK q : \A m \in DOMAIN choices[l].calls : Tool(s, a[l], q[m], choices[l].calls[m].id) BY NamedTool
  <2>8. Tool(s, a[k], p[i], f[x]) /\ Tool(s, a[l], q[j], f[x]) BY <1>1, <2>5, <2>6, <2>7
  <2>9. a[k] = a[l] BY <2>8 DEF FiledIn
  <2>10. k = l BY <2>9 DEF Lists, MadeOf
  <2>11. Tool(s, a[k], p[j], f[x]) BY <1>1, <2>5, <2>6, <2>10
  <2>12. p[i] = p[j] BY <2>8, <2>11 DEF FiledIn
  <2>13. i = j BY <2>6, <2>10, <2>12
  <2> QED BY <2>2, <2>4, <2>10, <2>13
<1>2. ASSUME NEW x \in DOMAIN f PROVE f[x] \in u
  <2>1. PICK k \in DOMAIN choices : \E i \in DOMAIN choices[k].calls : x = <<k, i>> BY NamedPlaces
  <2>2. PICK i \in DOMAIN choices[k].calls : x = <<k, i>> BY <2>1
  <2>3. f[x] = choices[k].calls[i].id BY <2>2, NamedPlaces
  <2>4. PICK p : \A m \in DOMAIN choices[k].calls : Tool(s, a[k], p[m], choices[k].calls[m].id) BY NamedTool
  <2>5. Tool(s, a[k], p[i], f[x]) BY <2>3, <2>4
  <2> QED BY <2>5 DEF FiledIn
<1>3. ASSUME NEW id \in u PROVE \E x \in DOMAIN f : id = f[x]
  <2>1. PICK i, l : Tool(s, i, l, id) BY DEF FiledIn
  <2>2. i \in DOMAIN s BY <2>1 DEF Tool
  <2>3. PICK k \in DOMAIN choices : a[k] = i BY <2>2 DEF Lists, MadeOf
  <2>4. \A m, c : Tool(s, a[k], m, c) => \E j \in DOMAIN choices[k].calls : choices[k].calls[j].id = c BY NamedTool
  <2>5. PICK j \in DOMAIN choices[k].calls : choices[k].calls[j].id = id BY <2>1, <2>3, <2>4
  <2>6. <<k, j>> \in DOMAIN f /\ f[<<k, j>>] = id BY <2>5, NamedPlaces
  <2> QED BY <2>6
<1>4. IsInjective(f) BY <1>1 DEF IsInjective
<1> QED BY <1>2, <1>3, <1>4

AnswerJson ==
  LET order == Ascending(DOMAIN saved)
  IN  [ev |-> "json", choices |-> [k \in DOMAIN order |-> Message(order[k])], message |-> ClaudeMessage(order[1])]

\* All of what was collected, and the answer that is made of it.
JsonGathered ==
  /\ protocol = "json" /\ Registry /\ FiledIn(saved, DOMAIN used)
  /\ DOMAIN saved \subseteq Nat /\ IsFiniteSet(DOMAIN saved) /\ DOMAIN saved # {}
  /\ \A i \in DOMAIN saved : Collected(saved[i], SpokenAll(i))

JsonWell == JsonGathered /\ out = <<AnswerJson>>

LEMMA JsonWellKept == ASSUME JsonWell PROVE AnswerIsKept
<1>1. PICK a : a = Ascending(DOMAIN saved) OBVIOUS
<1>2. Lists(a, DOMAIN saved)
  <2>1. DOMAIN saved \in SUBSET Nat /\ IsFiniteSet(DOMAIN saved) BY DEF JsonWell, JsonGathered
  <2> QED BY <1>1, <2>1, AscendingLemma DEF Lists
<1>3. PICK choices : choices = [k \in DOMAIN a |-> Message(a[k])] OBVIOUS
<1>4. PICK e : e = AnswerJson OBVIOUS
<1>5. e.ev = "json" /\ e.choices = choices /\ e.message = ClaudeMessage(a[1]) BY <1>1, <1>3, <1>4 DEF AnswerJson
<1>6. out = <<e>> /\ out[1] = e /\ DOMAIN out = {1} /\ Len(out) = 1 /\ out # <<>>
  BY <1>4, OneElement, EmptyIsSeq DEF JsonWell
<1>7. protocol = "json" BY DEF JsonWell, JsonGathered
<1>8. DOMAIN choices = DOMAIN a BY <1>3
<1>9. ASSUME NEW k \in DOMAIN a
      PROVE  /\ a[k] \in DOMAIN saved /\ AreParts(saved[a[k]].parts)
             /\ choices[k].calls = CallsOf(saved[a[k]].parts) /\ choices[k].index = a[k]
             /\ choices[k].content = SpokenBy({"text"}, a[k]) /\ choices[k].reasoning = SpokenBy({"thought"}, a[k])
  <2>1. a[k] \in DOMAIN saved BY <1>2 DEF Lists
  <2>2. PICK x : x = saved[a[k]] OBVIOUS
  <2>3. Collected(x, SpokenAll(a[k])) BY <2>1, <2>2 DEF JsonWell, JsonGathered
  <2>4. choices[k] = Message(a[k]) BY <1>3
  <2>5. /\ choices[k].index = a[k] /\ choices[k].content = TextsOf(x.parts, "text")
        /\ choices[k].reasoning = TextsOf(x.parts, "thought") /\ choices[k].calls = CallsOf(x.parts)
    BY <2>2, <2>4 DEF Message
  <2>6. \A K \in Kinds : Speech(x.parts, K) = SpokenBy(K, a[k]) BY <2>3 DEF Collected, SpokenAll
  <2>7. {"text"} \in Kinds /\ {"thought"} \in Kinds BY DEF Kinds
  <2>8. TextsOf(x.parts, "text") = Speech(x.parts, {"text"}) /\ TextsOf(x.parts, "thought") = Speech(x.parts, {"thought"})
    BY <2>3, TextsByParts DEF Collected
  <2> QED BY <2>1, <2>2, <2>3, <2>5, <2>6, <2>7, <2>8 DEF Collected
<1>10. EventsAreInOrder BY <1>6, <1>7 DEF EventsAreInOrder, IsLast
<1>a. 1 \in DOMAIN a
  <2>1. PICK n \in Nat : DOMAIN a = 1..n BY <1>1, AscendingLemma DEF JsonWell, JsonGathered
  <2>2. PICK i : i \in DOMAIN saved BY DEF JsonWell, JsonGathered
  <2>3. PICK k \in DOMAIN a : a[k] = i BY <1>2, <2>2 DEF Lists
  <2> QED BY <2>1, <2>3
<1>b. ASSUME NEW K \in Kinds
      PROVE  BlockTexts(e.message.content, K) = Places(ProseOf(K, choices[1].index))
  <2>1. a[1] \in DOMAIN saved /\ choices[1].index = a[1] BY <1>9, <1>a
  <2>2. PICK x : x = saved[a[1]] OBVIOUS
  <2>3. Collected(x, SpokenAll(a[1])) BY <2>1, <2>2 DEF JsonWell, JsonGathered
  <2>4. e.message.content = Blocks(x.parts) BY <1>5, <2>2 DEF ClaudeMessage
  <2>5. BlockTexts(Blocks(x.parts), K) = Speech(x.parts, K) BY <2>3, BlocksTell DEF Collected
  <2>6. Speech(x.parts, K) = SpokenBy(K, a[1]) BY <2>3 DEF Collected, SpokenAll
  <2> QED BY <2>1, <2>4, <2>5, <2>6 DEF SpokenBy
<1>11. TextIsTold
  <2>1. ASSUME NEW m \in Range(choices)
        PROVE  m.content = Places(ProseOf({"text"}, m.index)) /\ m.reasoning = Places(ProseOf({"thought"}, m.index))
    <3>1. PICK k \in DOMAIN a : m = choices[k] BY <1>8 DEF Range
    <3> QED BY <1>9, <3>1 DEF SpokenBy
  <2>2. out[1].choices = choices /\ out[1].message = e.message BY <1>5, <1>6
  <2> QED BY <1>7, <1>b, <2>1, <2>2 DEF TextIsTold, Kinds
<1>12. SignaturesAreKept BY <1>7 DEF SignaturesAreKept
<1>13. PICK f : f = CallIds OBVIOUS
<1>14. NamesCalls(f, choices) /\ f = [c \in DOMAIN f |-> f[c]]
  <2>1. PICK S : S = UNION {{k} \X DOMAIN choices[k].calls : k \in DOMAIN choices} OBVIOUS
  <2>2. f = [c \in S |-> choices[c[1]].calls[c[2]].id] BY <1>5, <1>6, <1>7, <1>13, <2>1 DEF CallIds
  <2>3. DOMAIN f = S /\ f = [c \in DOMAIN f |-> f[c]] BY <2>2
  <2>4. \A c \in DOMAIN f : f[c] = choices[c[1]].calls[c[2]].id BY <2>2
  <2> QED BY <2>1, <2>3, <2>4 DEF NamesCalls
<1>15. MadeOf(choices, saved, a) BY <1>8, <1>9 DEF MadeOf
<1>16. PICK s, u : s = saved /\ u = DOMAIN used OBVIOUS
<1>17. IsInjective(f) /\ \A y : y \in u <=> \E x \in DOMAIN f : y = f[x]
  <2>1. FiledIn(s, u) /\ Lists(a, DOMAIN s) /\ MadeOf(choices, s, a)
    BY <1>2, <1>15, <1>16 DEF JsonWell, JsonGathered
  <2> QED BY <1>14, <2>1, NamesOnce
<1>18. IsFiniteSet(u) /\ Cardinality(u) = Cardinality(NewCalls)
  BY <1>16 DEF JsonWell, JsonGathered, Registry
<1>19. Cardinality(DOMAIN f) = Cardinality(u) BY <1>14, <1>17, <1>18, CountedOnce
<1>20. CallsAreOnce BY <1>13, <1>17, <1>18, <1>19 DEF CallsAreOnce, NewCalls
<1> QED BY <1>10, <1>11, <1>12, <1>20 DEF AnswerIsKept

LEMMA JsonNothing == ASSUME protocol = "json", out = <<>>, phase # "done" PROVE AnswerIsKept
<1>1. DOMAIN <<>> = {} BY EmptyIsSeq
<1>2. EventsAreInOrder BY <1>1 DEF EventsAreInOrder
<1>3. TextIsTold /\ SignaturesAreKept BY DEF TextIsTold, SignaturesAreKept
<1>4. PICK f : f = CallIds OBVIOUS
<1>5. DOMAIN f = {}
  <2>1. PICK S : S = UNION {{k} \X DOMAIN <<>>[k].calls : k \in DOMAIN <<>>} OBVIOUS
  <2>2. S = {} BY <1>1, <2>1
  <2>3. f = [c \in S |-> <<>>[c[1]].calls[c[2]].id] BY <1>4, <2>1 DEF CallIds
  <2> QED BY <2>2, <2>3
<1>6. IsInjective(f) BY <1>5 DEF IsInjective
<1>7. CallsAreOnce BY <1>4, <1>6 DEF CallsAreOnce
<1> QED BY <1>2, <1>3, <1>7 DEF AnswerIsKept

LEMMA CollectLinkKept == ASSUME CollectLink, protocol = "json", phase # "done" PROVE AnswerIsKept
  BY JsonNothing DEF CollectLink

LEMMA SpokenSame == ASSUME UNCHANGED given, NEW i PROVE SpokenAll(i)' = SpokenAll(i)
<1>1. ASSUME NEW K \in Kinds PROVE SpokenBy(K, i)' = SpokenBy(K, i) BY DEF SpokenBy, Places, ProseOf, IsProse
<1> QED BY <1>1 DEF SpokenAll, Kinds

LEMMA CollectLinkSame == ASSUME CollectLink, UNCHANGED <<given, used, saved, out>> PROVE CollectLink'
<1>1. Met' = Met BY MetSame
<1>3. ASSUME NEW i PROVE SpokenAll(i)' = SpokenAll(i) BY SpokenSame
<1>4. (\A k \in DOMAIN given : given[k].index \in Met)' BY <1>1 DEF CollectLink
<1>5. (\A i \in DOMAIN saved : Collected(saved[i], SpokenAll(i)))'
  BY <1>3 DEF CollectLink
<1>6. FiledIn(saved, DOMAIN used)' BY DEF CollectLink
<1>7. (out = <<>> /\ Met = DOMAIN saved /\ IsFiniteSet(DOMAIN saved))' BY <1>1 DEF CollectLink
<1> QED BY <1>4, <1>5, <1>6, <1>7 DEF CollectLink

LEMMA CollectEndKept ==
    ASSUME WalkInv, Registry, Flow, CollectLink, protocol = "json", CollectEnd PROVE ~Running' /\ AnswerIsKept'
<1>1. /\ UNCHANGED <<protocol, given, calls, used, saved>> /\ phase' \in {"done", "failed"}
      /\ phase' = "failed" => out' = <<>>
      /\ phase' = "done" => out' = <<AnswerJson>>
  BY DEF CollectEnd, AnswerJson
<1>2. CASE phase' = "failed"
  <2>1. (protocol = "json" /\ out = <<>> /\ phase # "done")' BY <1>1, <1>2
  <2>2. (protocol = "json" /\ out = <<>> /\ phase # "done" => AnswerIsKept)' BY JsonNothing, PTL
  <2> QED BY <1>2, <2>1, <2>2 DEF Running
<1>3. CASE phase' = "done"
  <2>1. Registry' BY <1>1, RegistrySame
  <2>2. JsonGathered
    <3>1. DOMAIN saved \subseteq Nat /\ IsFiniteSet(DOMAIN saved) BY DEF WalkInv, CollectLink
    <3>2. phase = "closing" /\ cause = None BY <1>3 DEF CollectEnd
    <3>3. DOMAIN seen # {} BY <3>2 DEF Flow, Complete
    <3>4. DOMAIN saved # {} BY <3>2, <3>3 DEF WalkInv, CollectLink, Whole
    <3> QED BY <3>1, <3>4 DEF JsonGathered, CollectLink
  <2>3. ASSUME NEW i PROVE SpokenAll(i)' = SpokenAll(i) BY <1>1, SpokenSame
  <2>4. (\A i \in DOMAIN saved : Collected(saved[i], SpokenAll(i)))'
    BY <1>1, <2>2, <2>3 DEF JsonGathered
  <2>5. JsonGathered' BY <1>1, <2>1, <2>2, <2>4 DEF JsonGathered
  <2>6. AnswerJson' = AnswerJson
    <3>1. ASSUME NEW i PROVE Message(i)' = Message(i) BY <1>1 DEF Message
    <3>2. ASSUME NEW i PROVE ClaudeMessage(i)' = ClaudeMessage(i) BY <1>1 DEF ClaudeMessage
    <3>3. saved' = saved BY <1>1
    <3> QED BY <3>1, <3>2, <3>3 DEF AnswerJson
  <2>7. JsonWell' BY <1>1, <1>3, <2>5, <2>6 DEF JsonWell
  <2>8. (JsonWell => AnswerIsKept)' BY JsonWellKept, PTL
  <2> QED BY <1>3, <2>7, <2>8 DEF Running
<1> QED BY <1>1, <1>2, <1>3

LEMMA CollectStepLink ==
    ASSUME WalkInv, Registry, Flow, CollectLink, CollectStep
    PROVE  IF Running' THEN CollectLink' ELSE AnswerIsKept'
<1>1. protocol = "json" /\ CollectNext BY DEF CollectStep
<1>3. CASE CollectEnd BY <1>1, <1>3, CollectEndKept
<1>4. CASE CollectRepeated \/ CollectCandidate \/ CollectPart
  <2>1. CollectLink' BY <1>1, <1>4, CollectRepeatedLink, CollectCandidateLink, CollectPartLink
  <2>2. phase' = phase /\ phase = "walk"
    BY <1>4 DEF CollectRepeated, ToolRepeated, CollectCandidate, CollectPart, NewTool, Visiting, Goes
  <2> QED BY <2>1, <2>2 DEF Running
<1>5. CASE (\E f \in Frames : ReadFrame(f) /\ UNCHANGED saved) \/ ((WalkEnds \/ WalkFails \/ ToolRefused) /\ UNCHANGED saved)
  <2>1. WalkNext /\ UNCHANGED saved BY <1>5 DEF WalkNext
  <2>2. UNCHANGED <<out, used, given, protocol>> /\ phase' # "done"
    BY <1>5 DEF ReadFrame, WalkEnds, WalkFails, ToolRefused
  <2>3. CollectLink' BY <2>1, <2>2, CollectLinkSame
  <2>4. (CollectLink /\ protocol = "json" /\ phase # "done" => AnswerIsKept)' BY CollectLinkKept, PTL
  <2> QED BY <1>1, <2>2, <2>3, <2>4
<1> QED BY <1>1, <1>3, <1>4, <1>5 DEF CollectNext

LEMMA CollectLinkStart == ASSUME CollectInit, given = <<>>, used = <<>>, out = <<>> PROVE CollectLink
<1>1. DOMAIN <<>> = {} /\ IsFiniteSet({}) BY EmptyIsSeq, FS_EmptySet
<1>2. Met = {} BY NothingPlaced
<1>3. DOMAIN saved = {} /\ DOMAIN used = {} /\ DOMAIN given = {} BY <1>1 DEF CollectInit
<1>4. FiledIn(saved, {}) BY <1>3 DEF FiledIn, Tool
<1> QED BY <1>1, <1>2, <1>3, <1>4 DEF CollectLink

-----------------------------------------------------------------------------
(* All the answers. *)

Link == CASE protocol = "claude" -> ClaudeLink
          [] protocol = "responses" -> ResponsesLink
          [] protocol = "openai" -> OpenAILink
          [] OTHER -> CollectLink

\* What is known of an answer at every step: of its walk, of its calls, and
\* that what was told so far is what was visited.
ToldInv ==
  /\ EndInv /\ WalkInv /\ Registry /\ protocol \in Protocols
  /\ IF Running THEN Link ELSE AnswerIsKept

LEMMA LinkKept == ASSUME Link, Registry, Running, protocol \in Protocols PROVE AnswerIsKept
<1>1. phase # "done" BY DEF Running
<1>2. CASE protocol = "claude" BY <1>1, <1>2, ClaudeLinkKept DEF Link
<1>3. CASE protocol = "responses" BY <1>3, ResponsesLinkKept DEF Link
<1>4. CASE protocol = "openai" BY <1>4, OpenAILinkKept DEF Link
<1>5. CASE protocol = "json" BY <1>1, <1>5, CollectLinkKept DEF Link
<1> QED BY <1>2, <1>3, <1>4, <1>5 DEF Protocols, Streamed

LEMMA AnswerKept == ASSUME ToldInv PROVE AnswerIsKept
  BY LinkKept DEF ToldInv

LEMMA ToldStart == ASSUME StreamsInit PROVE ToldInv
<1>1. EndInv BY EndInvStart
<1>2. /\ protocol \in Protocols /\ phase \in {"prepare", "walk"}
      /\ given = <<>> /\ todo = <<>> /\ seen = <<>> /\ calls = <<>> /\ used = <<>> /\ out = <<>>
      /\ ClaudeInit /\ ResponsesInit /\ OpenAIInit /\ CollectInit
  BY DEF StreamsInit, Init
<1>3. WalkInv
  <2>1. DOMAIN seen = {} BY <1>2, EmptyIsSeq
  <2> QED BY <1>2, <2>1, WalkInvStart
<1>4. Registry BY <1>2, RegistryStart
<1>5. Link BY <1>2, ClaudeLinkStart, ResponsesLinkStart, OpenAILinkStart, CollectLinkStart DEF Link
<1> QED BY <1>1, <1>2, <1>3, <1>4, <1>5 DEF ToldInv, Running

\* The order of the events is told by the events alone.
LEMMA OrderOfSame ==
    ASSUME UNCHANGED out, NEW i
    PROVE  /\ ClaudeOrder(out, i)' <=> ClaudeOrder(out, i)
           /\ ResponsesOrder(out, i)' <=> ResponsesOrder(out, i)
           /\ OpenAIOrder(out, i)' <=> OpenAIOrder(out, i)
<1>1. ClaudeOrder(out, i)' <=> ClaudeOrder(out, i) BY DEF ClaudeOrder, Before, IsLast
<1>2. Done(out)' = Done(out) BY DEF Done
<1>3. ResponsesOrder(out, i)' <=> ResponsesOrder(out, i) BY <1>2 DEF ResponsesOrder, Before, IsLast
<1>4. OpenAIOrder(out, i)' <=> OpenAIOrder(out, i) BY DEF OpenAIOrder, IsLast
<1> QED BY <1>1, <1>3, <1>4

InOrder(i) == CASE protocol = "claude" -> ClaudeOrder(out, i)
                [] protocol = "responses" -> ResponsesOrder(out, i)
                [] protocol = "openai" -> OpenAIOrder(out, i)
                [] OTHER -> IsLast(out, i)

LEMMA KeptSame == ASSUME AnswerIsKept, UNCHANGED vars PROVE AnswerIsKept'
<1>1. UNCHANGED <<protocol, phase, cause, given, used, out, outputs>> BY DEF vars, walkVars, responsesVars
<1>2. EventsAreInOrder'
  <2> SUFFICES ASSUME NEW i \in DOMAIN out' PROVE InOrder(i)' BY DEF EventsAreInOrder, InOrder
  <2>1. InOrder(i) BY <1>1 DEF AnswerIsKept, EventsAreInOrder, InOrder
  <2> QED BY <1>1, <2>1, OrderOfSame DEF InOrder, IsLast
<1>3. TextIsTold'
  <2>1. Intact' = Intact /\ Over' = Over BY <1>1 DEF Intact, Over
  <2>2. Prose(out)' = Prose(out) BY <1>1 DEF Prose, Said, Tells
  <2>3. Places({k \in DOMAIN given : IsProse(k)})' = Places({k \in DOMAIN given : IsProse(k)})
    BY <1>1 DEF Places, IsProse
  <2>4. ASSUME NEW kinds, NEW n PROVE Places(ProseOf(kinds, n))' = Places(ProseOf(kinds, n))
    BY <1>1 DEF Places, ProseOf, IsProse
  <2>5. TextIsTold BY DEF AnswerIsKept
  <2> QED BY <1>1, <2>1, <2>2, <2>3, <2>4, <2>5 DEF TextIsTold
<1>4. CallsAreOnce'
  <2>1. CallIds' = CallIds BY <1>1 DEF CallIds, IsCall
  <2>2. (\A k : IsNewCall(k)' <=> IsNewCall(k)) BY <1>1 DEF IsNewCall, CallKey
  <2>3. {k \in DOMAIN given : IsNewCall(k)}' = {k \in DOMAIN given : IsNewCall(k)} BY <1>1, <2>2
  <2>4. IsInjective(CallIds)' BY <2>1 DEF AnswerIsKept, CallsAreOnce, IsInjective
  <2> QED BY <1>1, <2>1, <2>3, <2>4 DEF AnswerIsKept, CallsAreOnce, Intact
<1>5. SignaturesAreKept'
  <2>1. (\A l : LastSignature(l)' <=> LastSignature(l))
    BY <1>1 DEF LastSignature, SameBlock, OpensThinking, IsNewCall, CallKey
  <2> QED BY <1>1, <2>1 DEF AnswerIsKept, SignaturesAreKept, Said
<1> QED BY <1>2, <1>3, <1>4, <1>5 DEF AnswerIsKept

LEMMA LinkSame == ASSUME Link, UNCHANGED vars PROVE Link'
<1>1. UNCHANGED <<walkVars, claudeVars, responsesVars, states, saved>> BY DEF vars
<1>2. UNCHANGED <<protocol, phase, cause, todo, given, used, out>> BY <1>1 DEF walkVars
<1>3. CASE protocol = "claude" BY <1>1, <1>2, <1>3, ClaudeLinkSame DEF Link
<1>4. CASE protocol = "responses"
  <2>1. UNCHANGED <<outputs, active, text>> BY <1>1 DEF responsesVars
  <2>2. Places(Prosaic)' = Places(Prosaic) BY <1>2, PartsSame
  <2>3. ResponsesLink BY <1>4 DEF Link
  <2>6. ResponsesLink'
    <3>1. CASE out = <<>> BY <1>2, <2>1, <2>3, <3>1 DEF ResponsesLink
    <3>2. CASE out # <<>>
      <4>1. PICK dones, x : /\ Listing(dones, x)
                            /\ Story(out, dones, active # 0, OpenText, Places(Prosaic), DOMAIN used)
        BY <2>3, <3>2 DEF ResponsesLink
      <4>2. Listing(dones, x)' /\ OpenText' = OpenText BY <2>1, <4>1 DEF Listing, IsItem, OpenText
      <4>3. Story(out, dones, active # 0, OpenText, Places(Prosaic), DOMAIN used)' BY <1>2, <2>1, <2>2, <4>1, <4>2
      <4> QED BY <1>2, <2>3, <3>2, <4>2, <4>3 DEF ResponsesLink
    <3> QED BY <3>1, <3>2
  <2> QED BY <1>2, <1>4, <2>6 DEF Link
<1>5. CASE protocol = "openai"
  <2>1. Met' = Met /\ Places(Prosaic)' = Places(Prosaic) BY <1>2, PartsSame
  <2>2. CallsAt' = CallsAt BY <1>1 DEF CallsAt
  <2>3. OpenAILink BY <1>5 DEF Link
  <2>4. OpenAILink' BY <1>1, <1>2, <2>1, <2>2, <2>3 DEF OpenAILink, IsState
  <2> QED BY <1>2, <1>5, <2>4 DEF Link
<1>6. CASE protocol \notin {"claude", "responses", "openai"} BY <1>1, <1>2, <1>6, CollectLinkSame DEF Link
<1> QED BY <1>3, <1>4, <1>5, <1>6

LEMMA ToldSame == ASSUME ToldInv, UNCHANGED vars PROVE ToldInv'
<1>1. EndInv' BY EndInvStep DEF ToldInv
<1>2. WalkInv' BY WalkInvStep DEF ToldInv
<1>3. Registry' BY RegistryStep DEF ToldInv
<1>4. UNCHANGED <<protocol, phase>> BY DEF vars, walkVars
<1>5. IF Running THEN Link' ELSE AnswerIsKept' BY LinkSame, KeptSame DEF ToldInv
<1>6. Running' <=> Running BY <1>4 DEF Running
<1>7. protocol' \in Protocols BY <1>4 DEF ToldInv
<1> QED BY <1>1, <1>2, <1>3, <1>5, <1>6, <1>7 DEF ToldInv

LEMMA ToldStep == ASSUME ToldInv, [Next]_vars PROVE ToldInv'
<1>1. CASE UNCHANGED vars BY <1>1, ToldSame
<1>2. CASE ClaudeStep \/ ResponsesStep \/ OpenAIStep \/ CollectStep
  <2>1. Next BY <1>2 DEF Next
  <2>2. EndInv' /\ WalkInv' /\ Registry' BY <2>1, EndInvStep, WalkInvStep, RegistryStep DEF ToldInv
  <2>3. protocol' = protocol
    <3>1. Idle \/ Refused \/ Reads \/ VisitStep BY <2>1, StepKinds
    <3> QED BY <3>1 DEF Idle, Refused, Reads, ReadFrame, VisitStep, Goes
  <2>4. WalkInv /\ Registry /\ Flow /\ IsFiniteSet(DOMAIN states) /\ Link
    <3>1. Running BY <1>2, StepsRun
    <3> QED BY <3>1 DEF ToldInv, EndInv
  <2>5. IF Running' THEN Link' ELSE AnswerIsKept'
    <3>1. CASE ClaudeStep
      <4>1. protocol = "claude" BY <3>1 DEF ClaudeStep
      <4>2. ClaudeLink BY <2>4, <4>1 DEF Link
      <4>3. IF Running' THEN ClaudeLink' ELSE AnswerIsKept' BY <2>2, <2>4, <3>1, <4>2, ClaudeStepLink
      <4> QED BY <2>3, <4>1, <4>3 DEF Link
    <3>2. CASE ResponsesStep
      <4>1. protocol = "responses" BY <3>2 DEF ResponsesStep
      <4>2. ResponsesLink BY <2>4, <4>1 DEF Link
      <4>3. IF Running' THEN ResponsesLink' ELSE AnswerIsKept' BY <2>2, <2>4, <3>2, <4>2, ResponsesStepLink
      <4> QED BY <2>3, <4>1, <4>3 DEF Link
    <3>3. CASE OpenAIStep
      <4>1. protocol = "openai" BY <3>3 DEF OpenAIStep
      <4>2. OpenAILink BY <2>4, <4>1 DEF Link
      <4>3. IF Running' THEN OpenAILink' ELSE AnswerIsKept' BY <2>2, <2>4, <3>3, <4>2, OpenAIStepLink
      <4> QED BY <2>3, <4>1, <4>3 DEF Link
    <3>4. CASE CollectStep
      <4>1. protocol = "json" BY <3>4 DEF CollectStep
      <4>2. CollectLink BY <2>4, <4>1 DEF Link
      <4>3. IF Running' THEN CollectLink' ELSE AnswerIsKept' BY <2>4, <3>4, <4>2, CollectStepLink
      <4> QED BY <2>3, <4>1, <4>3 DEF Link
    <3> QED BY <1>2, <3>1, <3>2, <3>3, <3>4
  <2>6. protocol' \in Protocols BY <2>3 DEF ToldInv
  <2> QED BY <2>2, <2>5, <2>6 DEF ToldInv
<1> QED BY <1>1, <1>2 DEF Next, Finished

-----------------------------------------------------------------------------
(* The theorems. *)

\* For every set of frames, every length of the answer and every limit on the
\* candidates and the tool calls: nothing is written before the first frame is
\* judged, a writer that returns nil has written a complete answer and said so,
\* one that returns an error has claimed no success, and the client is told of
\* it unless it is gone (every writer of convert/stream.go and responses.go).
THEOREM AnswersEndHonestly == Spec => []EndIsHonest
<1>1. StreamsInit => EndInv BY EndInvStart
<1>2. EndInv /\ [Next]_vars => EndInv' BY EndInvStep
<1>3. EndInv => EndIsHonest BY DEF EndInv, Flow
<1> QED BY <1>1, <1>2, <1>3, PTL DEF Spec

LEMMA AnswerAlways == Spec => []AnswerIsKept
<1>1. StreamsInit => ToldInv BY ToldStart
<1>2. ToldInv /\ [Next]_vars => ToldInv' BY ToldStep
<1>3. ToldInv => AnswerIsKept BY AnswerKept
<1> QED BY <1>1, <1>2, <1>3, PTL DEF Spec

\* Whatever parts the upstream sends, in whatever order, and wherever the client
\* breaks off: the blocks, items and chunks of each protocol are opened, filled,
\* numbered and closed in its order, the last event of the Responses protocol
\* repeats the items that were done, and nothing follows a terminal event
\* (closeBlock and startBlock of the Claude writer, closeItem and startText of
\* responses.go, the roles and tool indices of the OpenAI writer).
THEOREM EventsComeInOrder == Spec => []EventsAreInOrder
<1>1. AnswerIsKept => EventsAreInOrder BY DEF AnswerIsKept
<1> QED BY <1>1, AnswerAlways, PTL

\* For every number of candidates and of tool calls: a call that is repeated
\* under its id is delivered once, one without an id always, and no two calls
\* of an answer carry the same id (streamToolRegistry.prepare).
THEOREM CallsComeOnce == Spec => []CallsAreOnce
<1>1. AnswerIsKept => CallsAreOnce BY DEF AnswerIsKept
<1> QED BY <1>1, AnswerAlways, PTL

\* However texts, thoughts, signatures and tool calls alternate: each thinking
\* block of an answer in the Claude protocol ends with its last signature, also
\* when that comes with a later part that has no text (pendingSig).
THEOREM NoSignatureIsLost == Spec => []SignaturesAreKept
<1>1. AnswerIsKept => SignaturesAreKept BY DEF AnswerIsKept
<1> QED BY <1>1, AnswerAlways, PTL
=============================================================================
