----------------------------- MODULE SumsProofs -----------------------------
(***************************************************************************)
(* The sum of a sequence of numbers: its type, and what a number more at   *)
(* the end or one less at the front does to it.                            *)
(*                                                                         *)
(* Induction is stated over the set of the numbers for which the claim     *)
(* holds, so that no theorem takes a predicate as its parameter.           *)
(***************************************************************************)
EXTENDS Sums, WellFoundedInduction, SequenceTheorems, TLAPS

-----------------------------------------------------------------------------
(* Induction, stated for a set instead of a predicate *)

NatLess == {p \in Nat \X Nat : p[1] < p[2]}

LEMMA NatLessWellFounded == IsWellFoundedOn(NatLess, Nat)
<1>1. OpToRel(<, Nat) = NatLess
  BY DEF OpToRel, NatLess
<1> QED BY <1>1, NatLessThanWellFounded

\* A set that holds 0 and with every number the next one holds all of them.
LEMMA SetInduction ==
  ASSUME NEW T, 0 \in T, \A n \in Nat : n \in T => n + 1 \in T
  PROVE  \A n \in Nat : n \in T
<1> SUFFICES ASSUME Nat \ T # {} PROVE FALSE
  OBVIOUS
<1>1. PICK m \in Nat \ T : \A k \in Nat \ T : <<k, m>> \notin NatLess
  BY NatLessWellFounded, WFMin
<1>2. m - 1 \in Nat
  OBVIOUS
<1>3. <<m - 1, m>> \in NatLess
  BY <1>2 DEF NatLess
<1>4. m - 1 \in T
  BY <1>1, <1>2, <1>3
<1>5. (m - 1) + 1 = m
  OBVIOUS
<1> QED BY <1>2, <1>4, <1>5

-----------------------------------------------------------------------------
(* The sum *)

IsSums(f, v, n) ==
  f = [k \in 0..n |-> IF k = 0 THEN 0 ELSE f[k - 1] + v[k]]

\* The recursion has a solution up to every length.
LEMMA SumsUpTo ==
  ASSUME NEW v \in Seq(Nat)
  PROVE  \A n \in Nat : n <= Len(v) => \E f \in [0..n -> Nat] : IsSums(f, v, n)
<1> DEFINE T == {n \in Nat : n <= Len(v) => \E f \in [0..n -> Nat] : IsSums(f, v, n)}
<1>1. 0 \in T
  <2> DEFINE f == [k \in 0..0 |-> 0]
  <2>1. f \in [0..0 -> Nat] /\ IsSums(f, v, 0)
    BY DEF IsSums
  <2> QED BY <2>1
<1>2. ASSUME NEW n \in Nat, n \in T PROVE n + 1 \in T
  <2> SUFFICES ASSUME n + 1 <= Len(v)
               PROVE \E f \in [0..n + 1 -> Nat] : IsSums(f, v, n + 1)
    OBVIOUS
  <2>1. PICK f \in [0..n -> Nat] : IsSums(f, v, n)
    BY <1>2
  <2>2. v[n + 1] \in Nat
    OBVIOUS
  <2> DEFINE g == [k \in 0..n + 1 |-> IF k <= n THEN f[k] ELSE f[n] + v[n + 1]]
  <2>3. g \in [0..n + 1 -> Nat]
    BY <2>1, <2>2
  <2>4. ASSUME NEW k \in 0..n + 1
        PROVE  g[k] = IF k = 0 THEN 0 ELSE g[k - 1] + v[k]
    <3>1. CASE k <= n
      BY <2>1, <3>1 DEF IsSums
    <3>2. CASE k = n + 1
      BY <2>1, <3>2
    <3> QED BY <3>1, <3>2
  <2>5. IsSums(g, v, n + 1)
    BY <2>4 DEF IsSums
  <2> QED BY <2>3, <2>5
<1> HIDE DEF T
<1>3. \A n \in Nat : n \in T
  BY <1>1, <1>2, SetInduction
<1> QED BY <1>3 DEF T

\* The partial sums of a sequence of natural numbers.
LEMMA PartialSumsAre ==
  ASSUME NEW v \in Seq(Nat)
  PROVE  /\ PartialSums(v) \in [0..Len(v) -> Nat]
         /\ PartialSums(v)[0] = 0
         /\ \A k \in 1..Len(v) : PartialSums(v)[k] = PartialSums(v)[k - 1] + v[k]
<1>1. PICK f \in [0..Len(v) -> Nat] : IsSums(f, v, Len(v))
  BY SumsUpTo
<1>2. IsSums(PartialSums(v), v, Len(v))
  BY <1>1 DEF PartialSums, IsSums
<1> DEFINE g == PartialSums(v)
<1> HIDE DEF g
<1>3. ASSUME NEW k \in 0..Len(v) PROVE g[k] = IF k = 0 THEN 0 ELSE g[k - 1] + v[k]
  BY <1>2 DEF IsSums, g
<1>4. g = [k \in 0..Len(v) |-> g[k]]
  BY <1>2 DEF IsSums, g
<1> DEFINE T == {n \in Nat : n <= Len(v) => g[n] \in Nat}
<1>5. 0 \in T
  BY <1>3
<1>6. ASSUME NEW n \in Nat, n \in T PROVE n + 1 \in T
  BY <1>3, <1>6
<1> HIDE DEF T
<1>7. \A n \in Nat : n \in T
  BY <1>5, <1>6, SetInduction
<1>8. \A k \in 0..Len(v) : g[k] \in Nat
  BY <1>7 DEF T
<1>9. g \in [0..Len(v) -> Nat]
  BY <1>4, <1>8
<1> QED BY <1>3, <1>9 DEF g

LEMMA TotalType ==
  ASSUME NEW v \in Seq(Nat)
  PROVE  Total(v) \in Nat
<1>1. Len(v) \in 0..Len(v)
  OBVIOUS
<1> QED BY <1>1, PartialSumsAre DEF Total

LEMMA TotalEmpty == Total(<<>>) = 0
<1>1. <<>> \in Seq(Nat) /\ Len(<<>>) = 0
  OBVIOUS
<1> QED BY <1>1, PartialSumsAre DEF Total

\* An element more at the end.
LEMMA TotalAppend ==
  ASSUME NEW v \in Seq(Nat), NEW x \in Nat
  PROVE  Total(Append(v, x)) = Total(v) + x
<1> DEFINE w == Append(v, x)
           f == PartialSums(v)
           g == PartialSums(w)
           T == {n \in Nat : n <= Len(v) => g[n] = f[n]}
<1>1. w \in Seq(Nat) /\ Len(w) = Len(v) + 1 /\ w[Len(v) + 1] = x /\ Len(v) \in Nat
  OBVIOUS
<1>2. \A i \in 1..Len(v) : w[i] = v[i] /\ v[i] \in Nat
  OBVIOUS
<1> HIDE DEF w
<1>3. /\ f \in [0..Len(v) -> Nat] /\ f[0] = 0
      /\ \A k \in 1..Len(v) : f[k] = f[k - 1] + v[k]
  BY PartialSumsAre
<1>4. /\ g \in [0..Len(w) -> Nat] /\ g[0] = 0
      /\ \A k \in 1..Len(w) : g[k] = g[k - 1] + w[k]
  BY <1>1, PartialSumsAre
<1> HIDE DEF f, g
<1>5. 0 \in T
  BY <1>3, <1>4
<1>6. ASSUME NEW n \in Nat, n \in T PROVE n + 1 \in T
  <2> SUFFICES ASSUME n + 1 <= Len(v) PROVE g[n + 1] = f[n + 1]
    OBVIOUS
  <2>1. n + 1 \in 1..Len(v) /\ n + 1 \in 1..Len(w) /\ (n + 1) - 1 = n
    BY <1>1
  <2>2. g[n] = f[n]
    BY <1>6, <1>1
  <2> QED BY <1>2, <1>3, <1>4, <2>1, <2>2
<1> HIDE DEF T
<1>7. \A n \in Nat : n \in T
  BY <1>5, <1>6, SetInduction
<1>8. g[Len(v)] = f[Len(v)]
  BY <1>1, <1>7 DEF T
<1>9. g[Len(v) + 1] = f[Len(v)] + x
  <2>1. Len(v) + 1 \in 1..Len(w) /\ (Len(v) + 1) - 1 = Len(v)
    BY <1>1
  <2> QED BY <1>1, <1>4, <1>8, <2>1
<1> QED BY <1>1, <1>9 DEF Total, f, g, w

\* An element less at the head.
LEMMA TotalTail ==
  ASSUME NEW v \in Seq(Nat), v # <<>>
  PROVE  Total(v) = v[1] + Total(Tail(v))
<1> DEFINE w == Tail(v)
           f == PartialSums(v)
           g == PartialSums(w)
           T == {n \in Nat : n <= Len(w) => f[n + 1] = v[1] + g[n]}
<1>1. w \in Seq(Nat) /\ Len(w) = Len(v) - 1 /\ Len(v) \in Nat /\ Len(w) \in Nat
  OBVIOUS
<1>2. v[1] \in Nat /\ \A i \in 1..Len(w) : w[i] = v[i + 1] /\ v[i + 1] \in Nat
  OBVIOUS
<1> HIDE DEF w
<1>3. /\ f \in [0..Len(v) -> Nat] /\ f[0] = 0
      /\ \A k \in 1..Len(v) : f[k] = f[k - 1] + v[k]
  BY PartialSumsAre
<1>4. /\ g \in [0..Len(w) -> Nat] /\ g[0] = 0
      /\ \A k \in 1..Len(w) : g[k] = g[k - 1] + w[k]
  BY <1>1, PartialSumsAre
<1> HIDE DEF f, g
<1>5. 0 \in T
  <2>1. 1 \in 1..Len(v) /\ 1 - 1 = 0
    BY <1>1
  <2> QED BY <1>2, <1>3, <1>4, <2>1
<1>6. ASSUME NEW n \in Nat, n \in T PROVE n + 1 \in T
  <2> SUFFICES ASSUME n + 1 <= Len(w) PROVE f[(n + 1) + 1] = v[1] + g[n + 1]
    OBVIOUS
  <2>1. /\ n + 1 \in 1..Len(w) /\ (n + 1) - 1 = n /\ n \in 0..Len(w)
        /\ (n + 1) + 1 \in 1..Len(v) /\ ((n + 1) + 1) - 1 = n + 1
    BY <1>1
  <2>2. f[n + 1] = v[1] + g[n]
    BY <1>6, <1>1
  <2>3. f[(n + 1) + 1] = f[n + 1] + v[(n + 1) + 1]
    BY <1>3, <2>1
  <2>4. g[n + 1] = g[n] + w[n + 1] /\ g[n] \in Nat
    BY <1>4, <2>1
  <2>5. w[n + 1] = v[(n + 1) + 1] /\ w[n + 1] \in Nat
    BY <1>2, <2>1
  <2> QED BY <1>2, <2>2, <2>3, <2>4, <2>5
<1> HIDE DEF T
<1>7. \A n \in Nat : n \in T
  BY <1>5, <1>6, SetInduction
<1>8. f[Len(w) + 1] = v[1] + g[Len(w)]
  BY <1>1, <1>7 DEF T
<1> QED BY <1>1, <1>8 DEF Total, f, g, w
=============================================================================
