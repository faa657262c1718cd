----------------------------- MODULE DataLemmas -----------------------------
(***************************************************************************)
(* What the models' data do, for the proofs: which elements a queue has    *)
(* after Append and Tail, what lies where in a sequence put together from  *)
(* pieces, and induction over the naturals, which makes a function defined *)
(* by its own smaller values exist.                                        *)
(***************************************************************************)
EXTENDS Integers, Sequences, SequencesExt, FiniteSets, FiniteSetTheorems,
        WellFoundedInduction, TLAPS

\* An appended element joins the others, behind them.
LEMMA AppendAdds ==
    ASSUME NEW S, NEW s \in Seq(S), NEW e \in S
    PROVE  /\ Append(s, e) \in Seq(S) /\ Append(s, e) # <<>>
           /\ ToSet(Append(s, e)) = ToSet(s) \cup {e}
<1> DEFINE t == Append(s, e)
<1>1. /\ t \in Seq(S) /\ Len(t) = Len(s) + 1 /\ Len(s) \in Nat
      /\ DOMAIN t = 1..(Len(s) + 1) /\ DOMAIN s = 1..Len(s)
      /\ t[Len(s) + 1] = e /\ \A i \in 1..Len(s) : t[i] = s[i]
  OBVIOUS
<1> HIDE DEF t
<1>2. t # <<>>
  BY <1>1
<1>3. ToSet(t) = ToSet(s) \cup {e}
  BY <1>1 DEF ToSet
<1> QED
  BY <1>1, <1>2, <1>3 DEF t

\* A new element keeps a sequence without repetitions so.
LEMMA AppendFresh ==
    ASSUME NEW S, NEW s \in Seq(S), NEW e \in S, e \notin ToSet(s), IsInjective(s)
    PROVE  IsInjective(Append(s, e))
<1>1. /\ Len(s) \in Nat
      /\ DOMAIN Append(s, e) = 1..(Len(s) + 1) /\ DOMAIN s = 1..Len(s)
      /\ Append(s, e)[Len(s) + 1] = e
      /\ \A i \in 1..Len(s) : Append(s, e)[i] = s[i] /\ s[i] # e
  BY DEF ToSet
<1> SUFFICES ASSUME NEW t, t = Append(s, e) PROVE IsInjective(t)
  OBVIOUS
<1>2. /\ DOMAIN t = 1..(Len(s) + 1) /\ t[Len(s) + 1] = e
      /\ \A i \in 1..Len(s) : t[i] = s[i] /\ t[i] # e
  BY <1>1
<1>3. ASSUME NEW i \in 1..(Len(s) + 1), NEW j \in 1..(Len(s) + 1), t[i] = t[j]
      PROVE  i = j
  <2>1. CASE i \in 1..Len(s) /\ j \in 1..Len(s)
    BY <1>1, <1>2, <1>3, <2>1 DEF IsInjective
  <2>2. CASE i = Len(s) + 1 \/ j = Len(s) + 1
    BY <1>1, <1>2, <1>3, <2>2
  <2> QED
    BY <1>1, <2>1, <2>2
<1> QED
  BY <1>2, <1>3 DEF IsInjective

\* The tail has what is left behind the head.
LEMMA TailLeaves ==
    ASSUME NEW S, NEW s \in Seq(S), s # <<>>
    PROVE  /\ Head(s) \in S /\ Tail(s) \in Seq(S) /\ Head(s) \in ToSet(s)
           /\ ToSet(s) = ToSet(Tail(s)) \cup {Head(s)}
<1> DEFINE t == Tail(s)
<1>1. /\ t \in Seq(S) /\ Len(s) \in Nat \ {0} /\ Len(t) = Len(s) - 1
      /\ DOMAIN t = 1..(Len(s) - 1) /\ DOMAIN s = 1..Len(s)
      /\ Head(s) = s[1] /\ \A i \in 1..(Len(s) - 1) : t[i] = s[i + 1]
  OBVIOUS
<1>2. \A i \in 2..Len(s) : i - 1 \in 1..(Len(s) - 1) /\ s[i] = t[i - 1]
  BY <1>1
<1> HIDE DEF t
<1>3. Head(s) \in S /\ Head(s) \in ToSet(s)
  BY <1>1 DEF ToSet
<1>4. ToSet(s) \subseteq ToSet(t) \cup {Head(s)}
  <2> SUFFICES ASSUME NEW i \in 1..Len(s) PROVE s[i] \in ToSet(t) \cup {Head(s)}
    BY <1>1 DEF ToSet
  <2>1. CASE i = 1
    BY <1>1, <2>1
  <2>2. CASE i \in 2..Len(s)
    BY <1>1, <1>2, <2>2 DEF ToSet
  <2> QED
    BY <1>1, <2>1, <2>2
<1>5. ToSet(t) \subseteq ToSet(s)
  <2> SUFFICES ASSUME NEW i \in 1..(Len(s) - 1) PROVE t[i] \in ToSet(s)
    BY <1>1 DEF ToSet
  <2>1. i + 1 \in 1..Len(s) /\ t[i] = s[i + 1]
    BY <1>1
  <2> QED
    BY <1>1, <2>1 DEF ToSet
<1> QED
  BY <1>1, <1>3, <1>4, <1>5 DEF t

\* Without repetitions the head is not among what is left.
LEMMA TailFresh ==
    ASSUME NEW S, NEW s \in Seq(S), s # <<>>, IsInjective(s)
    PROVE  IsInjective(Tail(s)) /\ Head(s) \notin ToSet(Tail(s))
<1> DEFINE t == Tail(s)
<1>1. /\ Len(s) \in Nat \ {0} /\ DOMAIN t = 1..(Len(s) - 1) /\ DOMAIN s = 1..Len(s)
      /\ Head(s) = s[1] /\ \A i \in 1..(Len(s) - 1) : t[i] = s[i + 1]
  OBVIOUS
<1> HIDE DEF t
<1>2. \A i \in 1..(Len(s) - 1) : i + 1 \in 1..Len(s) /\ i + 1 # 1
  BY <1>1
<1>3. Head(s) \notin ToSet(t)
  <2> SUFFICES ASSUME NEW i \in 1..(Len(s) - 1), t[i] = Head(s) PROVE FALSE
    BY <1>1 DEF ToSet
  <2>1. s[i + 1] = s[1] /\ i + 1 \in DOMAIN s /\ 1 \in DOMAIN s /\ i + 1 # 1
    BY <1>1, <1>2
  <2> QED
    BY <2>1 DEF IsInjective
<1>4. IsInjective(t)
  <2> SUFFICES ASSUME NEW i \in 1..(Len(s) - 1), NEW j \in 1..(Len(s) - 1), t[i] = t[j]
               PROVE  i = j
    BY <1>1 DEF IsInjective
  <2>1. s[i + 1] = s[j + 1] /\ i + 1 \in DOMAIN s /\ j + 1 \in DOMAIN s
    BY <1>1, <1>2
  <2>2. i + 1 = j + 1
    BY <2>1 DEF IsInjective
  <2> QED
    BY <2>2
<1> QED
  BY <1>3, <1>4 DEF t

-----------------------------------------------------------------------------
(* Order: behind every element of A comes one of B.                        *)
Followed(s, A, B) ==
    \A i \in DOMAIN s : s[i] \in A => \E j \in DOMAIN s : j > i /\ s[j] \in B

\* An element of B at the end follows everything.
LEMMA AppendFollows ==
    ASSUME NEW S, NEW s \in Seq(S), NEW e \in S, NEW A, NEW B, e \notin A,
           e \in B \/ Followed(s, A, B)
    PROVE  Followed(Append(s, e), A, B)
<1> DEFINE t == Append(s, e)
<1>1. /\ Len(s) \in Nat /\ DOMAIN t = 1..(Len(s) + 1) /\ DOMAIN s = 1..Len(s)
      /\ t[Len(s) + 1] = e /\ \A i \in 1..Len(s) : t[i] = s[i]
  OBVIOUS
<1> HIDE DEF t
<1>2. ASSUME NEW i \in DOMAIN t, t[i] \in A
      PROVE  \E j \in DOMAIN t : j > i /\ t[j] \in B
  <2>1. i \in 1..Len(s) /\ s[i] \in A
    BY <1>1, <1>2
  <2>2. CASE e \in B
    BY <1>1, <2>1, <2>2
  <2>3. CASE Followed(s, A, B)
    <3>1. PICK j \in 1..Len(s) : j > i /\ s[j] \in B
      BY <1>1, <2>1, <2>3 DEF Followed
    <3> QED
      BY <1>1, <3>1
  <2> QED
    BY <2>2, <2>3
<1>3. Followed(t, A, B)
  BY <1>2 DEF Followed
<1> QED
  BY <1>3 DEF t

\* What followed the head is in the tail.
LEMMA TailFollows ==
    ASSUME NEW S, NEW s \in Seq(S), s # <<>>, NEW A, NEW B, Followed(s, A, B)
    PROVE  /\ Followed(Tail(s), A, B)
           /\ Head(s) \in A => \E e \in ToSet(Tail(s)) : e \in B
<1> DEFINE t == Tail(s)
<1>1. /\ Len(s) \in Nat \ {0} /\ DOMAIN t = 1..(Len(s) - 1) /\ DOMAIN s = 1..Len(s)
      /\ Head(s) = s[1] /\ \A i \in 1..(Len(s) - 1) : t[i] = s[i + 1]
  OBVIOUS
<1> HIDE DEF t
<1>2. \A j \in 2..Len(s) : j - 1 \in DOMAIN t /\ t[j - 1] = s[j]
  BY <1>1
<1>3. ASSUME NEW i \in DOMAIN t, t[i] \in A
      PROVE  \E j \in DOMAIN t : j > i /\ t[j] \in B
  <2>1. i + 1 \in DOMAIN s /\ s[i + 1] \in A
    BY <1>1, <1>3
  <2>2. PICK j \in 1..Len(s) : j > i + 1 /\ s[j] \in B
    BY <1>1, <2>1 DEF Followed
  <2>3. j \in 2..Len(s) /\ j - 1 > i
    BY <1>1, <2>2
  <2> QED
    BY <1>2, <2>2, <2>3
<1>4. ASSUME Head(s) \in A PROVE \E e \in ToSet(t) : e \in B
  <2>1. PICK j \in 1..Len(s) : j > 1 /\ s[j] \in B
    BY <1>1, <1>4 DEF Followed
  <2>2. j \in 2..Len(s)
    BY <1>1, <2>1
  <2> QED
    BY <1>2, <2>1, <2>2 DEF ToSet
<1>5. Followed(t, A, B)
  BY <1>3 DEF Followed
<1> QED
  BY <1>4, <1>5 DEF t

-----------------------------------------------------------------------------
(***************************************************************************)
(* Induction over the naturals, in the form in which sets take the place   *)
(* of predicates.                                                          *)
(***************************************************************************)
LEMMA LeastNatural ==
    ASSUME NEW S, S \subseteq Nat, S # {}
    PROVE  \E m \in S : \A n \in S : m <= n
<1> DEFINE R == OpToRel(<, Nat)
<1>1. IsWellFoundedOn(R, Nat)
  BY NatLessThanWellFounded, Zenon
<1>2. \A n, m \in Nat : n < m => <<n, m>> \in R
  BY Zenon DEF OpToRel
<1> HIDE DEF R
<1>3. PICK m \in S : \A n \in S : ~ (<<n, m>> \in R)
  BY <1>1, WFMin
<1>4. \A n \in S : ~ (n < m)
  BY <1>2, <1>3
<1> QED
  BY <1>4

LEMMA InductionOnSet ==
    ASSUME NEW S, 0 \in S, \A n \in Nat : n \in S => n + 1 \in S
    PROVE  Nat \subseteq S
<1> SUFFICES ASSUME Nat \ S # {} PROVE FALSE
  OBVIOUS
<1>1. PICK m \in Nat \ S : \A n \in Nat \ S : m <= n
  <2>1. Nat \ S \subseteq Nat
    OBVIOUS
  <2> QED
    BY <2>1, LeastNatural
<1>2. m # 0 /\ m - 1 \in Nat
  BY <1>1
<1>3. m - 1 \in S
  BY <1>1, <1>2
<1> QED
  BY <1>1, <1>2, <1>3

\* The same with all that is smaller as the hypothesis, along a rank.
LEMMA InductionOnRank ==
    ASSUME NEW D, NEW rank \in [D -> Nat], NEW S,
           \A d \in D : (\A e \in D : rank[e] < rank[d] => e \in S) => d \in S
    PROVE  D \subseteq S
<1> SUFFICES ASSUME D \ S # {} PROVE FALSE
  OBVIOUS
<1> DEFINE R == {rank[d] : d \in D \ S}
<1>1. R \subseteq Nat /\ R # {}
  OBVIOUS
<1>2. PICK m \in R : \A n \in R : m <= n
  BY <1>1, LeastNatural
<1>3. PICK d \in D \ S : rank[d] = m
  BY <1>2
<1>4. \A e \in D : rank[e] < rank[d] => e \in S
  <2> SUFFICES ASSUME NEW e \in D, rank[e] < rank[d], e \notin S PROVE FALSE
    OBVIOUS
  <2>1. rank[e] \in R /\ rank[e] \in Nat /\ m \in Nat
    BY <1>1, <1>2
  <2>2. m <= rank[e]
    BY <1>2, <2>1
  <2> QED
    BY <1>3, <2>1, <2>2
<1> QED
  BY <1>3, <1>4

LEMMA LessOrSame ==
    ASSUME NEW a \in Nat, NEW n \in Nat, a < n + 1, a # n
    PROVE  a < n
OBVIOUS

(* A function whose value at each argument depends on its values at those  *)
(* of a smaller rank alone exists.                                         *)
Recursion(D, V, rank, step) ==
    /\ V # {}
    /\ rank \in [D -> Nat]
    /\ step \in [D -> [[D -> V] -> V]]
    /\ \A d \in D : \A g, h \in [D -> V] :
          (\A e \in D : rank[e] < rank[d] => g[e] = h[e]) => step[d][g] = step[d][h]

LEMMA RecursionOnRank ==
    ASSUME NEW D, NEW V, NEW rank, NEW step, Recursion(D, V, rank, step)
    PROVE  \E f \in [D -> V] : \A d \in D : f[d] = step[d][f]
<1> USE DEF Recursion
<1> DEFINE Good(n) == {g \in [D -> V] : \A d \in D : rank[d] < n => g[d] = step[d][g]}
           N == {n \in Nat : Good(n) # {}}
<1>1. 0 \in N
  <2>1. PICK v : v \in V
    OBVIOUS
  <2>2. [d \in D |-> v] \in Good(0)
    BY <2>1
  <2> QED
    BY <2>2
<1>2. ASSUME NEW n \in Nat, n \in N
      PROVE  n + 1 \in N
  <2>1. PICK g \in [D -> V] : \A d \in D : rank[d] < n => g[d] = step[d][g]
    BY <1>2
  <2>2. PICK h : h = [d \in D |-> IF rank[d] = n THEN step[d][g] ELSE g[d]]
    OBVIOUS
  <2>3. h \in [D -> V]
    BY <2>1, <2>2
  <2>4. \A d \in D : rank[d] < n + 1 => step[d][h] = step[d][g]
    <3> SUFFICES ASSUME NEW d \in D, rank[d] < n + 1 PROVE step[d][h] = step[d][g]
      OBVIOUS
    <3>1. \A e \in D : rank[e] < rank[d] => rank[e] # n
      OBVIOUS
    <3>2. \A e \in D : rank[e] < rank[d] => h[e] = g[e]
      BY <2>2, <3>1
    <3> QED
      BY <2>1, <2>3, <3>2
  <2>5. \A d \in D : rank[d] < n + 1 => h[d] = step[d][h]
    <3> SUFFICES ASSUME NEW d \in D, rank[d] < n + 1 PROVE h[d] = step[d][h]
      OBVIOUS
    <3>1. CASE rank[d] = n
      BY <2>2, <2>4, <3>1
    <3>2. CASE rank[d] # n
      <4>1. rank[d] < n
        <5>1. rank[d] \in Nat /\ rank[d] < n + 1
          OBVIOUS
        <5> QED
          BY <3>2, <5>1, LessOrSame
      <4>2. h[d] = g[d] /\ g[d] = step[d][g]
        BY <2>1, <2>2, <3>2, <4>1
      <4> QED
        BY <2>4, <4>2
    <3> QED
      BY <3>1, <3>2
  <2>6. h \in Good(n + 1)
    BY <2>3, <2>5
  <2> QED
    BY <2>6
<1>3. \A n \in Nat : Good(n) # {}
  <2> HIDE DEF Good
  <2>1. \A n \in Nat : n \in N => n + 1 \in N
    BY <1>2
  <2>2. Nat \subseteq N
    <3> HIDE DEF N
    <3> QED
      BY <1>1, <2>1, InductionOnSet
  <2> QED
    BY <2>2
<1>4. ASSUME NEW m \in Nat, NEW n \in Nat, NEW g \in Good(m), NEW h \in Good(n)
      PROVE  \A d \in D : rank[d] < m /\ rank[d] < n => g[d] = h[d]
  <2> DEFINE S == {d \in D : rank[d] < m /\ rank[d] < n => g[d] = h[d]}
  <2>1. /\ g \in [D -> V] /\ \A d \in D : rank[d] < m => g[d] = step[d][g]
        /\ h \in [D -> V] /\ \A d \in D : rank[d] < n => h[d] = step[d][h]
    OBVIOUS
  <2>2. ASSUME NEW d \in D, \A e \in D : rank[e] < rank[d] => e \in S
        PROVE  d \in S
    <3> SUFFICES ASSUME rank[d] < m, rank[d] < n PROVE g[d] = h[d]
      OBVIOUS
    <3>1. \A e \in D : rank[e] < rank[d] => g[e] = h[e]
      <4> SUFFICES ASSUME NEW e \in D, rank[e] < rank[d] PROVE g[e] = h[e]
        OBVIOUS
      <4>1. rank[e] < m /\ rank[e] < n
        OBVIOUS
      <4> QED
        BY <2>2, <4>1
    <3>2. step[d][g] = step[d][h]
      BY <2>1, <3>1
    <3> QED
      BY <2>1, <3>2
  <2>3. D \subseteq S
    <3>1. \A d \in D : (\A e \in D : rank[e] < rank[d] => e \in S) => d \in S
      BY <2>2
    <3> HIDE DEF S
    <3> QED
      BY <3>1, InductionOnRank
  <2> QED
    BY <2>3
<1> DEFINE upto == [n \in Nat |-> CHOOSE g : g \in Good(n)]
           f == [d \in D |-> upto[rank[d] + 1][d]]
<1>5. \A n \in Nat : upto[n] \in Good(n)
  <2> HIDE DEF Good
  <2> QED
    BY <1>3
<1>6. \A n \in Nat : upto[n] \in [D -> V] /\ \A d \in D : rank[d] < n => upto[n][d] = step[d][upto[n]]
  BY <1>5
<1> HIDE DEF upto
<1>7. f \in [D -> V]
  BY <1>6
<1>8. ASSUME NEW d \in D
      PROVE  f[d] = step[d][f]
  <2>1. PICK g : g = upto[rank[d] + 1]
    OBVIOUS
  <2>2. g \in [D -> V] /\ g[d] = step[d][g] /\ f[d] = g[d]
    BY <1>6, <2>1
  <2>3. ASSUME NEW e \in D, rank[e] < rank[d]
        PROVE  f[e] = g[e]
    <3>1. rank[e] + 1 \in Nat /\ rank[d] + 1 \in Nat /\ rank[e] < rank[e] + 1 /\ rank[e] < rank[d] + 1
      BY <2>3
    <3>2. upto[rank[e] + 1] \in Good(rank[e] + 1) /\ g \in Good(rank[d] + 1)
      BY <1>5, <2>1, <3>1
    <3> HIDE DEF Good
    <3>3. upto[rank[e] + 1][e] = g[e]
      BY <1>4, <3>1, <3>2
    <3> QED
      BY <3>3
  <2> HIDE DEF f
  <2>4. step[d][f] = step[d][g]
    BY <1>7, <2>2, <2>3
  <2> QED
    BY <2>2, <2>4
<1> HIDE DEF f
<1> QED
  BY <1>7, <1>8

-----------------------------------------------------------------------------
(* Sequences of numbers put together.                                      *)

LEMMA Joined ==
    ASSUME NEW s \in Seq(Nat), NEW t \in Seq(Nat)
    PROVE  /\ s \o t \in Seq(Nat) /\ Len(s \o t) = Len(s) + Len(t)
           /\ Len(s) \in Nat /\ Len(t) \in Nat
           /\ \A k \in 1..Len(s) : (s \o t)[k] = s[k]
           /\ \A k \in 1..Len(t) : (s \o t)[Len(s) + k] = t[k]
<1>1. s \o t \in Seq(Nat) /\ Len(s \o t) = Len(s) + Len(t) /\ Len(s) \in Nat /\ Len(t) \in Nat
  OBVIOUS
<1>2. \A k \in 1..Len(s) : (s \o t)[k] = s[k]
  OBVIOUS
<1>3. \A k \in 1..Len(t) : (s \o t)[Len(s) + k] = t[k]
  OBVIOUS
<1> QED
  BY <1>1, <1>2, <1>3

(* What was appended piece by piece has each piece where the pieces before *)
(* it end.                                                                 *)
LEMMA Pieces ==
    ASSUME NEW n \in Nat, NEW F \in [0..n -> Seq(Nat)], NEW seqs \in [1..n -> Seq(Nat)],
           \A i \in 1..n : F[i] = F[i - 1] \o seqs[i], NEW i \in 1..n
    PROVE  /\ Len(F[i]) = Len(F[i - 1]) + Len(seqs[i])
           /\ Len(F[i]) <= Len(F[n])
           /\ \A k \in 1..Len(seqs[i]) : F[n][Len(F[i - 1]) + k] = seqs[i][k]
<1>1. PICK a, b, c : a = F[i - 1] /\ b = seqs[i] /\ c = F[i]
  OBVIOUS
<1>2. a \in Seq(Nat) /\ b \in Seq(Nat) /\ c = a \o b /\ i \in 0..n /\ i - 1 \in 0..n
  <2>1. i \in 0..n /\ i - 1 \in 0..n
    OBVIOUS
  <2>2. a \in Seq(Nat) /\ b \in Seq(Nat)
    BY <1>1, <2>1
  <2>3. c = a \o b
    BY <1>1
  <2> QED
    BY <2>1, <2>2, <2>3
<1>3. /\ c \in Seq(Nat) /\ Len(a) \in Nat /\ Len(b) \in Nat /\ Len(c) = Len(a) + Len(b)
      /\ \A k \in 1..Len(b) : c[Len(a) + k] = b[k]
  BY <1>2, Joined
<1> DEFINE Holds(d) == Len(c) <= Len(F[i + d]) /\ \A k \in 1..Len(c) : F[i + d][k] = c[k]
           S == {d \in Nat : i + d <= n => Holds(d)}
<1>4. 0 \in S
  BY <1>1, <1>3
<1>5. ASSUME NEW d \in Nat, d \in S
      PROVE  d + 1 \in S
  <2> SUFFICES ASSUME i + (d + 1) <= n PROVE Holds(d + 1)
    OBVIOUS
  <2>1. i + d <= n /\ i + d \in 0..n /\ i + (d + 1) \in 1..n /\ (i + (d + 1)) - 1 = i + d
    OBVIOUS
  <2>2. Holds(d)
    BY <1>5, <2>1
  <2>3. PICK s, t, u : s = F[i + d] /\ t = F[i + (d + 1)] /\ u = seqs[i + (d + 1)]
    OBVIOUS
  <2>4. s \in Seq(Nat) /\ u \in Seq(Nat) /\ t = s \o u
    <3>1. F[i + (d + 1)] = F[(i + (d + 1)) - 1] \o seqs[i + (d + 1)]
      BY <2>1
    <3> QED
      BY <2>1, <2>3, <3>1
  <2>5. Len(t) >= Len(s) /\ Len(s) \in Nat /\ Len(t) \in Nat /\ \A k \in 1..Len(s) : t[k] = s[k]
    <3>1. /\ Len(t) = Len(s) + Len(u) /\ Len(s) \in Nat /\ Len(u) \in Nat
          /\ \A k \in 1..Len(s) : t[k] = s[k]
      BY <2>4, Joined
    <3>2. Len(t) >= Len(s) /\ Len(t) \in Nat
      BY <3>1
    <3> QED
      BY <3>1, <3>2
  <2>6. Len(c) <= Len(s) /\ \A k \in 1..Len(c) : s[k] = c[k]
    BY <2>2, <2>3
  <2>7. Len(c) <= Len(t) /\ \A k \in 1..Len(c) : t[k] = c[k]
    <3>1. Len(c) \in Nat
      BY <1>3
    <3>2. Len(c) <= Len(t)
      BY <2>5, <2>6, <3>1
    <3>3. ASSUME NEW k \in 1..Len(c)
          PROVE  t[k] = c[k]
      <4>1. k \in 1..Len(s)
        BY <2>5, <2>6, <3>1
      <4> QED
        BY <2>5, <2>6, <4>1
    <3> QED
      BY <3>2, <3>3
  <2> QED
    BY <2>3, <2>7
<1>6. Nat \subseteq S
  <2>1. \A d \in Nat : d \in S => d + 1 \in S
    <3> HIDE DEF S
    <3> QED
      BY <1>5
  <2> HIDE DEF S
  <2> QED
    BY <1>4, <2>1, InductionOnSet
<1>7. Holds(n - i)
  <2>1. n - i \in Nat /\ i + (n - i) <= n
    OBVIOUS
  <2> HIDE DEF Holds
  <2> QED
    BY <1>6, <2>1
<1>8. Len(c) <= Len(F[n]) /\ \A k \in 1..Len(c) : F[n][k] = c[k]
  <2>1. i + (n - i) = n
    OBVIOUS
  <2> QED
    BY <1>7, <2>1, Zenon
<1>9. \A k \in 1..Len(b) : F[n][Len(a) + k] = b[k]
  <2> SUFFICES ASSUME NEW k \in 1..Len(b) PROVE F[n][Len(a) + k] = b[k]
    OBVIOUS
  <2>1. Len(a) + k \in 1..Len(c)
    BY <1>3
  <2> QED
    BY <1>3, <1>8, <2>1
<1> QED
  BY <1>1, <1>3, <1>8, <1>9

\* Sequences as long as each other with the same elements are one.
LEMMA SameElements ==
    ASSUME NEW s \in Seq(Nat), NEW t \in Seq(Nat), Len(s) = Len(t), \A k \in 1..Len(s) : s[k] = t[k]
    PROVE  s = t
OBVIOUS
=============================================================================
