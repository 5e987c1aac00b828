---------------------------- MODULE ScheduleProofs -----------------------------
(***************************************************************************)
(* Proofs about Schedule, for blocks of any length of any well-formed      *)
(* transactions, any state before them and any interleaving of the         *)
(* workers.                                                                *)
(*                                                                         *)
(* The first half is about the plan: the edges of a block form a forest    *)
(* (IsForest), so Roots and Rows partition the block into trees with one   *)
(* row per distance from the root (Planned). With what the workers have    *)
(* taken and returned this is inductive (IInv): no transaction is taken    *)
(* twice and none is left out, and, because the results are merged in      *)
(* block order, the last writer wins.                                      *)
(*                                                                         *)
(* The second half is about the results: what a tree has accumulated is    *)
(* what its rows wrote, the last row last (AccOK), and every result is     *)
(* that of executing on such a view (ViewOK). If the block is covered,     *)
(* that view agrees with the state of the execution in order on everything *)
(* the transaction looks at, and a result depends on nothing else          *)
(* (ExecuteLocal), so by induction over the block the results are those of *)
(* the execution in order.                                                 *)
(***************************************************************************)
EXTENDS Schedule, FiniteSetTheorems, SequenceTheorems, WellFoundedInduction, TLAPS

(* Recursion and induction over positions.                                 *)

\* Every set of naturals that has an element has a least one.
LEMMA LeastNatural ==
  ASSUME NEW T, T \subseteq Nat, T # {}
  PROVE  \E x \in T : \A y \in T : x <= y
<1> DEFINE R == {ss \in Nat \X Nat : ss[1] < ss[2]}
<1>1. IsWellFoundedOn(R, Nat)
  BY NatLessThanWellFounded DEF OpToRel
<1>2. \A x, y \in Nat : y < x => <<y, x>> \in R
  OBVIOUS
<1> HIDE DEF R
<1>3. PICK x \in T : \A y \in T : <<y, x>> \notin R
  BY <1>1, WFMin
<1>4. ASSUME NEW y \in T PROVE x <= y
  <2>1. x \in Nat /\ y \in Nat
    OBVIOUS
  <2>2. ~(y < x)
    BY <1>2, <1>3, <2>1
  <2> QED  BY <2>1, <2>2
<1> QED  BY <1>4

\* A set that has each natural below which it has all has all of them.
LEMMA StrongInduction ==
  ASSUME NEW S, \A n \in Nat : (\A m \in 0..(n - 1) : m \in S) => n \in S
  PROVE  \A n \in Nat : n \in S
<1> DEFINE T == Nat \ S
<1> SUFFICES ASSUME T # {} PROVE FALSE
  OBVIOUS
<1>1. T \subseteq Nat
  OBVIOUS
<1>2. PICK x \in T : \A y \in T : x <= y
  <2> HIDE DEF T
  <2> QED  BY <1>1, LeastNatural
<1>3. x \in Nat /\ x \notin S
  BY <1>2
<1>4. \A m \in 0..(x - 1) : m \in S
  BY <1>2, <1>3
<1> QED  BY <1>3, <1>4

\* The same for the numbers from 1 to N.
LEMMA NodeInduction ==
  ASSUME NEW N \in Nat, NEW S, \A n \in 1..N : (\A m \in 1..(n - 1) : m \in S) => n \in S
  PROVE  \A n \in 1..N : n \in S
<1> DEFINE Q == {n \in Nat : n \in 1..N => n \in S}
<1>1. ASSUME NEW n \in Nat, \A m \in 0..(n - 1) : m \in Q PROVE n \in Q
  <2> SUFFICES ASSUME n \in 1..N PROVE n \in S
    OBVIOUS
  <2>1. \A m \in 1..(n - 1) : m \in 0..(n - 1) /\ m \in 1..N
    OBVIOUS
  <2>2. \A m \in 1..(n - 1) : m \in S
    BY <1>1, <2>1
  <2> QED  BY <2>2
<1>2. \A n \in Nat : n \in Q
  <2> HIDE DEF Q
  <2> QED  BY <1>1, StrongInduction
<1> QED  BY <1>2

\* D gives the value of a function from I to V at n from its values before n.  (D
\* is itself a function, not an operator, so that the lemma can be cited.)
Progressive(D, I, V) ==
  /\ D \in [[I -> V] \X I -> V]
  /\ \A f, g \in [I -> V], n \in I :
       (\A i \in I : i < n => f[i] = g[i]) => D[<<f, n>>] = D[<<g, n>>]

\* A function that has these values.
Solution(D, I, V, f) == f \in [I -> V] /\ \A n \in I : f[n] = D[<<f, n>>]

LEMMA RecursiveFunction ==
  ASSUME NEW N \in Nat, NEW I, I \subseteq 0..N, NEW V, V # {},
         NEW D, Progressive(D, I, V)
  PROVE  \E f : Solution(D, I, V, f)
<1> DEFINE P(k) == \E f \in [I -> V] : \A n \in I : n < k => f[n] = D[<<f, n>>]
           S == {k \in Nat : P(k)}
<1>0. \A n \in I : n \in Nat
  OBVIOUS
<1>1. ASSUME NEW k \in Nat, \A m \in 0..(k - 1) : m \in S PROVE k \in S
  <2>1. CASE k = 0
    <3>1. PICK v \in V : TRUE
      OBVIOUS
    <3>2. PICK f \in [I -> V] : TRUE
      <4>1. [i \in I |-> v] \in [I -> V]
        OBVIOUS
      <4> QED  BY <4>1
    <3>3. \A n \in I : ~(n < k)
      BY <1>0, <2>1
    <3> QED  BY <3>2, <3>3
  <2>2. CASE k # 0
    <3>1. k - 1 \in Nat /\ k - 1 \in 0..(k - 1)
      BY <2>2
    <3>2. PICK f \in [I -> V] : \A n \in I : n < k - 1 => f[n] = D[<<f, n>>]
      BY <1>1, <3>1
    <3>3. CASE k - 1 \notin I
      <4>1. \A n \in I : n < k => n < k - 1
        BY <3>1, <3>3
      <4> QED  BY <3>2, <4>1
    <3>4. CASE k - 1 \in I
      <4>1. PICK g \in [I -> V] : /\ g[k - 1] = D[<<f, k - 1>>]
                                  /\ \A i \in I : i # k - 1 => g[i] = f[i]
        <5>1. [f EXCEPT ![k - 1] = D[<<f, k - 1>>]] \in [I -> V]
          <6>1. D[<<f, k - 1>>] \in V
            BY <3>4 DEF Progressive
          <6> QED  BY <6>1
        <5> QED  BY <3>4, <5>1
      <4>2. ASSUME NEW n \in I, n < k PROVE g[n] = D[<<g, n>>]
        <5>0. \A i \in I : i < n => i # k - 1
          BY <3>1, <4>2
        <5>1. \A i \in I : i < n => g[i] = f[i]
          BY <4>1, <5>0
        <5>2. D[<<g, n>>] = D[<<f, n>>]
          BY <5>1 DEF Progressive
        <5>3. CASE n = k - 1
          BY <4>1, <5>2, <5>3
        <5>4. CASE n # k - 1
          <6>1. n < k - 1
            BY <1>0, <3>1, <4>2, <5>4
          <6> QED  BY <3>2, <4>1, <5>2, <5>4, <6>1
        <5> QED  BY <5>3, <5>4
      <4> QED  BY <4>2
    <3> QED  BY <3>3, <3>4
  <2> QED  BY <2>1, <2>2
<1>2. \A k \in Nat : k \in S
  <2> HIDE DEF S
  <2> QED  BY <1>1, StrongInduction
<1>3. P(N + 1)
  <2>1. N + 1 \in S
    <3> HIDE DEF S
    <3> QED  BY <1>2
  <2> HIDE DEF P
  <2> QED  BY <2>1
<1>4. \A n \in I : n < N + 1
  OBVIOUS
<1> QED  BY <1>3, <1>4 DEF Solution

--------------------------------------------------------------------------------
(* Sequences as the sets of their elements.                                *)

\* Appending adds one element.
LEMMA AppendSet ==
  ASSUME NEW S, NEW s \in Seq(S), NEW x \in S
  PROVE  /\ Append(s, x) \in Seq(S)
         /\ ToSet(Append(s, x)) = ToSet(s) \cup {x}
         /\ IsInjective(s) /\ x \notin ToSet(s) => IsInjective(Append(s, x))
<1> DEFINE t == Append(s, x)
<1>1. /\ t \in Seq(S) /\ Len(s) \in Nat /\ DOMAIN s = 1..Len(s)
      /\ DOMAIN t = 1..(Len(s) + 1) /\ t[Len(s) + 1] = x
      /\ \A i \in 1..Len(s) : t[i] = s[i]
  BY AppendProperties
<1> HIDE DEF t
<1>2. \A i \in DOMAIN t : i \in DOMAIN s \/ i = Len(s) + 1
  BY <1>1
<1>3. \A i \in DOMAIN s : i \in DOMAIN t /\ i # Len(s) + 1
  BY <1>1
<1>4. Len(s) + 1 \in DOMAIN t
  BY <1>1
<1>5. ToSet(t) = ToSet(s) \cup {x}
  BY <1>1, <1>2, <1>3, <1>4 DEF ToSet
<1>6. ASSUME IsInjective(s), x \notin ToSet(s) PROVE IsInjective(t)
  <2>1. \A i \in DOMAIN s : t[i] = s[i] /\ t[i] # x
    BY <1>1, <1>6 DEF ToSet
  <2> QED  BY <1>1, <1>2, <1>6, <2>1 DEF IsInjective
<1> QED  BY <1>1, <1>5, <1>6 DEF t

\* Concatenation joins two sets.
LEMMA ConcatSet ==
  ASSUME NEW S, NEW s \in Seq(S), NEW u \in Seq(S)
  PROVE  /\ s \o u \in Seq(S)
         /\ ToSet(s \o u) = ToSet(s) \cup ToSet(u)
         /\ IsInjective(s) /\ IsInjective(u) /\ ToSet(s) \cap ToSet(u) = {}
              => IsInjective(s \o u)
<1> DEFINE t == s \o u
           k == Len(s)
           l == Len(u)
<1>1. /\ t \in Seq(S) /\ k \in Nat /\ l \in Nat /\ DOMAIN s = 1..k /\ DOMAIN u = 1..l
      /\ DOMAIN t = 1..(k + l)
      /\ \A i \in 1..(k + l) : t[i] = IF i <= k THEN s[i] ELSE u[i - k]
  BY ConcatProperties
<1> HIDE DEF t, k, l
<1>2. \A i \in DOMAIN t : \/ i \in DOMAIN s /\ t[i] = s[i]
                          \/ i - k \in DOMAIN u /\ t[i] = u[i - k] /\ i > k
  BY <1>1
<1>3. \A i \in DOMAIN s : i \in DOMAIN t /\ t[i] = s[i]
  BY <1>1
<1>4. \A i \in DOMAIN u : i + k \in DOMAIN t /\ t[i + k] = u[i]
  <2> SUFFICES ASSUME NEW i \in DOMAIN u PROVE i + k \in DOMAIN t /\ t[i + k] = u[i]
    OBVIOUS
  <2>1. i + k \in 1..(k + l) /\ ~(i + k <= k) /\ (i + k) - k = i
    BY <1>1
  <2> QED  BY <1>1, <2>1
<1>5. ToSet(t) = ToSet(s) \cup ToSet(u)
  <2>1. \A e \in ToSet(t) : e \in ToSet(s) \/ e \in ToSet(u)
    BY <1>2 DEF ToSet
  <2>2. \A e \in ToSet(s) : e \in ToSet(t)
    BY <1>3 DEF ToSet
  <2>3. \A e \in ToSet(u) : e \in ToSet(t)
    BY <1>4 DEF ToSet
  <2> QED  BY <2>1, <2>2, <2>3
<1>6. ASSUME IsInjective(s), IsInjective(u), ToSet(s) \cap ToSet(u) = {}
      PROVE  IsInjective(t)
  <2> SUFFICES ASSUME NEW a \in DOMAIN t, NEW b \in DOMAIN t, t[a] = t[b]
               PROVE  a = b
    BY DEF IsInjective
  <2>1. CASE a \in DOMAIN s /\ t[a] = s[a] /\ b \in DOMAIN s /\ t[b] = s[b]
    BY <1>6, <2>1 DEF IsInjective
  <2>2. CASE /\ a - k \in DOMAIN u /\ t[a] = u[a - k] /\ a > k
             /\ b - k \in DOMAIN u /\ t[b] = u[b - k] /\ b > k
    <3>1. a - k = b - k
      BY <1>6, <2>2 DEF IsInjective
    <3> QED  BY <1>1, <3>1
  <2>3. CASE a \in DOMAIN s /\ t[a] = s[a] /\ b - k \in DOMAIN u /\ t[b] = u[b - k]
    <3>1. s[a] \in ToSet(s) /\ u[b - k] \in ToSet(u)
      BY <2>3 DEF ToSet
    <3> QED  BY <1>6, <2>3, <3>1
  <2>4. CASE b \in DOMAIN s /\ t[b] = s[b] /\ a - k \in DOMAIN u /\ t[a] = u[a - k]
    <3>1. s[b] \in ToSet(s) /\ u[a - k] \in ToSet(u)
      BY <2>4 DEF ToSet
    <3> QED  BY <1>6, <2>4, <3>1
  <2> QED  BY <1>2, <2>1, <2>2, <2>3, <2>4
<1> QED  BY <1>1, <1>5, <1>6 DEF t

LEMMA SeqElements ==
  ASSUME NEW S, NEW s \in Seq(S)
  PROVE  Len(s) \in Nat /\ DOMAIN s = 1..Len(s) /\ \A i \in 1..Len(s) : s[i] \in S
BY ElementOfSeq

\* Short sequences.
LEMMA ShortSeqs ==
  ASSUME NEW S
  PROVE  /\ <<>> \in Seq(S) /\ ToSet(<<>>) = {} /\ IsInjective(<<>>)
         /\ \A s \in Seq(S) : ToSet(s) \subseteq S /\ (s = <<>> <=> ToSet(s) = {})
         /\ \A x \in S : <<x>> \in Seq(S) /\ ToSet(<<x>>) = {x} /\ IsInjective(<<x>>)
<1>1. <<>> \in Seq(S) /\ ToSet(<<>>) = {} /\ IsInjective(<<>>)
  BY DEF ToSet, IsInjective
<1>2. ASSUME NEW s \in Seq(S) PROVE ToSet(s) \subseteq S /\ (s = <<>> <=> ToSet(s) = {})
  <2>1. DOMAIN s = 1..Len(s) /\ Len(s) \in Nat /\ \A i \in 1..Len(s) : s[i] \in S
    BY ElementOfSeq
  <2>2. s # <<>> => 1 \in DOMAIN s
    BY <2>1, EmptySeq
  <2> QED  BY <1>1, <2>1, <2>2 DEF ToSet
<1>3. ASSUME NEW x \in S PROVE <<x>> \in Seq(S) /\ ToSet(<<x>>) = {x} /\ IsInjective(<<x>>)
  BY DEF ToSet, IsInjective
<1> QED  BY <1>1, <1>2, <1>3

--------------------------------------------------------------------------------
(* The rows of a tree.                                                     *)

\* Successors lists the successors that are not discovered yet, each once.
LEMMA SuccessorsOf ==
  ASSUME NEW n \in Nat, NEW g, NEW i, NEW seen
  PROVE  /\ Successors(n, g, i, seen) \in Seq(1..n)
         /\ IsInjective(Successors(n, g, i, seen))
         /\ ToSet(Successors(n, g, i, seen))
              = {j \in 1..n : <<i, j>> \in g /\ j \notin seen}
<1> DEFINE B(f, m) == IF m = 0 THEN <<>>
                      ELSE IF <<i, m>> \in g /\ m \notin seen THEN Append(f[m - 1], m)
                      ELSE f[m - 1]
           I == 0..n
           V == Seq(1..n)
           D == [p \in [I -> V] \X I |-> B(p[1], p[2])]
<1>0. I \subseteq 0..n /\ V # {} /\ \A m \in I : m \in Nat
  <2>1. <<>> \in V
    BY ShortSeqs
  <2>2. I \subseteq 0..n /\ \A m \in I : m \in Nat
    OBVIOUS
  <2> HIDE DEF I, V
  <2> QED  BY <2>1, <2>2
<1>1. ASSUME NEW f \in [I -> V], NEW m \in I PROVE B(f, m) \in V
  <2>1. m # 0 => m \in 1..n /\ f[m - 1] \in V
    OBVIOUS
  <2> QED  BY <2>1, ShortSeqs, AppendSet
<1>2. ASSUME NEW f, NEW h, NEW m \in I, \A k \in I : k < m => f[k] = h[k]
      PROVE  B(f, m) = B(h, m)
  <2>1. m # 0 => f[m - 1] = h[m - 1]
    <3>1. m # 0 => m - 1 \in I /\ m - 1 < m
      OBVIOUS
    <3> QED  BY <1>2, <3>1
  <2> QED  BY <2>1
<1> HIDE DEF B, I, V
<1>3. D \in [[I -> V] \X I -> V]
  BY <1>1
<1>4. \A f \in [I -> V], m \in I : D[<<f, m>>] = B(f, m)
  OBVIOUS
<1> HIDE DEF D
<1>5. PICK f \in [I -> V] : \A m \in I : f[m] = D[<<f, m>>]
  <2>1. Progressive(D, I, V)
    BY <1>2, <1>3, <1>4 DEF Progressive
  <2>2. PICK f : Solution(D, I, V, f)
    BY <1>0, <2>1, RecursiveFunction
  <2> QED  BY <2>2 DEF Solution
<1>6. f = [m \in I |-> B(f, m)]
  BY <1>4, <1>5
<1> DEFINE succ == CHOOSE h : h = [m \in I |-> B(h, m)]
<1>7. succ = [m \in I |-> B(succ, m)]
  BY <1>6
<1>8. Successors(n, g, i, seen) = succ[n]
  BY DEF Successors, I, B
<1> HIDE DEF succ
<1>9. \A m \in I : succ[m] = B(succ, m)
  BY <1>7
<1> DEFINE Q(j) == <<i, j>> \in g /\ j \notin seen
           P(m) == /\ succ[m] \in Seq(1..n) /\ IsInjective(succ[m])
                   /\ ToSet(succ[m]) = {j \in 1..m : Q(j)}
           S == {m \in Nat : m \in I => P(m)}
<1>10. ASSUME NEW m \in Nat, \A k \in 0..(m - 1) : k \in S PROVE m \in S
  <2> SUFFICES ASSUME m \in I PROVE P(m)
    OBVIOUS
  <2>1. CASE m = 0
    <3>1. succ[m] = <<>>
      BY <1>9, <2>1 DEF B
    <3> QED  BY <2>1, <3>1, ShortSeqs
  <2>2. CASE m # 0
    <3>1. m - 1 \in 0..(m - 1) /\ m - 1 \in I /\ m \in 1..n /\ m - 1 \in Nat
      BY <2>2 DEF I
    <3>2. P(m - 1)
      BY <1>10, <3>1
    <3>3. \A j : j \in 1..m <=> j \in 1..(m - 1) \/ j = m
      BY <3>1
    <3>4. m \notin 1..(m - 1)
      OBVIOUS
    <3> DEFINE s == succ[m - 1]
    <3>5. succ[m] = IF Q(m) THEN Append(s, m) ELSE s
      BY <1>9, <2>2 DEF B
    <3> HIDE DEF s, Q
    <3>6. CASE Q(m)
      <4>1. s \in Seq(1..n) /\ IsInjective(s) /\ ToSet(s) = {j \in 1..(m - 1) : Q(j)}
        BY <3>2 DEF s
      <4>2. m \notin ToSet(s)
        BY <3>4, <4>1
      <4>3. /\ Append(s, m) \in Seq(1..n) /\ IsInjective(Append(s, m))
            /\ ToSet(Append(s, m)) = ToSet(s) \cup {m}
        BY <3>1, <4>1, <4>2, AppendSet
      <4>4. ToSet(s) \cup {m} = {j \in 1..m : Q(j)}
        BY <3>3, <3>6, <4>1
      <4> QED  BY <3>5, <3>6, <4>3, <4>4
    <3>7. CASE ~Q(m)
      <4>1. {j \in 1..(m - 1) : Q(j)} = {j \in 1..m : Q(j)}
        BY <3>3, <3>7
      <4> QED  BY <3>2, <3>5, <3>7, <4>1 DEF s
    <3> QED  BY <3>6, <3>7
  <2> QED  BY <2>1, <2>2
<1>11. \A m \in Nat : m \in S
  <2> HIDE DEF S
  <2> QED  BY <1>10, StrongInduction
<1>12. P(n)
  <2>1. n \in I
    BY DEF I
  <2> QED  BY <1>11, <2>1
<1> QED  BY <1>8, <1>12

\* NextRow lists the nodes not discovered yet that follow one in the row, each once.
LEMMA NextRowOf ==
  ASSUME NEW n \in Nat, NEW g
  PROVE  \A r \in Seq(1..n) : \A seen :
           /\ NextRow(n, g, r, seen) \in Seq(1..n)
           /\ IsInjective(NextRow(n, g, r, seen))
           /\ ToSet(NextRow(n, g, r, seen))
                = {j \in 1..n : (\E i \in ToSet(r) : <<i, j>> \in g) /\ j \notin seen}
<1> SUFFICES ASSUME NEW r \in Seq(1..n), NEW seen
             PROVE  /\ NextRow(n, g, r, seen) \in Seq(1..n)
                    /\ IsInjective(NextRow(n, g, r, seen))
                    /\ ToSet(NextRow(n, g, r, seen))
                         = {j \in 1..n : /\ \E i \in ToSet(r) : <<i, j>> \in g
                                         /\ j \notin seen}
  OBVIOUS
<1> DEFINE L == Len(r)
           X(f, m) == Successors(n, g, r[m], seen \cup ToSet(f[m - 1]))
           B(f, m) == IF m = 0 THEN <<>> ELSE f[m - 1] \o X(f, m)
           I == 0..L
           V == Seq(1..n)
           D == [p \in [I -> V] \X I |-> B(p[1], p[2])]
<1>0. L \in Nat /\ I \subseteq 0..L /\ V # {} /\ \A m \in I : m \in Nat
  <2>1. <<>> \in V
    BY ShortSeqs
  <2>2. L \in Nat /\ I \subseteq 0..L /\ \A m \in I : m \in Nat
    OBVIOUS
  <2> HIDE DEF I, V, L
  <2> QED  BY <2>1, <2>2
<1>1. ASSUME NEW f \in [I -> V], NEW m \in I PROVE B(f, m) \in V
  <2>1. m # 0 => f[m - 1] \in V
    <3>1. m # 0 => m - 1 \in I
      BY <1>0
    <3> HIDE DEF I, V
    <3> QED  BY <3>1
  <2>2. X(f, m) \in V
    BY SuccessorsOf
  <2> HIDE DEF X
  <2> QED  BY <2>1, <2>2, ShortSeqs, ConcatSet
<1>2. ASSUME NEW f, NEW h, NEW m \in I, \A k \in I : k < m => f[k] = h[k]
      PROVE  B(f, m) = B(h, m)
  <2>1. m # 0 => f[m - 1] = h[m - 1]
    <3>1. m # 0 => m - 1 \in I /\ m - 1 < m
      BY <1>0
    <3> QED  BY <1>2, <3>1
  <2> QED  BY <2>1
<1> HIDE DEF B, I, V, X, L
<1>3. D \in [[I -> V] \X I -> V]
  BY <1>1
<1>4. \A f \in [I -> V], m \in I : D[<<f, m>>] = B(f, m)
  OBVIOUS
<1> HIDE DEF D
<1>5. PICK f \in [I -> V] : \A m \in I : f[m] = D[<<f, m>>]
  <2>1. Progressive(D, I, V)
    <3>1. ASSUME NEW f \in [I -> V], NEW h \in [I -> V], NEW m \in I,
                 \A k \in I : k < m => f[k] = h[k]
          PROVE  D[<<f, m>>] = D[<<h, m>>]
      <4>1. B(f, m) = B(h, m)
        BY <1>2, <3>1
      <4> QED  BY <1>4, <4>1
    <3> QED  BY <1>3, <3>1 DEF Progressive
  <2>2. PICK f : Solution(D, I, V, f)
    BY <1>0, <2>1, RecursiveFunction
  <2> QED  BY <2>2 DEF Solution
<1>6. f = [m \in I |-> B(f, m)]
  BY <1>4, <1>5
<1> DEFINE out == CHOOSE h : h = [m \in I |-> B(h, m)]
<1>7. out = [m \in I |-> B(out, m)]
  BY <1>6
<1>8. NextRow(n, g, r, seen) = out[L]
  BY DEF NextRow, I, B, X, L
<1> HIDE DEF out
<1>9. \A m \in I : out[m] = B(out, m)
  BY <1>7
<1> DEFINE Q(j, m) == (\E i \in 1..m : <<r[i], j>> \in g) /\ j \notin seen
           P(m) == /\ out[m] \in Seq(1..n) /\ IsInjective(out[m])
                   /\ ToSet(out[m]) = {j \in 1..n : Q(j, m)}
           S == {m \in Nat : m \in I => P(m)}
<1>10. ASSUME NEW m \in Nat, \A k \in 0..(m - 1) : k \in S PROVE m \in S
  <2> SUFFICES ASSUME m \in I PROVE P(m)
    OBVIOUS
  <2>1. CASE m = 0
    <3>1. out[m] = <<>>
      BY <1>9, <2>1 DEF B
    <3>2. {j \in 1..n : Q(j, m)} = {}
      BY <2>1
    <3> QED  BY <3>1, <3>2, ShortSeqs
  <2>2. CASE m # 0
    <3>1. m - 1 \in 0..(m - 1) /\ m - 1 \in I /\ m - 1 \in Nat
      BY <1>0, <2>2 DEF I
    <3>2. P(m - 1)
      BY <1>10, <3>1
    <3>3. \A j : j \in 1..m <=> j \in 1..(m - 1) \/ j = m
      BY <3>1
    <3> DEFINE s == out[m - 1]
               u == X(out, m)
    <3>4. out[m] = s \o u
      BY <1>9, <2>2 DEF B
    <3>5. /\ u \in Seq(1..n) /\ IsInjective(u)
          /\ ToSet(u) = {j \in 1..n : <<r[m], j>> \in g /\ j \notin seen \cup ToSet(s)}
      BY SuccessorsOf DEF X
    <3>6. s \in Seq(1..n) /\ IsInjective(s) /\ ToSet(s) = {j \in 1..n : Q(j, m - 1)}
      BY <3>2
    <3> HIDE DEF s, u
    <3>7. ToSet(s) \cap ToSet(u) = {}
      BY <3>5
    <3>8. /\ s \o u \in Seq(1..n) /\ IsInjective(s \o u)
          /\ ToSet(s \o u) = ToSet(s) \cup ToSet(u)
      BY <3>5, <3>6, <3>7, ConcatSet
    <3>9. ToSet(s) \cup ToSet(u) = {j \in 1..n : Q(j, m)}
      <4>1. \A j \in 1..n : Q(j, m) <=> Q(j, m - 1) \/ (<<r[m], j>> \in g /\ j \notin seen)
        BY <3>3
      <4> HIDE DEF Q
      <4>2. \A j : j \in ToSet(s) \cup ToSet(u) <=> j \in 1..n /\ Q(j, m)
        BY <3>5, <3>6, <4>1
      <4> QED  BY <4>2
    <3> QED  BY <3>4, <3>8, <3>9
  <2> QED  BY <2>1, <2>2
<1>11. \A m \in Nat : m \in S
  <2> HIDE DEF S
  <2> QED  BY <1>10, StrongInduction
<1>12. P(L)
  <2>1. L \in I
    BY <1>0 DEF I
  <2> QED  BY <1>0, <1>11, <2>1
<1>13. \A j : (\E i \in 1..L : <<r[i], j>> \in g) <=> (\E i \in ToSet(r) : <<i, j>> \in g)
  <2>1. DOMAIN r = 1..L
    BY DEF L
  <2> QED  BY <2>1 DEF ToSet
<1> QED  BY <1>8, <1>12, <1>13

\* The rows found from a root: the root alone, and then what follows each row and
\* is in none before.
LEMMA RowsOf ==
  ASSUME NEW n \in Nat, NEW g, NEW root \in 1..n
  PROVE  /\ Rows(n, g, root) \in [1..(n + 1) -> Seq(1..n)]
         /\ \A k \in 1..(n + 1) : IsInjective(Rows(n, g, root)[k])
         /\ ToSet(Rows(n, g, root)[1]) = {root}
         /\ \A k \in 2..(n + 1) : \A j :
              j \in ToSet(Rows(n, g, root)[k]) <=>
                /\ j \in 1..n
                /\ \E i \in ToSet(Rows(n, g, root)[k - 1]) : <<i, j>> \in g
                /\ \A m \in 1..(k - 1) : j \notin ToSet(Rows(n, g, root)[m])
<1> DEFINE U(f, k) == UNION {ToSet(f[j]) : j \in 1..(k - 1)}
           B(f, k) == IF k = 1 THEN <<root>> ELSE NextRow(n, g, f[k - 1], U(f, k))
           I == 1..(n + 1)
           V == Seq(1..n)
           D == [p \in [I -> V] \X I |-> B(p[1], p[2])]
<1>0. I \subseteq 0..(n + 1) /\ V # {} /\ (\A m \in I : m \in Nat) /\ n + 1 \in Nat
  <2>1. <<>> \in V
    BY ShortSeqs
  <2>2. I \subseteq 0..(n + 1) /\ (\A m \in I : m \in Nat) /\ n + 1 \in Nat
    OBVIOUS
  <2> HIDE DEF I, V
  <2> QED  BY <2>1, <2>2
<1>1. ASSUME NEW f \in [I -> V], NEW k \in I PROVE B(f, k) \in V
  <2>1. CASE k = 1
    BY <2>1, ShortSeqs
  <2>2. CASE k # 1
    <3>1. k - 1 \in I
      BY <2>2
    <3>2. f[k - 1] \in V
      BY <3>1
    <3> HIDE DEF U
    <3>3. NextRow(n, g, f[k - 1], U(f, k)) \in V
      BY <3>2, NextRowOf
    <3> QED  BY <2>2, <3>3
  <2> QED  BY <2>1, <2>2
<1>2. ASSUME NEW f, NEW h, NEW k \in I, \A m \in I : m < k => f[m] = h[m]
      PROVE  B(f, k) = B(h, k)
  <2>1. CASE k = 1
    BY <2>1
  <2>2. CASE k # 1
    <3>1. \A j \in 1..(k - 1) : j \in I /\ j < k
      OBVIOUS
    <3>2. \A j \in 1..(k - 1) : f[j] = h[j]
      BY <1>2, <3>1
    <3>3. U(f, k) = U(h, k)
      BY <3>2
    <3>4. f[k - 1] = h[k - 1]
      BY <2>2, <3>2
    <3> HIDE DEF U
    <3> QED  BY <3>3, <3>4
  <2> QED  BY <2>1, <2>2
<1> HIDE DEF B, I, V
<1>3. D \in [[I -> V] \X I -> V]
  BY <1>1
<1>4. \A f \in [I -> V], m \in I : D[<<f, m>>] = B(f, m)
  OBVIOUS
<1> HIDE DEF D
<1>5. PICK f \in [I -> V] : \A m \in I : f[m] = D[<<f, m>>]
  <2>1. Progressive(D, I, V)
    <3>1. ASSUME NEW f \in [I -> V], NEW h \in [I -> V], NEW m \in I,
                 \A k \in I : k < m => f[k] = h[k]
          PROVE  D[<<f, m>>] = D[<<h, m>>]
      <4>1. B(f, m) = B(h, m)
        BY <1>2, <3>1
      <4> QED  BY <1>4, <4>1
    <3> QED  BY <1>3, <3>1 DEF Progressive
  <2>2. PICK f : Solution(D, I, V, f)
    BY <1>0, <2>1, RecursiveFunction
  <2> QED  BY <2>2 DEF Solution
<1>6. f = [m \in I |-> B(f, m)]
  BY <1>4, <1>5
<1> DEFINE rows == CHOOSE h : h = [m \in I |-> B(h, m)]
<1>7. rows = [m \in I |-> B(rows, m)]
  BY <1>6
<1>8. Rows(n, g, root) = rows
  BY DEF Rows, I, B, U
<1> HIDE DEF rows
<1>9. \A m \in I : rows[m] = B(rows, m)
  BY <1>7
<1>9a. \A r \in Seq(1..n) : \A seen :
        /\ NextRow(n, g, r, seen) \in Seq(1..n)
        /\ IsInjective(NextRow(n, g, r, seen))
        /\ ToSet(NextRow(n, g, r, seen))
             = {j \in 1..n : (\E i \in ToSet(r) : <<i, j>> \in g) /\ j \notin seen}
  BY NextRowOf
<1> DEFINE S == {k \in 1..(n + 1) : rows[k] \in Seq(1..n) /\ IsInjective(rows[k])}
<1>10. ASSUME NEW k \in 1..(n + 1), \A m \in 1..(k - 1) : m \in S PROVE k \in S
  <2>1. CASE k = 1
    <3>1. rows[k] = <<root>>
      BY <1>9, <2>1 DEF B, I
    <3>2. <<root>> \in Seq(1..n) /\ IsInjective(<<root>>)
      BY ShortSeqs
    <3> QED  BY <3>1, <3>2
  <2>2. CASE k # 1
    <3>1. rows[k] = NextRow(n, g, rows[k - 1], U(rows, k))
      BY <1>9, <2>2 DEF B, I
    <3>2. rows[k - 1] \in Seq(1..n)
      BY <1>10, <2>2
    <3> HIDE DEF U
    <3>3. rows[k] \in Seq(1..n) /\ IsInjective(rows[k])
      BY <3>1, <3>2, <1>9a
    <3> QED  BY <3>3
  <2> QED  BY <2>1, <2>2
<1>11. \A k \in 1..(n + 1) : k \in S
  <2> HIDE DEF S
  <2> QED  BY <1>0, <1>10, NodeInduction
<1>12. rows \in [1..(n + 1) -> Seq(1..n)]
  <2>1. rows = [m \in 1..(n + 1) |-> B(rows, m)]
    BY <1>7 DEF I
  <2>2. \A m \in 1..(n + 1) : B(rows, m) \in Seq(1..n)
    BY <1>9, <1>11 DEF I
  <2> QED  BY <2>1, <2>2
<1>13. ToSet(rows[1]) = {root}
  <2>1. 1 \in I
    BY DEF I
  <2>2. rows[1] = <<root>>
    BY <1>9, <2>1 DEF B
  <2> QED  BY <2>2, ShortSeqs
<1>14. ASSUME NEW k \in 2..(n + 1), NEW j
       PROVE  j \in ToSet(rows[k]) <=>
                /\ j \in 1..n
                /\ \E i \in ToSet(rows[k - 1]) : <<i, j>> \in g
                /\ \A m \in 1..(k - 1) : j \notin ToSet(rows[m])
  <2>1. k \in I /\ k # 1 /\ k - 1 \in 1..(n + 1)
    BY DEF I
  <2>2. rows[k] = NextRow(n, g, rows[k - 1], U(rows, k))
    BY <1>9, <2>1 DEF B
  <2>3. j \notin U(rows, k) <=> \A m \in 1..(k - 1) : j \notin ToSet(rows[m])
    OBVIOUS
  <2> HIDE DEF U
  <2>4. rows[k - 1] \in Seq(1..n)
    BY <1>12, <2>1
  <2>5. ToSet(rows[k]) = {i \in 1..n : /\ \E m \in ToSet(rows[k - 1]) : <<m, i>> \in g
                                       /\ i \notin U(rows, k)}
    BY <2>2, <2>4, <1>9a
  <2> QED  BY <2>3, <2>5
<1> QED  BY <1>8, <1>11, <1>12, <1>13, <1>14

--------------------------------------------------------------------------------
(* The dependency graph of a block is a forest.                            *)

\* Edges go from earlier to later nodes, and at most one to each.
IsForest(n, g) ==
  /\ g \subseteq (1..n) \X (1..n)
  /\ \A i, j \in 1..n : <<j, i>> \in g => j < i
  /\ \A i, j, k \in 1..n : <<j, i>> \in g /\ <<k, i>> \in g => j = k

\* break 'inner (schedule.rs:144) leaves one edge per transaction.
LEMMA EdgesForest ==
  ASSUME NEW b, NEW s, Len(b) \in Nat, DOMAIN b = 1..Len(b)
  PROVE  IsForest(Len(b), Edges(b, s))
<1> DEFINE n == Len(b)
           Deps(i) == EarlierDeps(b, s, i)
<1>1. \A i \in 1..n : \A j \in Deps(i) : j \in 1..n /\ j < i
  BY DEF EarlierDeps
<1>2. \A e \in Edges(b, s) : \E i \in 1..n : \E j \in Deps(i) :
        e = <<j, i>> /\ \A m \in Deps(i) : m <= j
  BY DEF Edges
<1> HIDE DEF Deps, n
<1>3. \A i, j : <<j, i>> \in Edges(b, s)
        => i \in 1..n /\ j \in Deps(i) /\ \A m \in Deps(i) : m <= j
  BY <1>2
<1>4. Edges(b, s) \subseteq (1..n) \X (1..n)
  BY <1>1, <1>2
<1>5. \A i, j \in 1..n : <<j, i>> \in Edges(b, s) => j < i
  BY <1>1, <1>3
<1>6. ASSUME NEW i \in 1..n, NEW j \in 1..n, NEW k \in 1..n,
             <<j, i>> \in Edges(b, s), <<k, i>> \in Edges(b, s)
      PROVE  j = k
  <2>1. j <= k /\ k <= j
    BY <1>3, <1>6
  <2> QED  BY <2>1
<1> QED  BY <1>4, <1>5, <1>6 DEF IsForest, n

\* Following the edges back from a node and from its predecessor ends at the same
\* node, which has no predecessor.
LEMMA TopmostOf ==
  ASSUME NEW n \in Nat, NEW g, IsForest(n, g)
  PROVE  /\ \A i \in 1..n : /\ Topmost(n, g, i) \in 1..n
                            /\ \A j \in 1..n : <<j, Topmost(n, g, i)>> \notin g
                            /\ (\A j \in 1..n : <<j, i>> \notin g) => Topmost(n, g, i) = i
         /\ \A i, j \in 1..n : <<j, i>> \in g => Topmost(n, g, i) = Topmost(n, g, j)
<1> DEFINE src(m) == {j \in 1..n : <<j, m>> \in g}
           B(f, m) == IF src(m) = {} THEN m ELSE f[Max(src(m))]
           I == 1..n
           D == [p \in [I -> I] \X I |-> B(p[1], p[2])]
<1>0. I \subseteq 0..n /\ \A m \in I : m \in Nat
  OBVIOUS
<1>1. \A m \in I : \A j \in src(m) : j \in I /\ j < m /\ Max(src(m)) = j
  <2> SUFFICES ASSUME NEW m \in I, NEW j \in src(m)
               PROVE  j \in I /\ j < m /\ Max(src(m)) = j
    OBVIOUS
  <2>1. j \in I /\ j < m /\ src(m) = {j}
    BY DEF IsForest
  <2>2. Max({j}) = j
    <3>1. j >= j
      BY <2>1
    <3> QED  BY <3>1 DEF Max
  <2> HIDE DEF src
  <2> QED  BY <2>1, <2>2
<1>1a. \A m \in I : src(m) # {} => Max(src(m)) \in src(m)
  BY <1>1
<1> HIDE DEF src, I
<1>2. ASSUME NEW f \in [I -> I], NEW m \in I PROVE B(f, m) \in I
  BY <1>1, <1>1a
<1>3. ASSUME NEW f, NEW h, NEW m \in I, \A i \in I : i < m => f[i] = h[i]
      PROVE  B(f, m) = B(h, m)
  BY <1>1, <1>1a, <1>3
<1> HIDE DEF B
<1>4. D \in [[I -> I] \X I -> I]
  BY <1>2
<1>5. \A f \in [I -> I], m \in I : D[<<f, m>>] = B(f, m)
  OBVIOUS
<1> HIDE DEF D
<1>6. ASSUME I # {}
      PROVE  \E f \in [I -> I] : \A m \in I : f[m] = D[<<f, m>>]
  <2>1. Progressive(D, I, I)
    <3>1. ASSUME NEW f \in [I -> I], NEW h \in [I -> I], NEW m \in I,
                 \A k \in I : k < m => f[k] = h[k]
          PROVE  D[<<f, m>>] = D[<<h, m>>]
      <4>1. B(f, m) = B(h, m)
        BY <1>3, <3>1
      <4> QED  BY <1>5, <4>1
    <3> QED  BY <1>4, <3>1 DEF Progressive
  <2>2. PICK f : Solution(D, I, I, f)
    BY <1>0, <1>6, <2>1, RecursiveFunction
  <2> QED  BY <2>2 DEF Solution
<1> DEFINE up == CHOOSE h : h = [m \in I |-> B(h, m)]
<1>7. \A i : Topmost(n, g, i) = up[i]
  BY DEF Topmost, I, B, src
<1>8. ASSUME I # {} PROVE up = [m \in I |-> B(up, m)]
  <2>1. PICK f \in [I -> I] : \A m \in I : f[m] = D[<<f, m>>]
    BY <1>6, <1>8
  <2>2. f = [m \in I |-> B(f, m)]
    BY <1>5, <2>1
  <2> QED  BY <2>2
<1> HIDE DEF up
<1>9. \A m \in I : up[m] = B(up, m)
  BY <1>8
<1>10. \A i \in I : /\ src(i) = {} => up[i] = i
                    /\ \A j \in src(i) : up[i] = up[j]
  BY <1>1, <1>9 DEF B
<1> DEFINE S == {i \in 1..n : up[i] \in I /\ src(up[i]) = {}}
<1>11. ASSUME NEW i \in 1..n, \A m \in 1..(i - 1) : m \in S PROVE i \in S
  <2>1. CASE src(i) = {}
    BY <1>10, <2>1 DEF I
  <2>2. CASE src(i) # {}
    <3>1. PICK j \in src(i) : TRUE
      BY <2>2
    <3>2. j \in 1..(i - 1)
      BY <1>1 DEF I
    <3>3. up[i] = up[j] /\ j \in S
      BY <1>10, <1>11, <3>2 DEF I
    <3> QED  BY <3>3
  <2> QED  BY <2>1, <2>2
<1>12. \A i \in 1..n : i \in S
  <2> HIDE DEF S
  <2> QED  BY <1>11, NodeInduction
<1>13. \A i, j \in 1..n : j \in src(i) <=> <<j, i>> \in g
  BY DEF src
<1>14. \A i : src(i) = {} <=> \A j \in 1..n : <<j, i>> \notin g
  BY DEF src
<1>15. ASSUME NEW i \in 1..n
       PROVE  /\ Topmost(n, g, i) \in 1..n
              /\ \A j \in 1..n : <<j, Topmost(n, g, i)>> \notin g
              /\ (\A j \in 1..n : <<j, i>> \notin g) => Topmost(n, g, i) = i
  <2>1. up[i] \in I /\ src(up[i]) = {}
    BY <1>12
  <2>2. \A j \in 1..n : <<j, up[i]>> \notin g
    BY <1>14, <2>1
  <2>3. (\A j \in 1..n : <<j, i>> \notin g) => up[i] = i
    BY <1>10, <1>14 DEF I
  <2> QED  BY <1>7, <2>1, <2>2, <2>3 DEF I
<1>16. \A i, j \in 1..n : <<j, i>> \in g => up[i] = up[j]
  BY <1>10, <1>13 DEF I
<1> QED  BY <1>7, <1>15, <1>16

\* The connected nodes of a node end at the same node as it does.
LEMMA ComponentOf ==
  ASSUME NEW n \in Nat, NEW g, IsForest(n, g), NEW i \in 1..n
  PROVE  /\ i \in Component(n, g, i) /\ Component(n, g, i) \subseteq 1..n
         /\ \A j \in Component(n, g, i) : Topmost(n, g, j) = Topmost(n, g, i)
<1> DEFINE B(f, k) == IF k = 0 THEN {i}
                      ELSE {j \in 1..n : \/ j \in f[k - 1]
                                         \/ \E m \in f[k - 1] :
                                              {<<j, m>>, <<m, j>>} \cap g # {}}
           I == 0..n
           V == SUBSET (1..n)
           D == [p \in [I -> V] \X I |-> B(p[1], p[2])]
<1>0. I \subseteq 0..n /\ V # {} /\ \A m \in I : m \in Nat
  <2>1. {} \in V
    OBVIOUS
  <2>2. I \subseteq 0..n /\ \A m \in I : m \in Nat
    OBVIOUS
  <2> HIDE DEF I, V
  <2> QED  BY <2>1, <2>2
<1>1. ASSUME NEW f \in [I -> V], NEW k \in I PROVE B(f, k) \in V
  OBVIOUS
<1>2. ASSUME NEW f, NEW h, NEW k \in I, \A m \in I : m < k => f[m] = h[m]
      PROVE  B(f, k) = B(h, k)
  <2>1. k # 0 => f[k - 1] = h[k - 1]
    <3>1. k # 0 => k - 1 \in I /\ k - 1 < k
      OBVIOUS
    <3> QED  BY <1>2, <3>1
  <2> QED  BY <2>1
<1> HIDE DEF B, I, V
<1>3. D \in [[I -> V] \X I -> V]
  BY <1>1
<1>4. \A f \in [I -> V], m \in I : D[<<f, m>>] = B(f, m)
  OBVIOUS
<1> HIDE DEF D
<1>5. PICK f \in [I -> V] : \A m \in I : f[m] = D[<<f, m>>]
  <2>1. Progressive(D, I, V)
    BY <1>2, <1>3, <1>4 DEF Progressive
  <2>2. PICK f : Solution(D, I, V, f)
    BY <1>0, <2>1, RecursiveFunction
  <2> QED  BY <2>2 DEF Solution
<1>6. f = [m \in I |-> B(f, m)]
  BY <1>4, <1>5
<1> DEFINE linked == CHOOSE h : h = [m \in I |-> B(h, m)]
<1>7. linked = [m \in I |-> B(linked, m)]
  BY <1>6
<1>8. Component(n, g, i) = linked[n]
  BY DEF Component, I, B
<1> HIDE DEF linked
<1>9. \A m \in I : linked[m] = B(linked, m)
  BY <1>7
<1> DEFINE top(j) == Topmost(n, g, j)
           P(k) == /\ i \in linked[k] /\ linked[k] \subseteq 1..n
                   /\ \A j \in linked[k] : top(j) = top(i)
           S == {k \in Nat : k \in I => P(k)}
<1>10. ASSUME NEW k \in Nat, \A m \in 0..(k - 1) : m \in S PROVE k \in S
  <2> SUFFICES ASSUME k \in I PROVE P(k)
    OBVIOUS
  <2>1. CASE k = 0
    <3>1. linked[k] = {i}
      BY <1>9, <2>1 DEF B
    <3> QED  BY <3>1
  <2>2. CASE k # 0
    <3>1. k - 1 \in 0..(k - 1) /\ k - 1 \in I
      BY <2>2 DEF I
    <3>2. P(k - 1)
      BY <1>10, <3>1
    <3>3. linked[k] = {j \in 1..n : \/ j \in linked[k - 1]
                                    \/ \E m \in linked[k - 1] :
                                         {<<j, m>>, <<m, j>>} \cap g # {}}
      BY <1>9, <2>2 DEF B
    <3>4. \A j, m \in 1..n : {<<j, m>>, <<m, j>>} \cap g # {} => top(j) = top(m)
      BY TopmostOf
    <3> HIDE DEF top
    <3>5. \A j \in linked[k] : top(j) = top(i)
      BY <3>2, <3>3, <3>4
    <3> QED  BY <3>2, <3>3, <3>5
  <2> QED  BY <2>1, <2>2
<1>11. \A k \in Nat : k \in S
  <2> HIDE DEF S
  <2> QED  BY <1>10, StrongInduction
<1>12. P(n)
  <2>1. n \in I
    BY DEF I
  <2> QED  BY <1>11, <2>1
<1> QED  BY <1>8, <1>12

\* So the roots are the topmost nodes of all nodes.
LEMMA RootsOf ==
  ASSUME NEW n \in Nat, NEW g, IsForest(n, g)
  PROVE  Roots(n, g) = {Topmost(n, g, i) : i \in 1..n}
<1>1. ASSUME NEW i \in 1..n PROVE Topmost(n, g, Min(Component(n, g, i))) = Topmost(n, g, i)
  <2> DEFINE C == Component(n, g, i)
  <2>1. i \in C /\ C \subseteq 1..n /\ \A j \in C : Topmost(n, g, j) = Topmost(n, g, i)
    BY ComponentOf
  <2> HIDE DEF C
  <2>2. PICK x \in C : \A y \in C : x <= y
    <3>1. C \subseteq Nat /\ C # {}
      BY <2>1
    <3> QED  BY <3>1, LeastNatural
  <2>3. Min(C) \in C
    BY <2>2 DEF Min
  <2> QED  BY <2>1, <2>3 DEF C
<1> QED  BY <1>1 DEF Roots

\* The trees handed to the workers: every node is in one row of one tree, once, and
\* behind an empty row there are only empty ones.
Planned(n, T) ==
  /\ \A r \in DOMAIN T : T[r] \in [1..(n + 1) -> Seq(1..n)]
  /\ \A r \in DOMAIN T : \A k \in 1..(n + 1) : IsInjective(T[r][k])
  /\ \A r, q \in DOMAIN T : \A j, k \in 1..(n + 1) : \A i :
       i \in ToSet(T[r][j]) /\ i \in ToSet(T[q][k]) => r = q /\ j = k
  /\ \A i \in 1..n : \E r \in DOMAIN T : \E k \in 1..(n + 1) : i \in ToSet(T[r][k])
  /\ \A r \in DOMAIN T : \A j, k \in 1..(n + 1) :
       j <= k /\ T[r][j] = <<>> => T[r][k] = <<>>
  /\ \A r \in DOMAIN T : T[r][n + 1] = <<>>

\* The trees of a forest are.
LEMMA TreesPlanned ==
  ASSUME NEW n \in Nat, NEW g, IsForest(n, g), NEW T,
         T = [r \in Roots(n, g) |-> Rows(n, g, r)]
  PROVE  Planned(n, T)
<1> DEFINE top(i) == Topmost(n, g, i)
           R(r, k) == ToSet(T[r][k])
<1>0. n + 1 \in Nat /\ 1 \in 1..(n + 1) /\ n + 1 \in 1..(n + 1)
  OBVIOUS
<1>1. DOMAIN T = {top(i) : i \in 1..n}
  BY RootsOf
<1>2. \A r \in DOMAIN T : r \in 1..n /\ top(r) = r /\ \A j \in 1..n : <<j, r>> \notin g
  BY <1>1, TopmostOf
<1>3. \A r \in DOMAIN T :
        /\ T[r] \in [1..(n + 1) -> Seq(1..n)]
        /\ \A k \in 1..(n + 1) : IsInjective(T[r][k])
        /\ R(r, 1) = {r}
        /\ \A k \in 2..(n + 1) : \A j :
             j \in R(r, k) <=> /\ j \in 1..n
                               /\ \E i \in R(r, k - 1) : <<i, j>> \in g
                               /\ \A m \in 1..(k - 1) : j \notin R(r, m)
  <2> SUFFICES ASSUME NEW r \in DOMAIN T
               PROVE  /\ T[r] \in [1..(n + 1) -> Seq(1..n)]
                      /\ \A k \in 1..(n + 1) : IsInjective(T[r][k])
                      /\ R(r, 1) = {r}
                      /\ \A k \in 2..(n + 1) : \A j :
                           j \in R(r, k) <=> /\ j \in 1..n
                                             /\ \E i \in R(r, k - 1) : <<i, j>> \in g
                                             /\ \A m \in 1..(k - 1) : j \notin R(r, m)
    OBVIOUS
  <2>1. r \in 1..n /\ T[r] = Rows(n, g, r)
    BY <1>2
  <2> QED  BY <2>1, RowsOf
<1>4. \A r \in DOMAIN T : \A k \in 1..(n + 1) : \A x : x \in R(r, k) => x \in 1..n
  BY <1>3, ShortSeqs
<1>5. \A i, j \in 1..n : <<j, i>> \in g => j < i /\ top(i) = top(j)
  BY TopmostOf DEF IsForest
<1>6. \A i \in 1..n : (\A j \in 1..n : <<j, i>> \notin g) => top(i) = i
  BY TopmostOf
<1> HIDE DEF top, R
<1>7. \A r \in DOMAIN T : \A k \in 1..(n + 1) : \A i \in R(r, k) : top(i) = r /\ k <= i
  <2> SUFFICES ASSUME NEW r \in DOMAIN T
               PROVE  \A k \in 1..(n + 1) : \A i \in R(r, k) : top(i) = r /\ k <= i
    OBVIOUS
  <2> DEFINE S == {k \in 1..(n + 1) : \A i \in R(r, k) : top(i) = r /\ k <= i}
  <2>1. ASSUME NEW k \in 1..(n + 1), \A m \in 1..(k - 1) : m \in S PROVE k \in S
    <3>1. CASE k = 1
      BY <1>2, <1>3, <3>1
    <3>2. CASE k # 1
      <4>1. k \in 2..(n + 1) /\ k - 1 \in 1..(k - 1) /\ k - 1 \in 1..(n + 1)
        BY <3>2
      <4>2. \A i \in R(r, k - 1) : top(i) = r /\ k - 1 <= i /\ i \in 1..n
        BY <1>4, <2>1, <4>1
      <4>3. ASSUME NEW j \in R(r, k) PROVE top(j) = r /\ k <= j
        <5>1. PICK i \in R(r, k - 1) : <<i, j>> \in g /\ j \in 1..n
          BY <1>3, <4>1
        <5>2. top(i) = r /\ k - 1 <= i /\ i \in 1..n
          BY <4>2
        <5>3. i < j /\ top(j) = top(i)
          BY <1>5, <5>1, <5>2
        <5> QED  BY <4>1, <5>1, <5>2, <5>3
      <4> QED  BY <4>3
    <3> QED  BY <3>1, <3>2
  <2>2. \A k \in 1..(n + 1) : k \in S
    <3> HIDE DEF S
    <3> QED  BY <1>0, <2>1, NodeInduction
  <2> QED  BY <2>2
<1>8. ASSUME NEW r \in DOMAIN T, NEW q \in DOMAIN T, NEW j \in 1..(n + 1),
             NEW k \in 1..(n + 1), NEW i, i \in R(r, j), i \in R(q, k)
      PROVE  r = q /\ j = k
  <2>1. r = q
    BY <1>7, <1>8
  <2>2. ~(j < k)
    <3> SUFFICES ASSUME j < k PROVE FALSE
      OBVIOUS
    <3>1. k \in 2..(n + 1) /\ j \in 1..(k - 1)
      OBVIOUS
    <3> QED  BY <1>3, <1>8, <2>1, <3>1
  <2>3. ~(k < j)
    <3> SUFFICES ASSUME k < j PROVE FALSE
      OBVIOUS
    <3>1. j \in 2..(n + 1) /\ k \in 1..(j - 1)
      OBVIOUS
    <3> QED  BY <1>3, <1>8, <2>1, <3>1
  <2> QED  BY <2>1, <2>2, <2>3
<1>9. \A i \in 1..n : \E k \in 1..i : i \in R(top(i), k)
  <2> DEFINE S == {i \in 1..n : \E k \in 1..i : i \in R(top(i), k)}
  <2>1. ASSUME NEW i \in 1..n, \A m \in 1..(i - 1) : m \in S PROVE i \in S
    <3>0. top(i) \in DOMAIN T
      BY <1>1
    <3>1. CASE \A j \in 1..n : <<j, i>> \notin g
      <4>1. top(i) = i
        BY <1>6, <3>1
      <4>2. i \in R(top(i), 1)
        BY <1>3, <3>0, <4>1
      <4> QED  BY <4>2
    <3>2. CASE \E j \in 1..n : <<j, i>> \in g
      <4>1. PICK j \in 1..n : <<j, i>> \in g
        BY <3>2
      <4>2. j < i /\ top(i) = top(j) /\ j \in 1..(i - 1)
        BY <1>5, <4>1
      <4>3. PICK k \in 1..j : j \in R(top(j), k)
        BY <2>1, <4>2
      <4>4. k + 1 \in 2..(n + 1) /\ (k + 1) - 1 = k /\ k + 1 \in 1..i
        BY <4>2
      <4>5. CASE \E m \in 1..k : i \in R(top(i), m)
        <5>1. PICK m \in 1..k : i \in R(top(i), m)
          BY <4>5
        <5>2. m \in 1..i
          BY <4>2
        <5> QED  BY <5>1, <5>2
      <4>6. CASE \A m \in 1..k : i \notin R(top(i), m)
        <5>1. \A x : x \in R(top(i), k + 1)
                      <=> /\ x \in 1..n
                          /\ \E y \in R(top(i), (k + 1) - 1) : <<y, x>> \in g
                          /\ \A m \in 1..((k + 1) - 1) : x \notin R(top(i), m)
          BY <1>3, <3>0, <4>4
        <5>2. R(top(i), (k + 1) - 1) = R(top(i), k) /\ 1..((k + 1) - 1) = 1..k
          BY <4>4
        <5>3. \E y \in R(top(i), k) : <<y, i>> \in g
          BY <4>1, <4>2, <4>3
        <5>4. i \in R(top(i), k + 1)
          BY <4>6, <5>1, <5>2, <5>3
        <5> QED  BY <4>4, <5>4
      <4> QED  BY <4>5, <4>6
    <3> QED  BY <3>1, <3>2
  <2>2. \A i \in 1..n : i \in S
    <3> HIDE DEF S
    <3> QED  BY <2>1, NodeInduction
  <2> QED  BY <2>2
<1>10. \A i \in 1..n : \E r \in DOMAIN T : \E k \in 1..(n + 1) : i \in R(r, k)
  <2> SUFFICES ASSUME NEW i \in 1..n
               PROVE  \E r \in DOMAIN T : \E k \in 1..(n + 1) : i \in R(r, k)
    OBVIOUS
  <2>1. PICK k \in 1..i : i \in R(top(i), k)
    BY <1>9
  <2>2. k \in 1..(n + 1) /\ top(i) \in DOMAIN T
    BY <1>1
  <2> QED  BY <2>1, <2>2
<1>11. \A r \in DOMAIN T : \A k \in 1..(n + 1) : T[r][k] = <<>> <=> R(r, k) = {}
  BY <1>3, ShortSeqs DEF R
<1>12. ASSUME NEW r \in DOMAIN T, NEW j \in 1..(n + 1), R(r, j) = {}
       PROVE  \A k \in 1..(n + 1) : j <= k => R(r, k) = {}
  <2> DEFINE S == {k \in 1..(n + 1) : j <= k => R(r, k) = {}}
  <2>1. ASSUME NEW k \in 1..(n + 1), \A m \in 1..(k - 1) : m \in S PROVE k \in S
    <3>1. CASE k <= j
      BY <1>12, <3>1
    <3>2. CASE j < k
      <4>1. k \in 2..(n + 1) /\ k - 1 \in 1..(k - 1) /\ j <= k - 1
        BY <3>2
      <4>2. R(r, k - 1) = {}
        BY <2>1, <4>1
      <4>3. \A x : x \notin R(r, k)
        BY <1>3, <4>1, <4>2
      <4> QED  BY <4>3
    <3> QED  BY <3>1, <3>2
  <2>2. \A k \in 1..(n + 1) : k \in S
    <3> HIDE DEF S
    <3> QED  BY <1>0, <2>1, NodeInduction
  <2> QED  BY <2>2
<1>13. ASSUME NEW r \in DOMAIN T PROVE R(r, n + 1) = {}
  BY <1>0, <1>4, <1>7
<1>14. \A r \in DOMAIN T : \A j, k \in 1..(n + 1) :
         j <= k /\ T[r][j] = <<>> => T[r][k] = <<>>
  BY <1>11, <1>12
<1>15. \A r \in DOMAIN T : T[r][n + 1] = <<>>
  BY <1>0, <1>11, <1>13
<1>16. \A r, q \in DOMAIN T : \A j, k \in 1..(n + 1) : \A i :
         i \in ToSet(T[r][j]) /\ i \in ToSet(T[q][k]) => r = q /\ j = k
  BY <1>8 DEF R
<1>17. \A i \in 1..n : \E r \in DOMAIN T : \E k \in 1..(n + 1) : i \in ToSet(T[r][k])
  BY <1>10 DEF R
<1>18. /\ \A r \in DOMAIN T : T[r] \in [1..(n + 1) -> Seq(1..n)]
       /\ \A r \in DOMAIN T : \A k \in 1..(n + 1) : IsInjective(T[r][k])
  BY <1>3
<1> QED  BY <1>14, <1>15, <1>16, <1>17, <1>18 DEF Planned

--------------------------------------------------------------------------------
(* What one transaction yields and what merging the results of several does. *)

\* What execute returns for tx when its predicates accept: an account or a delete
\* for each address it writes, nothing for the others.
IsOutput(tx, d) ==
  /\ d \in Diff
  /\ d.deletes \subseteq Writes(tx)
  /\ \A a \in Addr : IF a \in Writes(tx) /\ a \notin d.deletes THEN d.upserts[a] \in Account
                     ELSE d.upserts[a] = NoAccount

LEMMA OverlayIsStore ==
  ASSUME NEW s \in Store, NEW d \in Diff PROVE OverlayView(s, d) \in Store
BY DEF OverlayView, OverlayGet, DiffGet, Store, Diff, MaybeAccount

LEMMA MergeIsDiff ==
  ASSUME NEW d \in Diff, NEW e \in Diff PROVE Merge(d, e) \in Diff
<1> DEFINE u == [a \in Addr |-> IF a \in e.deletes THEN NoAccount
                                ELSE IF e.upserts[a] # NoAccount THEN e.upserts[a]
                                ELSE d.upserts[a]]
           x == (d.deletes \ Upserted(e)) \cup e.deletes
<1>1. u \in [Addr -> MaybeAccount]
  BY DEF Diff, MaybeAccount
<1>2. x \in SUBSET Addr
  BY DEF Diff
<1>3. Merge(d, e) = [upserts |-> u, deletes |-> x]
  BY DEF Merge
<1> HIDE DEF u, x
<1> QED  BY <1>1, <1>2, <1>3 DEF Diff

LEMMA ExecuteOutput ==
  ASSUME NEW tx, WellFormed(tx), NEW view \in Store
  PROVE  Execute(tx, view) = Failed \/ IsOutput(tx, Execute(tx, view))
<1> SUFFICES ASSUME OutputsOk(tx, view) PROVE IsOutput(tx, Outputs(tx, view))
  BY DEF Execute
<1> DEFINE u == [a \in Addr |-> IF a \in Writes(tx) THEN Changed(tx.proposals[a], view[a])
                                ELSE NoAccount]
           x == {a \in Writes(tx) : tx.proposals[a].op = "DeleteAccount"}
<1>1. ASSUME NEW a \in Writes(tx), a \in x PROVE Changed(tx.proposals[a], view[a]) = NoAccount
  BY <1>1 DEF Changed
<1>2. ASSUME NEW a \in Writes(tx), a \notin x
      PROVE  Changed(tx.proposals[a], view[a]) \in Account
  <2>1. a \in Addr /\ view[a] \in MaybeAccount
    BY DEF WellFormed, Store
  <2>2. CASE tx.proposals[a].op = "CreateAccount"
    BY <2>2 DEF WellFormed, Changed
  <2>3. CASE tx.proposals[a].op # "CreateAccount"
    <3>1. view[a] \in Account
      BY <2>1, <2>3 DEF OutputsOk, Exists, MaybeAccount
    <3> QED  BY <1>2, <2>3, <3>1 DEF WellFormed
  <2> QED  BY <2>2, <2>3
<1>3. Outputs(tx, view) = [upserts |-> u, deletes |-> x]
  BY DEF Outputs
<1>4. x \subseteq Writes(tx) /\ x \in SUBSET Addr
  BY DEF WellFormed
<1>5. \A a \in Addr : IF a \in Writes(tx) /\ a \notin x THEN u[a] \in Account
                      ELSE u[a] = NoAccount
  BY <1>1, <1>2
<1>6. u \in [Addr -> MaybeAccount]
  BY <1>1, <1>2 DEF MaybeAccount
<1> HIDE DEF u, x
<1> QED  BY <1>3, <1>4, <1>5, <1>6 DEF IsOutput, Diff

\* MergeOk for any results, not only those of the current state.
Merged(res, d, ixs) ==
  LET merged[n \in 0..Len(ixs)] ==
        IF n = 0 THEN d
        ELSE IF res[ixs[n]] = Failed THEN merged[n - 1]
        ELSE Merge(merged[n - 1], res[ixs[n]])
  IN merged[Len(ixs)]

\* f is what the diffs merged from d on amount to, result by result.
MergeSteps(f, N, res, d, ixs) ==
  /\ f \in [0..N -> Diff] /\ f[0] = d
  /\ \A k \in 1..N : f[k] = IF res[ixs[k]] = Failed THEN f[k - 1]
                            ELSE Merge(f[k - 1], res[ixs[k]])

MergedInSteps(N, res, d, ixs) ==
  \E f : MergeSteps(f, N, res, d, ixs) /\ Merged(res, d, ixs) = f[N]

LEMMA MergedOf ==
  ASSUME NEW res, NEW d \in Diff, NEW ixs, NEW N \in Nat, N = Len(ixs),
         \A k \in 1..N : res[ixs[k]] = Failed \/ res[ixs[k]] \in Diff
  PROVE  /\ Merged(res, d, ixs) \in Diff
         /\ MergedInSteps(N, res, d, ixs)
<1> DEFINE B(f, k) == IF k = 0 THEN d
                      ELSE IF res[ixs[k]] = Failed THEN f[k - 1]
                      ELSE Merge(f[k - 1], res[ixs[k]])
           I == 0..N
           V == Diff
           D == [p \in [I -> V] \X I |-> B(p[1], p[2])]
<1>0. I \subseteq 0..N /\ V # {} /\ N \in I /\ \A m \in I : m \in Nat
  <2>1. d \in V
    OBVIOUS
  <2>2. I \subseteq 0..N /\ N \in I /\ \A m \in I : m \in Nat
    OBVIOUS
  <2> HIDE DEF I, V
  <2> QED  BY <2>1, <2>2
<1>1. ASSUME NEW f \in [I -> V], NEW k \in I PROVE B(f, k) \in V
  <2>1. CASE k = 0
    BY <2>1
  <2>2. CASE k # 0
    <3>1. k - 1 \in I /\ k \in 1..N
      BY <2>2
    <3>2. f[k - 1] \in Diff
      BY <3>1
    <3>3. res[ixs[k]] = Failed \/ res[ixs[k]] \in Diff
      BY <3>1
    <3> QED  BY <2>2, <3>2, <3>3, MergeIsDiff
  <2> QED  BY <2>1, <2>2
<1>2. ASSUME NEW f, NEW h, NEW k \in I, \A m \in I : m < k => f[m] = h[m]
      PROVE  B(f, k) = B(h, k)
  <2>1. k # 0 => f[k - 1] = h[k - 1]
    <3>1. k # 0 => k - 1 \in I /\ k - 1 < k
      OBVIOUS
    <3> QED  BY <1>2, <3>1
  <2> QED  BY <2>1
<1> HIDE DEF B, I, V
<1>3. D \in [[I -> V] \X I -> V]
  BY <1>1
<1>4. \A f \in [I -> V], m \in I : D[<<f, m>>] = B(f, m)
  OBVIOUS
<1> HIDE DEF D
<1>5. PICK f \in [I -> V] : \A m \in I : f[m] = D[<<f, m>>]
  <2>1. Progressive(D, I, V)
    BY <1>2, <1>3, <1>4 DEF Progressive
  <2>2. PICK f : Solution(D, I, V, f)
    BY <1>0, <2>1, RecursiveFunction
  <2> QED  BY <2>2 DEF Solution
<1>6. f = [m \in I |-> B(f, m)]
  BY <1>4, <1>5
<1> DEFINE merged == CHOOSE h : h = [m \in I |-> B(h, m)]
<1>7. merged = [m \in I |-> B(merged, m)]
  BY <1>6
<1>8. Merged(res, d, ixs) = merged[N]
  BY DEF Merged, I, B
<1> HIDE DEF merged
<1>9. \A m \in I : merged[m] = B(merged, m)
  BY <1>7
<1> DEFINE S == {k \in Nat : k \in I => merged[k] \in V}
<1>10. ASSUME NEW k \in Nat, \A m \in 0..(k - 1) : m \in S PROVE k \in S
  <2> SUFFICES ASSUME k \in I PROVE merged[k] \in V
    OBVIOUS
  <2>1. CASE k = 0
    BY <1>9, <2>1 DEF B, V
  <2>2. CASE k # 0
    <3>1. k - 1 \in 0..(k - 1) /\ k - 1 \in I /\ k \in 1..N
      BY <2>2 DEF I
    <3>2. merged[k - 1] \in Diff
      BY <1>10, <3>1 DEF V
    <3>3. res[ixs[k]] = Failed \/ res[ixs[k]] \in Diff
      BY <3>1
    <3>4. B(merged, k) \in Diff
      BY <2>2, <3>2, <3>3, MergeIsDiff DEF B
    <3> QED  BY <1>9, <3>4 DEF V
  <2> QED  BY <2>1, <2>2
<1>11. \A k \in Nat : k \in S
  <2> HIDE DEF S
  <2> QED  BY <1>10, StrongInduction
<1>12. \A k \in I : merged[k] \in Diff
  BY <1>0, <1>11 DEF V
<1>13. merged \in [0..N -> Diff]
  BY <1>7, <1>12 DEF I
<1>14. merged[0] = d
  <2>1. 0 \in I
    BY DEF I
  <2> QED  BY <1>9, <2>1 DEF B
<1>15. \A k \in 1..N : merged[k] = IF res[ixs[k]] = Failed THEN merged[k - 1]
                                   ELSE Merge(merged[k - 1], res[ixs[k]])
  <2>1. \A k \in 1..N : k \in I /\ k # 0
    BY DEF I
  <2> QED  BY <1>9, <2>1 DEF B
<1>16. MergeSteps(merged, N, res, d, ixs)
  BY <1>13, <1>14, <1>15 DEF MergeSteps
<1> QED  BY <1>0, <1>8, <1>12, <1>16 DEF MergedInSteps

LEMMA MergeOkIsMerged ==
  ASSUME NEW d, NEW ixs PROVE MergeOk(d, ixs) = Merged(result, d, ixs)
BY DEF MergeOk, Merged

--------------------------------------------------------------------------------
(* The inductive invariant.                                                *)

BlockOK ==
  /\ Len(block) \in Nat /\ DOMAIN block = 1..Len(block)
  /\ \A i \in 1..Len(block) : WellFormed(block[i])

PlanOK == Planned(Len(block), trees)

RowsOK ==
  /\ row \in [DOMAIN trees -> [ix : 0..(Len(block) + 1), txs : SUBSET (1..Len(block))]]
  /\ \A r \in DOMAIN trees :
       row[r].txs = {} \/ (row[r].ix > 0 /\ row[r].txs = ToSet(trees[r][row[r].ix]))

\* The rows that are still to come are still in the graph.
CellOK ==
  \A r \in DOMAIN trees : \A k \in 1..(Len(block) + 1) :
    k > row[r].ix => ToSet(trees[r][k]) \subseteq cell

\* The transactions of the rows before the current one, and of a row that is
\* finished, have their results.
TakenOK ==
  \A r \in DOMAIN trees : \A k \in 1..(Len(block) + 1) : \A i \in ToSet(trees[r][k]) :
    k <= row[r].ix => result[i] # Pending \/ (k = row[r].ix /\ i \in row[r].txs)

ResultsOK ==
  /\ DOMAIN result = 1..Len(block)
  /\ \A i \in 1..Len(block) : result[i] \in {Failed, Pending} \/ IsOutput(block[i], result[i])

IInv ==
  /\ state \in Store /\ acc \in [DOMAIN trees -> Diff]
  /\ BlockOK /\ PlanOK /\ RowsOK /\ CellOK /\ TakenOK /\ ResultsOK
  /\ NeverVisitedTwice

\* A block that arrives is planned as a forest.
LEMMA BlockPlanned ==
  ASSUME NEW b \in Blocks, NEW s
  PROVE  LET g == Edges(b, s)
         IN Planned(Len(b), [r \in Roots(Len(b), g) |-> Rows(Len(b), g, r)])
<1>1. Len(b) \in Nat /\ DOMAIN b = 1..Len(b)
  BY ScheduleAssumption
<1>2. IsForest(Len(b), Edges(b, s))
  BY <1>1, EdgesForest
<1> QED  BY <1>1, <1>2, TreesPlanned

LEMMA InitIInv == Init => IInv
<1> SUFFICES ASSUME Init PROVE IInv
  OBVIOUS
<1>1. /\ Len(block) = 0 /\ DOMAIN block = {} /\ DOMAIN trees = {} /\ DOMAIN result = {}
      /\ row = <<>> /\ acc = <<>> /\ DOMAIN row = {} /\ DOMAIN acc = {}
  BY DEF Init
<1>2. 1..0 = {}
  OBVIOUS
<1>3. BlockOK /\ CellOK /\ TakenOK /\ ResultsOK
  BY <1>1, <1>2 DEF BlockOK, CellOK, TakenOK, ResultsOK
<1>4. PlanOK
  BY <1>1, <1>2 DEF PlanOK, Planned
<1>5. acc \in [DOMAIN trees -> Diff] /\ RowsOK
  BY <1>1 DEF RowsOK, Init
<1>6. state \in Store /\ NeverVisitedTwice
  BY ScheduleAssumption DEF Init, NeverVisitedTwice
<1> QED  BY <1>3, <1>4, <1>5, <1>6 DEF IInv

LEMMA StartBlockIInv ==
  ASSUME IInv, NEW b \in Blocks, StartBlock(b) PROVE IInv'
<1> DEFINE n == Len(b)
<1>0. /\ n \in Nat /\ DOMAIN b = 1..n /\ \A i \in 1..n : WellFormed(b[i])
  BY ScheduleAssumption
<1>1. /\ block' = b /\ graph' = Edges(b, state) /\ cell' = DOMAIN b /\ state' = state
      /\ trees' = [r \in Roots(n, graph') |-> Rows(n, graph', r)]
      /\ row' = [r \in DOMAIN trees' |-> [ix |-> 0, txs |-> {}]]
      /\ acc' = [r \in DOMAIN trees' |-> EmptyDiff]
      /\ result' = [i \in DOMAIN b |-> Pending]
      /\ panicked' = panicked
  BY DEF StartBlock
<1>2. Planned(n, trees')
  BY <1>1, BlockPlanned
<1> HIDE DEF n
<1>3. Len(block') = n
  BY <1>1 DEF n
<1>4. BlockOK' /\ PlanOK'
  BY <1>0, <1>1, <1>2, <1>3 DEF BlockOK, PlanOK
<1>5. RowsOK'
  <2>1. 0 \in 0..(n + 1) /\ {} \in SUBSET (1..n)
    BY <1>0
  <2>2. \A r \in DOMAIN trees' : row'[r] = [ix |-> 0, txs |-> {}]
    BY <1>1
  <2>3. row' \in [DOMAIN trees' -> [ix : 0..(n + 1), txs : SUBSET (1..n)]]
    BY <1>1, <2>1
  <2> QED  BY <1>3, <2>2, <2>3 DEF RowsOK
<1>6. CellOK'
  <2>1. \A r \in DOMAIN trees' : \A k \in 1..(n + 1) : ToSet(trees'[r][k]) \subseteq 1..n
    <3>0. \A r \in DOMAIN trees' : trees'[r] \in [1..(n + 1) -> Seq(1..n)]
      BY <1>2 DEF Planned
    <3>1. \A r \in DOMAIN trees' : \A k \in 1..(n + 1) : trees'[r][k] \in Seq(1..n)
      BY <3>0
    <3>2. \A t \in Seq(1..n) : ToSet(t) \subseteq 1..n
      BY ShortSeqs
    <3> QED  BY <3>1, <3>2
  <2> QED  BY <1>0, <1>1, <1>3, <2>1 DEF CellOK
<1>7. TakenOK'
  <2>1. \A r \in DOMAIN trees' : row'[r].ix = 0
    BY <1>1
  <2>2. \A k \in 1..(n + 1) : ~(k <= 0)
    BY <1>0
  <2> QED  BY <1>3, <2>1, <2>2 DEF TakenOK
<1>8. ResultsOK'
  BY <1>0, <1>1, <1>3 DEF ResultsOK
<1>9. acc' \in [DOMAIN trees' -> Diff]
  <2>1. EmptyDiff \in Diff
    BY DEF EmptyDiff, Diff, MaybeAccount
  <2> QED  BY <1>1, <2>1
<1>10. state' \in Store /\ NeverVisitedTwice'
  BY <1>1 DEF IInv, NeverVisitedTwice
<1> QED  BY <1>4, <1>5, <1>6, <1>7, <1>8, <1>9, <1>10 DEF IInv

LEMMA TakeRowIInv ==
  ASSUME IInv, NEW r \in DOMAIN row, TakeRow(r) PROVE IInv'
<1> DEFINE n == Len(block)
           ix == row[r].ix + 1
           R(q, k) == ToSet(trees[q][k])
<1>1. /\ n \in Nat /\ Planned(n, trees) /\ DOMAIN row = DOMAIN trees /\ r \in DOMAIN trees
      /\ row \in [DOMAIN trees -> [ix : 0..(n + 1), txs : SUBSET (1..n)]]
  BY DEF IInv, BlockOK, PlanOK, RowsOK
<1>2. /\ UNCHANGED <<state, height, block, graph, trees, acc, result>>
      /\ row[r].txs = {} /\ ~TreeDone(r)
      /\ panicked' = ~(R(r, ix) \subseteq cell /\ IsInjective(trees[r][ix]))
      /\ cell' = cell \ R(r, ix)
      /\ row' = [row EXCEPT ![r] = [ix |-> ix, txs |-> R(r, ix)]]
  BY DEF TakeRow
<1>3. row[r].ix \in 0..(n + 1) /\ ix \in 1..(n + 1) /\ ix > row[r].ix /\ ix - 1 = row[r].ix
  <2>1. row[r].ix \in 0..(n + 1)
    BY <1>1
  <2>2. row[r].ix # n + 1
    <3>1. trees[r][n + 1] = <<>> /\ n + 1 > 0
      BY <1>1 DEF Planned
    <3> QED  BY <1>2, <3>1 DEF TreeDone
  <2> QED  BY <1>1, <2>1, <2>2
<1>4. R(r, ix) \subseteq 1..n /\ IsInjective(trees[r][ix])
  BY <1>1, <1>3, ShortSeqs DEF Planned
<1>5. R(r, ix) \subseteq cell
  BY <1>1, <1>3 DEF IInv, CellOK
<1>6. /\ row'[r] = [ix |-> ix, txs |-> R(r, ix)]
      /\ \A q \in DOMAIN trees : q # r => row'[q] = row[q]
      /\ row' \in [DOMAIN trees -> [ix : 0..(n + 1), txs : SUBSET (1..n)]]
  <2>1. ix \in 0..(n + 1)
    BY <1>3
  <2> HIDE DEF ix, n, R
  <2> QED  BY <1>1, <1>2, <1>4, <2>1
<1>7. \A q, m \in DOMAIN trees : \A j, k \in 1..(n + 1) : \A i :
        i \in R(q, j) /\ i \in R(m, k) => q = m /\ j = k
  BY <1>1 DEF Planned
<1> HIDE DEF R
<1>8. BlockOK' /\ PlanOK' /\ ResultsOK' /\ state' \in Store /\ acc' \in [DOMAIN trees' -> Diff]
  BY <1>2 DEF IInv, BlockOK, PlanOK, ResultsOK
<1>9. RowsOK'
  <2>1. row'[r].ix > 0 /\ row'[r].txs = ToSet(trees[r][row'[r].ix])
    BY <1>3, <1>6 DEF R
  <2> QED  BY <1>1, <1>2, <1>6, <2>1 DEF IInv, RowsOK
<1>10. CellOK'
  <2> SUFFICES ASSUME NEW q \in DOMAIN trees, NEW k \in 1..(n + 1), k > row'[q].ix,
                      NEW i \in R(q, k)
               PROVE  i \in cell'
    BY <1>2 DEF CellOK, R
  <2>1. k > row[q].ix /\ (q = r => k > ix)
    <3>1. CASE q = r
      <4>1. k > ix
        BY <1>6, <3>1
      <4>2. k \in Nat /\ ix \in Nat /\ row[r].ix \in Nat
        BY <1>1, <1>3
      <4> QED  BY <1>3, <3>1, <4>1, <4>2
    <3>2. CASE q # r
      BY <1>6, <3>2
    <3> QED  BY <3>1, <3>2
  <2>2. i \in cell
    BY <2>1 DEF IInv, CellOK, R
  <2>3. i \notin R(r, ix)
    BY <1>1, <1>3, <1>7, <2>1
  <2> QED  BY <1>2, <2>2, <2>3
<1>11. TakenOK'
  <2> SUFFICES ASSUME NEW q \in DOMAIN trees, NEW k \in 1..(n + 1), k <= row'[q].ix,
                      NEW i \in R(q, k)
               PROVE  result[i] # Pending \/ (k = row'[q].ix /\ i \in row'[q].txs)
    BY <1>2 DEF TakenOK, R
  <2>1. CASE q # r
    BY <1>6, <2>1 DEF IInv, TakenOK, R
  <2>2. CASE q = r /\ k = ix
    BY <1>6, <2>2
  <2>3. CASE q = r /\ k # ix
    <3>1. k <= row[r].ix
      <4>1. k <= ix
        BY <1>6, <2>3
      <4> QED  BY <1>1, <1>3, <2>3, <4>1
    <3> QED  BY <1>2, <2>3, <3>1 DEF IInv, TakenOK, R
  <2> QED  BY <2>1, <2>2, <2>3
<1>12. NeverVisitedTwice'
  BY <1>2, <1>4, <1>5 DEF NeverVisitedTwice
<1> QED  BY <1>8, <1>9, <1>10, <1>11, <1>12 DEF IInv

LEMMA RunTxIInv ==
  ASSUME IInv, NEW r \in DOMAIN row, NEW i \in row[r].txs, RunTx(r, i) PROVE IInv'
<1> DEFINE n == Len(block)
           out == Execute(block[i], OverlayView(state, acc[r]))
<1>1. /\ n \in Nat /\ r \in DOMAIN trees /\ i \in 1..n /\ acc[r] \in Diff
      /\ WellFormed(block[i])
  BY DEF IInv, BlockOK, RowsOK
<1>2. /\ UNCHANGED <<state, height, block, graph, trees, cell, row, acc, panicked>>
      /\ result' = [result EXCEPT ![i] = out]
  BY DEF RunTx
<1>3. out = Failed \/ IsOutput(block[i], out)
  <2>1. OverlayView(state, acc[r]) \in Store
    BY <1>1, OverlayIsStore DEF IInv
  <2> QED  BY <1>1, <2>1, ExecuteOutput
<1>4. out # Pending
  BY <1>3, ScheduleAssumption DEF IsOutput
<1> HIDE DEF out, n
<1>5. /\ DOMAIN result' = 1..n /\ result'[i] = out
      /\ \A j \in 1..n : j # i => result'[j] = result[j]
  BY <1>1, <1>2 DEF IInv, ResultsOK, n
<1>6. ResultsOK'
  <2>1. ASSUME NEW j \in 1..n
        PROVE  result'[j] \in {Failed, Pending} \/ IsOutput(block[j], result'[j])
    BY <1>3, <1>5 DEF IInv, ResultsOK, n
  <2> QED  BY <1>2, <1>5, <2>1 DEF ResultsOK, n
<1>7. TakenOK'
  <2> SUFFICES ASSUME NEW q \in DOMAIN trees, NEW k \in 1..(n + 1), k <= row[q].ix,
                      NEW j \in ToSet(trees[q][k])
               PROVE  result'[j] # Pending \/ (k = row[q].ix /\ j \in row[q].txs)
    BY <1>2 DEF TakenOK, n
  <2>1. j \in 1..n
    <3>1. trees[q][k] \in Seq(1..n)
      BY DEF IInv, PlanOK, Planned, n
    <3> QED  BY <3>1, ShortSeqs
  <2>2. CASE j = i
    BY <1>4, <1>5, <2>2
  <2>3. CASE j # i
    <3>1. result'[j] = result[j]
      BY <1>5, <2>1, <2>3
    <3> QED  BY <3>1 DEF IInv, TakenOK, n
  <2> QED  BY <2>2, <2>3
<1>8. /\ state' \in Store /\ acc' \in [DOMAIN trees' -> Diff]
      /\ BlockOK' /\ PlanOK' /\ RowsOK' /\ CellOK' /\ NeverVisitedTwice'
  BY <1>2 DEF IInv, BlockOK, PlanOK, RowsOK, CellOK, NeverVisitedTwice
<1> QED  BY <1>6, <1>7, <1>8 DEF IInv

\* The diffs of a finished row can be merged.
LEMMA RowMerges ==
  ASSUME IInv, NEW r \in DOMAIN trees, NEW k \in 1..(Len(block) + 1), NEW d \in Diff,
         \A i \in ToSet(trees[r][k]) : result[i] # Pending
  PROVE  MergeOk(d, trees[r][k]) \in Diff
<1> DEFINE n == Len(block)
           t == trees[r][k]
<1>1. t \in Seq(1..n)
  BY DEF IInv, PlanOK, Planned
<1> HIDE DEF n, t
<1>2. Len(t) \in Nat /\ DOMAIN t = 1..Len(t) /\ \A m \in 1..Len(t) : t[m] \in 1..n
  BY <1>1, SeqElements
<1>3. ASSUME NEW m \in 1..Len(t) PROVE result[t[m]] = Failed \/ result[t[m]] \in Diff
  <2>1. t[m] \in ToSet(t) /\ t[m] \in 1..n
    BY <1>2 DEF ToSet
  <2>2. result[t[m]] # Pending
    BY <2>1 DEF t
  <2> QED  BY <2>1, <2>2 DEF IInv, ResultsOK, IsOutput, n
<1>4. Merged(result, d, t) \in Diff
  BY <1>2, <1>3, MergedOf
<1> QED  BY <1>4, MergeOkIsMerged DEF t

LEMMA FinishRowIInv ==
  ASSUME IInv, NEW r \in DOMAIN row, FinishRow(r) PROVE IInv'
<1> DEFINE n == Len(block)
           d == MergeOk(acc[r], trees[r][row[r].ix])
<1>1. /\ n \in Nat /\ r \in DOMAIN trees /\ acc \in [DOMAIN trees -> Diff]
      /\ row \in [DOMAIN trees -> [ix : 0..(n + 1), txs : SUBSET (1..n)]]
  BY DEF IInv, BlockOK, RowsOK
<1>2. /\ UNCHANGED <<state, height, block, graph, trees, cell, result, panicked>>
      /\ row[r].txs # {} /\ \A i \in row[r].txs : result[i] # Pending
      /\ acc' = [acc EXCEPT ![r] = d]
      /\ row' = [row EXCEPT ![r].txs = {}]
  BY DEF FinishRow
<1>3. row[r].ix \in 1..(n + 1) /\ row[r].txs = ToSet(trees[r][row[r].ix])
  BY <1>1, <1>2 DEF IInv, RowsOK
<1>4. d \in Diff
  BY <1>1, <1>2, <1>3, RowMerges
<1> HIDE DEF d, n
<1>5. acc' \in [DOMAIN trees' -> Diff]
  BY <1>1, <1>2, <1>4
<1>6. /\ row'[r] = [ix |-> row[r].ix, txs |-> {}]
      /\ \A q \in DOMAIN trees : q # r => row'[q] = row[q]
      /\ row' \in [DOMAIN trees -> [ix : 0..(n + 1), txs : SUBSET (1..n)]]
  BY <1>1, <1>2
<1>7. RowsOK'
  BY <1>1, <1>2, <1>6 DEF IInv, RowsOK, n
<1>8. CellOK'
  <2>1. \A q \in DOMAIN trees : row'[q].ix = row[q].ix
    BY <1>6
  <2> QED  BY <1>2, <2>1 DEF IInv, CellOK
<1>9. TakenOK'
  <2> SUFFICES ASSUME NEW q \in DOMAIN trees, NEW k \in 1..(n + 1), k <= row'[q].ix,
                      NEW j \in ToSet(trees[q][k])
               PROVE  result[j] # Pending \/ (k = row'[q].ix /\ j \in row'[q].txs)
    BY <1>2 DEF TakenOK, n
  <2>1. CASE q # r
    BY <1>6, <2>1 DEF IInv, TakenOK, n
  <2>2. CASE q = r
    <3>1. k <= row[r].ix
      BY <1>6, <2>2
    <3>2. result[j] # Pending \/ (k = row[r].ix /\ j \in row[r].txs)
      BY <2>2, <3>1 DEF IInv, TakenOK, n
    <3> QED  BY <1>2, <3>2
  <2> QED  BY <2>1, <2>2
<1>10. state' \in Store /\ BlockOK' /\ PlanOK' /\ ResultsOK' /\ NeverVisitedTwice'
  BY <1>2 DEF IInv, BlockOK, PlanOK, ResultsOK, NeverVisitedTwice
<1> QED  BY <1>5, <1>7, <1>8, <1>9, <1>10 DEF IInv

\* When every tree has run, every transaction has a result.
LEMMA AllRunResults == IInv => EveryTxHasResult
<1> SUFFICES ASSUME IInv, AllRun, NEW i \in DOMAIN block PROVE result[i] # Pending
  BY DEF EveryTxHasResult
<1> DEFINE n == Len(block)
<1>1. n \in Nat /\ i \in 1..n /\ Planned(n, trees) /\ DOMAIN row = DOMAIN trees
  BY DEF IInv, BlockOK, PlanOK, RowsOK
<1>2. PICK r \in DOMAIN trees, k \in 1..(n + 1) : i \in ToSet(trees[r][k])
  BY <1>1 DEF Planned
<1>3. row[r].ix \in 1..(n + 1) /\ trees[r][row[r].ix] = <<>>
  BY <1>1 DEF AllRun, TreeDone, IInv, RowsOK
<1>4. ToSet(trees[r][row[r].ix]) = {}
  BY <1>3, ShortSeqs
<1>5. k <= row[r].ix
  <2>1. \A j, m \in 1..(n + 1) : j <= m /\ trees[r][j] = <<>> => trees[r][m] = <<>>
    BY <1>1 DEF Planned
  <2>2. trees[r][k] # <<>>
    BY <1>2, ShortSeqs
  <2>3. ~(row[r].ix <= k)
    BY <1>3, <2>1, <2>2
  <2>4. k \in Nat /\ row[r].ix \in Nat
    BY <1>1, <1>3
  <2> QED  BY <2>3, <2>4
<1>6. result[i] # Pending \/ (k = row[r].ix /\ i \in row[r].txs)
  BY <1>2, <1>5 DEF IInv, TakenOK
<1> QED  BY <1>2, <1>4, <1>6

LEMMA CommitIInv == ASSUME IInv, Commit PROVE IInv'
<1> DEFINE n == Len(block)
           ixs == [i \in DOMAIN block |-> i]
<1>1. n \in Nat /\ DOMAIN block = 1..n
  BY DEF IInv, BlockOK
<1>2. AllRun
  BY DEF Commit, AllRun
<1>3. \A i \in 1..n : result[i] = Failed \/ result[i] \in Diff
  BY <1>1, <1>2, AllRunResults DEF EveryTxHasResult, IInv, ResultsOK, IsOutput
<1>4. ixs = [i \in 1..n |-> i] /\ Len(ixs) = n /\ \A i \in 1..n : ixs[i] = i
  BY <1>1
<1>5. EmptyDiff \in Diff
  BY DEF EmptyDiff, Diff, MaybeAccount
<1>6. BlockDiff = Merged(result, EmptyDiff, ixs)
  BY MergeOkIsMerged DEF BlockDiff
<1> HIDE DEF ixs, n
<1>7. BlockDiff \in Diff
  BY <1>1, <1>3, <1>4, <1>5, <1>6, MergedOf
<1>8. StoreApply(state, BlockDiff) \in Store
  <2> HIDE DEF BlockDiff
  <2> QED  BY <1>7 DEF IInv, StoreApply, Store, Diff, MaybeAccount
<1>9. /\ state' \in Store /\ block' = <<>> /\ trees' = <<>> /\ row' = <<>> /\ acc' = <<>>
      /\ result' = <<>> /\ panicked' = panicked
  BY <1>8 DEF Commit
<1>10. /\ Len(block') = 0 /\ DOMAIN block' = {} /\ DOMAIN trees' = {} /\ DOMAIN result' = {}
       /\ DOMAIN row' = {} /\ DOMAIN acc' = {} /\ 1..0 = {}
  BY <1>9
<1>11. BlockOK' /\ CellOK' /\ TakenOK' /\ ResultsOK'
  BY <1>9, <1>10 DEF BlockOK, CellOK, TakenOK, ResultsOK
<1>12. PlanOK'
  BY <1>10 DEF PlanOK, Planned
<1>13. acc' \in [DOMAIN trees' -> Diff] /\ RowsOK'
  BY <1>9, <1>10 DEF RowsOK
<1>14. NeverVisitedTwice'
  BY <1>9 DEF IInv, NeverVisitedTwice
<1> QED  BY <1>9, <1>11, <1>12, <1>13, <1>14 DEF IInv

LEMMA StutterIInv == IInv /\ UNCHANGED vars => IInv'
BY DEF IInv, vars, BlockOK, PlanOK, RowsOK, CellOK, TakenOK, ResultsOK, NeverVisitedTwice

LEMMA AlwaysIInv == Spec => []IInv
<1>1. ASSUME IInv, Next PROVE IInv'
  BY <1>1, StartBlockIInv, TakeRowIInv, RunTxIInv, FinishRowIInv, CommitIInv DEF Next
<1>2. IInv /\ [Next]_vars => IInv'
  BY <1>1, StutterIInv
<1> QED  BY <1>2, InitIInv, PTL DEF Spec

(***************************************************************************)
(* "transaction visited more than once" (schedule.rs:88) is unreachable,   *)
(* for every block and every interleaving of the workers: the trees that   *)
(* Schedule::roots and BfsRows find partition the block.                   *)
(***************************************************************************)
THEOREM NoTxVisitedTwice == Spec => []NeverVisitedTwice
<1>1. IInv => NeverVisitedTwice
  BY DEF IInv
<1> QED  BY <1>1, AlwaysIInv, PTL

(***************************************************************************)
(* When the last tree has run, every transaction of the block has a        *)
(* result: execute_many leaves none out (schedule.rs:34-36).               *)
(***************************************************************************)
THEOREM EveryTxGetsResult == Spec => []EveryTxHasResult
BY AllRunResults, AlwaysIInv, PTL

--------------------------------------------------------------------------------
(* The last writer in the order of merging decides.                        *)

\* Transaction i of block b succeeded and changes account a.
Wrote(b, res, i, a) == res[i] # Failed /\ a \in Writes(b[i])

\* What one output does to one address of a diff.
LEMMA MergeAt ==
  ASSUME NEW tx, NEW d \in Diff, NEW e, IsOutput(tx, e), NEW a \in Addr
  PROVE  /\ Merge(d, e) \in Diff
         /\ a \notin Writes(tx) => /\ Merge(d, e).upserts[a] = d.upserts[a]
                                   /\ a \in Merge(d, e).deletes <=> a \in d.deletes
         /\ a \in Writes(tx) => /\ Merge(d, e).upserts[a] = e.upserts[a]
                                /\ a \in Merge(d, e).deletes <=> a \in e.deletes
<1>1. /\ e \in Diff /\ e.deletes \subseteq Writes(tx)
      /\ a \in Writes(tx) /\ a \notin e.deletes => e.upserts[a] \in Account
      /\ ~(a \in Writes(tx) /\ a \notin e.deletes) => e.upserts[a] = NoAccount
  BY DEF IsOutput
<1>2. a \in Writes(tx) /\ a \notin e.deletes => e.upserts[a] # NoAccount
  BY <1>1, NoAccountAssumption
<1>3. Merge(d, e).upserts[a] = IF a \in e.deletes THEN NoAccount
                               ELSE IF e.upserts[a] # NoAccount THEN e.upserts[a]
                               ELSE d.upserts[a]
  BY DEF Merge
<1>4. a \in Merge(d, e).deletes
        <=> (a \in d.deletes /\ ~(e.upserts[a] # NoAccount)) \/ a \in e.deletes
  BY DEF Merge, Upserted
<1>5. Merge(d, e) \in Diff
  BY <1>1, MergeIsDiff
<1> QED  BY <1>1, <1>2, <1>3, <1>4, <1>5

\* What merging the results of ixs into d does to one address: nothing, or what the last
\* writer did.
MergedAt(b, res, d, ixs, N, a) ==
  /\ (\A k \in 1..N : ~Wrote(b, res, ixs[k], a))
       => /\ Merged(res, d, ixs).upserts[a] = d.upserts[a]
          /\ a \in Merged(res, d, ixs).deletes <=> a \in d.deletes
  /\ \A k \in 1..N :
       /\ Wrote(b, res, ixs[k], a)
       /\ \A m \in 1..N : Wrote(b, res, ixs[m], a) => m <= k
       => /\ Merged(res, d, ixs).upserts[a] = res[ixs[k]].upserts[a]
          /\ a \in Merged(res, d, ixs).deletes <=> a \in res[ixs[k]].deletes

LEMMA MergedLast ==
  ASSUME NEW b, NEW res, NEW d \in Diff, NEW ixs, NEW N \in Nat, N = Len(ixs),
         \A k \in 1..N : res[ixs[k]] = Failed \/ IsOutput(b[ixs[k]], res[ixs[k]]),
         NEW a \in Addr
  PROVE  MergedAt(b, res, d, ixs, N, a)
<1>1. \A k \in 1..N : res[ixs[k]] = Failed \/ res[ixs[k]] \in Diff
  BY DEF IsOutput
<1>2. PICK f : MergeSteps(f, N, res, d, ixs) /\ Merged(res, d, ixs) = f[N]
  <2>1. MergedInSteps(N, res, d, ixs)
    BY <1>1, MergedOf
  <2> QED  BY <2>1 DEF MergedInSteps
<1> DEFINE w(k) == Wrote(b, res, ixs[k], a)
           Same(k, e) == f[k].upserts[a] = e.upserts[a] /\ (a \in f[k].deletes <=> a \in e.deletes)
<1>3. ASSUME NEW k \in 1..N
      PROVE  /\ k - 1 \in 0..N
             /\ ~w(k) => Same(k, f[k - 1])
             /\ w(k) => Same(k, res[ixs[k]])
  <2>0. k - 1 \in 0..N
    OBVIOUS
  <2>1. f[k - 1] \in Diff
    BY <1>2, <2>0 DEF MergeSteps
  <2>2. f[k] = IF res[ixs[k]] = Failed THEN f[k - 1] ELSE Merge(f[k - 1], res[ixs[k]])
    BY <1>2 DEF MergeSteps
  <2>3. CASE res[ixs[k]] = Failed
    BY <2>0, <2>2, <2>3 DEF Wrote
  <2>4. CASE res[ixs[k]] # Failed
    <3>1. IsOutput(b[ixs[k]], res[ixs[k]]) /\ f[k] = Merge(f[k - 1], res[ixs[k]])
      BY <2>2, <2>4
    <3> QED  BY <2>0, <2>1, <2>4, <3>1, MergeAt DEF Wrote
  <2> QED  BY <2>3, <2>4
<1>4. f[0] = d
  BY <1>2 DEF MergeSteps
<1> HIDE DEF w
<1> DEFINE P(k) == /\ (\A m \in 1..k : ~w(m)) => Same(k, d)
                   /\ \A m \in 1..k : w(m) /\ (\A l \in 1..k : w(l) => l <= m) => Same(k, res[ixs[m]])
           S == {k \in Nat : k <= N => P(k)}
<1>5. ASSUME NEW k \in Nat, \A m \in 0..(k - 1) : m \in S PROVE k \in S
  <2> SUFFICES ASSUME k <= N PROVE P(k)
    OBVIOUS
  <2>1. CASE k = 0
    <3>1. 1..k = {}
      BY <2>1
    <3> QED  BY <1>4, <2>1, <3>1
  <2>2. CASE k # 0
    <3>1. k \in 1..N /\ k - 1 \in 0..(k - 1) /\ k - 1 <= N /\ k \in 1..k
      BY <2>2
    <3>2. P(k - 1)
      BY <1>5, <3>1
    <3>3. \A m \in 1..k : m = k \/ m \in 1..(k - 1)
      OBVIOUS
    <3>4. \A m \in 1..(k - 1) : m \in 1..k /\ m <= k /\ ~(k <= m)
      OBVIOUS
    <3>5. CASE w(k)
      <4>1. Same(k, res[ixs[k]])
        BY <1>3, <3>1, <3>5
      <4>2. \A m \in 1..k : (\A l \in 1..k : w(l) => l <= m) => m = k
        BY <3>1, <3>3, <3>4, <3>5
      <4> HIDE DEF Same
      <4> QED  BY <3>1, <3>5, <4>1, <4>2
    <3>6. CASE ~w(k)
      <4>1. Same(k, f[k - 1])
        BY <1>3, <3>1, <3>6
      <4>2. ASSUME \A m \in 1..k : ~w(m) PROVE Same(k, d)
        <5>1. Same(k - 1, d)
          BY <3>2, <3>4, <4>2
        <5> QED  BY <4>1, <5>1
      <4>3. ASSUME NEW m \in 1..k, w(m), \A l \in 1..k : w(l) => l <= m
            PROVE  Same(k, res[ixs[m]])
        <5>1. m \in 1..(k - 1)
          BY <3>3, <3>6, <4>3
        <5>2. \A l \in 1..(k - 1) : w(l) => l <= m
          BY <3>4, <4>3
        <5>3. Same(k - 1, res[ixs[m]])
          BY <3>2, <4>3, <5>1, <5>2
        <5> QED  BY <4>1, <5>3
      <4> QED  BY <4>2, <4>3
    <3> QED  BY <3>5, <3>6
  <2> QED  BY <2>1, <2>2
<1>6. \A k \in Nat : k \in S
  <2> HIDE DEF S
  <2> QED  BY <1>5, StrongInduction
<1>7. P(N)
  <2>1. N \in S
    <3> HIDE DEF S
    <3> QED  BY <1>6
  <2> QED  BY <2>1
<1> QED  BY <1>2, <1>7 DEF w, MergedAt

\* A set of positions that has an element has a greatest one.
LEMMA GreatestPosition ==
  ASSUME NEW n \in Nat, NEW W, W \subseteq 1..n, W # {}
  PROVE  /\ \E m \in W : \A j \in W : j <= m
         /\ Max(W) \in W /\ \A j \in W : j <= Max(W)
<1> DEFINE T == {n - j : j \in W}
<1>1. T \subseteq Nat /\ T # {}
  <2>1. \A j \in W : n - j \in Nat
    OBVIOUS
  <2>2. PICK j \in W : TRUE
    OBVIOUS
  <2>3. n - j \in T
    OBVIOUS
  <2> QED  BY <2>1, <2>3
<1>2. PICK x \in T : \A y \in T : x <= y
  <2> HIDE DEF T
  <2> QED  BY <1>1, LeastNatural
<1>3. PICK m \in W : x = n - m
  OBVIOUS
<1>4. \A j \in W : j <= m
  <2> SUFFICES ASSUME NEW j \in W PROVE j <= m
    OBVIOUS
  <2>1. n - m <= n - j
    BY <1>2, <1>3
  <2> QED  BY <2>1
<1>5. \A j \in W : m >= j
  BY <1>4
<1>6. Max(W) \in W /\ \A j \in W : Max(W) >= j
  BY <1>5 DEF Max
<1>7. \A j \in W : j <= Max(W)
  BY <1>6
<1> QED  BY <1>4, <1>6, <1>7

\* What the block's diff leaves of one account.
LEMMA BlockDiffAt ==
  ASSUME IInv, AllRun, NEW a \in Addr
  PROVE  LET n == Len(block) IN
         /\ (\A i \in 1..n : ~Wrote(block, result, i, a)) => StoreApply(state, BlockDiff)[a] = state[a]
         /\ \A i \in 1..n :
              Wrote(block, result, i, a) /\ (\A j \in 1..n : Wrote(block, result, j, a) => j <= i)
              => StoreApply(state, BlockDiff)[a] = result[i].upserts[a]
<1> DEFINE n == Len(block)
           ixs == [i \in DOMAIN block |-> i]
<1>1. n \in Nat /\ DOMAIN block = 1..n
  BY DEF IInv, BlockOK
<1>2. \A i \in 1..n : result[i] = Failed \/ IsOutput(block[i], result[i])
  BY <1>1, AllRunResults DEF EveryTxHasResult, IInv, ResultsOK
<1>3. ixs = [i \in 1..n |-> i] /\ Len(ixs) = n /\ \A i \in 1..n : ixs[i] = i
  BY <1>1
<1>4. /\ EmptyDiff \in Diff /\ EmptyDiff.upserts[a] = NoAccount /\ a \notin EmptyDiff.deletes
  BY DEF EmptyDiff, Diff, MaybeAccount
<1>5. BlockDiff = Merged(result, EmptyDiff, ixs)
  BY MergeOkIsMerged DEF BlockDiff
<1> HIDE DEF ixs
<1>6. /\ (\A k \in 1..n : ~Wrote(block, result, ixs[k], a))
           => /\ BlockDiff.upserts[a] = EmptyDiff.upserts[a]
              /\ a \in BlockDiff.deletes <=> a \in EmptyDiff.deletes
      /\ \A k \in 1..n :
           /\ Wrote(block, result, ixs[k], a)
           /\ \A m \in 1..n : Wrote(block, result, ixs[m], a) => m <= k
           => /\ BlockDiff.upserts[a] = result[ixs[k]].upserts[a]
              /\ a \in BlockDiff.deletes <=> a \in result[ixs[k]].deletes
  <2>1. \A k \in 1..n : result[ixs[k]] = Failed \/ IsOutput(block[ixs[k]], result[ixs[k]])
    BY <1>2, <1>3
  <2> HIDE DEF n, BlockDiff
  <2>2. MergedAt(block, result, EmptyDiff, ixs, n, a)
    BY <1>1, <1>3, <1>4, <2>1, MergedLast
  <2> QED  BY <1>5, <2>2 DEF MergedAt
<1>7. StoreApply(state, BlockDiff)[a] = IF a \in BlockDiff.deletes THEN NoAccount
                                        ELSE IF BlockDiff.upserts[a] # NoAccount
                                             THEN BlockDiff.upserts[a] ELSE state[a]
  BY DEF StoreApply
<1> HIDE DEF BlockDiff
<1>8. ASSUME \A i \in 1..n : ~Wrote(block, result, i, a)
      PROVE  StoreApply(state, BlockDiff)[a] = state[a]
  BY <1>3, <1>4, <1>6, <1>7, <1>8
<1>9. ASSUME NEW i \in 1..n, Wrote(block, result, i, a),
             \A j \in 1..n : Wrote(block, result, j, a) => j <= i
      PROVE  StoreApply(state, BlockDiff)[a] = result[i].upserts[a]
  <2>1. /\ BlockDiff.upserts[a] = result[i].upserts[a]
        /\ a \in BlockDiff.deletes <=> a \in result[i].deletes
    BY <1>3, <1>6, <1>9
  <2>2. IsOutput(block[i], result[i]) /\ a \in Writes(block[i])
    BY <1>2, <1>9 DEF Wrote
  <2>3. IF a \in result[i].deletes THEN result[i].upserts[a] = NoAccount
        ELSE result[i].upserts[a] # NoAccount
    BY <2>2, NoAccountAssumption DEF IsOutput
  <2> QED  BY <1>7, <2>1, <2>3
<1> QED  BY <1>8, <1>9

(***************************************************************************)
(* An account the block changes ends as its last successful writer in      *)
(* block order left it (schedule.rs:163, builder.rs:114-118), for every    *)
(* block and every interleaving of the workers, whatever the trees.        *)
(***************************************************************************)
THEOREM LastWriterDecides == Spec => []LastWriterWins
<1>1. IInv => LastWriterWins
  <2> SUFFICES ASSUME IInv, AllRun, NEW a \in Addr
               PROVE  LET writers == {i \in DOMAIN block :
                                        /\ result[i] \notin {Failed, Pending}
                                        /\ a \in Writes(block[i])}
                      IN writers # {} =>
                           StoreApply(state, BlockDiff)[a] = result[Max(writers)].upserts[a]
    BY DEF LastWriterWins
  <2> DEFINE writers == {i \in DOMAIN block :
                           /\ result[i] \notin {Failed, Pending}
                           /\ a \in Writes(block[i])}
             n == Len(block)
  <2>1. n \in Nat /\ DOMAIN block = 1..n
    BY DEF IInv, BlockOK
  <2>2. \A i \in 1..n : result[i] # Pending
    BY <2>1, AllRunResults DEF EveryTxHasResult
  <2>3. \A i \in 1..n : i \in writers <=> Wrote(block, result, i, a)
    BY <2>1, <2>2 DEF Wrote
  <2>4. writers \subseteq 1..n
    BY <2>1
  <2> HIDE DEF writers
  <2>5. ASSUME writers # {}
        PROVE  StoreApply(state, BlockDiff)[a] = result[Max(writers)].upserts[a]
    <3>1. Max(writers) \in writers /\ \A j \in writers : j <= Max(writers)
      BY <2>1, <2>4, <2>5, GreatestPosition
    <3>2. Max(writers) \in 1..n
      BY <2>4, <3>1
    <3>3. /\ Wrote(block, result, Max(writers), a)
          /\ \A j \in 1..n : Wrote(block, result, j, a) => j <= Max(writers)
      BY <2>3, <3>1, <3>2
    <3> QED  BY <3>2, <3>3, BlockDiffAt
  <2> QED  BY <2>5 DEF writers
<1> QED  BY <1>1, AlwaysIInv, PTL

--------------------------------------------------------------------------------
(* What a transaction asks the view for decides its result.                *)

LEMMA PredicateIn ==
  ASSUME NEW tx, NEW u, NEW p
  PROVE  p \in PredicatesOf(tx, u)
           <=> \/ p \in tx.intents
               \/ \E a \in UNION {Guards(w) : w \in Writes(tx)} :
                    Exists(u, a) /\ p \in u[a].preds
BY DEF PredicatesOf

LEMMA TouchedIs ==
  ASSUME NEW tx, NEW u, NEW a
  PROVE  a \in Touched(tx, u) <=> \/ a \in UNION {Guards(w) : w \in Writes(tx)}
                                  \/ a \in AccountRefs(PredicatesOf(tx, u))
BY DEF Touched

\* Predicates of equal accounts are equal, and accept alike.
LEMMA ExecuteLocal ==
  ASSUME NEW tx, NEW v, NEW w, \A a \in Touched(tx, w) : v[a] = w[a]
  PROVE  Execute(tx, v) = Execute(tx, w)
<1> DEFINE G == UNION {Guards(a) : a \in Writes(tx)}
<1>1. \A a \in G : v[a] = w[a]
  BY TouchedIs
<1>2. \A a \in Writes(tx) : v[a] = w[a]
  <2>1. \A a \in Writes(tx) : a \in G
    BY DEF Guards
  <2> HIDE DEF G
  <2> QED  BY <1>1, <2>1
<1>3. OutputsOk(tx, v) = OutputsOk(tx, w)
  BY <1>2 DEF OutputsOk, Exists
<1>4. Outputs(tx, v) = Outputs(tx, w)
  <2>1. \A a \in Writes(tx) : Changed(tx.proposals[a], v[a]) = Changed(tx.proposals[a], w[a])
    BY <1>2
  <2> QED  BY <2>1 DEF Outputs
<1>5. PredicatesOf(tx, v) = PredicatesOf(tx, w)
  <2>1. \A a \in G : Exists(v, a) = Exists(w, a) /\ v[a].preds = w[a].preds
    BY <1>1 DEF Exists
  <2>2. \A u, p : p \in PredicatesOf(tx, u)
                    <=> p \in tx.intents \/ \E a \in G : Exists(u, a) /\ p \in u[a].preds
    BY PredicateIn
  <2> HIDE DEF G
  <2>3. \A p : p \in PredicatesOf(tx, v) <=> p \in PredicatesOf(tx, w)
    BY <2>1, <2>2
  <2> QED  BY <2>3
<1>6. ASSUME NEW p \in PredicatesOf(tx, w) PROVE Accepts(p, tx, v) = Accepts(p, tx, w)
  <2> DEFINE Q == PredicatesOf(tx, w)
  <2>1. \A a \in AccountRefs(Q) : v[a] = w[a]
    BY TouchedIs
  <2> HIDE DEF Q
  <2>2. p.code # Inline => p.code \in AccountRefs(Q)
    BY DEF AccountRefs, Q
  <2>3. p.param.kind = "AccountRef" => p.param.addr \in AccountRefs(Q)
    BY DEF AccountRefs, Q
  <2>4. p.code # Inline => v[p.code] = w[p.code]
    BY <2>1, <2>2
  <2>5. p.param.kind = "AccountRef" => v[p.param.addr] = w[p.param.addr]
    BY <2>1, <2>3
  <2> QED  BY <2>4, <2>5 DEF Accepts, Exists
<1>7. (\A p \in PredicatesOf(tx, v) : Accepts(p, tx, v))
        <=> (\A p \in PredicatesOf(tx, w) : Accepts(p, tx, w))
  BY <1>5, <1>6
<1> QED  BY <1>3, <1>4, <1>7 DEF Execute

LEMMA TouchedInAddr ==
  ASSUME NEW tx, WellFormed(tx), NEW view \in Store
  PROVE  Touched(tx, view) \subseteq Addr
<1> DEFINE G == UNION {Guards(a) : a \in Writes(tx)}
<1>1. G \subseteq Addr
  BY ScheduleAssumption DEF WellFormed, Guards
<1>2. ASSUME NEW p \in PredicatesOf(tx, view)
      PROVE  \E Q : p \in Q /\ AccountRefs(Q) \subseteq Addr
  <2>1. CASE p \in tx.intents
    BY <2>1 DEF WellFormed
  <2>2. CASE p \notin tx.intents
    <3>1. PICK a \in G : Exists(view, a) /\ p \in view[a].preds
      BY <2>2, PredicateIn
    <3>2. view[a] \in Account
      BY <1>1, <3>1 DEF Exists, Store, MaybeAccount
    <3> QED  BY <3>1, <3>2, ScheduleAssumption
  <2> QED  BY <2>1, <2>2
<1>3. \A Q : \A p \in Q : /\ p.code # Inline => p.code \in AccountRefs(Q)
                          /\ p.param.kind = "AccountRef" => p.param.addr \in AccountRefs(Q)
  BY DEF AccountRefs
<1>4. ASSUME NEW x \in AccountRefs(PredicatesOf(tx, view)) PROVE x \in Addr
  <2>1. PICK p \in PredicatesOf(tx, view) : \/ p.code # Inline /\ x = p.code
                                            \/ p.param.kind = "AccountRef" /\ x = p.param.addr
    BY DEF AccountRefs
  <2>2. PICK Q : p \in Q /\ AccountRefs(Q) \subseteq Addr
    BY <1>2
  <2>3. x \in AccountRefs(Q)
    BY <1>3, <2>1, <2>2
  <2> QED  BY <2>2, <2>3
<1> QED  BY <1>1, <1>4, TouchedIs

--------------------------------------------------------------------------------
(* The block executed in order.                                            *)

\* The states and the results of executing the first N transactions of b in order.
SerialSteps(b, s, N, st, out) ==
  /\ st \in [0..N -> Store] /\ st[0] = s
  /\ out \in [1..N -> Diff \cup {Failed}]
  /\ \A i \in 1..N :
       /\ out[i] = Execute(b[i], st[i - 1])
       /\ out[i] = Failed \/ IsOutput(b[i], out[i])
       /\ st[i] = IF out[i] = Failed THEN st[i - 1] ELSE StoreApply(st[i - 1], out[i])

LEMMA StoreApplyIsStore ==
  ASSUME NEW s \in Store, NEW d \in Diff PROVE StoreApply(s, d) \in Store
BY DEF StoreApply, Store, Diff, MaybeAccount

LEMMA SerialRunOf ==
  ASSUME NEW b, NEW s \in Store, NEW N \in Nat, N = Len(b),
         \A i \in 1..N : WellFormed(b[i])
  PROVE  \E st, out : /\ SerialSteps(b, s, N, st, out)
                      /\ \A i \in 0..N : SerialRun(b, s)[i].st = st[i]
                      /\ SerialRun(b, s)[N].res = out
<1> DEFINE O == Diff \cup {Failed}
           X(f, i) == Execute(b[i], f[i - 1].st)
           B(f, i) == IF i = 0 THEN [st |-> s, res |-> <<>>]
                      ELSE [st  |-> IF X(f, i) = Failed THEN f[i - 1].st
                                    ELSE StoreApply(f[i - 1].st, X(f, i)),
                            res |-> Append(f[i - 1].res, X(f, i))]
           I == 0..N
           V == [st : Store, res : Seq(O)]
           D == [p \in [I -> V] \X I |-> B(p[1], p[2])]
<1>a. \A v \in V : v.st \in Store /\ v.res \in Seq(O)
  OBVIOUS
<1>b. \A x \in Store, y \in Seq(O) : [st |-> x, res |-> y] \in V
  OBVIOUS
<1>c. <<>> \in Seq(O)
  OBVIOUS
<1>d. \A y \in Seq(O), e \in O : Append(y, e) \in Seq(O)
  BY AppendProperties
<1>e. \A i \in 1..N : \A v \in Store : Execute(b[i], v) \in O
                                       /\ (Execute(b[i], v) = Failed \/ IsOutput(b[i], Execute(b[i], v)))
  BY ExecuteOutput DEF IsOutput
<1>f. \A e \in O : e # Failed => e \in Diff
  OBVIOUS
<1> HIDE DEF O, V
<1>0. I \subseteq 0..N /\ V # {} /\ N \in I /\ \A m \in I : m \in Nat
  <2>1. [st |-> s, res |-> <<>>] \in V
    BY <1>b, <1>c
  <2>2. I \subseteq 0..N /\ N \in I /\ \A m \in I : m \in Nat
    OBVIOUS
  <2> HIDE DEF I
  <2> QED  BY <2>1, <2>2
<1>1. ASSUME NEW f, NEW i \in I, i # 0 => f[i - 1] \in V
      PROVE  B(f, i) \in V
  <2>1. CASE i = 0
    BY <1>b, <1>c, <2>1
  <2>2. CASE i # 0
    <3>1. i \in 1..N /\ f[i - 1].st \in Store /\ f[i - 1].res \in Seq(O)
      BY <1>1, <1>a, <2>2
    <3>2. X(f, i) \in O
      BY <1>e, <3>1
    <3>3. Append(f[i - 1].res, X(f, i)) \in Seq(O)
      BY <1>d, <3>1, <3>2
    <3>4. (IF X(f, i) = Failed THEN f[i - 1].st ELSE StoreApply(f[i - 1].st, X(f, i))) \in Store
      BY <1>f, <3>1, <3>2, StoreApplyIsStore
    <3> HIDE DEF X
    <3> QED  BY <1>b, <2>2, <3>3, <3>4
  <2> QED  BY <2>1, <2>2
<1>2. ASSUME NEW f, NEW h, NEW k \in I, \A m \in I : m < k => f[m] = h[m]
      PROVE  B(f, k) = B(h, k)
  <2>1. k # 0 => f[k - 1] = h[k - 1]
    <3>1. k # 0 => k - 1 \in I /\ k - 1 < k
      OBVIOUS
    <3> QED  BY <1>2, <3>1
  <2> QED  BY <2>1
<1>2a. \A k \in I : k # 0 => k - 1 \in I
  OBVIOUS
<1> HIDE DEF B, I
<1>3. D \in [[I -> V] \X I -> V]
  <2>1. ASSUME NEW f \in [I -> V], NEW k \in I PROVE B(f, k) \in V
    BY <1>1, <1>2a
  <2> QED  BY <2>1
<1>4. \A f \in [I -> V], m \in I : D[<<f, m>>] = B(f, m)
  OBVIOUS
<1> HIDE DEF D
<1>5. PICK f \in [I -> V] : \A m \in I : f[m] = D[<<f, m>>]
  <2>1. Progressive(D, I, V)
    BY <1>2, <1>3, <1>4 DEF Progressive
  <2>2. PICK f : Solution(D, I, V, f)
    BY <1>0, <2>1, RecursiveFunction
  <2> QED  BY <2>2 DEF Solution
<1>6. f = [m \in I |-> B(f, m)]
  BY <1>4, <1>5
<1> DEFINE run == CHOOSE h : h = [m \in I |-> B(h, m)]
<1>7. run = [m \in I |-> B(run, m)]
  BY <1>6
<1>8. SerialRun(b, s) = run
  BY DEF SerialRun, I, B, X
<1> HIDE DEF run
<1>9. \A m \in I : run[m] = B(run, m)
  BY <1>7
<1> DEFINE out == [j \in 1..N |-> X(run, j)]
           P(k) == /\ run[k] \in V /\ Len(run[k].res) = k
                   /\ \A j \in 1..k : run[k].res[j] = out[j]
           S == {k \in Nat : k \in I => P(k)}
<1>10. ASSUME NEW k \in 1..N
       PROVE  /\ k \in I /\ k # 0
              /\ run[k].st = IF X(run, k) = Failed THEN run[k - 1].st
                             ELSE StoreApply(run[k - 1].st, X(run, k))
              /\ run[k].res = Append(run[k - 1].res, X(run, k))
  <2>1. k \in I /\ k # 0
    BY DEF I
  <2> HIDE DEF X
  <2>2. run[k] = [st  |-> IF X(run, k) = Failed THEN run[k - 1].st
                          ELSE StoreApply(run[k - 1].st, X(run, k)),
                  res |-> Append(run[k - 1].res, X(run, k))]
    BY <1>9, <2>1 DEF B
  <2> QED  BY <2>1, <2>2
<1>11. ASSUME NEW k \in Nat, \A m \in 0..(k - 1) : m \in S PROVE k \in S
  <2> SUFFICES ASSUME k \in I PROVE P(k)
    OBVIOUS
  <2>1. CASE k = 0
    <3>1. run[k] = [st |-> s, res |-> <<>>]
      BY <1>9, <2>1 DEF B
    <3>2. 1..k = {} /\ Len(<<>>) = 0
      BY <2>1
    <3>3. [st |-> s, res |-> <<>>] \in V
      BY <1>b, <1>c
    <3>4. run[k] \in V
      BY <3>1, <3>3
    <3>5. run[k].res = <<>>
      BY <3>1
    <3> QED  BY <2>1, <3>2, <3>4, <3>5
  <2>2. CASE k # 0
    <3>1. k - 1 \in 0..(k - 1) /\ k - 1 \in I /\ k \in 1..N /\ k - 1 \in Nat
      BY <2>2 DEF I
    <3>2. P(k - 1)
      BY <1>11, <3>1
    <3>3. run[k] \in V
      BY <1>1, <1>9, <3>2
    <3>4. run[k - 1].res \in Seq(O) /\ run[k - 1].st \in Store
      BY <1>a, <3>2
    <3>5. X(run, k) \in O
      BY <1>e, <3>1, <3>4
    <3>6. run[k].res = Append(run[k - 1].res, X(run, k))
      BY <1>10, <3>1
    <3> DEFINE t == run[k - 1].res
               e == X(run, k)
    <3> HIDE DEF t, e
    <3>7. Len(t) = k - 1 /\ t \in Seq(O) /\ e \in O
      BY <3>2, <3>4, <3>5 DEF t, e
    <3>8. /\ Len(Append(t, e)) = k
          /\ Append(t, e)[k] = e
          /\ \A j \in 1..(k - 1) : Append(t, e)[j] = t[j]
      <4>1. /\ Len(Append(t, e)) = Len(t) + 1 /\ Append(t, e)[Len(t) + 1] = e
            /\ \A j \in 1..Len(t) : Append(t, e)[j] = t[j]
        BY <3>7, AppendProperties
      <4>2. Len(t) + 1 = k /\ 1..Len(t) = 1..(k - 1)
        BY <3>1, <3>7
      <4> QED  BY <4>1, <4>2
    <3>9. Len(run[k].res) = k
      BY <3>6, <3>8 DEF t, e
    <3>10. ASSUME NEW j \in 1..k PROVE run[k].res[j] = out[j]
      <4>1. CASE j = k
        <5>1. out[k] = X(run, k)
          BY <3>1
        <5> QED  BY <3>6, <3>8, <4>1, <5>1 DEF t, e
      <4>2. CASE j # k
        <5>1. j \in 1..(k - 1)
          BY <4>2
        <5>2. t[j] = out[j]
          BY <3>2, <5>1 DEF t
        <5> QED  BY <3>6, <3>8, <5>1, <5>2 DEF t, e
      <4> QED  BY <4>1, <4>2
    <3> QED  BY <3>3, <3>9, <3>10
  <2> QED  BY <2>1, <2>2
<1>12. \A k \in Nat : k \in S
  <2> HIDE DEF S
  <2> QED  BY <1>11, StrongInduction
<1>13. \A k \in I : P(k)
  <2> HIDE DEF P
  <2> QED  BY <1>0, <1>12
<1> DEFINE st == [i \in 0..N |-> run[i].st]
<1>14. /\ \A i \in 0..N : st[i] = run[i].st /\ run[i].st \in Store
       /\ st \in [0..N -> Store]
  <2>1. \A i \in 0..N : run[i] \in V
    BY <1>13 DEF I
  <2>2. \A i \in 0..N : run[i].st \in Store
    BY <1>a, <2>1
  <2> QED  BY <2>2
<1>15. run[0].st = s
  <2>1. 0 \in I
    BY DEF I
  <2>2. run[0] = [st |-> s, res |-> <<>>]
    BY <1>9, <2>1 DEF B
  <2> QED  BY <2>2
<1>16. ASSUME NEW i \in 1..N
       PROVE  /\ out[i] = Execute(b[i], st[i - 1]) /\ out[i] \in O
              /\ out[i] = Failed \/ IsOutput(b[i], out[i])
              /\ st[i] = IF out[i] = Failed THEN st[i - 1] ELSE StoreApply(st[i - 1], out[i])
  <2>1. i \in 0..N /\ i - 1 \in 0..N
    OBVIOUS
  <2>2. out[i] = X(run, i)
    OBVIOUS
  <2>3. st[i] = run[i].st /\ st[i - 1] = run[i - 1].st /\ run[i - 1].st \in Store
    BY <1>14, <2>1
  <2>4. X(run, i) = Execute(b[i], st[i - 1])
    BY <2>3
  <2>5. X(run, i) \in O /\ (X(run, i) = Failed \/ IsOutput(b[i], X(run, i)))
    BY <1>e, <2>3, <2>4
  <2>6. run[i].st = IF X(run, i) = Failed THEN run[i - 1].st
                    ELSE StoreApply(run[i - 1].st, X(run, i))
    BY <1>10
  <2> HIDE DEF X, st, out
  <2> QED  BY <2>2, <2>3, <2>4, <2>5, <2>6
<1>17. out \in [1..N -> O]
  <2>1. \A i \in 1..N : out[i] \in O
    BY <1>16
  <2> HIDE DEF X
  <2> QED  BY <2>1
<1>18. run[N].res = out
  <2>1. P(N)
    BY <1>0, <1>13
  <2>2. run[N].res \in Seq(O)
    BY <1>a, <2>1
  <2> DEFINE t == run[N].res
  <2>3. t \in Seq(O) /\ Len(t) = N /\ \A j \in 1..N : t[j] = out[j]
    BY <2>1, <2>2
  <2> HIDE DEF t, out
  <2>4. t \in [1..N -> O]
    BY <2>3
  <2>5. t = out
    BY <1>17, <2>3, <2>4
  <2> QED  BY <2>5 DEF t
<1> HIDE DEF st, out
<1>19. st[0] = s
  <2>1. 0 \in 0..N
    OBVIOUS
  <2> QED  BY <1>14, <1>15, <2>1
<1>20. SerialSteps(b, s, N, st, out)
  BY <1>14, <1>16, <1>17, <1>19 DEF SerialSteps, O
<1>21. \A i \in 0..N : SerialRun(b, s)[i].st = st[i]
  BY <1>8, <1>14
<1> QED  BY <1>8, <1>18, <1>20, <1>21

\* The state after the first i transactions has account a as its last writer among
\* them left it, or as it was.
LeftAt(b, s, st, out, i, a) ==
  /\ (\A j \in 1..i : ~Wrote(b, out, j, a)) => st[i][a] = s[a]
  /\ \A j \in 1..i :
       Wrote(b, out, j, a) /\ (\A m \in 1..i : Wrote(b, out, m, a) => m <= j)
       => st[i][a] = out[j].upserts[a]

LEMMA SerialAt ==
  ASSUME NEW b, NEW s, NEW N \in Nat, NEW st, NEW out, SerialSteps(b, s, N, st, out),
         NEW a \in Addr, NEW i \in 0..N
  PROVE  LeftAt(b, s, st, out, i, a)
<1> DEFINE w(j) == Wrote(b, out, j, a)
           P(k) == /\ (\A j \in 1..k : ~w(j)) => st[k][a] = s[a]
                   /\ \A j \in 1..k : w(j) /\ (\A m \in 1..k : w(m) => m <= j)
                                      => st[k][a] = out[j].upserts[a]
           S == {k \in Nat : k <= N => P(k)}
<1>1. ASSUME NEW k \in 1..N
      PROVE  /\ ~w(k) => st[k][a] = st[k - 1][a]
             /\ w(k) => st[k][a] = out[k].upserts[a]
  <2>1. /\ st[k] = IF out[k] = Failed THEN st[k - 1] ELSE StoreApply(st[k - 1], out[k])
        /\ out[k] = Failed \/ IsOutput(b[k], out[k])
    BY DEF SerialSteps
  <2>2. CASE out[k] = Failed
    BY <2>1, <2>2 DEF Wrote
  <2>3. CASE out[k] # Failed
    <3>1. IsOutput(b[k], out[k]) /\ st[k] = StoreApply(st[k - 1], out[k])
      BY <2>1, <2>3
    <3>2. st[k][a] = IF a \in out[k].deletes THEN NoAccount
                     ELSE IF out[k].upserts[a] # NoAccount THEN out[k].upserts[a]
                     ELSE st[k - 1][a]
      BY <3>1 DEF StoreApply
    <3>3. /\ a \in out[k].deletes => a \in Writes(b[k]) /\ out[k].upserts[a] = NoAccount
          /\ a \in Writes(b[k]) /\ a \notin out[k].deletes => out[k].upserts[a] # NoAccount
          /\ a \notin Writes(b[k]) => out[k].upserts[a] = NoAccount
      BY <3>1, NoAccountAssumption DEF IsOutput
    <3> QED  BY <2>3, <3>2, <3>3 DEF Wrote
  <2> QED  BY <2>2, <2>3
<1> HIDE DEF w
<1>2. ASSUME NEW k \in Nat, \A m \in 0..(k - 1) : m \in S PROVE k \in S
  <2> SUFFICES ASSUME k <= N PROVE P(k)
    OBVIOUS
  <2>1. CASE k = 0
    <3>1. 1..k = {} /\ st[k] = s
      BY <2>1 DEF SerialSteps
    <3> QED  BY <3>1
  <2>2. CASE k # 0
    <3>1. k \in 1..N /\ k - 1 \in 0..(k - 1) /\ k - 1 <= N /\ k \in 1..k
      BY <2>2
    <3>2. P(k - 1)
      BY <1>2, <3>1
    <3>3. \A m \in 1..k : m = k \/ m \in 1..(k - 1)
      OBVIOUS
    <3>4. \A m \in 1..(k - 1) : m \in 1..k /\ m <= k /\ ~(k <= m)
      OBVIOUS
    <3>5. CASE w(k)
      <4>1. st[k][a] = out[k].upserts[a]
        BY <1>1, <3>1, <3>5
      <4>2. \A m \in 1..k : (\A l \in 1..k : w(l) => l <= m) => m = k
        BY <3>1, <3>3, <3>4, <3>5
      <4> QED  BY <3>1, <3>5, <4>1, <4>2
    <3>6. CASE ~w(k)
      <4>1. st[k][a] = st[k - 1][a]
        BY <1>1, <3>1, <3>6
      <4>2. ASSUME \A m \in 1..k : ~w(m) PROVE st[k][a] = s[a]
        BY <3>2, <3>4, <4>1, <4>2
      <4>3. ASSUME NEW m \in 1..k, w(m), \A l \in 1..k : w(l) => l <= m
            PROVE  st[k][a] = out[m].upserts[a]
        <5>1. m \in 1..(k - 1)
          BY <3>3, <3>6, <4>3
        <5>2. \A l \in 1..(k - 1) : w(l) => l <= m
          BY <3>4, <4>3
        <5> QED  BY <3>2, <4>1, <4>3, <5>1, <5>2
      <4> QED  BY <4>2, <4>3
    <3> QED  BY <3>5, <3>6
  <2> QED  BY <2>1, <2>2
<1>3. \A k \in Nat : k \in S
  <2> HIDE DEF S
  <2> QED  BY <1>2, StrongInduction
<1>4. P(i)
  <2>1. i \in Nat /\ i <= N
    OBVIOUS
  <2>2. i \in S
    <3> HIDE DEF S
    <3> QED  BY <1>3, <2>1
  <2> QED  BY <2>1, <2>2
<1> QED  BY <1>4 DEF w, LeftAt

--------------------------------------------------------------------------------
(* The place of a transaction in its tree.                                 *)

\* A tree starts at its root, and each node of a later row follows one of the row
\* before.
Linked(n, g, T) ==
  \A r \in DOMAIN T :
    /\ r \in 1..n /\ ToSet(T[r][1]) = {r} /\ \A j \in 1..n : <<j, r>> \notin g
    /\ \A k \in 2..(n + 1) : \A j \in ToSet(T[r][k]) :
         \E i \in ToSet(T[r][k - 1]) : <<i, j>> \in g

LEMMA TreesLinked ==
  ASSUME NEW n \in Nat, NEW g, IsForest(n, g), NEW T,
         T = [r \in Roots(n, g) |-> Rows(n, g, r)]
  PROVE  Linked(n, g, T)
<1> SUFFICES ASSUME NEW r \in DOMAIN T
             PROVE  /\ r \in 1..n /\ ToSet(T[r][1]) = {r} /\ \A j \in 1..n : <<j, r>> \notin g
                    /\ \A k \in 2..(n + 1) : \A j \in ToSet(T[r][k]) :
                         \E i \in ToSet(T[r][k - 1]) : <<i, j>> \in g
  BY DEF Linked
<1>1. DOMAIN T = {Topmost(n, g, i) : i \in 1..n}
  BY RootsOf
<1>2. r \in 1..n /\ T[r] = Rows(n, g, r) /\ \A j \in 1..n : <<j, r>> \notin g
  BY <1>1, TopmostOf
<1>3. /\ ToSet(T[r][1]) = {r}
      /\ \A k \in 2..(n + 1) : \A j :
           j \in ToSet(T[r][k]) <=> /\ j \in 1..n
                                    /\ \E i \in ToSet(T[r][k - 1]) : <<i, j>> \in g
                                    /\ \A m \in 1..(k - 1) : j \notin ToSet(T[r][m])
  BY <1>2, RowsOf
<1>4. \A k \in 2..(n + 1) : \A j \in ToSet(T[r][k]) :
        \E i \in ToSet(T[r][k - 1]) : <<i, j>> \in g
  BY <1>3
<1> QED  BY <1>2, <1>3, <1>4

\* What is above a transaction: what it depends on directly, and what is above that.
LEMMA AboveOf ==
  ASSUME NEW n \in Nat, DOMAIN block = 1..n, IsForest(n, graph)
  PROVE  \A i \in 1..n :
           /\ (\A j \in 1..n : <<j, i>> \notin graph) => Above(i) = {}
           /\ \A j \in 1..n : <<j, i>> \in graph => Above(i) = {j} \cup Above(j)
<1> DEFINE src(k) == {m \in 1..n : <<m, k>> \in graph}
           B(f, k) == UNION {{j} \cup f[j] : j \in src(k)}
           I == 1..n
           V == SUBSET (1..n)
           D == [p \in [I -> V] \X I |-> B(p[1], p[2])]
<1>0. I \subseteq 0..n /\ V # {} /\ \A m \in I : m \in Nat
  <2>1. {} \in V
    OBVIOUS
  <2>2. I \subseteq 0..n /\ \A m \in I : m \in Nat
    OBVIOUS
  <2> HIDE DEF I, V
  <2> QED  BY <2>1, <2>2
<1>1. \A k \in I : \A j \in src(k) : j \in I /\ j < k /\ src(k) = {j}
  BY DEF IsForest
<1>2. \A f, k : (src(k) = {} => B(f, k) = {})
  OBVIOUS
<1>3. \A f, k, j : (src(k) = {j} => B(f, k) = {j} \cup f[j])
  <2> HIDE DEF src
  <2> QED  OBVIOUS
<1>4. \A v \in V, j \in I : {j} \cup v \in V
  OBVIOUS
<1>5. {} \in V
  OBVIOUS
<1> HIDE DEF src, B, I, V
<1>6. ASSUME NEW f \in [I -> V], NEW k \in I PROVE B(f, k) \in V
  <2>1. CASE src(k) = {}
    BY <1>2, <1>5, <2>1
  <2>2. CASE src(k) # {}
    <3>1. PICK j \in src(k) : TRUE
      BY <2>2
    <3>2. j \in I /\ src(k) = {j}
      BY <1>1
    <3>3. B(f, k) = {j} \cup f[j] /\ f[j] \in V
      BY <1>3, <3>2
    <3> QED  BY <1>4, <3>2, <3>3
  <2> QED  BY <2>1, <2>2
<1>7. ASSUME NEW f, NEW h, NEW k \in I, \A m \in I : m < k => f[m] = h[m]
      PROVE  B(f, k) = B(h, k)
  <2>1. CASE src(k) = {}
    BY <1>2, <2>1
  <2>2. CASE src(k) # {}
    <3>1. PICK j \in src(k) : TRUE
      BY <2>2
    <3>2. j \in I /\ j < k /\ src(k) = {j}
      BY <1>1
    <3>3. f[j] = h[j]
      BY <1>7, <3>2
    <3>4. B(f, k) = {j} \cup f[j] /\ B(h, k) = {j} \cup h[j]
      BY <1>3, <3>2
    <3> QED  BY <3>3, <3>4
  <2> QED  BY <2>1, <2>2
<1>8. D \in [[I -> V] \X I -> V]
  BY <1>6
<1>9. \A f \in [I -> V], m \in I : D[<<f, m>>] = B(f, m)
  OBVIOUS
<1> HIDE DEF D
<1>10. PICK f \in [I -> V] : \A m \in I : f[m] = D[<<f, m>>]
  <2>1. Progressive(D, I, V)
    BY <1>7, <1>8, <1>9 DEF Progressive
  <2>2. PICK f : Solution(D, I, V, f)
    BY <1>0, <2>1, RecursiveFunction
  <2> QED  BY <2>2 DEF Solution
<1>11. f = [m \in I |-> B(f, m)]
  BY <1>9, <1>10
<1> DEFINE up == CHOOSE h : h = [m \in I |-> B(h, m)]
<1>12. up = [m \in I |-> B(up, m)]
  BY <1>11
<1>13. \A i : Above(i) = up[i]
  BY DEF Above, I, B, src
<1> HIDE DEF up
<1>14. \A m \in I : up[m] = B(up, m)
  BY <1>12
<1>15. ASSUME NEW i \in I, \A j \in 1..n : <<j, i>> \notin graph PROVE up[i] = {}
  <2>1. src(i) = {}
    BY <1>15 DEF src
  <2> QED  BY <1>2, <1>14, <2>1
<1>16. ASSUME NEW i \in I, NEW j \in 1..n, <<j, i>> \in graph PROVE up[i] = {j} \cup up[j]
  <2>1. j \in src(i)
    BY <1>16 DEF src
  <2>2. src(i) = {j}
    BY <1>1, <2>1
  <2> QED  BY <1>3, <1>14, <2>2
<1> QED  BY <1>13, <1>15, <1>16 DEF I

\* Above a transaction in row k of a tree there is one transaction in each row before,
\* up to the root, each after the one above it in the block.
InTree(i, r, k, n) ==
  /\ IsFiniteSet(Above(i)) /\ Cardinality(Above(i)) = k - 1
  /\ i = r \/ r \in Above(i)
  /\ \A j \in Above(i) : j < i /\ \E m \in 1..(k - 1) : j \in ToSet(trees[r][m])
  /\ \A j, l \in Above(i) : \A p, q \in 1..(n + 1) :
       j \in ToSet(trees[r][p]) /\ l \in ToSet(trees[r][q]) /\ j < l => p < q

LEMMA AboveInTree ==
  ASSUME NEW n \in Nat, DOMAIN block = 1..n, IsForest(n, graph), Planned(n, trees),
         Linked(n, graph, trees)
  PROVE  \A i \in 1..n : \A r \in DOMAIN trees : \A k \in 1..(n + 1) :
           i \in ToSet(trees[r][k]) => InTree(i, r, k, n)
<1> DEFINE R(r, k) == ToSet(trees[r][k])
           S == {i \in 1..n : \A r \in DOMAIN trees : \A k \in 1..(n + 1) :
                                i \in R(r, k) => InTree(i, r, k, n)}
<1>1. \A i \in 1..n : /\ (\A j \in 1..n : <<j, i>> \notin graph) => Above(i) = {}
                      /\ \A j \in 1..n : <<j, i>> \in graph => Above(i) = {j} \cup Above(j)
  BY AboveOf
<1>2. \A r, q \in DOMAIN trees : \A j, k \in 1..(n + 1) : \A i :
        i \in R(r, j) /\ i \in R(q, k) => r = q /\ j = k
  BY DEF Planned
<1>3. \A r \in DOMAIN trees : /\ r \in 1..n /\ R(r, 1) = {r}
                              /\ \A j \in 1..n : <<j, r>> \notin graph
  BY DEF Linked
<1>4. \A r \in DOMAIN trees : \A k \in 2..(n + 1) : \A j \in R(r, k) :
        \E i \in R(r, k - 1) : <<i, j>> \in graph
  BY DEF Linked
<1>5. \A i, j : <<j, i>> \in graph => j \in 1..n /\ i \in 1..n /\ j < i
  BY DEF IsForest
<1>5a. \A r \in DOMAIN trees : \A k \in 1..(n + 1) : \A x \in R(r, k) : x \in 1..n
  <2>1. \A r \in DOMAIN trees : trees[r] \in [1..(n + 1) -> Seq(1..n)]
    BY DEF Planned
  <2>2. \A t \in Seq(1..n) : ToSet(t) \subseteq 1..n
    BY ShortSeqs
  <2>3. \A r \in DOMAIN trees : \A k \in 1..(n + 1) : trees[r][k] \in Seq(1..n)
    BY <2>1
  <2> QED  BY <2>2, <2>3
<1> HIDE DEF R
<1>6. ASSUME NEW i \in 1..n, \A m \in 1..(i - 1) : m \in S PROVE i \in S
  <2> SUFFICES ASSUME NEW r \in DOMAIN trees, NEW k \in 1..(n + 1), i \in R(r, k)
               PROVE  InTree(i, r, k, n)
    OBVIOUS
  <2>1. CASE k = 1
    <3>1. i = r /\ Above(i) = {}
      BY <1>1, <1>3, <2>1
    <3>2. IsFiniteSet({}) /\ Cardinality({}) = 0
      BY FS_EmptySet
    <3> QED  BY <2>1, <3>1, <3>2 DEF InTree
  <2>2. CASE k # 1
    <3>1. k \in 2..(n + 1) /\ k - 1 \in 1..(n + 1) /\ k - 1 \in 1..(k - 1) /\ k - 1 \in Nat
      BY <2>2
    <3>2. PICK j \in R(r, k - 1) : <<j, i>> \in graph
      BY <1>4, <3>1
    <3>3. j \in 1..n /\ j < i /\ j \in 1..(i - 1)
      BY <1>5, <3>2
    <3>4. InTree(j, r, k - 1, n)
      BY <1>6, <3>1, <3>2, <3>3
    <3>5. Above(i) = {j} \cup Above(j)
      BY <1>1, <3>2, <3>3
    <3> DEFINE A == Above(j)
    <3> HIDE DEF A
    <3>6. /\ IsFiniteSet(A) /\ Cardinality(A) = (k - 1) - 1
          /\ j = r \/ r \in A
          /\ \A x \in A : x < j /\ \E m \in 1..((k - 1) - 1) : x \in R(r, m)
          /\ \A x, l \in A : \A p, q \in 1..(n + 1) :
               x \in R(r, p) /\ l \in R(r, q) /\ x < l => p < q
      BY <3>4 DEF InTree, A, R
    <3>7. Above(i) = A \cup {j} /\ j \notin A
      <4>1. ~(j < j)
        BY <3>3
      <4> QED  BY <3>5, <3>6, <4>1 DEF A
    <3>8. IsFiniteSet(Above(i)) /\ Cardinality(Above(i)) = k - 1
      <4>1. IsFiniteSet(A \cup {j}) /\ Cardinality(A \cup {j}) = Cardinality(A) + 1
        BY <3>6, <3>7, FS_AddElement
      <4> QED  BY <3>1, <3>6, <3>7, <4>1
    <3>9. r \in Above(i)
      BY <3>6, <3>7
    <3>10. ASSUME NEW x \in Above(i)
           PROVE  x < i /\ \E m \in 1..(k - 1) : x \in R(r, m)
      <4>1. CASE x = j
        BY <3>1, <3>2, <3>3, <4>1
      <4>2. CASE x \in A
        <5>1. PICK m \in 1..((k - 1) - 1) : x \in R(r, m)
          BY <3>6, <4>2
        <5>2. m \in 1..(k - 1) /\ m \in 1..(n + 1)
          BY <3>1
        <5>3. x \in 1..n
          BY <1>5a, <5>1, <5>2
        <5>4. x < j
          BY <3>6, <4>2
        <5> QED  BY <3>3, <5>1, <5>2, <5>3, <5>4
      <4> QED  BY <3>7, <4>1, <4>2
    <3>11. ASSUME NEW x \in Above(i), NEW l \in Above(i), NEW p \in 1..(n + 1),
                  NEW q \in 1..(n + 1), x \in R(r, p), l \in R(r, q), x < l
           PROVE  p < q
      <4>0. x \in 1..n /\ l \in 1..n
        BY <1>5a, <3>11
      <4>1. CASE x \in A /\ l \in A
        BY <3>6, <3>11, <4>1
      <4>2. CASE x \in A /\ l = j
        <5>1. PICK m \in 1..((k - 1) - 1) : x \in R(r, m)
          BY <3>6, <4>2
        <5>2. m \in 1..(n + 1) /\ m < k - 1
          BY <3>1
        <5>3. m = p /\ q = k - 1
          BY <1>2, <3>1, <3>2, <3>11, <4>2, <5>1, <5>2
        <5> QED  BY <5>2, <5>3
      <4>3. CASE x = j
        <5>1. l = j \/ l < j
          BY <3>6, <3>7
        <5> QED  BY <3>3, <3>11, <4>0, <4>3, <5>1
      <4> QED  BY <3>7, <4>1, <4>2, <4>3
    <3> QED  BY <3>8, <3>9, <3>10, <3>11 DEF InTree, R
  <2> QED  BY <2>1, <2>2
<1>7. \A i \in 1..n : i \in S
  <2> HIDE DEF S
  <2> QED  BY <1>6, NodeInduction
<1> QED  BY <1>7 DEF R

--------------------------------------------------------------------------------
(* What a tree has accumulated, and what its transactions saw.             *)

\* The diff d of tree r after row k: an account is as a successful writer in the last
\* row that has one left it.
AccAt(b, T, res, r, k, d) ==
  \A a \in Addr :
    \/ /\ d.upserts[a] = NoAccount
       /\ \A j \in 1..k : \A i \in ToSet(T[r][j]) : ~Wrote(b, res, i, a)
    \/ \E j \in 1..k : \E i \in ToSet(T[r][j]) :
         /\ Wrote(b, res, i, a) /\ d.upserts[a] = res[i].upserts[a]
         /\ \A q \in 1..k : \A l \in ToSet(T[r][q]) : Wrote(b, res, l, a) => q <= j

LEMMA AccStable ==
  ASSUME NEW b, NEW T, NEW res, NEW new, NEW r, NEW k, NEW d, AccAt(b, T, res, r, k, d),
         \A j \in 1..k : \A i \in ToSet(T[r][j]) : new[i] = res[i]
  PROVE  AccAt(b, T, new, r, k, d)
<1>1. \A j \in 1..k : \A i \in ToSet(T[r][j]) :
        /\ new[i].upserts = res[i].upserts
        /\ \A a : Wrote(b, new, i, a) = Wrote(b, res, i, a)
  BY DEF Wrote
<1> SUFFICES ASSUME NEW a \in Addr
             PROVE \/ /\ d.upserts[a] = NoAccount
                      /\ \A j \in 1..k : \A i \in ToSet(T[r][j]) : ~Wrote(b, new, i, a)
                   \/ \E j \in 1..k : \E i \in ToSet(T[r][j]) :
                        /\ Wrote(b, new, i, a) /\ d.upserts[a] = new[i].upserts[a]
                        /\ \A q \in 1..k : \A l \in ToSet(T[r][q]) :
                             Wrote(b, new, l, a) => q <= j
  BY DEF AccAt
<1>2. CASE /\ d.upserts[a] = NoAccount
           /\ \A j \in 1..k : \A i \in ToSet(T[r][j]) : ~Wrote(b, res, i, a)
  BY <1>1, <1>2
<1>3. CASE \E j \in 1..k : \E i \in ToSet(T[r][j]) :
             /\ Wrote(b, res, i, a) /\ d.upserts[a] = res[i].upserts[a]
             /\ \A q \in 1..k : \A l \in ToSet(T[r][q]) : Wrote(b, res, l, a) => q <= j
  <2>0. PICK j \in 1..k : \E i \in ToSet(T[r][j]) :
          /\ Wrote(b, res, i, a) /\ d.upserts[a] = res[i].upserts[a]
          /\ \A q \in 1..k : \A l \in ToSet(T[r][q]) : Wrote(b, res, l, a) => q <= j
    BY <1>3
  <2>1. PICK i \in ToSet(T[r][j]) :
          /\ Wrote(b, res, i, a) /\ d.upserts[a] = res[i].upserts[a]
          /\ \A q \in 1..k : \A l \in ToSet(T[r][q]) : Wrote(b, res, l, a) => q <= j
    BY <2>0
  <2>2. Wrote(b, new, i, a) /\ d.upserts[a] = new[i].upserts[a]
    BY <1>1, <2>1
  <2>3. \A q \in 1..k : \A l \in ToSet(T[r][q]) : Wrote(b, new, l, a) => q <= j
    BY <1>1, <2>1
  <2> QED  BY <2>2, <2>3
<1> QED  BY <1>2, <1>3 DEF AccAt

\* A row that has no transaction changes nothing.
LEMMA AccEmptyRow ==
  ASSUME NEW b, NEW T, NEW res, NEW r, NEW k \in Nat, NEW d, AccAt(b, T, res, r, k, d),
         ToSet(T[r][k + 1]) = {}
  PROVE  AccAt(b, T, res, r, k + 1, d)
<1>1. \A j \in 1..(k + 1) : \A i \in ToSet(T[r][j]) : j \in 1..k
  OBVIOUS
<1>2. \A j \in 1..k : j \in 1..(k + 1)
  OBVIOUS
<1> QED  BY <1>1, <1>2 DEF AccAt

\* Merging the results of row k + 1.
LEMMA AccMerge ==
  ASSUME NEW b, NEW T, NEW res, NEW r, NEW k \in Nat, NEW d \in Diff,
         AccAt(b, T, res, r, k, d), NEW S, NEW t, t = T[r][k + 1], t \in Seq(S),
         \A i \in ToSet(t) : res[i] = Failed \/ IsOutput(b[i], res[i])
  PROVE  AccAt(b, T, res, r, k + 1, Merged(res, d, t))
<1> DEFINE N == Len(t)
           M == Merged(res, d, t)
<1>1. N \in Nat /\ DOMAIN t = 1..N
  BY SeqElements
<1>2. ToSet(t) = {t[m] : m \in 1..N}
  BY <1>1 DEF ToSet
<1>3. \A m \in 1..N : res[t[m]] = Failed \/ IsOutput(b[t[m]], res[t[m]])
  BY <1>2
<1>3a. N = Len(t) /\ M = Merged(res, d, t)
  OBVIOUS
<1> HIDE DEF N, M
<1>4. ASSUME NEW a \in Addr
      PROVE  /\ (\A m \in 1..N : ~Wrote(b, res, t[m], a)) => M.upserts[a] = d.upserts[a]
             /\ \A m \in 1..N :
                  Wrote(b, res, t[m], a) /\ (\A l \in 1..N : Wrote(b, res, t[l], a) => l <= m)
                  => M.upserts[a] = res[t[m]].upserts[a]
  <2>1. /\ (\A m \in 1..N : ~Wrote(b, res, t[m], a))
             => /\ Merged(res, d, t).upserts[a] = d.upserts[a]
                /\ a \in Merged(res, d, t).deletes <=> a \in d.deletes
        /\ \A m \in 1..N :
             /\ Wrote(b, res, t[m], a)
             /\ \A l \in 1..N : Wrote(b, res, t[l], a) => l <= m
             => /\ Merged(res, d, t).upserts[a] = res[t[m]].upserts[a]
                /\ a \in Merged(res, d, t).deletes <=> a \in res[t[m]].deletes
    <3>1. MergedAt(b, res, d, t, N, a)
      BY <1>1, <1>3, <1>3a, MergedLast
    <3> QED  BY <3>1 DEF MergedAt
  <2> QED  BY <1>3a, <2>1
<1>5. k + 1 \in 1..(k + 1) /\ \A j \in 1..(k + 1) : j <= k + 1 /\ (j = k + 1 \/ j \in 1..k)
  OBVIOUS
<1>6. \A j \in 1..k : j \in 1..(k + 1)
  OBVIOUS
<1> SUFFICES ASSUME NEW a \in Addr
             PROVE \/ /\ M.upserts[a] = NoAccount
                      /\ \A j \in 1..(k + 1) : \A i \in ToSet(T[r][j]) : ~Wrote(b, res, i, a)
                   \/ \E j \in 1..(k + 1) : \E i \in ToSet(T[r][j]) :
                        /\ Wrote(b, res, i, a) /\ M.upserts[a] = res[i].upserts[a]
                        /\ \A q \in 1..(k + 1) : \A l \in ToSet(T[r][q]) :
                             Wrote(b, res, l, a) => q <= j
  BY DEF AccAt, M
<1> DEFINE W == {m \in 1..N : Wrote(b, res, t[m], a)}
<1>7. CASE W # {}
  <2>1. PICK m \in W : \A l \in W : l <= m
    <3>1. W \subseteq 1..N
      OBVIOUS
    <3> HIDE DEF W
    <3> QED  BY <1>1, <1>7, <3>1, GreatestPosition
  <2>2. M.upserts[a] = res[t[m]].upserts[a] /\ Wrote(b, res, t[m], a) /\ t[m] \in ToSet(T[r][k + 1])
    BY <1>2, <1>4, <2>1
  <2> QED  BY <1>5, <2>2
<1>8. CASE W = {}
  <2>1. \A i \in ToSet(T[r][k + 1]) : ~Wrote(b, res, i, a)
    BY <1>2, <1>8
  <2>2. M.upserts[a] = d.upserts[a]
    BY <1>4, <1>8
  <2>3. \/ /\ d.upserts[a] = NoAccount
           /\ \A j \in 1..k : \A i \in ToSet(T[r][j]) : ~Wrote(b, res, i, a)
        \/ \E j \in 1..k : \E i \in ToSet(T[r][j]) :
             /\ Wrote(b, res, i, a) /\ d.upserts[a] = res[i].upserts[a]
             /\ \A q \in 1..k : \A l \in ToSet(T[r][q]) : Wrote(b, res, l, a) => q <= j
    BY DEF AccAt
  <2> QED  BY <1>5, <1>6, <2>1, <2>2, <2>3
<1> QED  BY <1>7, <1>8

\* The row up to which tree r has accumulated.
MergedRow(r) == IF row[r].txs = {} THEN row[r].ix ELSE row[r].ix - 1

GraphOK == IsForest(Len(block), graph) /\ Linked(Len(block), graph, trees)

FreshOK ==
  \A r \in DOMAIN trees : \A k \in 1..(Len(block) + 1) : \A i \in ToSet(trees[r][k]) :
    k > row[r].ix => result[i] = Pending

AccOK == \A r \in DOMAIN trees : AccAt(block, trees, result, r, MergedRow(r), acc[r])

\* A result is that of executing on the state before the block overlaid with what the
\* rows before left.
Saw(i, r, k, d) ==
  /\ AccAt(block, trees, result, r, k - 1, d)
  /\ result[i] = Execute(block[i], OverlayView(state, d))

ViewOK ==
  \A r \in DOMAIN trees : \A k \in 1..(Len(block) + 1) : \A i \in ToSet(trees[r][k]) :
    result[i] # Pending => \E d \in Diff : Saw(i, r, k, d)

SInv ==
  /\ GraphOK /\ FreshOK /\ AccOK /\ ViewOK
  /\ result \in [1..Len(block) -> Diff \cup {Failed, Pending}]

LEMMA RowsInBlock ==
  ASSUME IInv, NEW r \in DOMAIN trees, NEW k \in 1..(Len(block) + 1)
  PROVE  trees[r][k] \in Seq(1..Len(block)) /\ ToSet(trees[r][k]) \subseteq 1..Len(block)
<1>1. trees[r][k] \in Seq(1..Len(block))
  BY DEF IInv, PlanOK, Planned
<1> QED  BY <1>1, ShortSeqs

\* The rows a tree has accumulated have run.
LEMMA MergedRowsRan ==
  ASSUME IInv, NEW r \in DOMAIN trees
  PROVE  /\ MergedRow(r) \in 0..(Len(block) + 1) /\ MergedRow(r) <= row[r].ix
         /\ row[r].txs # {} => MergedRow(r) + 1 = row[r].ix
         /\ \A k \in 1..MergedRow(r) : \A i \in ToSet(trees[r][k]) : result[i] # Pending
<1>1. /\ Len(block) \in Nat /\ row[r].ix \in 0..(Len(block) + 1)
      /\ row[r].txs = {} \/ row[r].ix > 0
  BY DEF IInv, BlockOK, RowsOK
<1>2. /\ MergedRow(r) \in 0..(Len(block) + 1) /\ MergedRow(r) <= row[r].ix
      /\ row[r].txs # {} => MergedRow(r) + 1 = row[r].ix
  BY <1>1 DEF MergedRow
<1>3. ASSUME NEW k \in 1..MergedRow(r), NEW i \in ToSet(trees[r][k]) PROVE result[i] # Pending
  <2>1. k \in 1..(Len(block) + 1) /\ k <= row[r].ix
    BY <1>1, <1>2
  <2>2. row[r].txs # {} => k # row[r].ix
    BY <1>1, <1>2
  <2> QED  BY <2>1, <2>2 DEF IInv, TakenOK
<1> QED  BY <1>2, <1>3

LEMMA InitSInv == Init => SInv
<1> SUFFICES ASSUME Init PROVE SInv
  OBVIOUS
<1>1. /\ Len(block) = 0 /\ DOMAIN trees = {} /\ graph = {} /\ result = <<>> /\ 1..0 = {}
  BY DEF Init
<1>2. GraphOK
  BY <1>1 DEF GraphOK, IsForest, Linked
<1>3. FreshOK /\ AccOK /\ ViewOK
  BY <1>1 DEF FreshOK, AccOK, ViewOK
<1>4. result \in [1..Len(block) -> Diff \cup {Failed, Pending}]
  BY <1>1
<1> QED  BY <1>2, <1>3, <1>4 DEF SInv

LEMMA StartBlockSInv ==
  ASSUME IInv, IInv', NEW b \in Blocks, StartBlock(b) PROVE SInv'
<1> DEFINE n == Len(b)
<1>0. n \in Nat /\ DOMAIN b = 1..n
  BY ScheduleAssumption
<1>1. /\ block' = b /\ graph' = Edges(b, state) /\ state' = state
      /\ trees' = [r \in Roots(n, graph') |-> Rows(n, graph', r)]
      /\ row' = [r \in DOMAIN trees' |-> [ix |-> 0, txs |-> {}]]
      /\ acc' = [r \in DOMAIN trees' |-> EmptyDiff]
      /\ result' = [i \in DOMAIN b |-> Pending]
  BY DEF StartBlock
<1>2. IsForest(n, graph')
  BY <1>0, <1>1, EdgesForest
<1>3. Linked(n, graph', trees')
  BY <1>0, <1>1, <1>2, TreesLinked
<1> HIDE DEF n
<1>4. Len(block') = n
  BY <1>1 DEF n
<1>5. GraphOK'
  BY <1>2, <1>3, <1>4 DEF GraphOK
<1>6. \A r \in DOMAIN trees' : \A k \in 1..(n + 1) : \A i \in ToSet(trees'[r][k]) : result'[i] = Pending
  <2>1. \A r \in DOMAIN trees' : trees'[r] \in [1..(n + 1) -> Seq(1..n)]
    BY <1>4 DEF IInv, PlanOK, Planned
  <2>2. \A t \in Seq(1..n) : ToSet(t) \subseteq 1..n
    BY ShortSeqs
  <2>3. \A r \in DOMAIN trees' : \A k \in 1..(n + 1) : trees'[r][k] \in Seq(1..n)
    BY <2>1
  <2>4. \A i \in 1..n : result'[i] = Pending
    BY <1>0, <1>1
  <2> QED  BY <2>2, <2>3, <2>4
<1>7. FreshOK' /\ ViewOK'
  BY <1>4, <1>6 DEF FreshOK, ViewOK
<1>8. AccOK'
  <2> SUFFICES ASSUME NEW r \in DOMAIN trees'
               PROVE  AccAt(block', trees', result', r, MergedRow(r)', acc'[r])
    BY DEF AccOK
  <2>1. MergedRow(r)' = 0 /\ acc'[r] = EmptyDiff
    BY <1>1 DEF MergedRow
  <2>2. \A a \in Addr : EmptyDiff.upserts[a] = NoAccount
    BY DEF EmptyDiff
  <2>3. 1..0 = {}
    OBVIOUS
  <2> QED  BY <2>1, <2>2, <2>3 DEF AccAt
<1>9. result' \in [1..n -> Diff \cup {Failed, Pending}]
  BY <1>0, <1>1
<1> QED  BY <1>4, <1>5, <1>7, <1>8, <1>9 DEF SInv

LEMMA TakeRowSInv ==
  ASSUME IInv, IInv', SInv, NEW r \in DOMAIN row, TakeRow(r) PROVE SInv'
<1> DEFINE n == Len(block)
           ix == row[r].ix + 1
           R(q, k) == ToSet(trees[q][k])
<1>1. /\ n \in Nat /\ r \in DOMAIN trees
      /\ row \in [DOMAIN trees -> [ix : 0..(n + 1), txs : SUBSET (1..n)]]
  BY DEF IInv, BlockOK, RowsOK
<1>2. /\ UNCHANGED <<state, block, graph, trees, acc, result>> /\ row[r].txs = {}
      /\ row' = [row EXCEPT ![r] = [ix |-> ix, txs |-> R(r, ix)]]
  BY DEF TakeRow
<1>3. /\ row'[r] = [ix |-> ix, txs |-> R(r, ix)]
      /\ \A q \in DOMAIN trees : q # r => row'[q] = row[q]
      /\ row[r].ix \in Nat /\ ix > row[r].ix /\ ix - 1 = row[r].ix
  <2>1. row[r].ix \in 0..(n + 1)
    BY <1>1
  <2>2. row[r].ix \in Nat
    BY <1>1, <2>1
  <2> HIDE DEF n, R
  <2> QED  BY <1>1, <1>2, <2>2
<1>4. FreshOK'
  <2> SUFFICES ASSUME NEW q \in DOMAIN trees, NEW k \in 1..(n + 1), NEW i \in R(q, k), k > row'[q].ix
               PROVE  result[i] = Pending
    BY <1>2 DEF FreshOK
  <2>1. k > row[q].ix
    <3>1. CASE q = r
      <4>1. k > ix /\ k \in Nat
        BY <1>1, <1>3, <3>1
      <4> QED  BY <1>3, <3>1, <4>1
    <3>2. CASE q # r
      BY <1>3, <3>2
    <3> QED  BY <3>1, <3>2
  <2> QED  BY <2>1 DEF SInv, FreshOK
<1>5. AccOK'
  <2> SUFFICES ASSUME NEW q \in DOMAIN trees
               PROVE  AccAt(block, trees, result, q, MergedRow(q)', acc[q])
    BY <1>2 DEF AccOK
  <2>1. AccAt(block, trees, result, q, MergedRow(q), acc[q])
    BY DEF SInv, AccOK
  <2>2. CASE q # r
    <3>1. MergedRow(q)' = MergedRow(q)
      BY <1>3, <2>2 DEF MergedRow
    <3> QED  BY <2>1, <3>1
  <2>3. CASE q = r /\ R(r, ix) # {}
    <3>1. MergedRow(q)' = MergedRow(q)
      BY <1>2, <1>3, <2>3 DEF MergedRow
    <3> QED  BY <2>1, <3>1
  <2>4. CASE q = r /\ R(r, ix) = {}
    <3>1. MergedRow(q)' = row[r].ix + 1 /\ MergedRow(q) = row[r].ix
      BY <1>2, <1>3, <2>4 DEF MergedRow
    <3>2. AccAt(block, trees, result, r, row[r].ix, acc[r])
      BY <2>1, <2>4, <3>1
    <3>3. AccAt(block, trees, result, r, row[r].ix + 1, acc[r])
      BY <1>3, <2>4, <3>2, AccEmptyRow
    <3> QED  BY <2>4, <3>1, <3>3
  <2> QED  BY <2>2, <2>3, <2>4
<1>6. GraphOK' /\ ViewOK' /\ result' \in [1..Len(block') -> Diff \cup {Failed, Pending}]
  BY <1>2 DEF SInv, GraphOK, ViewOK, Saw
<1> QED  BY <1>4, <1>5, <1>6 DEF SInv

LEMMA RunTxSInv ==
  ASSUME IInv, IInv', SInv, NEW r \in DOMAIN row, NEW i \in row[r].txs, RunTx(r, i) PROVE SInv'
<1> DEFINE n == Len(block)
           R(q, k) == ToSet(trees[q][k])
           out == Execute(block[i], OverlayView(state, acc[r]))
<1>1. /\ n \in Nat /\ r \in DOMAIN trees /\ i \in 1..n /\ acc[r] \in Diff
      /\ row[r].ix \in 1..(n + 1) /\ i \in R(r, row[r].ix) /\ row[r].txs # {}
  BY DEF IInv, BlockOK, RowsOK
<1>2. /\ UNCHANGED <<state, block, graph, trees, row, acc>> /\ result[i] = Pending
      /\ result' = [result EXCEPT ![i] = out]
  BY DEF RunTx
<1>3. \A q, m \in DOMAIN trees : \A j, k \in 1..(n + 1) : \A x :
        x \in R(q, j) /\ x \in R(m, k) => q = m /\ j = k
  BY DEF IInv, PlanOK, Planned
<1>4. \A q \in DOMAIN trees : \A k \in 1..(n + 1) : \A x \in R(q, k) : x \in 1..n
  BY RowsInBlock
<1> HIDE DEF out, n, R
<1>5. result'[i] = out /\ \A j \in 1..n : j # i => result'[j] = result[j]
  BY <1>1, <1>2 DEF SInv, n
<1>6. \A q \in DOMAIN trees : \A k \in 1..(n + 1) : \A x \in R(q, k) : x # i => result'[x] = result[x]
  BY <1>4, <1>5
<1>7. result' \in [1..n -> Diff \cup {Failed, Pending}]
  BY <1>2 DEF IInv, ResultsOK, IsOutput, SInv, n
<1>8. FreshOK'
  <2> SUFFICES ASSUME NEW q \in DOMAIN trees, NEW k \in 1..(n + 1), NEW x \in R(q, k), k > row[q].ix
               PROVE  result'[x] = Pending
    BY <1>2 DEF FreshOK, n, R
  <2>1. x # i
    <3> SUFFICES ASSUME x = i PROVE FALSE
      OBVIOUS
    <3>1. q = r /\ k = row[r].ix
      BY <1>1, <1>3
    <3> QED  BY <1>1, <3>1
  <2>2. result[x] = Pending
    BY DEF SInv, FreshOK, n, R
  <2> QED  BY <1>6, <2>1, <2>2
<1>9. ASSUME NEW q \in DOMAIN trees, NEW k, k \in 0..(n + 1), NEW d, AccAt(block, trees, result, q, k, d),
             \A m \in 1..k : \A x \in R(q, m) : result[x] # Pending
      PROVE  AccAt(block, trees, result', q, k, d)
  <2>1. ASSUME NEW m \in 1..k, NEW x \in R(q, m) PROVE result'[x] = result[x]
    <3>1. m \in 1..(n + 1)
      BY <1>1, <1>9
    <3>2. x # i
      BY <1>2, <1>9
    <3> QED  BY <1>6, <3>1, <3>2
  <2> QED  BY <1>9, <2>1, AccStable DEF R
<1>10. AccOK'
  <2> SUFFICES ASSUME NEW q \in DOMAIN trees
               PROVE  AccAt(block, trees, result', q, MergedRow(q), acc[q])
    BY <1>2 DEF AccOK, MergedRow
  <2>1. AccAt(block, trees, result, q, MergedRow(q), acc[q])
    BY DEF SInv, AccOK
  <2>2. /\ MergedRow(q) \in 0..(n + 1)
        /\ \A k \in 1..MergedRow(q) : \A x \in R(q, k) : result[x] # Pending
    BY MergedRowsRan DEF n, R
  <2> QED  BY <1>9, <2>1, <2>2
<1>11. ViewOK'
  <2> SUFFICES ASSUME NEW q \in DOMAIN trees, NEW k \in 1..(n + 1), NEW x \in R(q, k),
                      result'[x] # Pending
               PROVE  \E d \in Diff : /\ AccAt(block, trees, result', q, k - 1, d)
                                      /\ result'[x] = Execute(block[x], OverlayView(state, d))
    <3>1. \A q, k, x, d : Saw(x, q, k, d)'
                            <=> /\ AccAt(block, trees, result', q, k - 1, d)
                                /\ result'[x] = Execute(block[x], OverlayView(state, d))
      BY <1>2 DEF Saw
    <3>2. n' = n /\ trees' = trees
      BY <1>2 DEF n
    <3> QED  BY <3>1, <3>2 DEF ViewOK, n, R
  <2>0. k - 1 \in 0..(n + 1)
    BY <1>1
  <2>1. CASE x = i
    <3>1. q = r /\ k = row[r].ix
      BY <1>1, <1>3, <2>1
    <3>2. MergedRow(r) = k - 1
      BY <1>1, <3>1 DEF MergedRow
    <3>3. AccAt(block, trees, result', r, k - 1, acc[r])
      BY <1>2, <1>10, <3>2, <1>1 DEF AccOK, MergedRow
    <3>4. result'[x] = Execute(block[x], OverlayView(state, acc[r]))
      BY <1>5, <2>1 DEF out
    <3> QED  BY <1>1, <3>1, <3>3, <3>4
  <2>2. CASE x # i
    <3>1. result'[x] = result[x]
      BY <1>6, <2>2
    <3>2. PICK d \in Diff : Saw(x, q, k, d)
      BY <3>1 DEF SInv, ViewOK, n, R
    <3>3. /\ AccAt(block, trees, result, q, k - 1, d)
          /\ result[x] = Execute(block[x], OverlayView(state, d))
      BY <3>2 DEF Saw
    <3>4. k <= row[q].ix
      <4>1. ~(k > row[q].ix)
        BY <3>1 DEF SInv, FreshOK, n, R
      <4>2. k \in Nat /\ row[q].ix \in Nat
        BY <1>1 DEF IInv, RowsOK, n
      <4> QED  BY <4>1, <4>2
    <3>5. ASSUME NEW m \in 1..(k - 1), NEW y \in R(q, m) PROVE result[y] # Pending
      <4>1. row[q].ix \in Nat
        BY DEF IInv, RowsOK
      <4>2. m \in 1..(n + 1) /\ m <= row[q].ix /\ m # row[q].ix
        BY <1>1, <3>4, <4>1
      <4> QED  BY <4>2 DEF IInv, TakenOK, n, R
    <3>6. AccAt(block, trees, result', q, k - 1, d)
      BY <1>9, <2>0, <3>3, <3>5
    <3> QED  BY <3>1, <3>3, <3>6
  <2> QED  BY <2>1, <2>2
<1>12. GraphOK'
  BY <1>2 DEF SInv, GraphOK
<1> QED  BY <1>2, <1>7, <1>8, <1>10, <1>11, <1>12 DEF SInv, n

LEMMA FinishRowSInv ==
  ASSUME IInv, IInv', SInv, NEW r \in DOMAIN row, FinishRow(r) PROVE SInv'
<1> DEFINE n == Len(block)
           t == trees[r][row[r].ix]
<1>1. /\ n \in Nat /\ r \in DOMAIN trees /\ acc \in [DOMAIN trees -> Diff] /\ acc[r] \in Diff
      /\ row \in [DOMAIN trees -> [ix : 0..(n + 1), txs : SUBSET (1..n)]]
  BY DEF IInv, BlockOK, RowsOK
<1>2. /\ UNCHANGED <<state, block, graph, trees, result>>
      /\ row[r].txs # {} /\ \A i \in row[r].txs : result[i] # Pending
      /\ acc' = [acc EXCEPT ![r] = MergeOk(acc[r], t)]
      /\ row' = [row EXCEPT ![r].txs = {}]
  BY DEF FinishRow
<1>3. row[r].ix \in 1..(n + 1) /\ row[r].txs = ToSet(t)
  BY <1>1, <1>2 DEF IInv, RowsOK
<1>4. t \in Seq(1..n) /\ ToSet(t) \subseteq 1..n
  BY <1>1, <1>3, RowsInBlock
<1>5. \A i \in ToSet(t) : result[i] = Failed \/ IsOutput(block[i], result[i])
  BY <1>2, <1>3, <1>4 DEF IInv, ResultsOK
<1>6. /\ acc'[r] = Merged(result, acc[r], t) /\ \A q \in DOMAIN trees : q # r => acc'[q] = acc[q]
  BY <1>1, <1>2, MergeOkIsMerged
<1>7. /\ row'[r] = [ix |-> row[r].ix, txs |-> {}]
      /\ \A q \in DOMAIN trees : q # r => row'[q] = row[q]
      /\ \A q \in DOMAIN trees : row'[q].ix = row[q].ix
  BY <1>1, <1>2
<1>8. AccOK'
  <2> SUFFICES ASSUME NEW q \in DOMAIN trees
               PROVE  AccAt(block, trees, result, q, MergedRow(q)', acc'[q])
    BY <1>2 DEF AccOK
  <2>1. AccAt(block, trees, result, q, MergedRow(q), acc[q])
    BY DEF SInv, AccOK
  <2>2. CASE q # r
    <3>1. MergedRow(q)' = MergedRow(q)
      BY <1>7, <2>2 DEF MergedRow
    <3> QED  BY <1>6, <2>1, <2>2, <3>1
  <2>3. CASE q = r
    <3> DEFINE k == MergedRow(r)
    <3>1. k \in Nat /\ k + 1 = row[r].ix
      <4>1. k \in 0..(n + 1) /\ k + 1 = row[r].ix
        BY <1>1, <1>2, MergedRowsRan
      <4> QED  BY <1>1, <4>1
    <3>2. MergedRow(r)' = k + 1
      BY <1>7, <3>1 DEF MergedRow
    <3>3. t = trees[r][k + 1]
      BY <3>1
    <3> HIDE DEF k, t
    <3>4. AccAt(block, trees, result, r, k, acc[r])
      BY <2>1, <2>3 DEF k
    <3>5. AccAt(block, trees, result, r, k + 1, Merged(result, acc[r], t))
      BY <1>1, <1>4, <1>5, <3>1, <3>3, <3>4, AccMerge
    <3> QED  BY <1>6, <2>3, <3>2, <3>5
  <2> QED  BY <2>2, <2>3
<1>9. FreshOK'
  BY <1>2, <1>7 DEF SInv, FreshOK
<1>10. GraphOK' /\ ViewOK' /\ result' \in [1..Len(block') -> Diff \cup {Failed, Pending}]
  BY <1>2 DEF SInv, GraphOK, ViewOK, Saw
<1> QED  BY <1>8, <1>9, <1>10 DEF SInv

LEMMA CommitSInv == ASSUME IInv, Commit PROVE SInv'
<1>1. /\ Len(block') = 0 /\ DOMAIN trees' = {} /\ graph' = {} /\ result' = <<>> /\ 1..0 = {}
  BY DEF Commit
<1>2. GraphOK'
  BY <1>1 DEF GraphOK, IsForest, Linked
<1>3. FreshOK' /\ AccOK' /\ ViewOK'
  BY <1>1 DEF FreshOK, AccOK, ViewOK
<1>4. result' \in [1..Len(block') -> Diff \cup {Failed, Pending}]
  BY <1>1
<1> QED  BY <1>2, <1>3, <1>4 DEF SInv

LEMMA AlwaysSInv == Spec => [](IInv /\ SInv)
<1>1. ASSUME IInv, IInv', SInv, Next PROVE SInv'
  BY <1>1, StartBlockSInv, TakeRowSInv, RunTxSInv, FinishRowSInv, CommitSInv DEF Next
<1>2. ASSUME SInv, UNCHANGED vars PROVE SInv'
  BY <1>2 DEF SInv, vars, GraphOK, FreshOK, AccOK, ViewOK, Saw, MergedRow
<1>3. IInv /\ IInv' /\ SInv /\ [Next]_vars => SInv'
  BY <1>1, <1>2
<1> QED  BY <1>3, InitSInv, AlwaysIInv, PTL DEF Spec

--------------------------------------------------------------------------------
(* A covered block has the results of its execution in order.              *)

\* Covered, with the states and the results of the execution in order given.
CoveredBy(n, st, out) ==
  \A i, j \in 1..n :
    /\ i # j /\ out[j] # Failed
    /\ Writes(block[j]) \cap Touched(block[i], st[i - 1]) # {}
    => \/ /\ j < i /\ j \in Above(i)
          /\ (Writes(block[j]) \cap Touched(block[i], st[i - 1])) \cap out[j].deletes = {}
       \/ /\ j > i
          /\ ~(SameTree(i, j) /\ Cardinality(Above(j)) < Cardinality(Above(i)))

LEMMA OneRow ==
  ASSUME NEW n, NEW T, Planned(n, T), NEW r \in DOMAIN T
  PROVE  \A x : \A m, l \in 1..(n + 1) :
           x \in ToSet(T[r][m]) /\ x \in ToSet(T[r][l]) => m = l
BY DEF Planned

\* In a covered block, what a transaction looks at is the same in its tree as in
\* the execution in order, if the rows above it have the results they have in order.
LEMMA SameView ==
  ASSUME IInv, SInv, NEW n \in Nat, n = Len(block), NEW st, NEW out,
         SerialSteps(block, state, n, st, out), CoveredBy(n, st, out),
         NEW r \in DOMAIN trees, NEW k \in 1..(n + 1), NEW i \in ToSet(trees[r][k]),
         \A m \in 1..(k - 1) : \A j \in ToSet(trees[r][m]) : result[j] = out[j],
         NEW d \in Diff, AccAt(block, trees, result, r, k - 1, d),
         NEW a \in Addr, a \in Touched(block[i], st[i - 1])
  PROVE  OverlayView(state, d)[a] = st[i - 1][a]
<1> DEFINE R(m) == ToSet(trees[r][m])
           w(j) == Wrote(block, out, j, a)
<1>1. /\ DOMAIN block = 1..n /\ IsForest(n, graph) /\ Planned(n, trees) /\ Linked(n, graph, trees)
  BY DEF IInv, BlockOK, PlanOK, SInv, GraphOK
<1>2. \A m \in 1..(n + 1) : \A x \in R(m) : x \in 1..n
  BY RowsInBlock
<1>3. \A x : \A m, l \in 1..(n + 1) : x \in R(m) /\ x \in R(l) => m = l
  BY <1>1, OneRow
<1>4. \A m \in 1..(n + 1) : \A x \in R(m) : InTree(x, r, m, n)
  BY <1>1, <1>2, AboveInTree
<1>5. i \in 1..n /\ i - 1 \in 0..n /\ \A m \in 1..(k - 1) : m \in 1..(n + 1) /\ m # k /\ m < k
  BY <1>2
<1>6. OverlayView(state, d)[a] = IF d.upserts[a] = NoAccount THEN state[a] ELSE d.upserts[a]
  BY DEF OverlayView, OverlayGet, DiffGet
<1> HIDE DEF R
\* The writers in the rows above are above i, and before it.
<1>7. ASSUME NEW m \in 1..(k - 1), NEW j \in R(m), w(j)
      PROVE  j \in 1..(i - 1) /\ j \in Above(i) /\ a \notin out[j].deletes /\ out[j].upserts[a] # NoAccount
  <2>1. m \in 1..(n + 1) /\ m < k /\ j \in 1..n /\ i # j
    <3>1. m \in 1..(n + 1) /\ m < k /\ m # k
      BY <1>5
    <3>2. j \in 1..n
      BY <1>2, <3>1
    <3>3. i # j
      BY <1>3, <3>1 DEF R
    <3> QED  BY <3>1, <3>2, <3>3
  <2>2. a \in Writes(block[j]) /\ out[j] # Failed
    BY <1>7 DEF Wrote
  <2>3. a \in Writes(block[j]) \cap Touched(block[i], st[i - 1])
    BY <2>2
  <2>4. InTree(i, r, k, n) /\ InTree(j, r, m, n)
    BY <1>4, <2>1 DEF R
  <2>5. SameTree(i, j)
    BY <2>4 DEF SameTree, InTree
  <2>6. Cardinality(Above(j)) < Cardinality(Above(i))
    <3>1. Cardinality(Above(j)) = m - 1 /\ Cardinality(Above(i)) = k - 1
      BY <2>4 DEF InTree
    <3>2. m \in Nat /\ k \in Nat
      BY <2>1
    <3> QED  BY <2>1, <3>1, <3>2
  <2>7. /\ j < i /\ j \in Above(i)
        /\ (Writes(block[j]) \cap Touched(block[i], st[i - 1])) \cap out[j].deletes = {}
    BY <1>5, <2>1, <2>2, <2>3, <2>5, <2>6 DEF CoveredBy
  <2>8. a \notin out[j].deletes
    BY <2>3, <2>7
  <2>9. IsOutput(block[j], out[j])
    BY <2>1, <2>2 DEF SerialSteps
  <2>10. out[j].upserts[a] # NoAccount
    BY <2>2, <2>8, <2>9, NoAccountAssumption DEF IsOutput
  <2>11. j \in 1..(i - 1)
    BY <1>5, <2>1, <2>7
  <2> QED  BY <2>7, <2>8, <2>10, <2>11
\* The writers before i are in the rows above.
<1>8. ASSUME NEW j \in 1..(i - 1), w(j)
      PROVE  j \in Above(i) /\ \E m \in 1..(k - 1) : j \in R(m)
  <2>1. j \in 1..n /\ i # j /\ ~(j > i)
    BY <1>5
  <2>2. a \in Writes(block[j]) /\ out[j] # Failed
    BY <1>8 DEF Wrote
  <2>3. a \in Writes(block[j]) \cap Touched(block[i], st[i - 1])
    BY <2>2
  <2>4. j \in Above(i)
    BY <1>5, <2>1, <2>2, <2>3 DEF CoveredBy
  <2>5. InTree(i, r, k, n)
    BY <1>4 DEF R
  <2> QED  BY <2>4, <2>5 DEF InTree, R
<1>9. /\ (\A j \in 1..(i - 1) : ~w(j)) => st[i - 1][a] = state[a]
      /\ \A j \in 1..(i - 1) : w(j) /\ (\A m \in 1..(i - 1) : w(m) => m <= j)
                               => st[i - 1][a] = out[j].upserts[a]
  <2>1. LeftAt(block, state, st, out, i - 1, a)
    BY <1>5, SerialAt
  <2> QED  BY <2>1 DEF LeftAt
<1>10. \A m \in 1..(k - 1) : \A j \in R(m) :
         result[j] = out[j] /\ (Wrote(block, result, j, a) <=> w(j))
  BY DEF Wrote, R
<1> HIDE DEF w
<1>11. CASE /\ d.upserts[a] = NoAccount
            /\ \A m \in 1..(k - 1) : \A j \in R(m) : ~Wrote(block, result, j, a)
  <2>1. \A j \in 1..(i - 1) : ~w(j)
    BY <1>8, <1>10, <1>11
  <2> QED  BY <1>6, <1>9, <1>11, <2>1
<1>12. CASE \E m \in 1..(k - 1) : \E j \in R(m) :
              /\ Wrote(block, result, j, a) /\ d.upserts[a] = result[j].upserts[a]
              /\ \A q \in 1..(k - 1) : \A l \in R(q) : Wrote(block, result, l, a) => q <= m
  <2>1. PICK m \in 1..(k - 1) : \E j \in R(m) :
              /\ Wrote(block, result, j, a) /\ d.upserts[a] = result[j].upserts[a]
              /\ \A q \in 1..(k - 1) : \A l \in R(q) : Wrote(block, result, l, a) => q <= m
    BY <1>12
  <2>2. PICK j \in R(m) :
              /\ Wrote(block, result, j, a) /\ d.upserts[a] = result[j].upserts[a]
              /\ \A q \in 1..(k - 1) : \A l \in R(q) : Wrote(block, result, l, a) => q <= m
    BY <2>1
  <2>3. w(j) /\ d.upserts[a] = out[j].upserts[a]
    BY <1>10, <2>2
  <2>4. j \in 1..(i - 1) /\ j \in Above(i) /\ out[j].upserts[a] # NoAccount
    BY <1>7, <2>3
  <2>5. ASSUME NEW l \in 1..(i - 1), w(l) PROVE l <= j
    <3>1. PICK q \in 1..(k - 1) : l \in R(q)
      BY <1>8, <2>5
    <3>2. l \in Above(i) /\ q <= m
      BY <1>8, <1>10, <2>2, <2>5, <3>1
    <3>3. ~(j < l)
      <4> SUFFICES ASSUME j < l PROVE FALSE
        OBVIOUS
      <4>1. InTree(i, r, k, n)
        BY <1>4 DEF R
      <4>2. m < q
        BY <1>5, <2>4, <3>1, <3>2, <4>1 DEF InTree, R
      <4>3. m \in Nat /\ q \in Nat
        BY <1>5
      <4> QED  BY <3>2, <4>2, <4>3
    <3>4. j \in Nat /\ l \in Nat
      BY <1>5, <2>4
    <3> QED  BY <3>3, <3>4
  <2>6. st[i - 1][a] = out[j].upserts[a]
    BY <1>9, <2>3, <2>4, <2>5
  <2> QED  BY <1>6, <2>3, <2>4, <2>6
<1> QED  BY <1>11, <1>12 DEF AccAt, R

\* So every result is the one in order: by induction over the rows.
LEMMA ResultsInOrder ==
  ASSUME IInv, SInv, AllRun, NEW n \in Nat, n = Len(block), NEW st, NEW out,
         SerialSteps(block, state, n, st, out), CoveredBy(n, st, out)
  PROVE  result = out
<1> DEFINE R(r, k) == ToSet(trees[r][k])
           S == {k \in 1..(n + 1) : \A r \in DOMAIN trees : \A i \in R(r, k) : result[i] = out[i]}
<1>1. \A i \in 1..n : result[i] # Pending
  BY AllRunResults DEF EveryTxHasResult, IInv, BlockOK
<1>2. \A r \in DOMAIN trees : \A k \in 1..(n + 1) : \A x \in R(r, k) : x \in 1..n
  BY RowsInBlock
<1>3. ASSUME NEW k \in 1..(n + 1), \A m \in 1..(k - 1) : m \in S PROVE k \in S
  <2> SUFFICES ASSUME NEW r \in DOMAIN trees, NEW i \in R(r, k) PROVE result[i] = out[i]
    OBVIOUS
  <2>1. i \in 1..n /\ result[i] # Pending /\ i - 1 \in 0..n
    BY <1>1, <1>2
  <2>2. PICK d \in Diff : Saw(i, r, k, d)
    BY <2>1 DEF SInv, ViewOK
  <2>3. /\ AccAt(block, trees, result, r, k - 1, d)
        /\ result[i] = Execute(block[i], OverlayView(state, d))
    BY <2>2 DEF Saw
  <2>4. \A m \in 1..(k - 1) : \A j \in ToSet(trees[r][m]) : result[j] = out[j]
    BY <1>3
  <2>5. WellFormed(block[i]) /\ st[i - 1] \in Store
    BY <2>1 DEF IInv, BlockOK, SerialSteps
  <2>6. \A a \in Touched(block[i], st[i - 1]) : a \in Addr
    BY <2>5, TouchedInAddr
  <2>7. \A a \in Touched(block[i], st[i - 1]) : OverlayView(state, d)[a] = st[i - 1][a]
    <3> SUFFICES ASSUME NEW a \in Touched(block[i], st[i - 1])
                 PROVE  OverlayView(state, d)[a] = st[i - 1][a]
      OBVIOUS
    <3>1. a \in Addr
      BY <2>6
    <3> HIDE DEF S
    <3> QED  BY <2>3, <2>4, <3>1, SameView
  <2>8. Execute(block[i], OverlayView(state, d)) = Execute(block[i], st[i - 1])
    BY <2>7, ExecuteLocal
  <2>9. out[i] = Execute(block[i], st[i - 1])
    BY <2>1 DEF SerialSteps
  <2> QED  BY <2>3, <2>8, <2>9
<1>4. \A k \in 1..(n + 1) : k \in S
  <2>1. n + 1 \in Nat
    OBVIOUS
  <2> HIDE DEF S
  <2> QED  BY <1>3, <2>1, NodeInduction
<1>5. ASSUME NEW i \in 1..n PROVE result[i] = out[i]
  <2>1. PICK r \in DOMAIN trees, k \in 1..(n + 1) : i \in R(r, k)
    BY DEF IInv, PlanOK, Planned
  <2> QED  BY <1>4, <2>1
<1>6. result \in [1..n -> Diff \cup {Failed, Pending}] /\ out \in [1..n -> Diff \cup {Failed}]
  BY DEF SInv, SerialSteps
<1> QED  BY <1>5, <1>6

(***************************************************************************)
(* A block of which the schedule accounts for every conflict has exactly   *)
(* the results, and leaves exactly the state, of its execution in order    *)
(* (schedule.rs:30-36), for every such block, every state before it and    *)
(* every interleaving of the workers.                                      *)
(***************************************************************************)
THEOREM CoveredBlocksSerializable == Spec => []SerializableWhenCovered
<1>1. ASSUME IInv, SInv, AllRun, Covered
      PROVE  LET serial == SerialRun(block, state)[Len(block)]
             IN /\ result = serial.res
                /\ StoreApply(state, BlockDiff) = serial.st
  <2> DEFINE n == Len(block)
  <2>1. n \in Nat /\ DOMAIN block = 1..n /\ state \in Store /\ \A i \in 1..n : WellFormed(block[i])
    BY <1>1 DEF IInv, BlockOK
  <2> HIDE DEF n
  <2>1a. n = Len(block)
    BY DEF n
  <2>2. PICK st, out : /\ SerialSteps(block, state, n, st, out)
                       /\ \A i \in 0..n : SerialRun(block, state)[i].st = st[i]
                       /\ SerialRun(block, state)[n].res = out
    BY <2>1, <2>1a, SerialRunOf
  <2>3. CoveredBy(n, st, out)
    <3>1. \A i \in 1..n : SerialRun(block, state)[i - 1].st = st[i - 1]
      <4>1. \A i \in 1..n : i - 1 \in 0..n
        BY <2>1
      <4> QED  BY <2>2, <4>1
    <3>2. \A i, j \in 1..n :
            LET seen == Writes(block[j]) \cap Touched(block[i], SerialRun(block, state)[i - 1].st)
            IN i # j /\ seen # {} /\ SerialRun(block, state)[n].res[j] # Failed
               => \/ /\ j < i /\ j \in Above(i)
                     /\ seen \cap SerialRun(block, state)[n].res[j].deletes = {}
                  \/ j > i /\ ~(SameTree(i, j) /\ Cardinality(Above(j)) < Cardinality(Above(i)))
      BY <1>1, <2>1 DEF Covered, n
    <3> QED  BY <2>2, <3>1, <3>2 DEF CoveredBy
  <2>4. result = out
    BY <1>1, <2>1, <2>1a, <2>2, <2>3, ResultsInOrder
  <2>5. n \in 0..n /\ st[n] \in Store
    BY <2>1, <2>2 DEF SerialSteps
  <2>6. ASSUME NEW a \in Addr PROVE StoreApply(state, BlockDiff)[a] = st[n][a]
    <3> DEFINE w(j) == Wrote(block, result, j, a)
               W == {j \in 1..n : w(j)}
    <3>1. /\ (\A j \in 1..n : ~w(j)) => StoreApply(state, BlockDiff)[a] = state[a]
          /\ \A j \in 1..n : w(j) /\ (\A m \in 1..n : w(m) => m <= j)
                             => StoreApply(state, BlockDiff)[a] = result[j].upserts[a]
      BY <1>1, BlockDiffAt DEF n
    <3>2. /\ (\A j \in 1..n : ~w(j)) => st[n][a] = state[a]
          /\ \A j \in 1..n : w(j) /\ (\A m \in 1..n : w(m) => m <= j)
                             => st[n][a] = result[j].upserts[a]
      <4>1. LeftAt(block, state, st, out, n, a)
        BY <2>1, <2>2, <2>5, SerialAt
      <4> QED  BY <2>4, <4>1 DEF LeftAt
    <3>3. W \subseteq 1..n
      OBVIOUS
    <3>4. CASE W = {}
      BY <3>1, <3>2, <3>4
    <3>5. CASE W # {}
      <4>1. PICK j \in W : \A m \in W : m <= j
        <5> HIDE DEF W
        <5> QED  BY <2>1, <3>3, <3>5, GreatestPosition
      <4>2. j \in 1..n /\ w(j) /\ \A m \in 1..n : w(m) => m <= j
        BY <4>1
      <4> HIDE DEF w, W
      <4> QED  BY <3>1, <3>2, <4>2
    <3> QED  BY <3>4, <3>5
  <2>7. StoreApply(state, BlockDiff) = st[n]
    <3>1. st[n] = [a \in Addr |-> st[n][a]]
      BY <2>5 DEF Store
    <3>2. StoreApply(state, BlockDiff) = [a \in Addr |-> StoreApply(state, BlockDiff)[a]]
      BY DEF StoreApply
    <3> QED  BY <2>6, <3>1, <3>2
  <2>8. SerialRun(block, state)[n].st = st[n]
    BY <2>2, <2>5
  <2> QED  BY <2>2, <2>4, <2>7, <2>8 DEF n
<1>2. IInv /\ SInv => SerializableWhenCovered
  BY <1>1 DEF SerializableWhenCovered
<1> QED  BY <1>2, AlwaysSInv, PTL
================================================================================
