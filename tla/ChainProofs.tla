------------------------------ MODULE ChainProofs ------------------------------
(***************************************************************************)
(* For any transactions, keys, followers and calls, and whatever gossip    *)
(* loses, repeats or reorders: the histories of the builders are chains,   *)
(* their states are those of the blocks since the one they started from,   *)
(* and the watchlists hold exactly the waiting calls.                      *)
(***************************************************************************)
EXTENDS Chain, SequenceTheorems, WellFoundedInduction, TLAPS

(* Induction over the naturals, for sets.                                  *)

\* Every set of naturals that has an element has a least one.
LEMMA LeastNatural ==
  ASSUME NEW T, T \subseteq Nat, T # {}
  PROVE  \E x \in T : \A y \in T : x <= y
<1> DEFINE R == {ss \in Nat \X Nat : ss[1] < ss[2]}
<1>1. IsWellFoundedOn(R, Nat)
  BY NatLessThanWellFounded DEF OpToRel
<1>2. \A x, y \in Nat : y < x => <<y, x>> \in R
  OBVIOUS
<1> HIDE DEF R
<1>3. PICK x \in T : \A y \in T : <<y, x>> \notin R
  BY <1>1, WFMin
<1>4. ASSUME NEW y \in T PROVE x <= y
  <2>1. x \in Nat /\ y \in Nat
    OBVIOUS
  <2>2. ~(y < x)
    BY <1>2, <1>3, <2>1
  <2> QED  BY <2>1, <2>2
<1> QED  BY <1>4

\* A set that contains 0 and the successors of its elements has all naturals.
LEMMA NatSetInduction ==
  ASSUME NEW S, 0 \in S, \A n \in Nat : n \in S => n + 1 \in S
  PROVE  \A n \in Nat : n \in S
<1> DEFINE T == Nat \ S
<1> SUFFICES ASSUME T # {} PROVE FALSE
  OBVIOUS
<1>1. T \subseteq Nat
  OBVIOUS
<1>2. PICK x \in T : \A y \in T : x <= y
  <2> HIDE DEF T
  <2> QED  BY <1>1, LeastNatural
<1>3. x \in Nat /\ x # 0 /\ x - 1 \in Nat /\ x - 1 \notin T
  BY <1>2
<1> QED  BY <1>3

--------------------------------------------------------------------------------
(* Concatenation of the transactions of several blocks.                    *)

\* f[i] is the concatenation of the first i sequences of s.
Flattens(s, f) ==
  f = [i \in 1..Len(s) |-> IF i = 1 THEN s[i] ELSE f[i - 1] \o s[i]]

\* Such a function exists, so FlattenSeq is what its definition says.
LEMMA FlattensExists ==
  ASSUME NEW s \in Seq(Seq(Tx))
  PROVE  \E f \in [1..Len(s) -> Seq(Tx)] : Flattens(s, f)
<1> DEFINE L == Len(s)
           Val(f, i) == IF i = 1 THEN s[i] ELSE f[i - 1] \o s[i]
           Upto(n) == \E f \in [1..n -> Seq(Tx)] : \A i \in 1..n : f[i] = Val(f, i)
           S == {n \in Nat : n <= L => Upto(n)}
<1>0. L \in Nat /\ \A i \in 1..L : s[i] \in Seq(Tx)
  OBVIOUS
<1> HIDE DEF L
<1>1. 0 \in S
  <2>1. [i \in 1..0 |-> <<>>] \in [1..0 -> Seq(Tx)]
    OBVIOUS
  <2>2. \A i \in 1..0 : FALSE
    OBVIOUS
  <2>3. Upto(0)
    <3> HIDE DEF Val
    <3> QED  BY <2>1, <2>2
  <2> HIDE DEF Upto
  <2> QED  BY <2>3
<1>2. ASSUME NEW n \in Nat, n \in S PROVE n + 1 \in S
  <2>1. SUFFICES ASSUME n + 1 <= L PROVE Upto(n + 1)
    <3> HIDE DEF Upto
    <3> QED  OBVIOUS
  <2>2. Upto(n)
    <3> HIDE DEF Upto
    <3> QED  BY <1>0, <1>2, <2>1
  <2>3. PICK f \in [1..n -> Seq(Tx)] : \A i \in 1..n : f[i] = Val(f, i)
    <3> HIDE DEF Val
    <3> QED  BY <2>2
  <2>4. n + 1 \in 1..L /\ s[n + 1] \in Seq(Tx)
    BY <1>0, <2>1
  <2>5. PICK last \in Seq(Tx) : last = IF n = 0 THEN s[n + 1] ELSE f[n] \o s[n + 1]
    <3>1. CASE n = 0
      BY <2>4, <3>1
    <3>2. CASE n # 0
      <4>1. f[n] \in Seq(Tx)
        BY <3>2
      <4>2. f[n] \o s[n + 1] \in Seq(Tx)
        BY <2>4, <4>1
      <4> QED  BY <3>2, <4>2
    <3> QED  BY <3>1, <3>2
  <2>6. PICK g \in [1..(n + 1) -> Seq(Tx)] :
          g[n + 1] = last /\ \A i \in 1..n : g[i] = f[i]
    <3> DEFINE gg == [i \in 1..(n + 1) |-> IF i = n + 1 THEN last ELSE f[i]]
    <3>1. gg \in [1..(n + 1) -> Seq(Tx)]
      OBVIOUS
    <3>2. gg[n + 1] = last /\ \A i \in 1..n : gg[i] = f[i]
      OBVIOUS
    <3> HIDE DEF gg
    <3> QED  BY <3>1, <3>2
  <2>7. ASSUME NEW i \in 1..(n + 1) PROVE g[i] = Val(g, i)
    <3>1. CASE i \in 1..n
      <4>1. i # 1 => i - 1 \in 1..n
        BY <3>1
      <4>2. Val(g, i) = Val(f, i)
        BY <2>6, <4>1
      <4> HIDE DEF Val
      <4> QED  BY <2>3, <2>6, <3>1, <4>2
    <3>2. CASE i = n + 1
      <4>1. CASE n = 0
        BY <2>5, <2>6, <3>2, <4>1
      <4>2. CASE n # 0
        <5>1. n \in 1..n /\ i # 1 /\ i - 1 = n
          BY <3>2, <4>2
        <5>2. g[i - 1] = f[n]
          BY <2>6, <5>1
        <5> QED  BY <2>5, <2>6, <3>2, <4>2, <5>1, <5>2
      <4> QED  BY <4>1, <4>2
    <3>3. i \in 1..n \/ i = n + 1
      OBVIOUS
    <3> QED  BY <3>1, <3>2, <3>3
  <2> HIDE DEF Val
  <2> QED  BY <2>7
<1>3. \A n \in Nat : n \in S
  <2> HIDE DEF S
  <2> QED  BY <1>1, <1>2, NatSetInduction
<1>4. Upto(L)
  <2> HIDE DEF Upto
  <2> QED  BY <1>0, <1>3
<1>5. PICK f \in [1..L -> Seq(Tx)] : \A i \in 1..L : f[i] = Val(f, i)
  <2> HIDE DEF Val
  <2> QED  BY <1>4
<1>6. f = [i \in 1..L |-> Val(f, i)]
  <2> HIDE DEF Val
  <2> QED  BY <1>5
<1>7. Flattens(s, f)
  BY <1>6 DEF Flattens, L
<1> QED  BY <1>7 DEF L

\* The concatenation of a sequence of sequences with one more at its end.
LEMMA FlattenAppend ==
  ASSUME NEW s \in Seq(Seq(Tx)), NEW t \in Seq(Tx)
  PROVE  /\ FlattenSeq(s) \in Seq(Tx)
         /\ FlattenSeq(Append(s, t)) = FlattenSeq(s) \o t
<1> DEFINE F(u) == CHOOSE f : Flattens(u, f)
           L == Len(s)
<1>1. PICK st \in Seq(Seq(Tx)) :
        /\ st = Append(s, t) /\ Len(st) = L + 1 /\ L \in Nat
        /\ \A i \in 1..L : st[i] = s[i]
        /\ st[L + 1] = t
  <2>1. Append(s, t) \in Seq(Seq(Tx))
    BY AppendProperties
  <2>2. /\ Len(Append(s, t)) = L + 1 /\ L \in Nat
        /\ \A i \in 1..L : Append(s, t)[i] = s[i]
        /\ Append(s, t)[L + 1] = t
    BY AppendProperties
  <2> QED  BY <2>1, <2>2
<1>2. Flattens(s, F(s)) /\ Flattens(st, F(st))
  <2>1. \E f : Flattens(s, f)
    BY FlattensExists
  <2>2. \E f : Flattens(st, f)
    BY FlattensExists
  <2> QED  BY <2>1, <2>2
<1>3. \A u : FlattenSeq(u) = IF Len(u) = 0 THEN u ELSE F(u)[Len(u)]
  BY DEF FlattenSeq, Flattens
<1> DEFINE f == F(s)
           g == F(st)
<1>4. Flattens(s, f) /\ Flattens(st, g)
  BY <1>2
<1>5. /\ FlattenSeq(s) = IF L = 0 THEN s ELSE f[L]
      /\ FlattenSeq(st) = g[L + 1]
  <2>1. L + 1 # 0
    BY <1>1
  <2> HIDE DEF F
  <2> QED  BY <1>1, <1>3, <2>1
<1> HIDE DEF f, g, F
<1>6. \A i \in 1..L : f[i] = IF i = 1 THEN s[i] ELSE f[i - 1] \o s[i]
  BY <1>4 DEF Flattens
<1>7. \A i \in 1..(L + 1) : g[i] = IF i = 1 THEN st[i] ELSE g[i - 1] \o st[i]
  BY <1>1, <1>4 DEF Flattens
<1>8. PICK e \in [1..L -> Seq(Tx)] : Flattens(s, e)
  BY FlattensExists
<1>9. \A i \in 1..L : e[i] = IF i = 1 THEN s[i] ELSE e[i - 1] \o s[i]
  BY <1>8 DEF Flattens
<1> HIDE DEF L
<1> DEFINE S == {n \in Nat : n \in 1..L => f[n] = e[n] /\ g[n] = e[n]}
<1>10. \A n \in Nat : n \in S
  <2>1. 0 \in S
    BY <1>1
  <2>2. ASSUME NEW n \in Nat, n \in S PROVE n + 1 \in S
    <3> SUFFICES ASSUME n + 1 \in 1..L PROVE f[n + 1] = e[n + 1] /\ g[n + 1] = e[n + 1]
      OBVIOUS
    <3>0. n + 1 \in 1..(L + 1)
      BY <1>1
    <3>1. CASE n = 0
      <4>1. n + 1 = 1 /\ 1 \in 1..L /\ 1 \in 1..(L + 1)
        BY <3>0, <3>1
      <4>2. f[1] = s[1] /\ g[1] = st[1] /\ e[1] = s[1] /\ st[1] = s[1]
        BY <1>1, <1>6, <1>7, <1>9, <4>1
      <4> QED  BY <4>1, <4>2
    <3>2. CASE n # 0
      <4>1. n \in 1..L /\ (n + 1) - 1 = n /\ n + 1 # 1
        BY <1>1, <3>2
      <4>2. f[n] = e[n] /\ g[n] = e[n]
        BY <2>2, <4>1
      <4>3. f[n + 1] = f[n] \o s[n + 1]
        BY <1>6, <4>1
      <4>4. g[n + 1] = g[n] \o st[n + 1]
        BY <1>7, <3>0, <4>1
      <4>5. e[n + 1] = e[n] \o s[n + 1]
        BY <1>9, <4>1
      <4>6. st[n + 1] = s[n + 1]
        BY <1>1
      <4> QED  BY <4>2, <4>3, <4>4, <4>5, <4>6
    <3> QED  BY <3>1, <3>2
  <2> HIDE DEF S
  <2> QED  BY <2>1, <2>2, NatSetInduction
<1>11. CASE L = 0
  <2>1. s = <<>> /\ FlattenSeq(s) = <<>>
    BY <1>5, <1>11 DEF L
  <2>2. 1 \in 1..(L + 1) /\ L + 1 = 1
    BY <1>11
  <2>3. FlattenSeq(st) = t
    BY <1>1, <1>5, <1>7, <2>2
  <2> QED  BY <1>1, <2>1, <2>3
<1>12. CASE L # 0
  <2>1. L \in 1..L /\ L + 1 \in 1..(L + 1) /\ L + 1 # 1 /\ (L + 1) - 1 = L
    BY <1>1, <1>12
  <2>2. f[L] = e[L] /\ g[L] = e[L] /\ e[L] \in Seq(Tx)
    BY <1>1, <1>10, <2>1
  <2>3. g[L + 1] = g[L] \o t
    BY <1>1, <1>7, <2>1
  <2> QED  BY <1>1, <1>5, <1>12, <2>2, <2>3
<1> QED  BY <1>11, <1>12
--------------------------------------------------------------------------------
(* The chain that ends in a block.                                         *)

\* f maps the heights from n to that of b to the blocks of the chain of b.
Ups(b, n, f) ==
  f = [m \in n..b.height |-> IF m = b.height THEN b ELSE f[m + 1].parent]

\* Such a function exists, so AtHeight is what its definition says.
LEMMA UpsExists ==
  ASSUME NEW b, b.height \in Nat, NEW n \in Nat, n <= b.height
  PROVE  \E f : Ups(b, n, f)
<1> DEFINE h == b.height
           Val(f, m) == IF m = h THEN b ELSE f[m + 1].parent
           Down(k) == \E f : f = [m \in (h - k)..h |-> Val(f, m)]
           S == {k \in Nat : k <= h => Down(k)}
<1>0. h \in Nat
  OBVIOUS
<1>1. 0 \in S
  <2> DEFINE f == [m \in (h - 0)..h |-> b]
  <2>1. \A m \in (h - 0)..h : m = h
    BY <1>0
  <2>2. \A m \in (h - 0)..h : Val(f, m) = b
    BY <2>1
  <2>3. f = [m \in (h - 0)..h |-> Val(f, m)]
    <3> HIDE DEF Val, h
    <3> QED  BY <2>2
  <2>4. Down(0)
    <3> HIDE DEF Val, f, h
    <3> QED  BY <2>3
  <2> HIDE DEF Down, h
  <2> QED  BY <2>4
<1> HIDE DEF h
<1>2. ASSUME NEW k \in Nat, k \in S PROVE k + 1 \in S
  <2>1. SUFFICES ASSUME k + 1 <= h PROVE Down(k + 1)
    <3> HIDE DEF Down
    <3> QED  OBVIOUS
  <2>2. Down(k)
    <3> HIDE DEF Down
    <3> QED  BY <1>0, <1>2, <2>1
  <2>3. PICK f : f = [m \in (h - k)..h |-> Val(f, m)]
    <3> HIDE DEF Val
    <3> QED  BY <2>2
  <2>4. /\ h - k \in (h - k)..h /\ h - k \in Nat /\ h - (k + 1) \in Nat
        /\ h - (k + 1) + 1 = h - k /\ h - (k + 1) # h
        /\ \A m \in (h - (k + 1))..h : m = h - (k + 1) \/ m \in (h - k)..h
        /\ \A m \in (h - k)..h : m # h - (k + 1) /\ m \in (h - (k + 1))..h
    BY <1>0, <2>1
  <2> DEFINE g == [m \in (h - (k + 1))..h |->
                     IF m = h - (k + 1) THEN f[h - k].parent ELSE f[m]]
  <2>5. \A m \in (h - k)..h : g[m] = f[m]
    <3> HIDE DEF Val
    <3> QED  BY <2>4
  <2>6. ASSUME NEW m \in (h - (k + 1))..h PROVE g[m] = Val(g, m)
    <3>1. CASE m = h - (k + 1)
      <4>1. g[m] = f[h - k].parent
        BY <3>1
      <4>2. g[m + 1] = f[h - k] /\ m # h
        BY <2>4, <2>5, <3>1
      <4> QED  BY <4>1, <4>2
    <3>2. CASE m \in (h - k)..h
      <4>1. m # h => m + 1 \in (h - k)..h
        BY <1>0, <2>4, <3>2
      <4>2. g[m] = f[m] /\ (m # h => g[m + 1] = f[m + 1])
        BY <2>5, <3>2, <4>1
      <4>3. f[m] = Val(f, m)
        <5> HIDE DEF Val
        <5> QED  BY <2>3, <3>2
      <4> QED  BY <4>2, <4>3
    <3> QED  BY <2>4, <3>1, <3>2
  <2>7. g = [m \in (h - (k + 1))..h |-> Val(g, m)]
    <3> HIDE DEF Val
    <3> QED  BY <2>6
  <2> HIDE DEF g, Val
  <2> QED  BY <2>7
<1>3. \A k \in Nat : k \in S
  <2> HIDE DEF S
  <2> QED  BY <1>1, <1>2, NatSetInduction
<1>4. h - n \in Nat /\ h - n <= h /\ h - (h - n) = n
  BY <1>0 DEF h
<1>5. Down(h - n)
  <2> HIDE DEF Down
  <2> QED  BY <1>3, <1>4
<1>6. PICK f : f = [m \in n..h |-> Val(f, m)]
  <2> HIDE DEF Val
  <2> QED  BY <1>4, <1>5
<1> QED  BY <1>6 DEF Ups, h

\* A block is the one at its own height, and below it its chain is that of its
\* parent.
LEMMA AtHeightPush ==
  ASSUME NEW b, b.height \in Nat,
         NEW c, c.parent = b, c.height = b.height + 1
  PROVE  /\ AtHeight(c, c.height) = c
         /\ \A n \in Nat : n <= b.height => AtHeight(c, n) = AtHeight(b, n)
<1> DEFINE U(x, n) == CHOOSE f : Ups(x, n, f)
<1>1. \A x, n : AtHeight(x, n) = U(x, n)[n]
  BY DEF AtHeight, Ups
<1>2. c.height \in Nat
  OBVIOUS
<1>3. AtHeight(c, c.height) = c
  <2>1. Ups(c, c.height, U(c, c.height))
    <3>1. \E f : Ups(c, c.height, f)
      BY <1>2, UpsExists
    <3> QED  BY <3>1
  <2> DEFINE f == U(c, c.height)
  <2> HIDE DEF f
  <2>2. c.height \in c.height..c.height
    BY <1>2
  <2>3. f[c.height] = c
    BY <2>1, <2>2 DEF Ups, f
  <2> QED  BY <1>1, <2>3 DEF f
<1>4. ASSUME NEW n \in Nat, n <= b.height PROVE AtHeight(c, n) = AtHeight(b, n)
  <2> DEFINE h == b.height
  <2>1. PICK f : f = U(b, n)
    OBVIOUS
  <2>2. PICK g : g = U(c, n)
    OBVIOUS
  <2>3. Ups(b, n, f) /\ Ups(c, n, g)
    <3>1. \E x : Ups(b, n, x)
      BY <1>4, UpsExists
    <3>2. \E x : Ups(c, n, x)
      BY <1>2, <1>4, UpsExists
    <3> QED  BY <2>1, <2>2, <3>1, <3>2
  <2>4. h \in Nat /\ c.height = h + 1 /\ c.parent = b /\ n <= h
    BY <1>4
  <2>5. \A m \in n..h : f[m] = IF m = h THEN b ELSE f[m + 1].parent
    BY <2>3 DEF Ups
  <2>6. \A m \in n..(h + 1) : g[m] = IF m = h + 1 THEN c ELSE g[m + 1].parent
    BY <2>3, <2>4 DEF Ups
  <2> HIDE DEF h
  <2> DEFINE S == {k \in Nat : k <= h - n => g[h - k] = f[h - k]}
  <2>7. 0 \in S
    <3>1. h \in n..h /\ h \in n..(h + 1) /\ h + 1 \in n..(h + 1) /\ h # h + 1 /\ h - 0 = h
      BY <2>4
    <3>2. f[h] = b /\ g[h] = g[h + 1].parent /\ g[h + 1] = c
      BY <2>5, <2>6, <3>1
    <3> QED  BY <2>4, <3>1, <3>2
  <2>8. ASSUME NEW k \in Nat, k \in S PROVE k + 1 \in S
    <3> SUFFICES ASSUME k + 1 <= h - n PROVE g[h - (k + 1)] = f[h - (k + 1)]
      OBVIOUS
    <3> DEFINE m == h - (k + 1)
    <3>1. m \in n..h /\ m \in n..(h + 1) /\ m # h /\ m # h + 1 /\ m + 1 = h - k
      BY <2>4
    <3>2. g[h - k] = f[h - k]
      BY <2>4, <2>8
    <3> HIDE DEF m
    <3>3. f[m] = f[m + 1].parent
      BY <2>5, <3>1
    <3>4. g[m] = g[m + 1].parent
      BY <2>6, <3>1
    <3>5. f[m] = g[m]
      BY <3>1, <3>2, <3>3, <3>4
    <3> QED  BY <3>5 DEF m
  <2>9. \A k \in Nat : k \in S
    <3> HIDE DEF S
    <3> QED  BY <2>7, <2>8, NatSetInduction
  <2>10. h - n \in Nat /\ h - (h - n) = n
    BY <2>4
  <2>11. g[n] = f[n]
    BY <2>9, <2>10
  <2> QED  BY <1>1, <2>1, <2>2, <2>11
<1> QED  BY <1>3, <1>4

\* The transactions of the blocks after s up to b, block by block.
Since(s, b) == [i \in 1..(b.height - s.height) |-> AtHeight(b, s.height + i).txs]

\* One block more appends its transactions.
LEMMA SincePush ==
  ASSUME NEW s, s.height \in Nat,
         NEW b, b.height \in Nat, s.height <= b.height, Since(s, b) \in Seq(Seq(Tx)),
         NEW c, c.parent = b, c.height = b.height + 1, c.txs \in Seq(Tx)
  PROVE  /\ Since(s, c) \in Seq(Seq(Tx))
         /\ FlattenSeq(Since(s, c)) = FlattenSeq(Since(s, b)) \o c.txs
         /\ FlattenSeq(Since(s, b)) \in Seq(Tx)
<1> DEFINE l == b.height - s.height
<1>1. l \in Nat /\ c.height - s.height = l + 1 /\ s.height + (l + 1) = c.height
  OBVIOUS
<1>2. ASSUME NEW i \in 1..l PROVE AtHeight(c, s.height + i) = AtHeight(b, s.height + i)
  <2>1. s.height + i \in Nat /\ s.height + i <= b.height
    BY <1>1
  <2> QED  BY <2>1, AtHeightPush
<1>3. AtHeight(c, c.height) = c
  BY AtHeightPush
<1>4. PICK u \in Seq(Seq(Tx)) : u = Since(s, b)
  OBVIOUS
<1>5. /\ Len(u) = l
      /\ \A i \in 1..l : u[i] = AtHeight(b, s.height + i).txs
  <2>1. u = [i \in 1..l |-> AtHeight(b, s.height + i).txs]
    BY <1>4 DEF Since
  <2> HIDE DEF l
  <2>2. DOMAIN u = 1..l
    BY <2>1
  <2>3. Len(u) = l
    BY <1>1, <2>2, LenProperties
  <2> QED  BY <2>1, <2>3
<1>6. Since(s, c) = Append(u, c.txs)
  <2> DEFINE v == Append(u, c.txs)
  <2>1. v \in Seq(Seq(Tx)) /\ Len(v) = l + 1 /\ v[l + 1] = c.txs
        /\ \A i \in 1..l : v[i] = u[i]
    BY <1>5, AppendProperties
  <2>2. v = [i \in 1..(l + 1) |-> v[i]]
    <3> HIDE DEF v
    <3> QED  BY <2>1
  <2>3. \A i \in 1..(l + 1) : v[i] = AtHeight(c, s.height + i).txs
    <3> TAKE i \in 1..(l + 1)
    <3>1. CASE i = l + 1
      BY <1>1, <1>3, <2>1, <3>1
    <3>2. CASE i \in 1..l
      BY <1>2, <1>5, <2>1, <3>2
    <3>3. i = l + 1 \/ i \in 1..l
      <4> HIDE DEF l
      <4> QED  BY <1>1
    <3> QED  BY <3>1, <3>2, <3>3
  <2>4. Since(s, c) = [i \in 1..(l + 1) |-> AtHeight(c, s.height + i).txs]
    BY <1>1 DEF Since
  <2> HIDE DEF v, l
  <2>5. v = [i \in 1..(l + 1) |-> AtHeight(c, s.height + i).txs]
    BY <2>2, <2>3
  <2>6. v = Since(s, c)
    BY <2>4, <2>5
  <2> QED  BY <2>6 DEF v
<1>7. Append(u, c.txs) \in Seq(Seq(Tx))
  BY AppendProperties
<1> QED  BY <1>4, <1>6, <1>7, FlattenAppend

\* Between a block and itself there is none.
LEMMA SinceSelf ==
  ASSUME NEW b, b.height \in Nat
  PROVE  Since(b, b) \in Seq(Seq(Tx)) /\ FlattenSeq(Since(b, b)) = <<>>
<1>1. Since(b, b) = <<>>
  <2>1. 1..(b.height - b.height) = {}
    OBVIOUS
  <2>2. Since(b, b) = [i \in {} |-> AtHeight(b, b.height + i).txs]
    BY <2>1 DEF Since
  <2> QED  BY <2>2
<1>2. <<>> \in Seq(Seq(Tx)) /\ FlattenSeq(<<>>) = <<>>
  BY DEF FlattenSeq
<1> QED  BY <1>1, <1>2

--------------------------------------------------------------------------------
(* The inductive invariant.                                                *)

\* The blocks in circulation are members of a set S of well-formed blocks.
BlocksOK(S) ==
  /\ \A x \in S : x.height \in Nat /\ x.txs \in Seq(Tx)
  /\ recent \in [Builder -> Seq(S)]
  /\ start \in [Builder -> S \cup {None}]
  /\ wire \in [Follower -> Seq(S)]
  /\ taken \in [Follower -> S \cup {None}]

\* The producer has a block from the start, and a follower takes blocks from
\* its stream only once it has one.
HeadsOK ==
  /\ recent[Producer] # <<>>
  /\ \A f \in Follower : taken[f] # None => recent[f] # <<>>

TxsOK ==
  /\ mempool \in Seq(Tx) /\ txwire \in Seq(Tx)
  /\ applied \in [Builder -> Seq(Tx)]

\* What a builder has executed, relative to its first and last block.
StateOK(b) ==
  IF recent[b] = <<>> THEN applied[b] = <<>>
  ELSE /\ start[b].height \in Nat /\ start[b].height <= LastBlock(b).height
       /\ Since(start[b], LastBlock(b)) \in Seq(Seq(Tx))
       /\ applied[b] = FlattenSeq(Since(start[b], LastBlock(b)))

ChainInv ==
  /\ \E S : BlocksOK(S)
  /\ HeadsOK /\ TxsOK
  /\ \A b \in Builder : StateOK(b)
  /\ RecentIsChain
  /\ panicked = FALSE

LEMMA ChainInit == Init => ChainInv
<1> SUFFICES ASSUME Init PROVE ChainInv
  OBVIOUS
<1> USE ChainAssumption
<1>1. BlocksOK({Zero})
  <2>1. Zero.height \in Nat /\ Zero.txs \in Seq(Tx)
    BY DEF Zero
  <2>2. <<Zero>> \in Seq({Zero}) /\ <<>> \in Seq({Zero})
    OBVIOUS
  <2> HIDE DEF Zero
  <2> QED  BY <2>1, <2>2 DEF Init, BlocksOK, Builder
<1>2. HeadsOK /\ TxsOK /\ panicked = FALSE
  BY DEF Init, HeadsOK, TxsOK, Builder
<1>3. ASSUME NEW b \in Builder PROVE StateOK(b)
  <2>1. CASE b = Producer
    <3>1. /\ recent[b] = <<Zero>> /\ recent[b] # <<>> /\ LastBlock(b) = Zero
          /\ start[b] = Zero /\ applied[b] = <<>>
      BY <2>1 DEF Init, LastBlock, Builder
    <3>2. Zero.height = 0
      BY DEF Zero
    <3>3. Since(Zero, Zero) \in Seq(Seq(Tx)) /\ FlattenSeq(Since(Zero, Zero)) = <<>>
      BY <3>2, SinceSelf
    <3> QED  BY <3>1, <3>2, <3>3 DEF StateOK
  <2>2. CASE b # Producer
    BY <2>2 DEF Init, StateOK
  <2> QED  BY <2>1, <2>2
<1>4. RecentIsChain
  <2>1. ASSUME NEW b \in Builder
        PROVE  Len(recent[b]) \in {0, 1}
    BY DEF Init
  <2>2. ASSUME NEW b \in Builder
        PROVE  Len(recent[b]) <= HistoryLen /\ 1..(Len(recent[b]) - 1) = {}
    <3>1. HistoryLen \in Nat /\ HistoryLen >= 1
      OBVIOUS
    <3>2. CASE Len(recent[b]) = 0
      BY <3>1, <3>2
    <3>3. CASE Len(recent[b]) = 1
      BY <3>1, <3>3
    <3> QED  BY <2>1, <3>2, <3>3
  <2> QED  BY <2>2 DEF RecentIsChain
<1> QED  BY <1>1, <1>2, <1>3, <1>4 DEF ChainInv

\* A history with one block more, after the trimming.
LEMMA PushProperties ==
  ASSUME NEW S, NEW h \in Seq(S), h # <<>>, NEW block \in S, block.parent = Head(h),
         Len(h) <= HistoryLen, \A i \in 1..(Len(h) - 1) : h[i].parent = h[i + 1]
  PROVE  /\ Push(h, block) \in Seq(S) /\ Push(h, block) # <<>>
         /\ Head(Push(h, block)) = block
         /\ Len(Push(h, block)) <= HistoryLen
         /\ \A i \in 1..(Len(Push(h, block)) - 1) :
              Push(h, block)[i].parent = Push(h, block)[i + 1]
<1>1. HistoryLen \in Nat /\ HistoryLen >= 1
  BY ChainAssumption
<1>2. PICK l \in Seq(S) : l = <<block>> \o h
  <2>1. <<block>> \in Seq(S)
    OBVIOUS
  <2>2. <<block>> \o h \in Seq(S)
    BY <2>1, ConcatProperties
  <2> QED  BY <2>2
<1>3. /\ Len(l) = Len(h) + 1 /\ Len(h) \in Nat /\ Len(h) >= 1
      /\ l[1] = block /\ \A i \in 2..Len(l) : l[i] = h[i - 1]
  BY <1>2
<1>4. ASSUME NEW i \in 1..(Len(l) - 1) PROVE l[i].parent = l[i + 1]
  <2>1. CASE i = 1
    <3>1. l[2] = h[1] /\ h[1] = Head(h)
      BY <1>3
    <3> QED  BY <1>3, <2>1, <3>1
  <2>2. CASE i # 1
    <3>1. /\ i \in 2..Len(l) /\ i + 1 \in 2..Len(l)
          /\ i - 1 \in 1..(Len(h) - 1) /\ (i + 1) - 1 = i /\ (i - 1) + 1 = i
      BY <1>3, <2>2
    <3>2. l[i] = h[i - 1] /\ l[i + 1] = h[i]
      BY <1>3, <3>1
    <3> QED  BY <3>1, <3>2
  <2> QED  BY <2>1, <2>2
<1>5. CASE Len(l) > HistoryLen
  <2>1. PICK p \in Seq(S) : p = Front(l) /\ Len(p) = Len(l) - 1
                            /\ \A i \in 1..Len(p) : p[i] = l[i]
    <3> DEFINE n == Len(l) - 1
               p == SubSeq(l, 1, n)
    <3>1. 1 \in 1..(Len(l) + 1) /\ n \in 0..Len(l) /\ n - 1 + 1 = n /\ 1 <= n + 1
      BY <1>3
    <3>2. p \in Seq(S) /\ Len(p) = n
      BY <1>3, <3>1, SubSeqProperties
    <3>3. \A i \in 1..n : p[i] = l[i]
      BY <1>3, <3>1, SubSeqProperties
    <3>4. p = Front(l)
      BY DEF Front
    <3> HIDE DEF p
    <3> QED  BY <3>2, <3>3, <3>4
  <2>2. Push(h, block) = p
    BY <1>2, <1>5, <2>1 DEF Push
  <2>3. Len(p) <= HistoryLen /\ Len(p) \in Nat /\ 1 \in 1..Len(p)
    BY <1>1, <1>3, <2>1
  <2>4. p # <<>> /\ Head(p) = block
    BY <1>3, <2>1, <2>3
  <2>5. ASSUME NEW i \in 1..(Len(p) - 1) PROVE p[i].parent = p[i + 1]
    <3>1. i \in 1..Len(p) /\ i + 1 \in 1..Len(p) /\ i \in 1..(Len(l) - 1)
      BY <1>3, <2>1, <2>3
    <3> QED  BY <1>4, <2>1, <3>1
  <2> QED  BY <2>2, <2>3, <2>4, <2>5
<1>6. CASE ~(Len(l) > HistoryLen)
  <2>1. Push(h, block) = l
    BY <1>2, <1>6 DEF Push
  <2>2. Len(l) <= HistoryLen
    BY <1>1, <1>3, <1>6
  <2>3. l # <<>> /\ Head(l) = block
    BY <1>3
  <2> QED  BY <1>4, <2>1, <2>2, <2>3
<1> QED  BY <1>5, <1>6

\* BlockStateBuilder::consume keeps a builder's history and state consistent.
LEMMA ConsumeKeeps ==
  ASSUME NEW S, BlocksOK(S), TxsOK, \A c \in Builder : StateOK(c), RecentIsChain,
         NEW b \in Builder, recent[b] # <<>>, NEW block \in S,
         ConsumeBlock(b, block), start' = start
  PROVE  /\ recent' \in [Builder -> Seq(S)]
         /\ \A c \in Builder : recent'[c] = <<>> <=> recent[c] = <<>>
         /\ applied' \in [Builder -> Seq(Tx)]
         /\ \A c \in Builder : StateOK(c)'
         /\ RecentIsChain'
<1>1. CASE ~Accepts(b, block)
  <2>1. recent' = recent /\ applied' = applied
    BY <1>1 DEF ConsumeBlock
  <2>2. \A c \in Builder : StateOK(c)'
    BY <2>1 DEF StateOK, LastBlock
  <2> QED  BY <2>1, <2>2 DEF BlocksOK, TxsOK, RecentIsChain
<1>2. CASE Accepts(b, block)
  <2>1. /\ recent' = [recent EXCEPT ![b] = Push(recent[b], block)]
        /\ applied' = [applied EXCEPT ![b] = applied[b] \o block.txs]
    BY <1>2 DEF ConsumeBlock
  <2>2. /\ block.parent = Head(recent[b])
        /\ block.height = Head(recent[b]).height + 1
    BY <1>2 DEF Accepts, LastBlock
  <2>3. /\ recent \in [Builder -> Seq(S)] /\ applied \in [Builder -> Seq(Tx)]
        /\ block.txs \in Seq(Tx) /\ block.height \in Nat
    BY DEF BlocksOK, TxsOK
  <2>4. Head(recent[b]) \in S /\ Head(recent[b]).height \in Nat
    BY <2>3 DEF BlocksOK
  <2> DEFINE p == Push(recent[b], block)
  <2>5. /\ p \in Seq(S) /\ p # <<>> /\ Head(p) = block /\ Len(p) <= HistoryLen
        /\ \A i \in 1..(Len(p) - 1) : p[i].parent = p[i + 1]
    BY <2>2, <2>3, PushProperties DEF RecentIsChain
  <2> HIDE DEF p
  <2>6. /\ recent'[b] = p /\ applied'[b] = applied[b] \o block.txs
        /\ \A c \in Builder \ {b} : recent'[c] = recent[c] /\ applied'[c] = applied[c]
    BY <2>1, <2>3 DEF p
  <2>7. recent' \in [Builder -> Seq(S)]
    BY <2>1, <2>3, <2>5 DEF p
  <2>8. applied' \in [Builder -> Seq(Tx)]
    <3>1. applied[b] \o block.txs \in Seq(Tx)
      BY <2>3
    <3> QED  BY <2>1, <2>3, <3>1
  <2>9. StateOK(b)'
    <3>1. /\ start[b].height \in Nat /\ start[b].height <= Head(recent[b]).height
          /\ Since(start[b], Head(recent[b])) \in Seq(Seq(Tx))
          /\ applied[b] = FlattenSeq(Since(start[b], Head(recent[b])))
      BY DEF StateOK, LastBlock
    <3>2. /\ Since(start[b], block) \in Seq(Seq(Tx))
          /\ FlattenSeq(Since(start[b], block))
               = FlattenSeq(Since(start[b], Head(recent[b]))) \o block.txs
      <4>1. PICK s, hd : s = start[b] /\ hd = Head(recent[b])
        OBVIOUS
      <4>2. /\ s.height \in Nat /\ hd.height \in Nat /\ s.height <= hd.height
            /\ Since(s, hd) \in Seq(Seq(Tx))
            /\ block.parent = hd /\ block.height = hd.height + 1 /\ block.txs \in Seq(Tx)
        BY <2>2, <2>3, <2>4, <3>1, <4>1
      <4>3. /\ Since(s, block) \in Seq(Seq(Tx))
            /\ FlattenSeq(Since(s, block)) = FlattenSeq(Since(s, hd)) \o block.txs
        BY ONLY <4>2, SincePush
      <4> QED  BY <4>1, <4>3
    <3>3. start[b].height <= block.height
      BY <2>2, <2>4, <3>1
    <3>4. applied'[b] = FlattenSeq(Since(start[b], block))
      BY <2>6, <3>1, <3>2
    <3>5. recent'[b] # <<>> /\ LastBlock(b)' = block /\ start'[b] = start[b]
      BY <2>5, <2>6 DEF LastBlock
    <3> QED  BY <3>1, <3>2, <3>3, <3>4, <3>5 DEF StateOK
  <2>10. ASSUME NEW c \in Builder \ {b} PROVE StateOK(c)'
    <3>1. recent'[c] = recent[c] /\ applied'[c] = applied[c] /\ start'[c] = start[c]
      BY <2>6
    <3> QED  BY <3>1 DEF StateOK, LastBlock
  <2>11. RecentIsChain'
    BY <2>5, <2>6 DEF RecentIsChain
  <2> QED  BY <2>5, <2>6, <2>7, <2>8, <2>9, <2>10, <2>11
<1> QED  BY <1>1, <1>2

\* A step that leaves the builders alone leaves what is said of them alone.
LEMMA BuildersUnchanged ==
  ASSUME RecentIsChain, \A b \in Builder : StateOK(b),
         recent' = recent, applied' = applied, start' = start
  PROVE  RecentIsChain' /\ \A b \in Builder : StateOK(b)'
BY DEF RecentIsChain, StateOK, LastBlock

LEMMA ProduceKeeps == ChainInv /\ Produce => ChainInv'
<1> SUFFICES ASSUME ChainInv, Produce PROVE ChainInv'
  OBVIOUS
<1> USE ChainAssumption
<1>1. PICK S : BlocksOK(S)
  BY DEF ChainInv
<1>2. PICK block : block = NewBlock(LastBlock(Producer), mempool)
  OBVIOUS
<1>3. /\ HeadsOK /\ TxsOK /\ RecentIsChain /\ Producer \in Builder
      /\ \A b \in Builder : StateOK(b)
  BY DEF ChainInv, Builder
<1>4. LastBlock(Producer) \in S /\ LastBlock(Producer).height \in Nat
  BY <1>1, <1>3 DEF BlocksOK, HeadsOK, LastBlock
<1>5. /\ block.height = LastBlock(Producer).height + 1
      /\ block.parent = LastBlock(Producer) /\ block.txs = mempool
  BY <1>2 DEF NewBlock
<1>6. block.height \in Nat /\ block.txs \in Seq(Tx)
  BY <1>3, <1>4, <1>5 DEF TxsOK
<1> DEFINE W == S \cup {block}
<1>7. BlocksOK(W)
  <2>1. Seq(S) \subseteq Seq(W)
    OBVIOUS
  <2> QED  BY <1>1, <1>6, <2>1 DEF BlocksOK
<1>8. /\ panicked' = ~Accepts(Producer, block)
      /\ ConsumeBlock(Producer, block)
      /\ wire' = [f \in Follower |-> Append(wire[f], block)] \/ wire' = wire
      /\ mempool' = <<>> /\ start' = start /\ txwire' = txwire /\ taken' = taken
  BY <1>2 DEF Produce
<1>9. panicked' = FALSE
  BY <1>5, <1>8 DEF Accepts
<1>10. block \in W
  OBVIOUS
<1>11. recent[Producer] # <<>>
  BY <1>3 DEF HeadsOK
<1> HIDE DEF W
<1>12. /\ recent' \in [Builder -> Seq(W)]
       /\ \A c \in Builder : recent'[c] = <<>> <=> recent[c] = <<>>
       /\ applied' \in [Builder -> Seq(Tx)]
       /\ \A c \in Builder : StateOK(c)'
       /\ RecentIsChain'
  BY <1>3, <1>7, <1>8, <1>10, <1>11, ConsumeKeeps
<1>13. wire' \in [Follower -> Seq(W)]
  <2>1. wire \in [Follower -> Seq(W)]
    BY <1>7 DEF BlocksOK
  <2>2. \A f \in Follower : Append(wire[f], block) \in Seq(W)
    BY <1>10, <2>1, AppendProperties
  <2> QED  BY <1>8, <2>1, <2>2
<1>14. BlocksOK(W)'
  BY <1>7, <1>8, <1>12, <1>13 DEF BlocksOK
<1>15. HeadsOK'
  BY <1>3, <1>8, <1>12 DEF HeadsOK, Builder
<1>16. TxsOK'
  BY <1>3, <1>8, <1>12 DEF TxsOK
<1> QED  BY <1>9, <1>12, <1>14, <1>15, <1>16 DEF ChainInv

LEMMA StartKeeps ==
  ASSUME ChainInv, NEW f \in Follower, NEW i \in DOMAIN wire[f], StartFollower(f, i)
  PROVE  ChainInv'
<1> USE ChainAssumption
<1>1. PICK S : BlocksOK(S)
  BY DEF ChainInv
<1>2. /\ HeadsOK /\ TxsOK /\ RecentIsChain /\ f \in Builder /\ f # Producer
      /\ \A b \in Builder : StateOK(b)
  BY DEF ChainInv, Builder, Producer
<1>3. PICK block : block = wire[f][i]
  OBVIOUS
<1>4. /\ recent[f] = <<>>
      /\ recent' = [recent EXCEPT ![f] = <<block>>]
      /\ start' = [start EXCEPT ![f] = block]
      /\ wire' = [wire EXCEPT ![f] = IF Unreliable THEN wire[f]
                                     ELSE SubSeq(wire[f], i + 1, Len(wire[f]))]
      /\ UNCHANGED <<mempool, applied, txwire, taken, panicked>>
  BY <1>3 DEF StartFollower, Started
<1>5. wire[f] \in Seq(S) /\ block \in S /\ block.height \in Nat
  BY <1>1, <1>3 DEF BlocksOK
<1>6. SubSeq(wire[f], i + 1, Len(wire[f])) \in Seq(S)
  <2>1. i \in 1..Len(wire[f]) /\ Len(wire[f]) \in Nat
    BY <1>5
  <2>2. \A j \in (i + 1)..Len(wire[f]) : wire[f][j] \in S
    BY <1>5, <2>1
  <2>3. i + 1 \in Int /\ Len(wire[f]) \in Int
    BY <2>1
  <2> QED  BY <2>2, <2>3, SubSeqProperties
<1>7. BlocksOK(S)'
  <2>1. <<block>> \in Seq(S)
    BY <1>5
  <2>2. recent' \in [Builder -> Seq(S)] /\ start' \in [Builder -> S \cup {None}]
    BY <1>1, <1>4, <1>5, <2>1 DEF BlocksOK
  <2>3. wire' \in [Follower -> Seq(S)]
    BY <1>1, <1>4, <1>5, <1>6 DEF BlocksOK
  <2> QED  BY <1>1, <1>4, <2>2, <2>3 DEF BlocksOK
<1>8. /\ recent'[f] = <<block>> /\ start'[f] = block /\ applied' = applied
      /\ \A c \in Builder \ {f} : recent'[c] = recent[c] /\ start'[c] = start[c]
  BY <1>1, <1>2, <1>4 DEF BlocksOK
<1>9. HeadsOK'
  BY <1>2, <1>4, <1>8 DEF HeadsOK, Builder
<1>10. ASSUME NEW c \in Builder PROVE StateOK(c)'
  <2>1. CASE c = f
    <3>1. recent'[c] # <<>> /\ LastBlock(c)' = block /\ applied'[c] = <<>> /\ start'[c] = block
      <4>1. applied[f] = <<>>
        BY <1>2, <1>4 DEF StateOK
      <4>2. Head(<<block>>) = block /\ <<block>> # <<>>
        OBVIOUS
      <4> QED  BY <1>8, <2>1, <4>1, <4>2 DEF LastBlock
    <3>2. Since(block, block) \in Seq(Seq(Tx)) /\ FlattenSeq(Since(block, block)) = <<>>
      BY <1>5, SinceSelf
    <3> QED  BY <1>5, <3>1, <3>2 DEF StateOK
  <2>2. CASE c # f
    <3>1. recent'[c] = recent[c] /\ start'[c] = start[c] /\ applied'[c] = applied[c]
      BY <1>8, <2>2
    <3> QED  BY <1>2, <3>1 DEF StateOK, LastBlock
  <2> QED  BY <2>1, <2>2
<1>11. RecentIsChain'
  <2>1. Len(<<block>>) <= HistoryLen /\ 1..(Len(<<block>>) - 1) = {}
    OBVIOUS
  <2>2. ASSUME NEW c \in Builder
        PROVE  /\ Len(recent'[c]) <= HistoryLen
               /\ \A j \in 1..(Len(recent'[c]) - 1) : recent'[c][j].parent = recent'[c][j + 1]
    <3>1. CASE c = f
      BY <1>8, <2>1, <3>1
    <3>2. CASE c # f
      <4>1. recent'[c] = recent[c]
        BY <1>8, <3>2
      <4> QED  BY <1>2, <4>1 DEF RecentIsChain
    <3> QED  BY <3>1, <3>2
  <2> QED  BY <2>2 DEF RecentIsChain
<1>12. TxsOK' /\ panicked' = FALSE
  BY <1>2, <1>4 DEF TxsOK, ChainInv
<1> QED  BY <1>7, <1>9, <1>10, <1>11, <1>12 DEF ChainInv

LEMMA ReceiveKeeps ==
  ASSUME ChainInv, NEW f \in Follower, NEW i \in DOMAIN wire[f], Receive(f, i)
  PROVE  ChainInv'
<1>1. PICK S : BlocksOK(S)
  BY DEF ChainInv
<1>2. /\ HeadsOK /\ TxsOK /\ RecentIsChain /\ \A b \in Builder : StateOK(b)
  BY DEF ChainInv
<1>3. /\ recent[f] # <<>>
      /\ wire' = [wire EXCEPT ![f] = IF Unreliable THEN wire[f] ELSE Tail(wire[f])]
      /\ taken' = [taken EXCEPT ![f] = wire[f][i]]
      /\ UNCHANGED <<mempool, recent, applied, start, txwire, panicked>>
  BY DEF Receive, Started, FromStream
<1>4. wire[f] \in Seq(S) /\ wire[f][i] \in S /\ wire[f] # <<>>
  BY <1>1 DEF BlocksOK
<1>5. Tail(wire[f]) \in Seq(S)
  BY <1>4
<1>6. BlocksOK(S)'
  <2>1. wire' \in [Follower -> Seq(S)]
    BY <1>1, <1>3, <1>4, <1>5 DEF BlocksOK
  <2>2. taken' \in [Follower -> S \cup {None}]
    BY <1>1, <1>3, <1>4 DEF BlocksOK
  <2> QED  BY <1>1, <1>3, <2>1, <2>2 DEF BlocksOK
<1>7. HeadsOK'
  BY <1>1, <1>2, <1>3 DEF HeadsOK, BlocksOK
<1>8. TxsOK' /\ panicked' = FALSE
  BY <1>2, <1>3 DEF TxsOK, ChainInv
<1> QED  BY <1>2, <1>3, <1>6, <1>7, <1>8, BuildersUnchanged DEF ChainInv

LEMMA FollowerConsumeKeeps ==
  ASSUME ChainInv, NEW f \in Follower, Consume(f)
  PROVE  ChainInv'
<1>1. PICK S : BlocksOK(S)
  BY DEF ChainInv
<1>2. /\ HeadsOK /\ TxsOK /\ RecentIsChain /\ f \in Builder
      /\ \A b \in Builder : StateOK(b)
  BY DEF ChainInv, Builder
<1>3. /\ taken[f] # None /\ ConsumeBlock(f, taken[f])
      /\ taken' = [taken EXCEPT ![f] = None]
      /\ UNCHANGED <<mempool, start, txwire, wire, panicked>>
  BY DEF Consume
<1>4. taken[f] \in S /\ recent[f] # <<>>
  BY <1>1, <1>2, <1>3 DEF BlocksOK, HeadsOK
<1>5. /\ recent' \in [Builder -> Seq(S)]
      /\ \A c \in Builder : recent'[c] = <<>> <=> recent[c] = <<>>
      /\ applied' \in [Builder -> Seq(Tx)]
      /\ \A c \in Builder : StateOK(c)'
      /\ RecentIsChain'
  BY <1>1, <1>2, <1>3, <1>4, ConsumeKeeps
<1>6. BlocksOK(S)'
  BY <1>1, <1>3, <1>5 DEF BlocksOK
<1>7. HeadsOK'
  BY <1>1, <1>2, <1>3, <1>5 DEF HeadsOK, BlocksOK, Builder
<1>8. TxsOK' /\ panicked' = FALSE
  BY <1>2, <1>3, <1>5 DEF TxsOK, ChainInv
<1> QED  BY <1>5, <1>6, <1>7, <1>8 DEF ChainInv

\* The steps of the callers and of the mempool's queue.
LEMMA QueueKeeps ==
  ASSUME ChainInv,
         \/ \E c \in Call : Send(c) \/ Await(c)
         \/ ReceiveTx
         \/ UNCHANGED vars
  PROVE  ChainInv'
<1>1. /\ UNCHANGED <<recent, applied, start, wire, taken, panicked>>
      /\ \/ mempool' = mempool /\ txwire' = txwire
         \/ mempool' = mempool /\ \E c \in Call : txwire' = Append(txwire, CallTx[c])
         \/ /\ txwire # <<>> /\ mempool' = Append(mempool, Head(txwire))
            /\ txwire' = Tail(txwire) \/ txwire' = txwire
  BY DEF Send, Await, ReceiveTx, vars
<1>2. PICK S : BlocksOK(S)
  BY DEF ChainInv
<1>3. BlocksOK(S)' /\ HeadsOK'
  BY <1>1, <1>2 DEF BlocksOK, HeadsOK, ChainInv
<1>4. TxsOK'
  <2>1. mempool \in Seq(Tx) /\ txwire \in Seq(Tx) /\ applied' \in [Builder -> Seq(Tx)]
    BY <1>1 DEF TxsOK, ChainInv
  <2>2. \A c \in Call : CallTx[c] \in Tx
    BY ChainAssumption
  <2>3. txwire # <<>> => Tail(txwire) \in Seq(Tx) /\ Head(txwire) \in Tx
    BY <2>1
  <2>4. CASE mempool' = mempool /\ txwire' = txwire
    BY <2>1, <2>4 DEF TxsOK
  <2>5. ASSUME NEW c \in Call, mempool' = mempool, txwire' = Append(txwire, CallTx[c])
        PROVE  TxsOK'
    <3>1. Append(txwire, CallTx[c]) \in Seq(Tx)
      BY <2>1, <2>2, AppendProperties
    <3> QED  BY <2>1, <2>5, <3>1 DEF TxsOK
  <2>6. CASE /\ txwire # <<>> /\ mempool' = Append(mempool, Head(txwire))
             /\ txwire' = Tail(txwire) \/ txwire' = txwire
    <3>1. Append(mempool, Head(txwire)) \in Seq(Tx)
      BY <2>1, <2>3, <2>6, AppendProperties
    <3> QED  BY <2>1, <2>3, <2>6, <3>1 DEF TxsOK
  <2> QED  BY <1>1, <2>4, <2>5, <2>6
<1> QED  BY <1>1, <1>3, <1>4, BuildersUnchanged DEF ChainInv

LEMMA ChainStep == ChainInv /\ [Next]_vars => ChainInv'
<1> SUFFICES ASSUME ChainInv, [Next]_vars PROVE ChainInv'
  OBVIOUS
<1>1. CASE \/ \E c \in Call : Send(c) \/ Await(c)
           \/ ReceiveTx
           \/ UNCHANGED vars
  BY <1>1, QueueKeeps
<1>2. CASE Produce
  BY <1>2, ProduceKeeps
<1>3. CASE \E f \in Follower : \E i \in DOMAIN wire[f] : StartFollower(f, i)
  BY <1>3, StartKeeps
<1>4. CASE \E f \in Follower : \E i \in DOMAIN wire[f] : Receive(f, i)
  BY <1>4, ReceiveKeeps
<1>5. CASE \E f \in Follower : Consume(f)
  BY <1>5, FollowerConsumeKeeps
<1> QED  BY <1>1, <1>2, <1>3, <1>4, <1>5 DEF Next

(***************************************************************************)
(* The state of every builder is that of the blocks from the one it        *)
(* started with to its last, each executed once and in order, whatever     *)
(* gossip does to the blocks on their way to BlockStateBuilder::consume.   *)
(***************************************************************************)
THEOREM StatesSinceStart == Spec => []StateSinceStart
<1>1. ChainInv => StateSinceStart
  BY DEF ChainInv, StateOK, StateSinceStart, TxsSince, Since
<1> QED  BY <1>1, ChainInit, ChainStep, PTL DEF Spec

(***************************************************************************)
(* Every builder's recent() is a gapless suffix of one chain, newest       *)
(* first, of at most history_len blocks.                                   *)
(***************************************************************************)
THEOREM HistoriesAreChains == Spec => []RecentIsChain
<1>1. ChainInv => RecentIsChain
  BY DEF ChainInv
<1> QED  BY <1>1, ChainInit, ChainStep, PTL DEF Spec

(***************************************************************************)
(* The producer's builder accepts every block Mempool::produce makes: its  *)
(* expect("height and parent verified here") never fails.                  *)
(***************************************************************************)
THEOREM ProducerDoesNotPanic == Spec => []ProducerNeverPanics
<1>1. ChainInv => ProducerNeverPanics
  BY DEF ChainInv, ProducerNeverPanics
<1> QED  BY <1>1, ChainInit, ChainStep, PTL DEF Spec

--------------------------------------------------------------------------------
(* The watchlists.                                                         *)

\* Every call on a watchlist is there under its own node and key.
WatchOK ==
  /\ call \in [Call -> {"idle", "sent", "waiting", "ok", "err"}]
  /\ watch \in [Follower -> [Key -> Call \cup {None}]]
  /\ \A f \in Follower : \A k \in Key :
       watch[f][k] \in Call => CallNode[watch[f][k]] = f /\ CallKey[watch[f][k]] = k

WatchInv == WatchOK /\ WatchlistMatchesWaiters

LEMMA WatchInit == Init => WatchInv
BY ChainAssumption DEF Init, WatchInv, WatchOK, WatchlistMatchesWaiters

LEMMA WatchStep == ChainInv /\ WatchInv /\ [Next]_vars => WatchInv'
<1> SUFFICES ASSUME ChainInv, WatchInv, [Next]_vars PROVE WatchInv'
  OBVIOUS
<1> USE ChainAssumption DEF WatchInv
<1>1. ASSUME NEW c \in Call, Send(c) PROVE WatchInv'
  BY <1>1 DEF Send, WatchOK, WatchlistMatchesWaiters
<1>2. ASSUME NEW c \in Call, Await(c) PROVE WatchInv'
  <2> DEFINE f == CallNode[c]
             k == CallKey[c]
  <2>1. /\ call[c] = "sent" /\ f \in Follower /\ k \in Key
        /\ call' = [d \in Call |-> IF d = c THEN "waiting"
                                   ELSE IF d = watch[f][k] THEN "err" ELSE call[d]]
        /\ watch' = [watch EXCEPT ![f][k] = c]
    BY <1>2 DEF Await, Displaced
  <2>2. /\ watch' \in [Follower -> [Key -> Call \cup {None}]]
        /\ \A g \in Follower : \A l \in Key :
             watch'[g][l] = IF g = f /\ l = k THEN c ELSE watch[g][l]
    BY <2>1 DEF WatchOK
  <2>3. call' \in [Call -> {"idle", "sent", "waiting", "ok", "err"}]
    BY <2>1 DEF WatchOK
  <2>4. WatchOK'
    <3>1. ASSUME NEW g \in Follower, NEW l \in Key, watch'[g][l] \in Call
          PROVE  CallNode[watch'[g][l]] = g /\ CallKey[watch'[g][l]] = l
      <4>1. CASE g = f /\ l = k
        BY <2>2, <4>1
      <4>2. CASE ~(g = f /\ l = k)
        <5>1. watch'[g][l] = watch[g][l]
          BY <2>2, <4>2
        <5> QED  BY <3>1, <5>1 DEF WatchOK
      <4> QED  BY <4>1, <4>2
    <3> QED  BY <2>2, <2>3, <3>1 DEF WatchOK
  <2>5. ASSUME NEW d \in Call
        PROVE  call'[d] = "waiting" <=> watch'[CallNode[d]][CallKey[d]] = d
    <3>1. CASE d = c
      BY <2>1, <2>2, <3>1
    <3>2. CASE d # c /\ d = watch[f][k]
      <4>1. CallNode[d] = f /\ CallKey[d] = k
        BY <2>1, <3>2 DEF WatchOK
      <4> QED  BY <2>1, <2>2, <3>2, <4>1
    <3>3. CASE d # c /\ d # watch[f][k]
      <4>1. call'[d] = call[d] /\ CallNode[d] \in Follower /\ CallKey[d] \in Key
        BY <2>1, <3>3
      <4>2. call[d] = "waiting" <=> watch[CallNode[d]][CallKey[d]] = d
        BY DEF WatchlistMatchesWaiters
      <4> QED  BY <2>2, <3>3, <4>1, <4>2
    <3> QED  BY <3>1, <3>2, <3>3
  <2> QED  BY <2>4, <2>5 DEF WatchlistMatchesWaiters
<1>3. ASSUME NEW f \in Follower, NEW i \in DOMAIN wire[f], Receive(f, i) PROVE WatchInv'
  <2>1. PICK keys :
          /\ call' = [c \in Call |-> IF \E k \in keys : watch[f][k] = c THEN "ok" ELSE call[c]]
          /\ watch' = [watch EXCEPT ![f] = [k \in Key |-> IF k \in keys THEN None
                                                          ELSE watch[f][k]]]
          /\ keys = Signalled(f, wire[f][i])
    BY <1>3 DEF Receive
  <2>2. keys \subseteq Key
    <3>1. PICK S : BlocksOK(S)
      BY DEF ChainInv
    <3>2. wire[f][i] \in S
      BY <3>1 DEF BlocksOK
    <3>3. wire[f][i].txs \in Seq(Tx)
      BY <3>1, <3>2 DEF BlocksOK
    <3>4. BlockKeys(wire[f][i]) \subseteq Key
      BY <3>3 DEF BlockKeys
    <3> QED  BY <2>1, <3>4 DEF Signalled
  <2>3. /\ watch' \in [Follower -> [Key -> Call \cup {None}]]
        /\ \A g \in Follower : \A k \in Key :
             watch'[g][k] = IF g = f /\ k \in keys THEN None ELSE watch[g][k]
    BY <2>1 DEF WatchOK
  <2>4. call' \in [Call -> {"idle", "sent", "waiting", "ok", "err"}]
    BY <2>1 DEF WatchOK
  <2>5. WatchOK'
    <3>1. ASSUME NEW g \in Follower, NEW l \in Key, watch'[g][l] \in Call
          PROVE  CallNode[watch'[g][l]] = g /\ CallKey[watch'[g][l]] = l
      <4>1. watch'[g][l] = watch[g][l]
        BY <2>3, <3>1
      <4> QED  BY <3>1, <4>1 DEF WatchOK
    <3> QED  BY <2>3, <2>4, <3>1 DEF WatchOK
  <2>6. ASSUME NEW d \in Call
        PROVE  call'[d] = "waiting" <=> watch'[CallNode[d]][CallKey[d]] = d
    <3>1. CallNode[d] \in Follower /\ CallKey[d] \in Key
      OBVIOUS
    <3>2. call[d] = "waiting" <=> watch[CallNode[d]][CallKey[d]] = d
      BY DEF WatchlistMatchesWaiters
    <3>3. CASE \E k \in keys : watch[f][k] = d
      <4>1. PICK k \in keys : watch[f][k] = d
        BY <3>3
      <4>2. CallNode[d] = f /\ CallKey[d] = k
        BY <2>2, <4>1 DEF WatchOK
      <4>3. call'[d] = "ok"
        BY <2>1, <3>3
      <4>4. watch'[CallNode[d]][CallKey[d]] = None
        BY <2>2, <2>3, <4>2
      <4> QED  BY <4>3, <4>4
    <3>4. CASE ~\E k \in keys : watch[f][k] = d
      <4>1. call'[d] = call[d]
        BY <2>1, <3>4
      <4>2. CASE CallNode[d] = f /\ CallKey[d] \in keys
        <5>1. watch[CallNode[d]][CallKey[d]] # d
          BY <3>4, <4>2
        <5>2. watch'[CallNode[d]][CallKey[d]] = None
          BY <2>3, <3>1, <4>2
        <5> QED  BY <3>2, <4>1, <5>1, <5>2
      <4>3. CASE ~(CallNode[d] = f /\ CallKey[d] \in keys)
        <5>1. watch'[CallNode[d]][CallKey[d]] = watch[CallNode[d]][CallKey[d]]
          BY <2>3, <3>1, <4>3
        <5> QED  BY <3>2, <4>1, <5>1
      <4> QED  BY <4>2, <4>3
    <3> QED  BY <3>3, <3>4
  <2> QED  BY <2>5, <2>6 DEF WatchlistMatchesWaiters
<1>4. CASE call' = call /\ watch' = watch
  BY <1>4 DEF WatchOK, WatchlistMatchesWaiters
<1>5. \/ \E c \in Call : Send(c) \/ Await(c)
      \/ \E f \in Follower : \E i \in DOMAIN wire[f] : Receive(f, i)
      \/ call' = call /\ watch' = watch
  BY DEF Next, vars, ReceiveTx, Produce, StartFollower, Consume
<1> QED  BY <1>1, <1>2, <1>3, <1>4, <1>5

(***************************************************************************)
(* A call is on its node's watchlist exactly while it waits: none is       *)
(* forgotten by the list, and none is signalled after it is finished.      *)
(***************************************************************************)
THEOREM WatchlistsMatchWaiters == Spec => []WatchlistMatchesWaiters
<1>1. WatchInv => WatchlistMatchesWaiters
  BY DEF WatchInv
<1> QED  BY <1>1, ChainInit, ChainStep, WatchInit, WatchStep, PTL DEF Spec

================================================================================
