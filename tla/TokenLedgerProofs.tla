--------------------------- MODULE TokenLedgerProofs ---------------------------
(***************************************************************************)
(* Proofs about TokenLedger, for any wallets, amounts, number range and    *)
(* number of intents. The invariant that carries them says what an intent  *)
(* can be (IntentForms): what its signer expects then follows from the     *)
(* predicates that the intent carries into every transaction, and what the *)
(* solver's patterns make of it from its tree.                             *)
(*                                                                         *)
(* For the supply, sums over finite sets of wallets are unfolded by        *)
(* induction over subsets, and compared modulo the number range.           *)
(***************************************************************************)
EXTENDS TokenLedger, FiniteSetTheorems, WellFoundedInduction, TLAPS

IInv == balance \in [Addr -> Number \cup {None}] /\ IntentForms

\* What signing leaves in an intent (token_ops.rs:104-112, client.rs:441-447).
LEMMA SignedIntent ==
  ASSUME NEW tree, NEW key
  PROVE  /\ Sign(NewIntent(tree), key).tree = tree
         /\ \A s \in Sign(NewIntent(tree), key).calldata : s.key = key
BY DEF Sign, NewIntent

\* The changes that collect::outputs accepts (collect.rs:59-104), by what they
\* leave of an account.
LEMMA ProposalChanges ==
  ASSUME NEW ch \in Proposals
  PROVE  /\ DOMAIN ch \subseteq Addr
         /\ \A a \in DOMAIN ch : ch[a] \in Changes(a)
<1>1. PICK f : /\ \A a \in Addr : f[a] \in Changes(a) \cup {None}
               /\ ch = [a \in {b \in Addr : f[b] # None} |-> f[a]]
  BY DEF Proposals
<1> QED
  BY <1>1

\* Executing a transaction keeps the type of the ledger.
LEMMA OutputsType ==
  ASSUME balance \in [Addr -> Number \cup {None}], NEW ch \in Proposals
  PROVE  Outputs(ch) \in [Addr -> Number \cup {None}]
<1>1. ASSUME NEW a \in Addr, a \in DOMAIN ch
      PROVE  ch[a].to \in Number \cup {None}
  BY <1>1, ProposalChanges DEF Changes, Create, Replace, Repredicate, Delete
<1> QED
  BY <1>1 DEF Outputs

\* The builders keep IntentForms.
LEMMA MadeForms ==
  ASSUME IInv, NEW i, Made(i),
         \/ \E m, n \in Number : \E w \in Wallet : i = MintIntent(Token, m, w, n)
         \/ \E v, w \in Wallet : \E n \in Amount :
              i \in {TransferIntent(v, w, n), PoolIntent(v, w, n), DonationIntent(w, n, v)}
  PROVE  IInv'
<1> USE DEF IInv
<1>1. balance' \in [Addr -> Number \cup {None}]
  BY DEF Made
<1>2. IntentForms'
  BY DEF Made, IntentForms
<1> QED
  BY <1>1, <1>2

\* The inductive invariant.
THEOREM Inductive == Spec => []IInv
<1>1. Init => IInv
  BY DEF Init, IInv, IntentForms
<1>2. IInv /\ [Next]_vars => IInv'
  <2> SUFFICES ASSUME IInv, [Next]_vars PROVE IInv'
    OBVIOUS
  <2>1. CASE \E w \in Wallet : \E n \in Amount : Mint(w, n)
    BY <2>1, MadeForms DEF Mint
  <2>2. CASE \E v, w \in Wallet : \E n \in Amount : Transfer(v, w, n)
    BY <2>2, MadeForms DEF Transfer
  <2>3. CASE \E v, w \in Wallet : \E n \in Amount : DonateToPool(v, w, n)
    BY <2>3, MadeForms DEF DonateToPool
  <2>4. CASE \E v, w \in Wallet : \E n \in Amount : DonateToProject(v, w, n)
    BY <2>4, MadeForms DEF DonateToProject
  <2>5. CASE \E is \in SUBSET intents : \E ch \in Proposals : Execute(is, ch)
    BY <2>5, OutputsType DEF Execute, IInv, IntentForms
  <2>6. CASE UNCHANGED vars
    BY <2>6 DEF vars, IInv, IntentForms
  <2> QED
    BY <2>1, <2>2, <2>3, <2>4, <2>5, <2>6 DEF Next
<1> QED
  BY <1>1, <1>2, PTL DEF Spec

\* The ledger and the caches of the intents keep their types.
THEOREM TypeCorrect == Spec => []TypeOK
<1>1. IInv => TypeOK
  <2> SUFFICES ASSUME IInv, NEW i \in intents PROVE i.cache \in {<<>>, <<ContentHash(i)>>}
    BY DEF IInv, TypeOK
  <2>1. ASSUME NEW tree, NEW key, i = Sign(NewIntent(tree), key)
        PROVE  i.cache = <<ContentHash(i)>>
    BY <2>1 DEF Sign, NewIntent, SigningHash, ContentHash
  <2>2. ASSUME NEW tree, i = NewIntent(tree) PROVE i.cache = <<>>
    BY <2>2 DEF NewIntent
  <2> QED
    BY <2>1, <2>2 DEF IInv, IntentForms, MintIntent, TransferIntent, PoolIntent,
                      DonationIntent
<1> QED
  BY <1>1, Inductive, PTL

--------------------------------------------------------------------------------
(* What an accepted intent says about the transaction.                      *)

\* A transaction with a transfer does what the sender expects
\* (token_ops.rs:145-170).
LEMMA TransferExpects ==
  ASSUME NEW ch \in Proposals, NEW i, NEW v \in Wallet, NEW w \in Wallet, NEW n,
         i.tree = TransferTree(v, w, n), IntentAccepts(i, ch)
  PROVE  /\ v \in DOMAIN ch => LessThanBy(ch[v].to, balance[v], n)
         /\ w \in DOMAIN ch /\ ch[w].to \in Number /\ ch[w].to >= n
<1> DEFINE p == Id("uint_less_than_by",
                   <<ProposalRef(v), AccountRef(v), Inline(n)>>)
           q == Id("uint_greater_than_equal", <<ProposalRef(w), Inline(n)>>)
<1>1. PredicateAccepts(p, ch) /\ PredicateAccepts(q, ch)
  <2>1. i.tree = <<p, q, [op |-> "and", l |-> 1, r |-> 2]>>
    BY DEF TransferTree, And2
  <2>2. p.op = "id" /\ q.op = "id"
    BY DEF Id
  <2> HIDE DEF p, q
  <2>3. i.tree[1] = p /\ i.tree[2] = q /\ 1 \in DOMAIN i.tree /\ 2 \in DOMAIN i.tree
    BY <2>1
  <2> QED
    BY <2>2, <2>3 DEF IntentAccepts, LeavesOf
<1>2. v \in DOMAIN ch => LessThanBy(ch[v].to, balance[v], n)
  <2>1. p.pred = "uint_less_than_by"
        /\ p.params = <<ProposalRef(v), AccountRef(v), Inline(n)>>
    BY DEF Id
  <2> HIDE DEF p
  <2> DEFINE d == [k \in DOMAIN p.params |-> Data(p.params[k], ch)]
  <2>2. Arithmetic("uint_less_than_by", d)
    BY <1>1, <2>1 DEF PredicateAccepts
  <2>3. d[1] = Data(ProposalRef(v), ch) /\ d[2] = Data(AccountRef(v), ch)
        /\ d[3] = Data(Inline(n), ch)
    BY <2>1
  <2> HIDE DEF d
  <2>4. LessThanBy(d[1], d[2], d[3])
    BY <2>2 DEF Arithmetic
  <2> QED
    BY <2>3, <2>4 DEF Data, ProposalRef, AccountRef, Inline, Addr
<1>3. w \in DOMAIN ch /\ ch[w].to \in Number /\ ch[w].to >= n
  <2>1. q.pred = "uint_greater_than_equal" /\ q.params = <<ProposalRef(w), Inline(n)>>
    BY DEF Id
  <2> HIDE DEF q
  <2> DEFINE d == [k \in DOMAIN q.params |-> Data(q.params[k], ch)]
  <2>2. Arithmetic("uint_greater_than_equal", d)
        /\ \A k \in DOMAIN q.params : Data(q.params[k], ch) \in Number
    BY <1>1, <2>1 DEF PredicateAccepts
  <2>3. d[1] = Data(ProposalRef(w), ch) /\ d[2] = Data(Inline(n), ch)
        /\ d[1] \in Number
    BY <2>1, <2>2
  <2> HIDE DEF d
  <2>4. d[1] >= d[2]
    BY <2>2 DEF Arithmetic
  <2>5. None \notin Number
    BY LedgerAssumption DEF Number
  <2> QED
    BY <2>3, <2>4, <2>5 DEF Data, ProposalRef, Inline
<1> QED
  BY <1>2, <1>3

\* A transaction with a donation to the pool does what that intent says
\* (client.rs:414-437): the balance of the donor grows.
LEMMA PoolExpects ==
  ASSUME NEW ch \in Proposals, NEW i, NEW v \in Wallet, NEW w \in Wallet, NEW n,
         i.tree = PoolTree(v, w, n), IntentAccepts(i, ch), v \in DOMAIN ch
  PROVE  LessThanBy(balance[v], ch[v].to, n)
<1> DEFINE p == Id("uint_less_than_by",
                   <<AccountRef(v), ProposalRef(v), Inline(n)>>)
           q == Id("uint_greater_than_by",
                   <<AccountRef(w), ProposalRef(w), Inline(n)>>)
<1>1. PredicateAccepts(p, ch)
  <2>1. i.tree = <<p, q, [op |-> "and", l |-> 1, r |-> 2]>>
    BY DEF PoolTree, And2
  <2>2. p.op = "id"
    BY DEF Id
  <2> HIDE DEF p, q
  <2>3. i.tree[1] = p /\ 1 \in DOMAIN i.tree
    BY <2>1
  <2> QED
    BY <2>2, <2>3 DEF IntentAccepts, LeavesOf
<1>2. p.pred = "uint_less_than_by"
      /\ p.params = <<AccountRef(v), ProposalRef(v), Inline(n)>>
  BY DEF Id
<1> HIDE DEF p
<1> DEFINE d == [k \in DOMAIN p.params |-> Data(p.params[k], ch)]
<1>3. Arithmetic("uint_less_than_by", d)
  BY <1>1, <1>2 DEF PredicateAccepts
<1>4. d[1] = Data(AccountRef(v), ch) /\ d[2] = Data(ProposalRef(v), ch)
      /\ d[3] = Data(Inline(n), ch)
  BY <1>2
<1> HIDE DEF d
<1>5. LessThanBy(d[1], d[2], d[3])
  BY <1>3 DEF Arithmetic
<1> QED
  BY <1>4, <1>5 DEF Data, ProposalRef, AccountRef, Inline, Addr

\* An intent that is signed with the key of a wallet is a transfer or a donation
\* from that wallet (token_ops.rs:172-179, client.rs:439-447), also when it was
\* gossiped.
LEMMA SignersIntent ==
  ASSUME IInv, NEW i \in intents, NEW w \in Wallet,
         NEW s \in i.calldata, s.key = w
  PROVE  \E v \in Wallet : \E n \in Amount :
           \/ i = TransferIntent(w, v, n) /\ i.tree = TransferTree(w, v, n)
           \/ i.tree = PoolTree(w, v, n)
<1>1. ASSUME NEW m, NEW n, NEW v, i = MintIntent(Token, m, v, n) PROVE FALSE
  <2>1. s.key = Token
    BY <1>1, SignedIntent DEF MintIntent
  <2> QED
    BY <2>1, LedgerAssumption
<1>2. ASSUME NEW u, NEW v, NEW n, i = DonationIntent(v, n, u) PROVE FALSE
  BY <1>2 DEF DonationIntent, NewIntent
<1>3. ASSUME NEW u, NEW v, NEW n, i = TransferIntent(u, v, n)
      PROVE  u = w /\ i.tree = TransferTree(u, v, n)
  BY <1>3, SignedIntent DEF TransferIntent
<1>4. ASSUME NEW u, NEW v, NEW n, i = PoolIntent(u, v, n)
      PROVE  u = w /\ i.tree = PoolTree(u, v, n)
  BY <1>4, SignedIntent DEF PoolIntent
<1> QED
  BY <1>1, <1>2, <1>3, <1>4 DEF IInv, IntentForms

\* A wallet that a transaction changes grows, or its owner asked for it.
LEMMA ExecuteSpends ==
  ASSUME IInv, NEW is \in SUBSET intents, NEW js, NEW ch \in Proposals,
         js = is \/ js = {Gossiped(i) : i \in is},
         Accepted(js, ch), balance' = Outputs(ch),
         NEW w \in Wallet, Exists(w), balance'[w] # balance[w]
  PROVE  \/ balance'[w] \in Number /\ balance'[w] > balance[w]
         \/ SpendingAsked(w)
<1>1. w \in Addr /\ balance[w] \in Number
  BY DEF IInv, Addr, Exists
<1>2. w \in DOMAIN ch /\ balance'[w] = ch[w].to
  BY <1>1 DEF Outputs
<1>3. balance'[w] \in Number /\ (ch[w].to >= balance[w] \/ SignedBy(js, w))
  BY <1>2 DEF Accepted, WalletAccepts
<1>4. CASE ch[w].to >= balance[w]
  BY <1>1, <1>2, <1>3, <1>4, LedgerAssumption DEF Number
<1>5. CASE ch[w].to < balance[w] /\ SignedBy(js, w)
  <2>1. PICK j \in js : [key |-> w, msg |-> Hash(j)] \in j.calldata
    BY <1>5 DEF SignedBy
  <2>2. PICK i \in intents : j.tree = i.tree /\ j.calldata = i.calldata
    BY <2>1 DEF Gossiped
  <2>3. \E s \in i.calldata : s.key = w
    <3>1. [key |-> w, msg |-> Hash(j)].key = w
      OBVIOUS
    <3> QED
      BY <2>1, <2>2, <3>1
  <2>4. PICK v \in Wallet, n \in Amount :
           \/ i = TransferIntent(w, v, n) /\ i.tree = TransferTree(w, v, n)
           \/ i.tree = PoolTree(w, v, n)
    BY <2>3, SignersIntent
  <2>5. IntentAccepts(j, ch)
    BY <2>1 DEF Accepted
  <2>6. n \in Nat /\ n > 0 /\ balance[w] \in Nat /\ ch[w].to \in Nat
    BY <1>1, <1>2, <1>3, LedgerAssumption DEF Number
  <2>7. CASE i = TransferIntent(w, v, n) /\ i.tree = TransferTree(w, v, n)
    <3>1. /\ LessThanBy(ch[w].to, balance[w], n)
          /\ v \in DOMAIN ch /\ ch[v].to \in Number /\ ch[v].to >= n
      BY <2>7, <2>2, <2>5, <1>2, TransferExpects
    <3>2. balance'[w] = balance[w] - n
      BY <3>1, <2>6, <1>2, <1>5 DEF LessThanBy, SaturatingSub
    <3>3. balance'[v] = ch[v].to
      <4>1. None \notin Number
        BY LedgerAssumption DEF Number
      <4>2. ch[v] # Repredicate
        BY <3>1, <4>1 DEF Repredicate
      <4> QED
        BY <3>1, <4>2 DEF Outputs, Addr
    <3> QED
      BY <2>7, <3>1, <3>2, <3>3, <1>3 DEF SpendingAsked
  <2>8. CASE i.tree = PoolTree(w, v, n)
    <3>1. LessThanBy(balance[w], ch[w].to, n)
      BY <2>8, <2>2, <2>5, <1>2, PoolExpects
    <3>2. FALSE
      BY <3>1, <2>6, <1>5 DEF LessThanBy, SaturatingSub
    <3> QED
      BY <3>2
  <2> QED
    BY <2>4, <2>7, <2>8
<1> QED
  BY <1>1, <1>2, <1>3, <1>4, <1>5, LedgerAssumption DEF Number

\* Wallets lose tokens only to transfers their owners signed, for any wallets,
\* numbers and intents.
THEOREM SpendingIsSigned == Spec => SpendingSigned
<1>1. IInv /\ [Next]_vars => [SpendingStep]_vars
  <2> SUFFICES ASSUME IInv, Next, NEW w \in Wallet, Exists(w), balance'[w] # balance[w]
               PROVE  \/ balance'[w] \in Number /\ balance'[w] > balance[w]
                      \/ SpendingAsked(w)
    BY DEF SpendingStep
  <2>1. PICK is \in SUBSET intents, ch \in Proposals : Execute(is, ch)
    BY DEF Next, Mint, Transfer, DonateToPool, DonateToProject, Made
  <2>2. PICK js : (js = is \/ js = {Gossiped(i) : i \in is}) /\ Accepted(js, ch)
    BY <2>1 DEF Execute
  <2> QED
    BY <2>1, <2>2, ExecuteSpends DEF Execute
<1> QED
  BY <1>1, Inductive, PTL DEF Spec, SpendingSigned


--------------------------------------------------------------------------------
(* Induction over naturals and over the subsets of a finite set.            *)

\* Every set of naturals that has an element has a least one.
LEMMA LeastNatural ==
  ASSUME NEW T, T \subseteq Nat, T # {}
  PROVE  \E x \in T : \A y \in T : x <= y
<1> DEFINE R == {ss \in Nat \X Nat : ss[1] < ss[2]}
<1>1. IsWellFoundedOn(R, Nat)
  BY NatLessThanWellFounded DEF OpToRel
<1>2. \A x, y \in Nat : y < x => <<y, x>> \in R
  OBVIOUS
<1> HIDE DEF R
<1>3. PICK x \in T : \A y \in T : <<y, x>> \notin R
  BY <1>1, WFMin
<1>4. ASSUME NEW y \in T PROVE x <= y
  <2>1. x \in Nat /\ y \in Nat
    OBVIOUS
  <2>2. ~(y < x)
    BY <1>2, <1>3, <2>1
  <2> QED  BY <2>1, <2>2
<1> QED  BY <1>4

\* A family that has every subset of W of which it has the subsets with one
\* element less has all of them.
LEMMA SubsetInduction ==
  ASSUME NEW W, IsFiniteSet(W), NEW F,
         \A s \in SUBSET W : (\A x \in s : s \ {x} \in F) => s \in F
  PROVE  \A s \in SUBSET W : s \in F
<1> DEFINE T == {Cardinality(s) : s \in {u \in SUBSET W : u \notin F}}
<1>1. \A s \in SUBSET W : IsFiniteSet(s) /\ Cardinality(s) \in Nat
  BY FS_Subset, FS_CardinalityType
<1> SUFFICES ASSUME T # {} PROVE FALSE
  OBVIOUS
<1>2. T \subseteq Nat
  BY <1>1
<1>3. PICK n \in T : \A m \in T : n <= m
  <2> HIDE DEF T
  <2> QED  BY <1>2, LeastNatural
<1>4. PICK s \in SUBSET W : s \notin F /\ n = Cardinality(s)
  OBVIOUS
<1>5. PICK x \in s : s \ {x} \notin F
  BY <1>4
<1>6. s \ {x} \in SUBSET W /\ Cardinality(s \ {x}) = Cardinality(s) - 1
  BY <1>1, FS_RemoveElement
<1>7. Cardinality(s \ {x}) \in T
  BY <1>5, <1>6
<1>8. Cardinality(s) \in Nat /\ Cardinality(s) <= Cardinality(s \ {x})
  BY <1>1, <1>3, <1>4, <1>7
<1> QED  BY <1>6, <1>8

--------------------------------------------------------------------------------
(* Sums of functions over finite sets.                                      *)

Picked(s) == CHOOSE x \in s : TRUE

\* The recursion of SumFunctionOnSet, one step.
Adds(f, S, g) ==
  [s \in SUBSET S |-> IF s = {} THEN 0 ELSE f[Picked(s)] + g[s \ {Picked(s)}]]

LEMMA SumIsChosen ==
  ASSUME NEW f, NEW S
  PROVE  SumFunctionOnSet(f, S) = (CHOOSE g : g = Adds(f, S, g))[S]
BY DEF SumFunctionOnSet, FoldFunctionOnSet, MapThenFoldSet, Adds, Picked

LEMMA PickedIn == \A s : s # {} => Picked(s) \in s
BY DEF Picked

\* Two solutions of the recursion agree where both are defined.
LEMMA AddsAgree ==
  ASSUME NEW f, NEW S, IsFiniteSet(S), NEW T \in SUBSET S,
         NEW g, g = Adds(f, S, g), NEW h, h = Adds(f, T, h)
  PROVE  g[T] = h[T]
<1> DEFINE F == {s \in SUBSET T : g[s] = h[s]}
<1>1. IsFiniteSet(T)
  BY FS_Subset
<1>2. ASSUME NEW s \in SUBSET T, \A x \in s : s \ {x} \in F PROVE s \in F
  <2>1. s \in SUBSET S
    OBVIOUS
  <2>2. g[s] = IF s = {} THEN 0 ELSE f[Picked(s)] + g[s \ {Picked(s)}]
    <3>1. Adds(f, S, g)[s] = IF s = {} THEN 0 ELSE f[Picked(s)] + g[s \ {Picked(s)}]
      BY <2>1 DEF Adds
    <3> QED  BY <3>1
  <2>3. h[s] = IF s = {} THEN 0 ELSE f[Picked(s)] + h[s \ {Picked(s)}]
    <3>1. Adds(f, T, h)[s] = IF s = {} THEN 0 ELSE f[Picked(s)] + h[s \ {Picked(s)}]
      BY DEF Adds
    <3> QED  BY <3>1
  <2>4. s # {} => g[s \ {Picked(s)}] = h[s \ {Picked(s)}]
    BY <1>2, PickedIn
  <2> QED  BY <2>2, <2>3, <2>4
<1>3. \A s \in SUBSET T : s \in F
  <2> HIDE DEF F
  <2> QED  BY <1>1, <1>2, SubsetInduction
<1> QED  BY <1>3

\* The recursion has a solution.
LEMMA AddsSolved ==
  ASSUME NEW f, NEW S, IsFiniteSet(S)
  PROVE  \E g : g = Adds(f, S, g)
<1> DEFINE Upto(g, k) == \A s \in SUBSET S : Cardinality(s) <= k => g[s] = Adds(f, S, g)[s]
           T == {k \in Nat : \A g : ~Upto(Adds(f, S, g), k)}
<1>1. \A s \in SUBSET S : IsFiniteSet(s) /\ Cardinality(s) \in Nat
  BY FS_Subset, FS_CardinalityType
<1>2. ASSUME T # {} PROVE FALSE
  <2>1. PICK k \in T : \A m \in T : k <= m
    <3>1. T \subseteq Nat
      OBVIOUS
    <3> HIDE DEF T
    <3> QED  BY <1>2, <3>1, LeastNatural
  <2>2. k \in Nat
    OBVIOUS
  <2>3. \E g : \A s \in SUBSET S : Cardinality(s) < k => Adds(f, S, g)[s] = Adds(f, S, Adds(f, S, g))[s]
    <3>1. CASE k = 0
      <4>1. \A s \in SUBSET S : ~(Cardinality(s) < k)
        BY <1>1, <3>1
      <4> QED  BY <4>1
    <3>2. CASE k # 0
      <4>1. k - 1 \in Nat /\ ~(k <= k - 1)
        BY <2>2, <3>2
      <4>2. k - 1 \notin T
        BY <2>1, <4>1
      <4>3. PICK g : Upto(Adds(f, S, g), k - 1)
        BY <4>1, <4>2
      <4>4. \A s \in SUBSET S : Cardinality(s) < k => Cardinality(s) <= k - 1
        BY <1>1, <2>2
      <4> QED  BY <4>3, <4>4
    <3> QED  BY <3>1, <3>2
  <2>4. PICK g : \A s \in SUBSET S : Cardinality(s) < k => Adds(f, S, g)[s] = Adds(f, S, Adds(f, S, g))[s]
    BY <2>3
  <2> DEFINE h == Adds(f, S, g)
             i == Adds(f, S, h)
             j == Adds(f, S, i)
  <2>5. ASSUME NEW s \in SUBSET S, Cardinality(s) <= k PROVE i[s] = j[s]
    <3>1. i[s] = IF s = {} THEN 0 ELSE f[Picked(s)] + h[s \ {Picked(s)}]
      BY DEF Adds
    <3>2. j[s] = IF s = {} THEN 0 ELSE f[Picked(s)] + i[s \ {Picked(s)}]
      BY DEF Adds
    <3>3. ASSUME s # {} PROVE h[s \ {Picked(s)}] = i[s \ {Picked(s)}]
      <4>1. Picked(s) \in s
        BY <3>3, PickedIn
      <4>2. s \ {Picked(s)} \in SUBSET S /\ Cardinality(s \ {Picked(s)}) < k
        BY <4>1, <1>1, <2>2, <2>5, FS_RemoveElement
      <4> QED  BY <2>4, <4>2
    <3> HIDE DEF h, i, j
    <3> QED  BY <3>1, <3>2, <3>3
  <2>6. Upto(Adds(f, S, h), k)
    BY <2>5
  <2> QED  BY <2>1, <2>6
<1>3. Cardinality(S) \in Nat /\ Cardinality(S) \notin T
  BY <1>1, <1>2
<1>4. PICK g : Upto(Adds(f, S, g), Cardinality(S))
  BY <1>3
<1> DEFINE h == Adds(f, S, g)
           i == Adds(f, S, h)
<1>5. \A s \in SUBSET S : h[s] = i[s]
  BY <1>4, FS_Subset
<1>6. h = [s \in SUBSET S |-> h[s]] /\ i = [s \in SUBSET S |-> i[s]]
  BY DEF Adds
<1>7. h = i
  <2> HIDE DEF h, i
  <2> QED  BY <1>5, <1>6
<1> QED  BY <1>7

LEMMA SumSolution ==
  ASSUME NEW f, NEW S, IsFiniteSet(S)
  PROVE  \E g : g = Adds(f, S, g) /\ SumFunctionOnSet(f, S) = g[S]
<1> DEFINE g == CHOOSE g : g = Adds(f, S, g)
<1>1. g = Adds(f, S, g)
  BY AddsSolved
<1>2. SumFunctionOnSet(f, S) = g[S]
  BY SumIsChosen
<1> QED  BY <1>1, <1>2

\* A sum is its picked term and the sum of the others.
LEMMA SumUnfolds ==
  ASSUME NEW f, NEW S, IsFiniteSet(S)
  PROVE  SumFunctionOnSet(f, S) =
           IF S = {} THEN 0
           ELSE f[Picked(S)] + SumFunctionOnSet(f, S \ {Picked(S)})
<1>1. PICK g : g = Adds(f, S, g) /\ SumFunctionOnSet(f, S) = g[S]
  BY SumSolution
<1>2. Adds(f, S, g)[S] = IF S = {} THEN 0 ELSE f[Picked(S)] + g[S \ {Picked(S)}]
  BY DEF Adds
<1>3. g[S] = IF S = {} THEN 0 ELSE f[Picked(S)] + g[S \ {Picked(S)}]
  BY <1>1, <1>2
<1> DEFINE T == S \ {Picked(S)}
<1>4. IsFiniteSet(T) /\ T \in SUBSET S
  BY FS_RemoveElement
<1>5. PICK h : h = Adds(f, T, h) /\ SumFunctionOnSet(f, T) = h[T]
  BY <1>4, SumSolution
<1>6. g[T] = h[T]
  BY <1>1, <1>4, <1>5, AddsAgree
<1> QED  BY <1>1, <1>3, <1>5, <1>6

\* Naturals add up to a natural, and any of them can be taken out first.
LEMMA SumRemoves ==
  ASSUME NEW W, IsFiniteSet(W), NEW f, \A x \in W : f[x] \in Nat
  PROVE  \A S \in SUBSET W :
           /\ SumFunctionOnSet(f, S) \in Nat
           /\ S = {} => SumFunctionOnSet(f, S) = 0
           /\ \A x \in S : SumFunctionOnSet(f, S) = f[x] + SumFunctionOnSet(f, S \ {x})
<1> DEFINE sum(S) == SumFunctionOnSet(f, S)
           N == {S \in SUBSET W : sum(S) \in Nat}
           F == {S \in SUBSET W : \A x \in S : sum(S) = f[x] + sum(S \ {x})}
<1>0. \A S \in SUBSET W : IsFiniteSet(S)
  BY FS_Subset
<1>1. \A S \in SUBSET W : sum(S) = IF S = {} THEN 0 ELSE f[Picked(S)] + sum(S \ {Picked(S)})
  BY <1>0, SumUnfolds
<1> HIDE DEF sum
<1>2. ASSUME NEW S \in SUBSET W, \A x \in S : S \ {x} \in N PROVE S \in N
  <2>1. CASE S = {}
    BY <1>1, <2>1
  <2>2. CASE S # {}
    <3>1. Picked(S) \in S
      BY <2>2, PickedIn
    <3>2. sum(S \ {Picked(S)}) \in Nat /\ f[Picked(S)] \in Nat
      BY <1>2, <3>1
    <3> QED  BY <1>1, <2>2, <3>2
  <2> QED  BY <2>1, <2>2
<1>3. \A S \in SUBSET W : S \in N
  <2> HIDE DEF N
  <2> QED  BY <1>2, SubsetInduction
<1>4. ASSUME NEW S \in SUBSET W, \A x \in S : S \ {x} \in F PROVE S \in F
  <2>1. CASE S = {}
    BY <1>1, <2>1
  <2>2. CASE S # {}
    <3> DEFINE y == Picked(S)
    <3>1. y \in S
      BY <2>2, PickedIn
    <3>2. sum(S) = f[y] + sum(S \ {y})
      BY <1>1, <2>2
    <3> HIDE DEF y
    <3>4. ASSUME NEW x \in S, x # y PROVE sum(S) = f[x] + sum(S \ {x})
      <4>1. S \ {x} \in F /\ S \ {y} \in F
        BY <1>4, <3>1
      <4>2. (S \ {x}) \ {y} = (S \ {y}) \ {x} /\ y \in S \ {x} /\ x \in S \ {y}
        BY <3>1, <3>4
      <4> DEFINE r == sum((S \ {x}) \ {y})
      <4>3. sum(S \ {x}) = f[y] + r /\ sum(S \ {y}) = f[x] + r
        BY <4>1, <4>2
      <4>4. r \in Nat
        <5>1. (S \ {x}) \ {y} \in SUBSET W
          OBVIOUS
        <5> QED  BY <1>3, <5>1
      <4>5. f[x] \in Nat /\ f[y] \in Nat
        BY <3>1
      <4> HIDE DEF r
      <4> QED  BY <3>2, <4>3, <4>4, <4>5
    <3> QED  BY <3>2, <3>4
  <2> QED  BY <2>1, <2>2
<1>5. \A S \in SUBSET W : S \in F
  <2> HIDE DEF F
  <2> QED  BY <1>4, SubsetInduction
<1>6. \A S \in SUBSET W : S = {} => sum(S) = 0
  BY <1>1
<1> QED  BY <1>5, <1>6, <1>3 DEF sum

\* The term of x in the sum of f over E.
Term(f, E, x) == IF x \in E THEN f[x] ELSE 0

\* What holds of the terms holds of the sums: of b2 over E2 and p over P on the
\* one side, of b over E and q over P on the other.
LEMMA SumsBalance ==
  ASSUME NEW W, IsFiniteSet(W),
         NEW E \in SUBSET W, NEW E2 \in SUBSET W, NEW P \in SUBSET W,
         NEW b, NEW b2, NEW p, NEW q,
         \A x \in E : b[x] \in Nat, \A x \in E2 : b2[x] \in Nat,
         \A x \in P : p[x] \in Nat /\ q[x] \in Nat,
         \A x \in W : Term(b2, E2, x) + Term(p, P, x) = Term(b, E, x) + Term(q, P, x)
  PROVE  /\ SumFunctionOnSet(b2, E2) \in Nat /\ SumFunctionOnSet(p, P) \in Nat
         /\ SumFunctionOnSet(b, E) \in Nat /\ SumFunctionOnSet(q, P) \in Nat
         /\ SumFunctionOnSet(b2, E2) + SumFunctionOnSet(p, P)
              = SumFunctionOnSet(b, E) + SumFunctionOnSet(q, P)
<1> DEFINE part(f, D, S) == SumFunctionOnSet(f, S \cap D)
<1>1. ASSUME NEW D \in SUBSET W, NEW f, \A x \in D : f[x] \in Nat, NEW S \in SUBSET W
      PROVE  /\ part(f, D, S) \in Nat
             /\ S = {} => part(f, D, S) = 0
             /\ \A x \in S : part(f, D, S) = Term(f, D, x) + part(f, D, S \ {x})
  <2>1. IsFiniteSet(D)
    BY FS_Subset
  <2>2. S \cap D \in SUBSET D
    OBVIOUS
  <2>3. /\ SumFunctionOnSet(f, S \cap D) \in Nat
        /\ S \cap D = {} => SumFunctionOnSet(f, S \cap D) = 0
        /\ \A x \in S \cap D :
             SumFunctionOnSet(f, S \cap D) = f[x] + SumFunctionOnSet(f, (S \cap D) \ {x})
    BY <1>1, <2>1, <2>2, SumRemoves
  <2>4. ASSUME NEW x \in S PROVE part(f, D, S) = Term(f, D, x) + part(f, D, S \ {x})
    <3>1. CASE x \in D
      <4>1. (S \cap D) \ {x} = (S \ {x}) \cap D
        OBVIOUS
      <4> QED  BY <2>3, <3>1, <4>1 DEF Term
    <3>2. CASE x \notin D
      <4>1. (S \ {x}) \cap D = S \cap D
        BY <3>2
      <4>2. part(f, D, S) \in Nat /\ part(f, D, S \ {x}) = part(f, D, S)
        BY <2>3, <4>1
      <4>3. Term(f, D, x) = 0
        BY <3>2 DEF Term
      <4> HIDE DEF part
      <4> QED  BY <4>2, <4>3
    <3> QED  BY <3>1, <3>2
  <2> QED  BY <2>3, <2>4
<1>2. ASSUME NEW D \in SUBSET W, NEW f, \A x \in D : f[x] \in Nat, NEW x \in W
      PROVE  Term(f, D, x) \in Nat
  BY <1>2 DEF Term
<1> DEFINE F == {S \in SUBSET W : part(b2, E2, S) + part(p, P, S)
                                    = part(b, E, S) + part(q, P, S)}
<1>3. ASSUME NEW S \in SUBSET W, \A x \in S : S \ {x} \in F PROVE S \in F
  <2> HIDE DEF part
  <2>1. CASE S = {}
    <3>1. part(b2, E2, S) = 0 /\ part(p, P, S) = 0
      BY <1>1, <2>1
    <3>2. part(b, E, S) = 0
      BY <1>1, <2>1
    <3>3. part(q, P, S) = 0
      BY <1>1, <2>1
    <3> QED  BY <3>1, <3>2, <3>3
  <2>2. CASE S # {}
    <3>1. PICK x \in S : TRUE
      BY <2>2
    <3> DEFINE T == S \ {x}
    <3>2. T \in SUBSET W /\ T \in F
      BY <1>3
    <3>3. /\ part(b2, E2, S) = Term(b2, E2, x) + part(b2, E2, T)
          /\ part(p, P, S) = Term(p, P, x) + part(p, P, T)
      BY <1>1
    <3>4. /\ part(b, E, S) = Term(b, E, x) + part(b, E, T)
          /\ part(q, P, S) = Term(q, P, x) + part(q, P, T)
      BY <1>1
    <3>5. /\ part(b2, E2, T) \in Nat /\ part(p, P, T) \in Nat
          /\ part(b, E, T) \in Nat /\ part(q, P, T) \in Nat
      BY <1>1, <3>2
    <3>6. /\ Term(b2, E2, x) \in Nat /\ Term(p, P, x) \in Nat
          /\ Term(b, E, x) \in Nat /\ Term(q, P, x) \in Nat
      BY <1>2
    <3>7. part(b2, E2, T) + part(p, P, T) = part(b, E, T) + part(q, P, T)
      BY <3>2
    <3>8. Term(b2, E2, x) + Term(p, P, x) = Term(b, E, x) + Term(q, P, x)
      OBVIOUS
    <3> HIDE DEF T
    <3>9. part(b2, E2, S) + part(p, P, S) = part(b, E, S) + part(q, P, S)
      BY <3>3, <3>4, <3>5, <3>6, <3>7, <3>8
    <3> QED  BY <3>9
  <2> QED  BY <2>1, <2>2
<1>4. W \in F
  <2> HIDE DEF F
  <2> QED  BY <1>3, SubsetInduction
<1>5. W \cap E = E /\ W \cap E2 = E2 /\ W \cap P = P
  OBVIOUS
<1>6. /\ part(b2, E2, W) \in Nat /\ part(p, P, W) \in Nat
      /\ part(b, E, W) \in Nat /\ part(q, P, W) \in Nat
  <2> HIDE DEF part
  <2> QED  BY <1>1
<1> QED  BY <1>4, <1>5, <1>6

--------------------------------------------------------------------------------
(* Sums that wrap.                                                          *)

\* x and y differ by a multiple of M.
Congruent(M, x, y) == \E k \in Int : x = y + k * M

LEMMA ModCongruent ==
  ASSUME NEW M \in Nat \ {0}, NEW x \in Int
  PROVE  x % M \in 0..(M - 1) /\ Congruent(M, x, x % M)
<1>1. x % M \in 0..(M - 1)
  OBVIOUS
<1>2. x = (x % M) + (x \div M) * M /\ x \div M \in Int
  OBVIOUS
<1> QED  BY <1>1, <1>2 DEF Congruent

LEMMA CongruentSum ==
  ASSUME NEW M \in Nat \ {0}, NEW x \in Int, NEW y \in Int, NEW u \in Int, NEW v \in Int,
         Congruent(M, x, y), Congruent(M, u, v)
  PROVE  Congruent(M, x + u, y + v) /\ Congruent(M, x - u, y - v) /\ Congruent(M, y, x)
<1>1. PICK k \in Int : x = y + k * M
  BY DEF Congruent
<1>2. PICK l \in Int : u = v + l * M
  BY DEF Congruent
<1>3. /\ k * M \in Int /\ l * M \in Int /\ (k + l) * M = k * M + l * M
      /\ (k - l) * M = k * M - l * M /\ (-k) * M = -(k * M)
  OBVIOUS
<1>4. /\ x + u = (y + v) + (k + l) * M /\ x - u = (y - v) + (k - l) * M
      /\ y = x + (-k) * M
  BY <1>1, <1>2, <1>3
<1>5. k + l \in Int /\ k - l \in Int /\ -k \in Int
  OBVIOUS
<1> QED  BY <1>4, <1>5 DEF Congruent

\* Congruent numbers have the same remainder.
LEMMA CongruentMod ==
  ASSUME NEW M \in Nat \ {0}, NEW x \in Int, NEW y \in Int, Congruent(M, x, y)
  PROVE  x % M = y % M
<1> DEFINE r == x % M
           s == y % M
<1>1. r \in 0..(M - 1) /\ Congruent(M, x, r) /\ s \in 0..(M - 1) /\ Congruent(M, y, s)
  BY ModCongruent
<1> HIDE DEF r, s
<1>2. PICK n \in Int : r - s = (x - y) + n * M
  <2>1. Congruent(M, x - y, r - s)
    BY <1>1, CongruentSum
  <2>2. x - y \in Int /\ r - s \in Int
    BY <1>1
  <2>3. Congruent(M, r - s, x - y)
    BY <2>1, <2>2, CongruentSum
  <2> QED  BY <2>3 DEF Congruent
<1>3. PICK k \in Int : x = y + k * M
  BY DEF Congruent
<1>4. r - s = (k + n) * M
  <2>1. (k + n) * M = k * M + n * M /\ k * M \in Int /\ n * M \in Int
    OBVIOUS
  <2> QED  BY <1>1, <1>2, <1>3, <2>1
<1>5. ASSUME NEW m \in Int, m * M < M, m * M > -M PROVE m = 0
  <2>1. m >= 1 => m * M >= M
    OBVIOUS
  <2>2. m <= -1 => m * M <= -M
    OBVIOUS
  <2> QED  BY <1>5, <2>1, <2>2
<1>6. k + n = 0
  BY <1>1, <1>4, <1>5
<1> QED  BY <1>1, <1>4, <1>6 DEF r, s

\* Wallets held a in all before a step and b after it, those proposed c before and
\* d after; the supply was t.  If c and d wrap to the same, so do a and b; and the
\* supply that the token predicate expects follows the wallets.
SupplyFollows(M, a, b, c, d, t) ==
  /\ c % M = d % M => b % M = a % M
  /\ (((t + (d % M) + M - (c % M)) % M) + (a % M)) % M = (t + (b % M)) % M

LEMMA WrappedSums ==
  ASSUME NEW M \in Nat \ {0}, NEW a \in Nat, NEW b \in Nat, NEW c \in Nat, NEW d \in Nat,
         b + c = a + d, NEW t \in Nat
  PROVE  SupplyFollows(M, a, b, c, d, t)
<1> DEFINE p == c % M
           q == d % M
           x == a % M
           y == b % M
           e == t + q + M - p
<1>1. /\ p \in Int /\ q \in Int /\ x \in Int /\ y \in Int
      /\ Congruent(M, c, p) /\ Congruent(M, d, q) /\ Congruent(M, a, x) /\ Congruent(M, b, y)
  <2>1. \A z \in Nat : (z % M) \in Int /\ Congruent(M, z, z % M)
    BY ModCongruent
  <2> QED  BY <2>1
<1>2. Congruent(M, M, 0) /\ \A z \in Int : Congruent(M, z, z)
  <2>1. M = 0 + 1 * M /\ \A z \in Int : z = z + 0 * M
    OBVIOUS
  <2> QED  BY <2>1 DEF Congruent
<1>3. ASSUME p = q PROVE y = x
  <2>1. Congruent(M, d - c, q - p)
    BY <1>1, CongruentSum
  <2>2. Congruent(M, d - c, 0)
    BY <1>1, <1>3, <2>1
  <2>3. Congruent(M, a + (d - c), a + 0)
    BY <1>2, <2>2, CongruentSum
  <2>4. a + (d - c) = b /\ a + 0 = a
    OBVIOUS
  <2>5. Congruent(M, b, a)
    BY <2>3, <2>4
  <2> QED  BY <2>5, CongruentMod
<1>4. ((e % M) + x) % M = (t + y) % M
  <2> HIDE DEF p, q, x, y
  <2>0. t \in Int /\ Congruent(M, t, t)
    BY <1>2
  <2>1. e \in Int
    BY <1>1
  <2>2. Congruent(M, (t + d + M) - c, e)
    <3>1. Congruent(M, t + d, t + q)
      BY <1>1, <2>0, CongruentSum
    <3>2. Congruent(M, t + d + M, t + q + M)
      BY <1>1, <1>2, <3>1, CongruentSum
    <3> QED  BY <1>1, <3>2, CongruentSum
  <2>3. Congruent(M, e, e % M) /\ e % M \in Int
    BY <2>1, ModCongruent
  <2> DEFINE f == e % M
  <2> HIDE DEF e
  <2>4. Congruent(M, e + a, f + x)
    BY <1>1, <2>1, <2>3, CongruentSum
  <2>5. Congruent(M, ((t + d + M) - c) + a, e + a)
    BY <1>2, <2>1, <2>2, CongruentSum
  <2>6. ((t + d + M) - c) + a = (t + b) + M
    OBVIOUS
  <2>7. Congruent(M, (t + b) + M, (t + y) + 0)
    <3>1. Congruent(M, t + b, t + y)
      BY <1>1, <2>0, CongruentSum
    <3> QED  BY <1>1, <1>2, <3>1, CongruentSum
  <2> HIDE DEF f
  <2>8. f + x \in Int /\ t + y \in Int /\ e + a \in Int /\ (t + b) + M \in Int /\ (t + y) + 0 = t + y
    BY <1>1, <2>1, <2>3 DEF f
  <2>9. (f + x) % M = (e + a) % M
    BY <2>4, <2>8, CongruentMod
  <2>10. ((t + b) + M) % M = (e + a) % M
    BY <2>5, <2>6, <2>8, CongruentMod
  <2>11. ((t + b) + M) % M = (t + y) % M
    BY <2>7, <2>8, CongruentMod
  <2> QED  BY <2>9, <2>10, <2>11 DEF f
<1> QED  BY <1>3, <1>4 DEF SupplyFollows

--------------------------------------------------------------------------------
(* Minting.                                                                 *)

\* What sum_balances adds up, before it wraps.
Before(ch) == [w \in DOMAIN ch \cap Wallet |->
                 IF ch[w].op \in {"ReplaceState", "DeleteAccount"} THEN balance[w] ELSE 0]
After(ch)  == [w \in DOMAIN ch \cap Wallet |->
                 IF ch[w].op \in {"CreateAccount", "ReplaceState"} THEN ch[w].to ELSE 0]
Held       == [w \in {v \in Wallet : Exists(v)} |-> balance[w]]

\* What a change leaves of a wallet is what it held, less what sum_balances counts
\* before and more what it counts after (token.rs:246-287, collect.rs:59-104).
LEMMA WalletTerms ==
  ASSUME IInv, NEW ch \in Proposals, balance' = Outputs(ch), NEW w \in Wallet
  PROVE  Term(Held', DOMAIN (Held'), w) + Term(Before(ch), DOMAIN ch \cap Wallet, w)
           = Term(Held, DOMAIN Held, w) + Term(After(ch), DOMAIN ch \cap Wallet, w)
<1>0. w \in Addr /\ balance[w] \in Number \cup {None} /\ None \notin Number /\ Number \subseteq Nat
  BY LedgerAssumption DEF IInv, Addr, Number
<1>1. Term(Held, DOMAIN Held, w) = IF balance[w] = None THEN 0 ELSE balance[w]
  BY DEF Term, Held, Exists
<1>2. Term(Held', DOMAIN (Held'), w) = IF balance'[w] = None THEN 0 ELSE balance'[w]
  BY DEF Term, Held, Exists
<1>3. CASE w \notin DOMAIN ch
  <2>1. balance'[w] = balance[w]
    BY <1>0, <1>3 DEF Outputs
  <2>2. Term(Before(ch), DOMAIN ch \cap Wallet, w) = 0 /\ Term(After(ch), DOMAIN ch \cap Wallet, w) = 0
    BY <1>3 DEF Term
  <2> QED  BY <1>0, <1>1, <1>2, <2>1, <2>2
<1>4. CASE w \in DOMAIN ch
  <2>1. Term(Before(ch), DOMAIN ch \cap Wallet, w) =
          IF ch[w].op \in {"ReplaceState", "DeleteAccount"} THEN balance[w] ELSE 0
    BY <1>4 DEF Term, Before
  <2>2. Term(After(ch), DOMAIN ch \cap Wallet, w) =
          IF ch[w].op \in {"CreateAccount", "ReplaceState"} THEN ch[w].to ELSE 0
    BY <1>4 DEF Term, After
  <2>3. ch[w] \in Changes(w)
    BY <1>4, ProposalChanges
  <2>4. balance'[w] = IF ch[w] = Repredicate THEN balance[w] ELSE ch[w].to
    BY <1>0, <1>4 DEF Outputs
  <2>5. CASE \E n \in Number : ch[w] = Replace(n)
    <3>1. PICK n \in Number : ch[w] = Replace(n)
      BY <2>5
    <3>2. ch[w].op = "ReplaceState" /\ ch[w].to = n /\ ch[w] # Repredicate
      BY <1>0, <3>1 DEF Replace, Repredicate
    <3>3. balance[w] # None
      <4>1. CASE ~Exists(w)
        BY <2>3, <3>2, <4>1 DEF Changes, Create
      <4> QED  BY <4>1 DEF Exists
    <3>4. /\ Term(Held', DOMAIN (Held'), w) = n /\ Term(After(ch), DOMAIN ch \cap Wallet, w) = n
          /\ Term(Held, DOMAIN Held, w) = balance[w]
          /\ Term(Before(ch), DOMAIN ch \cap Wallet, w) = balance[w]
      BY <1>0, <1>1, <1>2, <2>1, <2>2, <2>4, <3>2, <3>3
    <3>5. n \in Nat /\ balance[w] \in Nat
      BY <1>0, <3>3
    <3> QED  BY <3>4, <3>5
  <2>6. CASE ch[w] = Repredicate
    <3>1. ch[w].op = "ReplacePredicates"
      BY <2>6 DEF Repredicate
    <3> QED  BY <1>0, <1>1, <1>2, <2>1, <2>2, <2>4, <2>6, <3>1
  <2>7. CASE ch[w] = Delete
    <3>1. ch[w].op = "DeleteAccount" /\ ch[w].to = None /\ ch[w] # Repredicate
      BY <2>7 DEF Delete, Repredicate
    <3>3. balance[w] # None
      <4>1. CASE ~Exists(w)
        BY <2>3, <3>1, <4>1 DEF Changes, Create
      <4> QED  BY <4>1 DEF Exists
    <3>4. /\ Term(Held', DOMAIN (Held'), w) = 0 /\ Term(After(ch), DOMAIN ch \cap Wallet, w) = 0
          /\ Term(Held, DOMAIN Held, w) = balance[w]
          /\ Term(Before(ch), DOMAIN ch \cap Wallet, w) = balance[w]
      BY <1>1, <1>2, <2>1, <2>2, <2>4, <3>1, <3>3
    <3>5. balance[w] \in Nat
      BY <1>0, <3>3
    <3> QED  BY <3>4, <3>5
  <2>8. CASE \E n \in Number : ch[w] = Create(n)
    <3>1. PICK n \in Number : ch[w] = Create(n)
      BY <2>8
    <3>2. ch[w].op = "CreateAccount" /\ ch[w].to = n /\ ch[w] # Repredicate
      BY <1>0, <3>1 DEF Create, Repredicate
    <3>3. balance[w] = None
      <4>1. CASE Exists(w)
        BY <2>3, <3>2, <4>1 DEF Changes, Replace, Repredicate, Delete
      <4> QED  BY <4>1 DEF Exists
    <3> QED  BY <1>0, <1>1, <1>2, <2>1, <2>2, <2>4, <3>2, <3>3
  <2> QED  BY <2>3, <2>5, <2>6, <2>7, <2>8 DEF Changes
<1> QED  BY <1>3, <1>4

\* So the sum of all wallets changes as those of the proposed wallets do.
LEMMA ExecuteSums ==
  ASSUME IInv, NEW ch \in Proposals, balance' = Outputs(ch)
  PROVE  /\ SumFunction(Held') \in Nat /\ SumFunction(Before(ch)) \in Nat
         /\ SumFunction(Held) \in Nat /\ SumFunction(After(ch)) \in Nat
         /\ SumFunction(Held') + SumFunction(Before(ch))
              = SumFunction(Held) + SumFunction(After(ch))
<1> DEFINE P == DOMAIN ch \cap Wallet
<1>1. DOMAIN Before(ch) = P /\ DOMAIN After(ch) = P
  BY DEF Before, After
<1>2. DOMAIN Held \in SUBSET Wallet /\ DOMAIN (Held') \in SUBSET Wallet /\ P \in SUBSET Wallet
  BY DEF Held
<1>3. None \notin Number /\ Number \subseteq Nat /\ IsFiniteSet(Wallet) /\ Wallet \subseteq Addr
  BY LedgerAssumption DEF Number, Addr
<1>4. \A w \in DOMAIN Held : Held[w] \in Nat
  BY <1>3 DEF Held, IInv, Exists
<1>5. \A w \in DOMAIN (Held') : (Held')[w] \in Nat
  <2>1. balance' \in [Addr -> Number \cup {None}]
    BY OutputsType DEF IInv
  <2> QED  BY <1>3, <2>1 DEF Held, Exists
<1>6. ASSUME NEW w \in P PROVE Before(ch)[w] \in Nat /\ After(ch)[w] \in Nat
  <2>1. ch[w] \in Changes(w) /\ balance[w] \in Number \cup {None}
    BY <1>3, ProposalChanges DEF IInv
  <2>2. ch[w].op \in {"ReplaceState", "DeleteAccount"} => balance[w] \in Number
    BY <1>3, <2>1 DEF Changes, Create, Exists
  <2>3. ch[w].op \in {"CreateAccount", "ReplaceState"} => ch[w].to \in Number
    BY <2>1 DEF Changes, Create, Replace, Delete, Repredicate
  <2> QED  BY <1>3, <2>2, <2>3 DEF Before, After
<1>7. \A w \in Wallet : Term(Held', DOMAIN (Held'), w) + Term(Before(ch), P, w)
                          = Term(Held, DOMAIN Held, w) + Term(After(ch), P, w)
  BY WalletTerms
<1> DEFINE h2 == Held'
           h == Held
           p == Before(ch)
           q == After(ch)
<1>8. SumFunction(h2) = SumFunctionOnSet(h2, DOMAIN h2) /\ SumFunction(h) = SumFunctionOnSet(h, DOMAIN h)
      /\ SumFunction(p) = SumFunctionOnSet(p, P) /\ SumFunction(q) = SumFunctionOnSet(q, P)
  BY <1>1 DEF SumFunction
<1> HIDE DEF h2, h, p, q, P
<1>9. /\ SumFunctionOnSet(h2, DOMAIN h2) \in Nat /\ SumFunctionOnSet(p, P) \in Nat
      /\ SumFunctionOnSet(h, DOMAIN h) \in Nat /\ SumFunctionOnSet(q, P) \in Nat
      /\ SumFunctionOnSet(h2, DOMAIN h2) + SumFunctionOnSet(p, P)
           = SumFunctionOnSet(h, DOMAIN h) + SumFunctionOnSet(q, P)
  <2>1. DOMAIN h \in SUBSET Wallet /\ DOMAIN h2 \in SUBSET Wallet /\ P \in SUBSET Wallet
    BY <1>2 DEF h, h2
  <2>2. /\ \A x \in DOMAIN h : h[x] \in Nat
        /\ \A x \in DOMAIN h2 : h2[x] \in Nat
    BY <1>4, <1>5 DEF h, h2
  <2>3. \A x \in P : p[x] \in Nat /\ q[x] \in Nat
    BY <1>6 DEF p, q
  <2>4. \A x \in Wallet : Term(h2, DOMAIN h2, x) + Term(p, P, x)
                            = Term(h, DOMAIN h, x) + Term(q, P, x)
    BY <1>7 DEF h, h2, p, q
  <2> QED  BY <1>3, <2>1, <2>2, <2>3, <2>4, SumsBalance
<1> QED  BY <1>8, <1>9 DEF h, h2, p, q

\* A signature of the token that a transaction accepts is on an intent of the mint
\* authority; where it was gossiped it is never accepted (intent.rs:70-97).
LEMMA MintSigned ==
  ASSUME IInv, NEW is \in SUBSET intents, NEW js,
         js = is \/ js = {Gossiped(i) : i \in is}, SignedBy(js, Token)
  PROVE  \E i \in intents : SignedBy({i}, Token)
<1>1. PICK j \in js : [key |-> Token, msg |-> Hash(j)] \in j.calldata
  BY DEF SignedBy
<1>2. CASE js = is
  BY <1>1, <1>2 DEF SignedBy
<1>3. CASE js = {Gossiped(i) : i \in is}
  <2>1. PICK i \in intents : j = Gossiped(i)
    BY <1>1, <1>3
  <2>2. j.calldata = i.calldata /\ Hash(j) = <<"intent", i.tree, i.calldata>>
    BY <2>1 DEF Gossiped, Hash, FullHash
  <2>3. ASSUME NEW tree, NEW key, i = Sign(NewIntent(tree), key) PROVE FALSE
    <3>1. \A s \in i.calldata : s.msg = <<"content", tree>>
      BY <2>3 DEF Sign, NewIntent, SigningHash, ContentHash
    <3>2. [key |-> Token, msg |-> Hash(j)].msg = <<"content", tree>>
      BY <1>1, <2>2, <3>1
    <3>3. <<"intent", i.tree, i.calldata>> = <<"content", tree>>
      BY <2>2, <3>2
    <3> QED  BY <3>3
  <2>4. ASSUME NEW tree, i = NewIntent(tree) PROVE FALSE
    BY <1>1, <2>2, <2>4 DEF NewIntent
  <2> QED
    BY <2>3, <2>4 DEF IInv, IntentForms, MintIntent, TransferIntent, PoolIntent,
                      DonationIntent
<1> QED  BY <1>2, <1>3

\* An accepted transaction with a token: the sums are equal or the change is signed
\* and the supply follows.
LEMMA ExecuteMints ==
  ASSUME IInv, NEW is \in SUBSET intents, NEW js, NEW ch \in Proposals,
         js = is \/ js = {Gossiped(i) : i \in is}, Accepted(js, ch),
         balance' = Outputs(ch)
  PROVE  MintingStep
<1> DEFINE a == SumFunction(Held)
           b == SumFunction(Held')
           c == SumFunction(Before(ch))
           d == SumFunction(After(ch))
           M == Modulus
<1>1. /\ a \in Nat /\ b \in Nat /\ c \in Nat /\ d \in Nat /\ b + c = a + d
  BY ExecuteSums
<1>2. /\ Supply = a % M /\ Supply' = b % M /\ SumBefore(ch) = c % M /\ SumAfter(ch) = d % M
  BY DEF Supply, SumBefore, SumAfter, Held, Before, After
<1>3. M \in Nat \ {0}
  BY LedgerAssumption
<1> HIDE DEF a, b, c, d, M
<1>9. ASSUME NEW t \in Nat
      PROVE  /\ c % M = d % M => b % M = a % M
             /\ (((t + (d % M) + M - (c % M)) % M) + (a % M)) % M = (t + (b % M)) % M
  <2>1. SupplyFollows(M, a, b, c, d, t)
    BY <1>1, <1>3, WrappedSums
  <2> QED  BY <2>1 DEF SupplyFollows
<1> SUFFICES ASSUME Exists(Token), Supply' # Supply
             PROVE  /\ \E i \in intents : SignedBy({i}, Token)
                    /\ Exists(Token)' => (balance'[Token] + Supply) % M
                                           = (balance[Token] + Supply') % M
  BY DEF MintingStep, M
<1>4. c % M # d % M
  <2>1. 0 \in Nat
    OBVIOUS
  <2> QED  BY <1>2, <1>9, <2>1
<1>5. DOMAIN ch # {}
  <2>1. ASSUME DOMAIN ch = {} PROVE Before(ch) = After(ch)
    BY <2>1 DEF Before, After
  <2> QED  BY <1>4, <2>1 DEF c, d
<1>6. SignedBy(js, Token) /\ SupplyAccepts(ch)
  BY <1>2, <1>4, <1>5 DEF Accepted, TokenAccepts
<1>7. \E i \in intents : SignedBy({i}, Token)
  BY <1>6, MintSigned
<1>8. ASSUME balance'[Token] # None
      PROVE  (balance'[Token] + Supply) % M = (balance[Token] + Supply') % M
  <2>1. Token \in DOMAIN ch /\ Token \in Addr
    BY <1>6 DEF SupplyAccepts, Addr
  <2>2. ch[Token] \in Changes(Token) /\ balance[Token] \in Nat
    BY <2>1, ProposalChanges, LedgerAssumption DEF IInv, Exists, Number
  <2>3. balance'[Token] = IF ch[Token] = Repredicate THEN balance[Token] ELSE ch[Token].to
    BY <2>1 DEF Outputs
  <2>4. ch[Token].op # "CreateAccount"
    BY <2>2 DEF Changes, Replace, Repredicate, Delete
  <2>5. ch[Token].op = "DeleteAccount" => ch[Token] = Delete
    BY <2>2, <2>4 DEF Changes, Replace, Repredicate, Delete
  <2>6. ch[Token].op # "DeleteAccount"
    BY <1>8, <2>3, <2>5 DEF Delete, Repredicate
  <2>7. /\ ch[Token].op = "ReplaceState"
        /\ ch[Token].to = (balance[Token] + (d % M) + M - (c % M)) % M
    BY <1>2, <1>6, <2>4, <2>6 DEF SupplyAccepts, M
  <2>8. balance'[Token] = ch[Token].to
    BY <2>3, <2>7 DEF Repredicate
  <2> QED  BY <1>2, <1>9, <2>2, <2>7, <2>8
<1> QED  BY <1>7, <1>8 DEF Exists

\* Tokens appear and disappear only with the mint authority and the supply follows,
\* for any finite set of wallets, any modulus and any transactions.
THEOREM MintingIsSigned == Spec => MintingSigned
<1>1. IInv /\ [Next]_vars => [MintingStep]_vars
  <2> SUFFICES ASSUME IInv, Next PROVE MintingStep
    OBVIOUS
  <2>1. CASE UNCHANGED balance
    BY <2>1 DEF MintingStep, Supply, Exists
  <2>2. CASE \E is \in SUBSET intents : \E ch \in Proposals : Execute(is, ch)
    <3>1. PICK is \in SUBSET intents, ch \in Proposals : Execute(is, ch)
      BY <2>2
    <3>2. PICK js : (js = is \/ js = {Gossiped(i) : i \in is}) /\ Accepted(js, ch)
      BY <3>1 DEF Execute
    <3> QED  BY <3>1, <3>2, ExecuteMints DEF Execute
  <2> QED
    BY <2>1, <2>2 DEF Next, Mint, Transfer, DonateToPool, DonateToProject, Made
<1> QED
  BY <1>1, Inductive, PTL DEF Spec, MintingSigned

--------------------------------------------------------------------------------
(* What the patterns of the solver match and capture.                       *)

\* The parts of the trees that clients and patterns are made of.
LEMMA TreeParts ==
  ASSUME NEW p, NEW q, NEW r
  PROVE  /\ Len(And2(p, q)) = 3 /\ DOMAIN And2(p, q) = 1..3
         /\ And2(p, q)[1] = p /\ And2(p, q)[2] = q
         /\ And2(p, q)[3] = [op |-> "and", l |-> 1, r |-> 2]
         /\ Len(And3(p, q, r)) = 5 /\ DOMAIN And3(p, q, r) = 1..5
         /\ And3(p, q, r)[1] = p /\ And3(p, q, r)[2] = q /\ And3(p, q, r)[4] = r
         /\ And3(p, q, r)[3] = [op |-> "and", l |-> 1, r |-> 2]
         /\ And3(p, q, r)[5] = [op |-> "and", l |-> 3, r |-> 4]
BY DEF And2, And3

LEMMA IdParts ==
  ASSUME NEW pred, NEW params
  PROVE  /\ Id(pred, params).op = "id" /\ Id(pred, params).pred = pred
         /\ Id(pred, params).params = params
BY DEF Id

\* A tree of two predicates matches a template of two if both predicates do.
LEMMA MatchesTwo ==
  ASSUME NEW p, NEW q, NEW pp, NEW qq,
         p.op = "id", q.op = "id", pp.op = "id", qq.op = "id"
  PROVE  Matches(And2(p, q), And2(pp, qq))
           <=> PredicateMatches(p, pp) /\ PredicateMatches(q, qq)
<1> DEFINE t == And2(p, q)
           u == And2(pp, qq)
<1>1. /\ Len(t) = 3 /\ DOMAIN t = 1..3 /\ t[1] = p /\ t[2] = q /\ Len(u) = 3 
      /\ u[1] = pp /\ u[2] = qq /\ t[3] = u[3] /\ t[3].op # "id"
  BY TreeParts
<1> HIDE DEF t, u
<1>2. Matches(t, u) <=> PredicateMatches(p, pp) /\ PredicateMatches(q, qq)
  BY <1>1 DEF Matches
<1> QED  BY <1>2 DEF t, u

LEMMA MatchesThree ==
  ASSUME NEW p, NEW q, NEW r, NEW pp, NEW qq, NEW rr,
         p.op = "id", q.op = "id", r.op = "id", pp.op = "id", qq.op = "id", rr.op = "id"
  PROVE  Matches(And3(p, q, r), And3(pp, qq, rr))
           <=> PredicateMatches(p, pp) /\ PredicateMatches(q, qq) /\ PredicateMatches(r, rr)
<1> DEFINE t == And3(p, q, r)
           u == And3(pp, qq, rr)
<1>1. /\ Len(t) = 5 /\ DOMAIN t = 1..5 /\ t[1] = p /\ t[2] = q /\ t[4] = r /\ Len(u) = 5 
      /\ u[1] = pp /\ u[2] = qq /\ u[4] = rr /\ t[3] = u[3] /\ t[3].op # "id"
      /\ t[5] = u[5] /\ t[5].op # "id"
  BY TreeParts
<1> HIDE DEF t, u
<1>2. Matches(t, u) <=> PredicateMatches(p, pp) /\ PredicateMatches(q, qq) /\ PredicateMatches(r, rr)
  BY <1>1 DEF Matches
<1> QED  BY <1>2 DEF t, u

LEMMA MatchesLengths ==
  ASSUME NEW p, NEW q, NEW pp, NEW qq, NEW rr
  PROVE  ~Matches(And2(p, q), And3(pp, qq, rr)) /\ ~Matches(And3(pp, qq, rr), And2(p, q))
BY TreeParts DEF Matches

\* Captures are of a kind of parameter.
Kinds == {"Inline", "AccountRef", "ProposalRef"}

OnlyCaptures(params) ==
  \A k \in DOMAIN params : params[k].kind \in Kinds

\* find_matches looks at all parameters of a pattern that has only captures.
LEMMA CapturesLookedAt ==
  ASSUME NEW params, OnlyCaptures(params)
  PROVE  LookedAt(params) = Len(params)
BY DEF LookedAt, OnlyCaptures, Kinds

\* Three parameters of the captured kinds match.
LEMMA PredicateMatchesThree ==
  ASSUME NEW pred, NEW a, NEW b, NEW c, NEW x, NEW y, NEW z,
         x.kind \in Kinds, y.kind \in Kinds, z.kind \in Kinds,
         a.kind = x.kind, b.kind = y.kind, c.kind = z.kind
  PROVE  PredicateMatches(Id(pred, <<a, b, c>>), Id(pred, <<x, y, z>>))
<1> DEFINE s == <<a, b, c>>
           t == <<x, y, z>>
<1>1. /\ Len(s) = 3 /\ Len(t) = 3 /\ DOMAIN t = 1..3 /\ s[1] = a /\ s[2] = b /\ s[3] = c
      /\ t[1] = x /\ t[2] = y /\ t[3] = z
  OBVIOUS
<1> HIDE DEF s, t
<1>2. OnlyCaptures(t)
  BY <1>1 DEF OnlyCaptures
<1>3. LookedAt(t) = 3
  BY <1>1, <1>2, CapturesLookedAt
<1>4. \A k \in 1..3 : ParamMatches(s[k], t[k])
  <2>1. ParamMatches(a, x) /\ ParamMatches(b, y) /\ ParamMatches(c, z)
    BY DEF ParamMatches, Kinds
  <2> QED  BY <1>1, <2>1
<1>5. PredicateMatches(Id(pred, s), Id(pred, t))
  BY <1>1, <1>3, <1>4, IdParts DEF PredicateMatches
<1> QED  BY <1>5 DEF s, t

LEMMA PredicateMatchesTwo ==
  ASSUME NEW pred, NEW a, NEW b, NEW x, NEW y,
         x.kind \in Kinds, y.kind \in Kinds, a.kind = x.kind, b.kind = y.kind
  PROVE  PredicateMatches(Id(pred, <<a, b>>), Id(pred, <<x, y>>))
<1> DEFINE s == <<a, b>>
           t == <<x, y>>
<1>1. /\ Len(s) = 2 /\ Len(t) = 2 /\ DOMAIN t = 1..2 /\ s[1] = a /\ s[2] = b
      /\ t[1] = x /\ t[2] = y
  OBVIOUS
<1> HIDE DEF s, t
<1>2. OnlyCaptures(t)
  BY <1>1 DEF OnlyCaptures
<1>3. LookedAt(t) = 2
  BY <1>1, <1>2, CapturesLookedAt
<1>4. \A k \in 1..2 : ParamMatches(s[k], t[k])
  <2>1. ParamMatches(a, x) /\ ParamMatches(b, y)
    BY DEF ParamMatches, Kinds
  <2> QED  BY <1>1, <2>1
<1>5. PredicateMatches(Id(pred, s), Id(pred, t))
  BY <1>1, <1>3, <1>4, IdParts DEF PredicateMatches
<1> QED  BY <1>5 DEF s, t

\* Predicates with different code do not match.
LEMMA PredicateDiffers ==
  ASSUME NEW p, NEW q, NEW s, NEW t, p # q
  PROVE  ~PredicateMatches(Id(p, s), Id(q, t))
BY IdParts DEF PredicateMatches

\* Which intents each pattern matches.
LEMMA MintUnclaimed ==
  ASSUME NEW a, NEW b, NEW c, NEW d
  PROVE  LET t == MintTree(a, b, c, d)
         IN ~Matches(t, ProjectPattern) /\ ~Matches(t, PoolPattern) /\ ~Matches(t, DonationPattern)
<1> DEFINE t == MintTree(a, b, c, d)
<1>1. ~Matches(t, ProjectPattern)
  BY MatchesTwo, PredicateDiffers, IdParts DEF MintTree, ProjectPattern
<1>2. ~Matches(t, PoolPattern)
  BY MatchesTwo, PredicateDiffers, IdParts DEF MintTree, PoolPattern
<1>3. ~Matches(t, DonationPattern)
  BY MatchesLengths DEF MintTree, DonationPattern
<1> QED  BY <1>1, <1>2, <1>3

LEMMA TransferUnclaimed ==
  ASSUME NEW v, NEW w, NEW n
  PROVE  LET t == TransferTree(v, w, n)
         IN ~Matches(t, ProjectPattern) /\ ~Matches(t, PoolPattern) /\ ~Matches(t, DonationPattern)
<1> DEFINE t == TransferTree(v, w, n)
<1>1. ~Matches(t, ProjectPattern)
  BY MatchesTwo, PredicateDiffers, IdParts DEF TransferTree, ProjectPattern
<1>2. ~Matches(t, PoolPattern)
  BY MatchesTwo, PredicateDiffers, IdParts DEF TransferTree, PoolPattern
<1>3. ~Matches(t, DonationPattern)
  BY MatchesLengths DEF TransferTree, DonationPattern
<1> QED  BY <1>1, <1>2, <1>3

LEMMA PoolClaimed ==
  ASSUME NEW v, NEW w, NEW n
  PROVE  LET t == PoolTree(v, w, n)
         IN ~Matches(t, ProjectPattern) /\ Matches(t, PoolPattern) /\ ~Matches(t, DonationPattern)
<1> DEFINE t == PoolTree(v, w, n)
<1>1. ~Matches(t, ProjectPattern)
  BY MatchesTwo, PredicateDiffers, IdParts DEF PoolTree, ProjectPattern
<1>2. \A name, a : /\ Inline(a).kind = "Inline" /\ Capture("Inline", name).kind = "Inline"
                   /\ AccountRef(a).kind = "AccountRef" /\ Capture("AccountRef", name).kind = "AccountRef"
                   /\ ProposalRef(a).kind = "ProposalRef" /\ Capture("ProposalRef", name).kind = "ProposalRef"
                   /\ {"Inline", "AccountRef", "ProposalRef"} \subseteq Kinds
  BY DEF Inline, AccountRef, ProposalRef, Capture, Kinds
<1>3. Matches(t, PoolPattern)
  BY <1>2, MatchesTwo, PredicateMatchesThree, IdParts DEF PoolTree, PoolPattern
<1>4. ~Matches(t, DonationPattern)
  BY MatchesLengths DEF PoolTree, DonationPattern
<1> QED  BY <1>1, <1>3, <1>4

LEMMA DonationClaimed ==
  ASSUME NEW v, NEW w, NEW n
  PROVE  LET t == DonationTree(w, n, v)
         IN ~Matches(t, ProjectPattern) /\ ~Matches(t, PoolPattern) /\ Matches(t, DonationPattern)
<1> DEFINE t == DonationTree(w, n, v)
<1>1. ~Matches(t, ProjectPattern) /\ ~Matches(t, PoolPattern)
  BY MatchesLengths DEF DonationTree, ProjectPattern, PoolPattern
<1>2. \A name, a : /\ Inline(a).kind = "Inline" /\ Capture("Inline", name).kind = "Inline"
                   /\ AccountRef(a).kind = "AccountRef" /\ Capture("AccountRef", name).kind = "AccountRef"
                   /\ ProposalRef(a).kind = "ProposalRef" /\ Capture("ProposalRef", name).kind = "ProposalRef"
                   /\ {"Inline", "AccountRef", "ProposalRef"} \subseteq Kinds
  BY DEF Inline, AccountRef, ProposalRef, Capture, Kinds
<1>3. Matches(t, DonationPattern)
  BY <1>2, MatchesThree, PredicateMatchesThree, PredicateMatchesTwo, IdParts DEF DonationTree, DonationPattern
<1> QED  BY <1>1, <1>3

\* The places of the captures of two and of three predicates that have only captures.
LEMMA PlacesOfTwo ==
  ASSUME NEW p, NEW q, p.op = "id", q.op = "id",
         OnlyCaptures(p.params), OnlyCaptures(q.params),
         Len(p.params) = 3, Len(q.params) = 3, DOMAIN p.params = 1..3, DOMAIN q.params = 1..3
  PROVE  CapturedAt(And2(p, q)) = {<<1, 1>>, <<1, 2>>, <<1, 3>>, <<2, 1>>, <<2, 2>>, <<2, 3>>}
<1> DEFINE t == And2(p, q)
<1>1. /\ DOMAIN t = 1..3 /\ t[1] = p /\ t[2] = q /\ t[3].op # "id"
  BY TreeParts
<1> HIDE DEF t
<1>2. LeavesOf(t) = {1, 2}
  BY <1>1 DEF LeavesOf
<1>3. ASSUME NEW n \in {1, 2}
      PROVE  {l \in 1..LookedAt(t[n].params) : t[n].params[l].kind \notin {"Any", "Exact"}} = {1, 2, 3}
  <2>1. LookedAt(t[n].params) = 3 /\ OnlyCaptures(t[n].params) /\ DOMAIN t[n].params = 1..3
    BY <1>1, CapturesLookedAt
  <2> QED  BY <2>1 DEF OnlyCaptures, Kinds
<1>4. CapturedAt(t) = UNION {{<<n, k>> : k \in {1, 2, 3}} : n \in {1, 2}}
  BY <1>2, <1>3 DEF CapturedAt
<1> QED  BY <1>4 DEF t

LEMMA PlacesOfThree ==
  ASSUME NEW p, NEW q, NEW r, p.op = "id", q.op = "id", r.op = "id",
         OnlyCaptures(p.params), OnlyCaptures(q.params), OnlyCaptures(r.params),
         Len(p.params) = 3, Len(q.params) = 3, DOMAIN p.params = 1..3, DOMAIN q.params = 1..3,
         Len(r.params) = 2, DOMAIN r.params = 1..2
  PROVE  CapturedAt(And3(p, q, r)) = {<<1, 1>>, <<1, 2>>, <<1, 3>>, <<2, 1>>, <<2, 2>>, <<2, 3>>,
                                      <<4, 1>>, <<4, 2>>}
<1> DEFINE t == And3(p, q, r)
<1>1. /\ DOMAIN t = 1..5 /\ t[1] = p /\ t[2] = q /\ t[3].op # "id" /\ t[4] = r /\ t[5].op # "id"
  BY TreeParts
<1> HIDE DEF t
<1>2. LeavesOf(t) = {1, 2, 4}
  BY <1>1 DEF LeavesOf
<1>3. ASSUME NEW n \in {1, 2}
      PROVE  {l \in 1..LookedAt(t[n].params) : t[n].params[l].kind \notin {"Any", "Exact"}} = {1, 2, 3}
  <2>1. LookedAt(t[n].params) = 3 /\ OnlyCaptures(t[n].params) /\ DOMAIN t[n].params = 1..3
    BY <1>1, CapturesLookedAt
  <2> QED  BY <2>1 DEF OnlyCaptures, Kinds
<1>4. {l \in 1..LookedAt(t[4].params) : t[4].params[l].kind \notin {"Any", "Exact"}} = {1, 2}
  <2>1. LookedAt(t[4].params) = 2 /\ OnlyCaptures(t[4].params) /\ DOMAIN t[4].params = 1..2
    BY <1>1, CapturesLookedAt
  <2> QED  BY <2>1 DEF OnlyCaptures, Kinds
<1>5. CapturedAt(t) = (UNION {{<<n, k>> : k \in {1, 2, 3}} : n \in {1, 2}}) \cup {<<4, k>> : k \in {1, 2}}
  BY <1>2, <1>3, <1>4 DEF CapturedAt
<1> QED  BY <1>5 DEF t

\* The last capture of a name, if no later place has it.
LEMMA LastCaptureIs ==
  ASSUME NEW t, NEW p \in CapturedAt(t),
         \A q \in CapturedAt(t) : q \in Nat \X Nat,
         \A q \in CapturedAt(t) : NameAt(t, q) = NameAt(t, p)
                                    => q[1] < p[1] \/ (q[1] = p[1] /\ q[2] <= p[2])
  PROVE  LastCapture(t, NameAt(t, p)) = p
<1> DEFINE last(r) == /\ NameAt(t, r) = NameAt(t, p)
                      /\ \A q \in CapturedAt(t) :
                           NameAt(t, q) = NameAt(t, p) => q[1] < r[1] \/ (q[1] = r[1] /\ q[2] <= r[2])
           z == CHOOSE r \in CapturedAt(t) : last(r)
<1>1. last(p)
  OBVIOUS
<1>2. z \in CapturedAt(t) /\ last(z)
  <2> HIDE DEF last
  <2> QED  BY <1>1
<1>3. LastCapture(t, NameAt(t, p)) = z
  BY DEF LastCapture
<1> HIDE DEF z
<1>4. z \in Nat \X Nat /\ p \in Nat \X Nat
  BY <1>2
<1>5. z[1] \in Nat /\ z[2] \in Nat /\ p[1] \in Nat /\ p[2] \in Nat
      /\ z = <<z[1], z[2]>> /\ p = <<p[1], p[2]>>
  BY <1>4
<1>6. z[1] < p[1] \/ (z[1] = p[1] /\ z[2] <= p[2])
  BY <1>1, <1>2
<1>7. p[1] < z[1] \/ (p[1] = z[1] /\ p[2] <= z[2])
  BY <1>1, <1>2
<1>8. z[1] = p[1] /\ z[2] = p[2]
  BY <1>5, <1>6, <1>7
<1> QED  BY <1>3, <1>5, <1>8

\* The names that the pattern for the pool captures, and what it finds under them.
LEMMA PoolCaptures ==
  ASSUME NEW v, NEW w, NEW n
  PROVE  Captured(PoolTree(v, w, n), PoolPattern) =
           [donor_balance_before |-> v, donor_balance_after |-> v,
            donor_amount |-> n, treasury_balance_before |-> w,
            treasury_balance_after |-> w, treasury_amount |-> n]
<1> DEFINE p == Id("uint_less_than_by",
                   <<Capture("AccountRef", "donor_balance_before"),
                     Capture("ProposalRef", "donor_balance_after"),
                     Capture("Inline", "donor_amount")>>)
           q == Id("uint_greater_than_by",
                   <<Capture("AccountRef", "treasury_balance_before"),
                     Capture("ProposalRef", "treasury_balance_after"),
                     Capture("Inline", "treasury_amount")>>)
           t == PoolPattern
           u == PoolTree(v, w, n)
           At == {<<1, 1>>, <<1, 2>>, <<1, 3>>, <<2, 1>>, <<2, 2>>, <<2, 3>>}
<1>1. t = And2(p, q)
  BY DEF PoolPattern
<1>2. /\ p.op = "id" /\ p.params[1].name = "donor_balance_before" /\ p.params[1].kind = "AccountRef"
      /\ p.params[2].name = "donor_balance_after" /\ p.params[2].kind = "ProposalRef"
      /\ p.params[3].name = "donor_amount" /\ p.params[3].kind = "Inline"
      /\ Len(p.params) = 3 /\ DOMAIN p.params = 1..3
  BY IdParts DEF Capture
<1>3. /\ q.op = "id" /\ q.params[1].name = "treasury_balance_before" /\ q.params[1].kind = "AccountRef"
      /\ q.params[2].name = "treasury_balance_after" /\ q.params[2].kind = "ProposalRef"
      /\ q.params[3].name = "treasury_amount" /\ q.params[3].kind = "Inline"
      /\ Len(q.params) = 3 /\ DOMAIN q.params = 1..3
  BY IdParts DEF Capture
<1>4. /\ u[1].params[1].of = v /\ u[1].params[2].of = v /\ u[1].params[3].of = n
      /\ u[2].params[1].of = w /\ u[2].params[2].of = w /\ u[2].params[3].of = n
  BY TreeParts, IdParts DEF PoolTree, Inline, AccountRef, ProposalRef
<1> HIDE DEF p, q, t, u
<1>5. CapturedAt(t) = At
  <2>1. OnlyCaptures(p.params) /\ OnlyCaptures(q.params)
    BY <1>2, <1>3 DEF OnlyCaptures, Kinds
  <2> QED  BY <1>1, <1>2, <1>3, <2>1, PlacesOfTwo
<1>6. /\ NameAt(t, <<1, 1>>) = "donor_balance_before" /\ NameAt(t, <<1, 2>>) = "donor_balance_after"
      /\ NameAt(t, <<1, 3>>) = "donor_amount" /\ NameAt(t, <<2, 1>>) = "treasury_balance_before"
      /\ NameAt(t, <<2, 2>>) = "treasury_balance_after" /\ NameAt(t, <<2, 3>>) = "treasury_amount"
  BY <1>1, <1>2, <1>3, TreeParts DEF NameAt
<1>7. \A x \in CapturedAt(t) : x \in Nat \X Nat
  BY <1>5
<1>8. \A x \in CapturedAt(t) : LastCapture(t, NameAt(t, x)) = x
  <2> SUFFICES ASSUME NEW x \in CapturedAt(t) PROVE LastCapture(t, NameAt(t, x)) = x
    OBVIOUS
  <2>1. \A y \in CapturedAt(t) : NameAt(t, y) = NameAt(t, x) => y = x
    BY <1>5, <1>6
  <2>2. x[1] \in Nat /\ x[2] \in Nat
    BY <1>7
  <2> QED  BY <1>7, <2>1, <2>2, LastCaptureIs
<1> DEFINE names == {"donor_balance_before", "donor_balance_after", "donor_amount",
                     "treasury_balance_before", "treasury_balance_after", "treasury_amount"}
           value(name) == LET x == LastCapture(t, name) IN u[x[1]].params[x[2]].of
<1>9. {NameAt(t, x) : x \in CapturedAt(t)} = names
  BY <1>5, <1>6
<1>10. /\ value("donor_balance_before") = v /\ value("donor_balance_after") = v /\ value("donor_amount") = n
       /\ value("treasury_balance_before") = w /\ value("treasury_balance_after") = w
       /\ value("treasury_amount") = n
  <2>1. /\ LastCapture(t, "donor_balance_before") = <<1, 1>>
        /\ LastCapture(t, "donor_balance_after") = <<1, 2>>
        /\ LastCapture(t, "donor_amount") = <<1, 3>>
        /\ LastCapture(t, "treasury_balance_before") = <<2, 1>>
        /\ LastCapture(t, "treasury_balance_after") = <<2, 2>>
        /\ LastCapture(t, "treasury_amount") = <<2, 3>>
    BY <1>5, <1>6, <1>8
  <2> QED  BY <1>4, <2>1
<1>11. Captured(u, t) = [name \in names |-> value(name)]
  BY <1>9 DEF Captured
<1> HIDE DEF value
<1>12. [name \in names |-> value(name)] =
           [donor_balance_before |-> v, donor_balance_after |-> v,
            donor_amount |-> n, treasury_balance_before |-> w,
            treasury_balance_after |-> w, treasury_amount |-> n]
  BY <1>10
<1> QED  BY <1>11, <1>12 DEF t, u

\* The pattern for donations captures the amount twice; the second stays.
LEMMA DonationCaptures ==
  ASSUME NEW v, NEW w, NEW n
  PROVE  Captured(DonationTree(w, n, v), DonationPattern) =
           [project_wallet_after |-> w, project_wallet_before |-> w,
            donor_wallet_after |-> v, donor_wallet_before |-> v,
            donor_amount |-> n, donation_address |-> <<"donation", v>>,
            donation_state |-> "default"]
<1> DEFINE p == Id("uint_greater_than_by",
                   <<Capture("ProposalRef", "project_wallet_after"),
                     Capture("AccountRef", "project_wallet_before"),
                     Capture("Inline", "donor_amount")>>)
           q == Id("uint_less_than_by",
                   <<Capture("ProposalRef", "donor_wallet_after"),
                     Capture("AccountRef", "donor_wallet_before"),
                     Capture("Inline", "donor_amount")>>)
           r == Id("bytes_equal",
                   <<Capture("ProposalRef", "donation_address"),
                     Capture("Inline", "donation_state")>>)
           t == DonationPattern
           u == DonationTree(w, n, v)
           At == {<<1, 1>>, <<1, 2>>, <<1, 3>>, <<2, 1>>, <<2, 2>>, <<2, 3>>, <<4, 1>>, <<4, 2>>}
<1>1. t = And3(p, q, r)
  BY DEF DonationPattern
<1>2. /\ p.op = "id" /\ p.params[1].name = "project_wallet_after" /\ p.params[1].kind = "ProposalRef"
      /\ p.params[2].name = "project_wallet_before" /\ p.params[2].kind = "AccountRef"
      /\ p.params[3].name = "donor_amount" /\ p.params[3].kind = "Inline"
      /\ Len(p.params) = 3 /\ DOMAIN p.params = 1..3
  BY IdParts DEF Capture
<1>3. /\ q.op = "id" /\ q.params[1].name = "donor_wallet_after" /\ q.params[1].kind = "ProposalRef"
      /\ q.params[2].name = "donor_wallet_before" /\ q.params[2].kind = "AccountRef"
      /\ q.params[3].name = "donor_amount" /\ q.params[3].kind = "Inline"
      /\ Len(q.params) = 3 /\ DOMAIN q.params = 1..3
  BY IdParts DEF Capture
<1>4. /\ r.op = "id" /\ r.params[1].name = "donation_address" /\ r.params[1].kind = "ProposalRef"
      /\ r.params[2].name = "donation_state" /\ r.params[2].kind = "Inline"
      /\ Len(r.params) = 2 /\ DOMAIN r.params = 1..2
  BY IdParts DEF Capture
<1>5. /\ u[1].params[1].of = w /\ u[1].params[2].of = w
      /\ u[2].params[1].of = v /\ u[2].params[2].of = v /\ u[2].params[3].of = n
      /\ u[4].params[1].of = <<"donation", v>> /\ u[4].params[2].of = "default"
  BY TreeParts, IdParts DEF DonationTree, Inline, AccountRef, ProposalRef
<1> HIDE DEF p, q, r, t, u
<1>6. CapturedAt(t) = At
  <2>1. OnlyCaptures(p.params) /\ OnlyCaptures(q.params) /\ OnlyCaptures(r.params)
    BY <1>2, <1>3, <1>4 DEF OnlyCaptures, Kinds
  <2> QED  BY <1>1, <1>2, <1>3, <1>4, <2>1, PlacesOfThree
<1>7. /\ NameAt(t, <<1, 1>>) = "project_wallet_after" /\ NameAt(t, <<1, 2>>) = "project_wallet_before"
      /\ NameAt(t, <<1, 3>>) = "donor_amount" /\ NameAt(t, <<2, 1>>) = "donor_wallet_after"
      /\ NameAt(t, <<2, 2>>) = "donor_wallet_before" /\ NameAt(t, <<2, 3>>) = "donor_amount"
      /\ NameAt(t, <<4, 1>>) = "donation_address" /\ NameAt(t, <<4, 2>>) = "donation_state"
  BY <1>1, <1>2, <1>3, <1>4, TreeParts DEF NameAt
<1>8. \A x \in CapturedAt(t) : x \in Nat \X Nat
  BY <1>6
<1>9. ASSUME NEW x \in CapturedAt(t), x # <<1, 3>> PROVE LastCapture(t, NameAt(t, x)) = x
  <2>1. \A y \in CapturedAt(t) : NameAt(t, y) = NameAt(t, x) => y = x \/ (y = <<1, 3>> /\ x = <<2, 3>>)
    BY <1>6, <1>7, <1>9
  <2>2. x[1] \in Nat /\ x[2] \in Nat
    BY <1>8
  <2> QED  BY <1>8, <2>1, <2>2, LastCaptureIs
<1> DEFINE names == {"project_wallet_after", "project_wallet_before", "donor_wallet_after",
                     "donor_wallet_before", "donor_amount", "donation_address", "donation_state"}
           value(name) == LET x == LastCapture(t, name) IN u[x[1]].params[x[2]].of
<1>10. {NameAt(t, x) : x \in CapturedAt(t)} = names
  BY <1>6, <1>7
<1>11. /\ LastCapture(t, "project_wallet_after") = <<1, 1>>
       /\ LastCapture(t, "project_wallet_before") = <<1, 2>>
       /\ LastCapture(t, "donor_wallet_after") = <<2, 1>>
       /\ LastCapture(t, "donor_wallet_before") = <<2, 2>>
       /\ LastCapture(t, "donor_amount") = <<2, 3>>
       /\ LastCapture(t, "donation_address") = <<4, 1>>
       /\ LastCapture(t, "donation_state") = <<4, 2>>
  BY <1>6, <1>7, <1>9
<1>12. /\ value("project_wallet_after") = w /\ value("project_wallet_before") = w
       /\ value("donor_wallet_after") = v /\ value("donor_wallet_before") = v
       /\ value("donor_amount") = n /\ value("donation_address") = <<"donation", v>>
       /\ value("donation_state") = "default"
  BY <1>5, <1>11
<1>13. Captured(u, t) = [name \in names |-> value(name)]
  BY <1>10 DEF Captured
<1> HIDE DEF value
<1>14. [name \in names |-> value(name)] =
           [project_wallet_after |-> w, project_wallet_before |-> w,
            donor_wallet_after |-> v, donor_wallet_before |-> v,
            donor_amount |-> n, donation_address |-> <<"donation", v>>,
            donation_state |-> "default"]
  BY <1>12
<1> QED  BY <1>13, <1>14 DEF t, u

\* What the solver makes of the intents that the builders made.
LEMMA FormsRecognised == IntentForms => SolverRecognises
<1> SUFFICES ASSUME IntentForms, NEW i \in intents
             PROVE  LET c == Claim(Gossiped(i))
                    IN \/ \E v, w \in Wallet : \E n \in Amount :
                            /\ i.tree = PoolTree(v, w, n)
                            /\ c = <<"pool", [donor_balance_before |-> v, donor_balance_after |-> v,
                                              donor_amount |-> n, treasury_balance_before |-> w,
                                              treasury_balance_after |-> w, treasury_amount |-> n]>>
                       \/ \E v, w \in Wallet : \E n \in Amount :
                            /\ i.tree = DonationTree(w, n, v)
                            /\ c = <<"donation",
                                     [project_wallet_after |-> w, project_wallet_before |-> w,
                                      donor_wallet_after |-> v, donor_wallet_before |-> v,
                                      donor_amount |-> n, donation_address |-> <<"donation", v>>,
                                      donation_state |-> "default"]>>
                       \/ c[1] = "none" /\ SignedBy({i}, Token)
                       \/ c[1] = "none" /\ \E v, w \in Wallet : \E n \in Amount :
                                             i = TransferIntent(v, w, n)
  BY DEF SolverRecognises
<1> DEFINE c == Claim(Gossiped(i))
           t == i.tree
<1>1. Gossiped(i).tree = t
  BY DEF Gossiped
<1>2. CASE \E m, n \in Number : \E w \in Wallet : i = MintIntent(Token, m, w, n)
  <2>1. PICK m \in Number, n \in Number, w \in Wallet : i = MintIntent(Token, m, w, n)
    BY <1>2
  <2>2. t = MintTree(Token, m, w, n)
    BY <2>1 DEF MintIntent, Sign, NewIntent
  <2>3. c[1] = "none"
    BY <1>1, <2>2, MintUnclaimed DEF Claim
  <2>4. SignedBy({i}, Token)
    BY <2>1 DEF SignedBy, MintIntent, Sign, NewIntent, Hash, SigningHash, ContentHash
  <2> QED  BY <2>3, <2>4
<1>3. ASSUME NEW v \in Wallet, NEW w \in Wallet, NEW n \in Amount, i = TransferIntent(v, w, n)
      PROVE  c[1] = "none"
  <2>1. t = TransferTree(v, w, n)
    BY <1>3 DEF TransferIntent, Sign, NewIntent
  <2> QED  BY <1>1, <2>1, TransferUnclaimed DEF Claim
<1>4. ASSUME NEW v \in Wallet, NEW w \in Wallet, NEW n \in Amount, i = PoolIntent(v, w, n)
      PROVE  /\ t = PoolTree(v, w, n)
             /\ c = <<"pool", [donor_balance_before |-> v, donor_balance_after |-> v,
                               donor_amount |-> n, treasury_balance_before |-> w,
                               treasury_balance_after |-> w, treasury_amount |-> n]>>
  <2>1. t = PoolTree(v, w, n)
    BY <1>4 DEF PoolIntent, Sign, NewIntent
  <2>2. c = <<"pool", Captured(t, PoolPattern)>>
    BY <1>1, <2>1, PoolClaimed DEF Claim
  <2> QED  BY <2>1, <2>2, PoolCaptures
<1>5. ASSUME NEW v \in Wallet, NEW w \in Wallet, NEW n \in Amount, i = DonationIntent(w, n, v)
      PROVE  /\ t = DonationTree(w, n, v)
             /\ c = <<"donation",
                      [project_wallet_after |-> w, project_wallet_before |-> w,
                       donor_wallet_after |-> v, donor_wallet_before |-> v,
                       donor_amount |-> n, donation_address |-> <<"donation", v>>,
                       donation_state |-> "default"]>>
  <2>1. t = DonationTree(w, n, v)
    BY <1>5 DEF DonationIntent, NewIntent
  <2>2. c = <<"donation", Captured(t, DonationPattern)>>
    BY <1>1, <2>1, DonationClaimed DEF Claim
  <2> QED  BY <2>1, <2>2, DonationCaptures
<1>6. CASE \E v, w \in Wallet : \E n \in Amount :
             i \in {TransferIntent(v, w, n), PoolIntent(v, w, n), DonationIntent(w, n, v)}
  <2>1. PICK v \in Wallet, w \in Wallet, n \in Amount :
          i \in {TransferIntent(v, w, n), PoolIntent(v, w, n), DonationIntent(w, n, v)}
    BY <1>6
  <2> HIDE DEF c
  <2>2. CASE i = TransferIntent(v, w, n)
    BY <1>3, <2>2 DEF c
  <2>3. CASE i = PoolIntent(v, w, n)
    BY <1>4, <2>3 DEF c
  <2>4. CASE i = DonationIntent(w, n, v)
    BY <1>5, <2>4 DEF c
  <2> QED  BY <2>1, <2>2, <2>3, <2>4
<1> QED  BY <1>2, <1>6 DEF IntentForms

\* The solver recognises the donations that clients make, and claims nothing else,
\* for any wallets and amounts.
THEOREM DonationsRecognised == Spec => []SolverRecognises
  BY Inductive, FormsRecognised, PTL DEF IInv

================================================================================
