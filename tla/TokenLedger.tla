------------------------------ MODULE TokenLedger ------------------------------
(***************************************************************************)
(* A token and its wallets (sdk/predicates/examples/token.rs), governed by *)
(* their predicates: clients sign intents, which reach solvers by gossip,  *)
(* and the machine executes (vm/src/collect.rs, vm/src/execution.rs) what  *)
(* transactions are made of them.                                          *)
(*                                                                         *)
(* Abstractions.  The state of an account is its number.  Accounts are     *)
(* created with the predicates the builders give them: for a wallet,       *)
(* Or(uint_greater_than_equal, require_ed25519_signature); for the token,  *)
(* And(token predicate, immutable_predicates) as its description, and the  *)
(* test of minting, have it, or And(token predicate, constant(false)) as   *)
(* the functions that create it do (Frozen): then nothing changes while    *)
(* the token exists.  No transaction can replace these predicates, as all  *)
(* of them refuse that.                                                    *)
(* The wasm of the libraries is installed, and /token itself accepts       *)
(* changes of its descendants.  Numbers have Modulus values for 2^64; in a *)
(* release build their sums wrap.  A transaction is any changes to the     *)
(* accounts with any intents that clients made: nobody is bound to propose *)
(* what a client had in mind, nor to use an intent once.                   *)
(***************************************************************************)
EXTENDS Intents, FiniteSetsExt, Functions

CONSTANTS Token, Wallet,  \* addresses
          Modulus,
          Frozen,         \* whether the token is created with constant(false)
          Amount,         \* the amounts clients choose from, never 0
          MaxIntents,     \* bound on the number of intents made
          None            \* no account, no proposed state

ASSUME LedgerAssumption ==
  /\ IsFiniteSet(Wallet) /\ Token \notin Wallet /\ Frozen \in BOOLEAN
  /\ Modulus \in Nat \ {0} /\ Amount \subseteq 1..(Modulus - 1) /\ MaxIntents \in Nat
  /\ None \notin Nat

Addr   == Wallet \cup {Token}
Number == 0..(Modulus - 1)

VARIABLES balance,   \* of a wallet, or the total supply of the token; or None
          intents    \* as their clients hold them

vars == <<balance, intents>>

Exists(a) == balance[a] # None

\* The token and its first wallets, each with the same balance, or none.
Init ==
  /\ \E ws \in SUBSET Wallet : \E n \in Number :
       /\ Cardinality(ws) * n \in Number
       /\ balance = [a \in Addr |-> IF a = Token THEN Cardinality(ws) * n
                                    ELSE IF a \in ws THEN n ELSE None]
  /\ intents = {}

--------------------------------------------------------------------------------
(* Clients make intents; mint and transfer read the state first.            *)

Made(i) ==
  /\ Cardinality(intents) < MaxIntents
  /\ intents' = intents \cup {i}
  /\ UNCHANGED balance

Plus(a, amount) == (IF Exists(a) THEN balance[a] ELSE 0) + amount

\* A sum that overflows panics, in mint because the tests are debug builds.
Mint(w, amount) ==
  /\ Plus(Token, amount) \in Number /\ Plus(w, amount) \in Number
  /\ Made(MintIntent(Token, Plus(Token, amount), w, Plus(w, amount)))

Transfer(from, to, amount) ==
  /\ from # to /\ Exists(from)
  /\ balance[from] >= amount /\ Plus(to, amount) \in Number
  /\ Made(TransferIntent(from, to, amount))

DonateToPool(from, treasury, amount) ==
  /\ from # treasury
  /\ Made(PoolIntent(from, treasury, amount))

DonateToProject(from, project, amount) ==
  /\ from # project
  /\ Made(DonationIntent(project, amount, from))

--------------------------------------------------------------------------------
(* Executing a transaction: intents is and proposed changes ch, a function  *)
(* on the addresses proposed.                                               *)

Create(n)   == [op |-> "CreateAccount", to |-> n]
Replace(n)  == [op |-> "ReplaceState", to |-> n]
Repredicate == [op |-> "ReplacePredicates", to |-> None]
Delete      == [op |-> "DeleteAccount", to |-> None]

\* The changes collect::outputs accepts for an account.
Changes(a) ==
  IF Exists(a) THEN {Replace(n) : n \in Number} \cup {Repredicate, Delete}
  ELSE {Create(n) : n \in Number}

\* collect::outputs
Outputs(ch) ==
  [a \in Addr |->
     IF a \notin DOMAIN ch \/ (a \in DOMAIN ch /\ ch[a] = Repredicate)
     THEN balance[a] ELSE ch[a].to]

\* collect::expand_predicate_tree: the data a parameter is bound to.  A change
\* that proposes no state has none, and the predicate crashes.
Data(p, ch) ==
  CASE p.kind = "Inline"      -> p.of
    [] p.kind = "AccountRef"  -> IF p.of \in Addr THEN balance[p.of] ELSE None
    [] p.kind = "ProposalRef" -> IF p.of \in DOMAIN ch THEN ch[p.of].to ELSE None

\* A predicate of an intent accepts: its parameters are there, and numbers.
\* (bytes_equal is about accounts outside this ledger, for which there is no
\* proposal.)
PredicateAccepts(p, ch) ==
  /\ \A k \in DOMAIN p.params : Data(p.params[k], ch) \in Number
  /\ Arithmetic(p.pred, [k \in DOMAIN p.params |-> Data(p.params[k], ch)])

\* The trees of intents have no connective but And.
IntentAccepts(i, ch) ==
  \A n \in LeavesOf(i.tree) : PredicateAccepts(i.tree[n], ch)

\* Mutant: a signature is needed when the balance grows
WalletAcceptsReversed(w, is, ch) ==
  /\ ch[w].to \in Number
  /\ ch[w].to <= balance[w] \/ SignedBy(is, w)

\* Or(uint_greater_than_equal, require_ed25519_signature): both are run, and if
\* the first crashes so does the tree.
WalletAccepts(w, is, ch) ==
  /\ ch[w].to \in Number
  /\ ch[w].to >= balance[w] \/ SignedBy(is, w)

\* sum_balances: of the wallets that are proposed, before and after.
SumBefore(ch) ==
  SumFunction([w \in DOMAIN ch \cap Wallet |->
    IF ch[w].op \in {"ReplaceState", "DeleteAccount"} THEN balance[w] ELSE 0]) % Modulus

SumAfter(ch) ==
  SumFunction([w \in DOMAIN ch \cap Wallet |->
    IF ch[w].op \in {"CreateAccount", "ReplaceState"} THEN ch[w].to ELSE 0]) % Modulus

\* Mutant: the new supply is not compared with the old one
SupplyAcceptsAny(ch) == Token \in DOMAIN ch /\ ch[Token].op = "ReplaceState"

\* The proposal for the token reflects the difference of the sums.
SupplyAccepts(ch) ==
  LET expected == (balance[Token] + SumAfter(ch) + Modulus - SumBefore(ch)) % Modulus
  IN /\ Token \in DOMAIN ch
     /\ \/ ch[Token].op = "ReplaceState" /\ ch[Token].to = expected
        \/ ch[Token].op = "CreateAccount" /\ SumBefore(ch) < SumAfter(ch)
             /\ ch[Token].to = expected
        \/ ch[Token].op = "DeleteAccount" /\ SumBefore(ch) > SumAfter(ch)
             /\ expected = 0

\* And(token predicate, immutable_predicates), or And(.., constant(false))
TokenAccepts(is, ch) ==
  /\ \/ SumBefore(ch) = SumAfter(ch)
     \/ SignedBy(is, Token) /\ SupplyAccepts(ch)
  /\ ~Frozen /\ (Token \in DOMAIN ch => ch[Token].op # "ReplacePredicates")

\* The predicates of the accounts that exist and are proposed, of the token if
\* one of its wallets is, and of the intents.
Accepted(is, ch) ==
  /\ \A w \in DOMAIN ch \cap Wallet : Exists(w) => WalletAccepts(w, is, ch)
  /\ DOMAIN ch # {} /\ Exists(Token) => TokenAccepts(is, ch)
  /\ \A i \in is : IntentAccepts(i, ch)

\* A transaction that is executed in the process that made it keeps the cached
\* hashes of its intents (as in vm/tests); one that was gossiped does not.
Execute(is, ch) ==
  /\ Accepted(is, ch) \/ Accepted({Gossiped(i) : i \in is}, ch)
  /\ balance' = Outputs(ch)
  /\ UNCHANGED intents

\* All proposals for some of the accounts.
Proposals ==
  LET any == [a \in Addr |-> Changes(a) \cup {None}]
      all == {f \in [Addr -> UNION {any[a] : a \in Addr}] : \A a \in Addr : f[a] \in any[a]}
  IN {[a \in {b \in Addr : f[b] # None} |-> f[a]] : f \in all}

--------------------------------------------------------------------------------
Next ==
  \/ \E w \in Wallet : \E n \in Amount : Mint(w, n)
  \/ \E v, w \in Wallet : \E n \in Amount : Transfer(v, w, n)
  \/ \E v, w \in Wallet : \E n \in Amount : DonateToPool(v, w, n)
  \/ \E v, w \in Wallet : \E n \in Amount : DonateToProject(v, w, n)
  \/ \E is \in SUBSET intents : \E ch \in Proposals : Execute(is, ch)

Spec == Init /\ [][Next]_vars

--------------------------------------------------------------------------------
(* Properties.                                                              *)

\* Type invariant.
TypeOK ==
  /\ balance \in [Addr -> Number \cup {None}]
  /\ \A i \in intents : i.cache \in {<<>>, <<ContentHash(i)>>}

\* Every intent was made by one of the builders.
IntentForms ==
  \A i \in intents :
    \/ \E m, n \in Number : \E w \in Wallet : i = MintIntent(Token, m, w, n)
    \/ \E v, w \in Wallet : \E n \in Amount :
         i \in {TransferIntent(v, w, n), PoolIntent(v, w, n), DonationIntent(w, n, v)}

Supply == SumFunction([w \in {v \in Wallet : Exists(v)} |-> balance[w]]) % Modulus

\* The owner of w asked for what a step did to it.
SpendingAsked(w) ==
  \E v \in Wallet : \E n \in Amount :
    /\ TransferIntent(w, v, n) \in intents
    /\ balance'[w] \in Number /\ balance'[v] \in Number
    /\ balance'[w] = balance[w] - n /\ balance'[v] >= n

SpendingStep ==
  \A w \in Wallet :
    Exists(w) /\ balance'[w] # balance[w]
      => \/ balance'[w] \in Number /\ balance'[w] > balance[w]
         \/ SpendingAsked(w)

(***************************************************************************)
(* A wallet loses tokens only to a transfer that its owner signed, of      *)
(* exactly that amount, and the recipient then has at least the amount:    *)
(* whoever proposes the transaction, whatever other intents it carries and *)
(* however old the state is that the client had read.                      *)
(***************************************************************************)
SpendingSigned == [][SpendingStep]_vars

MintingStep ==
  Exists(Token) /\ Supply' # Supply
    => /\ \E i \in intents : SignedBy({i}, Token)
       /\ Exists(Token)' => (balance'[Token] + Supply) % Modulus
                              = (balance[Token] + Supply') % Modulus

(***************************************************************************)
(* As long as there is a token account, tokens appear and disappear, up to *)
(* multiples of 2^64, only with an intent of the mint authority, and its   *)
(* total supply changes by as much, although the sums are taken over the   *)
(* proposed wallets only and wrap (token.rs:160, 254-284).                 *)
(***************************************************************************)
MintingSigned == [][MintingStep]_vars

(***************************************************************************)
(* The patterns of the solver recognise the donations that clients make,   *)
(* by the right pattern and with the right accounts and amounts, and claim *)
(* no other intent.                                                        *)
(***************************************************************************)
SolverRecognises ==
  \A i \in intents :
    LET c == Claim(Gossiped(i))
    IN \/ \E v, w \in Wallet : \E n \in Amount :
            /\ i.tree = PoolTree(v, w, n)
            /\ c = <<"pool", [donor_balance_before |-> v, donor_balance_after |-> v,
                              donor_amount |-> n, treasury_balance_before |-> w,
                              treasury_balance_after |-> w, treasury_amount |-> n]>>
       \/ \E v, w \in Wallet : \E n \in Amount :
            /\ i.tree = DonationTree(w, n, v)
            /\ c = <<"donation",
                     [project_wallet_after |-> w, project_wallet_before |-> w,
                      donor_wallet_after |-> v, donor_wallet_before |-> v,
                      donor_amount |-> n, donation_address |-> <<"donation", v>>,
                      donation_state |-> "default"]>>
       \/ c[1] = "none" /\ SignedBy({i}, Token)
       \/ c[1] = "none" /\ \E v, w \in Wallet : \E n \in Amount :
                             i = TransferIntent(v, w, n)

(***************************************************************************)
(* "This hash is used as the message when signatures need to be attached   *)
(* to intents" (intent.rs:83-84), and the predicates that ask for a        *)
(* signature verify it: a signature a client attached is one they accept.  *)
(***************************************************************************)
SignedIntentVerifies ==
  \A i \in intents : \A s \in i.calldata : SignedBy({Gossiped(i)}, s.key)
================================================================================
