-------------------------------- MODULE Intents --------------------------------
(***************************************************************************)
(* Intents: their predicate trees (primitives/src/predicate.rs), hashes    *)
(* and signatures (primitives/src/intent.rs), the arithmetic predicates    *)
(* they are made of (stdpred/src/arithmetic.rs), the patterns solvers      *)
(* match them with (sdk/offchain/src/query.rs, sdk/examples/pgqf/src/      *)
(* solver.rs), and the functions that build them (vm/tests/common/         *)
(* token_ops.rs, sdk/examples/pgqf/src/client.rs).                         *)
(*                                                                         *)
(* Abstractions.  A tree is its nodes in post-order, the root last; a      *)
(* predicate is named by its entry point.  A hash is the tuple of what was *)
(* hashed; a signature is its key and the hash it signs.  The key of the   *)
(* owner of a wallet, and of the mint authority of a token, is the address *)
(* of the wallet or the token.  recent_blockhash is left out: nothing      *)
(* reads it.                                                               *)
(***************************************************************************)
EXTENDS Naturals, Sequences

--------------------------------------------------------------------------------
(* Trees.                                                                   *)

Inline(v)      == [kind |-> "Inline", of |-> v]
AccountRef(a)  == [kind |-> "AccountRef", of |-> a]
ProposalRef(a) == [kind |-> "ProposalRef", of |-> a]

Id(pred, params) == [op |-> "id", pred |-> pred, params |-> params]

\* And(p, q) and And(And(p, q), r) of three predicates.
And2(p, q)    == <<p, q, [op |-> "and", l |-> 1, r |-> 2]>>
And3(p, q, r) == <<p, q, [op |-> "and", l |-> 1, r |-> 2],
                   r, [op |-> "and", l |-> 3, r |-> 4]>>

LeavesOf(tree) == {n \in DOMAIN tree : tree[n].op = "id"}

--------------------------------------------------------------------------------
(* Hashes and signatures.                                                   *)

\* Intent::new.  The cache holds at most one hash.
NewIntent(tree) == [tree |-> tree, calldata |-> {}, cache |-> <<>>]

FullHash(i)    == <<"intent", i.tree, i.calldata>>
ContentHash(i) == <<"content", i.tree>>

\* Intent::hash and Intent::signing_hash: the one cache serves both.
Hash(i)        == IF i.cache = <<>> THEN FullHash(i) ELSE i.cache[1]
SigningHash(i) == IF i.cache = <<>> THEN ContentHash(i) ELSE i.cache[1]

\* Mutant: hash() is signed
SignFullHash(i, key) ==
  [tree     |-> i.tree,
   calldata |-> i.calldata \cup {[key |-> key, msg |-> Hash(i)]},
   cache    |-> <<Hash(i)>>]

\* The key signs signing_hash, and the signature becomes calldata.
Sign(i, key) ==
  [tree     |-> i.tree,
   calldata |-> i.calldata \cup {[key |-> key, msg |-> SigningHash(i)]},
   cache    |-> <<SigningHash(i)>>]

\* Serialized and deserialized: the cache is skipped.
Gossiped(i) == [tree |-> i.tree, calldata |-> i.calldata, cache |-> <<>>]

\* require_ed25519_signature and is_signed_by_mint_auth: predicate_context hands
\* them the calldata of the intents by hash.  They differ on a signature that
\* does not verify, as none does after gossip: the second goes on to the next
\* intent (token.rs:298), the first returns false at once (signature.rs:21), even
\* if an intent further on, in the order of the hashes, has one that does.  Here
\* both go on, so a transaction the code accepts is accepted, and perhaps more.
SignedBy(intents, key) ==
  \E i \in intents : [key |-> key, msg |-> Hash(i)] \in i.calldata

--------------------------------------------------------------------------------
(* The arithmetic predicates.                                               *)

SaturatingSub(a, b) == IF a >= b THEN a - b ELSE 0

\* uint_less_than_by
LessThanBy(a, b, by) == SaturatingSub(b, a) = by

\* The predicate's answer on its parameters d.
Arithmetic(pred, d) ==
  CASE pred = "uint_equal"              -> d[1] = d[2]
    [] pred = "uint_greater_than"       -> d[1] > d[2]
    [] pred = "uint_greater_than_equal" -> d[1] >= d[2]
    [] pred = "uint_less_than"          -> d[1] < d[2]
    [] pred = "uint_less_than_equal"    -> d[1] <= d[2]
    [] pred = "uint_greater_than_by"    -> SaturatingSub(d[1], d[2]) = d[3]
    [] pred = "uint_less_than_by"       -> LessThanBy(d[1], d[2], d[3])

--------------------------------------------------------------------------------
(* Queries: a template is a tree whose parameters are patterns.             *)

\* A pattern that captures a parameter of a kind, or Exact.
Capture(kind, name) == [kind |-> kind, name |-> name]
Exact(param)        == [kind |-> "Exact", param |-> param]

ParamMatches(param, pattern) ==
  CASE pattern.kind = "Any"   -> TRUE
    [] pattern.kind = "Exact" -> param = pattern.param
    [] OTHER                  -> param.kind = pattern.kind

\* Mutant: it returns at the first parameter, whatever the pattern
LookedAtFirst(patterns) == IF patterns = <<>> THEN 0 ELSE 1

\* How many parameters find_matches looks at: it returns at an Exact one.
LookedAt(patterns) ==
  LET exact == {k \in DOMAIN patterns : patterns[k].kind = "Exact"}
  IN IF exact = {} THEN Len(patterns) ELSE CHOOSE k \in exact : \A l \in exact : k <= l

PredicateMatches(p, q) ==
  /\ p.pred = q.pred /\ Len(p.params) = Len(q.params)
  /\ \A k \in 1..LookedAt(q.params) : ParamMatches(p.params[k], q.params[k])

\* ExpressionPattern::matches: the shapes agree and so does every predicate.
Matches(tree, template) ==
  /\ Len(tree) = Len(template)
  /\ \A n \in DOMAIN tree :
       IF tree[n].op = "id" /\ template[n].op = "id"
       THEN PredicateMatches(tree[n], template[n])
       ELSE tree[n] = template[n]

\* The parameters that are captured, as places: predicate and parameter.
CapturedAt(template) ==
  UNION {{<<n, k>> : k \in {l \in 1..LookedAt(template[n].params) :
                              template[n].params[l].kind \notin {"Any", "Exact"}}} :
           n \in LeavesOf(template)}

NameAt(template, p) == template[p[1]].params[p[2]].name

\* Of the captures with one name the last one stays in the map.
LastCapture(template, name) ==
  CHOOSE p \in CapturedAt(template) :
    /\ NameAt(template, p) = name
    /\ \A q \in CapturedAt(template) :
         NameAt(template, q) = name => q[1] < p[1] \/ (q[1] = p[1] /\ q[2] <= p[2])

Captured(tree, template) ==
  [name \in {NameAt(template, p) : p \in CapturedAt(template)} |->
     LET p == LastCapture(template, name) IN tree[p[1]].params[p[2]].of]

\* create_project_intent_pattern
ProjectPattern ==
  And2(Id("bytes_equal", <<Capture("ProposalRef", "project_name"),
                           Capture("Inline", "project_state")>>),
       Id("uint_equal",  <<Capture("ProposalRef", "wallet_address"),
                           Exact(Inline(0))>>))

\* create_matching_pool_donation_intents_pattern
PoolPattern ==
  And2(Id("uint_less_than_by",
          <<Capture("AccountRef", "donor_balance_before"),
            Capture("ProposalRef", "donor_balance_after"),
            Capture("Inline", "donor_amount")>>),
       Id("uint_greater_than_by",
          <<Capture("AccountRef", "treasury_balance_before"),
            Capture("ProposalRef", "treasury_balance_after"),
            Capture("Inline", "treasury_amount")>>))

\* create_project_donation_intent_pattern
DonationPattern ==
  And3(Id("uint_greater_than_by",
          <<Capture("ProposalRef", "project_wallet_after"),
            Capture("AccountRef", "project_wallet_before"),
            Capture("Inline", "donor_amount")>>),
       Id("uint_less_than_by",
          <<Capture("ProposalRef", "donor_wallet_after"),
            Capture("AccountRef", "donor_wallet_before"),
            Capture("Inline", "donor_amount")>>),
       Id("bytes_equal",
          <<Capture("ProposalRef", "donation_address"),
            Capture("Inline", "donation_state")>>))

\* try_match_and_fill_intent: which pattern claims the intent, and with what.
Claim(i) ==
  LET by(p) == Captured(i.tree, p)
  IN CASE Matches(i.tree, ProjectPattern)  -> <<"project", by(ProjectPattern)>>
       [] Matches(i.tree, PoolPattern)     -> <<"pool", by(PoolPattern)>>
       [] Matches(i.tree, DonationPattern) -> <<"donation", by(DonationPattern)>>
       [] OTHER                            -> <<"none", <<>>>>

--------------------------------------------------------------------------------
(* The intents clients build.                                               *)

\* token_ops::mint
MintTree(token, supply, wallet, balance) ==
  And2(Id("uint_equal", <<ProposalRef(token), Inline(supply)>>),
       Id("uint_equal", <<ProposalRef(wallet), Inline(balance)>>))

MintIntent(token, supply, wallet, balance) ==
  Sign(NewIntent(MintTree(token, supply, wallet, balance)), token)

\* token_ops::transfer
TransferTree(from, to, amount) ==
  And2(Id("uint_less_than_by",
          <<ProposalRef(from), AccountRef(from), Inline(amount)>>),
       Id("uint_greater_than_equal", <<ProposalRef(to), Inline(amount)>>))

TransferIntent(from, to, amount) ==
  Sign(NewIntent(TransferTree(from, to, amount)), from)

\* client::create_donation_to_matching_pool_intents
PoolTree(from, treasury, amount) ==
  And2(Id("uint_less_than_by",
          <<AccountRef(from), ProposalRef(from), Inline(amount)>>),
       Id("uint_greater_than_by",
          <<AccountRef(treasury), ProposalRef(treasury), Inline(amount)>>))

PoolIntent(from, treasury, amount) ==
  Sign(NewIntent(PoolTree(from, treasury, amount)), from)

\* client::create_project_donation_intent: not signed.  The donation account is
\* named after the donor.
DonationTree(project, amount, from) ==
  And3(Id("uint_greater_than_by",
          <<ProposalRef(project), AccountRef(project), Inline(amount)>>),
       Id("uint_less_than_by",
          <<ProposalRef(from), AccountRef(from), Inline(amount)>>),
       Id("bytes_equal",
          <<ProposalRef(<<"donation", from>>), Inline("default")>>))

DonationIntent(project, amount, from) == NewIntent(DonationTree(project, amount, from))
================================================================================
