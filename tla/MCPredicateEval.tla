--------------------------- MODULE MCPredicateEval -----------------------------
(* Instances of PredicateEval: forests of small trees. *)
EXTENDS PredicateEval

Id == [op |-> "id", l |-> 0, r |-> 0]
Node(op, l, r) == [op |-> op, l |-> l, r |-> r]

P        == <<Id>>
NotP     == <<Id, Node("not", 1, 0)>>
PandQ    == <<Id, Id, Node("and", 1, 2)>>
PorNotQ  == <<Id, Id, Node("not", 2, 0), Node("or", 1, 3)>>
PorQandR == <<Id, Id, Node("or", 1, 2), Id, Node("and", 3, 4)>>

\* Trees in which a crash cannot hide.
PlainTrees == {P, NotP, PandQ, PorNotQ, PorQandR}
PlainForests == UNION {[1..n -> PlainTrees] : n \in 0..2} \cup {<<P, PandQ, P>>}

ASSUME PlainAssumption ==
  \A f \in PlainForests : \A t \in DOMAIN f : Unmasked(f[t])
================================================================================
