------------------------------ MODULE MCTopic ------------------------------
(* Instances of Topic for TLC. *)
EXTENDS Topic, TLC

CONSTANTS a, b, self, h1

\* All behind one address; b may also be known by none.
OneHost == [p \in Node |-> IF p = b THEN {{}, {h1}} ELSE {{h1}}]
============================================================================
