-------------------------------- MODULE MCChain --------------------------------
(* Instances of Chain: transactions t1 and t2; i1 is an intent of t1, and both
   transactions change account acc. *)
EXTENDS Chain

MCTx == {"t1", "t2"}
MCKey == {"t1", "t2", "i1", "acc"}
MCKeysOf == [t \in MCTx |-> IF t = "t1" THEN {"t1", "i1", "acc"} ELSE {"t2", "acc"}]

\* One follower; a call awaits the intent, another the account.
OneNode == {"f"}
TwoCalls == {"c1", "c2"}
TwoCallNode == [c \in TwoCalls |-> "f"]
TwoCallTx == [c \in TwoCalls |-> IF c = "c1" THEN "t1" ELSE "t2"]
TwoCallKey == [c \in TwoCalls |-> IF c = "c1" THEN "i1" ELSE "t2"]
\* Both calls await the account.
SameKey == [c \in TwoCalls |-> "acc"]

================================================================================
