--------------------------- MODULE PredicateVerdict ----------------------------
(***************************************************************************)
(* What parallel_invoke_predicates promises its caller                     *)
(* (vm/src/execution.rs:128-132), whatever it does inside: one verdict,    *)
(* Ok exactly when every predicate tree ran to completion and is true.     *)
(***************************************************************************)
VARIABLES valid,    \* every tree ran to completion and is true
          verdict   \* "None" until the call returns, then "Ok" or "Err"

Init == valid \in BOOLEAN /\ verdict = "None"

Decide ==
  /\ verdict = "None"
  /\ verdict' = IF valid THEN "Ok" ELSE "Err"
  /\ UNCHANGED valid

Safety == Init /\ [][Decide]_<<valid, verdict>>

Spec == Safety /\ WF_<<valid, verdict>>(Decide)
================================================================================
