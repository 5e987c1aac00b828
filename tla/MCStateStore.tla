----------------------------- MODULE MCStateStore ------------------------------
(* StateStore on two addresses and two account contents. *)
EXTENDS StateStore
================================================================================
