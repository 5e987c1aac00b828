----------------------------- MODULE MCConnection ------------------------------
(* Instance of Connection: the dialer sends three messages, of which the first
   is too large; the listener only receives. *)
EXTENDS Connection

MCMaxSend == [s \in Side |-> IF s = "dialer" THEN 3 ELSE 0]
MCOversized == [s \in Side |-> IF s = "dialer" THEN {1} ELSE {}]
================================================================================
