--------------------------------- MODULE Pipe ----------------------------------
(***************************************************************************)
(* What a connection promises each direction of its traffic: messages come *)
(* out once, in the order they went in, until the connection ends, and     *)
(* none after that.  A connection that ends loses a suffix, never a        *)
(* message between two others.                                             *)
(***************************************************************************)
EXTENDS Naturals, Sequences

VARIABLES put,    \* the messages that went in
          got,    \* the messages that came out
          ended   \* the receiver was told that the connection is closed

Init == put = <<>> /\ got = <<>> /\ ended = FALSE

Put ==
  /\ Len(put') = Len(put) + 1
  /\ SubSeq(put', 1, Len(put)) = put
  /\ UNCHANGED <<got, ended>>

Get ==
  /\ ~ended /\ Len(got) < Len(put)
  /\ got' = Append(got, put[Len(got) + 1])
  /\ UNCHANGED <<put, ended>>

End == ~ended /\ ended' = TRUE /\ UNCHANGED <<put, got>>

Spec == Init /\ [][Put \/ Get \/ End]_<<put, got, ended>>
================================================================================
