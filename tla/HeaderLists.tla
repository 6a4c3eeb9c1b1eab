----------------------------- MODULE HeaderLists -----------------------------
(***************************************************************************)
(* What an HPACK session promises to the applications at its two ends: the *)
(* header lists given to the encoder come out of the decoder, field by     *)
(* field, complete, unchanged and in order.  Neither the tables nor their  *)
(* sizes appear here.                                                      *)
(***************************************************************************)
EXTENDS Sequences

CONSTANT Item       \* a field and whether it ends its header list

VARIABLES
    pending,        \* given to the encoder, not yet out of the decoder
    arrived         \* the last one out of the decoder

vars == <<pending, arrived>>

Init == pending = <<>> /\ arrived \notin Item

Send == \E item \in Item : pending' = Append(pending, item)
                           /\ UNCHANGED arrived

Arrive == /\ pending # <<>>
          /\ arrived' = Head(pending)
          /\ pending' = Tail(pending)

Next == Send \/ Arrive

Spec == Init /\ [][Next]_vars
=============================================================================
