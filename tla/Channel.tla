------------------------------ MODULE Channel ------------------------------
(***************************************************************************)
(* What one direction of a connection promises to the two programs that    *)
(* use it: the messages received are, at every moment, the first ones of   *)
(* those sent.                                                             *)
(***************************************************************************)
EXTENDS Naturals, Sequences

CONSTANT Msgs      \* what can be sent

VARIABLES sent, rcvd

Init == sent = <<>> /\ rcvd = <<>>

Send ==
    /\ \E m \in Msgs : sent' = Append(sent, m)
    /\ UNCHANGED rcvd

Receive ==
    /\ Len(rcvd) < Len(sent)
    /\ rcvd' = Append(rcvd, sent[Len(rcvd) + 1])
    /\ UNCHANGED sent

Next == Send \/ Receive

Spec == Init /\ [][Next]_<<sent, rcvd>>

============================================================================
