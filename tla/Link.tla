-------------------------------- MODULE Link --------------------------------
(***************************************************************************)
(* What the broadcast processes of node/src/main.rs expect of a link: the  *)
(* messages that were sent arrive, all of them, once and in order, until   *)
(* the link breaks; then a beginning of what had been sent still arrives   *)
(* and nothing after it does.  Module Bracha is written on such links.     *)
(***************************************************************************)
EXTENDS Naturals, Sequences

CONSTANT Message

VARIABLES
  sent,       \* the messages sent before anything was lost
  received,   \* those the receiver has got out of its stream
  broken      \* part of a message was lost, or the sender is gone

vars == <<sent, received, broken>>

Init == sent = <<>> /\ received = <<>> /\ broken = FALSE

Send ==
  /\ ~broken
  /\ \E m \in Message : sent' = Append(sent, m)
  /\ UNCHANGED <<received, broken>>

(* What is lost is an end of what has not been received.                   *)
Break ==
  /\ broken' = TRUE
  /\ \E n \in Len(received) .. Len(sent) : sent' = SubSeq(sent, 1, n)
  /\ UNCHANGED received

(* One read can bring several messages.                                    *)
Receive ==
  /\ \E n \in Len(received) + 1 .. Len(sent) : received' = SubSeq(sent, 1, n)
  /\ UNCHANGED <<sent, broken>>

Next == Send \/ Break \/ Receive

Spec == Init /\ [][Next]_vars

(* Whatever is sent is received in the end.                                *)
Fairness == WF_vars(Receive)
=============================================================================
