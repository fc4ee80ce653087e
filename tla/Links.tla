-------------------------------- MODULE Links --------------------------------
(***************************************************************************)
(* The links of the broadcast: the processes get connected (Mesh) and one  *)
(* of their links carries messages (Framing).  A process writes from the   *)
(* moment it enters its loop; its peer may still be connecting, asleep or  *)
(* waiting to accept this very connection, and reads when it is in its own *)
(* loop.                                                                   *)
(***************************************************************************)
EXTENDS Mesh, Framing

VARIABLES src, dst     \* the two ends of the link that is looked at

vars == <<meshVars, framingVars, src, dst>>

Init ==
  /\ MeshInit
  /\ FramingInit
  /\ src \in Process /\ dst \in Process /\ src # dst

Connecting == MeshNext /\ UNCHANGED <<framingVars, src, dst>>

(* A sender that panics stays in its loop for the mesh: it has all its     *)
(* streams, so nobody connects to it any more.  A connection of its that   *)
(* still waits in a backlog can be accepted like any other, and has its    *)
(* address: nothing was ever written to it from the other end, so closing  *)
(* it does not reset it.                                                   *)
Sending == pc[src] = "loop" /\ (Write \/ WriteFails) /\ UNCHANGED <<meshVars, src, dst>>
Receiving == pc[dst] = "loop" /\ ReadStream /\ UNCHANGED <<meshVars, src, dst>>

(* Nothing is left to do: the processes wait in select() or accept().      *)
Quiet ==
  /\ \A p \in Process : pc[p] = "loop" \/ (pc[p] = "accept" /\ backlog[p] = {})
  /\ pc[src] = "loop" => written = Len(Size) \/ panicked
  /\ pc[dst] = "loop" => wire = <<>>
  /\ UNCHANGED vars

Next == Connecting \/ Sending \/ Receiving \/ Quiet

(* Processes and nodes keep running, and TCP delivers what it has taken.   *)
Fairness ==
  /\ WF_vars(ScriptStep /\ UNCHANGED <<framingVars, src, dst>>)
  /\ \A p \in Process : WF_vars(ProcessStep(p) /\ UNCHANGED <<framingVars, src, dst>>)
  /\ WF_vars(Sending) /\ WF_vars(Receiving)

Spec == Init /\ [][Next]_vars /\ Fairness

TypeOK == MeshTypeOK /\ FramingTypeOK /\ src \in Process /\ dst \in Process
=============================================================================
