------------------------- MODULE MCSubscriberKinds -------------------------
(***************************************************************************)
(* Three kinds of behaviours of Subscriber in one instance: many requests  *)
(* without data, fewer with datagrams, and the fewest with datagrams and a *)
(* stream under every policy.                                              *)
(***************************************************************************)
EXTENDS MCSubscriber

VARIABLE focus              \* the kind of behaviours explored, chosen at the start

Kinds == {"requests", "datagrams", "streams"}
LastRequestId == [requests |-> 6, datagrams |-> 4, streams |-> 2]

FocusedInit ==
  /\ Init
  /\ focus \in Kinds
  /\ focus # "streams" => policy = "Buffer" /\ \A s \in Streams : script[s].objects = <<>>

FocusedNext ==
  /\ \/ RequestStep /\ UNCHANGED planeVars
     \/ AnswerStep
     \/ Continue
     \/ focus = "datagrams" /\ DatagramStep
     \/ focus = "streams" /\ \E d \in LightDatagrams : Datagram(d)
     \/ focus = "streams" /\ StreamStep
  /\ nextRequestId' <= LastRequestId[focus]
  /\ UNCHANGED <<policy, focus>>

FocusedSpec ==
  FocusedInit /\ [][FocusedNext]_<<vars, focus>> /\ WF_vars(TransportThread)
=============================================================================
