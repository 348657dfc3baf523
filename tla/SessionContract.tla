-------------------------- MODULE SessionContract --------------------------
(***************************************************************************)
(* What ready() promises an application (docs/Subscriber-API.md, ready):   *)
(* its future completes when the session becomes ready and throws if the   *)
(* session closes first.  The session opens at most once and shuts once;   *)
(* opening and shutting settle every future that is still pending, and a   *)
(* call made afterwards is settled at once.                                *)
(***************************************************************************)
CONSTANT Callers

VARIABLES status, future

Init ==
  /\ status = "opening"
  /\ future = [w \in Callers |-> "none"]

\* Every pending future gets the same outcome.
Settle(outcome) ==
  future' = [w \in Callers |-> IF future[w] = "pending" THEN outcome ELSE future[w]]

Open ==
  /\ status = "opening"
  /\ status' = "open"
  /\ Settle("ready")

Shut ==
  /\ status # "shut"
  /\ status' = "shut"
  /\ Settle("failed")

Outcome == [opening |-> "pending", open |-> "ready", shut |-> "failed"]

Call(w) ==
  /\ future[w] = "none"
  /\ future' = [future EXCEPT ![w] = Outcome[status]]
  /\ UNCHANGED status

Next == Open \/ Shut \/ \E w \in Callers : Call(w)

Spec == Init /\ [][Next]_<<status, future>>
=============================================================================
