-------------------------- MODULE CallbackDelivery --------------------------
(***************************************************************************)
(* What ExecuteRequest promises of a callback: delivery at least once.     *)
(*                                                                         *)
(* A callback that can be sent is pending until its service has said 200.  *)
(* It is delivered once at a time, as its senders see it, again whenever   *)
(* the delivery has failed, and not any more after a 200.  A callback that *)
(* cannot be sent is refused and never gets to a service.                  *)
(***************************************************************************)
CONSTANT Calls      \* the invocations of ExecuteRequest

VARIABLES
    status,     \* of each call: "idle", "refused", "pending", "delivered" while its
                \* service has it and has not answered, or "acked"
    served      \* the calls whose request a service has received

vars == <<status, served>>

Init ==
    /\ status = [c \in Calls |-> "idle"]
    /\ served = {}

Move(c, from, to) ==
    /\ status[c] = from
    /\ status' = [status EXCEPT ![c] = to]

Accept(c) == Move(c, "idle", "pending") /\ UNCHANGED served
Refuse(c) == Move(c, "idle", "refused") /\ UNCHANGED served
Deliver(c) == Move(c, "pending", "delivered") /\ served' = served \cup {c}
Acknowledge(c) == Move(c, "delivered", "acked") /\ UNCHANGED served

\* The answer was lost, or was not 200: the service has the callback all the same.
Retry(c) == Move(c, "delivered", "pending") /\ UNCHANGED served

Next ==
    \E c \in Calls :
        Accept(c) \/ Refuse(c) \/ Deliver(c) \/ Acknowledge(c) \/ Retry(c)

Spec == Init /\ [][Next]_vars
=============================================================================
