---------------------------- MODULE RequestReply ----------------------------
(***************************************************************************)
(* What WebRtcServer.sendRequest promises to its callers.                  *)
(*                                                                         *)
(* A call is one invocation of sendRequest.  It hands at most one request  *)
(* to a worker, and only while it runs; the worker may answer a request it *)
(* was handed; the call returns exactly once, with the answer to its own   *)
(* request or with an error.  An error promises nothing about the worker:  *)
(* the request may have been handed over and even have been answered.      *)
(***************************************************************************)

CONSTANT Calls      \* the invocations of sendRequest

VARIABLES
    status,         \* status[c] is "idle", "running" or "returned"
    handed,         \* the calls whose request was given to a worker
    answered,       \* the calls whose request a worker answered
    result          \* result[c] is "none", "answer" or "error"

vars == <<status, handed, answered, result>>

TypeOK ==
    /\ status \in [Calls -> {"idle", "running", "returned"}]
    /\ handed \subseteq Calls
    /\ answered \subseteq handed
    /\ result \in [Calls -> {"none", "answer", "error"}]

Init ==
    /\ status = [c \in Calls |-> "idle"]
    /\ handed = {}
    /\ answered = {}
    /\ result = [c \in Calls |-> "none"]

Begin(c) ==
    /\ status[c] = "idle"
    /\ status' = [status EXCEPT ![c] = "running"]
    /\ UNCHANGED <<handed, answered, result>>

HandOver(c) ==
    /\ status[c] = "running"
    /\ c \notin handed
    /\ handed' = handed \cup {c}
    /\ UNCHANGED <<status, answered, result>>

\* The worker answers when it likes, after the caller gave up too.
Answer(c) ==
    /\ c \in handed
    /\ answered' = answered \cup {c}
    /\ UNCHANGED <<status, handed, result>>

ReturnAnswer(c) ==
    /\ status[c] = "running"
    /\ c \in answered
    /\ status' = [status EXCEPT ![c] = "returned"]
    /\ result' = [result EXCEPT ![c] = "answer"]
    /\ UNCHANGED <<handed, answered>>

\* An unknown worker is refused at once, before the call counts as running.
ReturnError(c) ==
    /\ status[c] \in {"idle", "running"}
    /\ status' = [status EXCEPT ![c] = "returned"]
    /\ result' = [result EXCEPT ![c] = "error"]
    /\ UNCHANGED <<handed, answered>>

Next ==
    \E c \in Calls : \/ Begin(c) \/ HandOver(c) \/ Answer(c)
                     \/ ReturnAnswer(c) \/ ReturnError(c)

Spec == Init /\ [][Next]_vars
=============================================================================
