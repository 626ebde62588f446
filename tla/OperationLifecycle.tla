-------------------------- MODULE OperationLifecycle --------------------------
(* What the Gateway promises the clients of one turn Operation, whichever      *)
(* process writes it (packages/gateway-core/src/events.ts lists the events of  *)
(* the stream): the stream only grows, an approval is asked for once and       *)
(* before there is an answer, a turn that waits for it is answered by nobody,  *)
(* one outcome ends the stream and a completion is told only of an answer that *)
(* was recorded.  GatewayTurn keeps the promise from the start, McpContinuation *)
(* from the approval on.                                                       *)
EXTENDS Sequences

CONSTANT Outcomes     \* the terminal events and the failures they carry

VARIABLES
    status,      \* "running", "completed", "failed" or "cancelled"
    approval,    \* "none", "pending", "approved", "denied" or "revoked"
    answered,    \* a complete answer is durable
    stream       \* the events that a client can read

vars == <<status, approval, answered, stream>>

Begun ==
    status = "running" /\ approval = "none" /\ ~answered /\ stream = <<>>

\* What a worker starts from.
Approved ==
    /\ status = "running" /\ approval = "approved" /\ ~answered
    /\ stream = <<"approval.required", "approval.resolved">>

Running == status = "running"
Tells(event) == stream' = Append(stream, event)

Ask ==
    /\ Running /\ approval = "none" /\ ~answered
    /\ approval' = "pending"
    /\ Tells("approval.required")
    /\ UNCHANGED <<status, answered>>

Approve ==
    /\ Running /\ approval = "pending"
    /\ approval' = "approved"
    /\ Tells("approval.resolved")
    /\ UNCHANGED <<status, answered>>

\* A denial is told together with the failure of the turn.
Deny ==
    /\ Running /\ approval = "pending"
    /\ approval' = "denied"
    /\ status' = "failed"
    /\ stream' = Append(Append(stream, "approval.resolved"), "APPROVAL_DENIED")
    /\ UNCHANGED answered

Answer ==
    /\ Running /\ approval \in {"none", "approved"} /\ ~answered
    /\ answered' = TRUE
    /\ UNCHANGED <<status, approval, stream>>

Cite ==
    /\ Running /\ answered
    /\ Tells("message.citation")
    /\ UNCHANGED <<status, approval, answered>>

\* A turn that waits ends by a cancellation, which takes the approval back, or
\* by a failure of the process that asked.
End(outcome) ==
    /\ Running
    /\ outcome = "completed" => answered
    /\ approval = "pending" => outcome \in {"cancelled", "RUNTIME_FAILED"}
    /\ status' = IF outcome \in {"completed", "cancelled"} THEN outcome ELSE "failed"
    /\ approval' = IF approval = "pending" /\ outcome = "cancelled" THEN "revoked"
                   ELSE approval
    /\ Tells(outcome)
    /\ UNCHANGED answered

Next == Ask \/ Approve \/ Deny \/ Answer \/ Cite \/ \E outcome \in Outcomes : End(outcome)

Spec == Begun /\ [][Next]_vars
ResumedSpec == Approved /\ [][Next]_vars

(* A completed turn has its answer, and until there is one, the stream tells   *)
(* how far the approval is and nothing else.                                   *)
Coherent ==
    /\ status = "completed" => answered
    /\ Running /\ approval = "pending" => ~answered
    /\ Running /\ ~answered =>
          /\ approval = "none" => stream = <<>>
          /\ approval = "pending" => stream = <<"approval.required">>
          /\ approval = "approved" => stream = <<"approval.required", "approval.resolved">>
===============================================================================
