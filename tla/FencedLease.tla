----------------------------- MODULE FencedLease -----------------------------
(* What a lease store has to promise its clients, whatever the store does      *)
(* inside: each grant on a resource carries a term no other client ever gets   *)
(* (so that it can serve as a fencing token, the WHERE lease_generation = ? of *)
(* the repository), only the client of the latest grant can finish the         *)
(* resource, and a resource that is finished or abandoned stays so.            *)
EXTENDS Naturals

CONSTANTS Resources, Clients, Nobody

VARIABLES
    term,       \* [Resources -> Nat]: how many grants were made
    holder,     \* [Resources -> Clients \cup {Nobody}]: client of a current grant
    outcome,    \* [Resources -> {"open", "abandoned"} \cup Finished]
    issued,     \* set of <<resource, term, client>> ever granted
    finisher    \* [Resources -> {} or {<<term, client>>}]: grant that finished it

vars == <<term, holder, outcome, issued, finisher>>

Finished == {"completed", "failed"}

Init ==
    /\ term = [r \in Resources |-> 0]
    /\ holder = [r \in Resources |-> Nobody]
    /\ outcome = [r \in Resources |-> "open"]
    /\ issued = {}
    /\ finisher = [r \in Resources |-> {}]

\* A grant may supersede a holder: the lease ran out, the client is not asked.
Grant(r, c) ==
    /\ outcome[r] = "open"
    /\ term' = [term EXCEPT ![r] = term[r] + 1]
    /\ holder' = [holder EXCEPT ![r] = c]
    /\ issued' = issued \cup {<<r, term[r] + 1, c>>}
    /\ UNCHANGED <<outcome, finisher>>

Yield(r) ==
    /\ holder[r] # Nobody
    /\ holder' = [holder EXCEPT ![r] = Nobody]
    /\ UNCHANGED <<term, outcome, issued, finisher>>

\* Only the current holder finishes, under the current term.
Finish(r, c, o) ==
    /\ outcome[r] = "open"
    /\ holder[r] = c
    /\ outcome' = [outcome EXCEPT ![r] = o]
    /\ holder' = [holder EXCEPT ![r] = Nobody]
    /\ finisher' = [finisher EXCEPT ![r] = {<<term[r], c>>}]
    /\ UNCHANGED <<term, issued>>

\* Someone other than a holder gives the resource up.
Abandon(r) ==
    /\ outcome[r] = "open"
    /\ outcome' = [outcome EXCEPT ![r] = "abandoned"]
    /\ holder' = [holder EXCEPT ![r] = Nobody]
    /\ UNCHANGED <<term, issued, finisher>>

Next ==
    \E r \in Resources :
        \/ \E c \in Clients : Grant(r, c)
        \/ Yield(r)
        \/ \E c \in Clients, o \in Finished : Finish(r, c, o)
        \/ Abandon(r)

Spec == Init /\ [][Next]_vars
==============================================================================
