--------------------------- MODULE ContinuationRow ---------------------------
(* One row of operation_continuations (packages/db/src/schema/turn.ts) and the *)
(* conditional UPDATE statements that every repository issues against it.      *)
(* A statement is split the way SQL splits it: a WHERE predicate and the row   *)
(* it SETs.  Times are naturals; a cleared lease_expires_at is 0, which no     *)
(* comparison "> now" accepts, as NULL in SQL.                                 *)
EXTENDS Naturals

CONSTANT NoOwner     \* lease_owner_id IS NULL

Active == {"waiting_approval", "ready", "running"}
Terminal == {"completed", "failed", "cancelled"}

\* gt(leaseExpiresAt, now)
Live(row, now) == row.expires > now

\* Mutants: the WHERE clause without its fencing token, or without any identity.
HeldByOwner(row, owner, gen, now) ==
    row.status = "running" /\ row.owner = owner /\ Live(row, now)
HeldByAnyone(row, owner, gen, now) == row.status = "running" /\ Live(row, now)

\* WHERE clause of heartbeat, release and settle: owner, generation and expiry.
HeldBy(row, owner, gen, now) ==
    /\ row.status = "running"
    /\ row.owner = owner
    /\ row.gen = gen
    /\ Live(row, now)

\* Mutant: a running row may be claimed before its lease ran out.
ClaimableEarly(row, now) == row.status \in {"ready", "running"}

\* WHERE clause of claimRow, also of rejectContinuationAuthorization.
Claimable(row, now) ==
    \/ row.status = "ready"
    \/ row.status = "running" /\ ~Live(row, now)

\* Mutant: the generation is not incremented.
ClaimedAgain(row, owner, expires) ==
    [row EXCEPT !.status = "running", !.owner = owner, !.expires = expires]

\* SET clause of claimRow: the generation is the fencing token.
Claimed(row, owner, expires) ==
    [row EXCEPT !.status = "running", !.gen = @ + 1,
                !.owner = owner, !.expires = expires]

\* SET clause of heartbeatContinuation.
Renewed(row, expires) == [row EXCEPT !.expires = expires]

\* Mutant: the generation is handed back.
UnleasedWithToken(row, status, failure) ==
    [row EXCEPT !.status = status, !.owner = NoOwner, !.expires = 0,
                !.failure = failure, !.gen = 0]

\* SET clause shared by every statement that takes the row out of "running".
\* The generation survives: a release does not hand the token back.
Unleased(row, status, failure) ==
    [row EXCEPT !.status = status, !.owner = NoOwner,
                !.expires = 0, !.failure = failure]

\* CHECK (operation_continuations_lease_check): lease columns go with "running".
LeaseCheck(row) ==
    /\ (row.status = "running") <=> (row.owner # NoOwner)
    /\ row.status # "running" => row.expires = 0
    /\ row.status = "running" => row.gen >= 1

\* CHECK (operation_continuations_terminal_check): a code goes with "failed".
TerminalCheck(row) == (row.status = "failed") <=> (row.failure # "none")
==============================================================================
