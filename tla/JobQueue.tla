------------------------------ MODULE JobQueue ------------------------------
(***************************************************************************)
(* The rows of the jobs table (store/models.py, JobRow) and what every     *)
(* operation of jobs/queue.py and jobs/reliability.py writes to one row.   *)
(* The operators are pure; Worker.tla makes actions of them.               *)
(*                                                                         *)
(* queue.py and reliability.py write through the ORM: a session loads the  *)
(* row, the code assigns attributes, and the commit sends an UPDATE that   *)
(* names only the columns whose new value differs from the LOADED one.     *)
(* Nothing holds the row between the SELECT and the UPDATE (READ COMMITTED *)
(* on Postgres; on SQLite the write transaction opens at the UPDATE), so a *)
(* session is modelled by what it loaded and its commit by Flush.          *)
(***************************************************************************)
EXTENDS Integers, FiniteSets

CONSTANTS
    Jobs,          \* the ids of the jobs that may be enqueued
    MaxAttempts,   \* JobRow.max_attempts
    Lease          \* DEFAULT_LEASE_S, in ticks of the clock

ASSUME JobQueueAssumption ==
    /\ IsFiniteSet(Jobs)
    /\ MaxAttempts \in Nat \ {0}
    /\ Lease \in Nat

\* JobState, and "absent" for an id that has no row yet.  JobState.CANCELED is
\* in the enumeration but no code assigns it.
JobState == {"absent", "queued", "running", "done", "failed"}

Unlocked == -1     \* locked_at IS NULL

\* locked_by and locked_at are always written together, so locked_at stands for
\* both.  It is the age of the lock, which stops counting once it has expired.
LockAge == Unlocked .. Lease + 1

\* run_id is 0 for NULL and otherwise the attempt whose run the job links to.
\* created_at is the job's place in the order of enqueueing.
JobRow == [state : JobState, attempts : Nat, run_id : Nat,
           locked_at : LockAge, created_at : Nat]

NoRow == [state |-> "absent", attempts |-> 0, run_id |-> 0,
          locked_at |-> Unlocked, created_at |-> 0]

\* enqueue: a QUEUED row behind the `older` rows that exist already.
NewRow(older) == [NoRow EXCEPT !.state = "queued", !.created_at = older]

\* Mutant of MarkClaimed: the claim does not count as an attempt.
MarkClaimedUncounted(row) == [row EXCEPT !.state = "running", !.locked_at = 0]

\* claim: the columns written by _mark_claimed, and by the guarded UPDATE.
MarkClaimed(row) ==
    [row EXCEPT !.state = "running", !.locked_at = 0, !.attempts = @ + 1]

\* attach_run: run_id is new for every run, so the assignment is always sent.
AttachRun(row, n) == [row EXCEPT !.run_id = n]

-----------------------------------------------------------------------------
(* A session that has loaded a row and not committed yet.                  *)

Session == [state : JobState, attempts : Nat, locked : BOOLEAN]

NoSession == [state |-> "absent", attempts |-> 0, locked |-> FALSE]

Loaded(row) == [state    |-> row.state,
                attempts |-> row.attempts,
                locked   |-> row.locked_at # Unlocked]

\* The commit of a session that assigned `state` and cleared the lock: columns
\* that already had the assigned value when the row was loaded are not sent.
Flush(row, s, state) ==
    [row EXCEPT !.state     = IF s.state = state THEN @ ELSE state,
                !.locked_at = IF s.locked THEN Unlocked ELSE @]

\* mark_done: neither the state nor the owner of the loaded row is looked at.
MarkDone(row, s) == Flush(row, s, "done")

\* Mutants of MarkFailed: no retry at all, and no cap on the retries.
MarkFailedForGood(row, s) == Flush(row, s, "failed")
MarkFailedUncapped(row, s) == Flush(row, s, "queued")

\* mark_failed(retry=True), the only way the worker calls it.
MarkFailed(row, s) ==
    Flush(row, s, IF s.attempts < MaxAttempts THEN "queued" ELSE "failed")

\* Mutant of Stuck: only rows without a lock are reaped, none whose lease expired.
StuckWithoutLock(row) == row.state = "running" /\ row.locked_at = Unlocked

\* reap_stuck_jobs: RUNNING, and the lock older than the lease or missing.
Stuck(row) ==
    /\ row.state = "running"
    /\ row.locked_at = Unlocked \/ row.locked_at > Lease

\* reap_stuck_jobs: what the sweep's one commit does to each stuck row.
Reap(row, s) ==
    Flush(row, s, IF s.attempts < MaxAttempts THEN "queued" ELSE "failed")

\* One tick of the clock, as the lock of a row sees it.
Aged(row) ==
    [row EXCEPT !.locked_at = IF @ \in {Unlocked, Lease + 1} THEN @ ELSE @ + 1]
=============================================================================
