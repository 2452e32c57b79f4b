------------------------------ MODULE History -------------------------------
(***************************************************************************)
(* What is kept of the runs of one flow of a project: the rows and the     *)
(* artifacts that a worker writes (jobs/worker.py, storage/), the baseline *)
(* that users choose (routers/runs.py), and the sweep that deletes runs    *)
(* past their retention window (ops/retention.py).  Rows and artifacts are *)
(* in two stores that no transaction spans.                                *)
(***************************************************************************)
EXTENDS Naturals, FiniteSets

CONSTANTS
    Runs,          \* run ids
    NoRun,
    Setters,       \* requests that set the baseline at the same time
    ForeignKeys,   \* the database enforces them: PostgreSQL does, SQLite as opened does not
    Remote         \* artifacts are published to S3; otherwise the worker's disk is the store

ASSUME HistoryAssumption ==
    /\ NoRun \notin Runs
    /\ ForeignKeys \in BOOLEAN /\ Remote \in BOOLEAN

VARIABLES
    row,           \* runs.state, or none: not created, gone: deleted
    worker,        \* where the worker that drives the run is
    named,         \* the runs that a job row names
    disk,          \* the runs that have files in the worker's artifact_dir
    bucket,        \* the runs that have objects in the bucket
    missed,        \* the runs whose deletion failed unnoticed, when it was last tried: history
    stale,         \* the runs that are past the window
    baseline,      \* the run that the baseline row names, if there is one
    setter,        \* the run that each request has read, and whether it saw a baseline row
    sweep          \* the pass over the stale runs

history == <<row, worker, named, disk, bucket, missed, stale, baseline, setter, sweep>>

RowState == {"none", "running", "finished", "error", "gone"}
WorkerState == {"none", "started", "created", "driving", "publishing", "over"}
NoSetter == [pc |-> "idle", run |-> NoRun, saw |-> FALSE]
Waiting == [pc |-> "idle", left |-> {}, deleted |-> {}]

HistoryInit ==
    /\ row = [r \in Runs |-> "none"]
    /\ worker = [r \in Runs |-> "none"]
    /\ named = {} /\ disk = {} /\ bucket = {} /\ missed = {} /\ stale = {}
    /\ baseline = NoRun
    /\ setter = [s \in Setters |-> NoSetter]
    /\ sweep = Waiting

Present == {r \in Runs : row[r] \notin {"none", "gone"}}
Stored == IF Remote THEN bucket ELSE disk

-----------------------------------------------------------------------------
(* run_job.                                                                *)

\* start_run: the swarm is at work and writes files.
StartRun(r) ==
    /\ worker[r] = "none"
    /\ worker' = [worker EXCEPT ![r] = "started"]
    /\ disk' = disk \union {r}
    /\ UNCHANGED <<row, named, bucket, missed, stale, baseline, setter, sweep>>

CreateRow(r) ==
    /\ worker[r] = "started"
    /\ worker' = [worker EXCEPT ![r] = "created"]
    /\ row' = [row EXCEPT ![r] = "running"]
    /\ UNCHANGED <<named, disk, bucket, missed, stale, baseline, setter, sweep>>

\* attach_run: the job names this run and no longer that of its last attempt.
AttachRun(r, last) ==
    /\ worker[r] = "created"
    /\ last \in named \union {NoRun}
    /\ worker' = [worker EXCEPT ![r] = "driving"]
    /\ named' = (named \ {last}) \union {r}
    /\ UNCHANGED <<row, disk, bucket, missed, stale, baseline, setter, sweep>>

\* set_run_report, or set_run_state when there is no report.
EndRun(r, state) ==
    /\ worker[r] = "driving"
    /\ state \in {"finished", "error"}
    /\ row' = [row EXCEPT ![r] = state]
    /\ worker' = [worker EXCEPT ![r] = IF state = "finished" THEN "publishing" ELSE "over"]
    /\ UNCHANGED <<named, disk, bucket, missed, stale, baseline, setter, sweep>>

\* put_dir; where the disk is the store there is nothing to copy.
PutDir(r) ==
    /\ worker[r] = "publishing"
    /\ worker' = [worker EXCEPT ![r] = "over"]
    /\ bucket' = IF Remote THEN bucket \union {r} ELSE bucket
    /\ UNCHANGED <<row, named, disk, missed, stale, baseline, setter, sweep>>

\* The worker's process ends, or put_dir raises: nobody goes on with the run.
Abandon(r) ==
    /\ worker[r] \notin {"none", "over"}
    /\ worker' = [worker EXCEPT ![r] = "over"]
    /\ UNCHANGED <<row, named, disk, bucket, missed, stale, baseline, setter, sweep>>

\* --days pass, much longer than a job may take.
Age(r) ==
    /\ r \in Present \ stale
    /\ worker[r] = "over"
    /\ stale' = stale \union {r}
    /\ UNCHANGED <<row, worker, named, disk, bucket, missed, baseline, setter, sweep>>

-----------------------------------------------------------------------------
(* POST /projects/{id}/baselines.                                          *)

\* get_run; 404 and 425 otherwise.
GetRun(s, r) ==
    /\ setter[s].pc = "idle"
    /\ row[r] = "finished"
    /\ setter' = [setter EXCEPT ![s] = [NoSetter EXCEPT !.pc = "read", !.run = r]]
    /\ UNCHANGED <<row, worker, named, disk, bucket, missed, stale, baseline, sweep>>

LookUp(s) ==
    /\ setter[s].pc = "read"
    /\ setter' = [setter EXCEPT ![s] =
           [pc |-> "write", run |-> @.run, saw |-> baseline # NoRun]]
    /\ UNCHANGED <<row, worker, named, disk, bucket, missed, stale, baseline, sweep>>

\* The insert or the update; uq_baseline_flow refuses a second row, the foreign key a
\* run that is no more.
Upsert(s) ==
    /\ setter[s].pc = "write"
    /\ baseline' = IF \/ ~setter[s].saw /\ baseline # NoRun
                      \/ ForeignKeys /\ setter[s].run \notin Present
                   THEN baseline ELSE setter[s].run
    /\ setter' = [setter EXCEPT ![s] = NoSetter]
    /\ UNCHANGED <<row, worker, named, disk, bucket, missed, stale, sweep>>

-----------------------------------------------------------------------------
(* run_retention --apply.                                                  *)

\* The candidates; none: "Nothing to do".
Select ==
    /\ sweep.pc = "idle"
    /\ stale \intersect Present # {}
    /\ sweep' = [pc |-> "files", left |-> stale \intersect Present, deleted |-> {}]
    /\ UNCHANGED <<row, worker, named, disk, bucket, missed, stale, baseline, setter>>

\* _delete_artifacts of one run, from the store.
DeleteArtifacts(r) ==
    /\ sweep.pc = "files" /\ r \in sweep.left
    /\ disk' = IF Remote THEN disk ELSE disk \ {r}
    /\ bucket' = bucket \ {r}
    /\ missed' = missed \ {r}
    /\ sweep' = [sweep EXCEPT !.left = @ \ {r}, !.deleted = @ \union {r}]
    /\ UNCHANGED <<row, worker, named, stale, baseline, setter>>

\* rmtree ignores its errors, and what delete_objects says of single keys is not read:
\* something stays, and the sweep goes on as if nothing had.
LeaveArtifacts(r) ==
    /\ sweep.pc = "files" /\ r \in sweep.left \intersect Stored
    /\ missed' = missed \union {r}
    /\ sweep' = [sweep EXCEPT !.left = @ \ {r}, !.deleted = @ \union {r}]
    /\ UNCHANGED <<row, worker, named, disk, bucket, stale, baseline, setter>>

\* Mutant of DeleteRows: the rows of the candidates, with the files still to delete.
DeleteRowsEarly ==
    /\ sweep.pc = "files"
    /\ row' = [r \in Runs |-> IF r \in sweep.left THEN "gone" ELSE row[r]]
    /\ sweep' = [sweep EXCEPT !.pc = IF sweep.left = {} THEN "idle" ELSE @]
    /\ UNCHANGED <<worker, named, disk, bucket, missed, stale, baseline, setter>>

\* Mutant of DeleteRows: nothing is committed.
DeleteRowsNever ==
    /\ sweep.pc = "files" /\ sweep.left = {}
    /\ sweep' = Waiting
    /\ UNCHANGED <<row, worker, named, disk, bucket, missed, stale, baseline, setter>>

\* The rows, in one transaction: a row that is named makes all of them stay.
DeleteRows ==
    /\ sweep.pc = "files" /\ sweep.left = {}
    /\ row' = IF ForeignKeys /\ sweep.deleted \intersect (named \union {baseline}) # {}
              THEN row
              ELSE [r \in Runs |-> IF r \in sweep.deleted THEN "gone" ELSE row[r]]
    /\ sweep' = Waiting
    /\ UNCHANGED <<worker, named, disk, bucket, missed, stale, baseline, setter>>

\* The process ends in between; cron starts another one.
SweepDies ==
    /\ sweep.pc = "files"
    /\ sweep' = Waiting
    /\ UNCHANGED <<row, worker, named, disk, bucket, missed, stale, baseline, setter>>

Sweep == Select \/ (\E r \in Runs : DeleteArtifacts(r)) \/ DeleteRows

HistoryStep ==
    \/ \E r \in Runs :
        \/ StartRun(r) \/ CreateRow(r) \/ (\E last \in Runs \union {NoRun} : AttachRun(r, last))
        \/ (\E state \in {"finished", "error"} : EndRun(r, state))
        \/ PutDir(r) \/ Abandon(r) \/ Age(r)
    \/ \E s \in Setters : (\E r \in Runs : GetRun(s, r)) \/ LookUp(s) \/ Upsert(s)
    \/ Sweep

HistoryNext == HistoryStep \/ SweepDies \/ \E r \in Runs : LeaveArtifacts(r)

HistorySpec == HistoryInit /\ [][HistoryNext]_history

-----------------------------------------------------------------------------
(* Properties.                                                             *)

HistoryTypeOK ==
    /\ row \in [Runs -> RowState] /\ worker \in [Runs -> WorkerState]
    /\ named \subseteq Runs /\ disk \subseteq Runs /\ bucket \subseteq Runs
    /\ missed \subseteq Runs /\ stale \subseteq Runs
    /\ baseline \in Runs \union {NoRun}
    /\ setter \in [Setters -> [pc : {"idle", "read", "write"}, run : Runs \union {NoRun},
                               saw : BOOLEAN]]
    /\ sweep \in [pc : {"idle", "files"}, left : SUBSET Runs, deleted : SUBSET Runs]

\* "Artifacts, then rows" (retention.py:175): what a run whose row is gone has left in the
\* store, a deletion has left there that failed unnoticed, wherever a sweep or a worker
\* stops, for its row is what the next sweep would find it by.
DeletedLeavesNothing == \A r \in Runs : row[r] = "gone" => r \notin Stored \ missed

\* The retention window is enforced: the row of a run that is past it goes too
\* (docs/data-policy.md:43, "deletes artifacts + the RunRow").
StaleRunsGo == \A r \in Runs : r \in stale ~> row[r] = "gone"
=============================================================================
