------------------------------- MODULE Worker -------------------------------
(***************************************************************************)
(* The worker processes of jobs/worker.py around the jobs table: each runs *)
(* one _worker_loop slot (worker_concurrency = 1, the default) and one     *)
(* _reaper_loop.  The API enqueues, a slot claims a job and drives it with *)
(* run_job, the reapers sweep; all of them meet only in the jobs and runs  *)
(* tables.  A process may die and be restarted at any step, and an await   *)
(* on the database may raise with its statement committed or not.          *)
(***************************************************************************)
EXTENDS JobQueue

CONSTANTS
    Workers,      \* the worker processes
    Keyed,        \* those with a model client (build_holo_client is not None)
    Reapers,      \* bound: those whose _reaper_loop gets to sweep
    Timeout,      \* DEFAULT_JOB_TIMEOUT_S, in ticks of the clock
    Dialect,      \* "postgresql" or "sqlite": how claim takes a job
    NoJob,        \* what an idle slot holds
    MaxCrashes,   \* bound: deaths of worker processes
    MaxFaults     \* bound: awaits that raise

ASSUME WorkerAssumption ==
    /\ IsFiniteSet(Workers)
    /\ Keyed \subseteq Workers
    /\ Reapers \subseteq Workers
    /\ Timeout \in Nat
    /\ Dialect \in {"postgresql", "sqlite"}
    /\ NoJob \notin Jobs
    /\ MaxCrashes \in Nat
    /\ MaxFaults \in Nat

VARIABLES
    job,       \* the jobs table
    run,       \* the state of the rows of the runs table, by the ticket they are for
    pc,        \* where each slot is: the await it is about to make
    ticket,    \* the claim each slot works for: a job and the number of the attempt
    sess,      \* the row the slot's open session has loaded
    elapsed,   \* ticks since run_with_timeout started
    swarms,    \* the tickets whose swarm task is alive in each process
    snap,      \* the rows each reaper's open sweep has loaded
    crashes,   \* deaths so far
    faults     \* raised awaits so far

vars == <<job, run, pc, ticket, sess, elapsed, swarms, snap, crashes, faults>>

Ticket == [job : Jobs, n : Nat]
NoTicket == [job |-> NoJob, n |-> 0]

RunState == {"running", "finished", "error"}

Marking == {"mark_done", "mark_failed", "net"}

\* Inside run_job, hence inside run_with_timeout.
InRunJob == {"claimed", "create_run", "attach_run", "driving", "set_report",
             "set_error", "mark_done", "mark_failed"}

Pc == InRunJob \union {"down", "idle", "picked", "net"}

Init ==
    /\ job = [j \in Jobs |-> NoRow]
    /\ run = [t \in {} |-> "running"]
    /\ pc = [w \in Workers |-> "idle"]
    /\ ticket = [w \in Workers |-> NoTicket]
    /\ sess = [w \in Workers |-> NoSession]
    /\ elapsed = [w \in Workers |-> 0]
    /\ swarms = [w \in Workers |-> {}]
    /\ snap = [w \in Workers |-> [j \in Jobs |-> NoSession]]
    /\ crashes = 0
    /\ faults = 0

-----------------------------------------------------------------------------
(* The queue.                                                              *)

Rows == {j \in Jobs : job[j].state # "absent"}
Queued == {j \in Jobs : job[j].state = "queued"}

\* The first of ORDER BY created_at, id.
Oldest(j) == j \in Queued /\ \A k \in Queued : job[j].created_at <= job[k].created_at

\* POST /api/projects/{id}/runs and friends.
Enqueue(j) ==
    /\ job[j].state = "absent"
    /\ job' = [job EXCEPT ![j] = NewRow(Cardinality(Rows))]
    /\ UNCHANGED <<run, pc, ticket, sess, elapsed, swarms, snap, crashes, faults>>

\* The claim of j commits and the slot enters run_job.
Take(w, j) ==
    /\ job' = [job EXCEPT ![j] = MarkClaimed(@)]
    /\ ticket' = [ticket EXCEPT ![w] = [job |-> j, n |-> job[j].attempts + 1]]
    /\ pc' = [pc EXCEPT ![w] = "claimed"]
    /\ UNCHANGED <<run, sess, elapsed, swarms, snap, crashes, faults>>

\* _claim_postgres: SELECT ... FOR UPDATE SKIP LOCKED and the UPDATE are one step.
ClaimPostgres(w) ==
    /\ Dialect = "postgresql"
    /\ pc[w] = "idle"
    /\ \E j \in Jobs : Oldest(j) /\ Take(w, j)

\* _claim_guarded: the SELECT, which takes no lock.
PickCandidate(w) ==
    /\ Dialect = "sqlite"
    /\ pc[w] = "idle"
    /\ \E j \in Jobs :
        /\ Oldest(j)
        /\ ticket' = [ticket EXCEPT ![w] = [job |-> j, n |-> 0]]
    /\ pc' = [pc EXCEPT ![w] = "picked"]
    /\ UNCHANGED <<job, run, sess, elapsed, swarms, snap, crashes, faults>>

\* Mutant of ClaimGuarded: the UPDATE without "AND state = 'queued'".
ClaimUnguarded(w) ==
    /\ pc[w] = "picked"
    /\ Take(w, ticket[w].job)

\* _claim_guarded: rowcount = 1.
ClaimGuarded(w) ==
    /\ pc[w] = "picked"
    /\ job[ticket[w].job].state = "queued"
    /\ Take(w, ticket[w].job)

\* Mutant of Release: the slot still holds the job it has finished with.
ReleaseKeepsTicket(w) ==
    /\ pc' = [pc EXCEPT ![w] = "idle"]
    /\ sess' = [sess EXCEPT ![w] = NoSession]
    /\ elapsed' = [elapsed EXCEPT ![w] = 0]
    /\ UNCHANGED ticket

\* The slot is free again.
Release(w) ==
    /\ pc' = [pc EXCEPT ![w] = "idle"]
    /\ ticket' = [ticket EXCEPT ![w] = NoTicket]
    /\ sess' = [sess EXCEPT ![w] = NoSession]
    /\ elapsed' = [elapsed EXCEPT ![w] = 0]

\* _claim_guarded: rowcount = 0, another worker took the candidate first.
LoseRace(w) ==
    /\ pc[w] = "picked"
    /\ job[ticket[w].job].state # "queued"
    /\ Release(w)
    /\ UNCHANGED <<job, run, swarms, snap, crashes, faults>>

\* claim commits, its answer is lost, and _worker_loop swallows the error: the
\* row is RUNNING and nobody works on it.
ClaimAnswerLost(w) ==
    /\ faults < MaxFaults
    /\ \/ pc[w] = "picked" /\ job[ticket[w].job].state = "queued"
          /\ job' = [job EXCEPT ![ticket[w].job] = MarkClaimed(@)]
       \/ pc[w] = "idle" /\ Dialect = "postgresql"
          /\ \E j \in Jobs : Oldest(j) /\ job' = [job EXCEPT ![j] = MarkClaimed(@)]
    /\ Release(w)
    /\ faults' = faults + 1
    /\ UNCHANGED <<run, swarms, snap, crashes>>

-----------------------------------------------------------------------------
(* run_job.  Every step of it but the swarm is one await on the database;  *)
(* StatementJob and StatementRun are the tables once the statement that    *)
(* the slot is about to commit has been applied.                           *)

SetRun(t, state) == [u \in DOMAIN run \union {t} |-> IF u = t THEN state ELSE run[u]]

StatementRun(w) ==
    CASE pc[w] = "create_run" -> SetRun(ticket[w], "running")
      [] pc[w] = "set_report" -> SetRun(ticket[w], "finished")
      [] pc[w] = "set_error"  -> SetRun(ticket[w], "error")
      [] OTHER                -> run

JobWrite(w) ==
    CASE pc[w] = "attach_run" -> AttachRun(job[ticket[w].job], ticket[w].n)
      [] pc[w] = "mark_done"  -> MarkDone(job[ticket[w].job], sess[w])
      [] OTHER                -> MarkFailed(job[ticket[w].job], sess[w])

WritesJob(w) == pc[w] = "attach_run" \/ sess[w] # NoSession

StatementJob(w) ==
    IF WritesJob(w) THEN [job EXCEPT ![ticket[w].job] = JobWrite(w)] ELSE job

Commit(w) == job' = StatementJob(w) /\ run' = StatementRun(w)

\* The await raises: its statement was committed or it was not.
CommitOrNot(w) == Commit(w) \/ UNCHANGED <<job, run>>

GoTo(w, next) == pc' = [pc EXCEPT ![w] = next]

\* holo_client is None: the job is marked failed and run_job returns.
NoClient(w) ==
    /\ pc[w] = "claimed"
    /\ w \notin Keyed
    /\ GoTo(w, "mark_failed")
    /\ UNCHANGED <<job, run, ticket, sess, elapsed, swarms, snap, crashes, faults>>

\* Mutant of StartRun: the run is attached to the job before it is created.
StartRunAttachFirst(w) ==
    /\ pc[w] = "claimed"
    /\ w \in Keyed
    /\ swarms' = [swarms EXCEPT ![w] = @ \union {ticket[w]}]
    /\ GoTo(w, "attach_run")
    /\ UNCHANGED <<job, run, ticket, sess, elapsed, snap, crashes, faults>>

\* swarm.start_run: the swarm runs in a task of its own from here on.
StartRun(w) ==
    /\ pc[w] = "claimed"
    /\ w \in Keyed
    /\ swarms' = [swarms EXCEPT ![w] = @ \union {ticket[w]}]
    /\ GoTo(w, "create_run")
    /\ UNCHANGED <<job, run, ticket, sess, elapsed, snap, crashes, faults>>

\* store.create_run(state=RUNNING), then queue.attach_run.
CreateRun(w) ==
    /\ pc[w] = "create_run"
    /\ Commit(w)
    /\ GoTo(w, "attach_run")
    /\ UNCHANGED <<ticket, sess, elapsed, swarms, snap, crashes, faults>>

Attach(w) ==
    /\ pc[w] = "attach_run"
    /\ Commit(w)
    /\ GoTo(w, "driving")
    /\ UNCHANGED <<ticket, sess, elapsed, swarms, snap, crashes, faults>>

\* A swarm task ends, with a report or by raising, awaited or not.
SwarmEnds(w, t) ==
    /\ t \in swarms[w]
    /\ swarms' = [swarms EXCEPT ![w] = @ \ {t}]
    /\ UNCHANGED <<job, run, pc, ticket, sess, elapsed, snap, crashes, faults>>

\* Mutant of Observe: the job is marked done before the report is stored.
ObserveMarksFirst(w) ==
    /\ pc[w] = "driving"
    /\ ticket[w] \notin swarms[w]
    /\ \E next \in {"mark_done", "set_error"} : GoTo(w, next)
    /\ UNCHANGED <<job, run, ticket, sess, elapsed, swarms, snap, crashes, faults>>

\* `await record.task_handle` returns; the record holds a report or it does not.
Observe(w) ==
    /\ pc[w] = "driving"
    /\ ticket[w] \notin swarms[w]
    /\ \E next \in {"set_report", "set_error"} : GoTo(w, next)
    /\ UNCHANGED <<job, run, ticket, sess, elapsed, swarms, snap, crashes, faults>>

\* Mutant of SetRunReport: without the "else", the error branch runs as well.
SetRunReportFallsThrough(w) ==
    /\ pc[w] = "set_report"
    /\ Commit(w)
    /\ GoTo(w, "set_error")
    /\ UNCHANGED <<ticket, sess, elapsed, swarms, snap, crashes, faults>>

\* store.set_run_report; storage.put_dir is guarded and writes neither table.
SetRunReport(w) ==
    /\ pc[w] = "set_report"
    /\ Commit(w)
    /\ GoTo(w, "mark_done")
    /\ UNCHANGED <<ticket, sess, elapsed, swarms, snap, crashes, faults>>

\* store.set_run_state(ERROR).
SetRunError(w) ==
    /\ pc[w] = "set_error"
    /\ Commit(w)
    /\ GoTo(w, "mark_failed")
    /\ UNCHANGED <<ticket, sess, elapsed, swarms, snap, crashes, faults>>

\* mark_done and mark_failed: session.get ...
LoadJob(w) ==
    /\ pc[w] \in Marking
    /\ sess[w] = NoSession
    /\ sess' = [sess EXCEPT ![w] = Loaded(job[ticket[w].job])]
    /\ UNCHANGED <<job, run, pc, ticket, elapsed, swarms, snap, crashes, faults>>

\* ... and, later, the commit.  run_job returns and the slot claims again.
CommitMark(w) ==
    /\ pc[w] \in Marking
    /\ sess[w] # NoSession
    /\ Commit(w)
    /\ Release(w)
    /\ UNCHANGED <<swarms, snap, crashes, faults>>

-----------------------------------------------------------------------------
(* What can go wrong.                                                      *)

\* run_job is left for the safety net of _worker_loop, which calls mark_failed.
ToNet(w) ==
    /\ GoTo(w, "net")
    /\ sess' = [sess EXCEPT ![w] = NoSession]
    /\ elapsed' = [elapsed EXCEPT ![w] = 0]
    /\ UNCHANGED <<ticket, snap, crashes>>

\* An await of run_job raises (`await record.task_handle` is guarded).  A swarm
\* that was started stays alive.
RunJobRaises(w) ==
    /\ faults < MaxFaults
    /\ pc[w] \in InRunJob \ {"driving"}
    /\ CommitOrNot(w)
    /\ ToNet(w)
    /\ faults' = faults + 1
    /\ UNCHANGED swarms

\* wait_for cancels run_job: at the await of the swarm's task this cancels the
\* swarm as well, at any other await it does not.
JobTimeout(w) ==
    /\ elapsed[w] >= Timeout
    /\ pc[w] \in InRunJob
    /\ CommitOrNot(w)
    /\ ToNet(w)
    /\ swarms' = IF pc[w] = "driving" THEN [swarms EXCEPT ![w] = @ \ {ticket[w]}]
                                       ELSE swarms
    /\ UNCHANGED faults

\* The safety net's own mark_failed raises, and that is swallowed.
NetRaises(w) ==
    /\ faults < MaxFaults
    /\ pc[w] = "net"
    /\ CommitOrNot(w)
    /\ Release(w)
    /\ faults' = faults + 1
    /\ UNCHANGED <<swarms, snap, crashes>>

\* The process dies, or is stopped: SIGTERM cancels the tasks it says it drains,
\* and the cancellation passes through run_job and the safety net unhandled.
Crash(w) ==
    /\ crashes < MaxCrashes
    /\ pc[w] # "down"
    /\ pc' = [pc EXCEPT ![w] = "down"]
    /\ ticket' = [ticket EXCEPT ![w] = NoTicket]
    /\ sess' = [sess EXCEPT ![w] = NoSession]
    /\ elapsed' = [elapsed EXCEPT ![w] = 0]
    /\ swarms' = [swarms EXCEPT ![w] = {}]
    /\ snap' = [snap EXCEPT ![w] = [j \in Jobs |-> NoSession]]
    /\ crashes' = crashes + 1
    /\ UNCHANGED <<job, run, faults>>

\* The platform starts the process again.
Restart(w) ==
    /\ pc[w] = "down"
    /\ GoTo(w, "idle")
    /\ UNCHANGED <<job, run, ticket, sess, elapsed, swarms, snap, crashes, faults>>

-----------------------------------------------------------------------------
(* The reapers, one per process, and the clock.                            *)

StuckJobs == {j \in Jobs : Stuck(job[j])}

Sweeping(w) == {j \in Jobs : snap[w][j] # NoSession}

\* reap_stuck_jobs reads every RUNNING row and keeps those to reap.
ReapRead(w) ==
    /\ w \in Reapers
    /\ pc[w] # "down"
    /\ Sweeping(w) = {}
    /\ StuckJobs # {}
    /\ snap' = [snap EXCEPT ![w] =
           [j \in Jobs |-> IF j \in StuckJobs THEN Loaded(job[j]) ELSE NoSession]]
    /\ UNCHANGED <<job, run, pc, ticket, sess, elapsed, swarms, crashes, faults>>

EndSweep(w) == snap' = [snap EXCEPT ![w] = [j \in Jobs |-> NoSession]]

\* One commit for the whole sweep.
ReapCommit(w) ==
    /\ Sweeping(w) # {}
    /\ job' = [j \in Jobs |-> IF j \in Sweeping(w) THEN Reap(job[j], snap[w][j])
                                                    ELSE job[j]]
    /\ EndSweep(w)
    /\ UNCHANGED <<run, pc, ticket, sess, elapsed, swarms, crashes, faults>>

\* The commit raises and is rolled back; _reaper_loop swallows it.
ReapRaises(w) ==
    /\ faults < MaxFaults
    /\ Sweeping(w) # {}
    /\ EndSweep(w)
    /\ faults' = faults + 1
    /\ UNCHANGED <<job, run, pc, ticket, sess, elapsed, swarms, crashes>>

Tick ==
    /\ job' = [j \in Jobs |-> Aged(job[j])]
    /\ elapsed' = [w \in Workers |->
           IF pc[w] \in InRunJob /\ elapsed[w] < Timeout THEN elapsed[w] + 1
                                                         ELSE elapsed[w]]
    /\ UNCHANGED <<run, pc, ticket, sess, swarms, snap, crashes, faults>>

-----------------------------------------------------------------------------

\* What the code of one slot does of its own accord.
Slot(w) ==
    \/ ClaimPostgres(w) \/ PickCandidate(w) \/ ClaimGuarded(w) \/ LoseRace(w)
    \/ NoClient(w) \/ StartRun(w) \/ CreateRun(w) \/ Attach(w) \/ Observe(w)
    \/ SetRunReport(w) \/ SetRunError(w) \/ LoadJob(w) \/ CommitMark(w)

Reaper(w) == ReapRead(w) \/ ReapCommit(w)

Fault(w) ==
    \/ ClaimAnswerLost(w) \/ RunJobRaises(w) \/ NetRaises(w) \/ ReapRaises(w)
    \/ Crash(w)

Next ==
    \/ \E j \in Jobs : Enqueue(j)
    \/ \E w \in Workers :
        \/ Slot(w) \/ Reaper(w) \/ Fault(w)
        \/ JobTimeout(w) \/ Restart(w)
        \/ \E t \in swarms[w] : SwarmEnds(w, t)
    \/ Tick

Spec == Init /\ [][Next]_vars

\* asyncio runs a ready task, a timer that is due fires, the reaper's interval
\* elapses, the platform restarts a process.  A swarm need not end by itself.
Fairness ==
    /\ WF_vars(Tick)
    /\ \A w \in Workers :
        /\ WF_vars(Slot(w))
        /\ WF_vars(Reaper(w))
        /\ WF_vars(JobTimeout(w))
        /\ WF_vars(Restart(w))

FairSpec == Spec /\ Fairness

-----------------------------------------------------------------------------
(* Properties.                                                             *)

Working(w) == pc[w] \in InRunJob \union {"net"}

\* The variables have the types of their columns and of the code's locals.
TypeOK ==
    /\ job \in [Jobs -> JobRow]
    /\ DOMAIN run \subseteq Ticket
    /\ run \in [DOMAIN run -> RunState]
    /\ pc \in [Workers -> Pc]
    /\ ticket \in [Workers -> Ticket \union {NoTicket}]
    /\ \A w \in Workers : ticket[w] = NoTicket <=> pc[w] \in {"idle", "down"}
    /\ sess \in [Workers -> Session]
    /\ elapsed \in [Workers -> 0 .. Timeout]
    /\ swarms \in [Workers -> SUBSET Ticket]
    /\ snap \in [Workers -> [Jobs -> Session]]
    /\ crashes \in 0 .. MaxCrashes
    /\ faults \in 0 .. MaxFaults

\* Two slots never work for the same attempt of a job, however the reapers and
\* late commits throw the row about: this is what makes the blind writes to the
\* run of an attempt (set_run_report, set_run_state) the writes of one slot.
AttemptOwnedOnce ==
    \A v, w \in Workers : v # w /\ Working(v) /\ Working(w) => ticket[v] # ticket[w]

Reported == {j \in Jobs : \E t \in DOMAIN run : t.job = j /\ run[t] = "finished"}

\* A job is DONE only if a run of it is FINISHED, that is, has a stored report:
\* run_job stores the report before it marks the job, and no later attempt that
\* errs takes the report back.
DoneHasReport ==
    \A j \in Jobs : job[j].state = "done" => j \in Reported

\* A dead letter has used up its attempts, even when the session that wrote
\* FAILED had loaded the row long before: dead_letters lists every FAILED job.
DeadLetterExhausted ==
    \A j \in Jobs : job[j].state = "failed" => job[j].attempts >= MaxAttempts

\* jobs.run_id references a row of runs that exists, and never an attempt later
\* than the job has had.
RunLinkValid ==
    \A j \in Jobs : job[j].run_id # 0 =>
        /\ [job |-> j, n |-> job[j].run_id] \in DOMAIN run
        /\ job[j].run_id <= job[j].attempts

\* The inductive invariant behind the theorems of Worker_proofs: what a slot at
\* each await knows of its ticket, of the run it drives and of the row it loaded.
SlotInv(w) ==
    /\ Working(w) => ticket[w].n \in 1 .. job[ticket[w].job].attempts
    /\ sess[w] # NoSession =>
          /\ pc[w] \in Marking
          /\ sess[w].attempts <= job[ticket[w].job].attempts
    /\ pc[w] \in {"claimed", "create_run"} => ticket[w] \notin DOMAIN run
    /\ pc[w] \in {"attach_run", "driving", "set_report", "set_error"} =>
          ticket[w] \in DOMAIN run /\ run[ticket[w]] = "running"
    /\ pc[w] = "mark_done" => ticket[w] \in DOMAIN run /\ run[ticket[w]] = "finished"

JobInv(j) ==
    /\ job[j].state = "absent" => job[j].attempts = 0 /\ job[j].run_id = 0
    /\ job[j].state \notin {"absent", "queued"} => job[j].attempts > 0

SnapInv(w, j) ==
    snap[w][j] # NoSession =>
        /\ job[j].attempts > 0
        /\ snap[w][j].attempts <= job[j].attempts

RunInv(t) == t.n \in 1 .. job[t.job].attempts

IInv ==
    /\ TypeOK
    /\ AttemptOwnedOnce
    /\ DoneHasReport
    /\ DeadLetterExhausted
    /\ RunLinkValid
    /\ \A w \in Workers : SlotInv(w)
    /\ \A j \in Jobs : JobInv(j)
    /\ \A w \in Workers, j \in Jobs : SnapInv(w, j)
    /\ \A t \in DOMAIN run : RunInv(t)

\* The cap on attempts can be overrun, but only by one retry for each session
\* that was open in the system when the last attempt was claimed.
RetryOverrunBounded ==
    \A j \in Jobs : job[j].attempts < MaxAttempts + Cardinality(Workers) + Cardinality(Reapers)

Lifecycle == INSTANCE JobLifecycle WITH
    state    <- [j \in Jobs |-> job[j].state],
    attempts <- [j \in Jobs |-> job[j].attempts],
    reported <- Reported

\* Whatever the slots, reapers and faults do to a row is a step the queue
\* promises: above all, only a QUEUED job is claimed, however old the SELECT
\* that chose it.
ImplementsJobLifecycle == Lifecycle!Spec

\* A stored report is final: no later write to the run's row takes it back.
ReportKept ==
    [][\A t \in DOMAIN run : run[t] = "finished" =>
          t \in DOMAIN run' /\ run'[t] = "finished"]_vars

\* Every job that was enqueued is DONE or FAILED from some time on, although
\* swarms hang, workers die and sessions commit late.
EventuallySettled ==
    \A j \in Jobs :
        job[j].state # "absent" ~> [](job[j].state \in {"done", "failed"})

(* What comments in the code say, and the code does not do.                *)

\* jobs/queue.py:149: "attempts already counted at claim time, so this naturally
\* caps at max_attempts total tries".
AttemptsCapped == \A j \in Jobs : job[j].attempts <= MaxAttempts

\* jobs/worker.py:92: run_job "Marks the job done/failed and the run
\* FINISHED/ERROR itself": once no job is in progress, no run is RUNNING.
RunsClosed ==
    (\A w \in Workers : ~Working(w)) /\ (\A j \in Jobs : job[j].state \in {"done", "failed"})
        => \A t \in DOMAIN run : run[t] # "running"

\* jobs/worker.py:7: "Concurrency = Settings.worker_concurrency", which is 1: a
\* process drives no more swarms at a time than it has slots.
OneSwarmPerSlot == \A w \in Workers : Cardinality(swarms[w]) <= 1
=============================================================================
