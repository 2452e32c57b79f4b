--------------------------- MODULE Worker_proofs ---------------------------
(***************************************************************************)
(* Proofs about Worker for any numbers of jobs, workers, faults and        *)
(* crashes, any lease and timeout, and either database.                    *)
(***************************************************************************)
EXTENDS Worker, TLAPS, FiniteSetTheorems

-----------------------------------------------------------------------------
(* What the operations on a row return.                                    *)

\* A session's commit returns a row of the state it assigned or the one it found.
LEMMA FlushRow ==
    ASSUME NEW row \in JobRow, NEW s \in Session, NEW state \in JobState
    PROVE  /\ Flush(row, s, state) \in JobRow
           /\ Flush(row, s, state).attempts = row.attempts
           /\ Flush(row, s, state).run_id = row.run_id
           /\ Flush(row, s, state).state \in {row.state, state}
<1> DEFINE st == IF s.state = state THEN row.state ELSE state
           at == IF s.locked THEN Unlocked ELSE row.locked_at
<1>1. Flush(row, s, state) \in JobRow
  <2>1. st \in JobState
    BY DEF JobRow
  <2>2. at \in LockAge
    BY JobQueueAssumption DEF JobRow, LockAge, Unlocked
  <2>3. Flush(row, s, state) = [row EXCEPT !.state = st, !.locked_at = at]
    BY DEF Flush, JobRow
  <2> HIDE DEF st, at
  <2> QED
    BY <2>1, <2>2, <2>3 DEF JobRow
<1>2. /\ Flush(row, s, state).attempts = row.attempts
      /\ Flush(row, s, state).run_id = row.run_id
      /\ Flush(row, s, state).state \in {row.state, state}
  BY DEF Flush, JobRow
<1> QED
  BY <1>1, <1>2

\* An absent row is a row and a closed session is a session.
LEMMA NoRowTypes == NoRow \in JobRow /\ NoSession \in Session
<1>1. "absent" \in JobState
  BY DEF JobState
<1> QED
  BY <1>1, JobQueueAssumption DEF JobRow, LockAge, Unlocked, NoRow, Session, NoSession

\* Every operation returns a row.
LEMMA RowTypes ==
    ASSUME NEW row \in JobRow, NEW s \in Session, NEW n \in Nat
    PROVE  /\ NewRow(n) \in JobRow
           /\ MarkClaimed(row) \in JobRow
           /\ AttachRun(row, n) \in JobRow
           /\ MarkDone(row, s) \in JobRow
           /\ MarkFailed(row, s) \in JobRow
           /\ Reap(row, s) \in JobRow
           /\ Aged(row) \in JobRow
           /\ Loaded(row) \in Session
<1>1. /\ "absent" \in JobState /\ "queued" \in JobState /\ "running" \in JobState
      /\ "done" \in JobState /\ "failed" \in JobState
  BY DEF JobState
<1>2. NewRow(n) \in JobRow
  BY <1>1, NoRowTypes DEF JobRow, NewRow
<1>3. MarkClaimed(row) \in JobRow /\ AttachRun(row, n) \in JobRow
  <2> DEFINE tries == row.attempts + 1
  <2>1. 0 \in LockAge
    BY JobQueueAssumption DEF LockAge, Unlocked
  <2>2. tries \in Nat
    BY DEF JobRow
  <2>3. MarkClaimed(row) =
            [row EXCEPT !.state = "running", !.locked_at = 0, !.attempts = tries]
    BY DEF MarkClaimed
  <2> HIDE DEF tries
  <2> QED
    BY <1>1, <2>1, <2>2, <2>3 DEF JobRow, AttachRun
<1>4. MarkDone(row, s) \in JobRow /\ MarkFailed(row, s) \in JobRow /\ Reap(row, s) \in JobRow
  BY <1>1, FlushRow DEF MarkDone, MarkFailed, Reap
<1>5. Aged(row) \in JobRow
  BY JobQueueAssumption DEF JobRow, LockAge, Unlocked, Aged
<1>6. Loaded(row) \in Session
  BY DEF JobRow, Loaded, Session
<1> QED
  BY <1>2, <1>3, <1>4, <1>5, <1>6

\* attach_run sets the link and nothing else.
LEMMA AttachEffects ==
    ASSUME NEW row \in JobRow, NEW n \in Nat
    PROVE  /\ AttachRun(row, n).attempts = row.attempts
           /\ AttachRun(row, n).run_id = n
           /\ AttachRun(row, n).state = row.state
BY DEF JobRow, AttachRun

\* A claim counts one attempt; time and a SELECT count none.
LEMMA ClaimEffects ==
    ASSUME NEW row \in JobRow
    PROVE  /\ MarkClaimed(row).attempts = row.attempts + 1
           /\ MarkClaimed(row).run_id = row.run_id
           /\ MarkClaimed(row).state = "running"
           /\ Aged(row).attempts = row.attempts
           /\ Aged(row).run_id = row.run_id
           /\ Aged(row).state = row.state
           /\ Loaded(row).attempts = row.attempts
           /\ Loaded(row).state = row.state
BY DEF JobRow, MarkClaimed, Aged, Loaded

\* mark_done, mark_failed and a sweep neither count an attempt nor touch the link, and
\* FAILED is written only by a session that loaded a row with its attempts used up.
LEMMA RowEffects ==
    ASSUME NEW row \in JobRow, NEW s \in Session
    PROVE  /\ MarkDone(row, s).attempts = row.attempts
           /\ MarkDone(row, s).run_id = row.run_id
           /\ MarkDone(row, s).state \in {row.state, "done"}
           /\ MarkFailed(row, s).attempts = row.attempts
           /\ MarkFailed(row, s).run_id = row.run_id
           /\ MarkFailed(row, s).state \in {row.state, "queued", "failed"}
           /\ MarkFailed(row, s).state \in {row.state, "queued"} \/ s.attempts >= MaxAttempts
           /\ Reap(row, s) = MarkFailed(row, s)
<1>1. /\ "absent" \in JobState /\ "queued" \in JobState /\ "running" \in JobState
      /\ "done" \in JobState /\ "failed" \in JobState
  BY DEF JobState
<1>2. /\ MarkDone(row, s).attempts = row.attempts
      /\ MarkDone(row, s).run_id = row.run_id
      /\ MarkDone(row, s).state \in {row.state, "done"}
  BY <1>1, FlushRow DEF MarkDone
<1>3. /\ MarkFailed(row, s).attempts = row.attempts
      /\ MarkFailed(row, s).run_id = row.run_id
      /\ MarkFailed(row, s).state \in {row.state, "queued", "failed"}
      /\ MarkFailed(row, s).state \in {row.state, "queued"} \/ s.attempts >= MaxAttempts
  <2>1. CASE s.attempts < MaxAttempts
    BY <1>1, <2>1, FlushRow DEF MarkFailed
  <2>2. CASE ~(s.attempts < MaxAttempts)
    <3>1. s.attempts >= MaxAttempts
      BY <2>2, JobQueueAssumption DEF Session
    <3> QED
      BY <1>1, <2>2, <3>1, FlushRow DEF MarkFailed
  <2> QED
    BY <2>1, <2>2
<1>4. Reap(row, s) = MarkFailed(row, s)
  BY DEF Reap, MarkFailed
<1> QED
  BY <1>2, <1>3, <1>4

-----------------------------------------------------------------------------
(* Type correctness.                                                       *)

\* A ticket is never mistaken for the one an idle slot holds.
LEMMA TicketTypes ==
    /\ NoTicket \notin Ticket
    /\ \A j \in Jobs, n \in Nat : [job |-> j, n |-> n] \in Ticket
    /\ \A t \in Ticket : t.job \in Jobs /\ t.n \in Nat
BY WorkerAssumption DEF Ticket, NoTicket

\* The tables after the statement of a slot that holds a ticket.
LEMMA StatementTypes ==
    ASSUME TypeOK, NEW w \in Workers, ticket[w] \in Ticket
    PROVE  /\ StatementJob(w) \in [Jobs -> JobRow]
           /\ DOMAIN StatementRun(w) \subseteq Ticket
           /\ StatementRun(w) \in [DOMAIN StatementRun(w) -> RunState]
<1>1. ticket[w].job \in Jobs /\ ticket[w].n \in Nat
  BY TicketTypes
<1>2. job[ticket[w].job] \in JobRow /\ sess[w] \in Session
  BY <1>1 DEF TypeOK
<1>3. JobWrite(w) \in JobRow
  BY <1>1, <1>2, RowTypes DEF JobWrite
<1>4. StatementJob(w) \in [Jobs -> JobRow]
  BY <1>1, <1>3 DEF StatementJob, TypeOK
<1>5. \A state \in RunState :
        /\ DOMAIN SetRun(ticket[w], state) \subseteq Ticket
        /\ SetRun(ticket[w], state) \in [DOMAIN SetRun(ticket[w], state) -> RunState]
  BY DEF SetRun, TypeOK
<1>6. "running" \in RunState /\ "finished" \in RunState /\ "error" \in RunState
  BY DEF RunState
<1>7. /\ DOMAIN StatementRun(w) \subseteq Ticket
      /\ StatementRun(w) \in [DOMAIN StatementRun(w) -> RunState]
  BY <1>5, <1>6 DEF StatementRun, TypeOK
<1> QED
  BY <1>4, <1>7

\* Where a slot can be.
LEMMA PcTypes ==
    /\ InRunJob \subseteq Pc
    /\ "idle" \in Pc /\ "down" \in Pc /\ "picked" \in Pc /\ "net" \in Pc
    /\ "idle" \notin InRunJob /\ "down" \notin InRunJob /\ Marking \subseteq Pc
    /\ "idle" \notin Marking /\ "down" \notin Marking
BY DEF Pc, InRunJob, Marking

\* The initial state is well typed.
LEMMA TypeInit == Init => TypeOK
<1> SUFFICES ASSUME Init PROVE TypeOK
  OBVIOUS
<1>1. job \in [Jobs -> JobRow]
  BY RowTypes, NoRowTypes DEF Init
<1>2. DOMAIN run \subseteq Ticket /\ run \in [DOMAIN run -> RunState]
  BY DEF Init
<1>3. /\ pc \in [Workers -> Pc]
      /\ ticket \in [Workers -> Ticket \union {NoTicket}]
      /\ \A w \in Workers : ticket[w] = NoTicket <=> pc[w] \in {"idle", "down"}
  BY PcTypes DEF Init
<1>4. sess \in [Workers -> Session] /\ snap \in [Workers -> [Jobs -> Session]]
  BY NoRowTypes DEF Init
<1>5. /\ elapsed \in [Workers -> 0 .. Timeout]
      /\ swarms \in [Workers -> SUBSET Ticket]
      /\ crashes \in 0 .. MaxCrashes /\ faults \in 0 .. MaxFaults
  BY WorkerAssumption DEF Init
<1> QED
  BY <1>1, <1>2, <1>3, <1>4, <1>5 DEF TypeOK

\* Every step keeps the types.
LEMMA TypeStep == TypeOK /\ [Next]_vars => TypeOK'
<1> SUFFICES ASSUME TypeOK, [Next]_vars PROVE TypeOK'
  OBVIOUS
<1> USE PcTypes, TicketTypes, NoRowTypes
<1>s. \A w \in Workers : pc[w] \in Pc /\ pc[w] \notin {"idle", "down"} =>
         ticket[w] \in Ticket /\ ticket[w].job \in Jobs
  BY DEF TypeOK
<1>j. \A j \in Jobs : job[j] \in JobRow
  BY DEF TypeOK
<1>1. ASSUME NEW j \in Jobs, Enqueue(j) PROVE TypeOK'
  <2>1. Rows \subseteq Jobs
    BY DEF Rows
  <2>2. Cardinality(Rows) \in Nat
    BY <2>1, JobQueueAssumption, FS_Subset, FS_CardinalityType
  <2>3. NewRow(Cardinality(Rows)) \in JobRow
    BY <1>j, <2>2, RowTypes
  <2> QED
    BY <1>1, <2>3 DEF Enqueue, TypeOK
<1>2. ASSUME NEW w \in Workers, NEW j \in Jobs, Take(w, j) PROVE TypeOK'
  <2>1. MarkClaimed(job[j]) \in JobRow
    BY <1>j, NoRowTypes, RowTypes
  <2>2. job[j].attempts + 1 \in Nat
    BY <1>j DEF JobRow
  <2>3. "claimed" \in Pc
    BY DEF Pc, InRunJob
  <2> QED
    BY <1>2, <2>1, <2>2, <2>3 DEF Take, TypeOK
<1>3. ASSUME NEW w \in Workers, Slot(w) PROVE TypeOK'
  <2>1. CASE ClaimPostgres(w)
    BY <1>2, <2>1 DEF ClaimPostgres
  <2>2. CASE PickCandidate(w)
    BY <2>2 DEF PickCandidate, TypeOK
  <2>3. CASE ClaimGuarded(w)
    BY <1>2, <1>s, <2>3 DEF ClaimGuarded, TypeOK
  <2>4. CASE LoseRace(w)
    BY <2>4, WorkerAssumption DEF LoseRace, Release, TypeOK
  <2>5. CASE NoClient(w)
    BY <2>5 DEF NoClient, GoTo, TypeOK, Pc, InRunJob
  <2>6. CASE StartRun(w)
    BY <2>6, <1>s DEF StartRun, GoTo, TypeOK, Pc, InRunJob
  <2>7. CASE CreateRun(w)
    BY <2>7, <1>s, StatementTypes DEF CreateRun, Commit, GoTo, TypeOK, Pc, InRunJob
  <2>8. CASE Attach(w)
    BY <2>8, <1>s, StatementTypes DEF Attach, Commit, GoTo, TypeOK, Pc, InRunJob
  <2>9. CASE Observe(w)
    BY <2>9 DEF Observe, GoTo, TypeOK, Pc, InRunJob
  <2>10. CASE SetRunReport(w)
    BY <2>10, <1>s, StatementTypes DEF SetRunReport, Commit, GoTo, TypeOK, Pc, InRunJob
  <2>11. CASE SetRunError(w)
    BY <2>11, <1>s, StatementTypes DEF SetRunError, Commit, GoTo, TypeOK, Pc, InRunJob
  <2>12. CASE LoadJob(w)
    <3>1. Loaded(job[ticket[w].job]) \in Session
      BY <2>12, <1>s, <1>j, NoRowTypes, RowTypes DEF LoadJob, Marking, TypeOK
    <3> QED
      BY <2>12, <3>1 DEF LoadJob, TypeOK
  <2>13. CASE CommitMark(w)
    <3>1. ticket[w] \in Ticket
      BY <2>13, <1>s DEF CommitMark, TypeOK
    <3>2. /\ job' \in [Jobs -> JobRow]
          /\ DOMAIN run' \subseteq Ticket
          /\ run' \in [DOMAIN run' -> RunState]
      BY <2>13, <3>1, StatementTypes DEF CommitMark, Commit
    <3> QED
      BY <2>13, <3>2, WorkerAssumption DEF CommitMark, Release, TypeOK
  <2> QED
    BY <1>3, <2>1, <2>2, <2>3, <2>4, <2>5, <2>6, <2>7, <2>8, <2>9, <2>10, <2>11, <2>12, <2>13
    DEF Slot
<1>4. ASSUME NEW w \in Workers, Reaper(w) PROVE TypeOK'
  <2>1. CASE ReapRead(w)
    <3>1. \A j \in Jobs : Loaded(job[j]) \in Session
      BY <1>j, NoRowTypes, RowTypes
    <3> QED
      BY <2>1, <3>1 DEF ReapRead, TypeOK
  <2>2. CASE ReapCommit(w)
    <3>1. \A j \in Jobs : Reap(job[j], snap[w][j]) \in JobRow
      BY <1>j, RowTypes DEF TypeOK
    <3> QED
      BY <2>2, <3>1, <1>j DEF ReapCommit, EndSweep, TypeOK
  <2> QED
    BY <1>4, <2>1, <2>2 DEF Reaper
<1>5. ASSUME NEW w \in Workers, Fault(w) PROVE TypeOK'
  <2>1. CASE ClaimAnswerLost(w)
    <3>1. \A j \in Jobs : MarkClaimed(job[j]) \in JobRow
      BY <1>j, NoRowTypes, RowTypes
    <3>2. job' \in [Jobs -> JobRow]
      BY <2>1, <3>1, <1>s DEF ClaimAnswerLost, TypeOK
    <3>3. faults' \in 0 .. MaxFaults
      BY <2>1, WorkerAssumption DEF ClaimAnswerLost, TypeOK
    <3> QED
      BY <2>1, <3>2, <3>3, WorkerAssumption DEF ClaimAnswerLost, Release, TypeOK
  <2>2. CASE RunJobRaises(w)
    <3>1. faults' \in 0 .. MaxFaults
      BY <2>2, WorkerAssumption DEF RunJobRaises, TypeOK
    <3>2. /\ job' \in [Jobs -> JobRow]
          /\ DOMAIN run' \subseteq Ticket
          /\ run' \in [DOMAIN run' -> RunState]
      BY <2>2, <1>s, StatementTypes DEF RunJobRaises, CommitOrNot, Commit, TypeOK
    <3> QED
      BY <2>2, <3>1, <3>2, WorkerAssumption DEF RunJobRaises, ToNet, GoTo, TypeOK
  <2>3. CASE NetRaises(w)
    <3>1. faults' \in 0 .. MaxFaults
      BY <2>3, WorkerAssumption DEF NetRaises, TypeOK
    <3>2. /\ job' \in [Jobs -> JobRow]
          /\ DOMAIN run' \subseteq Ticket
          /\ run' \in [DOMAIN run' -> RunState]
      BY <2>3, <1>s, StatementTypes DEF NetRaises, CommitOrNot, Commit, TypeOK
    <3> QED
      BY <2>3, <3>1, <3>2, WorkerAssumption DEF NetRaises, Release, TypeOK
  <2>4. CASE ReapRaises(w)
    <3>1. faults' \in 0 .. MaxFaults
      BY <2>4, WorkerAssumption DEF ReapRaises, TypeOK
    <3> QED
      BY <2>4, <3>1 DEF ReapRaises, EndSweep, TypeOK
  <2>5. CASE Crash(w)
    <3>1. crashes' \in 0 .. MaxCrashes
      BY <2>5, WorkerAssumption DEF Crash, TypeOK
    <3> QED
      BY <2>5, <3>1, WorkerAssumption DEF Crash, TypeOK
  <2> QED
    BY <1>5, <2>1, <2>2, <2>3, <2>4, <2>5 DEF Fault
<1>6. ASSUME NEW w \in Workers, JobTimeout(w) PROVE TypeOK'
  <2>1. /\ job' \in [Jobs -> JobRow]
        /\ DOMAIN run' \subseteq Ticket
        /\ run' \in [DOMAIN run' -> RunState]
    BY <1>6, <1>s, StatementTypes DEF JobTimeout, CommitOrNot, Commit, TypeOK
  <2>2. swarms' \in [Workers -> SUBSET Ticket]
    BY <1>6 DEF JobTimeout, TypeOK
  <2> QED
    BY <1>6, <2>1, <2>2, WorkerAssumption DEF JobTimeout, ToNet, GoTo, TypeOK
<1>7. ASSUME NEW w \in Workers, Restart(w) PROVE TypeOK'
  BY <1>7 DEF Restart, GoTo, TypeOK
<1>8. ASSUME NEW w \in Workers, NEW t \in swarms[w], SwarmEnds(w, t) PROVE TypeOK'
  BY <1>8 DEF SwarmEnds, TypeOK
<1>9. ASSUME Tick PROVE TypeOK'
  <2>1. \A j \in Jobs : Aged(job[j]) \in JobRow
    BY <1>j, NoRowTypes, RowTypes
  <2>2. elapsed' \in [Workers -> 0 .. Timeout]
    BY <1>9, WorkerAssumption DEF Tick, TypeOK
  <2> QED
    BY <1>9, <2>1, <2>2 DEF Tick, TypeOK
<1>10. CASE UNCHANGED vars
  BY <1>10 DEF vars, TypeOK
<1> QED
  BY <1>1, <1>3, <1>4, <1>5, <1>6, <1>7, <1>8, <1>9, <1>10 DEF Next

\* The variables keep their types, whatever the number of processes and faults.
THEOREM TypeCorrect == Spec => []TypeOK
BY TypeInit, TypeStep, PTL DEF Spec

-----------------------------------------------------------------------------
(* The inductive invariant.                                                *)

\* The invariant holds initially.
LEMMA InvInit == Init => IInv
<1> SUFFICES ASSUME Init PROVE IInv
  OBVIOUS
<1>1. TypeOK
  BY TypeInit
<1>2. AttemptOwnedOnce /\ \A w \in Workers : SlotInv(w)
  BY DEF Init, AttemptOwnedOnce, SlotInv, Working, InRunJob
<1>3. DoneHasReport /\ DeadLetterExhausted /\ RunLinkValid /\ \A j \in Jobs : JobInv(j)
  BY DEF Init, DoneHasReport, DeadLetterExhausted, RunLinkValid, JobInv, NoRow
<1>4. \A w \in Workers, j \in Jobs : SnapInv(w, j)
  BY DEF Init, SnapInv
<1>5. \A t \in DOMAIN run : RunInv(t)
  BY DEF Init
<1> QED
  BY <1>1, <1>2, <1>3, <1>4, <1>5 DEF IInv

\* The part of the invariant that speaks of the two tables alone.
TableInv ==
    /\ DoneHasReport
    /\ DeadLetterExhausted
    /\ RunLinkValid
    /\ \A j \in Jobs : JobInv(j)
    /\ \A t \in DOMAIN run : RunInv(t)

\* A slot that commits its statement counts no attempt, touches the run of its own
\* ticket only, and keeps the tables in order.
LEMMA StatementTables ==
    ASSUME IInv, NEW w \in Workers, Working(w), Commit(w)
    PROVE  /\ \A j \in Jobs : job'[j].attempts = job[j].attempts
           /\ DOMAIN run' \subseteq DOMAIN run \union {ticket[w]}
           /\ \A t \in DOMAIN run : t \in DOMAIN run' /\ (t # ticket[w] => run'[t] = run[t])
           /\ \A t \in DOMAIN run : run[t] = "finished" => run'[t] = "finished"
           /\ TableInv'
<1> DEFINE t0 == ticket[w]
           j0 == ticket[w].job
<1>t. /\ t0 \in Ticket /\ j0 \in Jobs /\ t0.n \in Nat
      /\ t0 = [job |-> j0, n |-> t0.n]
  BY TicketTypes DEF IInv, TypeOK, Working, InRunJob, Ticket
<1>s. SlotInv(w)
  BY DEF IInv
<1>n. t0.n \in 1 .. job[j0].attempts
  BY <1>s DEF SlotInv
<1>y. job[j0] \in JobRow /\ sess[w] \in Session /\ job \in [Jobs -> JobRow]
  BY <1>t DEF IInv, TypeOK
<1>a. job[j0].attempts \in Nat /\ sess[w].attempts \in Nat
  BY <1>y DEF JobRow, Session
<1>1. /\ \A j \in Jobs \ {j0} : job'[j] = job[j]
      /\ job'[j0] \in {job[j0], JobWrite(w)}
  BY <1>t, <1>y DEF Commit, StatementJob
<1>w. /\ JobWrite(w).attempts = job[j0].attempts
      /\ \/ JobWrite(w).run_id = job[j0].run_id
         \/ JobWrite(w).run_id = t0.n /\ pc[w] = "attach_run"
      /\ JobWrite(w).state \in {job[j0].state, "done", "queued", "failed"}
  <2>1. CASE pc[w] = "attach_run"
    <3>1. JobWrite(w) = AttachRun(job[j0], t0.n)
      BY <2>1 DEF JobWrite
    <3> QED
      BY <2>1, <3>1, <1>t, <1>y, AttachEffects
  <2>2. CASE pc[w] = "mark_done"
    <3>1. JobWrite(w) = MarkDone(job[j0], sess[w])
      BY <2>2 DEF JobWrite
    <3>2. /\ MarkDone(job[j0], sess[w]).attempts = job[j0].attempts
          /\ MarkDone(job[j0], sess[w]).run_id = job[j0].run_id
          /\ MarkDone(job[j0], sess[w]).state \in {job[j0].state, "done"}
      BY <1>t, <1>y, RowEffects
    <3> QED
      BY <3>1, <3>2
  <2>3. CASE pc[w] \notin {"attach_run", "mark_done"}
    <3>1. JobWrite(w) = MarkFailed(job[j0], sess[w])
      BY <2>3 DEF JobWrite
    <3>2. /\ MarkFailed(job[j0], sess[w]).attempts = job[j0].attempts
          /\ MarkFailed(job[j0], sess[w]).run_id = job[j0].run_id
          /\ MarkFailed(job[j0], sess[w]).state \in {job[j0].state, "queued", "failed"}
      BY <1>t, <1>y, RowEffects
    <3> QED
      BY <3>1, <3>2
  <2> QED
    BY <2>1, <2>2, <2>3
<1>2. job'[j0].attempts = job[j0].attempts
  BY <1>1, <1>w
<1>3. \A j \in Jobs : job'[j].attempts = job[j].attempts
  BY <1>1, <1>2
<1>4. /\ DOMAIN run' \subseteq DOMAIN run \union {t0}
      /\ \A t \in DOMAIN run : t \in DOMAIN run' /\ (t # t0 => run'[t] = run[t])
  BY DEF Commit, StatementRun, SetRun
<1>5. \A t \in DOMAIN run : run[t] = "finished" => run'[t] = "finished"
  <2>1. CASE pc[w] = "set_report"
    BY <2>1 DEF Commit, StatementRun, SetRun
  <2>2. CASE pc[w] = "create_run"
    BY <2>2, <1>s, <1>4 DEF SlotInv
  <2>3. CASE pc[w] = "set_error"
    BY <2>3, <1>s, <1>4 DEF SlotInv
  <2>4. CASE pc[w] \notin {"set_report", "create_run", "set_error"}
    BY <2>4 DEF Commit, StatementRun
  <2> QED
    BY <2>1, <2>2, <2>3, <2>4
<1>6. \A j \in Reported : j \in Reported'
  BY <1>4, <1>5 DEF Reported
<1>7. DoneHasReport'
  <2>1. job'[j0].state = "done" => job[j0].state = "done" \/ pc[w] = "mark_done"
    BY <1>1, <1>t, <1>y, RowEffects, AttachEffects DEF JobWrite
  <2>2. pc[w] = "mark_done" => j0 \in Reported
    BY <1>s, <1>t DEF SlotInv, Reported
  <2> QED
    BY <1>1, <1>6, <2>1, <2>2 DEF IInv, DoneHasReport
<1>8. DeadLetterExhausted'
  <2>1. SUFFICES job'[j0].state = "failed" => job[j0].attempts >= MaxAttempts
    BY <1>1, <1>3 DEF IInv, DeadLetterExhausted
  <2>2. job[j0].state = "failed" => job[j0].attempts >= MaxAttempts
    BY <1>t DEF IInv, DeadLetterExhausted
  <2>3. CASE WritesJob(w)
    <3>1. CASE pc[w] \in {"attach_run", "mark_done"}
      BY <2>2, <3>1, <1>1, <1>t, <1>y, RowEffects, AttachEffects DEF JobWrite
    <3>2. CASE pc[w] \notin {"attach_run", "mark_done"}
      <4>1. sess[w].attempts <= job[j0].attempts
        BY <2>3, <3>2, <1>s DEF WritesJob, SlotInv
      <4>2. JobWrite(w) = MarkFailed(job[j0], sess[w])
        BY <3>2 DEF JobWrite
      <4>3. \/ JobWrite(w).state \in {job[j0].state, "queued"}
            \/ sess[w].attempts >= MaxAttempts
        BY <4>2, <1>t, <1>y, RowEffects
      <4> QED
        BY <2>2, <4>1, <4>3, <1>1, <1>a, JobQueueAssumption
    <3> QED
      BY <3>1, <3>2
  <2>4. CASE ~WritesJob(w)
    BY <2>2, <2>4 DEF Commit, StatementJob
  <2> QED
    BY <2>3, <2>4
<1>9. RunLinkValid'
  <2>1. \/ job'[j0].run_id = job[j0].run_id
        \/ job'[j0].run_id = t0.n /\ pc[w] = "attach_run"
    BY <1>1, <1>w
  <2>2. pc[w] = "attach_run" => t0 \in DOMAIN run
    BY <1>s DEF SlotInv
  <2>3. t0.n <= job[j0].attempts
    BY <1>n
  <2>4. job'[j0].run_id # 0 => /\ [job |-> j0, n |-> job'[j0].run_id] \in DOMAIN run'
                               /\ job'[j0].run_id <= job'[j0].attempts
    <3>1. CASE job'[j0].run_id = job[j0].run_id
      BY <3>1, <1>2, <1>4, <1>t DEF IInv, RunLinkValid
    <3>2. CASE job'[j0].run_id = t0.n /\ pc[w] = "attach_run"
      BY <3>2, <2>2, <2>3, <1>2, <1>4, <1>t
    <3> QED
      BY <2>1, <3>1, <3>2
  <2>5. \A j \in Jobs \ {j0} : job'[j].run_id # 0 =>
           /\ [job |-> j, n |-> job'[j].run_id] \in DOMAIN run'
           /\ job'[j].run_id <= job'[j].attempts
    BY <1>1, <1>4 DEF IInv, RunLinkValid
  <2> QED
    BY <2>4, <2>5 DEF RunLinkValid
<1>10. \A j \in Jobs : JobInv(j)'
  <2>1. job[j0].attempts > 0
    BY <1>n, <1>a
  <2>2. job'[j0].state # "absent"
    <3>1. job[j0].state # "absent"
      BY <2>1, <1>t DEF IInv, JobInv
    <3> QED
      BY <3>1, <1>1, <1>w
  <2> SUFFICES ASSUME NEW j \in Jobs PROVE JobInv(j)'
    OBVIOUS
  <2>3. CASE j = j0
    BY <2>1, <2>2, <2>3, <1>2 DEF JobInv
  <2>4. CASE j # j0
    BY <2>4, <1>1 DEF IInv, JobInv
  <2> QED
    BY <2>3, <2>4
<1>11. \A t \in DOMAIN run' : RunInv(t)'
  <2>1. \A t \in DOMAIN run : t.job \in Jobs
    BY TicketTypes DEF IInv, TypeOK
  <2> QED
    BY <2>1, <1>3, <1>4, <1>n, <1>t DEF IInv, RunInv
<1> QED
  BY <1>3, <1>4, <1>5, <1>7, <1>8, <1>9, <1>10, <1>11 DEF TableInv

\* A step of slot w that claims nothing leaves the other slots' knowledge valid and
\* the tickets distinct.
LEMMA OtherSlots ==
    ASSUME IInv, NEW w \in Workers,
           \A v \in Workers \ {w} :
               pc'[v] = pc[v] /\ ticket'[v] = ticket[v] /\ sess'[v] = sess[v],
           \A j \in Jobs : job'[j].attempts = job[j].attempts,
           \/ run' = run
           \/ /\ Working(w)
              /\ DOMAIN run' \subseteq DOMAIN run \union {ticket[w]}
              /\ \A t \in DOMAIN run : t \in DOMAIN run' /\ (t # ticket[w] => run'[t] = run[t]),
           Working(w)' => Working(w) /\ ticket'[w] = ticket[w],
           SlotInv(w)'
    PROVE  /\ \A v \in Workers : SlotInv(v)'
           /\ AttemptOwnedOnce'
<1>1. \A v \in Workers : Working(v) => ticket[v] \in Ticket /\ ticket[v].job \in Jobs
  BY TicketTypes DEF IInv, TypeOK, Working, InRunJob
<1>2. ASSUME NEW v \in Workers \ {w} PROVE SlotInv(v)'
  <2>1. SlotInv(v)
    BY DEF IInv
  <2>2. pc'[v] = pc[v] /\ ticket'[v] = ticket[v] /\ sess'[v] = sess[v]
    OBVIOUS
  <2>3. CASE Working(v)
    <3>1. /\ ticket[v] \in DOMAIN run' <=> ticket[v] \in DOMAIN run
          /\ ticket[v] \in DOMAIN run => run'[ticket[v]] = run[ticket[v]]
      BY <2>3 DEF IInv, AttemptOwnedOnce
    <3>2. job'[ticket[v].job].attempts = job[ticket[v].job].attempts
      BY <1>1, <2>3
    <3> QED
      BY <2>1, <2>2, <3>1, <3>2 DEF SlotInv, Working
  <2>4. CASE ~Working(v)
    BY <2>1, <2>2, <2>4 DEF SlotInv, Working, Marking, InRunJob
  <2> QED
    BY <2>3, <2>4
<1>3. AttemptOwnedOnce'
  BY DEF IInv, AttemptOwnedOnce, Working
<1> QED
  BY <1>2, <1>3

\* A step that writes neither table keeps them in order.
LEMMA QuietTables ==
    ASSUME IInv, job' = job, run' = run
    PROVE  TableInv'
BY DEF IInv, TableInv, DoneHasReport, DeadLetterExhausted, RunLinkValid, JobInv, RunInv, Reported

\* The sessions of the sweeps stay behind the table.
LEMMA Snaps ==
    ASSUME IInv, TypeOK', \A j \in Jobs : job'[j].attempts >= job[j].attempts,
           \A v \in Workers, j \in Jobs : snap'[v][j] \in {snap[v][j], NoSession}
    PROVE  \A v \in Workers, j \in Jobs : SnapInv(v, j)'
<1> SUFFICES ASSUME NEW v \in Workers, NEW j \in Jobs, snap'[v][j] # NoSession
             PROVE  job'[j].attempts > 0 /\ snap'[v][j].attempts <= job'[j].attempts
  BY DEF SnapInv
<1>1. job[j].attempts > 0 /\ snap[v][j].attempts <= job[j].attempts /\ snap'[v][j] = snap[v][j]
  BY DEF IInv, SnapInv
<1>2. job[j].attempts \in Nat /\ job'[j].attempts \in Nat /\ snap[v][j].attempts \in Nat
  BY DEF IInv, TypeOK, JobRow, Session
<1> QED
  BY <1>1, <1>2

\* The other slots are where they were.
OthersKeep(w) ==
    \A v \in Workers \ {w} : pc'[v] = pc[v] /\ ticket'[v] = ticket[v] /\ sess'[v] = sess[v]

\* Sweeps end but none begins.
SnapsKept == \A v \in Workers, j \in Jobs : snap'[v][j] \in {snap[v][j], NoSession}

\* A step of slot w that writes neither table.
LEMMA QuietStep ==
    ASSUME IInv, TypeOK', NEW w \in Workers, OthersKeep(w), SnapsKept,
           job' = job, run' = run,
           Working(w)' => Working(w) /\ ticket'[w] = ticket[w],
           SlotInv(w)'
    PROVE  IInv'
<1>1. \A j \in Jobs : job'[j].attempts \in Nat
  BY DEF TypeOK, JobRow
<1>2. TableInv'
  BY QuietTables
<1>3. (\A v \in Workers : SlotInv(v)') /\ AttemptOwnedOnce'
  BY OtherSlots DEF OthersKeep
<1>4. \A v \in Workers, j \in Jobs : SnapInv(v, j)'
  BY <1>1, Snaps DEF SnapsKept
<1> QED
  BY <1>2, <1>3, <1>4 DEF IInv, TableInv

\* A step of slot w that commits its statement.
LEMMA StatementStep ==
    ASSUME IInv, TypeOK', NEW w \in Workers, OthersKeep(w), SnapsKept,
           Working(w), Commit(w),
           Working(w)' => ticket'[w] = ticket[w],
           SlotInv(w)'
    PROVE  IInv'
<1>1. \A j \in Jobs : job'[j].attempts \in Nat
  BY DEF TypeOK, JobRow
<1>2. /\ \A j \in Jobs : job'[j].attempts = job[j].attempts
      /\ DOMAIN run' \subseteq DOMAIN run \union {ticket[w]}
      /\ \A t \in DOMAIN run : t \in DOMAIN run' /\ (t # ticket[w] => run'[t] = run[t])
      /\ TableInv'
  BY StatementTables
<1>3. (\A v \in Workers : SlotInv(v)') /\ AttemptOwnedOnce'
  BY <1>2, OtherSlots DEF OthersKeep
<1>4. \A v \in Workers, j \in Jobs : SnapInv(v, j)'
  BY <1>1, <1>2, Snaps DEF SnapsKept
<1> QED
  BY <1>2, <1>3, <1>4 DEF IInv, TableInv

\* A step whose slot works on nothing afterwards, its statement committed or not.
LEMMA LeavingStep ==
    ASSUME IInv, TypeOK', NEW w \in Workers, OthersKeep(w), SnapsKept,
           Working(w), CommitOrNot(w), pc'[w] \in {"idle", "down", "net"},
           pc'[w] = "net" => ticket'[w] = ticket[w],
           sess'[w] = NoSession
    PROVE  IInv'
<1>1. Working(w)' => ticket'[w] = ticket[w]
  BY DEF Working, InRunJob
<1>2. SlotInv(w)'
  <2>1. CASE pc'[w] = "net"
    <3>1. ticket[w].job \in Jobs
      BY TicketTypes DEF IInv, TypeOK, Working, InRunJob
    <3>2. \A j \in Jobs : job'[j].attempts = job[j].attempts
      BY StatementTables DEF CommitOrNot
    <3>3. ticket[w].n \in 1 .. job[ticket[w].job].attempts
      BY DEF IInv, SlotInv
    <3> QED
      BY <2>1, <3>1, <3>2, <3>3 DEF SlotInv
  <2>2. CASE pc'[w] \in {"idle", "down"}
    BY <2>2 DEF SlotInv, Working, InRunJob
  <2> QED
    BY <2>1, <2>2
<1>3. CASE Commit(w)
  BY <1>1, <1>2, <1>3, StatementStep
<1>4. CASE UNCHANGED <<job, run>>
  BY <1>1, <1>2, <1>4, QuietStep
<1> QED
  BY <1>3, <1>4 DEF CommitOrNot

\* A claim of a QUEUED row, with slot w left working on it or on nothing.
LEMMA ClaimStep ==
    ASSUME IInv, TypeOK', NEW w \in Workers, OthersKeep(w), SnapsKept,
           ~Working(w), NEW j \in Jobs, job[j].state = "queued",
           job' = [job EXCEPT ![j] = MarkClaimed(@)], run' = run,
           \/ /\ pc'[w] = "claimed" /\ sess'[w] = sess[w]
              /\ ticket'[w] = [job |-> j, n |-> job[j].attempts + 1]
           \/ pc'[w] = "idle" /\ sess'[w] = NoSession
    PROVE  IInv'
<1>1. /\ job \in [Jobs -> JobRow] /\ job' \in [Jobs -> JobRow]
      /\ \A k \in Jobs : job[k].attempts \in Nat /\ job'[k].attempts \in Nat
  BY DEF IInv, TypeOK, JobRow
<1>2. /\ job'[j].attempts = job[j].attempts + 1
      /\ job'[j].run_id = job[j].run_id
      /\ job'[j].state = "running"
      /\ \A k \in Jobs \ {j} : job'[k] = job[k]
  BY <1>1, ClaimEffects
<1>3. \A k \in Jobs : job'[k].attempts >= job[k].attempts
  BY <1>1, <1>2
<1>4. TableInv'
  <2>1. Reported' = Reported
    BY DEF Reported
  <2>2. DoneHasReport' /\ DeadLetterExhausted'
    BY <1>2, <2>1 DEF IInv, DoneHasReport, DeadLetterExhausted
  <2>3. RunLinkValid'
    <3>1. \A k \in Jobs : job'[k].run_id = job[k].run_id /\ job[k].run_id \in Nat
      BY <1>1, <1>2 DEF JobRow
    <3> QED
      BY <1>1, <1>3, <3>1 DEF IInv, RunLinkValid
  <2>4. \A k \in Jobs : JobInv(k)'
    BY <1>1, <1>2 DEF IInv, JobInv
  <2>5. \A t \in DOMAIN run' : RunInv(t)'
    <3>1. \A t \in DOMAIN run : t.job \in Jobs /\ t.n \in Nat
      BY TicketTypes DEF IInv, TypeOK
    <3> QED
      BY <1>1, <1>3, <3>1 DEF IInv, RunInv
  <2> QED
    BY <2>2, <2>3, <2>4, <2>5 DEF TableInv
<1>5. \A v \in Workers : Working(v) => ticket[v] \in Ticket /\ ticket[v].job \in Jobs
                                   /\ ticket[v].n \in 1 .. job[ticket[v].job].attempts
  BY TicketTypes DEF IInv, TypeOK, Working, InRunJob, SlotInv
<1>6. ASSUME NEW v \in Workers \ {w} PROVE SlotInv(v)'
  <2>1. SlotInv(v) /\ pc'[v] = pc[v] /\ ticket'[v] = ticket[v] /\ sess'[v] = sess[v]
    BY DEF IInv, OthersKeep
  <2>2. CASE Working(v)
    <3>1. /\ job[ticket[v].job].attempts \in Nat /\ job'[ticket[v].job].attempts \in Nat
          /\ job'[ticket[v].job].attempts >= job[ticket[v].job].attempts
          /\ sess[v].attempts \in Nat
      BY <1>1, <1>3, <1>5, <2>2 DEF IInv, TypeOK, Session
    <3> QED
      BY <2>1, <2>2, <3>1, <1>5 DEF SlotInv
  <2>3. CASE ~Working(v)
    BY <2>1, <2>3 DEF SlotInv, Working, Marking, InRunJob
  <2> QED
    BY <2>2, <2>3
<1>7. SlotInv(w)' /\ (Working(w)' => \A v \in Workers \ {w} : Working(v) => ticket'[w] # ticket[v])
  <2>1. CASE pc'[w] = "idle" /\ sess'[w] = NoSession
    BY <2>1 DEF SlotInv, Working, InRunJob
  <2>2. CASE /\ pc'[w] = "claimed" /\ sess'[w] = sess[w]
             /\ ticket'[w] = [job |-> j, n |-> job[j].attempts + 1]
    <3>1. sess[w] = NoSession
      BY DEF IInv, SlotInv, Working, Marking, InRunJob
    <3>2. ticket'[w] \notin DOMAIN run
      <4>1. SUFFICES ASSUME ticket'[w] \in DOMAIN run PROVE FALSE
        OBVIOUS
      <4>2. ticket'[w].n \in 1 .. job[ticket'[w].job].attempts
        BY <4>1 DEF IInv, RunInv
      <4> QED
        BY <2>2, <4>2, <1>1
    <3>3. SlotInv(w)'
      BY <2>2, <3>1, <3>2, <1>1, <1>2 DEF SlotInv
    <3>4. \A v \in Workers \ {w} : Working(v) => ticket'[w] # ticket[v]
      BY <2>2, <1>1, <1>5
    <3> QED
      BY <3>3, <3>4
  <2> QED
    BY <2>1, <2>2
<1>8. AttemptOwnedOnce'
  <2>1. \A v \in Workers \ {w} : Working(v)' => Working(v) /\ ticket'[v] = ticket[v]
    BY DEF OthersKeep, Working
  <2> QED
    BY <2>1, <1>7 DEF IInv, AttemptOwnedOnce
<1>9. \A v \in Workers, k \in Jobs : SnapInv(v, k)'
  BY <1>3, Snaps DEF SnapsKept
<1> QED
  BY <1>4, <1>6, <1>7, <1>8, <1>9 DEF IInv, TableInv

\* A step of nobody's slot: it may rewrite rows, but neither their attempts nor
\* their run, nor may it make them DONE or, with attempts left, FAILED.
LEMMA BystanderStep ==
    ASSUME IInv, TypeOK', UNCHANGED <<run, pc, ticket, sess>>,
           \A j \in Jobs :
               /\ job'[j].attempts = job[j].attempts
               /\ job'[j].run_id = job[j].run_id
               /\ job'[j].state = "done" => job[j].state = "done"
               /\ job'[j].state = "failed" =>
                     job[j].state = "failed" \/ job[j].attempts >= MaxAttempts
               /\ job'[j].state \in {job[j].state, "queued"} \/ job[j].attempts > 0
               /\ job'[j].state = "absent" => job[j].state = "absent",
           \A v \in Workers, j \in Jobs : SnapInv(v, j)'
    PROVE  IInv'
<1>1. Reported' = Reported
  BY DEF Reported
<1>2. DoneHasReport' /\ DeadLetterExhausted' /\ RunLinkValid'
  BY <1>1 DEF IInv, DoneHasReport, DeadLetterExhausted, RunLinkValid
<1>3. \A j \in Jobs : JobInv(j)'
  BY DEF IInv, JobInv
<1>4. \A t \in DOMAIN run' : RunInv(t)'
  BY TicketTypes DEF IInv, TypeOK, RunInv
<1>5. AttemptOwnedOnce'
  BY DEF IInv, AttemptOwnedOnce, Working
<1>6. \A v \in Workers : SlotInv(v)'
  <2> SUFFICES ASSUME NEW v \in Workers PROVE SlotInv(v)'
    OBVIOUS
  <2>1. Working(v) => ticket[v].job \in Jobs
    BY TicketTypes DEF IInv, TypeOK, Working, InRunJob
  <2>2. pc[v] \in Marking => Working(v)
    BY DEF Marking, Working, InRunJob
  <2> QED
    BY <2>1, <2>2 DEF IInv, SlotInv, Working
<1> QED
  BY <1>2, <1>3, <1>4, <1>5, <1>6 DEF IInv

\* What the commit of a sweep does to the rows.
LEMMA SweptRows ==
    ASSUME IInv, NEW w \in Workers, ReapCommit(w)
    PROVE  \A j \in Jobs :
               /\ job'[j].attempts = job[j].attempts
               /\ job'[j].run_id = job[j].run_id
               /\ job'[j].state \in {job[j].state, "queued", "failed"}
               /\ job'[j].state # job[j].state => job[j].attempts > 0
               /\ job'[j].state = "failed" =>
                     job[j].state = "failed" \/ job[j].attempts >= MaxAttempts
<1> SUFFICES ASSUME NEW j \in Jobs
             PROVE  /\ job'[j].attempts = job[j].attempts
                    /\ job'[j].run_id = job[j].run_id
                    /\ job'[j].state \in {job[j].state, "queued", "failed"}
                    /\ job'[j].state # job[j].state => job[j].attempts > 0
                    /\ job'[j].state = "failed" =>
                          job[j].state = "failed" \/ job[j].attempts >= MaxAttempts
  OBVIOUS
<1>1. job'[j] = IF snap[w][j] # NoSession THEN Reap(job[j], snap[w][j]) ELSE job[j]
  BY DEF ReapCommit, Sweeping
<1>2. CASE snap[w][j] = NoSession
  BY <1>1, <1>2
<1>3. CASE snap[w][j] # NoSession
  <2> DEFINE new == MarkFailed(job[j], snap[w][j])
  <2>1. snap[w][j] \in Session /\ job[j] \in JobRow /\ job[j].attempts \in Nat
    BY DEF IInv, TypeOK, JobRow
  <2>2. job'[j] = new
    BY <1>1, <1>3, <2>1, RowEffects
  <2>3. /\ new.attempts = job[j].attempts
        /\ new.run_id = job[j].run_id
        /\ new.state \in {job[j].state, "queued", "failed"}
        /\ \/ new.state \in {job[j].state, "queued"}
           \/ snap[w][j].attempts >= MaxAttempts
    BY <2>1, RowEffects
  <2>4. job[j].attempts > 0 /\ snap[w][j].attempts <= job[j].attempts
    BY <1>3 DEF IInv, SnapInv
  <2>5. snap[w][j].attempts >= MaxAttempts => job[j].attempts >= MaxAttempts
    BY <2>1, <2>4, JobQueueAssumption DEF Session
  <2> HIDE DEF new
  <2> QED
    BY <2>2, <2>3, <2>4, <2>5
<1> QED
  BY <1>2, <1>3

\* Every step of the specification preserves the invariant.
LEMMA InvStep == IInv /\ [Next]_vars => IInv'
<1> SUFFICES ASSUME IInv, [Next]_vars PROVE IInv'
  OBVIOUS
<1>t. TypeOK /\ TypeOK'
  BY TypeStep DEF IInv
<1>j. \A j \in Jobs : job[j] \in JobRow /\ job[j].attempts \in Nat
  BY <1>t DEF TypeOK, JobRow
<1>s. \A w \in Workers : SlotInv(w)
  BY DEF IInv
<1>1. ASSUME NEW j \in Jobs, Enqueue(j) PROVE IInv'
  <2>1. \A k \in Jobs : job'[k] = IF k = j THEN NewRow(Cardinality(Rows)) ELSE job[k]
    BY <1>1, <1>t DEF Enqueue, TypeOK
  <2>2. /\ NewRow(Cardinality(Rows)).attempts = 0
        /\ NewRow(Cardinality(Rows)).run_id = 0
        /\ NewRow(Cardinality(Rows)).state = "queued"
    BY DEF NewRow, NoRow
  <2>3. job[j].attempts = 0 /\ job[j].run_id = 0
    BY <1>1 DEF Enqueue, IInv, JobInv
  <2>4. \A v \in Workers, k \in Jobs : SnapInv(v, k)'
    BY <1>1, <1>t, <2>1, <2>2, <2>3 DEF Enqueue, IInv, SnapInv
  <2> QED
    BY <1>1, <1>t, <2>1, <2>2, <2>3, <2>4, BystanderStep DEF Enqueue
<1>2. ASSUME NEW w \in Workers, Slot(w) PROVE IInv'
  <2>1. CASE ClaimPostgres(w)
    <3>1. PICK j \in Jobs : Oldest(j) /\ Take(w, j)
      BY <2>1 DEF ClaimPostgres
    <3>2. job[j].state = "queued"
      BY <3>1 DEF Oldest, Queued
    <3>3. ~Working(w)
      BY <2>1 DEF ClaimPostgres, Working, InRunJob
    <3>4. OthersKeep(w) /\ SnapsKept
      BY <3>1, <1>t DEF Take, OthersKeep, SnapsKept, TypeOK
    <3> QED
      BY <3>1, <3>2, <3>3, <3>4, <1>t, ClaimStep DEF Take, TypeOK
  <2>2. CASE PickCandidate(w)
    BY <2>2, <1>t, <1>s, QuietStep
    DEF PickCandidate, OthersKeep, SnapsKept, TypeOK, SlotInv, Working, InRunJob, Marking
  <2>3. CASE ClaimGuarded(w)
    <3>1. ticket[w].job \in Jobs
      BY <2>3, <1>t, TicketTypes DEF ClaimGuarded, TypeOK
    <3>2. ~Working(w)
      BY <2>3 DEF ClaimGuarded, Working, InRunJob
    <3>3. OthersKeep(w) /\ SnapsKept
      BY <2>3, <1>t DEF ClaimGuarded, Take, OthersKeep, SnapsKept, TypeOK
    <3> QED
      BY <2>3, <3>1, <3>2, <3>3, <1>t, ClaimStep DEF ClaimGuarded, Take, TypeOK
  <2>4. CASE LoseRace(w)
    BY <2>4, <1>t, QuietStep
    DEF LoseRace, Release, OthersKeep, SnapsKept, TypeOK, SlotInv, Working, InRunJob
  <2>5. CASE NoClient(w)
    BY <2>5, <1>t, <1>s, QuietStep
    DEF NoClient, GoTo, OthersKeep, SnapsKept, TypeOK, SlotInv, Working, InRunJob, Marking
  <2>6. CASE StartRun(w)
    BY <2>6, <1>t, <1>s, QuietStep
    DEF StartRun, GoTo, OthersKeep, SnapsKept, TypeOK, SlotInv, Working, InRunJob, Marking
  <2>9. CASE Observe(w)
    BY <2>9, <1>t, <1>s, QuietStep
    DEF Observe, GoTo, OthersKeep, SnapsKept, TypeOK, SlotInv, Working, InRunJob, Marking
  <2>a. ASSUME Commit(w), ticket[w] \in Ticket
        PROVE  /\ pc[w] = "create_run" => ticket[w] \in DOMAIN run' /\ run'[ticket[w]] = "running"
               /\ pc[w] = "set_report" => ticket[w] \in DOMAIN run' /\ run'[ticket[w]] = "finished"
               /\ pc[w] = "attach_run" => run' = run
               /\ Working(w) => job'[ticket[w].job].attempts = job[ticket[w].job].attempts
    <3>1. Working(w) => \A j \in Jobs : job'[j].attempts = job[j].attempts
      BY <2>a, StatementTables
    <3>2. ticket[w].job \in Jobs
      BY <2>a, TicketTypes
    <3> QED
      BY <2>a, <3>1, <3>2 DEF Commit, StatementRun, SetRun
  <2>7. CASE CreateRun(w)
    <3>1. Working(w) /\ ticket[w] \in Ticket
      BY <2>7, <1>t DEF CreateRun, Working, InRunJob, TypeOK
    <3>2. SlotInv(w)'
      BY <2>7, <2>a, <3>1, <1>t, <1>s
      DEF CreateRun, GoTo, TypeOK, SlotInv, Working, InRunJob, Marking
    <3> QED
      BY <2>7, <3>1, <3>2, <1>t, StatementStep
      DEF CreateRun, GoTo, OthersKeep, SnapsKept, TypeOK
  <2>8. CASE Attach(w)
    <3>1. Working(w) /\ ticket[w] \in Ticket
      BY <2>8, <1>t DEF Attach, Working, InRunJob, TypeOK
    <3>2. SlotInv(w)'
      BY <2>8, <2>a, <3>1, <1>t, <1>s
      DEF Attach, GoTo, TypeOK, SlotInv, Working, InRunJob, Marking
    <3> QED
      BY <2>8, <3>1, <3>2, <1>t, StatementStep
      DEF Attach, GoTo, OthersKeep, SnapsKept, TypeOK
  <2>10. CASE SetRunReport(w)
    <3>1. Working(w) /\ ticket[w] \in Ticket
      BY <2>10, <1>t DEF SetRunReport, Working, InRunJob, TypeOK
    <3>2. SlotInv(w)'
      BY <2>10, <2>a, <3>1, <1>t, <1>s
      DEF SetRunReport, GoTo, TypeOK, SlotInv, Working, InRunJob, Marking
    <3> QED
      BY <2>10, <3>1, <3>2, <1>t, StatementStep
      DEF SetRunReport, GoTo, OthersKeep, SnapsKept, TypeOK
  <2>11. CASE SetRunError(w)
    <3>1. Working(w) /\ ticket[w] \in Ticket
      BY <2>11, <1>t DEF SetRunError, Working, InRunJob, TypeOK
    <3>2. SlotInv(w)'
      BY <2>11, <2>a, <3>1, <1>t, <1>s
      DEF SetRunError, GoTo, TypeOK, SlotInv, Working, InRunJob, Marking
    <3> QED
      BY <2>11, <3>1, <3>2, <1>t, StatementStep
      DEF SetRunError, GoTo, OthersKeep, SnapsKept, TypeOK
  <2>12. CASE LoadJob(w)
    <3>1. Working(w) /\ ticket[w].job \in Jobs
      BY <2>12, <1>t, TicketTypes DEF LoadJob, Working, InRunJob, Marking, TypeOK
    <3>2. Loaded(job[ticket[w].job]).attempts = job[ticket[w].job].attempts
      BY <3>1, <1>j, ClaimEffects
    <3>3. SlotInv(w)'
      BY <2>12, <3>1, <3>2, <1>t, <1>s, <1>j DEF LoadJob, TypeOK, SlotInv, Working
    <3> QED
      BY <2>12, <3>1, <3>3, <1>t, QuietStep
      DEF LoadJob, OthersKeep, SnapsKept, TypeOK, Working
  <2>13. CASE CommitMark(w)
    <3>1. Working(w)
      BY <2>13 DEF CommitMark, Working, InRunJob, Marking
    <3> QED
      BY <2>13, <3>1, <1>t, LeavingStep
      DEF CommitMark, CommitOrNot, Release, OthersKeep, SnapsKept, TypeOK
  <2> QED
    BY <1>2, <2>1, <2>2, <2>3, <2>4, <2>5, <2>6, <2>7, <2>8, <2>9, <2>10, <2>11, <2>12, <2>13
    DEF Slot
<1>3. ASSUME NEW w \in Workers, ReapRead(w) PROVE IInv'
  <2>1. \A j \in StuckJobs : job[j].attempts > 0
    BY DEF IInv, JobInv, StuckJobs, Stuck
  <2>2. \A j \in Jobs : Loaded(job[j]).attempts = job[j].attempts
    BY <1>j, ClaimEffects
  <2>3. ASSUME NEW v \in Workers, NEW j \in Jobs PROVE SnapInv(v, j)'
    <3>1. CASE v = w
      BY <1>3, <1>t, <1>j, <2>1, <2>2, <3>1 DEF ReapRead, SnapInv, TypeOK
    <3>2. CASE v # w
      BY <1>3, <1>t, <3>2 DEF ReapRead, IInv, SnapInv, TypeOK
    <3> QED
      BY <3>1, <3>2
  <2> QED
    BY <1>3, <1>t, <2>3, BystanderStep DEF ReapRead
<1>4. ASSUME NEW w \in Workers, ReapCommit(w) PROVE IInv'
  <2>2. \A j \in Jobs : /\ job'[j].attempts = job[j].attempts
                        /\ job'[j].run_id = job[j].run_id
                        /\ job'[j].state \in {job[j].state, "queued", "failed"}
                        /\ job'[j].state # job[j].state => job[j].attempts > 0
                        /\ job'[j].state = "failed" =>
                              job[j].state = "failed" \/ job[j].attempts >= MaxAttempts
    BY <1>4, SweptRows
  <2>3. \A v \in Workers, j \in Jobs : SnapInv(v, j)'
    <3>1. \A j \in Jobs : job'[j].attempts >= job[j].attempts
      BY <2>2, <1>j
    <3>2. \A v \in Workers, j \in Jobs : snap'[v][j] \in {snap[v][j], NoSession}
      BY <1>4, <1>t DEF ReapCommit, EndSweep, TypeOK
    <3> QED
      BY <1>t, <3>1, <3>2, Snaps
  <2>4. UNCHANGED <<run, pc, ticket, sess>>
    BY <1>4 DEF ReapCommit
  <2> QED
    BY <1>t, <2>2, <2>3, <2>4, BystanderStep
<1>5. ASSUME NEW w \in Workers, Fault(w) PROVE IInv'
  <2>1. CASE ClaimAnswerLost(w)
    <3>1. PICK j \in Jobs : job[j].state = "queued" /\ job' = [job EXCEPT ![j] = MarkClaimed(@)]
      BY <2>1, <1>t, TicketTypes DEF ClaimAnswerLost, Oldest, Queued, TypeOK
    <3>2. ~Working(w)
      BY <2>1 DEF ClaimAnswerLost, Working, InRunJob
    <3> QED
      BY <2>1, <3>1, <3>2, <1>t, ClaimStep
      DEF ClaimAnswerLost, Release, OthersKeep, SnapsKept, TypeOK
  <2>2. CASE RunJobRaises(w)
    BY <2>2, <1>t, LeavingStep
    DEF RunJobRaises, ToNet, GoTo, OthersKeep, SnapsKept, TypeOK, Working
  <2>3. CASE NetRaises(w)
    BY <2>3, <1>t, LeavingStep
    DEF NetRaises, Release, OthersKeep, SnapsKept, TypeOK, Working
  <2>4. CASE ReapRaises(w)
    <3>1. \A v \in Workers, j \in Jobs : SnapInv(v, j)'
      BY <2>4, <1>t, <1>j, Snaps DEF ReapRaises, EndSweep, TypeOK
    <3> QED
      BY <2>4, <3>1, <1>t, BystanderStep DEF ReapRaises
  <2>5. CASE Crash(w)
    <3>1. CASE Working(w)
      BY <2>5, <3>1, <1>t, LeavingStep
      DEF Crash, CommitOrNot, OthersKeep, SnapsKept, TypeOK
    <3>2. CASE ~Working(w)
      BY <2>5, <3>2, <1>t, QuietStep
      DEF Crash, OthersKeep, SnapsKept, TypeOK, SlotInv, Working, InRunJob
    <3> QED
      BY <3>1, <3>2
  <2> QED
    BY <1>5, <2>1, <2>2, <2>3, <2>4, <2>5 DEF Fault
<1>6. ASSUME NEW w \in Workers, JobTimeout(w) PROVE IInv'
  BY <1>6, <1>t, LeavingStep
  DEF JobTimeout, ToNet, GoTo, OthersKeep, SnapsKept, TypeOK, Working
<1>7. ASSUME NEW w \in Workers, Restart(w) PROVE IInv'
  BY <1>7, <1>t, <1>s, QuietStep
  DEF Restart, GoTo, OthersKeep, SnapsKept, TypeOK, SlotInv, Working, InRunJob, Marking
<1>8. ASSUME NEW w \in Workers, NEW t \in swarms[w], SwarmEnds(w, t) PROVE IInv'
  <2>1. \A v \in Workers, j \in Jobs : SnapInv(v, j)'
    BY <1>8 DEF SwarmEnds, IInv, SnapInv
  <2> QED
    BY <1>8, <2>1, <1>t, BystanderStep DEF SwarmEnds
<1>9. ASSUME Tick PROVE IInv'
  <2>1. \A j \in Jobs : /\ job'[j].attempts = job[j].attempts
                         /\ job'[j].run_id = job[j].run_id
                         /\ job'[j].state = job[j].state
    BY <1>9, <1>j, ClaimEffects DEF Tick
  <2>2. \A v \in Workers, j \in Jobs : SnapInv(v, j)'
    BY <1>9, <2>1 DEF Tick, IInv, SnapInv
  <2> QED
    BY <1>9, <2>1, <2>2, <1>t, BystanderStep DEF Tick
<1>10. CASE UNCHANGED vars
  BY <1>10, <1>t, BystanderStep DEF vars, IInv, SnapInv
<1> QED
  BY <1>1, <1>2, <1>3, <1>4, <1>5, <1>6, <1>7, <1>8, <1>9, <1>10 DEF Next, Reaper

\* The invariant holds in every reachable state.
THEOREM Invariance == Spec => []IInv
BY InvInit, InvStep, PTL DEF Spec

\* However rows are reaped, retried and written late, no two slots work for the
\* same attempt.
THEOREM OneOwnerPerAttempt == Spec => []AttemptOwnedOnce
<1>1. IInv => AttemptOwnedOnce
  BY DEF IInv
<1> QED
  BY <1>1, Invariance, PTL

\* A job that is DONE has a run with a stored report.
THEOREM DoneIsReported == Spec => []DoneHasReport
<1>1. IInv => DoneHasReport
  BY DEF IInv
<1> QED
  BY <1>1, Invariance, PTL

\* A job is only dead-lettered with its attempts used up.
THEOREM DeadLettersExhausted == Spec => []DeadLetterExhausted
<1>1. IInv => DeadLetterExhausted
  BY DEF IInv
<1> QED
  BY <1>1, Invariance, PTL

\* The run a job links to exists and belongs to an attempt the job has had.
THEOREM RunLinksValid == Spec => []RunLinkValid
<1>1. IInv => RunLinkValid
  BY DEF IInv
<1> QED
  BY <1>1, Invariance, PTL

-----------------------------------------------------------------------------
(* What a step may do to the runs table, and the abstract lifecycle.       *)

\* A step writes the runs table only as the statement of one slot.
LEMMA RunWriters ==
    ASSUME TypeOK, Next
    PROVE  run' = run \/ \E w \in Workers : Working(w) /\ Commit(w)
<1>1. ASSUME NEW w \in Workers, Slot(w) PROVE run' = run \/ (Working(w) /\ Commit(w))
  BY <1>1
  DEF Slot, ClaimPostgres, Take, PickCandidate, ClaimGuarded, LoseRace, NoClient, StartRun,
      CreateRun, Attach, Observe, SetRunReport, SetRunError, LoadJob, CommitMark,
      Working, InRunJob, Marking
<1>2. ASSUME NEW w \in Workers, Fault(w) PROVE run' = run \/ (Working(w) /\ Commit(w))
  BY <1>2
  DEF Fault, ClaimAnswerLost, RunJobRaises, NetRaises, ReapRaises, Crash, CommitOrNot,
      Working, InRunJob
<1>3. ASSUME NEW w \in Workers, JobTimeout(w) PROVE run' = run \/ (Working(w) /\ Commit(w))
  BY <1>3 DEF JobTimeout, CommitOrNot, Working
<1> QED
  BY <1>1, <1>2, <1>3
  DEF Next, Enqueue, Reaper, ReapRead, ReapCommit, Restart, SwarmEnds, Tick

\* A stored report is never taken back by a later write.
THEOREM ReportsKept == Spec => ReportKept
<1>1. ASSUME IInv, [Next]_vars
      PROVE  \A t \in DOMAIN run : run[t] = "finished" =>
                t \in DOMAIN run' /\ run'[t] = "finished"
  <2>1. CASE run' = run
    BY <2>1
  <2>2. CASE \E w \in Workers : Working(w) /\ Commit(w)
    BY <1>1, <2>2, StatementTables
  <2> QED
    BY <1>1, <2>1, <2>2, RunWriters DEF IInv, vars
<1> QED
  BY <1>1, Invariance, PTL DEF Spec, ReportKept

\* A step that changes neither a state nor an attempt count nor who has a report.
LEMMA AbstractStutter ==
    ASSUME \A j \in Jobs : job'[j].state = job[j].state /\ job'[j].attempts = job[j].attempts,
           Reported' = Reported
    PROVE  UNCHANGED Lifecycle!lifecycle
BY DEF Lifecycle!lifecycle

\* A claim of a QUEUED row is the claim of the abstract queue.
LEMMA AbstractClaim ==
    ASSUME IInv, NEW j \in Jobs, job[j].state = "queued",
           job' = [job EXCEPT ![j] = MarkClaimed(@)], run' = run
    PROVE  Lifecycle!Claim(j)
<1>1. \A k \in Jobs : job'[k] = IF k = j THEN MarkClaimed(job[k]) ELSE job[k]
  BY DEF IInv, TypeOK
<1>2. MarkClaimed(job[j]).attempts = job[j].attempts + 1 /\ MarkClaimed(job[j]).state = "running"
  BY ClaimEffects DEF IInv, TypeOK
<1>3. Reported' = Reported
  BY DEF Reported
<1> DEFINE tries == job[j].attempts + 1
<1>4. \A k \in Jobs : /\ job'[k].state = IF k = j THEN "running" ELSE job[k].state
                      /\ job'[k].attempts = IF k = j THEN tries ELSE job[k].attempts
  BY <1>1, <1>2
<1> HIDE DEF tries
<1>5. [k \in Jobs |-> job'[k].attempts] =
          [[k \in Jobs |-> job[k].attempts] EXCEPT ![j] = tries]
  BY <1>4
<1>6. [k \in Jobs |-> job'[k].state] =
          [[k \in Jobs |-> job[k].state] EXCEPT ![j] = "running"]
  BY <1>4
<1> QED
  BY <1>3, <1>5, <1>6 DEF Lifecycle!Claim, tries

\* Rows that go back to QUEUED, or to FAILED with their attempts used up, are given
\* back in the abstract queue.
LEMMA AbstractGiveBack ==
    ASSUME IInv, Reported' = Reported,
           \A j \in Jobs :
               /\ job'[j].attempts = job[j].attempts
               /\ job'[j].state \in {job[j].state, "queued", "failed"}
               /\ job'[j].state # job[j].state => job[j].attempts > 0
               /\ job'[j].state = "failed" =>
                     job[j].state = "failed" \/ job[j].attempts >= MaxAttempts
    PROVE  Lifecycle!Next
<1>1. PICK retried, dead \in SUBSET Jobs :
         /\ retried = {j \in Jobs : job'[j].state # job[j].state /\ job'[j].state = "queued"}
         /\ dead = {j \in Jobs : job'[j].state # job[j].state /\ job'[j].state = "failed"}
  OBVIOUS
<1>2. Lifecycle!GiveBack(retried, dead)
  BY <1>1 DEF Lifecycle!GiveBack
<1> QED
  BY <1>2 DEF Lifecycle!Next

\* The statement of a slot is one step of the abstract queue, or none.
LEMMA AbstractCommit ==
    ASSUME IInv, NEW w \in Workers, Working(w), Commit(w)
    PROVE  [Lifecycle!Next]_(Lifecycle!lifecycle)
<1>p. PICK j0 \in Jobs : j0 = ticket[w].job
  BY TicketTypes DEF IInv, TypeOK, Working, InRunJob
<1>t. ticket[w] \in Ticket /\ ticket[w].job = j0
  BY <1>p DEF IInv, TypeOK, Working, InRunJob
<1>s. SlotInv(w)
  BY DEF IInv
<1>y. job[j0] \in JobRow /\ sess[w] \in Session /\ job \in [Jobs -> JobRow]
  BY <1>t DEF IInv, TypeOK
<1>a. job[j0].attempts \in Nat /\ sess[w].attempts \in Nat /\ job[j0].attempts > 0
  BY <1>y, <1>s, <1>t DEF JobRow, Session, SlotInv
<1>1. \A j \in Jobs : job'[j].attempts = job[j].attempts
  BY StatementTables
<1>2. CASE pc[w] \in {"create_run", "set_error", "set_report"}
  <2>1. job' = job
    BY <1>2, <1>s DEF Commit, StatementJob, WritesJob, SlotInv, Marking
  <2>2. CASE pc[w] = "set_report"
    <3>1. Reported' = Reported \union {j0}
      BY <2>2, <1>s, <1>t DEF Commit, StatementRun, SetRun, Reported, SlotInv
    <3>2. Lifecycle!Report(j0)
      BY <2>1, <3>1, <1>a, <1>t DEF Lifecycle!Report
    <3> QED
      BY <3>2, <1>t DEF Lifecycle!Next
  <2>3. CASE pc[w] \in {"create_run", "set_error"}
    <3>1. Reported' = Reported
      BY <2>3, <1>s, <1>t DEF Commit, StatementRun, SetRun, Reported, SlotInv
    <3> QED
      BY <2>1, <3>1, AbstractStutter
  <2> QED
    BY <1>2, <2>2, <2>3
<1>3. CASE pc[w] \notin {"create_run", "set_error", "set_report"}
  <2>1. run' = run
    BY <1>3 DEF Commit, StatementRun
  <2>2. Reported' = Reported
    BY <2>1 DEF Reported
  <2>3. \A j \in Jobs : job'[j] = IF j = j0 /\ WritesJob(w) THEN JobWrite(w) ELSE job[j]
    BY <1>t, <1>y DEF Commit, StatementJob
  <2>4. CASE ~WritesJob(w) \/ pc[w] = "attach_run"
    <3>1. pc[w] = "attach_run" => JobWrite(w).state = job[j0].state
      BY <1>t, <1>y, AttachEffects, TicketTypes DEF JobWrite
    <3>2. \A j \in Jobs : job'[j].state = job[j].state
      BY <2>3, <2>4, <3>1
    <3> QED
      BY <1>1, <2>2, <3>2, AbstractStutter
  <2>5. CASE WritesJob(w) /\ pc[w] = "mark_done"
    <3>1. JobWrite(w).state \in {job[j0].state, "done"}
      BY <2>5, <1>t, <1>y, RowEffects DEF JobWrite
    <3>2. CASE JobWrite(w).state = job[j0].state
      BY <1>1, <2>2, <2>3, <3>2, AbstractStutter
    <3>3. CASE JobWrite(w).state = "done"
      <4>1. j0 \in Reported
        BY <2>5, <1>s, <1>t DEF SlotInv, Reported
      <4>2. Lifecycle!Complete(j0)
        BY <1>1, <1>t, <2>2, <2>3, <2>5, <3>3, <4>1 DEF Lifecycle!Complete
      <4> QED
        BY <4>2, <1>t DEF Lifecycle!Next
    <3> QED
      BY <3>1, <3>2, <3>3
  <2>6. CASE WritesJob(w) /\ pc[w] \notin {"attach_run", "mark_done"}
    <3>1. JobWrite(w) = MarkFailed(job[j0], sess[w])
      BY <2>6, <1>t DEF JobWrite
    <3>2. /\ JobWrite(w).state \in {job[j0].state, "queued", "failed"}
          /\ JobWrite(w).state \in {job[j0].state, "queued"} \/ sess[w].attempts >= MaxAttempts
      BY <3>1, <1>y, RowEffects
    <3>3. sess[w].attempts <= job[j0].attempts
      BY <2>6, <1>s, <1>t DEF WritesJob, SlotInv
    <3>4. /\ JobWrite(w).state = "failed" =>
                job[j0].state = "failed" \/ job[j0].attempts >= MaxAttempts
      BY <3>2, <3>3, <1>a, JobQueueAssumption
    <3>5. \A j \in Jobs :
               /\ job'[j].attempts = job[j].attempts
               /\ job'[j].state \in {job[j].state, "queued", "failed"}
               /\ job'[j].state # job[j].state => job[j].attempts > 0
               /\ job'[j].state = "failed" =>
                     job[j].state = "failed" \/ job[j].attempts >= MaxAttempts
      BY <1>1, <1>a, <2>3, <2>6, <3>2, <3>4
    <3> QED
      BY <2>2, <3>5, AbstractGiveBack
  <2> QED
    BY <2>4, <2>5, <2>6
<1> QED
  BY <1>2, <1>3

\* Every step of the workers, reapers and faults is a step of the abstract queue.
LEMMA AbstractStep ==
    IInv /\ [Next]_vars => [Lifecycle!Next]_(Lifecycle!lifecycle)
<1> SUFFICES ASSUME IInv, [Next]_vars PROVE [Lifecycle!Next]_(Lifecycle!lifecycle)
  OBVIOUS
<1>t. TypeOK /\ \A j \in Jobs : job[j] \in JobRow /\ job[j].attempts \in Nat
  BY DEF IInv, TypeOK, JobRow
<1>q. ASSUME UNCHANGED <<job, run>> PROVE UNCHANGED Lifecycle!lifecycle
  BY <1>q, AbstractStutter DEF Reported
<1>c. ASSUME NEW w \in Workers, Working(w), CommitOrNot(w)
      PROVE  [Lifecycle!Next]_(Lifecycle!lifecycle)
  BY <1>c, <1>q, AbstractCommit DEF CommitOrNot
<1>1. ASSUME NEW j \in Jobs, Enqueue(j) PROVE Lifecycle!Next
  <2>1. job[j].attempts = 0 /\ job[j].state = "absent"
    BY <1>1 DEF Enqueue, IInv, JobInv
  <2>2. NewRow(Cardinality(Rows)).attempts = 0 /\ NewRow(Cardinality(Rows)).state = "queued"
    BY DEF NewRow, NoRow
  <2>3. \A k \in Jobs : /\ job'[k].state = IF k = j THEN "queued" ELSE job[k].state
                        /\ job'[k].attempts = job[k].attempts
    BY <1>1, <1>t, <2>1, <2>2 DEF Enqueue, TypeOK
  <2>4. Reported' = Reported
    BY <1>1 DEF Enqueue, Reported
  <2>5. Lifecycle!Submit(j)
    BY <2>1, <2>3, <2>4 DEF Lifecycle!Submit
  <2> QED
    BY <2>5 DEF Lifecycle!Next
<1>2. ASSUME NEW w \in Workers, NEW j \in Jobs, Oldest(j) \/ job[j].state = "queued", run' = run,
             job' = [job EXCEPT ![j] = MarkClaimed(@)]
      PROVE  Lifecycle!Next
  <2>1. Lifecycle!Claim(j)
    BY <1>2, AbstractClaim DEF Oldest, Queued
  <2> QED
    BY <2>1 DEF Lifecycle!Next
<1>3. ASSUME NEW w \in Workers, Slot(w) PROVE [Lifecycle!Next]_(Lifecycle!lifecycle)
  <2>1. CASE ClaimPostgres(w)
    BY <1>2, <2>1 DEF ClaimPostgres, Take
  <2>2. CASE ClaimGuarded(w)
    <3>1. PICK j \in Jobs : j = ticket[w].job
      BY <2>2, <1>t, TicketTypes DEF ClaimGuarded, TypeOK
    <3> QED
      BY <1>2, <2>2, <3>1 DEF ClaimGuarded, Take
  <2>3. CASE CreateRun(w) \/ Attach(w) \/ SetRunReport(w) \/ SetRunError(w) \/ CommitMark(w)
    <3>1. Working(w) /\ CommitOrNot(w)
      BY <2>3 DEF CreateRun, Attach, SetRunReport, SetRunError, CommitMark, CommitOrNot,
                  Working, InRunJob, Marking
    <3> QED
      BY <1>c, <3>1
  <2>4. CASE PickCandidate(w) \/ LoseRace(w) \/ NoClient(w) \/ StartRun(w) \/ Observe(w)
             \/ LoadJob(w)
    BY <1>q, <2>4 DEF PickCandidate, LoseRace, NoClient, StartRun, Observe, LoadJob
  <2> QED
    BY <1>3, <2>1, <2>2, <2>3, <2>4 DEF Slot
<1>4. ASSUME NEW w \in Workers, ReapRead(w) PROVE UNCHANGED Lifecycle!lifecycle
  BY <1>4, <1>q DEF ReapRead
<1>5. ASSUME NEW w \in Workers, ReapCommit(w) PROVE Lifecycle!Next
  <2>1. Reported' = Reported
    BY <1>5 DEF ReapCommit, Reported
  <2>2. \A j \in Jobs : /\ job'[j].attempts = job[j].attempts
                        /\ job'[j].state \in {job[j].state, "queued", "failed"}
                        /\ job'[j].state # job[j].state => job[j].attempts > 0
                        /\ job'[j].state = "failed" =>
                              job[j].state = "failed" \/ job[j].attempts >= MaxAttempts
    BY <1>5, <1>t, SweptRows
  <2> QED
    BY <2>1, <2>2, AbstractGiveBack
<1>6. ASSUME NEW w \in Workers, Fault(w) PROVE [Lifecycle!Next]_(Lifecycle!lifecycle)
  <2>1. CASE ClaimAnswerLost(w)
    <3>1. PICK j \in Jobs : job[j].state = "queued" /\ job' = [job EXCEPT ![j] = MarkClaimed(@)]
      BY <2>1, <1>t, TicketTypes DEF ClaimAnswerLost, Oldest, Queued, TypeOK
    <3> QED
      BY <1>2, <2>1, <3>1 DEF ClaimAnswerLost
  <2>2. CASE RunJobRaises(w) \/ NetRaises(w)
    BY <1>c, <2>2 DEF RunJobRaises, NetRaises, Working
  <2>3. CASE ReapRaises(w) \/ Crash(w)
    BY <1>q, <2>3 DEF ReapRaises, Crash
  <2> QED
    BY <1>6, <2>1, <2>2, <2>3 DEF Fault
<1>7. ASSUME NEW w \in Workers, JobTimeout(w) PROVE [Lifecycle!Next]_(Lifecycle!lifecycle)
  BY <1>7, <1>c DEF JobTimeout, Working
<1>8. ASSUME NEW w \in Workers, Restart(w) \/ \E t \in swarms[w] : SwarmEnds(w, t)
      PROVE  UNCHANGED Lifecycle!lifecycle
  BY <1>8, <1>q DEF Restart, SwarmEnds
<1>9. ASSUME Tick PROVE UNCHANGED Lifecycle!lifecycle
  <2>1. Reported' = Reported
    BY <1>9 DEF Tick, Reported
  <2> QED
    BY <1>9, <1>t, <2>1, ClaimEffects, AbstractStutter DEF Tick
<1>10. CASE UNCHANGED vars
  BY <1>10, <1>q DEF vars
<1> QED
  BY <1>1, <1>3, <1>4, <1>5, <1>6, <1>7, <1>8, <1>9, <1>10 DEF Next, Reaper

\* The workers implement the abstract queue.
THEOREM LifecycleRefinement == Spec => ImplementsJobLifecycle
<1>1. Init => Lifecycle!Init
  BY DEF Init, NoRow, Reported, Lifecycle!Init
<1> QED
  BY <1>1, AbstractStep, Invariance, PTL DEF Spec, ImplementsJobLifecycle, Lifecycle!Spec

-----------------------------------------------------------------------------
(* How far the cap on attempts can be overrun.                             *)

\* The sessions open on job j that have loaded it before its last attempt was counted:
\* those of slots, and those of sweeps.
Early(j) ==
    {w \in Workers : sess[w] # NoSession /\ ticket[w].job = j /\ sess[w].attempts < MaxAttempts}
EarlySweeps(j) ==
    {w \in Reapers : snap[w][j] # NoSession /\ snap[w][j].attempts < MaxAttempts}

Waits(j) == IF job[j].state = "queued" THEN 1 ELSE 0

(***************************************************************************)
(* Once the last attempt of a job is counted, no session that is opened    *)
(* from then on sends the job back to the queue: the attempts to come are  *)
(* those of the sessions left open, and the one for which the job waits.   *)
(***************************************************************************)
Overrun(j) ==
    job[j].attempts >= MaxAttempts =>
        job[j].attempts + Cardinality(Early(j)) + Cardinality(EarlySweeps(j)) + Waits(j)
            < MaxAttempts + Cardinality(Workers) + Cardinality(Reapers)

OverrunInv == \A j \in Jobs : Overrun(j)

\* The sessions that may yet give the job back can be counted.
LEMMA EarlyFinite ==
    ASSUME NEW j
    PROVE  /\ IsFiniteSet(Early(j)) /\ IsFiniteSet(EarlySweeps(j))
           /\ Cardinality(Early(j)) \in Nat /\ Cardinality(EarlySweeps(j)) \in Nat
           /\ IsFiniteSet(Workers) /\ IsFiniteSet(Reapers)
           /\ Cardinality(Workers) \in Nat /\ Cardinality(Reapers) \in Nat
           /\ Cardinality(EarlySweeps(j)) <= Cardinality(Reapers)
           /\ Waits(j) \in 0 .. 1
<1>1. IsFiniteSet(Workers) /\ IsFiniteSet(Reapers)
  BY WorkerAssumption, FS_Subset
<1>2. Early(j) \subseteq Workers /\ EarlySweeps(j) \subseteq Reapers
  BY DEF Early, EarlySweeps
<1>3. IsFiniteSet(Early(j)) /\ IsFiniteSet(EarlySweeps(j))
  BY <1>1, <1>2, FS_Subset
<1>4. Cardinality(EarlySweeps(j)) <= Cardinality(Reapers)
  BY <1>1, <1>2, FS_Subset
<1>5. Waits(j) \in 0 .. 1
  BY DEF Waits
<1> QED
  BY <1>1, <1>3, <1>4, <1>5, FS_CardinalityType

\* A finite set that loses a member, or may lose some.
LEMMA Fewer ==
    ASSUME NEW T, IsFiniteSet(T), NEW S \in SUBSET T
    PROVE  /\ IsFiniteSet(S) /\ Cardinality(S) \in Nat /\ Cardinality(T) \in Nat
           /\ Cardinality(S) <= Cardinality(T)
           /\ S # T => Cardinality(S) < Cardinality(T)
<1>1. IsFiniteSet(S) /\ Cardinality(S) <= Cardinality(T) /\ Cardinality(S) \in Nat
      /\ Cardinality(T) \in Nat
  BY FS_Subset, FS_CardinalityType
<1>2. S # T => Cardinality(S) # Cardinality(T)
  BY FS_Subset
<1> QED
  BY <1>1, <1>2

\* No attempt is counted, and the job is queued only by an early session that closes.
LEMMA OverrunKept ==
    ASSUME NEW j \in Jobs, Overrun(j), TypeOK, job'[j].attempts = job[j].attempts,
           job[j].attempts >= MaxAttempts =>
               /\ Early(j)' \subseteq Early(j) /\ EarlySweeps(j)' \subseteq EarlySweeps(j)
               /\ \/ job'[j].state = "queued" => job[j].state = "queued"
                  \/ Early(j)' # Early(j) \/ EarlySweeps(j)' # EarlySweeps(j)
    PROVE  Overrun(j)'
<1> SUFFICES ASSUME job[j].attempts >= MaxAttempts
             PROVE  job[j].attempts + Cardinality(Early(j)') + Cardinality(EarlySweeps(j)') + Waits(j)'
                        < MaxAttempts + Cardinality(Workers) + Cardinality(Reapers)
  BY DEF Overrun
<1>1. /\ Cardinality(Early(j)') \in Nat /\ Cardinality(Early(j)') <= Cardinality(Early(j))
      /\ Early(j)' # Early(j) => Cardinality(Early(j)') < Cardinality(Early(j))
  BY EarlyFinite, Fewer
<1>2. /\ Cardinality(EarlySweeps(j)') \in Nat
      /\ Cardinality(EarlySweeps(j)') <= Cardinality(EarlySweeps(j))
      /\ EarlySweeps(j)' # EarlySweeps(j) =>
             Cardinality(EarlySweeps(j)') < Cardinality(EarlySweeps(j))
  BY EarlyFinite, Fewer
<1>3. Waits(j)' \in 0 .. 1 /\ Waits(j) \in 0 .. 1
      /\ ((job'[j].state = "queued" => job[j].state = "queued") => Waits(j)' <= Waits(j))
  BY DEF Waits
<1>4. job[j].attempts \in Nat /\ MaxAttempts \in Nat
  BY JobQueueAssumption DEF TypeOK, JobRow
<1>5. job[j].attempts + Cardinality(Early(j)) + Cardinality(EarlySweeps(j)) + Waits(j)
          < MaxAttempts + Cardinality(Workers) + Cardinality(Reapers)
  BY DEF Overrun
<1>6. /\ Cardinality(Early(j)) \in Nat /\ Cardinality(EarlySweeps(j)) \in Nat
      /\ Cardinality(Workers) \in Nat /\ Cardinality(Reapers) \in Nat
  BY EarlyFinite
<1>7. Cardinality(Early(j)') + Cardinality(EarlySweeps(j)') + Waits(j)'
          <= Cardinality(Early(j)) + Cardinality(EarlySweeps(j)) + Waits(j)
  BY <1>1, <1>2, <1>3, <1>6
<1> QED
  BY <1>1, <1>2, <1>3, <1>4, <1>5, <1>6, <1>7

\* A step that leaves the attempts and the open sessions alone, or closes some, and queues
\* nothing.
LEMMA OverrunQuiet ==
    ASSUME OverrunInv, TypeOK, snap' = snap,
           \A j \in Jobs : /\ job'[j].attempts = job[j].attempts
                           /\ job'[j].state = "queued" =>
                                 job[j].state = "queued" \/ job[j].attempts < MaxAttempts,
           \A w \in Workers : sess'[w] = NoSession \/ (sess'[w] = sess[w] /\ ticket'[w] = ticket[w])
    PROVE  OverrunInv'
<1> SUFFICES ASSUME NEW j \in Jobs PROVE Overrun(j)'
  BY DEF OverrunInv
<1>1. Early(j)' \subseteq Early(j) /\ EarlySweeps(j)' = EarlySweeps(j)
  BY DEF Early, EarlySweeps
<1>2. job[j].attempts \in Nat
  BY DEF TypeOK, JobRow
<1>3. job[j].attempts >= MaxAttempts => ~(job[j].attempts < MaxAttempts)
  BY <1>2, JobQueueAssumption
<1> QED
  BY <1>1, <1>3, OverrunKept DEF OverrunInv

\* The claim of j by slot w, which has no session open then or afterwards.
LEMMA OverrunClaim ==
    ASSUME OverrunInv, IInv, snap' = snap, NEW w \in Workers, NEW j \in Jobs,
           job[j].state = "queued", job' = [job EXCEPT ![j] = MarkClaimed(@)],
           sess[w] = NoSession, sess'[w] = NoSession,
           \A v \in Workers \ {w} : sess'[v] = sess[v] /\ ticket'[v] = ticket[v]
    PROVE  OverrunInv'
<1> SUFFICES ASSUME NEW k \in Jobs PROVE Overrun(k)'
  BY DEF OverrunInv
<1>1. /\ Early(k)' = Early(k) /\ EarlySweeps(k)' = EarlySweeps(k)
      /\ Early(k) \subseteq Workers \ {w}
  BY DEF Early, EarlySweeps
<1>t. /\ job[j] \in JobRow /\ job[j].attempts \in Nat /\ TypeOK
      /\ job \in [Jobs -> JobRow] /\ MaxAttempts \in Nat
  BY JobQueueAssumption DEF IInv, TypeOK, JobRow
<1>2. CASE k # j
  <2>1. job'[k] = job[k]
    BY <1>2, <1>t
  <2> QED
    BY <1>1, <1>t, <2>1, OverrunKept DEF OverrunInv
<1>3. CASE k = j
  <2>1. job'[j].attempts = job[j].attempts + 1 /\ job'[j].state = "running"
    BY <1>t, ClaimEffects
  <2>2. Waits(j) = 1 /\ Waits(j)' = 0
    BY <2>1 DEF Waits
  <2>3. /\ Cardinality(Early(j)) \in Nat /\ Cardinality(EarlySweeps(j)) \in Nat
        /\ Cardinality(Workers) \in Nat /\ Cardinality(Reapers) \in Nat
        /\ Cardinality(EarlySweeps(j)) <= Cardinality(Reapers)
    BY EarlyFinite
  <2>4. CASE job[j].attempts >= MaxAttempts
    <3>1. job[j].attempts + Cardinality(Early(j)) + Cardinality(EarlySweeps(j)) + Waits(j)
              < MaxAttempts + Cardinality(Workers) + Cardinality(Reapers)
      BY <2>4 DEF OverrunInv, Overrun
    <3>2. (job[j].attempts + 1) + Cardinality(Early(j)) + Cardinality(EarlySweeps(j)) + 0
              < MaxAttempts + Cardinality(Workers) + Cardinality(Reapers)
      BY <1>t, <2>2, <2>3, <3>1
    <3> QED
      BY <1>1, <1>3, <2>1, <2>2, <3>2 DEF Overrun
  <2>5. CASE ~(job[j].attempts >= MaxAttempts)
    <3>1. Cardinality(Early(j)) < Cardinality(Workers)
      <4>1. Early(j) \in SUBSET Workers /\ Early(j) # Workers
        BY <1>1, <1>3
      <4> QED
        BY <4>1, EarlyFinite, Fewer
    <3>2. (job[j].attempts + 1) + Cardinality(Early(j)) + Cardinality(EarlySweeps(j)) + 0
              < MaxAttempts + Cardinality(Workers) + Cardinality(Reapers)
      BY <1>t, <2>3, <2>5, <3>1
    <3> QED
      BY <1>1, <1>3, <2>1, <2>2, <3>2 DEF Overrun
  <2> QED
    BY <2>4, <2>5
<1> QED
  BY <1>2, <1>3

\* The statement of a slot that closes its session: only one that loaded its job before the
\* last attempt sends the job back to the queue.
LEMMA OverrunCommit ==
    ASSUME OverrunInv, IInv, snap' = snap, NEW w \in Workers, Working(w), CommitOrNot(w),
           sess'[w] = sess[w] \/ sess'[w] = NoSession,
           sess'[w] = NoSession \/ ticket'[w] = ticket[w],
           WritesJob(w) /\ pc[w] # "attach_run" => sess'[w] = NoSession,
           \A v \in Workers \ {w} : sess'[v] = sess[v] /\ ticket'[v] = ticket[v]
    PROVE  OverrunInv'
<1> DEFINE j == ticket[w].job
<1>t. /\ j \in Jobs /\ ticket[w].n \in Nat /\ job[j] \in JobRow /\ sess[w] \in Session
      /\ job \in [Jobs -> JobRow] /\ TypeOK /\ SlotInv(w)
  BY TicketTypes DEF IInv, TypeOK, Working, InRunJob
<1>a. job[j].attempts \in Nat /\ sess[w].attempts \in Nat /\ MaxAttempts \in Nat
  BY <1>t, JobQueueAssumption DEF JobRow, Session
<1>1. \A k \in Jobs : job'[k].attempts = job[k].attempts
  BY StatementTables DEF CommitOrNot
<1>2. \A k \in Jobs : Early(k)' \subseteq Early(k) /\ EarlySweeps(k)' = EarlySweeps(k)
  BY DEF Early, EarlySweeps
<1>3. \A k \in Jobs \ {j} : job'[k] = job[k]
  BY <1>t DEF CommitOrNot, Commit, StatementJob
<1>4. job'[j].state = "queued"
      => job[j].state = "queued" \/ (w \in Early(j) /\ sess'[w] = NoSession)
  <2>1. CASE job' = job \/ ~WritesJob(w)
    BY <2>1 DEF CommitOrNot, Commit, StatementJob
  <2>2. CASE WritesJob(w) /\ job'[j] = JobWrite(w) /\ pc[w] = "attach_run"
    BY <1>t, <2>2, AttachEffects DEF JobWrite
  <2>3. CASE WritesJob(w) /\ job'[j] = JobWrite(w) /\ pc[w] # "attach_run"
    <3>1. sess[w] # NoSession /\ sess'[w] = NoSession
      BY <2>3 DEF WritesJob
    <3>2. CASE pc[w] = "mark_done"
      BY <1>t, <2>3, <3>2, RowEffects DEF JobWrite
    <3>3. CASE pc[w] # "mark_done"
      <4>1. job'[j] = MarkFailed(job[j], sess[w])
        BY <2>3, <3>3 DEF JobWrite
      <4>2. CASE sess[w].attempts < MaxAttempts
        BY <3>1, <4>2 DEF Early
      <4>3. CASE ~(sess[w].attempts < MaxAttempts)
        <5>1. job'[j] = Flush(job[j], sess[w], "failed")
          BY <4>1, <4>3 DEF MarkFailed
        <5>2. job'[j].state \in {job[j].state, "failed"}
          BY <1>t, <5>1, FlushRow DEF JobState
        <5> QED
          BY <5>2
      <4> QED
        BY <4>2, <4>3
    <3> QED
      BY <3>2, <3>3
  <2> QED
    BY <1>t, <2>1, <2>2, <2>3 DEF CommitOrNot, Commit, StatementJob
<1> SUFFICES ASSUME NEW k \in Jobs PROVE Overrun(k)'
  BY DEF OverrunInv
<1>5. job'[k].state = "queued" => job[k].state = "queued" \/ Early(k)' # Early(k)
  <2>1. CASE k = j
    <3>1. sess'[w] = NoSession => w \notin Early(k)'
      BY DEF Early
    <3> QED
      BY <1>4, <2>1, <3>1
  <2>2. CASE k \in Jobs \ {j}
    BY <1>3, <2>2
  <2> QED
    BY <2>1, <2>2
<1> HIDE DEF j
<1> QED
  BY <1>1, <1>2, <1>5, <1>t, OverrunKept DEF OverrunInv

\* Only the processes whose reaper gets to sweep have sweeps.
Unswept == \A w \in Workers \ Reapers, j \in Jobs : snap[w][j] = NoSession

\* Every step leaves the other processes without sweeps.
LEMMA UnsweptStep == Unswept /\ IInv /\ [Next]_vars => Unswept'
<1> SUFFICES ASSUME Unswept, IInv, [Next]_vars PROVE Unswept'
  OBVIOUS
<1>t. snap \in [Workers -> [Jobs -> Session]]
  BY DEF IInv, TypeOK
<1>q. ASSUME snap' = snap PROVE Unswept'
  BY <1>q DEF Unswept
<1>s. ASSUME NEW w \in Workers, snap' = [snap EXCEPT ![w] = [j \in Jobs |-> NoSession]]
      PROVE  Unswept'
  BY <1>t, <1>s DEF Unswept
<1>1. ASSUME NEW j \in Jobs, Enqueue(j) PROVE Unswept'
  BY <1>1, <1>q DEF Enqueue
<1>2. ASSUME NEW w \in Workers, Slot(w) PROVE Unswept'
  BY <1>2, <1>q DEF Slot, ClaimPostgres, PickCandidate, ClaimGuarded, LoseRace, NoClient, StartRun,
                    CreateRun, Attach, Observe, SetRunReport, SetRunError, LoadJob, CommitMark, Take
<1>3. ASSUME NEW w \in Workers, ReapRead(w) PROVE Unswept'
  BY <1>3, <1>t DEF ReapRead, Unswept
<1>4. ASSUME NEW w \in Workers, ReapCommit(w) \/ ReapRaises(w) \/ Crash(w) PROVE Unswept'
  BY <1>4, <1>s DEF ReapCommit, ReapRaises, EndSweep, Crash
<1>5. ASSUME NEW w \in Workers,
             ClaimAnswerLost(w) \/ RunJobRaises(w) \/ NetRaises(w) \/ JobTimeout(w) \/ Restart(w)
             \/ \E t \in swarms[w] : SwarmEnds(w, t)
      PROVE  Unswept'
  BY <1>5, <1>q DEF ClaimAnswerLost, RunJobRaises, NetRaises, JobTimeout, Restart, SwarmEnds, ToNet
<1>6. CASE Tick \/ UNCHANGED vars
  BY <1>6, <1>q DEF Tick, vars
<1> QED
  BY <1>1, <1>2, <1>3, <1>4, <1>5, <1>6 DEF Next, Reaper, Fault

\* Every step keeps the overrun within the sessions that are open.
LEMMA OverrunStep == OverrunInv /\ Unswept /\ IInv /\ [Next]_vars => OverrunInv'
<1> SUFFICES ASSUME OverrunInv, Unswept, IInv, [Next]_vars PROVE OverrunInv'
  OBVIOUS
<1>t. TypeOK /\ \A w \in Workers : SlotInv(w)
  BY DEF IInv
<1>q. ASSUME UNCHANGED <<job, snap>>,
             \A w \in Workers : sess'[w] = NoSession
                                \/ (sess'[w] = sess[w] /\ ticket'[w] = ticket[w])
      PROVE  OverrunInv'
  BY <1>q, <1>t, OverrunQuiet
<1>1. ASSUME NEW j \in Jobs, Enqueue(j) PROVE OverrunInv'
  <2>1. NewRow(Cardinality(Rows)).attempts = 0 /\ job[j].attempts = 0
    BY <1>1 DEF Enqueue, NewRow, NoRow, IInv, JobInv
  <2>2. \A k \in Jobs : /\ job'[k].attempts = job[k].attempts
                        /\ job'[k].state = "queued" =>
                               job[k].state = "queued" \/ job[k].attempts < MaxAttempts
    BY <1>1, <1>t, <2>1, JobQueueAssumption DEF Enqueue, TypeOK
  <2> QED
    BY <1>1, <1>t, <2>2, OverrunQuiet DEF Enqueue
<1>2. ASSUME NEW w \in Workers, ClaimPostgres(w) \/ ClaimGuarded(w) PROVE OverrunInv'
  <2>1. PICK j \in Jobs : job[j].state = "queued" /\ Take(w, j)
    BY <1>2, <1>t, TicketTypes DEF ClaimPostgres, ClaimGuarded, Oldest, Queued, TypeOK
  <2>2. sess[w] = NoSession
    BY <1>2, <1>t DEF ClaimPostgres, ClaimGuarded, SlotInv, Marking
  <2>3. \A v \in Workers \ {w} : sess'[v] = sess[v] /\ ticket'[v] = ticket[v]
    BY <2>1, <1>t DEF Take, TypeOK
  <2> QED
    BY <2>1, <2>2, <2>3, OverrunClaim DEF Take
<1>3. ASSUME NEW w \in Workers, PickCandidate(w) \/ LoseRace(w) \/ NoClient(w) \/ StartRun(w)
                                \/ Observe(w) \/ Restart(w) PROVE OverrunInv'
  <2>1. /\ UNCHANGED <<job, snap>>
        /\ sess[w] = NoSession \/ UNCHANGED <<sess, ticket>>
        /\ \A v \in Workers : sess'[v] = sess[v] \/ sess'[v] = NoSession
        /\ \A v \in Workers \ {w} : sess'[v] = sess[v] /\ ticket'[v] = ticket[v]
    BY <1>3, <1>t DEF PickCandidate, LoseRace, NoClient, StartRun, Observe, Restart, Release, GoTo,
                      SlotInv, Marking, TypeOK
  <2> QED
    BY <1>q, <2>1
<1>4. ASSUME NEW w \in Workers,
             CreateRun(w) \/ Attach(w) \/ SetRunReport(w) \/ SetRunError(w) \/ CommitMark(w)
      PROVE  OverrunInv'
  <2>1. Working(w) /\ CommitOrNot(w) /\ snap' = snap
    BY <1>4 DEF CreateRun, Attach, SetRunReport, SetRunError, CommitMark, CommitOrNot,
                Working, InRunJob, Marking
  <2>2. CASE CommitMark(w)
    <3>1. /\ sess'[w] = NoSession
          /\ \A v \in Workers \ {w} : sess'[v] = sess[v] /\ ticket'[v] = ticket[v]
      BY <2>2, <1>t DEF CommitMark, Release, TypeOK
    <3> QED
      BY <2>1, <3>1, OverrunCommit
  <2>3. CASE ~CommitMark(w)
    <3>1. UNCHANGED <<sess, ticket>> /\ sess[w] = NoSession
      BY <1>4, <2>3, <1>t DEF CreateRun, Attach, SetRunReport, SetRunError, SlotInv, Marking
    <3> QED
      BY <2>1, <3>1, OverrunCommit
  <2> QED
    BY <2>2, <2>3
<1>5. ASSUME NEW w \in Workers, LoadJob(w) PROVE OverrunInv'
  <2> SUFFICES ASSUME NEW j \in Jobs PROVE Overrun(j)'
    BY DEF OverrunInv
  <2>1. /\ ticket[w].job \in Jobs /\ job[ticket[w].job] \in JobRow
        /\ job' = job /\ snap' = snap /\ ticket' = ticket
        /\ sess'[w] = Loaded(job[ticket[w].job])
        /\ \A v \in Workers \ {w} : sess'[v] = sess[v]
    BY <1>5, <1>t, TicketTypes DEF LoadJob, TypeOK, Marking, InRunJob
  <2>2. sess'[w].attempts = job[ticket[w].job].attempts
    BY <2>1, ClaimEffects
  <2>3. job[j].attempts \in Nat
    BY <1>t DEF TypeOK, JobRow
  <2>4. job[j].attempts >= MaxAttempts => Early(j)' \subseteq Early(j)
    BY <2>1, <2>2, <2>3, JobQueueAssumption DEF Early
  <2>5. EarlySweeps(j)' = EarlySweeps(j)
    BY <2>1 DEF EarlySweeps
  <2> QED
    BY <1>t, <2>1, <2>4, <2>5, OverrunKept DEF OverrunInv
<1>6. ASSUME NEW w \in Workers, ReapRead(w) PROVE OverrunInv'
  <2> SUFFICES ASSUME NEW j \in Jobs PROVE Overrun(j)'
    BY DEF OverrunInv
  <2>1. /\ job' = job /\ sess' = sess /\ ticket' = ticket /\ w \in Workers
        /\ snap'[w][j] \in {Loaded(job[j]), NoSession}
        /\ \A v \in Workers \ {w} : snap'[v] = snap[v]
        /\ job[j] \in JobRow /\ job[j].attempts \in Nat
    BY <1>6, <1>t DEF ReapRead, TypeOK, JobRow
  <2>2. Loaded(job[j]).attempts = job[j].attempts
    BY <2>1, ClaimEffects
  <2>3. job[j].attempts >= MaxAttempts => EarlySweeps(j)' \subseteq EarlySweeps(j)
    BY <2>1, <2>2, JobQueueAssumption, WorkerAssumption DEF EarlySweeps
  <2>4. Early(j)' = Early(j)
    BY <2>1 DEF Early
  <2> QED
    BY <1>t, <2>1, <2>3, <2>4, OverrunKept DEF OverrunInv
<1>7. ASSUME NEW w \in Workers, ReapCommit(w) \/ ReapRaises(w) PROVE OverrunInv'
  <2> SUFFICES ASSUME NEW j \in Jobs PROVE Overrun(j)'
    BY DEF OverrunInv
  <2>1. /\ sess' = sess /\ ticket' = ticket /\ snap'[w] = [k \in Jobs |-> NoSession]
        /\ \A v \in Workers \ {w} : snap'[v] = snap[v]
        /\ job[j] \in JobRow /\ job[j].attempts \in Nat /\ snap[w][j] \in Session
    BY <1>7, <1>t DEF ReapCommit, ReapRaises, EndSweep, TypeOK, JobRow
  <2>2. Early(j)' = Early(j)
    BY <2>1 DEF Early
  <2>3. EarlySweeps(j)' \subseteq EarlySweeps(j) \ {w}
    BY <2>1, WorkerAssumption DEF EarlySweeps
  <2>4. job'[j].attempts = job[j].attempts
    BY <1>7, SweptRows DEF ReapRaises
  <2>5. job'[j].state = "queued" => job[j].state = "queued" \/ w \in EarlySweeps(j)
    <3>1. CASE job'[j] = job[j]
      BY <3>1
    <3>2. CASE job'[j] # job[j]
      <4>1. snap[w][j] # NoSession /\ job'[j] = Reap(job[j], snap[w][j])
        BY <1>7, <3>2 DEF ReapCommit, ReapRaises, Sweeping
      <4>2. CASE snap[w][j].attempts < MaxAttempts
        <5>1. w \in Reapers
          BY <4>1 DEF Unswept
        <5> QED
          BY <4>1, <4>2, <5>1 DEF EarlySweeps
      <4>3. CASE ~(snap[w][j].attempts < MaxAttempts)
        <5>1. job'[j] = Flush(job[j], snap[w][j], "failed")
          BY <4>1, <4>3 DEF Reap
        <5>2. job'[j].state \in {job[j].state, "failed"}
          BY <2>1, <5>1, FlushRow DEF JobState
        <5> QED
          BY <5>2
      <4> QED
        BY <4>2, <4>3
    <3> QED
      BY <3>1, <3>2
  <2> QED
    BY <1>t, <2>2, <2>3, <2>4, <2>5, OverrunKept DEF OverrunInv
<1>8. ASSUME NEW w \in Workers, ClaimAnswerLost(w) PROVE OverrunInv'
  <2>1. PICK j \in Jobs : job[j].state = "queued" /\ job' = [job EXCEPT ![j] = MarkClaimed(@)]
    BY <1>8, <1>t, TicketTypes DEF ClaimAnswerLost, Oldest, Queued, TypeOK
  <2>2. sess[w] = NoSession
    BY <1>8, <1>t DEF ClaimAnswerLost, SlotInv, Marking
  <2>3. /\ snap' = snap /\ sess'[w] = NoSession
        /\ \A v \in Workers \ {w} : sess'[v] = sess[v] /\ ticket'[v] = ticket[v]
    BY <1>8, <1>t DEF ClaimAnswerLost, Release, TypeOK
  <2> QED
    BY <2>1, <2>2, <2>3, OverrunClaim
<1>9. ASSUME NEW w \in Workers, RunJobRaises(w) \/ NetRaises(w) \/ JobTimeout(w) PROVE OverrunInv'
  <2>1. Working(w) /\ CommitOrNot(w) /\ snap' = snap
    BY <1>9 DEF RunJobRaises, NetRaises, JobTimeout, ToNet, Working
  <2>2. /\ sess'[w] = NoSession
        /\ \A v \in Workers \ {w} : sess'[v] = sess[v] /\ ticket'[v] = ticket[v]
    BY <1>9, <1>t DEF RunJobRaises, NetRaises, JobTimeout, ToNet, Release, TypeOK
  <2> QED
    BY <2>1, <2>2, OverrunCommit
<1>10. ASSUME NEW w \in Workers, Crash(w) PROVE OverrunInv'
  <2> SUFFICES ASSUME NEW j \in Jobs PROVE Overrun(j)'
    BY DEF OverrunInv
  <2>1. /\ job' = job /\ sess'[w] = NoSession /\ snap'[w] = [k \in Jobs |-> NoSession]
        /\ \A v \in Workers \ {w} :
               snap'[v] = snap[v] /\ sess'[v] = sess[v] /\ ticket'[v] = ticket[v]
    BY <1>10, <1>t DEF Crash, TypeOK
  <2>2. Early(j)' \subseteq Early(j)
    BY <2>1 DEF Early
  <2>3. EarlySweeps(j)' \subseteq EarlySweeps(j)
    BY <2>1, WorkerAssumption DEF EarlySweeps
  <2> QED
    BY <1>t, <2>1, <2>2, <2>3, OverrunKept DEF OverrunInv
<1>11. ASSUME NEW w \in Workers, \E t \in swarms[w] : SwarmEnds(w, t) PROVE OverrunInv'
  BY <1>11, <1>q DEF SwarmEnds
<1>12. CASE Tick
  <2>1. \A k \in Jobs : job'[k].attempts = job[k].attempts /\ job'[k].state = job[k].state
    BY <1>12, <1>t, ClaimEffects DEF Tick, TypeOK
  <2> QED
    BY <1>12, <1>t, <2>1, OverrunQuiet DEF Tick
<1>13. CASE UNCHANGED vars
  BY <1>13, <1>q DEF vars
<1> QED
  BY <1>1, <1>2, <1>3, <1>4, <1>5, <1>6, <1>7, <1>8, <1>9, <1>10, <1>11, <1>12, <1>13
     DEF Next, Slot, Reaper, Fault

\* A job is attempted at most as often as it may be and once more for every other worker
\* and every sweep: late sessions do not feed on each other.
THEOREM RetriesBounded == Spec => []RetryOverrunBounded
<1>1. Init => OverrunInv /\ Unswept
  <2> SUFFICES ASSUME Init PROVE OverrunInv /\ Unswept
    OBVIOUS
  <2>1. \A j \in Jobs : job[j].attempts = 0
    BY DEF Init, NoRow
  <2> QED
    BY <2>1, JobQueueAssumption, WorkerAssumption DEF Init, OverrunInv, Overrun, Unswept
<1>2. OverrunInv /\ IInv => RetryOverrunBounded
  <2> SUFFICES ASSUME OverrunInv, IInv, NEW j \in Jobs
               PROVE  job[j].attempts < MaxAttempts + Cardinality(Workers) + Cardinality(Reapers)
    BY DEF RetryOverrunBounded
  <2>1. job[j].attempts \in Nat /\ MaxAttempts \in Nat
    BY JobQueueAssumption DEF IInv, TypeOK, JobRow
  <2>2. /\ Cardinality(Early(j)) \in Nat /\ Cardinality(EarlySweeps(j)) \in Nat
        /\ Cardinality(Workers) \in Nat /\ Cardinality(Reapers) \in Nat
        /\ Waits(j) \in 0 .. 1
    BY EarlyFinite
  <2> QED
    BY <2>1, <2>2 DEF OverrunInv, Overrun
<1>3. Spec => []Unswept
  BY <1>1, UnsweptStep, Invariance, PTL DEF Spec
<1>4. Spec => []OverrunInv
  BY <1>1, <1>3, OverrunStep, Invariance, PTL DEF Spec
<1> QED
  BY <1>2, <1>4, Invariance, PTL
=============================================================================
