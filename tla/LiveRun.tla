------------------------------ MODULE LiveRun -------------------------------
(***************************************************************************)
(* One run in the server process: SwarmManager._execute, the persona       *)
(* sessions it gathers, the registry's record of the run, the hub, the     *)
(* WebSocket endpoint of each viewer and the viewer's reducer.  All but    *)
(* the viewers are tasks of one event loop: a step is what a task does     *)
(* between two awaits that suspend it.                                     *)
(***************************************************************************)
EXTENDS EventHub

Folds == INSTANCE SequencesExt

CONSTANTS
    Personas,      \* the personas of the run
    MaxSteps,      \* PersonaConfig.max_steps, the same for all
    MaxDenials,    \* bound: requests that the policy denies
    NoPersona      \* the persona of an event about the whole run

ASSUME LiveRunAssumption ==
    /\ NoPersona \notin Personas
    /\ Personas # {}          \* start_run falls back to the full roster
    /\ MaxSteps \in Nat
    /\ MaxDenials \in Nat

VARIABLES
    exec,      \* where _execute is
    status,    \* RunRecord.status
    report,    \* RunRecord.report is not None
    stage,     \* where the session of each persona is
    step,      \* the steps each has taken
    denials,   \* requests denied so far
    shields,   \* handlers of each session that await the abort of a denied request
    result,    \* the outcome each session has come to
    conn,      \* the connection of each viewer
    live       \* what each viewer shows

swarm == <<exec, status, report, stage, step, denials, shields, result>>
viewer == <<conn, live>>
vars == <<hub, swarm, viewer>>

\* step_budget, time_budget and stuck are all shown as abandoned.
Outcome == {"success", "abandoned", "error"}

Event ==
    [event : {"run_started", "run_finished"}, persona : {NoPersona}, detail : {""}]
        \union [event : {"persona_started", "step", "persona_finished"},
                persona : Personas, detail : Outcome \union {"", "shield"}]

RunEvent(kind) == [event |-> kind, persona |-> NoPersona, detail |-> ""]
PersonaEvent(kind, p, detail) == [event |-> kind, persona |-> p, detail |-> detail]

\* A tile of the grid; "none" before run_started has created it.
Tile == [status : {"none", "pending", "running", "success", "abandoned"},
         blocked : Nat]
NoTile == [status |-> "none", blocked |-> 0]
Grid == [status : {"idle", "running", "finished"}, tiles : [Personas -> Tile]]
EmptyGrid == [status |-> "idle", tiles |-> [p \in Personas |-> NoTile]]

Init ==
    /\ HubInit
    /\ exec = "created"
    /\ status = "running"
    /\ report = FALSE
    /\ stage = [p \in Personas |-> "waiting"]
    /\ step = [p \in Personas |-> 0]
    /\ denials = 0
    /\ shields = [p \in Personas |-> 0]
    /\ result = [p \in Personas |-> "error"]
    /\ conn = [v \in Viewers |-> "off"]
    /\ live = [v \in Viewers |-> EmptyGrid]

-----------------------------------------------------------------------------
(* _execute.                                                               *)

Start ==
    /\ exec = "created"
    /\ Publish(RunEvent("run_started"))
    /\ exec' = "probing"
    /\ UNCHANGED <<status, report, stage, step, denials, shields, result, viewer>>

\* _capture_target returned a status below 400, or none; gather starts the personas.
ProbePasses ==
    /\ exec = "probing"
    /\ exec' = "gathering"
    /\ stage' = [p \in Personas |-> "starting"]
    /\ UNCHANGED <<hub, status, report, step, denials, shields, result, viewer>>

\* Mutants of EndInError: the exception is recorded, but not announced, or announced
\* and not recorded.
EndInErrorSilently ==
    /\ status' = "error"
    /\ exec' = "ended"
    /\ UNCHANGED <<hub, report, stage, step, denials, shields, result, viewer>>

EndInErrorUnrecorded ==
    /\ exec' = "ended"
    /\ Publish(RunEvent("run_finished"))
    /\ UNCHANGED <<status, report, stage, step, denials, shields, result, viewer>>

\* The run is over with an error: the target is broken, or something raised.
EndInError ==
    /\ status' = "error"
    /\ exec' = "ended"
    /\ Publish(RunEvent("run_finished"))
    /\ UNCHANGED <<report, stage, step, denials, shields, result, viewer>>

ProbeFails == exec = "probing" /\ EndInError

AllReturned == \A p \in Personas : stage[p] = "returned"

\* Mutant of Gathered: the first persona to return ends the wait.
GatheredFirst ==
    /\ exec = "gathering"
    /\ \E p \in Personas : stage[p] = "returned"

\* `await asyncio.gather(...)` returns.
Gathered == exec = "gathering" /\ AllReturned

\* The report is built and the exit interviews, which are awaited, begin.
Build ==
    /\ Gathered
    /\ exec' = "narrating"
    /\ UNCHANGED <<hub, status, report, stage, step, denials, shields, result, viewer>>

\* Building the report raises.
BuildRaises == Gathered /\ EndInError

\* Mutant of Announce: run_finished goes out before set_report.
AnnounceBeforeReport ==
    /\ exec = "narrating"
    /\ exec' = "ended"
    /\ Publish(RunEvent("run_finished"))
    /\ UNCHANGED <<status, report, stage, step, denials, shields, result, viewer>>

\* Insights and HTML are guarded; set_report and the last event follow without an await.
Announce ==
    /\ exec = "narrating"
    /\ report' = TRUE
    /\ status' = "finished"
    /\ exec' = "ended"
    /\ Publish(RunEvent("run_finished"))
    /\ UNCHANGED <<stage, step, denials, shields, result, viewer>>

Execute == Start \/ ProbePasses \/ ProbeFails \/ Build \/ BuildRaises \/ Announce

-----------------------------------------------------------------------------
(* A persona's session, as the rest of the run sees it: Session.tla has    *)
(* the loop.                                                               *)

Go(p, next) == stage' = [stage EXCEPT ![p] = next]

\* The factories, new_context or new_page raise: _run_one makes it an ERROR result
\* and no event says so.
RunnerRaises(p) ==
    /\ stage[p] = "starting"
    /\ Go(p, "returned")
    /\ UNCHANGED <<hub, exec, status, report, step, denials, shields, result, viewer>>

\* The context is there, with the policy's handler on every request of it.
Open(p) ==
    /\ stage[p] = "starting"
    /\ Go(p, "opening")
    /\ UNCHANGED <<hub, exec, status, report, step, denials, shields, result, viewer>>

\* goto returned a page.
Begin(p) ==
    /\ stage[p] = "opening"
    /\ Go(p, "looping")
    /\ Publish(PersonaEvent("persona_started", p, ""))
    /\ UNCHANGED <<exec, status, report, step, denials, shields, result, viewer>>

\* goto raised or the target answered with an error; the outcome is ERROR.
GotoFails(p) ==
    /\ stage[p] = "opening"
    /\ Go(p, "closing")
    /\ UNCHANGED <<hub, exec, status, report, step, denials, shields, result, viewer>>

TakeStep(p) ==
    /\ stage[p] = "looping"
    /\ step[p] < MaxSteps
    /\ step' = [step EXCEPT ![p] = @ + 1]
    /\ Publish(PersonaEvent("step", p, ""))
    /\ UNCHANGED <<exec, status, report, stage, denials, shields, result, viewer>>

\* The loop comes to an outcome, is cancelled or raises.
EndLoop(p) ==
    /\ stage[p] = "looping"
    /\ \E o \in Outcome :
        /\ o # "error" => step[p] > 0
        /\ result' = [result EXCEPT ![p] = o]
    /\ Go(p, "closing")
    /\ UNCHANGED <<hub, exec, status, report, step, denials, shields, viewer>>

\* The context is closed and the session returns.
Finish(p) ==
    /\ stage[p] = "closing"
    /\ Go(p, "returned")
    /\ Publish(PersonaEvent("persona_finished", p, result[p]))
    /\ UNCHANGED <<exec, status, report, step, denials, shields, result, viewer>>

\* The page makes a request that the policy denies; its handler awaits the abort.
Deny(p) ==
    /\ stage[p] \in {"opening", "looping", "closing"}
    /\ denials < MaxDenials
    /\ denials' = denials + 1
    /\ shields' = [shields EXCEPT ![p] = @ + 1]
    /\ UNCHANGED <<hub, exec, status, report, stage, step, result, viewer>>

\* The abort is over, possibly after the session: it raised, the step has had its
\* event, or the event is sent.
Shield(p) ==
    /\ shields[p] > 0
    /\ shields' = [shields EXCEPT ![p] = @ - 1]
    /\ Publish(PersonaEvent("step", p, "shield")) \/ UNCHANGED hub
    /\ UNCHANGED <<exec, status, report, stage, step, denials, result, viewer>>

Session(p) ==
    \/ RunnerRaises(p) \/ Open(p) \/ Begin(p) \/ GotoFails(p) \/ TakeStep(p)
    \/ EndLoop(p) \/ Finish(p)

-----------------------------------------------------------------------------
(* The viewers: ws_runs on the server, useRunStream and reduceEvent in the *)
(* browser.                                                                *)

\* Mutant of Tiled: a late step puts a finished tile back to running.
TiledAlways(tile, e) ==
    CASE e.event = "step" -> [status |-> "running", blocked |-> tile.blocked]
      [] e.event = "persona_started" -> [tile EXCEPT !.status = "running"]
      [] OTHER -> [tile EXCEPT !.status = IF e.detail = "success" THEN "success"
                                                                  ELSE "abandoned"]

\* reduceEvent on the tile of the event's persona.
Tiled(tile, e) ==
    CASE e.event = "step" ->
           IF tile.status \in {"success", "abandoned"} THEN tile
           ELSE [status  |-> "running",
                 blocked |-> tile.blocked + (IF e.detail = "shield" THEN 1 ELSE 0)]
      [] e.event = "persona_started" -> [tile EXCEPT !.status = "running"]
      [] OTHER -> [tile EXCEPT !.status = IF e.detail = "success" THEN "success"
                                                                  ELSE "abandoned"]

\* reduceEvent.
Reduce(grid, e) ==
    CASE e.event = "run_started" ->
           [status |-> "running",
            tiles  |-> [p \in Personas |-> [status |-> "pending", blocked |-> 0]]]
      [] e.event = "run_finished" -> [grid EXCEPT !.status = "finished"]
      [] OTHER -> IF grid.tiles[e.persona].status = "none" THEN grid
                  ELSE [grid EXCEPT !.tiles[e.persona] = Tiled(@, e)]

Connect(v) ==
    /\ conn[v] = "off"
    /\ conn' = [conn EXCEPT ![v] = "open"]
    /\ Subscribe(v)
    /\ UNCHANGED <<swarm, live>>

\* send_json, and the end of the endpoint once it has sent run_finished.
Send(v) ==
    /\ conn[v] = "open"
    /\ queue[v] # <<>>
    /\ live' = [live EXCEPT ![v] = Reduce(@, Head(queue[v]))]
    /\ Take(v, Head(queue[v]).event = "run_finished")
    /\ conn' = IF Head(queue[v]).event = "run_finished"
               THEN [conn EXCEPT ![v] = "closed"] ELSE conn
    /\ UNCHANGED swarm

\* The browser closes the page or loses the network; it does not connect again, and
\* the endpoint, which only ever sends, does not see it.
Leave(v) ==
    /\ conn[v] = "open"
    /\ conn' = [conn EXCEPT ![v] = "gone"]
    /\ UNCHANGED <<hub, swarm, live>>

\* Mutant of SendFails: the error is swallowed inside the loop.
SendFailsSwallowed(v) ==
    /\ conn[v] = "gone"
    /\ queue[v] # <<>>
    /\ Take(v, FALSE)
    /\ UNCHANGED <<swarm, viewer>>

\* send_json to a viewer that has gone: it may raise, which ends the endpoint.
SendFails(v) ==
    /\ conn[v] = "gone"
    /\ queue[v] # <<>>
    /\ \E leaving \in BOOLEAN :
        /\ Head(queue[v]).event = "run_finished" => leaving
        /\ Take(v, leaving)
        /\ conn' = IF leaving THEN [conn EXCEPT ![v] = "closed"] ELSE conn
    /\ UNCHANGED <<swarm, live>>

Serve(v) == Send(v) \/ SendFails(v)

-----------------------------------------------------------------------------

Next ==
    \/ Execute
    \/ \E p \in Personas : Session(p) \/ Deny(p) \/ Shield(p)
    \/ \E v \in Viewers : Connect(v) \/ Serve(v) \/ Leave(v)

Spec == Init /\ [][Next]_vars

\* asyncio runs a ready task; a session ends because its navigation, its steps and
\* its wall clock are all bounded.  Nothing makes a viewer come or go.
Fairness ==
    /\ WF_vars(Execute)
    /\ \A p \in Personas : WF_vars(Session(p)) /\ WF_vars(Shield(p))
    /\ \A v \in Viewers : WF_vars(Serve(v))

FairSpec == Spec /\ Fairness

-----------------------------------------------------------------------------
(* Properties.                                                             *)

\* The variables have the types of the code's attributes and locals.
TypeOK ==
    /\ HubTypeOK(Event)
    /\ exec \in {"created", "probing", "gathering", "narrating", "ended"}
    /\ status \in {"running", "finished", "error"}
    /\ report \in BOOLEAN
    /\ stage \in [Personas -> {"waiting", "starting", "opening", "looping",
                               "closing", "returned"}]
    /\ step \in [Personas -> 0 .. MaxSteps]
    /\ denials \in 0 .. MaxDenials
    /\ shields \in [Personas -> 0 .. denials]
    /\ result \in [Personas -> Outcome]
    /\ conn \in [Viewers -> {"off", "open", "gone", "closed"}]
    /\ live \in [Viewers -> Grid]
    /\ \A v \in Viewers : v \in subscribers <=> conn[v] \in {"open", "gone"}

\* After run_finished nothing is published but the notice of a request that was
\* denied before: no viewer is told of a run's end while personas still report.
FinishedIsLast ==
    \A i, k \in 1 .. Len(log) :
        i < k /\ log[i].event = "run_finished" => log[k].detail = "shield"

\* A viewer that has seen the end of the run finds it closed in the registry, with
\* the report unless the run ended in error (GET /runs/{id}/report answers 425
\* otherwise, and the page asks once).
ReportReady ==
    \A v \in Viewers : live[v].status = "finished" =>
        /\ status # "running"
        /\ status = "finished" => report

\* Why the two hold: the personas' sessions are over before _execute is, and nobody
\* hears of the end before it is recorded.
EndIsRecorded ==
    /\ exec \in {"created", "probing"} => \A p \in Personas : stage[p] = "waiting"
    /\ exec \in {"narrating", "ended"} =>
          \A p \in Personas : stage[p] \in {"waiting", "returned"}
    /\ exec = "ended" => status # "running"
    /\ status = "finished" => report
    /\ \A i \in 1 .. Len(log) : log[i].event = "run_finished" => exec = "ended"
    /\ \A v \in Viewers : live[v].status = "finished" => exec = "ended"

IInv == TypeOK /\ QueueIsSuffix /\ FinishedIsLast /\ EndIsRecorded

\* The grid has its tiles.
Created(grid) == \A p \in Personas : grid.tiles[p].status # "none"

\* Whenever a viewer joined, once it has drawn what is still in its queue it shows
\* what a viewer shows that was there from the start, down to the number of blocked
\* requests; unless run_started had left the buffer before it joined.
JoinedLateSameGrid ==
    \A v \in Viewers :
        LET drawn == Folds!FoldLeft(Reduce, live[v], queue[v])
        IN  conn[v] = "open" /\ Created(drawn)
               => drawn = Folds!FoldLeft(Reduce, EmptyGrid, log)

\* When a viewer sees the end of a run with a report, its tiles say what the report
\* says: success is success, and a tile that never ended belongs to a session that
\* failed before it could say so.
GridMatchesReport ==
    \A v \in Viewers : live[v].status = "finished" /\ report /\ Created(live[v]) =>
        \A p \in Personas :
            /\ live[v].tiles[p].status = "success" <=> result[p] = "success"
            /\ live[v].tiles[p].status \in {"pending", "running"} => result[p] = "error"

\* A connected viewer is told of the end of the run or has gone.
ViewerSeesEnd ==
    \A v \in Viewers :
        conn[v] = "open" ~> live[v].status = "finished" \/ conn[v] # "open"

\* No endpoint serves a run for ever: even the queue of a viewer that has gone
\* unnoticed leaves the hub.
EndpointsReturn == \A v \in Viewers : v \in subscribers ~> v \notin subscribers
=============================================================================
