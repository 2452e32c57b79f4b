------------------------------ MODULE Session -------------------------------
(***************************************************************************)
(* PlaywrightSessionRunner.run (runner/session.py): one persona drives one *)
(* page.  The loop awaits the screenshot, the model, the page and its      *)
(* success signal; between any two of these the policy's route handlers,   *)
(* which are tasks of their own, may run, and the wall-clock cap may       *)
(* cancel the loop.                                                        *)
(***************************************************************************)
EXTENDS Integers, Sequences

CONSTANTS
    Captions,      \* what the model may decide, as the caption that names it
    Answers,       \* the captions of ActionType.ANSWER
    Spot,          \* the spot a click is at, or NoSpot: near clicks share one
    NoSpot,
    Verified,      \* is there a success predicate?
    MaxSteps,      \* persona.max_steps
    Deadline,      \* persona.deadline_s, in units of _THINK_TIME_S
    MaxActing,     \* bound: how long an action may take, in the same units
    MaxDenials     \* bound: requests that the policy denies

ASSUME SessionAssumption ==
    /\ Answers \subseteq Captions
    /\ \A c \in Answers : Spot[c] = NoSpot
    /\ Verified \in BOOLEAN
    /\ MaxSteps \in Nat \ {0}
    /\ Deadline \in Nat \ {0}
    /\ MaxActing \in Nat
    /\ MaxDenials \in Nat

VARIABLES
    pc,          \* the await that run is at
    n,           \* state["current_step"]
    steps,       \* the StepRecords: action and note
    history,     \* the captions, and whether NO_CHANGE_NOTE was added
    sim,         \* state["sim_s"]
    outcome,     \* state["outcome"], "none" for None
    reason,      \* which text state["failure_reason"] holds
    seen,        \* what the last is_success returned
    denials,     \* requests denied so far
    shields,     \* route handlers that await the abort of a denied request
    shielded     \* the events sent about denied requests, by step

vars == <<pc, n, steps, history, sim, outcome, reason, seen, denials, shields,
          shielded>>

Verdict == {"step_budget", "time_budget", "stuck"}
Outcome == {"none", "success", "error"} \union Verdict
Reason == {"", "http", "raised", "cap", "repeated", "unverified", "steps", "time"}
Note == {"", "policy_blocked", "answer_unverified"}
StepRecord == [action : Captions, note : Note]
Entry == [caption : Captions, same : BOOLEAN]

InLoop == {"screenshot", "decide", "verify", "check", "act", "recheck"}
Pc == InLoop \union {"goto", "close", "returned"}

Init ==
    /\ pc = "goto"
    /\ n = 0
    /\ steps = <<>>
    /\ history = <<>>
    /\ sim = 0
    /\ outcome = "none"
    /\ reason = ""
    /\ seen = FALSE
    /\ denials = 0
    /\ shields = 0
    /\ shielded = [k \in 0 .. MaxSteps - 1 |-> 0]

Policy == <<denials, shields, shielded>>

-----------------------------------------------------------------------------
(* detect.is_stuck on the last three entries of the history.               *)

LastThree(h) == SubSeq(h, Len(h) - 2, Len(h))

SameCaption(h) == \A e \in {h[i] : i \in 1 .. 3} : e.caption = h[1].caption

\* Clicks on one spot, and the screen did not change after two of them.
DeadSpot(h) ==
    /\ Spot[h[1].caption] # NoSpot
    /\ \A i \in 2 .. 3 : Spot[h[i].caption] = Spot[h[1].caption]
    /\ \E i, k \in 1 .. 3 : i # k /\ h[i].same /\ h[k].same

IsStuck(h) ==
    Len(h) >= 3 /\ (SameCaption(LastThree(h)) \/ DeadSpot(LastThree(h)))

-----------------------------------------------------------------------------
(* The loop.                                                               *)

\* The loop returns, or run leaves it; the finally clause names the reason of a
\* verdict that has none, and the place is that of the last step.
End(o, why) ==
    /\ outcome' = o
    /\ reason' = why
    /\ pc' = "close"

GoOn(next) ==
    /\ pc' = next
    /\ UNCHANGED <<outcome, reason>>

\* page.goto: PersonaStarted is sent and the loop begins, or the session is over.
Goto ==
    /\ pc = "goto"
    /\ \/ GoOn("screenshot")
       \/ \E why \in {"http", "raised"} : End("error", why)
    /\ UNCHANGED <<n, steps, history, sim, seen, Policy>>

\* The frame is taken; it may look like the one before the last action.
Screenshot ==
    /\ pc = "screenshot"
    /\ \/ UNCHANGED history
       \/ history # <<>> /\ history' = [history EXCEPT ![Len(history)].same = TRUE]
    /\ GoOn("decide")
    /\ UNCHANGED <<n, steps, sim, seen, Policy>>

\* Mutant of Decide: the model's word is enough.
DecideTrusts ==
    /\ pc = "decide"
    /\ \E c \in Captions :
        /\ steps' = Append(steps, [action |-> c, note |-> ""])
        /\ IF c \in Answers THEN End("success", "") ELSE GoOn("check")
    /\ UNCHANGED <<n, history, sim, seen, Policy>>

\* The model answers: the record is appended and the event sent.  A claim that the
\* task is done is believed only if there is nothing to verify it with.
Decide ==
    /\ pc = "decide"
    /\ \E c \in Captions :
        /\ steps' = Append(steps, [action |-> c, note |-> ""])
        /\ IF c \notin Answers THEN GoOn("check")
           ELSE IF Verified THEN GoOn("verify")
           ELSE End("success", "")
    /\ UNCHANGED <<n, history, sim, seen, Policy>>

Current == steps[Len(steps)]

Noted(note) ==
    IF Current.note = "" THEN [steps EXCEPT ![Len(steps)].note = note] ELSE steps

\* The head of the loop, up to the screenshot, or the range is exhausted.
NextStep ==
    IF n + 1 < MaxSteps THEN n' = n + 1 /\ GoOn("screenshot")
                        ELSE UNCHANGED n /\ End("step_budget", "steps")

\* is_success: the page shows its success signal, or does not; False without a
\* predicate, and when the predicate raises.
Look == seen' \in {Verified, FALSE}

Remember(c) == history' = Append(history, [caption |-> c, same |-> FALSE])

\* Mutant of Verify: a rejected claim is not counted as a step.
VerifyUncounted ==
    /\ pc = "verify"
    /\ Look
    /\ IF seen' THEN End("success", "") /\ UNCHANGED <<steps, history>>
       ELSE /\ steps' = Noted("answer_unverified")
            /\ Remember(Current.action)
            /\ GoOn("screenshot")
    /\ UNCHANGED <<n, sim, Policy>>

\* A claim that the task is done, with a predicate to verify it.
Verify ==
    /\ pc = "verify"
    /\ Look
    /\ \/ /\ seen'
          /\ End("success", "")
          /\ UNCHANGED <<n, steps, history>>
       \/ /\ ~seen'
          /\ steps' = Noted("answer_unverified")
          /\ Remember(Current.action)
          /\ IF IsStuck(history') THEN End("stuck", "unverified") /\ UNCHANGED n
                                  ELSE NextStep
    /\ UNCHANGED <<sim, Policy>>

\* Before acting: has the task been done, is the history a loop?
Check ==
    /\ pc = "check"
    /\ Look
    /\ IF seen' THEN End("success", "")
       ELSE IF IsStuck(history) THEN End("stuck", "repeated")
       ELSE GoOn("act")
    /\ UNCHANGED <<n, steps, history, sim, Policy>>

\* execute_action and _settle; the persona's clock is charged.
Act ==
    /\ pc = "act"
    /\ Remember(Current.action)
    /\ \E acting \in 0 .. MaxActing : sim' = sim + 1 + acting
    /\ GoOn("recheck")
    /\ UNCHANGED <<n, steps, seen, Policy>>

\* Mutant of Recheck: patience runs out before the page is looked at.
RecheckLate ==
    /\ pc = "recheck"
    /\ Look
    /\ IF sim >= Deadline THEN End("time_budget", "time") /\ UNCHANGED n
       ELSE IF seen' THEN End("success", "") /\ UNCHANGED n
       ELSE NextStep
    /\ UNCHANGED <<steps, history, sim, Policy>>

\* After acting: success first, then patience.
Recheck ==
    /\ pc = "recheck"
    /\ Look
    /\ IF seen' THEN End("success", "") /\ UNCHANGED n
       ELSE IF sim >= Deadline THEN End("time_budget", "time") /\ UNCHANGED n
       ELSE NextStep
    /\ UNCHANGED <<steps, history, sim, Policy>>

\* An await of the loop raises.
Raise ==
    /\ pc \in {"screenshot", "decide", "act"}
    /\ End("error", "raised")
    /\ UNCHANGED <<n, steps, history, sim, seen, Policy>>

\* Mutant of WallCap: looked at only between steps.
WallCapBetweenSteps ==
    /\ pc = "screenshot"
    /\ End("error", "cap")
    /\ UNCHANGED <<n, steps, history, sim, seen, Policy>>

\* wait_for cancels the loop at whatever await it is.
WallCap ==
    /\ pc \in InLoop
    /\ End("error", "cap")
    /\ UNCHANGED <<n, steps, history, sim, seen, Policy>>

\* context.close; PersonaFinished is sent and the result returned.
Close ==
    /\ pc = "close"
    /\ pc' = "returned"
    /\ UNCHANGED <<n, steps, history, sim, outcome, reason, seen, Policy>>

-----------------------------------------------------------------------------
(* The policy.                                                             *)

\* _enforce: the page makes a request that the policy denies.
Deny ==
    /\ pc # "returned"
    /\ denials < MaxDenials
    /\ denials' = denials + 1
    /\ shields' = shields + 1
    /\ UNCHANGED <<pc, n, steps, history, sim, outcome, reason, seen, shielded>>

\* Mutants of Shield: the note of the record is overwritten, and every denied
\* request is announced.
ShieldOverwrites ==
    /\ shields > 0
    /\ shields' = shields - 1
    /\ steps' = IF steps = <<>> THEN steps
                ELSE [steps EXCEPT ![Len(steps)].note = "policy_blocked"]
    /\ shielded' = [shielded EXCEPT ![n] = 1]
    /\ UNCHANGED <<pc, n, history, sim, outcome, reason, seen, denials>>
ShieldSpams ==
    /\ shields > 0
    /\ shields' = shields - 1
    /\ steps' = IF steps = <<>> THEN steps ELSE Noted("policy_blocked")
    /\ shielded' = [shielded EXCEPT ![n] = @ + 1]
    /\ UNCHANGED <<pc, n, history, sim, outcome, reason, seen, denials>>

\* The abort is over: the last record is annotated and the step's one event sent;
\* or the abort raised and nothing is recorded.
Shield ==
    /\ shields > 0
    /\ shields' = shields - 1
    /\ \/ /\ steps' = IF steps = <<>> THEN steps ELSE Noted("policy_blocked")
          /\ shielded' = [shielded EXCEPT ![n] = IF @ = 0 THEN 1 ELSE @]
       \/ UNCHANGED <<steps, shielded>>
    /\ UNCHANGED <<pc, n, history, sim, outcome, reason, seen, denials>>

-----------------------------------------------------------------------------

Loop == Screenshot \/ Decide \/ Verify \/ Check \/ Act \/ Recheck \/ Raise

Next == Goto \/ Loop \/ WallCap \/ Close \/ Deny \/ Shield

Spec == Init /\ [][Next]_vars

\* The timer of wait_for fires, goto has a timeout, a context closes.  The model
\* need not answer and the page need not react.
Fairness == WF_vars(Goto) /\ WF_vars(WallCap) /\ WF_vars(Close)

FairSpec == Spec /\ Fairness

-----------------------------------------------------------------------------
(* Properties.                                                             *)

\* A pass of the loop leaves one record, and one entry of the history once its action is
\* over; there is an outcome when the loop has ended, and not before.
Counted ==
    /\ outcome = "none" <=> pc \notin {"close", "returned"}
    /\ pc \in {"goto", "screenshot", "decide"} => Len(steps) = n /\ Len(history) = n
    /\ pc \in {"verify", "check", "act"} => Len(steps) = n + 1 /\ Len(history) = n
    /\ pc = "recheck" => Len(steps) = n + 1 /\ Len(history) = n + 1
    /\ Len(steps) \in {n, n + 1}
    /\ outcome = "success" => Len(steps) = n + 1

\* The types of the code's locals.
TypeOK ==
    /\ pc \in Pc
    /\ n \in 0 .. MaxSteps - 1
    /\ steps \in Seq(StepRecord)
    /\ history \in Seq(Entry)
    /\ sim \in Nat
    /\ outcome \in Outcome
    /\ reason \in Reason
    /\ seen \in BOOLEAN
    /\ denials \in 0 .. MaxDenials
    /\ shields \in 0 .. denials
    /\ shielded \in [0 .. MaxSteps - 1 -> Nat]
    /\ Counted

\* A session counts as a completion only if the page confirmed it, or if there is no
\* predicate to ask and the model has answered.
SuccessIsReal ==
    outcome = "success" =>
        seen \/ (~Verified /\ Current.action \in Answers)

\* A verdict on the page is earned: the page, looked at once more after the last
\* action, did not confirm the task (session.py:314), and the budget that the verdict
\* names is used up while the other is not.
VerdictIsEarned ==
    outcome \in Verdict =>
        /\ ~seen
        /\ outcome = "time_budget" <=> sim >= Deadline
        /\ outcome = "step_budget" => Len(steps) = MaxSteps

\* Why verdicts are earned: patience is looked at after every action, and a page that
\* was seen to confirm the task ends the loop.
InTime ==
    /\ pc \notin {"recheck", "close", "returned"} => sim < Deadline
    /\ outcome \in {"step_budget", "stuck"} => sim < Deadline
    /\ seen => outcome = "success"

\* What a step was first noted for stays: the report counts "policy_blocked" by
\* equality, and a claim that was rejected stays rejected, whichever task is first.
NoteIsKept ==
    [][\A i \in 1 .. Len(steps) :
          /\ i <= Len(steps') /\ steps'[i].action = steps[i].action
          /\ steps[i].note # "" => steps'[i].note = steps[i].note]_vars

\* However many requests of a step are denied, and however late their handlers run,
\* the grid is told once (tests/runner/test_policy.py:258).
OneShieldPerStep == \A k \in 0 .. MaxSteps - 1 : shielded[k] <= 1

IInv == TypeOK /\ SuccessIsReal /\ VerdictIsEarned /\ InTime /\ OneShieldPerStep

\* The session returns, although the model may never answer.
SessionEnds == <>(pc = "returned")
=============================================================================
