---------------------------- MODULE RecordedDemo ----------------------------
(***************************************************************************)
(* The two runs that `sim try' replays without a model key: how each of    *)
(* the five sessions ended, and the survival, the heat and the rate that   *)
(* were recorded beside them.                                              *)
(***************************************************************************)
EXTENDS Report

Completed(n) ==
    [outcome |-> "success", steps |-> n, died |-> None, at |-> NoPixel, again |-> FALSE]
Died(how, step, pixel) ==
    [outcome |-> how, steps |-> step + 1, died |-> step, at |-> pixel, again |-> how = "stuck"]
Row(how, n) == [outcome |-> how, completed |-> how = "success", steps |-> n]

\* The personas that were recorded.
Demo == {"fluent", "ai-agent", "rushed", "mobile-thumb", "misclick-prone"}

StepsToFinish(p) == IF p = "misclick-prone" THEN 5 ELSE 4

WorkingSessions == [p \in Demo |-> Completed(StepsToFinish(p))]

\* CASSETTE_JSON
Working ==
    [results |-> WorkingSessions,
     survival |-> [p \in Demo |-> Row("success", StepsToFinish(p))],
     heat |-> <<>>, rate |-> <<5, 5>>]

BrokenSessions ==
    [p \in Demo |->
        CASE p \in {"fluent", "ai-agent"} -> Died("stuck", 5, <<638, 566>>)
          [] p = "rushed" -> Died("stuck", 7, <<638, 568>>)
          [] p = "mobile-thumb" -> Died("step_budget", 6, <<6, 491>>)
          [] OTHER -> Died("step_budget", 5, <<475, 478>>)]

\* CASSETTE_BROKEN_JSON
Broken ==
    [results |-> BrokenSessions,
     survival |->
        [p \in Demo |->
            CASE p \in {"fluent", "ai-agent"} -> Row("stuck", 5)
              [] p = "rushed" -> Row("stuck", 7)
              [] p = "mobile-thumb" -> Row("step_budget", 6)
              [] OTHER -> Row("step_budget", 5)],
     heat |->
        [p \in Demo |->
            CASE p \in {"fluent", "ai-agent"} -> <<638, 566>>
              [] p = "rushed" -> <<638, 568>>
              [] p = "mobile-thumb" -> <<6, 491>>
              [] OTHER -> <<475, 478>>],
     rate |-> <<0, 5>>]
=============================================================================
