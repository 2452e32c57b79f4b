------------------------------- MODULE Report -------------------------------
(***************************************************************************)
(* What becomes of the sessions of a run: the report, and the views of it: *)
(* the insights, the client's page and the test results for CI.  Rates are *)
(* pairs of a numerator and a denominator, credits whole numbers of Unit.  *)
(***************************************************************************)
EXTENDS Integers, FiniteSets, Sequences, FiniteSetsExt, SequencesExt, Rounding

CONSTANTS
    Roster,        \* the personas of personas/*.json, in the order of their ids
    Channels,      \* active_perturbations, by persona
    MaxSteps,      \* max_steps, by persona
    Agent,         \* the persona "ai-agent"
    Unit,          \* a full credit: a multiple of 2 * MaxSteps of everyone
    Radius         \* the pixels within which deaths cluster

Personas == ToSet(Roster)

ASSUME ReportAssumption ==
    /\ Unit \in Nat \ {0}
    /\ Radius \in Nat
    /\ Roster \in Seq(Personas)
    /\ \A p \in Personas : MaxSteps[p] \in Nat \ {0} /\ Unit % (2 * MaxSteps[p]) = 0

Outcomes == {"success", "step_budget", "time_budget", "stuck", "error"}
None == -1
NoPixel == <<>>

(***************************************************************************)
(* A session ends with an outcome after a number of recorded steps.  died  *)
(* is failure_step or None, at is failure_coords or NoPixel, and again is  *)
(* whether the failure's reason speaks of a repetition.  Who succeeds has  *)
(* died nowhere.                                                           *)
(***************************************************************************)
Result == {r \in [outcome : Outcomes, steps : Nat, died : Nat \union {None},
                 at : {NoPixel} \union (Int \X Int), again : BOOLEAN] :
              r.outcome = "success" => r.died = None /\ r.at = NoPixel}

StepsSurvived(r) == IF r.died = None THEN r.steps ELSE r.died

Width == 1280
Height == 800
Clamp(x, limit) == Max({0, Min({x, limit - 1})})

\* build_heatmap, with one point for each of the personas that have one.
Heat(results) ==
    [p \in {q \in DOMAIN results : /\ results[q].outcome # "success"
                                   /\ results[q].at # NoPixel}
        |-> <<Clamp(results[p].at[1], Width), Clamp(results[p].at[2], Height)>>]

Finished(results) == {p \in DOMAIN results : results[p].outcome = "success"}
Scored(results) == {p \in DOMAIN results : results[p].outcome # "error"}
Abandoned(results) == Scored(results) \ Finished(results)

\* The rate of the personas who finished among some; nobody's rate is 0.
RateOf(finished, among) ==
    IF among = {} THEN <<0, 1>> ELSE <<Cardinality(finished), Cardinality(among)>>

SurvivalRow(r) ==
    [outcome |-> r.outcome, completed |-> r.outcome = "success", steps |-> StepsSurvived(r)]

Build(results) ==
    [results |-> results,
     survival |-> [p \in DOMAIN results |-> SurvivalRow(results[p])],
     heat |-> Heat(results),
     rate |-> RateOf(Finished(results), Scored(results))]

\* Those of a sequence that are in a set, in their order.
Among(seq, set) == FoldLeft(LAMBDA found, x : IF x \in set THEN Append(found, x) ELSE found, <<>>, seq)

\* Who ran, in the order of the report's lists.
Listed(report) == Among(Roster, DOMAIN report.survival)

UsableResults(report) == Cardinality(Scored(report.results))

------------------------------------------------------------------------------
(* insights.py                                                             *)

Credit(p, r) ==
    IF r.outcome = "success" THEN Unit
    ELSE Min({Unit \div 2, StepsSurvived(r) * (Unit \div (2 * MaxSteps[p]))})

Criteria ==
    [blur |-> <<"1.4.3", "1.4.4">>, downscale |-> <<"1.4.3", "1.4.4">>,
     cvd |-> <<"1.4.1", "1.4.3">>, tremor |-> <<"2.5.8", "2.4.7">>,
     small_viewport |-> <<"1.4.10">>, impatience |-> <<"2.2.1", "2.4.6">>,
     low_literacy |-> <<"3.1.5", "2.4.6">>]

\* The first two criteria of the persona's channels, each named once.  Whoever
\* is bundled reads English, so the criterion on the language is never named.
WcagFindings(p) ==
    LET named == FoldLeft(LAMBDA found, c : IF c \in ToSet(found) THEN found ELSE Append(found, c),
                          <<>>, FlattenSeq([i \in DOMAIN Channels[p] |-> Criteria[Channels[p][i]]]))
    IN  SubSeq(named, 1, Min({2, Len(named)}))

RunStats(report) ==
    LET results == report.results
        survived(who) == {StepsSurvived(results[p]) : p \in who}
    IN  [total_steps |-> MapThenSumSet(LAMBDA p : results[p].steps, DOMAIN results),
         personas_succeeded |-> Cardinality(Finished(results)),
         personas_abandoned |-> Cardinality(Abandoned(results)),
         personas_errored |-> Cardinality(DOMAIN results \ Scored(results)),
         fastest_success_steps |->
             IF Finished(results) = {} THEN None ELSE Min(survived(Finished(results)))]

\* The personas alive at each step: those who finish never leave the series.
SeriesOf(who, finished, survived) ==
    IF who = {} THEN <<>>
    ELSE [i \in 1..Max({survived[p] : p \in who}) + 1 |->
             Cardinality({p \in who : p \in finished \/ survived[p] >= i - 1})]

SeriesOfSteps(report) ==
    SeriesOf(Scored(report.results), {},
             [p \in DOMAIN report.results |-> StepsSurvived(report.results[p])])

SurvivalSeries(report) ==
    SeriesOf(Scored(report.results), Finished(report.results),
             [p \in DOMAIN report.results |-> StepsSurvived(report.results[p])])

Readiness(results) ==
    IF Agent \notin DOMAIN results THEN None
    ELSE IF results[Agent].outcome = "error" THEN 0
    ELSE RoundHalfEven(100 * Credit(Agent, results[Agent]), Unit)

Credits(results) == MapThenSumSet(LAMBDA p : Credit(p, results[p]), Scored(results))

Insights(report) ==
    LET results == report.results
        scored == Scored(results)
    IN  [score |-> IF scored = {} THEN 0
                   ELSE RoundHalfEven(100 * Credits(results), Unit * Cardinality(scored)),
         readiness |-> IF scored = {} THEN None ELSE Readiness(results),
         wcag |-> [p \in Abandoned(results) |-> WcagFindings(p)],
         stats |-> RunStats(report),
         series |-> SurvivalSeries(report)]

------------------------------------------------------------------------------
(* deliverable.py: the page that is written for the client                 *)

\* What the page knows of a persona: survival, completed by its result.
RosterRow(report, p) ==
    LET row == report.survival[p]
        r == report.results[p]
    IN  [who |-> p, outcome |-> row.outcome, completed |-> row.completed,
         survived |-> row.steps,
         step |-> IF r.died = None THEN row.steps ELSE r.died,
         coords |-> IF r.at # NoPixel THEN r.at
                    ELSE IF p \in DOMAIN report.heat THEN report.heat[p] ELSE NoPixel,
         again |-> r.again]

RosterOf(report) ==
    LET listed == Listed(report)
    IN  [i \in DOMAIN listed |-> RosterRow(report, listed[i])]

Lost(row) == ~row.completed /\ row.outcome # "error"

Near(a, b) ==
    LET dx == a.coords[1] - b.coords[1]
        dy == a.coords[2] - b.coords[2]
    IN  dx * dx + dy * dy <= Radius * Radius

\* A point joins the first cluster that has a near one; clusters do not merge.
Cluster(points) ==
    LET Join(clusters, p) ==
            LET near == {i \in DOMAIN clusters : \E q \in ToSet(clusters[i]) : Near(p, q)}
            IN  IF near = {} THEN Append(clusters, <<p>>)
                ELSE [clusters EXCEPT ![Min(near)] = Append(@, p)]
    IN  FoldLeft(Join, <<>>, points)

Who(rows) == {row.who : row \in rows}

ClusterFinding(rows) ==
    LET clusters == Cluster(Among(rows, {r \in ToSet(rows) : Lost(r) /\ r.coords # NoPixel}))
        size == Max({Len(clusters[i]) : i \in DOMAIN clusters})
        best == Min({i \in DOMAIN clusters : Len(clusters[i]) = size})
    IN  IF clusters = <<>> THEN {}
        ELSE IF size < 2 THEN {} ELSE Who(ToSet(clusters[best]))

BudgetFinding(rows) ==
    Who({r \in ToSet(rows) : r.outcome \in {"step_budget", "time_budget"}})

ContrastFinding(rows) ==
    IF \E r \in ToSet(rows) : Lost(r) THEN Who({r \in ToSet(rows) : r.completed}) ELSE {}

RageFinding(rows) == Who({r \in ToSet(rows) : ~r.completed /\ r.again})

\* The kinds of finding that lead the page, each with whom it is about.
BuildFindings(rows) ==
    LET found == <<[kind |-> "cluster", who |-> ClusterFinding(rows)],
                   [kind |-> "budget", who |-> BudgetFinding(rows)],
                   [kind |-> "contrast", who |-> ContrastFinding(rows)],
                   [kind |-> "rage", who |-> RageFinding(rows)]>>
        kept == Among(found, {f \in ToSet(found) : f.who # {}})
        losses == Who({r \in ToSet(rows) : Lost(r)})
    IN  IF kept # <<>> THEN SubSeq(kept, 1, Min({3, Len(kept)}))
        ELSE IF losses = {} /\ \E r \in ToSet(rows) : r.outcome # "error"
        THEN <<[kind |-> "clean sweep", who |-> Who({r \in ToSet(rows) : r.completed})]>>
        ELSE <<[kind |-> "losses", who |-> losses]>>

\* The points of the page's heatmap.
Blobs(rows) == Who({r \in ToSet(rows) : r.coords # NoPixel /\ r.outcome # "error"})

SurvivalSeriesFromReport(report) ==
    SeriesOf({p \in DOMAIN report.survival : report.survival[p].outcome # "error"},
             {p \in DOMAIN report.survival : report.survival[p].completed},
             [p \in DOMAIN report.survival |-> report.survival[p].steps])

Deliverable(report) ==
    LET rows == RosterOf(report)
        tried == {r \in ToSet(rows) : r.outcome # "error"}
        won == {r \in ToSet(rows) : r.completed}
    IN  [findings |-> BuildFindings(rows),
         non_error |-> Cardinality(tried),
         successes |-> Cardinality(won),
         every |-> Cardinality(tried) = Cardinality(won) /\ tried # {},
         completion_pct |-> RoundHalfEven(100 * report.rate[1], report.rate[2]),
         blobs |-> Blobs(rows),
         series |-> SurvivalSeriesFromReport(report)]

------------------------------------------------------------------------------
(* html_report.py: the plain page.  Its curve needs two points, and a bar  *)
(* is as long as its share of the longest survival.                        *)

SurvivalCurve(series) == IF Len(series) < 2 THEN <<>> ELSE series

RenderHtml(report) ==
    LET results == report.results
        steps == {report.survival[p].steps : p \in DOMAIN report.survival}
        longest == Max({1} \union steps)
    IN  [non_error |-> Cardinality(Scored(results)),
         successes |-> Cardinality(Finished(results)),
         completion_pct |-> RoundHalfEven(100 * report.rate[1], report.rate[2]),
         curve |-> SurvivalCurve(Insights(report).series),
         bars |-> [p \in DOMAIN report.survival |->
                      (400 * report.survival[p].steps) \div longest]]

------------------------------------------------------------------------------
(* ci_output.py: the test results                                          *)

Completions(report) ==
    LET counted == {p \in DOMAIN report.survival : report.survival[p].outcome # "error"}
    IN  <<Cardinality({p \in counted : report.survival[p].completed}), Cardinality(counted)>>

JunitXml(report) ==
    [p \in DOMAIN report.survival |->
        IF report.survival[p].completed THEN "passed"
        ELSE IF report.survival[p].outcome = "error" THEN "error" ELSE "failure"]

------------------------------------------------------------------------------
(* render.py: the table that every command prints                          *)

PrintSummary(report) ==
    [rows |-> Cardinality(DOMAIN report.survival),
     passed |-> Cardinality({p \in DOMAIN report.survival : report.survival[p].completed})]

------------------------------------------------------------------------------

NonIncreasing(series) == \A i \in 1..Len(series) - 1 : series[i] >= series[i + 1]
Tests(report, verdict) == Cardinality({p \in DOMAIN report.survival : JunitXml(report)[p] = verdict})

(***************************************************************************)
(* Whatever way the sessions end, the views agree.  The rate that the gate *)
(* reads is that of its own recount, of both pages and of the CI outputs;  *)
(* the test results split the personas as the statistics do; the survival  *)
(* curves are one, start with everyone who could act and never rise; a     *)
(* full score, a clean sweep and "every segment completed" all mean that   *)
(* nobody who could act gave up; nobody whose session broke is blamed in a *)
(* finding about where or why users gave up, or drawn into the heat.       *)
(***************************************************************************)
ViewsAgreeOn(report) ==
    \A page \in {Deliverable(report)} :
    LET insights == Insights(report)
        plain == RenderHtml(report)
        stats == insights.stats
        done == Completions(report)
        clean == report.rate[1] = report.rate[2]
        failed == Abandoned(report.results)
    IN  /\ report.rate = IF done[2] = 0 THEN <<0, 1>> ELSE done
        /\ done = <<page.successes, page.non_error>>
        /\ done = <<plain.successes, plain.non_error>>
        /\ PrintSummary(report).passed = done[1]
        /\ plain.completion_pct = page.completion_pct
        /\ Tests(report, "passed") = stats.personas_succeeded
        /\ Tests(report, "failure") = stats.personas_abandoned
        /\ Tests(report, "error") = stats.personas_errored
        /\ insights.series = page.series
        /\ NonIncreasing(page.series)
        /\ page.series # <<>> => Head(page.series) = done[2] /\ Last(page.series) >= done[1]
        /\ (insights.score = 100) <=> clean
        /\ page.every <=> clean
        /\ Head(page.findings).kind = "clean sweep" => clean
        /\ \A i \in DOMAIN page.findings :
              page.findings[i].kind \in {"cluster", "budget", "losses"} =>
                 page.findings[i].who \subseteq failed
        /\ page.blobs = failed \intersect DOMAIN report.heat
        /\ DOMAIN insights.wcag \intersect Finished(report.results) = {}
=============================================================================
