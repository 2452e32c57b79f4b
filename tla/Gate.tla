-------------------------------- MODULE Gate --------------------------------
(***************************************************************************)
(* The `sim' command line (cli/main.py): one process at a time, each one   *)
(* finding in the output directory what the ones before it left, and each  *)
(* stopped at any point by Ctrl-C or by a write that fails.                *)
(***************************************************************************)
EXTENDS RecordedDemo

CONSTANTS
    Flags,         \* what an invocation may pass and find, see Preflight
    Sessions,      \* the ways a swarm may end: results, by persona
    Bars,          \* [kind, at]: kind is "last", "bar" or "junk", at in hundredths
    Margins,       \* --margin, in hundredths
    NoReport,      \* a report.json or baseline.json that does not exist
    Torn,          \* one whose write was cut short
    Elsewhere      \* what --from and --baseline may name outside the output directory

ASSUME GateAssumption ==
    /\ \A b \in Bars : b.kind \in {"last", "bar", "junk"} /\ b.at \in Int
    /\ Margins \subseteq Nat
    /\ \A s \in Sessions : DOMAIN s \subseteq Personas /\ IsFiniteSet(DOMAIN s)
                           /\ \A p \in DOMAIN s : s[p] \in Result
    /\ NoReport \notin {Working, Broken} /\ Torn \notin {Working, Broken}
    /\ Elsewhere \subseteq {Build(s) : s \in Sessions} \union {NoReport, Torn}

VARIABLES
    yml,           \* sim.yml: "none", "good" or "junk"
    report,        \* <out>/report.json
    baseline,      \* <out>/baseline.json
    papers,        \* what the CI outputs say, "stale" what an earlier process wrote
    job,           \* the subcommand, where its --from is, and the swarm's personas
    phase,         \* where the process is, "idle" when there is none
    run,           \* the report it holds
    against,       \* the baseline it compared with
    result,        \* its RegressionResult
    exit           \* the exit code of the last process

vars == <<yml, report, baseline, papers, job, phase, run, against, result, exit>>

Papers == <<"summary.md", "pr-comment.md", "junit.xml">>
Commands == {"init", "try", "run", "gate", "baseline"}
Verdicts == {"pass", "functional_fail", "behavioral_regression"}
Reports == {Build(s) : s \in Sessions}
NoResult == [passed |-> TRUE, verdict |-> "none"]

Init ==
    /\ yml \in {"none", "good", "junk"}
    /\ report = NoReport
    /\ baseline = NoReport
    /\ papers = [i \in DOMAIN Papers |-> "none"]
    /\ job = [cmd |-> "init", from |-> "none", panel |-> {}]
    /\ phase = "idle"
    /\ run = NoReport
    /\ against = NoReport
    /\ result = NoResult
    /\ exit = "none"

------------------------------------------------------------------------------
(* regression.py                                                           *)

Rows(r, outcome) == {p \in DOMAIN r.survival : r.survival[p].outcome = outcome}
Done(r) == {p \in DOMAIN r.survival : r.survival[p].completed}
Real(r) == DOMAIN r.survival \ Rows(r, "error")

CompletionAmongAll(r, excluded) == RateOf(Done(r), Real(r))
CompletionExcluding(r, excluded) == RateOf(Done(r) \ excluded, Real(r) \ excluded)

\* The report's own rate if it is positive, else the recount.
Completion(r) == IF r.rate[1] > 0 THEN r.rate ELSE CompletionExcluding(r, {})

\* _functional_probe_ids: the personas that ran without a perturbation.
Probes(r) == {p \in DOMAIN r.survival : Channels[p] = <<>>}

FunctionalOk(r, probes) ==
    IF probes \intersect Done(r) # {} THEN "yes"
    ELSE IF probes \intersect Real(r) # {} THEN "no" ELSE "unknown"

ErroredNow(r) == Rows(r, "error")

Regressed(now, base) ==
    {p \in Done(base) \ ErroredNow(now) : p \notin Done(now)}

DeadZoneGrid == 40
ClusteredZones(r) ==
    {<<RoundHalfEven(r.heat[p][1], DeadZoneGrid), RoundHalfEven(r.heat[p][2], DeadZoneGrid)>> :
        p \in DOMAIN r.heat}

\* rate >= bar, and a rate that is no more than margin below another one.
AtLeast(rate, bar) == 100 * rate[1] >= bar * rate[2]
NotBelow(rate, base, margin) ==
    100 * rate[1] * base[2] + margin * rate[2] * base[2] >= 100 * base[1] * rate[2]

\* Are enough of the personas through?  Without a baseline there is no bar.
Enough(now, base, bar, margin) ==
    IF bar.kind = "bar" THEN AtLeast(Completion(now), bar.at)
    ELSE IF base = NoReport THEN TRUE
    ELSE LET out == ErroredNow(now)
         IN  IF out = {} THEN NotBelow(Completion(now), Completion(base), margin)
             ELSE NotBelow(CompletionExcluding(now, out), CompletionExcluding(base, out), margin)

VerdictOf(now, base, bar, margin) ==
    IF FunctionalOk(now, Probes(now)) = "no" THEN "functional_fail"
    ELSE IF Enough(now, base, bar, margin) THEN "pass" ELSE "behavioral_regression"

Compare(now, base, bar, margin) ==
    [passed |-> VerdictOf(now, base, bar, margin) = "pass",
     verdict |-> VerdictOf(now, base, bar, margin),
     bar |-> bar, margin |-> margin,
     regressed_personas |-> IF base = NoReport THEN {} ELSE Regressed(now, base),
     new_dead_zones |-> IF base = NoReport THEN {}
                        ELSE ClusteredZones(now) \ ClusteredZones(base)]

------------------------------------------------------------------------------
(* config.py, safety.py and preflight.py: what may be wrong with a run.    *)
(* A flag record says what is passed, and what is found when it is tried:  *)
(* the target's scheme, the kinds of addresses its host resolves to, and   *)
(* whether a server listens there.                                         *)

\* The personas to send: a list that is given is capped, no list is everyone.
Panel(f) ==
    IF f.ask = <<>> THEN Personas
    ELSE IF yml = "good" /\ f.cap > 0 /\ Len(f.ask) > f.cap THEN ToSet(SubSeq(f.ask, 1, f.cap))
    ELSE ToSet(f.ask)

\* load_config and SimConfig.flow: sim.yml, if there is one, has the flow that is named.
Loaded(f) == yml # "junk" /\ (yml = "good" => f.known)

\* _RunParams: is there a target and a task?
Resolved(f) ==
    /\ Loaded(f)
    /\ yml = "good" \/ f.fixture \/ f.url
    /\ yml = "good" \/ f.task

AssertUrlAllowed(f) ==
    /\ f.scheme = "http"
    /\ f.listed
    /\ f.private \/ f.addrs = {"public"}

FirstFailing(checks) ==
    LET failing == {i \in DOMAIN checks : ~checks[i].ok}
    IN  IF failing = {} THEN "OK" ELSE checks[Min(failing)].code

\* run_preflight, in order.  A fixture is a local file: the first two suffice.
Preflight(f) ==
    FirstFailing(
      <<[ok |-> Panel(f) \subseteq Personas, code |-> "UNKNOWN_PERSONA"],
        [ok |-> f.writable, code |-> "OUTPUT_ERROR"],
        [ok |-> f.fixture \/ f.scheme = "http", code |-> "CONFIG_ERROR"],
        [ok |-> f.fixture \/ f.addrs # {}, code |-> "UNREACHABLE_URL"],
        [ok |-> f.fixture \/ AssertUrlAllowed(f), code |-> "UNSAFE_URL"],
        [ok |-> f.fixture \/ ~f.private \/ "loopback" \notin f.addrs \/ f.up,
         code |-> "UNREACHABLE_URL"],
        [ok |-> f.fixture \/ f.key, code |-> "MISSING_KEY"]>>)

------------------------------------------------------------------------------
(* main.py                                                                 *)

Leave(code) == phase' = "idle" /\ exit' = code
Sending(panel) == [cmd |-> job.cmd, from |-> job.from, panel |-> panel]

\* A process starts: what is in the output directory is of earlier ones.
Invoke ==
    /\ phase = "idle"
    /\ \E cmd \in Commands, from \in {"none", "here", "elsewhere"} :
          /\ from # "none" => cmd \in {"gate", "baseline"}
          /\ job' = [cmd |-> cmd, from |-> from, panel |-> {}]
          /\ phase' = IF cmd \in {"init", "try"} THEN cmd
                      ELSE IF from = "none" THEN "start" ELSE "load"
    /\ papers' = [i \in DOMAIN Papers |-> IF papers[i] = "none" THEN "none" ELSE "stale"]
    /\ run' = NoReport
    /\ against' = NoReport
    /\ result' = NoResult
    /\ exit' = "none"
    /\ UNCHANGED <<yml, report, baseline>>

\* _cmd_init never overwrites what is there.
Scaffold ==
    /\ phase = "init"
    /\ yml' = IF yml = "none" THEN "good" ELSE yml
    /\ Leave("OK")
    /\ UNCHANGED <<report, baseline, papers, job, run, against, result>>

\* _cmd_try without a key: the replay announces a red gate for the broken build.
Replay ==
    /\ phase = "try"
    /\ run' = Broken
    /\ against' = Working
    /\ result' = [passed |-> FALSE, verdict |-> "replayed"]
    /\ Leave("OK")
    /\ UNCHANGED <<yml, report, baseline, papers, job>>

\* _cmd_try live: no key is pasted, no browser can be had, or the demo is run.
TryLive ==
    /\ phase = "try"
    /\ \/ /\ \E code \in {"MISSING_KEY", "RUN_ERROR", "OUTPUT_ERROR"} : Leave(code)
          /\ UNCHANGED job
       \/ /\ phase' = "swarm"
          /\ job' = Sending(DOMAIN WorkingSessions)
          /\ UNCHANGED exit
    /\ UNCHANGED <<yml, report, baseline, papers, run, against, result>>

\* _RunParams and _run_swarm up to the start of the swarm.
Prepare ==
    /\ phase = "start"
    /\ \E f \in Flags :
          LET code == IF Resolved(f) THEN Preflight(f) ELSE "CONFIG_ERROR"
          IN  \/ /\ code = "OK"
                 /\ phase' = "swarm"
                 /\ job' = Sending(Panel(f))
                 /\ UNCHANGED exit
              \/ /\ code # "OK"
                 /\ Leave(code)
                 /\ UNCHANGED job
    /\ UNCHANGED <<yml, report, baseline, papers, run, against, result>>

\* run_flow: the sessions end somehow, or the swarm does not come about.
Swarm ==
    /\ phase = "swarm"
    /\ \/ /\ Leave("RUN_ERROR")
          /\ UNCHANGED run
       \/ /\ \E s \in Sessions : DOMAIN s = job.panel /\ run' = Build(s)
          /\ phase' = "save"
          /\ UNCHANGED exit
    /\ UNCHANGED <<yml, report, baseline, papers, job, against, result>>

\* Where a report leads: is it usable, and what did the user want with it?
Proceed(r) ==
    IF UsableResults(r) = 0 THEN Leave("NO_RESULTS")
    ELSE IF job.cmd \in {"run", "try"} THEN Leave("OK")
    ELSE phase' = (IF job.cmd = "gate" THEN "judge" ELSE "keep") /\ UNCHANGED exit

\* The report is written whether it is usable or not; `try' has a directory of its own.
Save ==
    /\ phase = "save"
    /\ report' = IF job.cmd = "try" THEN report ELSE run
    /\ Proceed(run)
    /\ UNCHANGED <<yml, baseline, papers, job, run, against, result>>

\* What --from names, the report.json of the output directory or another file.
Named == IF job.from = "elsewhere" THEN Elsewhere ELSE {report}

\* _obtain_report --from: an earlier report instead of a swarm.
Load ==
    /\ phase = "load"
    /\ \E read \in Named :
          \/ /\ read \in {NoReport, Torn}
             /\ Leave("CONFIG_ERROR")
             /\ UNCHANGED run
          \/ /\ read \notin {NoReport, Torn}
             /\ run' = read
             /\ Proceed(read)
    /\ UNCHANGED <<yml, report, baseline, papers, job, against, result>>

\* _parse_fail_under: a number or "last-passing".
Readable(bar) == bar.kind # "junk"

\* _cmd_gate: --baseline may name another file, which need not exist.
Judge ==
    /\ phase = "judge"
    /\ \E base \in {baseline, NoReport} \union Elsewhere, bar \in Bars, margin \in Margins :
          \/ /\ base = Torn \/ ~Readable(bar)
             /\ Leave("CONFIG_ERROR")
             /\ UNCHANGED <<against, result>>
          \/ /\ base # Torn /\ Readable(bar)
             /\ against' = base
             /\ result' = Compare(run, base, bar, margin)
             /\ phase' = "publish"
             /\ UNCHANGED exit
    /\ UNCHANGED <<yml, report, baseline, papers, job, run>>

\* The CI outputs that this process has yet to write.
Unwritten == {i \in DOMAIN Papers : papers[i] # result.verdict}

PublishCode ==
    /\ phase = "publish"
    /\ Unwritten # {}
    /\ papers' = [papers EXCEPT ![Min(Unwritten)] = IF result.passed THEN "OK" ELSE "GATE_FAILED"]
    /\ UNCHANGED <<yml, report, baseline, job, phase, run, against, result, exit>>

\* write_ci_outputs, a file at a time.
Publish ==
    /\ phase = "publish"
    /\ Unwritten # {}
    /\ papers' = [papers EXCEPT ![Min(Unwritten)] = result.verdict]
    /\ UNCHANGED <<yml, report, baseline, job, phase, run, against, result, exit>>

ConcludeEarly ==
    /\ phase = "publish"
    /\ Leave(IF result.passed THEN "OK" ELSE "GATE_FAILED")
    /\ UNCHANGED <<yml, report, baseline, papers, job, run, against, result>>

Conclude ==
    /\ phase = "publish"
    /\ Unwritten = {}
    /\ Leave(IF result.passed THEN "OK" ELSE "GATE_FAILED")
    /\ UNCHANGED <<yml, report, baseline, papers, job, run, against, result>>

\* _cmd_baseline saves any usable run, whatever the gate would say of it.
Keep ==
    /\ phase = "keep"
    /\ baseline' = run
    /\ Leave("OK")
    /\ UNCHANGED <<yml, report, papers, job, run, against, result>>

\* Ctrl-C, or a write that fails: the file that was being written is cut short.
Stop ==
    /\ phase # "idle"
    /\ \E code \in {"INTERRUPTED", "RUN_ERROR"} : Leave(code)
    /\ report' \in {report} \union (IF phase = "save" /\ job.cmd # "try" THEN {Torn} ELSE {})
    /\ baseline' \in {baseline} \union (IF phase = "keep" THEN {Torn} ELSE {})
    /\ papers' \in {papers} \union
           (IF phase = "publish" /\ Unwritten # {}
            THEN {[papers EXCEPT ![Min(Unwritten)] = "torn"]} ELSE {})
    /\ UNCHANGED <<yml, job, run, against, result>>

Next ==
    \/ Invoke \/ Scaffold \/ Replay \/ TryLive \/ Prepare \/ Swarm \/ Save
    \/ Load \/ Judge \/ Publish \/ Conclude \/ Keep \/ Stop

Spec == Init /\ [][Next]_vars

------------------------------------------------------------------------------

TypeOK ==
    /\ yml \in {"none", "good", "junk"}
    /\ report \in Reports \union {NoReport, Torn}
    /\ baseline \in Reports \union {NoReport, Torn}
    /\ papers \in [DOMAIN Papers -> {"none", "stale", "torn"} \union Verdicts]
    /\ run \in Reports \union {NoReport, Broken}
    /\ against \in Reports \union {NoReport, Working}

Judged == job.cmd = "gate" /\ result.verdict \in Verdicts
SamePanel == against # NoReport /\ DOMAIN run.survival = DOMAIN against.survival
RegressOnly == Judged /\ result.bar.kind = "last" /\ SamePanel
LostNow == Done(against) \intersect (Real(run) \ Done(run))
GainedNow == Done(run) \ Done(against)

(***************************************************************************)
(* What the gate blocks a merge for (regression.py:217).  Against the last *)
(* passing run of the same personas, none of whose sessions broke, it      *)
(* fails only if somebody who finished then was lost now: an error of the  *)
(* infrastructure, however it hits this run, is no regression.  Without a  *)
(* margin it passes only if nobody was lost or somebody else was gained.   *)
(* And it calls the flow broken only if an unimpaired persona really ran   *)
(* and no such persona finished.                                           *)
(***************************************************************************)
BlocksLossesOnly ==
    /\ RegressOnly /\ Rows(against, "error") = {} =>
         /\ result.verdict = "behavioral_regression" => LostNow # {}
         /\ result.verdict = "pass" /\ result.margin = 0 => LostNow = {} \/ GainedNow # {}
    /\ Judged /\ result.verdict = "functional_fail" =>
         Probes(run) \intersect Real(run) # {} /\ Probes(run) \intersect Done(run) = {}

(***************************************************************************)
(* An exit code that CI acts on can be traced (main.py:290, exit_codes.py: *)
(* 13).  When a gate ends with OK or GATE_FAILED, every CI output is this  *)
(* process's and says that verdict, the report it judged is usable and is  *)
(* report.json, unless --from named another file, and what it compared     *)
(* with was a whole report.  Only such a gate ends with GATE_FAILED, and   *)
(* nothing but a gate's verdict is ever in a CI output that is not an      *)
(* earlier process's.                                                      *)
(***************************************************************************)
ExitTraceable ==
    /\ exit = "GATE_FAILED" => job.cmd = "gate"
    /\ job.cmd = "gate" /\ exit \in {"OK", "GATE_FAILED"} =>
         /\ \A i \in DOMAIN Papers : papers[i] = result.verdict
         /\ (exit = "OK") <=> result.verdict = "pass"
         /\ job.from # "elsewhere" => report = run
         /\ UsableResults(run) > 0
         /\ against \in Reports \union {NoReport}
    /\ \A i \in DOMAIN Papers : papers[i] \in Verdicts => Judged /\ papers[i] = result.verdict

(***************************************************************************)
(* The red gate that the replay announces (replay.py:176) is the one that  *)
(* compare gives for the recorded runs, the green one too, and both runs   *)
(* are what the report builder makes of their sessions.                    *)
(***************************************************************************)
ReplayHonest ==
    result.verdict = "replayed" =>
        /\ run = Build(BrokenSessions) /\ against = Build(WorkingSessions)
        /\ result.passed = Compare(run, against, [kind |-> "last", at |-> 0], 0).passed
        /\ Compare(against, NoReport, [kind |-> "last", at |-> 0], 0).passed

\* What the command line announces is what it did: see the two parts above.
VerdictTraceable == ExitTraceable /\ ReplayHonest

\* The views of every report that a swarm hands over agree (see ViewsAgreeOn).
ViewsAgree == phase = "save" => ViewsAgreeOn(run)

(***************************************************************************)
(* "Compare over the SAME persona set", so that "an infra ERROR that       *)
(* removes a persona from one side can't skew the delta" (regression.py:   *)
(* 70): a gate that reports a regression can name a persona who regressed. *)
(***************************************************************************)
ErrorsSkewNothing ==
    RegressOnly /\ result.verdict = "behavioral_regression" => LostNow # {}
=============================================================================
