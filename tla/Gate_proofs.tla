----------------------------- MODULE Gate_proofs ----------------------------
(***************************************************************************)
(* For whatever personas and ways to end: what the gate blocks a merge for.*)
(* Two rates over the same personas compare as the numbers of those who    *)
(* finished, and these as the sets, unless somebody was lost.              *)
(***************************************************************************)
EXTENDS Gate, Lemmas, FiniteSetTheorems, TLAPS

\* What build makes of the sessions, as the gate reads it.
LEMMA BuiltReport ==
    ASSUME NEW s \in Sessions
    PROVE  LET r == Build(s)
           IN  /\ IsFiniteSet(DOMAIN r.survival)
               /\ Done(r) \subseteq Real(r)
               /\ Real(r) = DOMAIN r.survival \ ErroredNow(r)
               /\ r.rate = RateOf(Done(r), Real(r))
<1> DEFINE r == Build(s)
<1>1. IsFiniteSet(DOMAIN s) /\ DOMAIN r.survival = DOMAIN s
  BY GateAssumption DEF Build
<1>2. \A p \in DOMAIN s : /\ r.survival[p].outcome = s[p].outcome
                           /\ r.survival[p].completed = (s[p].outcome = "success")
  BY DEF Build, SurvivalRow
<1>3. Done(r) = Finished(s)
  BY <1>1, <1>2 DEF Done, Finished
<1>4. Real(r) = Scored(s)
  BY <1>1, <1>2 DEF Real, Rows, Scored
<1>5. r.rate = RateOf(Finished(s), Scored(s))
  BY DEF Build
<1>6. Finished(s) \subseteq Scored(s)
  BY DEF Finished, Scored
<1> QED
  BY <1>1, <1>3, <1>4, <1>5, <1>6 DEF Real, ErroredNow

\* The completion that is compared is the recount without those who broke now.
LEMMA ComparedRate ==
    ASSUME NEW r \in Reports
    PROVE  Completion(r) = RateOf(Done(r), Real(r))
<1>1. PICK s \in Sessions : r = Build(s)
  BY DEF Reports
<1>2. r.rate = RateOf(Done(r), Real(r))
  BY <1>1, BuiltReport
<1>3. Done(r) \ {} = Done(r) /\ Real(r) \ {} = Real(r)
  OBVIOUS
<1> QED
  BY <1>2, <1>3 DEF Completion, CompletionExcluding

\* Shares of the same whole compare as their numerators.
LEMMA SameWhole ==
    ASSUME NEW a \in Nat, NEW b \in Nat, NEW k \in Nat, NEW m \in Nat
    PROVE  /\ b <= a => NotBelow(<<a, k>>, <<b, k>>, m)
           /\ k > 0 /\ NotBelow(<<a, k>>, <<b, k>>, 0) => b <= a
<1>1. ASSUME b <= a
      PROVE  100 * a * k + m * k * k >= 100 * b * k
  <2>1. PICK c \in Nat : a = b + c
    <3>1. a - b \in Nat /\ a = b + (a - b)
      BY <1>1
    <3> QED
      BY <3>1
  <2>2. 100 * a * k = 100 * b * k + 100 * (c * k)
    BY <2>1
  <2>3. c * k \in Nat /\ m * k \in Nat /\ 100 * b * k \in Nat
    BY <2>1
  <2>4. (m * k) * k \in Nat
    BY <2>3
  <2> QED
    BY <2>2, <2>3, <2>4
<1>2. ASSUME k > 0, 100 * a * k + 0 * k * k >= 100 * b * k
      PROVE  b <= a
  <2> SUFFICES ASSUME a < b PROVE FALSE
    OBVIOUS
  <2>1. PICK c \in Nat : b = a + 1 + c
    <3>1. b - a - 1 \in Nat /\ b = a + 1 + (b - a - 1)
      OBVIOUS
    <3> QED
      BY <3>1
  <2>2. 100 * b * k = 100 * a * k + 100 * k + 100 * (c * k)
    BY <2>1
  <2>3. c * k \in Nat /\ 100 * a * k \in Nat
    BY <2>1
  <2> QED
    BY <1>2, <2>2, <2>3
<1> QED
  BY <1>1, <1>2 DEF NotBelow

\* The heart of the gate: a drop below the last passing run has its victims.
LEMMA DropHasVictims ==
    ASSUME NEW now \in Reports, NEW base \in Reports, base # NoReport,
           DOMAIN now.survival = DOMAIN base.survival, ErroredNow(base) = {},
           NEW bar, bar.kind = "last", NEW margin \in Nat
    PROVE  LET lost == Done(base) \intersect (Real(now) \ Done(now))
               gained == Done(now) \ Done(base)
           IN  /\ ~Enough(now, base, bar, margin) => lost # {}
               /\ Enough(now, base, bar, 0) => lost = {} \/ gained # {}
<1> DEFINE out == ErroredNow(now)
           K == DOMAIN now.survival \ out
           A == Done(now)
           B == Done(base) \ out
           lost == Done(base) \intersect (Real(now) \ Done(now))
           gained == Done(now) \ Done(base)
<1>1. PICK s \in Sessions : now = Build(s)
  BY DEF Reports
<1>2. PICK t \in Sessions : base = Build(t)
  BY DEF Reports
<1>3. /\ IsFiniteSet(DOMAIN now.survival)
      /\ A \subseteq Real(now)
      /\ Real(now) = K
  BY <1>1, BuiltReport
<1>4. /\ Done(base) \subseteq DOMAIN base.survival
      /\ Real(base) = DOMAIN base.survival
  BY <1>2, BuiltReport
<1>5. /\ A \ out = A /\ Real(now) \ out = K
      /\ Real(base) \ out = K /\ B \subseteq K
  BY <1>3, <1>4
<1>6. IsFiniteSet(K) /\ IsFiniteSet(A) /\ IsFiniteSet(B)
  BY <1>3, <1>5, FS_Subset
<1>7. \A m : Enough(now, base, bar, m) <=> NotBelow(RateOf(A, K), RateOf(B, K), m)
  <2> TAKE m
  <2>1. CASE out = {}
    <3>1. B = Done(base) /\ Real(base) = K
      BY <2>1, <1>4
    <3>2. Completion(now) = RateOf(A, K) /\ Completion(base) = RateOf(B, K)
      BY <3>1, <1>3, ComparedRate
    <3> QED
      BY <2>1, <3>2 DEF Enough
  <2>2. CASE out # {}
    <3>1. /\ CompletionExcluding(now, out) = RateOf(A, K)
          /\ CompletionExcluding(base, out) = RateOf(B, K)
      BY <1>5 DEF CompletionExcluding
    <3> QED
      BY <2>2, <3>1 DEF Enough
  <2> QED
    BY <2>1, <2>2
<1>8. CASE K = {}
  <2>1. RateOf(A, K) = <<0, 1>> /\ RateOf(B, K) = <<0, 1>> /\ lost = {}
    BY <1>8, <1>3 DEF RateOf
  <2>2. NotBelow(<<0, 1>>, <<0, 1>>, margin)
    BY SameWhole
  <2> QED
    BY <1>7, <2>1, <2>2
<1>9. CASE K # {}
  <2> DEFINE a == Cardinality(A)
             b == Cardinality(B)
             k == Cardinality(K)
  <2>1. a \in Nat /\ b \in Nat /\ k \in Nat /\ k > 0
    <3>1. a \in Nat /\ b \in Nat /\ k \in Nat
      BY <1>6, FS_CardinalityType
    <3>2. k # 0
      BY <1>6, <1>9, FS_EmptySet
    <3> HIDE DEF a, b, k
    <3> QED
      BY <3>1, <3>2
  <2>2. RateOf(A, K) = <<a, k>> /\ RateOf(B, K) = <<b, k>>
    BY <1>9 DEF RateOf
  <2>3. lost = {} => b <= a
    <3>1. lost = {} => B \subseteq A
      BY <1>5, <1>3
    <3> QED
      BY <3>1, <1>6, FS_Subset
  <2>4. lost # {} /\ gained = {} => a < b
    <3> SUFFICES ASSUME lost # {}, gained = {} PROVE a < b
      OBVIOUS
    <3>1. A \subseteq B /\ A # B
      BY <1>3, <1>5
    <3>2. a <= b /\ a # b
      BY <3>1, <1>6, FS_Subset
    <3> HIDE DEF a, b
    <3> QED
      BY <3>2, <2>1
  <2> HIDE DEF a, b, k, lost, gained
  <2>5. ~NotBelow(<<a, k>>, <<b, k>>, margin) => lost # {}
    BY <2>1, <2>3, SameWhole
  <2>6. NotBelow(<<a, k>>, <<b, k>>, 0) => b <= a
    BY <2>1, SameWhole
  <2>7. NotBelow(<<a, k>>, <<b, k>>, 0) => lost = {} \/ gained # {}
    BY <2>1, <2>4, <2>6
  <2>8. /\ ~Enough(now, base, bar, margin) => lost # {}
        /\ Enough(now, base, bar, 0) => lost = {} \/ gained # {}
    BY <1>7, <2>2, <2>5, <2>7
  <2> QED
    BY <2>8 DEF lost, gained
<1> QED
  BY <1>8, <1>9

------------------------------------------------------------------------------

(***************************************************************************)
(* A process that has judged holds the reports it judged, and what it says *)
(* of them is what compare says; before that it has said nothing.          *)
(***************************************************************************)
Files ==
    /\ report \in Reports \union {NoReport, Torn}
    /\ baseline \in Reports \union {NoReport, Torn}
Silent == phase \notin {"publish", "idle"} => result = NoResult
Holds == phase \in {"save", "judge", "keep"} => run \in Reports
Said ==
    result.verdict \in Verdicts =>
        /\ run \in Reports
        /\ against \in Reports \union {NoReport}
        /\ \E bar \in Bars, margin \in Margins : result = Compare(run, against, bar, margin)
JudgedInv == Files /\ Silent /\ Holds /\ Said

\* An invocation that has not compared anything has no verdict.
LEMMA NothingSaid == NoResult.verdict \notin Verdicts
BY DEF NoResult, Verdicts

\* Where a report leads, its writer has said nothing yet and still holds it.
LEMMA ProceedKeeps ==
    ASSUME NEW r, Proceed(r), NoResult = result, run' \in Reports, result' = result
    PROVE  Silent' /\ Holds' /\ Said'
<1>1. phase' \in {"idle", "judge", "keep"}
  BY DEF Proceed, Leave
<1>2. result'.verdict \notin Verdicts
  BY NothingSaid
<1> QED
  BY <1>1, <1>2 DEF Silent, Holds, Said

\* What --from and --baseline may name is a report, cut short or missing at worst.
LEMMA NamedReports ==
    /\ Elsewhere \subseteq Reports \union {NoReport, Torn}
    /\ Files => Named \subseteq Reports \union {NoReport, Torn}
BY GateAssumption DEF Named, Reports, Files

\* The invariant about verdicts holds at first.
LEMMA JudgedInit == Init => JudgedInv
BY NothingSaid DEF Init, JudgedInv, Files, Silent, Holds, Said

\* Every step keeps it.
LEMMA JudgedStep == JudgedInv /\ [Next]_vars => JudgedInv'
<1> SUFFICES ASSUME JudgedInv, [Next]_vars PROVE JudgedInv'
  OBVIOUS
<1> USE DEF JudgedInv
<1>1. CASE Invoke
  <2>1. Files' /\ result' = NoResult /\ phase' \in {"init", "try", "load", "start"}
    BY <1>1 DEF Invoke, Files, Commands
  <2> QED
    BY <2>1, NothingSaid DEF Silent, Holds, Said
<1>2. CASE Scaffold
  BY <1>2 DEF Scaffold, Leave, Files, Silent, Holds, Said
<1>3. CASE Replay
  <2>1. Files' /\ phase' = "idle" /\ result'.verdict = "replayed"
    BY <1>3 DEF Replay, Leave, Files
  <2> QED
    BY <2>1 DEF Silent, Holds, Said, Verdicts
<1>4. CASE TryLive
  <2>1. Files' /\ phase' \in {"idle", "swarm"} /\ result = NoResult
    BY <1>4 DEF TryLive, Leave, Files, Silent
  <2> QED
    BY <1>4, <2>1, NothingSaid DEF TryLive, Silent, Holds, Said
<1>5. CASE Prepare
  <2>1. Files' /\ phase' \in {"idle", "swarm"} /\ result = NoResult
    BY <1>5 DEF Prepare, Leave, Files, Silent
  <2> QED
    BY <1>5, <2>1, NothingSaid DEF Prepare, Silent, Holds, Said
<1>6. CASE Swarm
  <2>1. result = NoResult
    BY <1>6 DEF Swarm, Silent
  <2>2. Files' /\ result' = NoResult
    BY <1>6, <2>1 DEF Swarm, Files
  <2>3. phase' = "idle" \/ (phase' = "save" /\ run' \in Reports)
    BY <1>6 DEF Swarm, Leave, Reports
  <2> QED
    BY <2>2, <2>3, NothingSaid DEF Silent, Holds, Said
<1>7. CASE Save
  <2>1. result = NoResult /\ run \in Reports
    BY <1>7 DEF Save, Silent, Holds
  <2>2. Files' /\ result' = result /\ run' \in Reports
    BY <1>7, <2>1 DEF Save, Files
  <2> QED
    BY <1>7, <2>1, <2>2, ProceedKeeps DEF Save
<1>8. CASE Load
  <2>1. result = NoResult /\ result' = result
    BY <1>8 DEF Load, Silent
  <2>2. Files'
    BY <1>8 DEF Load, Files
  <2>3. PICK read \in Named :
           \/ read \in {NoReport, Torn} /\ Leave("CONFIG_ERROR")
           \/ read \notin {NoReport, Torn} /\ run' = read /\ Proceed(read)
    BY <1>8 DEF Load
  <2>4. CASE Leave("CONFIG_ERROR")
    <3>1. phase' = "idle"
      BY <2>4 DEF Leave
    <3> QED
      BY <3>1, <2>1, <2>2, NothingSaid DEF Silent, Holds, Said
  <2>5. CASE read \notin {NoReport, Torn} /\ run' = read /\ Proceed(read)
    <3>1. run' \in Reports
      BY <2>5, NamedReports DEF Files
    <3> QED
      BY <3>1, <2>1, <2>2, <2>5, ProceedKeeps
  <2> QED
    BY <2>3, <2>4, <2>5
<1>9. CASE Judge
  <2>1. run \in Reports /\ run' = run /\ Files' /\ result = NoResult
    BY <1>9 DEF Judge, Files, Holds, Silent
  <2>2. PICK base \in {baseline, NoReport} \union Elsewhere, bar \in Bars, margin \in Margins :
           \/ /\ Leave("CONFIG_ERROR")
              /\ UNCHANGED <<against, result>>
           \/ /\ base # Torn
              /\ against' = base
              /\ result' = Compare(run, base, bar, margin)
              /\ phase' = "publish"
    BY <1>9 DEF Judge
  <2>3. CASE Leave("CONFIG_ERROR") /\ UNCHANGED <<against, result>>
    BY <2>1, <2>3, NothingSaid DEF Leave, Silent, Holds, Said
  <2>4. CASE /\ base # Torn
             /\ against' = base
             /\ result' = Compare(run, base, bar, margin)
             /\ phase' = "publish"
    <3>1. against' \in Reports \union {NoReport}
      BY <2>4, NamedReports DEF Files
    <3> QED
      BY <2>1, <2>4, <3>1 DEF Silent, Holds, Said
  <2> QED
    BY <2>2, <2>3, <2>4
<1>10. CASE Publish
  BY <1>10 DEF Publish, Files, Silent, Holds, Said
<1>11. CASE Conclude
  BY <1>11 DEF Conclude, Leave, Files, Silent, Holds, Said
<1>12. CASE Keep
  <2>1. Files'
    BY <1>12 DEF Keep, Files, Holds
  <2> QED
    BY <1>12, <2>1 DEF Keep, Leave, Silent, Holds, Said
<1>13. CASE Stop
  <2>1. Files' /\ phase' = "idle"
    BY <1>13 DEF Stop, Leave, Files
  <2> QED
    BY <1>13, <2>1 DEF Stop, Silent, Holds, Said
<1>14. CASE UNCHANGED vars
  BY <1>14 DEF vars, Files, Silent, Holds, Said
<1> QED
  BY <1>1, <1>2, <1>3, <1>4, <1>5, <1>6, <1>7, <1>8, <1>9, <1>10, <1>11, <1>12, <1>13, <1>14
     DEF Next

\* What is said of two reports blocks a merge for losses only.
LEMMA JudgedBlocks == JudgedInv => BlocksLossesOnly
<1> SUFFICES ASSUME JudgedInv, Judged PROVE BlocksLossesOnly
  BY DEF BlocksLossesOnly, RegressOnly
<1>1. /\ run \in Reports
      /\ against \in Reports \union {NoReport}
      /\ \E bar \in Bars, margin \in Margins : result = Compare(run, against, bar, margin)
  BY DEF JudgedInv, Said, Judged
<1>2. PICK bar \in Bars, margin \in Margins : result = Compare(run, against, bar, margin)
  BY <1>1
<1>3. /\ result.verdict = VerdictOf(run, against, bar, margin)
      /\ result.bar = bar
      /\ result.margin = margin
  BY <1>2 DEF Compare
<1>4. ASSUME result.verdict = "functional_fail"
      PROVE  Probes(run) \intersect Real(run) # {} /\ Probes(run) \intersect Done(run) = {}
  BY <1>3, <1>4 DEF VerdictOf, FunctionalOk
<1>5. ASSUME RegressOnly, Rows(against, "error") = {}
      PROVE  /\ result.verdict = "behavioral_regression" => LostNow # {}
             /\ result.verdict = "pass" /\ result.margin = 0 => LostNow = {} \/ GainedNow # {}
  <2>1. /\ against \in Reports /\ against # NoReport
        /\ DOMAIN run.survival = DOMAIN against.survival
        /\ bar.kind = "last" /\ margin \in Nat
    BY <1>1, <1>3, <1>5, GateAssumption DEF RegressOnly, SamePanel
  <2>2. ErroredNow(against) = {}
    BY <1>5 DEF ErroredNow
  <2>3. /\ ~Enough(run, against, bar, margin) => LostNow # {}
        /\ Enough(run, against, bar, 0) => LostNow = {} \/ GainedNow # {}
    BY <1>1, <2>1, <2>2, DropHasVictims DEF LostNow, GainedNow
  <2>4. /\ result.verdict = "behavioral_regression" => ~Enough(run, against, bar, margin)
        /\ result.verdict = "pass" => Enough(run, against, bar, margin)
    BY <1>3 DEF VerdictOf
  <2> QED
    BY <1>3, <2>3, <2>4
<1> QED
  BY <1>4, <1>5 DEF BlocksLossesOnly

\* For any personas, sessions, bars and margins: against a last passing run in
\* which nothing broke, the gate blocks only what lost somebody, and it calls
\* the flow broken only on the evidence of an unimpaired persona.
THEOREM GateBlocksLosses == Spec => []BlocksLossesOnly
<1>1. Spec => []JudgedInv
  BY JudgedInit, JudgedStep, PTL DEF Spec
<1> QED
  BY <1>1, JudgedBlocks, PTL

------------------------------------------------------------------------------

(***************************************************************************)
(* What each phase has done so far: nothing is concluded while a process   *)
(* runs, a verdict is about the report on disk, and no CI output speaks    *)
(* before there is a verdict.                                              *)
(***************************************************************************)
Running == phase # "idle" => exit = "none"
Commanded ==
    /\ phase \in {"judge", "publish"} => job.cmd = "gate"
    /\ phase = "keep" => job.cmd = "baseline"
    /\ phase \in {"start", "load"} => job.cmd \in {"run", "gate", "baseline"}
    /\ phase = "init" => job.cmd = "init"
    /\ phase = "try" => job.cmd = "try"
    /\ phase \in {"swarm", "save"} => job.cmd \in {"try", "run", "gate", "baseline"}
Written ==
    phase \in {"judge", "publish"} => /\ job.from # "elsewhere" => report = run
                                     /\ UsableResults(run) > 0
Spoken ==
    phase = "publish" => /\ result.verdict \in Verdicts
                         /\ result.passed <=> result.verdict = "pass"
Quiet == \A i \in DOMAIN Papers : papers[i] \in Verdicts => Judged /\ papers[i] = result.verdict
TraceInv ==
    /\ JudgedInv /\ Running /\ Commanded /\ Written /\ Spoken /\ Quiet
    /\ papers \in [DOMAIN Papers -> {"none", "stale", "torn"} \union Verdicts]
    /\ ExitTraceable

\* A run that is not prepared ends with none of the two codes that CI acts on.
LEMMA PreflightCodes ==
    ASSUME NEW f
    PROVE  Preflight(f) # "GATE_FAILED"
<1> DEFINE Codes == {"UNKNOWN_PERSONA", "OUTPUT_ERROR", "CONFIG_ERROR", "UNREACHABLE_URL",
                     "UNSAFE_URL", "MISSING_KEY"}
<1>1. ASSUME NEW c1, NEW c2, NEW c3, NEW c4, NEW c5, NEW c6, NEW c7,
             NEW checks, checks = <<c1, c2, c3, c4, c5, c6, c7>>,
             \A i \in DOMAIN checks : checks[i].code \in Codes
      PROVE  FirstFailing(checks) # "GATE_FAILED"
  <2> DEFINE failing == {i \in DOMAIN checks : ~checks[i].ok}
  <2>1. CASE failing = {}
    BY <2>1 DEF FirstFailing
  <2>2. CASE failing # {}
    <3>1. failing \subseteq 1..7 /\ failing \subseteq DOMAIN checks
      BY <1>1
    <3>2. Min(failing) \in failing
      <4>1. \E x \in failing : \A y \in failing : x <= y
        BY <2>2, <3>1
      <4> QED
        BY <4>1 DEF Min
    <3>3. FirstFailing(checks) = checks[Min(failing)].code
      BY <2>2 DEF FirstFailing
    <3> HIDE DEF failing
    <3> QED
      BY <1>1, <3>1, <3>2, <3>3
  <2> QED
    BY <2>1, <2>2
<1> QED
  BY <1>1 DEF Preflight

\* Nothing has been announced at first.
LEMMA TraceInit == Init => TraceInv
<1> SUFFICES ASSUME Init PROVE TraceInv
  OBVIOUS
<1>1. \A i \in DOMAIN Papers : papers[i] = "none"
  BY DEF Init
<1> QED
  BY <1>1, JudgedInit
     DEF Init, TraceInv, Running, Commanded, Written, Spoken, Quiet, ExitTraceable, Verdicts

\* A step that ends the process with another code, or goes on, leaves no verdict behind.
LEMMA Uneventful ==
    ASSUME TraceInv, JudgedInv', papers' = papers, result' = result, job' = job,
           result = NoResult, exit' # "GATE_FAILED",
           exit' = "OK" => job.cmd # "gate"
    PROVE  Quiet' /\ ExitTraceable'
           /\ papers' \in [DOMAIN Papers -> {"none", "stale", "torn"} \union Verdicts]
<1>1. Quiet'
  BY DEF TraceInv, Quiet, Judged
<1> QED
  BY <1>1 DEF TraceInv, Quiet, ExitTraceable

\* Every step keeps what exit codes stand for, phase by phase.
LEMMA TraceStep == TraceInv /\ [Next]_vars => TraceInv'
<1> SUFFICES ASSUME TraceInv, [Next]_vars PROVE TraceInv'
  OBVIOUS
<1>0. JudgedInv'
  BY JudgedStep DEF TraceInv
<1>u. phase \notin {"publish", "idle"} => result = NoResult /\ exit = "none"
  BY DEF TraceInv, JudgedInv, Silent, Running
<1>1. CASE Invoke
  <2>1. /\ phase' \in {"init", "try", "load", "start"}
        /\ exit' = "none"
        /\ Commanded'
    BY <1>1 DEF Invoke, Commands, Commanded
  <2>2. /\ papers' \in [DOMAIN Papers -> {"none", "stale", "torn"} \union Verdicts]
        /\ \A i \in DOMAIN Papers : papers'[i] \notin Verdicts
    BY <1>1 DEF Invoke, Verdicts
  <2>3. Quiet' /\ ExitTraceable'
    BY <2>1, <2>2 DEF Quiet, ExitTraceable
  <2> QED
    BY <1>0, <2>1, <2>2, <2>3 DEF TraceInv, Running, Written, Spoken
<1>2. CASE Scaffold
  <2>1. /\ phase' = "idle" /\ exit' = "OK" /\ result = NoResult /\ job.cmd = "init"
        /\ papers' = papers /\ result' = result /\ job' = job
    BY <1>2, <1>u DEF Scaffold, Leave, TraceInv, Commanded
  <2>2. /\ Quiet' /\ ExitTraceable'
        /\ papers' \in [DOMAIN Papers -> {"none", "stale", "torn"} \union Verdicts]
    BY <1>0, <2>1, Uneventful
  <2> QED
    BY <1>0, <2>1, <2>2 DEF TraceInv, Running, Commanded, Written, Spoken
<1>3. CASE Replay
  <2>1. /\ phase' = "idle" /\ exit' = "OK" /\ result = NoResult /\ job.cmd = "try"
        /\ papers' = papers /\ job' = job
    BY <1>3, <1>u DEF Replay, Leave, TraceInv, Commanded
  <2>2. \A i \in DOMAIN Papers : papers[i] \notin Verdicts
    BY <2>1 DEF TraceInv, Quiet, Judged
  <2>3. Quiet' /\ ExitTraceable'
    BY <2>1, <2>2 DEF Quiet, ExitTraceable
  <2> QED
    BY <1>0, <2>1, <2>3 DEF TraceInv, Running, Commanded, Written, Spoken
<1>4. CASE TryLive
  <2>1. /\ phase' = "idle" \/ (phase' = "swarm" /\ exit' = exit)
        /\ result = NoResult /\ exit = "none" /\ job.cmd = "try"
        /\ papers' = papers /\ result' = result
    BY <1>4, <1>u DEF TryLive, Leave, TraceInv, Commanded
  <2>2. exit' \notin {"OK", "GATE_FAILED"} /\ job'.cmd = "try"
    <3>1. CASE phase' = "swarm"
      BY <1>4, <2>1, <3>1 DEF TryLive, Leave, Sending
    <3>2. CASE phase' = "idle"
      BY <1>4, <2>1, <3>2 DEF TryLive, Leave
    <3> QED
      BY <2>1, <3>1, <3>2
  <2>3. \A i \in DOMAIN Papers : papers[i] \notin Verdicts
    BY <2>1 DEF TraceInv, Quiet, Judged
  <2>4. Quiet' /\ ExitTraceable'
    BY <2>1, <2>2, <2>3 DEF Quiet, ExitTraceable
  <2> QED
    BY <1>0, <2>1, <2>2, <2>4 DEF TraceInv, Running, Commanded, Written, Spoken
<1>5. CASE Prepare
  <2>1. /\ result = NoResult /\ exit = "none" /\ papers' = papers /\ result' = result
        /\ job.cmd \in {"run", "gate", "baseline"}
    BY <1>5, <1>u DEF Prepare, TraceInv, Commanded
  <2>2. PICK f \in Flags :
          LET code == IF Resolved(f) THEN Preflight(f) ELSE "CONFIG_ERROR"
          IN  \/ /\ phase' = "swarm"
                 /\ job' = Sending(Panel(f))
                 /\ exit' = exit
              \/ /\ code # "OK"
                 /\ Leave(code)
                 /\ job' = job
    BY <1>5 DEF Prepare
  <2>3. /\ phase' = "idle" \/ (phase' = "swarm" /\ exit' = "none")
        /\ exit' \notin {"OK", "GATE_FAILED"}
        /\ job'.cmd \in {"run", "gate", "baseline"}
    <3>1. CASE /\ phase' = "swarm"
               /\ job' = Sending(Panel(f))
               /\ exit' = exit
      <4>1. job'.cmd = job.cmd
        BY <3>1 DEF Sending
      <4> QED
        BY <2>1, <3>1, <4>1
    <3>2. CASE LET code == IF Resolved(f) THEN Preflight(f) ELSE "CONFIG_ERROR"
               IN  code # "OK" /\ Leave(code) /\ job' = job
      BY <2>1, <3>2, PreflightCodes DEF Leave
    <3> QED
      BY <2>2, <3>1, <3>2
  <2>4. \A i \in DOMAIN Papers : papers[i] \notin Verdicts
    BY <2>1, NothingSaid DEF TraceInv, Quiet, Judged
  <2>5. Quiet' /\ ExitTraceable'
    BY <2>1, <2>3, <2>4 DEF Quiet, ExitTraceable
  <2> QED
    BY <1>0, <2>1, <2>3, <2>5 DEF TraceInv, Running, Commanded, Written, Spoken
<1>6. CASE Swarm
  <2>1. /\ result = NoResult /\ exit = "none"
        /\ papers' = papers /\ result' = result /\ job' = job
        /\ job.cmd \in {"try", "run", "gate", "baseline"}
    BY <1>6, <1>u DEF Swarm, TraceInv, Commanded
  <2>2. \/ phase' = "idle" /\ exit' = "RUN_ERROR"
        \/ phase' = "save" /\ exit' = "none"
    BY <1>6, <2>1 DEF Swarm, Leave
  <2>3. /\ Quiet' /\ ExitTraceable'
        /\ papers' \in [DOMAIN Papers -> {"none", "stale", "torn"} \union Verdicts]
    BY <1>0, <2>1, <2>2, Uneventful
  <2> QED
    BY <1>0, <2>1, <2>2, <2>3 DEF TraceInv, Running, Commanded, Written, Spoken
<1>7. CASE Save
  <2>1. /\ result = NoResult /\ exit = "none" /\ run' = run
        /\ papers' = papers /\ result' = result /\ job' = job
        /\ job.cmd \in {"try", "run", "gate", "baseline"}
    BY <1>7, <1>u DEF Save, TraceInv, Commanded
  <2>2. \/ phase' = "idle" /\ exit' = "NO_RESULTS"
        \/ phase' = "idle" /\ exit' = "OK" /\ job.cmd \in {"run", "try"}
        \/ /\ exit' = "none" /\ UsableResults(run) # 0 /\ report' = run
           /\ \/ phase' = "judge" /\ job.cmd = "gate"
              \/ phase' = "keep" /\ job.cmd = "baseline"
    BY <1>7, <2>1 DEF Save, Proceed, Leave
  <2>3. /\ Quiet' /\ ExitTraceable'
        /\ papers' \in [DOMAIN Papers -> {"none", "stale", "torn"} \union Verdicts]
    BY <1>0, <2>1, <2>2, Uneventful
  <2>4. UsableResults(run) \in Nat
    <3>1. run \in Reports
      BY <1>7 DEF Save, TraceInv, JudgedInv, Holds
    <3>2. PICK s \in Sessions : run = Build(s)
      BY <3>1 DEF Reports
    <3>3. IsFiniteSet(Scored(run.results))
      BY <3>2, GateAssumption, FS_Subset DEF Build, Scored
    <3> QED
      BY <3>3, FS_CardinalityType DEF UsableResults
  <2> QED
    BY <1>0, <2>1, <2>2, <2>3, <2>4 DEF TraceInv, Running, Commanded, Written, Spoken
<1>8. CASE Load
  <2>1. /\ result = NoResult /\ exit = "none" /\ report' = report
        /\ papers' = papers /\ result' = result /\ job' = job
        /\ job.cmd \in {"run", "gate", "baseline"}
    BY <1>8, <1>u DEF Load, TraceInv, Commanded
  <2>2. \/ phase' = "idle" /\ exit' \in {"CONFIG_ERROR", "NO_RESULTS"}
        \/ phase' = "idle" /\ exit' = "OK" /\ job.cmd = "run"
        \/ /\ exit' = "none" /\ UsableResults(run') # 0 /\ run' \in Reports
           /\ job.from # "elsewhere" => run' = report
           /\ \/ phase' = "judge" /\ job.cmd = "gate"
              \/ phase' = "keep" /\ job.cmd = "baseline"
    <3>1. PICK read \in Named :
             \/ Leave("CONFIG_ERROR")
             \/ read \notin {NoReport, Torn} /\ run' = read /\ Proceed(read)
      BY <1>8 DEF Load
    <3>2. /\ read \in Reports \union {NoReport, Torn}
          /\ job.from # "elsewhere" => read = report
      BY NamedReports DEF TraceInv, JudgedInv, Commanded, Named
    <3> QED
      BY <2>1, <3>1, <3>2 DEF Proceed, Leave
  <2>3. /\ Quiet' /\ ExitTraceable'
        /\ papers' \in [DOMAIN Papers -> {"none", "stale", "torn"} \union Verdicts]
    BY <1>0, <2>1, <2>2, Uneventful
  <2>4. run' \in Reports => UsableResults(run') \in Nat
    <3> SUFFICES ASSUME run' \in Reports PROVE UsableResults(run') \in Nat
      OBVIOUS
    <3>2. PICK s \in Sessions : run' = Build(s)
      BY DEF Reports
    <3>3. IsFiniteSet(Scored(run'.results))
      BY <3>2, GateAssumption, FS_Subset DEF Build, Scored
    <3> QED
      BY <3>3, FS_CardinalityType DEF UsableResults
  <2> QED
    BY <1>0, <2>1, <2>2, <2>3, <2>4 DEF TraceInv, Running, Commanded, Written, Spoken
<1>9. CASE Judge
  <2>1. /\ result = NoResult /\ exit = "none" /\ report' = report /\ run' = run
        /\ papers' = papers /\ job' = job /\ job.cmd = "gate"
        /\ job.from # "elsewhere" => report = run
        /\ UsableResults(run) > 0
    BY <1>9, <1>u DEF Judge, TraceInv, Commanded, Written
  <2>2. \/ phase' = "idle" /\ exit' = "CONFIG_ERROR" /\ result' = result
        \/ /\ phase' = "publish" /\ exit' = "none" /\ result'.verdict \in Verdicts
           /\ result'.passed <=> result'.verdict = "pass"
    <3>1. \A now, base, bar, margin :
             /\ Compare(now, base, bar, margin).verdict \in Verdicts
             /\ Compare(now, base, bar, margin).passed <=>
                   Compare(now, base, bar, margin).verdict = "pass"
      <4> TAKE now, base, bar, margin
      <4> DEFINE v == VerdictOf(now, base, bar, margin)
      <4>1. v \in Verdicts
        BY DEF VerdictOf, Verdicts
      <4> HIDE DEF v
      <4>2. /\ Compare(now, base, bar, margin).verdict = v
            /\ Compare(now, base, bar, margin).passed = (v = "pass")
        BY DEF Compare, v
      <4> QED
        BY <4>1, <4>2
    <3> QED
      BY <1>9, <2>1, <3>1 DEF Judge, Leave
  <2>3. \A i \in DOMAIN Papers : papers[i] \notin Verdicts
    BY <2>1, NothingSaid DEF TraceInv, Quiet, Judged
  <2>4. Quiet' /\ ExitTraceable'
    BY <2>1, <2>2, <2>3 DEF Quiet, ExitTraceable
  <2> QED
    BY <1>0, <2>1, <2>2, <2>4 DEF TraceInv, Running, Commanded, Written, Spoken
<1>10. CASE Publish
  <2>1. /\ job.cmd = "gate" /\ result.verdict \in Verdicts /\ exit = "none"
        /\ UNCHANGED <<report, job, phase, run, against, result, exit>>
    BY <1>10 DEF Publish, TraceInv, Commanded, Spoken, Running
  <2>2. /\ papers' \in [DOMAIN Papers -> {"none", "stale", "torn"} \union Verdicts]
        /\ \A i \in DOMAIN Papers : papers'[i] \in {papers[i], result.verdict}
    BY <1>10, <2>1 DEF Publish, TraceInv
  <2>3. Quiet'
    BY <2>1, <2>2 DEF TraceInv, Quiet, Judged
  <2>4. ExitTraceable'
    BY <2>1, <2>3 DEF ExitTraceable, Quiet
  <2> QED
    BY <1>0, <1>10, <2>1, <2>2, <2>3, <2>4
       DEF TraceInv, Running, Commanded, Written, Spoken
<1>11. CASE Conclude
  <2>1. /\ job.cmd = "gate" /\ result.verdict \in Verdicts
        /\ result.passed <=> result.verdict = "pass"
        /\ job.from # "elsewhere" => report = run
        /\ UsableResults(run) > 0
        /\ against \in Reports \union {NoReport}
        /\ UNCHANGED <<report, papers, job, run, against, result>>
    BY <1>11 DEF Conclude, TraceInv, JudgedInv, Said, Commanded, Spoken, Written
  <2>2. \A i \in DOMAIN Papers : papers[i] = result.verdict
    BY <1>11 DEF Conclude, Unwritten
  <2>3. phase' = "idle" /\ exit' = IF result.passed THEN "OK" ELSE "GATE_FAILED"
    BY <1>11 DEF Conclude, Leave
  <2>4. Quiet'
    BY <2>1 DEF TraceInv, Quiet, Judged
  <2>5. ExitTraceable'
    BY <2>1, <2>2, <2>3, <2>4 DEF ExitTraceable, Quiet
  <2> QED
    BY <1>0, <2>1, <2>3, <2>4, <2>5 DEF TraceInv, Running, Commanded, Written, Spoken
<1>12. CASE Keep
  <2>1. /\ phase' = "idle" /\ exit' = "OK" /\ result = NoResult /\ job.cmd = "baseline"
        /\ papers' = papers /\ result' = result /\ job' = job
    BY <1>12, <1>u DEF Keep, Leave, TraceInv, Commanded
  <2>2. /\ Quiet' /\ ExitTraceable'
        /\ papers' \in [DOMAIN Papers -> {"none", "stale", "torn"} \union Verdicts]
    BY <1>0, <2>1, Uneventful
  <2> QED
    BY <1>0, <2>1, <2>2 DEF TraceInv, Running, Commanded, Written, Spoken
<1>13. CASE Stop
  <2>1. /\ phase' = "idle" /\ exit' \notin {"OK", "GATE_FAILED"}
        /\ UNCHANGED <<job, run, against, result>>
    BY <1>13 DEF Stop, Leave
  <2>2. /\ papers' \in [DOMAIN Papers -> {"none", "stale", "torn"} \union Verdicts]
        /\ \A i \in DOMAIN Papers : papers'[i] \in {papers[i], "torn"}
    BY <1>13 DEF Stop, TraceInv
  <2>3. Quiet'
    BY <2>1, <2>2 DEF TraceInv, Quiet, Judged, Verdicts
  <2>4. ExitTraceable'
    BY <2>1, <2>3 DEF ExitTraceable, Quiet
  <2> QED
    BY <1>0, <2>1, <2>2, <2>3, <2>4 DEF TraceInv, Running, Commanded, Written, Spoken
<1>14. CASE UNCHANGED vars
  <2>1. Quiet' /\ ExitTraceable'
    BY <1>14 DEF vars, TraceInv, Quiet, Judged, ExitTraceable
  <2> QED
    BY <1>0, <1>14, <2>1 DEF vars, TraceInv, Running, Commanded, Written, Spoken
<1> QED
  BY <1>1, <1>2, <1>3, <1>4, <1>5, <1>6, <1>7, <1>8, <1>9, <1>10, <1>11, <1>12, <1>13, <1>14
     DEF Next

\* For any personas, flags and sessions, and whatever process is stopped where:
\* an exit code that CI acts on is backed by the files beside it.
THEOREM ExitsTraced == Spec => []ExitTraceable
<1>1. Spec => []TraceInv
  BY TraceInit, TraceStep, PTL DEF Spec
<1>2. TraceInv => ExitTraceable
  BY DEF TraceInv
<1> QED
  BY <1>1, <1>2, PTL

------------------------------------------------------------------------------
(* The runs that the replay shows.                                         *)

\* A pixel of the screen is not moved.
LEMMA Heats ==
    ASSUME NEW x \in Int, NEW limit \in Int, 0 <= x, x < limit
    PROVE  Clamp(x, limit) = x
<1>1. Min({x, limit - 1}) = x
  BY DEF Min
<1>2. Max({0, x}) = x
  BY DEF Max
<1> QED
  BY <1>1, <1>2 DEF Clamp

\* Five personas were recorded.
LEMMA HowManyRecorded == Cardinality(Demo) = 5
<1> DEFINE A == {"fluent"}
           B == A \union {"ai-agent"}
           C == B \union {"rushed"}
           D == C \union {"mobile-thumb"}
           E == D \union {"misclick-prone"}
<1>1. IsFiniteSet(A) /\ Cardinality(A) = 1
  BY FS_Singleton
<1>2. IsFiniteSet(B) /\ Cardinality(B) = 2
  BY <1>1, FS_AddElement
<1>3. IsFiniteSet(C) /\ Cardinality(C) = 3
  BY <1>2, FS_AddElement
<1>4. IsFiniteSet(D) /\ Cardinality(D) = 4
  BY <1>3, FS_AddElement
<1>5. IsFiniteSet(E) /\ Cardinality(E) = 5
  BY <1>4, FS_AddElement
<1>6. Demo = E
  BY DEF Demo
<1> QED
  BY <1>5, <1>6

\* The green recording is what the report builder makes of its sessions.
LEMMA WorkingIsBuilt == Working = Build(WorkingSessions)
<1>1. Finished(WorkingSessions) = Demo /\ Scored(WorkingSessions) = Demo /\ Demo # {}
  BY DEF Finished, Scored, WorkingSessions, Completed, Demo
<1>2. RateOf(Demo, Demo) = <<5, 5>>
  BY <1>1, HowManyRecorded DEF RateOf
<1>3. Heat(WorkingSessions) = <<>>
  <2> DEFINE T == {q \in DOMAIN WorkingSessions : /\ WorkingSessions[q].outcome # "success"
                                                  /\ WorkingSessions[q].at # NoPixel}
  <2>1. T = {}
    BY DEF WorkingSessions, Completed
  <2> HIDE DEF T
  <2>2. [p \in T |-> <<Clamp(WorkingSessions[p].at[1], Width),
                       Clamp(WorkingSessions[p].at[2], Height)>>] = <<>>
    BY <2>1
  <2> QED
    BY <2>2 DEF Heat, T
<1>4. [p \in DOMAIN WorkingSessions |-> SurvivalRow(WorkingSessions[p])] =
          [p \in Demo |-> Row("success", StepsToFinish(p))]
  BY DEF SurvivalRow, WorkingSessions, Completed, Row, StepsSurvived, StepsToFinish, None
<1> QED
  BY <1>1, <1>2, <1>3, <1>4 DEF Working, Build

\* So is the red one.
LEMMA BrokenIsBuilt == Broken = Build(BrokenSessions)
<1> DEFINE s == BrokenSessions
<1>1. Finished(s) = {} /\ Scored(s) = Demo /\ Demo # {}
  BY DEF Finished, Scored, BrokenSessions, Died, Demo
<1>2. RateOf({}, Demo) = <<0, 5>>
  BY <1>1, HowManyRecorded, FS_EmptySet DEF RateOf
<1>3. Heat(s) = Broken.heat
  <2>1. {q \in DOMAIN s : s[q].outcome # "success" /\ s[q].at # NoPixel} = Demo
    BY DEF BrokenSessions, Died, Demo, NoPixel
  <2>2. /\ Clamp(638, Width) = 638 /\ Clamp(566, Height) = 566 /\ Clamp(568, Height) = 568
        /\ Clamp(6, Width) = 6 /\ Clamp(491, Height) = 491
        /\ Clamp(475, Width) = 475 /\ Clamp(478, Height) = 478
    BY Heats DEF Width, Height
  <2>3. ASSUME NEW p \in Demo
        PROVE  <<Clamp(s[p].at[1], Width), Clamp(s[p].at[2], Height)>> = Broken.heat[p]
    BY <2>2 DEF Demo, BrokenSessions, Died, Broken
  <2>4. Broken.heat = [p \in Demo |-> Broken.heat[p]]
    BY DEF Broken
  <2>5. Heat(s) = [p \in Demo |-> <<Clamp(s[p].at[1], Width), Clamp(s[p].at[2], Height)>>]
    BY <2>1 DEF Heat
  <2> QED
    BY <2>3, <2>4, <2>5, Zenon
<1>4. [p \in DOMAIN s |-> SurvivalRow(s[p])] = Broken.survival
  BY DEF SurvivalRow, BrokenSessions, Died, Row, StepsSurvived, None, Broken, Demo
<1> QED
  BY <1>1, <1>2, <1>3, <1>4 DEF Broken, Build

\* The bar of the gate when none is given.
LastBar == [kind |-> "last", at |-> 0]

\* Who finished in them.
LEMMA RecordedDone ==
    /\ Done(Broken) = {} /\ Real(Broken) = Demo /\ ErroredNow(Broken) = {}
    /\ Done(Working) = Demo /\ Real(Working) = Demo
<1>1. Done(Broken) = {} /\ Real(Broken) = Demo /\ ErroredNow(Broken) = {}
  BY DEF Done, Real, Rows, ErroredNow, Broken, Row
<1>2. Done(Working) = Demo /\ Real(Working) = Demo
  BY DEF Done, Real, Rows, Working, Row
<1> QED
  BY <1>1, <1>2

\* The gate fails the red recording against the green one, whatever impairs the personas.
LEMMA RecordedFall == Compare(Broken, Working, LastBar, 0).passed = FALSE
<1> SUFFICES ~Enough(Broken, Working, LastBar, 0)
  BY DEF Compare, VerdictOf
<1>1. Working # NoReport
  BY GateAssumption
<1>2. Completion(Working) = <<5, 5>>
  BY DEF Completion, Working
<1>3. Completion(Broken) = <<0, 5>>
  <2>1. RateOf({} \ {}, Demo \ {}) = <<0, 5>>
    BY HowManyRecorded, FS_EmptySet DEF RateOf, Demo
  <2>2. ~(Broken.rate[1] > 0)
    BY DEF Broken
  <2> QED
    BY <2>1, <2>2, RecordedDone DEF Completion, CompletionExcluding
<1>4. ~NotBelow(<<0, 5>>, <<5, 5>>, 0)
  BY DEF NotBelow
<1> QED
  BY <1>1, <1>2, <1>3, <1>4, RecordedDone DEF Enough, LastBar

\* The green one passes.
LEMMA RecordedPass == Compare(Working, NoReport, LastBar, 0).passed
<1>1. FunctionalOk(Working, Probes(Working)) # "no"
  BY RecordedDone DEF FunctionalOk
<1>2. Enough(Working, NoReport, LastBar, 0)
  BY DEF Enough, LastBar
<1> QED
  BY <1>1, <1>2 DEF Compare, VerdictOf

------------------------------------------------------------------------------
(***************************************************************************)
(* What the variables hold, and that only the replay says "replayed".      *)
(***************************************************************************)
Held ==
    /\ yml \in {"none", "good", "junk"}
    /\ run \in Reports \union {NoReport, Broken}
    /\ against \in Reports \union {NoReport, Working}
Replayed ==
    result.verdict = "replayed" =>
        run = Broken /\ against = Working /\ result.passed = FALSE
HeldInv == TraceInv /\ Held /\ Replayed

\* compare says one of three things, none of which is the replay's.
LEMMA CompareSays ==
    ASSUME NEW now, NEW base, NEW bar, NEW margin
    PROVE  Compare(now, base, bar, margin).verdict \in Verdicts
BY DEF Compare, VerdictOf, Verdicts

\* At first nothing is held and nothing replayed.
LEMMA HeldInit == Init => HeldInv
<1>1. NoResult.verdict # "replayed"
  BY DEF NoResult
<1> QED
  BY <1>1, TraceInit DEF Init, HeldInv, Held, Replayed

\* Only the replay says "replayed", and it holds the two recordings.
LEMMA HeldStep == HeldInv /\ [Next]_vars => HeldInv'
<1> SUFFICES ASSUME HeldInv, [Next]_vars PROVE HeldInv'
  OBVIOUS
<1>0. TraceInv' /\ Files /\ Silent /\ Held /\ Replayed
  BY TraceStep DEF HeldInv, TraceInv, JudgedInv
<1>n. NoResult.verdict # "replayed"
  BY DEF NoResult
<1>1. Held'
  <2>1. yml' \in {"none", "good", "junk"}
    BY <1>0 DEF Next, Invoke, Scaffold, Replay, TryLive, Prepare, Swarm, Save, Load, Judge, Publish,
                Conclude, Keep, Stop, vars, Held
  <2>2. run' \in Reports \union {NoReport, Broken}
    <3>1. CASE Load
      BY <1>0, <3>1, NamedReports DEF Load, Held
    <3>2. CASE ~Load
      BY <1>0, <3>2 DEF Next, Invoke, Scaffold, Replay, TryLive, Prepare, Swarm, Save, Judge,
                        Publish, Conclude, Keep, Stop, vars, Held, Reports
    <3> QED
      BY <3>1, <3>2
  <2>3. against' \in Reports \union {NoReport, Working}
    <3>1. CASE Judge
      <4>1. PICK base \in {baseline, NoReport} \union Elsewhere :
               against' = against \/ (base # Torn /\ against' = base)
        BY <3>1 DEF Judge
      <4> QED
        BY <1>0, <4>1, NamedReports DEF Held, Files
    <3>2. CASE ~Judge
      BY <1>0, <3>2 DEF Next, Invoke, Scaffold, Replay, TryLive, Prepare, Swarm, Save, Load,
                        Publish, Conclude, Keep, Stop, vars, Held
    <3> QED
      BY <3>1, <3>2
  <2> QED
    BY <2>1, <2>2, <2>3 DEF Held
<1>2. Replayed'
  <2>1. CASE Invoke
    BY <1>n, <2>1 DEF Invoke, Replayed
  <2>2. CASE Replay
    BY <2>2 DEF Replay, Replayed
  <2>3. CASE Swarm \/ Load
    <3>1. result' = NoResult
      BY <1>0, <2>3 DEF Swarm, Load, Silent
    <3> QED
      BY <1>n, <3>1 DEF Replayed
  <2>4. CASE Judge
    <3>1. \/ result' = result /\ run' = run /\ against' = against
          \/ result'.verdict \in Verdicts
      BY <2>4, CompareSays DEF Judge
    <3> QED
      BY <1>0, <3>1 DEF Replayed, Verdicts
  <2>5. CASE UNCHANGED <<run, against, result>>
    BY <1>0, <2>5 DEF Replayed
  <2> QED
    BY <2>1, <2>2, <2>3, <2>4, <2>5 DEF Next, Scaffold, TryLive, Prepare, Save, Publish, Conclude,
                                        Keep, Stop, vars
<1> QED
  BY <1>0, <1>1, <1>2 DEF HeldInv

\* So it is always.
LEMMA HeldAlways == Spec => []HeldInv
BY HeldInit, HeldStep, PTL DEF Spec

\* The files and what a process holds are of their types.
THEOREM GateTyped == Spec => []TypeOK
<1>1. HeldInv => TypeOK
  BY DEF HeldInv, Held, TraceInv, JudgedInv, Files, TypeOK
<1> QED
  BY <1>1, HeldAlways, PTL

\* For any personas, impairments, flags and sessions: what an exit code says is what was
\* done, and what the replay announces is what the gate makes of what was recorded.
THEOREM VerdictsTraced == Spec => []VerdictTraceable
<1>1. ASSUME HeldInv, result.verdict = "replayed" PROVE ReplayHonest
  <2>1. run = Broken /\ against = Working /\ result.passed = FALSE
    BY <1>1 DEF HeldInv, Replayed
  <2>2. /\ Compare(run, against, LastBar, 0).passed = FALSE
        /\ Compare(against, NoReport, LastBar, 0).passed
    BY <2>1, RecordedFall, RecordedPass
  <2> QED
    BY <2>1, <2>2, WorkingIsBuilt, BrokenIsBuilt DEF ReplayHonest, LastBar
<1>2. HeldInv => ExitTraceable
  BY DEF HeldInv, TraceInv
<1> QED
  <2>1. HeldInv => VerdictTraceable
    BY <1>1, <1>2 DEF VerdictTraceable, ReplayHonest
  <2> QED
    BY <2>1, HeldAlways, PTL

------------------------------------------------------------------------------
(***************************************************************************)
(* The views of a report.                                                  *)
(***************************************************************************)

\* Those of a sequence that are in a set are the members of both.
LEMMA AmongBoth ==
    ASSUME NEW X, NEW q \in Seq(X), NEW set
    PROVE  /\ Among(q, set) \in Seq(X \intersect set)
           /\ ToSet(Among(q, set)) = ToSet(q) \intersect set
<1> DEFINE D == DOMAIN q
           V == Seq(X)
           pick == [T \in (SUBSET D) \ {{}} |-> Max(T)]
           F == [i \in D |-> [v \in V |-> IF q[i] \in set THEN Append(v, q[i]) ELSE v]]
           Walk(f) == f = [T \in SUBSET D |->
                             IF T = {} THEN <<>>
                             ELSE IF q[Max(T)] \in set THEN Append(f[T \ {Max(T)}], q[Max(T)])
                                  ELSE f[T \ {Max(T)}]]
           g == CHOOSE f : Walk(f)
<1>1. /\ IsFiniteSet(D) /\ \A i \in D : q[i] \in X
      /\ \A T \in SUBSET D : T # {} => Max(T) \in T
  BY Positions
<1>2. Walk(g)
  <2>1. F \in [D -> [V -> V]]
    <3>1. ASSUME NEW i \in D, NEW v \in V
          PROVE  (IF q[i] \in set THEN Append(v, q[i]) ELSE v) \in V
      BY <1>1, AppendProperties
    <3> HIDE DEF V, D
    <3> QED
      BY <3>1
  <2>2. <<>> \in V /\ IsFiniteSet(D)
    BY <1>1, EmptySeq
  <2>3. Picks(pick, D)
    <3>1. \A T \in (SUBSET D) \ {{}} : Max(T) \in T /\ Max(T) \in D
      BY <1>1
    <3> HIDE DEF D
    <3> QED
      BY <3>1 DEF Picks
  <2> HIDE DEF V, F, pick, D, Walk, g
  <2>i. PICK f : Recurs(f, D, V, <<>>, pick, F)
    BY <2>1, <2>2, <2>3, Recursion
  <2>4. /\ f \in [SUBSET D -> V]
        /\ \A T \in SUBSET D :
              f[T] = IF T = {} THEN <<>> ELSE F[pick[T]][f[T \ {pick[T]}]]
    BY <2>i DEF Recurs
  <2>5. ASSUME NEW T \in SUBSET D, T # {}
        PROVE  f[T] = IF q[Max(T)] \in set THEN Append(f[T \ {Max(T)}], q[Max(T)])
                      ELSE f[T \ {Max(T)}]
    <3>1. Max(T) \in D /\ f[T \ {Max(T)}] \in V /\ pick[T] = Max(T)
      BY <1>1, <2>4, <2>5 DEF pick
    <3>2. F[Max(T)][f[T \ {Max(T)}]] =
             IF q[Max(T)] \in set THEN Append(f[T \ {Max(T)}], q[Max(T)]) ELSE f[T \ {Max(T)}]
      BY <3>1 DEF F
    <3> QED
      BY <2>4, <2>5, <3>1, <3>2
  <2>6. Walk(f)
    <3>1. f = [T \in SUBSET D |-> f[T]] /\ f[{}] = <<>>
      BY <2>4
    <3>2. f = [T \in SUBSET D |->
                  IF T = {} THEN <<>>
                  ELSE IF q[Max(T)] \in set THEN Append(f[T \ {Max(T)}], q[Max(T)])
                       ELSE f[T \ {Max(T)}]]
      BY <2>5, <3>1, Zenon
    <3> QED
      BY <3>2 DEF Walk
  <2>7. \E h : Walk(h)
    BY <2>6
  <2> QED
    BY <2>7, Zenon DEF g
<1>3. Among(q, set) = g[D]
  BY Zenon DEF Among, FoldLeft, MapThenFoldSet
<1> HIDE DEF g
<1> DEFINE A == {T \in SUBSET D : /\ g[T] \in Seq(X \intersect set)
                                  /\ ToSet(g[T]) = {q[i] : i \in T} \intersect set}
<1>4. {} \in A
  <2>1. g[{}] = <<>>
    BY <1>2
  <2>2. <<>> \in Seq(X \intersect set) /\ ToSet(<<>>) = {}
    BY EmptySeq DEF ToSet
  <2> QED
    BY <2>1, <2>2
<1>5. ASSUME NEW T \in SUBSET D, T # {}, \A x \in T : T \ {x} \in A PROVE T \in A
  <2> DEFINE m == Max(T)
             U == T \ {m}
  <2>1. m \in T /\ m \in D /\ q[m] \in X /\ U \in A
    BY <1>1, <1>5
  <2>2. g[T] = IF q[m] \in set THEN Append(g[U], q[m]) ELSE g[U]
    BY <1>2, <1>5
  <2>3. g[U] \in Seq(X \intersect set) /\ ToSet(g[U]) = {q[i] : i \in U} \intersect set
    BY <2>1
  <2>4. {q[i] : i \in T} = {q[i] : i \in U} \union {q[m]}
    BY <2>1
  <2> HIDE DEF m, U, A
  <2>5. CASE q[m] \in set
    <3> DEFINE s == g[U]
    <3>1. q[m] \in X \intersect set
      BY <2>1, <2>5
    <3>2. /\ Append(s, q[m]) \in Seq(X \intersect set)
          /\ ToSet(Append(s, q[m])) = ToSet(s) \union {q[m]}
      BY <2>3, <3>1, Appended
    <3> QED
      BY <2>2, <2>3, <2>4, <2>5, <3>2 DEF A
  <2>6. CASE q[m] \notin set
    BY <2>2, <2>3, <2>4, <2>6 DEF A
  <2> QED
    BY <2>5, <2>6
<1>6. D \in A
  <2> HIDE DEF A, D
  <2> QED
    BY <1>1, <1>4, <1>5, SetInduct
<1> QED
  BY <1>3, <1>6 DEF ToSet

------------------------------------------------------------------------------
(* Sums and clusters: what is folded over the report.                       *)

\* Clusters are made of the points that are clustered.
LEMMA Clustered ==
    ASSUME NEW X, NEW q \in Seq(X)
    PROVE  Cluster(q) \in Seq(Seq(X))
<1> DEFINE D == DOMAIN q
           V == Seq(Seq(X))
           pick == [T \in (SUBSET D) \ {{}} |-> Max(T)]
           near(v, p) == {i \in DOMAIN v : \E r \in ToSet(v[i]) : Near(p, r)}
           Join(v, p) == IF near(v, p) = {} THEN Append(v, <<p>>)
                         ELSE [v EXCEPT ![Min(near(v, p))] = Append(@, p)]
           F == [i \in D |-> [v \in V |-> Join(v, q[i])]]
           Walk(f) == f = [T \in SUBSET D |->
                             IF T = {} THEN <<>> ELSE Join(f[T \ {Max(T)}], q[Max(T)])]
           g == CHOOSE f : Walk(f)
<1>1. /\ IsFiniteSet(D) /\ \A i \in D : q[i] \in X
      /\ \A T \in SUBSET D : T # {} => Max(T) \in T
  BY Positions
<1>2. ASSUME NEW v \in V, NEW p \in X PROVE Join(v, p) \in V
  <2>1. <<p>> \in Seq(X)
    OBVIOUS
  <2>2. Append(v, <<p>>) \in V
    BY <2>1, AppendProperties
  <2>3. ASSUME NEW m PROVE [v EXCEPT ![m] = Append(@, p)] \in V
    <3> DEFINE w == [v EXCEPT ![m] = Append(@, p)]
    <3>1. DOMAIN w = 1 .. Len(v) /\ Len(v) \in Nat /\ DOMAIN v = 1 .. Len(v)
      BY LenProperties
    <3>2. ASSUME NEW i \in 1 .. Len(v) PROVE w[i] \in Seq(X)
      <4>1. v[i] \in Seq(X)
        BY <3>2, ElementOfSeq
      <4>2. Append(v[i], p) \in Seq(X)
        BY <4>1, AppendProperties
      <4>3. w[i] = IF i = m THEN Append(v[i], p) ELSE v[i]
        BY <3>1
      <4> QED
        BY <4>1, <4>2, <4>3
    <3>3. w = [i \in 1 .. Len(v) |-> w[i]]
      BY <3>1
    <3> HIDE DEF w
    <3>4. w \in [1 .. Len(v) -> Seq(X)]
      BY <3>2, <3>3
    <3> DEFINE Y == Seq(X)
               n == Len(v)
    <3>5. w \in [1 .. n -> Y] /\ n \in Nat
      BY <3>1, <3>4
    <3>6. w \in Seq(Y)
      <4> HIDE DEF Y, n, near, Join, V, D
      <4> QED
        BY <3>5, SeqDef
    <3> QED
      BY <3>6 DEF w
  <2> HIDE DEF near
  <2> QED
    BY <2>2, <2>3
<1> HIDE DEF Join
<1>3. \E f : /\ f \in [SUBSET D -> V]
             /\ f = [T \in SUBSET D |->
                       IF T = {} THEN <<>> ELSE Join(f[T \ {Max(T)}], q[Max(T)])]
  <2>1. F \in [D -> [V -> V]]
    <3>1. ASSUME NEW i \in D, NEW v \in V PROVE Join(v, q[i]) \in V
      BY <1>1, <1>2
    <3> HIDE DEF V, D
    <3> QED
      BY <3>1
  <2>2. <<>> \in V /\ IsFiniteSet(D)
    BY <1>1, EmptySeq
  <2>3. Picks(pick, D)
    <3>1. \A T \in (SUBSET D) \ {{}} : Max(T) \in T /\ Max(T) \in D
      BY <1>1
    <3> HIDE DEF D
    <3> QED
      BY <3>1 DEF Picks
  <2> HIDE DEF V, F, pick, D, Walk, g
  <2>4. PICK f : Recurs(f, D, V, <<>>, pick, F)
    BY <2>1, <2>2, <2>3, Recursion
  <2>5. /\ f \in [SUBSET D -> V]
        /\ \A T \in SUBSET D :
              f[T] = IF T = {} THEN <<>> ELSE F[pick[T]][f[T \ {pick[T]}]]
    BY <2>4 DEF Recurs
  <2>6. ASSUME NEW T \in SUBSET D, T # {} PROVE f[T] = Join(f[T \ {Max(T)}], q[Max(T)])
    <3>1. Max(T) \in D /\ f[T \ {Max(T)}] \in V /\ pick[T] = Max(T)
      BY <1>1, <2>5, <2>6 DEF pick
    <3>2. F[Max(T)][f[T \ {Max(T)}]] = Join(f[T \ {Max(T)}], q[Max(T)])
      BY <3>1 DEF F
    <3> QED
      BY <2>5, <2>6, <3>1, <3>2
  <2>7. f = [T \in SUBSET D |-> f[T]] /\ f[{}] = <<>>
    BY <2>5
  <2>8. f = [T \in SUBSET D |->
                IF T = {} THEN <<>> ELSE Join(f[T \ {Max(T)}], q[Max(T)])]
    BY <2>6, <2>7, Zenon
  <2> QED
    BY <2>5, <2>8
<1>4. Walk(g)
  BY <1>3, Zenon
<1>5. Cluster(q) = g[D]
  BY Zenon DEF Cluster, FoldLeft, MapThenFoldSet, Join
<1> HIDE DEF g
<1> DEFINE A == {T \in SUBSET D : g[T] \in V}
<1>6. {} \in A
  <2>1. g[{}] = <<>>
    BY <1>4
  <2> QED
    BY <2>1, EmptySeq
<1>7. ASSUME NEW T \in SUBSET D, T # {}, \A x \in T : T \ {x} \in A PROVE T \in A
  <2>1. Max(T) \in T /\ q[Max(T)] \in X /\ g[T \ {Max(T)}] \in V
    BY <1>1, <1>7
  <2>2. g[T] = Join(g[T \ {Max(T)}], q[Max(T)])
    BY <1>4, <1>7
  <2> HIDE DEF V
  <2> QED
    BY <1>2, <2>1, <2>2
<1>8. D \in A
  <2> HIDE DEF A, D
  <2> QED
    BY <1>1, <1>6, <1>7, SetInduct
<1> QED
  BY <1>5, <1>8

\* The credits of the personas add up.
LEMMA CreditsAddUp ==
    ASSUME NEW s, IsFiniteSet(Scored(s)), NEW w \in Nat,
           \A p \in Scored(s) : Credit(p, s[p]) \in Int /\ Credit(p, s[p]) <= w
    PROVE  LET all == w * Cardinality(Scored(s))
           IN  /\ Credits(s) \in Int /\ Credits(s) <= all
               /\ (\A p \in Scored(s) : Credit(p, s[p]) = w) => Credits(s) = all
               /\ (\E p \in Scored(s) : 2 * Credit(p, s[p]) <= w) => 2 * Credits(s) <= 2 * all - w
<1> DEFINE S == Scored(s)
           c == [p \in S |-> Credit(p, s[p])]
           pick == [T \in (SUBSET S) \ {{}} |-> CHOOSE x \in T : TRUE]
           F == [p \in S |-> [v \in Int |-> c[p] + v]]
           Walk(f) == f = [T \in SUBSET S |->
                             IF T = {} THEN 0
                             ELSE Credit(CHOOSE x \in T : TRUE, s[CHOOSE x \in T : TRUE])
                                     + f[T \ {CHOOSE x \in T : TRUE}]]
           g == CHOOSE f : Walk(f)
<1>1. \A T \in (SUBSET S) \ {{}} : (CHOOSE x \in T : TRUE) \in T
  OBVIOUS
<1>2. c \in [S -> Int] /\ \A p \in S : c[p] <= w
  OBVIOUS
<1>3. Picks(pick, S)
  BY <1>1 DEF Picks
<1>4. \E f : f \in [SUBSET S -> Int] /\ Walk(f)
  <2>1. F \in [S -> [Int -> Int]]
    <3>1. ASSUME NEW p \in S, NEW v \in Int PROVE c[p] + v \in Int
      BY <1>2
    <3> HIDE DEF c
    <3> QED
      BY <3>1
  <2> HIDE DEF F, pick, c, g, Walk
  <2>2. \E f : Recurs(f, S, Int, 0, pick, F)
    <3> DEFINE V == Int
               b == 0
    <3>1. F \in [S -> [V -> V]] /\ b \in V
      BY <2>1
    <3> HIDE DEF V, b
    <3>2. \E f : Recurs(f, S, V, b, pick, F)
      BY <1>3, <3>1, Recursion
    <3> QED
      BY <3>2 DEF V, b
  <2>3. PICK f :
            /\ f \in [SUBSET S -> Int]
            /\ \A T \in SUBSET S : f[T] = IF T = {} THEN 0 ELSE F[pick[T]][f[T \ {pick[T]}]]
    BY <2>2 DEF Recurs
  <2>4. ASSUME NEW T \in SUBSET S, T # {}
        PROVE  f[T] = Credit(CHOOSE x \in T : TRUE, s[CHOOSE x \in T : TRUE])
                         + f[T \ {CHOOSE x \in T : TRUE}]
    <3> DEFINE m == CHOOSE x \in T : TRUE
    <3>1. m \in S /\ pick[T] = m
      BY <1>1, <2>4 DEF pick
    <3> HIDE DEF m
    <3>2. f[T \ {m}] \in Int
      BY <2>3
    <3>3. F[m][f[T \ {m}]] = c[m] + f[T \ {m}]
      BY <3>1, <3>2 DEF F
    <3>4. c[m] = Credit(m, s[m])
      BY <3>1 DEF c
    <3>5. f[T] = Credit(m, s[m]) + f[T \ {m}]
      BY <2>3, <2>4, <3>1, <3>3, <3>4
    <3> QED
      BY <3>5 DEF m
  <2>5. f = [T \in SUBSET S |-> f[T]] /\ f[{}] = 0
    BY <2>3
  <2>6. Walk(f)
    <3>1. f = [T \in SUBSET S |->
                  IF T = {} THEN 0
                  ELSE Credit(CHOOSE x \in T : TRUE, s[CHOOSE x \in T : TRUE])
                          + f[T \ {CHOOSE x \in T : TRUE}]]
      BY <2>4, <2>5, Zenon
    <3> QED
      BY <3>1 DEF Walk
  <2> QED
    BY <2>3, <2>6
<1>5. Walk(g)
  <2> HIDE DEF Walk
  <2> QED
    BY <1>4, Zenon
<1>6. Credits(s) = g[S]
  BY Zenon DEF Credits, MapThenSumSet, MapThenFoldSet
<1> HIDE DEF g
<1>7. \A T \in SUBSET S : g[T] = IF T = {} THEN 0 ELSE c[pick[T]] + g[T \ {pick[T]}]
  <2> TAKE T \in SUBSET S
  <2>1. CASE T = {}
    BY <1>5, <2>1
  <2>2. CASE T # {}
    <3> DEFINE m == CHOOSE x \in T : TRUE
    <3>1. m \in S /\ pick[T] = m /\ c[m] = Credit(m, s[m])
      BY <1>1, <2>2
    <3>2. g[T] = Credit(m, s[m]) + g[T \ {m}]
      BY <1>5, <2>2
    <3> HIDE DEF m, c, pick
    <3> QED
      BY <2>2, <3>1, <3>2
  <2> QED
    BY <2>1, <2>2
<1>8. \A T \in SUBSET S : T # {} => pick[T] \in T
  BY <1>1
<1>9. \A p \in S : c[p] = Credit(p, s[p])
  OBVIOUS
<1> HIDE DEF c, pick
<1>10. /\ g[S] \in Int /\ g[S] <= w * Cardinality(S)
       /\ (\A p \in S : c[p] = w) => g[S] = w * Cardinality(S)
       /\ (\E p \in S : 2 * c[p] <= w) => 2 * g[S] <= 2 * (w * Cardinality(S)) - w
  BY <1>2, <1>7, <1>8, Worth
<1> QED
  BY <1>6, <1>9, <1>10

------------------------------------------------------------------------------
(* What each view counts.                                                   *)

\* Sessions that a swarm may end with.
Swarmed(s) ==
    DOMAIN s \subseteq Personas /\ IsFiniteSet(DOMAIN s) /\ \A p \in DOMAIN s : s[p] \in Result

\* What survived of a session is a number of steps.
LEMMA Survived ==
    ASSUME NEW r \in Result
    PROVE  StepsSurvived(r) \in Nat
BY DEF Result, StepsSurvived, None

\* The parts of a report, persona by persona.
LEMMA Parts ==
    ASSUME NEW s, Swarmed(s)
    PROVE  /\ Build(s).results = s /\ Build(s).heat = Heat(s)
           /\ Build(s).rate = RateOf(Finished(s), Scored(s))
           /\ DOMAIN Build(s).survival = DOMAIN s
           /\ \A p \in DOMAIN s :
                 /\ Build(s).survival[p].outcome = s[p].outcome
                 /\ Build(s).survival[p].completed = (s[p].outcome = "success")
                 /\ Build(s).survival[p].steps = StepsSurvived(s[p])
BY DEF Build, SurvivalRow

\* Who succeeded could act, and who abandoned did both act and fail.
LEMMA Counts ==
    ASSUME NEW s, Swarmed(s)
    PROVE  /\ IsFiniteSet(Scored(s)) /\ IsFiniteSet(Finished(s))
           /\ Finished(s) \subseteq Scored(s) /\ Scored(s) \subseteq DOMAIN s
           /\ Cardinality(Finished(s)) \in Nat /\ Cardinality(Scored(s)) \in Nat
           /\ Cardinality(Finished(s)) <= Cardinality(Scored(s))
           /\ Cardinality(Finished(s)) = Cardinality(Scored(s)) <=> Finished(s) = Scored(s)
           /\ Cardinality(Scored(s)) = 0 <=> Scored(s) = {}
<1>1. Finished(s) \subseteq Scored(s) /\ Scored(s) \subseteq DOMAIN s
  BY DEF Finished, Scored
<1>2. IsFiniteSet(Scored(s))
  BY <1>1, FS_Subset DEF Swarmed
<1>3. IsFiniteSet(Finished(s)) /\ Cardinality(Finished(s)) <= Cardinality(Scored(s))
      /\ (Cardinality(Finished(s)) = Cardinality(Scored(s)) => Finished(s) = Scored(s))
  BY <1>1, <1>2, FS_Subset
<1> QED
  BY <1>1, <1>2, <1>3, FS_CardinalityType, FS_EmptySet

\* A report is clean when somebody could act and nobody of those gave up.
LEMMA CleanMeans ==
    ASSUME NEW s, Swarmed(s)
    PROVE  Build(s).rate[1] = Build(s).rate[2] <=> Scored(s) # {} /\ Abandoned(s) = {}
<1>1. CASE Scored(s) = {}
  <2>1. Build(s).rate = <<0, 1>>
    BY <1>1, Parts DEF RateOf
  <2> QED
    BY <1>1, <2>1
<1>2. CASE Scored(s) # {}
  <2>1. Build(s).rate = <<Cardinality(Finished(s)), Cardinality(Scored(s))>>
    BY <1>2, Parts DEF RateOf
  <2>2. Build(s).rate[1] = Build(s).rate[2] <=> Finished(s) = Scored(s)
    BY <2>1, Counts
  <2>3. Finished(s) = Scored(s) <=> Abandoned(s) = {}
    BY Counts DEF Abandoned
  <2> QED
    BY <1>2, <2>2, <2>3
<1> QED
  BY <1>1, <1>2

\* The rows of the page are those of the personas.
LEMMA RowOf ==
    ASSUME NEW s, Swarmed(s), NEW p \in DOMAIN s
    PROVE  LET row == RosterRow(Build(s), p)
           IN  /\ row.who = p /\ row.outcome = s[p].outcome
               /\ row.completed = (s[p].outcome = "success")
               /\ row.coords = IF s[p].at # NoPixel THEN s[p].at
                               ELSE IF p \in DOMAIN Heat(s) THEN Heat(s)[p] ELSE NoPixel
BY Parts DEF RosterRow

\* The rows of the page are those of all who ran, in some order.
LEMMA RowsOf ==
    ASSUME NEW s, Swarmed(s)
    PROVE  /\ RosterOf(Build(s)) \in Seq({RosterRow(Build(s), p) : p \in DOMAIN s})
           /\ ToSet(RosterOf(Build(s))) = {RosterRow(Build(s), p) : p \in DOMAIN s}
<1> DEFINE R == Build(s)
           listed == Listed(R)
           Y == {RosterRow(R, p) : p \in DOMAIN s}
<1>1. Roster \in Seq(Personas) /\ ToSet(Roster) = Personas
  BY ReportAssumption DEF Personas
<1>2. listed \in Seq(Personas \intersect DOMAIN s) /\ ToSet(listed) = DOMAIN s
  <2>1. listed = Among(Roster, DOMAIN s)
    BY Parts DEF Listed
  <2>2. Personas \intersect DOMAIN s = DOMAIN s
    BY DEF Swarmed
  <2> HIDE DEF listed
  <2> QED
    BY <1>1, <2>1, <2>2, AmongBoth
<1>3. DOMAIN listed = 1 .. Len(listed) /\ Len(listed) \in Nat
  BY <1>2, LenProperties
<1> DEFINE rows == [i \in DOMAIN listed |-> RosterRow(R, listed[i])]
<1>4. RosterOf(R) = rows
  BY DEF RosterOf
<1> HIDE DEF R, listed
<1>5. \A i \in DOMAIN listed : listed[i] \in DOMAIN s
  BY <1>2 DEF ToSet
<1>6. ToSet(rows) = Y
  <2>1. ToSet(rows) = {RosterRow(R, listed[i]) : i \in DOMAIN listed}
    BY DEF ToSet
  <2>2. \A p \in DOMAIN s : \E i \in DOMAIN listed : p = listed[i]
    BY <1>2 DEF ToSet
  <2> QED
    BY <1>5, <2>1, <2>2
<1>7. rows \in [1 .. Len(listed) -> Y]
  BY <1>3, <1>5
<1>8. rows \in Seq(Y)
  <2> DEFINE n == Len(listed)
  <2>1. rows \in [1 .. n -> Y] /\ n \in Nat
    BY <1>3, <1>7
  <2> HIDE DEF n, Y, rows
  <2> QED
    BY <2>1, SeqDef
<1> QED
  BY <1>4, <1>6, <1>8 DEF R

\* There are as many rows as personas they are about.
LEMMA AsManyRows ==
    ASSUME NEW s, Swarmed(s), NEW P \in SUBSET DOMAIN s
    PROVE  Cardinality({RosterRow(Build(s), p) : p \in P}) = Cardinality(P)
<1> DEFINE f == [p \in P |-> RosterRow(Build(s), p)]
           Y == {RosterRow(Build(s), p) : p \in P}
<1>1. \A p \in P : f[p].who = p
  BY RowOf
<1>2. f \in Bijection(P, Y)
  <2>1. f \in [P -> Y] /\ \A y \in Y : \E p \in P : f[p] = y
    OBVIOUS
  <2>2. \A p, r \in P : f[p] = f[r] => p = r
    BY <1>1
  <2> HIDE DEF f, Y
  <2> QED
    BY <2>1, <2>2 DEF Bijection, Injection, Surjection, IsInjective
<1>3. IsFiniteSet(P)
  BY FS_Subset DEF Swarmed
<1>4. Cardinality(P) = Cardinality(Y)
  <2> HIDE DEF f, Y
  <2> QED
    BY <1>2, <1>3, FS_Bijection DEF ExistsBijection
<1> QED
  BY <1>4

\* Every count of those who could act and of those who finished is the same.
LEMMA CountsAgree ==
    ASSUME NEW s, Swarmed(s)
    PROVE  LET R == Build(s)
               page == Deliverable(R)
               plain == RenderHtml(R)
               done == <<Cardinality(Finished(s)), Cardinality(Scored(s))>>
           IN  /\ Completions(R) = done
               /\ page.successes = done[1] /\ page.non_error = done[2]
               /\ plain.successes = done[1] /\ plain.non_error = done[2]
               /\ PrintSummary(R).passed = done[1]
               /\ page.completion_pct = plain.completion_pct
               /\ page.every <=> Scored(s) # {} /\ Abandoned(s) = {}
<1> DEFINE R == Build(s)
           rows == RosterOf(R)
<1>0. /\ DOMAIN R.survival = DOMAIN s
      /\ \A p \in DOMAIN s : /\ R.survival[p].outcome = s[p].outcome
                             /\ R.survival[p].completed = (s[p].outcome = "success")
  BY Parts
<1>r. /\ ToSet(rows) = {RosterRow(R, p) : p \in DOMAIN s}
      /\ \A p \in DOMAIN s : /\ RosterRow(R, p).outcome = s[p].outcome
                             /\ RosterRow(R, p).completed = (s[p].outcome = "success")
  BY RowsOf, RowOf
<1> HIDE DEF R, rows
<1>1. {p \in DOMAIN R.survival : R.survival[p].completed} = Finished(s)
  BY <1>0 DEF Finished
<1>2. {p \in DOMAIN R.survival : R.survival[p].outcome # "error"} = Scored(s)
  BY <1>0 DEF Scored
<1>3. {p \in Scored(s) : R.survival[p].completed} = Finished(s)
  BY <1>0 DEF Scored, Finished
<1>4. Completions(R) = <<Cardinality(Finished(s)), Cardinality(Scored(s))>>
  BY <1>2, <1>3 DEF Completions
<1>5. {r \in ToSet(rows) : r.outcome # "error"} = {RosterRow(R, p) : p \in Scored(s)}
  BY <1>r DEF Scored
<1>6. {r \in ToSet(rows) : r.completed} = {RosterRow(R, p) : p \in Finished(s)}
  BY <1>r DEF Finished
<1>7. /\ Cardinality({r \in ToSet(rows) : r.outcome # "error"}) = Cardinality(Scored(s))
      /\ Cardinality({r \in ToSet(rows) : r.completed}) = Cardinality(Finished(s))
  BY <1>5, <1>6, Counts, AsManyRows DEF R
<1>8. {r \in ToSet(rows) : r.outcome # "error"} = {} <=> Scored(s) = {}
  BY <1>5
<1> DEFINE tried == {r \in ToSet(rows) : r.outcome # "error"}
           won == {r \in ToSet(rows) : r.completed}
<1>9. /\ Deliverable(R).non_error = Cardinality(tried)
      /\ Deliverable(R).successes = Cardinality(won)
      /\ Deliverable(R).every = (Cardinality(tried) = Cardinality(won) /\ tried # {})
      /\ Deliverable(R).completion_pct = RoundHalfEven(100 * R.rate[1], R.rate[2])
  BY DEF Deliverable, rows
<1>10. /\ RenderHtml(R).non_error = Cardinality(Scored(s))
       /\ RenderHtml(R).successes = Cardinality(Finished(s))
       /\ RenderHtml(R).completion_pct = RoundHalfEven(100 * R.rate[1], R.rate[2])
  BY Parts DEF RenderHtml, R
<1>11. PrintSummary(R).passed = Cardinality(Finished(s))
  BY <1>1 DEF PrintSummary
<1> HIDE DEF tried, won
<1>12. Finished(s) = Scored(s) <=> Abandoned(s) = {}
  BY Counts DEF Abandoned
<1>13. Deliverable(R).every <=> Scored(s) # {} /\ Abandoned(s) = {}
  BY <1>7, <1>8, <1>9, <1>12, Counts DEF tried, won
<1> QED
  BY <1>4, <1>7, <1>9, <1>10, <1>11, <1>13 DEF R, tried, won

\* The test results divide the personas as the statistics do.
LEMMA TestsAgree ==
    ASSUME NEW s, Swarmed(s)
    PROVE  LET R == Build(s)
               stats == Insights(R).stats
           IN  /\ Tests(R, "passed") = stats.personas_succeeded
               /\ Tests(R, "failure") = stats.personas_abandoned
               /\ Tests(R, "error") = stats.personas_errored
<1> DEFINE R == Build(s)
<1>1. /\ Insights(R).stats.personas_succeeded = Cardinality(Finished(s))
      /\ Insights(R).stats.personas_abandoned = Cardinality(Abandoned(s))
      /\ Insights(R).stats.personas_errored = Cardinality(DOMAIN s \ Scored(s))
  <2>1. Insights(R).stats = RunStats(R)
    BY DEF Insights
  <2>2. R.results = s
    BY Parts
  <2> HIDE DEF R
  <2> QED
    BY <2>1, <2>2 DEF RunStats
<1>0. /\ DOMAIN R.survival = DOMAIN s
      /\ \A p \in DOMAIN s : /\ R.survival[p].outcome = s[p].outcome
                             /\ R.survival[p].completed = (s[p].outcome = "success")
  BY Parts
<1> HIDE DEF R
<1>2. \A p \in DOMAIN s :
         JunitXml(R)[p] = IF s[p].outcome = "success" THEN "passed"
                               ELSE IF s[p].outcome = "error" THEN "error" ELSE "failure"
  BY <1>0 DEF JunitXml
<1>3. DOMAIN R.survival = DOMAIN s
  BY <1>0
<1>4. {p \in DOMAIN R.survival : JunitXml(R)[p] = "passed"} = Finished(s)
  BY <1>2, <1>3 DEF Finished
<1>5. {p \in DOMAIN R.survival : JunitXml(R)[p] = "failure"} = Abandoned(s)
  BY <1>2, <1>3 DEF Finished, Scored, Abandoned
<1>6. {p \in DOMAIN R.survival : JunitXml(R)[p] = "error"} = DOMAIN s \ Scored(s)
  BY <1>2, <1>3 DEF Scored
<1> QED
  BY <1>1, <1>4, <1>5, <1>6 DEF Tests, R

\* The rate is what the test results are a share of.
LEMMA RateAgrees ==
    ASSUME NEW s, Swarmed(s)
    PROVE  LET done == <<Cardinality(Finished(s)), Cardinality(Scored(s))>>
           IN  Build(s).rate = IF done[2] = 0 THEN <<0, 1>> ELSE done
BY Parts, Counts DEF RateOf

\* The two pages draw one series of the sessions.
LEMMA SeriesAgree ==
    ASSUME NEW s, Swarmed(s)
    PROVE  LET q == SeriesOf(Scored(s), Finished(s), [p \in DOMAIN s |-> StepsSurvived(s[p])])
           IN  Insights(Build(s)).series = q /\ Deliverable(Build(s)).series = q
<1> DEFINE R == Build(s)
           f == [p \in DOMAIN s |-> StepsSurvived(s[p])]
<1>0. /\ R.results = s /\ DOMAIN R.survival = DOMAIN s
      /\ \A p \in DOMAIN s : /\ R.survival[p].outcome = s[p].outcome
                             /\ R.survival[p].completed = (s[p].outcome = "success")
                             /\ R.survival[p].steps = StepsSurvived(s[p])
  BY Parts
<1>1. Insights(R).series = SurvivalSeries(R) /\ Deliverable(R).series = SurvivalSeriesFromReport(R)
  BY Zenon DEF Insights, Deliverable
<1> HIDE DEF R
<1>2. SurvivalSeries(R) = SeriesOf(Scored(s), Finished(s), f)
  BY <1>0 DEF SurvivalSeries
<1>3. {p \in DOMAIN R.survival : R.survival[p].outcome # "error"} = Scored(s)
  BY <1>0 DEF Scored
<1>4. {p \in DOMAIN R.survival : R.survival[p].completed} = Finished(s)
  BY <1>0 DEF Finished
<1>5. [p \in DOMAIN R.survival |-> R.survival[p].steps] = f
  BY <1>0
<1>6. SurvivalSeriesFromReport(R) = SeriesOf(Scored(s), Finished(s), f)
  BY <1>3, <1>4, <1>5 DEF SurvivalSeriesFromReport
<1> QED
  BY <1>1, <1>2, <1>6 DEF R

\* A series starts with everyone, never rises and keeps those who finished.
LEMMA SeriesFalls ==
    ASSUME NEW P, IsFiniteSet(P), P # {}, NEW F \in SUBSET P,
           NEW f, \A p \in P : f[p] \in Nat
    PROVE  LET q == SeriesOf(P, F, f)
           IN  /\ NonIncreasing(q) /\ Head(q) = Cardinality(P)
               /\ Last(q) >= Cardinality(F)
<1> DEFINE T == {f[p] : p \in P}
           g == [p \in P |-> f[p]]
           n == Max(T)
           Alive(i) == {p \in P : p \in F \/ f[p] >= i - 1}
           q == [i \in 1 .. n + 1 |-> Cardinality(Alive(i))]
<1>1. T \in SUBSET Nat /\ T # {}
  OBVIOUS
<1>2. IsFiniteSet(T)
  <2>1. g \in Surjection(P, T)
    BY DEF Surjection
  <2> HIDE DEF g, T
  <2> QED
    BY <2>1, FS_Surjection
<1>3. n \in Nat
  BY <1>1, <1>2, Greatest
<1>4. SeriesOf(P, F, f) = q
  BY DEF SeriesOf
<1>5. \A i : IsFiniteSet(Alive(i)) /\ Cardinality(Alive(i)) \in Nat
  BY FS_Subset, FS_CardinalityType
<1>6. ASSUME NEW i \in 1 .. n PROVE Cardinality(Alive(i)) >= Cardinality(Alive(i + 1))
  <2>1. Alive(i + 1) \subseteq Alive(i)
    BY <1>3
  <2>2. IsFiniteSet(Alive(i)) /\ Cardinality(Alive(i)) \in Nat /\ Cardinality(Alive(i + 1)) \in Nat
    BY <1>5
  <2> HIDE DEF Alive
  <2> QED
    BY <2>1, <2>2, FS_Subset
<1>7. Alive(1) = P
  OBVIOUS
<1>8. Cardinality(Alive(n + 1)) >= Cardinality(F)
  <2>1. F \subseteq Alive(n + 1)
    OBVIOUS
  <2>2. IsFiniteSet(Alive(n + 1)) /\ Cardinality(Alive(n + 1)) \in Nat /\ Cardinality(F) \in Nat
    BY <1>5, FS_Subset, FS_CardinalityType
  <2> HIDE DEF Alive
  <2> QED
    BY <2>1, <2>2, FS_Subset
<1> HIDE DEF T, n
<1> DEFINE c == [i \in 1 .. n + 1 |-> Cardinality(Alive(i))]
<1>9. q \in Seq(Nat) /\ Len(q) = n + 1 /\ \A i \in 1 .. n + 1 : q[i] = Cardinality(Alive(i))
  <2>1. \A i \in 1 .. n + 1 : Cardinality(Alive(i)) \in Nat
    BY <1>5
  <2> HIDE DEF Alive
  <2>2. q \in [1 .. n + 1 -> Nat]
    BY <2>1
  <2>3. n + 1 \in Nat
    BY <1>3
  <2> QED
    BY <2>2, <2>3
<1> HIDE DEF q, Alive
<1>10. Head(q) = q[1] /\ Last(q) = q[n + 1]
  BY <1>3, <1>9, HeadTailProperties DEF Last
<1>11. NonIncreasing(q)
  <2>1. \A i \in 1 .. n : q[i] >= q[i + 1]
    BY <1>3, <1>6, <1>9
  <2>2. Len(q) - 1 = n
    BY <1>3, <1>9
  <2> QED
    BY <2>1, <2>2 DEF NonIncreasing
<1> QED
  BY <1>3, <1>4, <1>7, <1>8, <1>9, <1>10, <1>11

\* A persona's credit is a full one for a success and at most a half for anything else.
LEMMA CreditOf ==
    ASSUME NEW p \in Personas, NEW r \in Result
    PROVE  /\ Credit(p, r) \in Int /\ Credit(p, r) <= Unit
           /\ r.outcome = "success" => Credit(p, r) = Unit
           /\ r.outcome # "success" => 2 * Credit(p, r) <= Unit
<1>1. CASE r.outcome = "success"
  BY <1>1, ReportAssumption DEF Credit
<1>2. CASE r.outcome # "success"
  <2> DEFINE h == Unit \div 2
             m == 2 * MaxSteps[p]
             d == Unit \div m
             e == StepsSurvived(r) * d
  <2>1. Unit \in Nat \ {0} /\ m \in Nat \ {0} /\ StepsSurvived(r) \in Nat
    BY ReportAssumption, Survived
  <2>2. h \in Int /\ 2 * h <= Unit
    BY <2>1
  <2>3. d \in Int
    <3>1. Unit \in Int /\ m \in Nat \ {0}
      BY <2>1
    <3> HIDE DEF m
    <3> QED
      BY <3>1, Division
  <2> HIDE DEF d, m, h
  <2>4. e \in Int
    BY <2>1, <2>3
  <2>5. Credit(p, r) = Min({h, e})
    BY <1>2 DEF Credit, h, d, m
  <2> HIDE DEF e
  <2>6. Credit(p, r) \in Int /\ Credit(p, r) <= h
    BY <2>2, <2>4, <2>5, MinOfTwo
  <2> QED
    BY <1>2, <2>1, <2>2, <2>6
<1> QED
  BY <1>1, <1>2

\* Up to 99 credits that are half a credit short do not round to a full score.
LEMMA FullScore ==
    ASSUME NEW u \in Nat \ {0}, NEW n \in 1 .. 99, NEW c \in Int
    PROVE  /\ c = u * n => RoundHalfEven(100 * c, u * n) = 100
           /\ 2 * c <= 2 * (u * n) - u => RoundHalfEven(100 * c, u * n) # 100
<1> DEFINE d == u * n
           a == 100 * c
           down == a \div d
           rest == a % d
<1>1. d \in Nat /\ d > 0 /\ 99 * u >= d
  <2>1. d \in Int
    OBVIOUS
  <2>2. u * 1 <= u * n /\ u * n <= u * 99
    BY Times
  <2> QED
    BY <2>1, <2>2
<1>2. down \in Int /\ rest \in 0 .. d - 1 /\ a = d * down + rest
  <2> HIDE DEF d, a
  <2>1. a \in Int
    BY DEF a
  <2> QED
    BY <1>1, <2>1, Division
<1>3. RoundHalfEven(a, d) =
        IF 2 * rest > d \/ (2 * rest = d /\ down % 2 = 1) THEN down + 1 ELSE down
  BY DEF RoundHalfEven
<1> HIDE DEF d, down, rest
<1>4. ASSUME c = d PROVE RoundHalfEven(a, d) = 100
  <2>1. d * down + rest = 100 * d
    BY <1>2, <1>4
  <2>2. ASSUME down >= 101 PROVE FALSE
    <3>1. d * 101 <= d * down
      BY <1>1, <1>2, <2>2, Times
    <3>2. d * down \in Int
      BY <1>1, <1>2
    <3> QED
      BY <1>1, <1>2, <2>1, <3>1, <3>2
  <2>3. ASSUME down <= 99 PROVE FALSE
    <3>1. d * down <= d * 99
      BY <1>1, <1>2, <2>3, Times
    <3>2. d * down \in Int
      BY <1>1, <1>2
    <3> QED
      BY <1>1, <1>2, <2>1, <3>1, <3>2
  <2>4. down = 100
    BY <1>2, <2>2, <2>3
  <2>5. rest = 0
    BY <1>1, <1>2, <2>1, <2>4
  <2> QED
    BY <1>1, <1>3, <2>4, <2>5
<1>5. ASSUME 2 * c <= 2 * d - u PROVE RoundHalfEven(a, d) # 100
  <2>1. a = 100 * c
    OBVIOUS
  <2> HIDE DEF a
  <2>2. 2 * a <= 200 * d - 100 * u
    BY <1>1, <1>5, <2>1
  <2>3. 2 * a < 199 * d
    BY <1>1, <2>1, <2>2
  <2>4. ASSUME down >= 100 PROVE FALSE
    <3>1. d * 100 <= d * down
      BY <1>1, <1>2, <2>4, Times
    <3>2. d * down \in Int
      BY <1>1, <1>2
    <3> QED
      BY <1>1, <1>2, <2>1, <2>3, <3>1, <3>2
  <2>5. ASSUME down = 99 PROVE RoundHalfEven(a, d) = 99
    <3>1. a = 99 * d + rest
      BY <1>1, <1>2, <2>5
    <3>2. 2 * rest < d
      BY <1>1, <1>2, <2>1, <2>3, <3>1
    <3> QED
      BY <1>1, <1>2, <1>3, <2>5, <3>2
  <2> QED
    BY <1>2, <1>3, <2>4, <2>5
<1> QED
  BY <1>4, <1>5 DEF d

\* The score is full just when nobody who could act gave up.
LEMMA ScoreMeans ==
    ASSUME NEW s, Swarmed(s), Cardinality(DOMAIN s) < 100
    PROVE  Insights(Build(s)).score = 100 <=> Scored(s) # {} /\ Abandoned(s) = {}
<1> DEFINE S == Scored(s)
           sum == Credits(s)
           n == Cardinality(S)
<1>1. Insights(Build(s)).score = IF S = {} THEN 0 ELSE RoundHalfEven(100 * sum, Unit * n)
  <2> DEFINE R == Build(s)
  <2>1. R.results = s
    BY Parts
  <2> HIDE DEF R
  <2>2. Insights(R).score = IF S = {} THEN 0 ELSE RoundHalfEven(100 * sum, Unit * n)
    BY <2>1 DEF Insights
  <2> QED
    BY <2>2 DEF R
<1>2. CASE S = {}
  BY <1>1, <1>2
<1>3. CASE S # {}
  <2>1. IsFiniteSet(S) /\ S \subseteq DOMAIN s /\ n \in Nat /\ n # 0
    BY <1>3, Counts
  <2>2. n \in 1 .. 99
    <3>1. IsFiniteSet(DOMAIN s) /\ Cardinality(DOMAIN s) \in Nat
      BY FS_CardinalityType DEF Swarmed
    <3>2. n <= Cardinality(DOMAIN s)
      BY <2>1, <3>1, FS_Subset
    <3> HIDE DEF n, S
    <3> QED
      BY <2>1, <3>1, <3>2
  <2>3. \A p \in S : p \in Personas /\ s[p] \in Result
    BY <2>1 DEF Swarmed
  <2>4. Unit \in Nat \ {0}
    BY ReportAssumption
  <2>5. /\ sum \in Int /\ sum <= Unit * n
        /\ (\A p \in S : Credit(p, s[p]) = Unit) => sum = Unit * n
        /\ (\E p \in S : 2 * Credit(p, s[p]) <= Unit) => 2 * sum <= 2 * (Unit * n) - Unit
    <3>1. \A p \in S : Credit(p, s[p]) \in Int /\ Credit(p, s[p]) <= Unit
      BY <2>3, CreditOf
    <3>2. Unit \in Nat
      BY <2>4
    <3> QED
      BY <2>1, <3>1, <3>2, CreditsAddUp
  <2>6. ASSUME Abandoned(s) = {} PROVE sum = Unit * n
    <3>1. \A p \in S : s[p].outcome = "success"
      BY <2>6, Counts DEF Abandoned, Finished
    <3>2. \A p \in S : Credit(p, s[p]) = Unit
      BY <2>3, <3>1, CreditOf
    <3> QED
      BY <2>5, <3>2
  <2>7. ASSUME Abandoned(s) # {} PROVE 2 * sum <= 2 * (Unit * n) - Unit
    <3>1. PICK p \in S : s[p].outcome # "success"
      BY <2>1, <2>7 DEF Abandoned, Finished
    <3>2. 2 * Credit(p, s[p]) <= Unit
      BY <2>3, <3>1, CreditOf
    <3> QED
      BY <2>5, <3>1, <3>2
  <2> HIDE DEF sum, n, S
  <2>8. /\ sum = Unit * n => RoundHalfEven(100 * sum, Unit * n) = 100
        /\ 2 * sum <= 2 * (Unit * n) - Unit => RoundHalfEven(100 * sum, Unit * n) # 100
    BY <2>2, <2>4, <2>5, FullScore
  <2> QED
    BY <1>1, <1>3, <2>6, <2>7, <2>8 DEF S
<1> QED
  BY <1>2, <1>3

------------------------------------------------------------------------------
(* What the page says of whom.                                              *)

\* Each row of the page is about one of the personas who ran.
LEMMA RowsSay ==
    ASSUME NEW s, Swarmed(s), NEW r \in ToSet(RosterOf(Build(s)))
    PROVE  /\ r.who \in DOMAIN s /\ r.outcome = s[r.who].outcome
           /\ r.completed = (s[r.who].outcome = "success")
           /\ r.coords = IF s[r.who].at # NoPixel THEN s[r.who].at
                         ELSE IF r.who \in DOMAIN Heat(s) THEN Heat(s)[r.who] ELSE NoPixel
<1>1. PICK p \in DOMAIN s : r = RosterRow(Build(s), p)
  BY RowsOf
<1> QED
  BY <1>1, RowOf

\* The rows of those who are lost are those of the personas who gave up.
LEMMA LostOnes ==
    ASSUME NEW s, Swarmed(s)
    PROVE  Who({r \in ToSet(RosterOf(Build(s))) : Lost(r)}) = Abandoned(s)
<1> DEFINE rows == RosterOf(Build(s))
<1>1. ASSUME NEW r \in ToSet(rows), Lost(r) PROVE r.who \in Abandoned(s)
  <2>1. /\ r.who \in DOMAIN s /\ r.outcome = s[r.who].outcome
        /\ r.completed = (s[r.who].outcome = "success")
    BY RowsSay
  <2> HIDE DEF rows
  <2>2. s[r.who].outcome # "error" /\ s[r.who].outcome # "success"
    BY <1>1, <2>1, Zenon DEF Lost
  <2> QED
    BY <2>1, <2>2 DEF Abandoned, Scored, Finished
<1>2. ASSUME NEW p \in Abandoned(s) PROVE \E r \in ToSet(rows) : Lost(r) /\ r.who = p
  <2> DEFINE r == RosterRow(Build(s), p)
  <2>1. p \in DOMAIN s /\ s[p].outcome # "success" /\ s[p].outcome # "error"
    BY <1>2 DEF Abandoned, Scored, Finished
  <2>2. r \in ToSet(rows) /\ r.who = p /\ r.outcome = s[p].outcome
        /\ r.completed = (s[p].outcome = "success")
    BY <2>1, RowsOf, RowOf
  <2> HIDE DEF r, rows
  <2> QED
    BY <2>1, <2>2 DEF Lost
<1> HIDE DEF rows
<1>3. Who({r \in ToSet(rows) : Lost(r)}) = Abandoned(s)
  BY <1>1, <1>2 DEF Who
<1> QED
  BY <1>3 DEF rows

\* A finding on where users gave up is about such users.
LEMMA ClusterBlames ==
    ASSUME NEW Y, NEW rows \in Seq(Y), ToSet(rows) = Y
    PROVE  ClusterFinding(rows) \subseteq Who({r \in Y : Lost(r)})
<1> DEFINE X == {r \in Y : Lost(r) /\ r.coords # NoPixel}
           q == Among(rows, X)
           clusters == Cluster(q)
           sizes == {Len(clusters[i]) : i \in DOMAIN clusters}
           size == Max(sizes)
           largest == {i \in DOMAIN clusters : Len(clusters[i]) = size}
           best == Min(largest)
<1>1. ClusterFinding(rows) = IF clusters = <<>> THEN {}
                             ELSE IF size < 2 THEN {} ELSE Who(ToSet(clusters[best]))
  BY DEF ClusterFinding
<1>2. clusters \in Seq(Seq(X))
  <2>1. q \in Seq(Y \intersect X)
    <3> HIDE DEF X
    <3> QED
      BY AmongBoth
  <2>2. Y \intersect X = X
    OBVIOUS
  <2> HIDE DEF q, X
  <2> QED
    BY <2>1, <2>2, Clustered
<1> HIDE DEF clusters, X
<1>3. CASE clusters # <<>> /\ ~(size < 2)
  <2>1. /\ DOMAIN clusters = 1 .. Len(clusters) /\ Len(clusters) \in Nat
        /\ \A i \in DOMAIN clusters : clusters[i] \in Seq(X) /\ Len(clusters[i]) \in Nat
    BY <1>2, LenProperties, ElementOfSeq
  <2>2. DOMAIN clusters # {} /\ IsFiniteSet(DOMAIN clusters)
    <3> HIDE DEF sizes, size, largest, best
    <3>1. Len(clusters) # 0
      BY <1>2, <1>3, EmptySeq
    <3> DEFINE n == Len(clusters)
    <3>2. n \in Nat /\ n # 0 /\ DOMAIN clusters = 1 .. n
      BY <2>1, <3>1
    <3> HIDE DEF n
    <3>3. 1 .. n # {} /\ IsFiniteSet(1 .. n)
      <4>1. 1 \in 1 .. n /\ 1 \in Int /\ n \in Int
        BY <3>2
      <4>2. IsFiniteSet(1 .. n)
        BY <4>1, FS_Interval
      <4> QED
        BY <4>1, <4>2
    <3> QED
      BY <3>2, <3>3
  <2>3. size \in sizes
    <3> DEFINE g == [i \in DOMAIN clusters |-> Len(clusters[i])]
    <3>1. g \in Surjection(DOMAIN clusters, sizes)
      BY DEF Surjection
    <3>2. sizes \in SUBSET Int /\ sizes # {}
      <4> HIDE DEF size, largest, best, g
      <4>1. \A i \in DOMAIN clusters : Len(clusters[i]) \in Int
        BY <2>1
      <4> QED
        BY <2>2, <4>1
    <3> HIDE DEF g, sizes
    <3>3. IsFiniteSet(sizes)
      BY <2>2, <3>1, FS_Surjection
    <3> QED
      BY <3>2, <3>3, Greatest
  <2>4. largest \in SUBSET Nat /\ largest # {} /\ largest \subseteq DOMAIN clusters
    <3> HIDE DEF size, best
    <3>1. \E i \in DOMAIN clusters : Len(clusters[i]) = size
      BY <2>3
    <3>2. DOMAIN clusters \subseteq Nat
      BY <2>1
    <3> HIDE DEF sizes
    <3> QED
      BY <3>1, <3>2
  <2> HIDE DEF largest
  <2>5. best \in largest
    BY <2>4, Least DEF Min
  <2>6. clusters[best] \in Seq(X)
    BY <2>1, <2>4, <2>5
  <2>7. ToSet(clusters[best]) \subseteq X
    BY <2>6, SeqSetFinite
  <2> HIDE DEF best, size
  <2> QED
    BY <1>1, <1>3, <2>7 DEF Who, X
<1> QED
  BY <1>1, <1>3

\* What the findings that lead the page say.
LEMMA FindingsSay ==
    ASSUME NEW s, Swarmed(s)
    PROVE  LET findings == BuildFindings(RosterOf(Build(s)))
           IN  /\ Head(findings).kind = "clean sweep" => Scored(s) # {} /\ Abandoned(s) = {}
               /\ \A i \in DOMAIN findings :
                     findings[i].kind \in {"cluster", "budget", "losses"} =>
                        findings[i].who \subseteq Abandoned(s)
<1> DEFINE rows == RosterOf(Build(s))
           Y == ToSet(rows)
           f1 == [kind |-> "cluster", who |-> ClusterFinding(rows)]
           f2 == [kind |-> "budget", who |-> BudgetFinding(rows)]
           f3 == [kind |-> "contrast", who |-> ContrastFinding(rows)]
           f4 == [kind |-> "rage", who |-> RageFinding(rows)]
           found == <<f1, f2, f3, f4>>
           telling == {f \in ToSet(found) : f.who # {}}
           kept == Among(found, telling)
           losses == Who({r \in Y : Lost(r)})
           sweep == [kind |-> "clean sweep", who |-> Who({r \in Y : r.completed})]
           lost == [kind |-> "losses", who |-> losses]
<1>1. BuildFindings(rows) =
        IF kept # <<>> THEN SubSeq(kept, 1, Min({3, Len(kept)}))
        ELSE IF losses = {} /\ \E r \in Y : r.outcome # "error" THEN <<sweep>> ELSE <<lost>>
  BY DEF BuildFindings
<1>2. losses = Abandoned(s)
  BY LostOnes
<1>3. rows \in Seq(Y)
  BY RowsOf
<1>4. ClusterFinding(rows) \subseteq Abandoned(s)
  <2> HIDE DEF rows
  <2> QED
    BY <1>2, <1>3, ClusterBlames
<1>5. BudgetFinding(rows) \subseteq Abandoned(s)
  <2>1. \A r \in Y : r.outcome \in {"step_budget", "time_budget"} => Lost(r)
    BY RowsSay DEF Lost
  <2> HIDE DEF rows
  <2> QED
    BY <1>2, <2>1 DEF BudgetFinding, Who
<1>6. (\E r \in Y : r.outcome # "error") => Scored(s) # {}
  BY RowsSay DEF Scored
<1> HIDE DEF rows, losses
<1>7. kept \in Seq(telling) /\ \A f \in telling :
         /\ f.kind # "clean sweep"
         /\ f.kind \in {"cluster", "budget", "losses"} => f.who \subseteq Abandoned(s)
  <2>1. ToSet(found) = {f1, f2, f3, f4} /\ found \in Seq({f1, f2, f3, f4})
    <3> HIDE DEF f1, f2, f3, f4
    <3> QED
      BY DEF ToSet
  <2>2. \A f \in {f1, f2, f3, f4} :
           f.kind # "clean sweep"
           /\ (f.kind \in {"cluster", "budget", "losses"} => f.who \subseteq Abandoned(s))
    <3>1. f1.kind # "clean sweep" /\ f1.who \subseteq Abandoned(s)
      BY <1>4
    <3>2. f2.kind # "clean sweep" /\ f2.who \subseteq Abandoned(s)
      BY <1>5
    <3>3. f3.kind # "clean sweep" /\ f3.kind \notin {"cluster", "budget", "losses"}
      OBVIOUS
    <3>4. f4.kind # "clean sweep" /\ f4.kind \notin {"cluster", "budget", "losses"}
      OBVIOUS
    <3> HIDE DEF f1, f2, f3, f4
    <3> QED
      BY <3>1, <3>2, <3>3, <3>4
  <2> DEFINE four == {f1, f2, f3, f4}
  <2>3. four \intersect telling = telling
    BY <2>1
  <2>4. kept \in Seq(four \intersect telling)
    <3>1. found \in Seq(four)
      BY <2>1
    <3> HIDE DEF four, found, telling
    <3> QED
      BY <3>1, AmongBoth
  <2>5. \A f \in telling : f \in four
    BY <2>1
  <2> HIDE DEF four, found, telling, f1, f2, f3, f4
  <2>6. kept \in Seq(telling)
    BY <2>3, <2>4
  <2> QED
    BY <2>2, <2>5, <2>6 DEF four
<1> HIDE DEF kept, telling
<1>8. CASE kept # <<>>
  <2> DEFINE shown == SubSeq(kept, 1, Min({3, Len(kept)}))
  <2>1. Head(shown) \in telling /\ \A i \in DOMAIN shown : shown[i] \in telling
    <3>1. 3 \in Nat \ {0}
      OBVIOUS
    <3> HIDE DEF sweep, lost, found
    <3> QED
      BY <1>7, <1>8, <3>1, FirstFew
  <2>2. BuildFindings(rows) = shown
    BY <1>1, <1>8
  <2> HIDE DEF shown
  <2>3. /\ Head(shown).kind # "clean sweep"
        /\ \A i \in DOMAIN shown :
              shown[i].kind \in {"cluster", "budget", "losses"} => shown[i].who \subseteq Abandoned(s)
    BY <1>7, <2>1
  <2> QED
    BY <2>2, <2>3 DEF rows
<1>9. CASE kept = <<>> /\ losses = {} /\ \E r \in Y : r.outcome # "error"
  <2>1. BuildFindings(rows) = <<sweep>>
    BY <1>1, <1>9
  <2>2. sweep.kind = "clean sweep"
    OBVIOUS
  <2> HIDE DEF sweep
  <2>3. DOMAIN <<sweep>> = {1} /\ <<sweep>>[1] = sweep
    OBVIOUS
  <2> QED
    BY <1>2, <1>6, <1>9, <2>1, <2>2, <2>3 DEF rows
<1>10. CASE kept = <<>> /\ ~(losses = {} /\ \E r \in Y : r.outcome # "error")
  <2>1. BuildFindings(rows) = <<lost>>
    BY <1>1, <1>10
  <2>2. lost.kind = "losses" /\ lost.who = Abandoned(s)
    BY <1>2
  <2> HIDE DEF lost
  <2>3. DOMAIN <<lost>> = {1} /\ <<lost>>[1] = lost /\ Head(<<lost>>) = lost
    OBVIOUS
  <2>4. "losses" # "clean sweep"
    OBVIOUS
  <2> DEFINE shown == <<lost>>
  <2>5. /\ Head(shown).kind # "clean sweep"
        /\ \A i \in DOMAIN shown : shown[i].who \subseteq Abandoned(s)
    BY <2>2, <2>3, <2>4
  <2> HIDE DEF shown
  <2>6. BuildFindings(rows) = shown
    BY <2>1 DEF shown
  <2> QED
    BY <2>5, <2>6 DEF rows
<1> QED
  BY <1>8, <1>9, <1>10

\* The points of the page are those of the report, of who gave up.
LEMMA BlobsSay ==
    ASSUME NEW s, Swarmed(s)
    PROVE  Blobs(RosterOf(Build(s))) = Abandoned(s) \intersect DOMAIN Heat(s)
<1> DEFINE rows == RosterOf(Build(s))
<1>1. \A p \in DOMAIN s : s[p] \in Result
  BY DEF Swarmed
<1>2. /\ DOMAIN Heat(s) \subseteq DOMAIN s
      /\ \A p \in DOMAIN s : p \in DOMAIN Heat(s) <=> s[p].outcome # "success" /\ s[p].at # NoPixel
  BY DEF Heat
<1>3. ASSUME NEW r \in ToSet(rows), r.coords # NoPixel, r.outcome # "error"
      PROVE  r.who \in Abandoned(s) \intersect DOMAIN Heat(s)
  <2>1. r.who \in DOMAIN s /\ s[r.who].outcome # "error" /\ s[r.who].at # NoPixel
    BY <1>2, <1>3, RowsSay
  <2>2. s[r.who].outcome # "success"
    BY <1>1, <2>1 DEF Result
  <2> QED
    BY <1>2, <2>1, <2>2 DEF Abandoned, Scored, Finished
<1>4. ASSUME NEW p \in Abandoned(s) \intersect DOMAIN Heat(s)
      PROVE  \E r \in ToSet(rows) : r.coords # NoPixel /\ r.outcome # "error" /\ r.who = p
  <2> DEFINE r == RosterRow(Build(s), p)
  <2>1. p \in DOMAIN s /\ s[p].outcome # "error" /\ s[p].at # NoPixel
    BY <1>2, <1>4 DEF Abandoned, Scored
  <2>2. r \in ToSet(rows)
    BY <2>1, RowsOf
  <2>3. r.who = p /\ r.outcome = s[p].outcome
    BY <2>1, RowOf
  <2>4. r.coords = s[p].at
    <3>1. r.coords = IF s[p].at # NoPixel THEN s[p].at
                     ELSE IF p \in DOMAIN Heat(s) THEN Heat(s)[p] ELSE NoPixel
      BY <2>1, RowOf
    <3> HIDE DEF r
    <3> QED
      BY <2>1, <3>1
  <2> HIDE DEF r, rows
  <2> QED
    BY <2>1, <2>2, <2>3, <2>4
<1> HIDE DEF rows
<1>5. Blobs(rows) = Abandoned(s) \intersect DOMAIN Heat(s)
  BY <1>3, <1>4 DEF Blobs, Who
<1> QED
  BY <1>5 DEF rows

------------------------------------------------------------------------------
(***************************************************************************)
(* A swarm is of fewer than a hundred personas: of a hundred, of whom all  *)
(* but one finish and that one comes half the way, the average credit of   *)
(* 99.5 in a hundred is rounded to a full score.                           *)
(***************************************************************************)
SmallSwarms == \A s \in Sessions : Cardinality(DOMAIN s) < 100

\* A roster of fewer than a hundred, like the bundled one of six, sends no larger swarm.
LEMMA SmallRoster ==
    ASSUME Len(Roster) < 100
    PROVE  SmallSwarms
<1>1. /\ Roster \in [1 .. Len(Roster) -> Personas] /\ Len(Roster) \in Nat
      /\ DOMAIN Roster = 1 .. Len(Roster) /\ Personas = ToSet(Roster)
  <2>1. Roster \in Seq(Personas)
    BY ReportAssumption
  <2>2. Personas = ToSet(Roster)
    BY DEF Personas
  <2> QED
    BY <2>1, <2>2, LenProperties
<1>2. Roster \in Surjection(1 .. Len(Roster), Personas)
  BY <1>1 DEF ToSet, Surjection
<1>3. IsFiniteSet(1 .. Len(Roster)) /\ Cardinality(1 .. Len(Roster)) = Len(Roster)
  <2> DEFINE n == Len(Roster)
  <2>1. n \in Nat
    BY <1>1
  <2> HIDE DEF n
  <2>2. IsFiniteSet(1 .. n) /\ Cardinality(1 .. n) = n
    <3>1. 1 \in Int /\ n \in Int
      BY <2>1
    <3>2. IsFiniteSet(1 .. n) /\ Cardinality(1 .. n) = IF 1 > n THEN 0 ELSE n - 1 + 1
      BY <3>1, FS_Interval
    <3> QED
      BY <2>1, <3>2
  <2> QED
    BY <2>2 DEF n
<1>4. IsFiniteSet(Personas) /\ Cardinality(Personas) <= Len(Roster)
  BY <1>2, <1>3, FS_Surjection
<1>5. ASSUME NEW s \in Sessions PROVE Cardinality(DOMAIN s) < 100
  <2>1. DOMAIN s \subseteq Personas
    BY GateAssumption
  <2>2. Cardinality(DOMAIN s) <= Cardinality(Personas) /\ IsFiniteSet(DOMAIN s)
    BY <1>4, <2>1, FS_Subset
  <2>3. Cardinality(DOMAIN s) \in Nat /\ Cardinality(Personas) \in Nat
    BY <1>4, <2>2, FS_CardinalityType
  <2> QED
    BY <1>1, <1>4, <2>2, <2>3
<1> QED
  BY <1>5 DEF SmallSwarms

\* The views of a report agree.
LEMMA SwarmViews ==
    ASSUME NEW s, Swarmed(s), Cardinality(DOMAIN s) < 100
    PROVE  ViewsAgreeOn(Build(s))
<1> DEFINE R == Build(s)
           insights == Insights(R)
           page == Deliverable(R)
           plain == RenderHtml(R)
           clean == R.rate[1] = R.rate[2]
           F == Cardinality(Finished(s))
           S == Cardinality(Scored(s))
           done == <<F, S>>
           q == SeriesOf(Scored(s), Finished(s), [p \in DOMAIN s |-> StepsSurvived(s[p])])
<1>1. R.results = s /\ R.heat = Heat(s)
  BY Parts
<1>2. clean <=> Scored(s) # {} /\ Abandoned(s) = {}
  BY CleanMeans
<1>3. /\ Completions(R) = done
      /\ page.successes = F /\ page.non_error = S
      /\ plain.successes = F /\ plain.non_error = S
      /\ PrintSummary(R).passed = F
      /\ page.completion_pct = plain.completion_pct
      /\ page.every <=> Scored(s) # {} /\ Abandoned(s) = {}
  BY CountsAgree
<1>4. R.rate = IF S = 0 THEN <<0, 1>> ELSE done
  BY RateAgrees
<1>5. /\ Tests(R, "passed") = insights.stats.personas_succeeded
      /\ Tests(R, "failure") = insights.stats.personas_abandoned
      /\ Tests(R, "error") = insights.stats.personas_errored
  BY TestsAgree
<1>6. insights.series = q /\ page.series = q
  BY SeriesAgree
<1>7. NonIncreasing(q) /\ (q # <<>> => Head(q) = S /\ Last(q) >= F)
  <2>1. CASE Scored(s) = {}
    <3>1. q = <<>>
      BY <2>1 DEF SeriesOf
    <3>2. Len(<<>>) = 0
      OBVIOUS
    <3>3. NonIncreasing(<<>>)
      BY <3>2 DEF NonIncreasing
    <3> HIDE DEF q
    <3> QED
      BY <3>1, <3>3
  <2>2. CASE Scored(s) # {}
    <3> DEFINE f == [p \in DOMAIN s |-> StepsSurvived(s[p])]
    <3>1. /\ IsFiniteSet(Scored(s)) /\ Finished(s) \in SUBSET Scored(s)
          /\ Scored(s) \subseteq DOMAIN s
      BY Counts
    <3>2. \A p \in Scored(s) : f[p] \in Nat
      BY <3>1, Survived DEF Swarmed
    <3> HIDE DEF f
    <3>3. /\ NonIncreasing(SeriesOf(Scored(s), Finished(s), f))
          /\ Head(SeriesOf(Scored(s), Finished(s), f)) = S
          /\ Last(SeriesOf(Scored(s), Finished(s), f)) >= F
      BY <2>2, <3>1, <3>2, SeriesFalls
    <3> QED
      BY <3>3 DEF f
  <2> QED
    BY <2>1, <2>2
<1>8. insights.score = 100 <=> Scored(s) # {} /\ Abandoned(s) = {}
  BY ScoreMeans
<1>9. page.findings = BuildFindings(RosterOf(R)) /\ page.blobs = Blobs(RosterOf(R))
  BY Zenon DEF Deliverable
<1>10. /\ Head(page.findings).kind = "clean sweep" => Scored(s) # {} /\ Abandoned(s) = {}
       /\ \A i \in DOMAIN page.findings :
             page.findings[i].kind \in {"cluster", "budget", "losses"} =>
                page.findings[i].who \subseteq Abandoned(s)
  <2> DEFINE found == BuildFindings(RosterOf(R))
  <2>1. /\ Head(found).kind = "clean sweep" => Scored(s) # {} /\ Abandoned(s) = {}
        /\ \A i \in DOMAIN found :
             found[i].kind \in {"cluster", "budget", "losses"} => found[i].who \subseteq Abandoned(s)
    BY FindingsSay
  <2> HIDE DEF found, page
  <2>2. page.findings = found
    BY <1>9 DEF found
  <2> QED
    BY <2>1, <2>2
<1>11. page.blobs = Abandoned(s) \intersect DOMAIN R.heat
  BY <1>1, <1>9, BlobsSay
<1>12. DOMAIN insights.wcag \intersect Finished(s) = {}
  <2>1. insights.wcag = [p \in Abandoned(R.results) |-> WcagFindings(p)]
    BY Zenon DEF Insights
  <2> HIDE DEF insights, R
  <2>2. DOMAIN insights.wcag = Abandoned(s)
    BY <1>1, <2>1
  <2> QED
    BY <2>2 DEF Abandoned
<1> HIDE DEF R, insights, page, plain, q, F, S
<1>13. done[1] = F /\ done[2] = S
  OBVIOUS
<1> HIDE DEF done
<1>14. /\ R.rate = IF done[2] = 0 THEN <<0, 1>> ELSE done
       /\ Completions(R) = <<page.successes, page.non_error>>
       /\ Completions(R) = <<plain.successes, plain.non_error>>
       /\ PrintSummary(R).passed = done[1]
       /\ plain.completion_pct = page.completion_pct
       /\ insights.series = page.series
       /\ NonIncreasing(page.series)
       /\ page.series # <<>> => Head(page.series) = done[2] /\ Last(page.series) >= done[1]
  BY <1>3, <1>4, <1>6, <1>7, <1>13 DEF done
<1>15. /\ (insights.score = 100) <=> clean
       /\ page.every <=> clean
       /\ Head(page.findings).kind = "clean sweep" => clean
  BY <1>2, <1>3, <1>8, <1>10
<1> HIDE DEF clean
<1> QED
  BY <1>1, <1>3, <1>5, <1>10, <1>11, <1>12, <1>14, <1>15
     DEF ViewsAgreeOn, R, insights, page, plain, clean

\* For any personas, impairments and ways to end: the views of the report that a swarm
\* of fewer than a hundred hands over agree.
THEOREM ViewsAlwaysAgree == ASSUME SmallSwarms PROVE Spec => []ViewsAgree
<1>1. ASSUME HeldInv, phase = "save" PROVE ViewsAgreeOn(run)
  <2>1. PICK s \in Sessions : run = Build(s)
    BY <1>1 DEF HeldInv, TraceInv, JudgedInv, Holds, Reports
  <2>2. Swarmed(s) /\ Cardinality(DOMAIN s) < 100
    BY GateAssumption DEF Swarmed, SmallSwarms
  <2> QED
    BY <2>1, <2>2, SwarmViews
<1>2. HeldInv => ViewsAgree
  BY <1>1 DEF ViewsAgree
<1> QED
  BY <1>2, HeldAlways, PTL
=============================================================================
