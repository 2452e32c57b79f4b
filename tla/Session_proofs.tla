--------------------------- MODULE Session_proofs ---------------------------
(***************************************************************************)
(* Proofs about Session for any kinds of actions, any budgets, with and    *)
(* without a success predicate, and any number of denied requests.         *)
(***************************************************************************)
EXTENDS Session, TLAPS, SequenceTheorems

-----------------------------------------------------------------------------
(* The records.                                                            *)

\* A record is added at the end and the others stay.
LEMMA AppendRecord ==
    ASSUME NEW record \in StepRecord, steps \in Seq(StepRecord),
           steps' = Append(steps, record)
    PROVE  /\ steps' \in Seq(StepRecord)
           /\ Len(steps') = Len(steps) + 1
           /\ \A i \in 1 .. Len(steps) : steps'[i] = steps[i]
           /\ steps'[Len(steps')] = record
<1>1. Len(steps) \in Nat
  BY LenProperties
<1> QED
  BY <1>1, AppendProperties

\* A note is put on the last record if it has none; nothing else changes.
LEMMA NoteRecord ==
    ASSUME steps \in Seq(StepRecord), Len(steps) # 0, NEW note \in Note
    PROVE  /\ Current.action \in Captions
           /\ Noted(note) \in Seq(StepRecord)
           /\ Len(Noted(note)) = Len(steps)
           /\ \A i \in 1 .. Len(steps) : /\ Noted(note)[i].action = steps[i].action
                                         /\ steps[i].note # "" =>
                                              Noted(note)[i].note = steps[i].note
<1>1. Len(steps) \in 1 .. Len(steps) /\ Len(steps) \in Nat
  BY LenProperties
<1>2. \A i \in 1 .. Len(steps) : steps[i] \in StepRecord
  BY ElementOfSeq
<1> DEFINE last == [Current EXCEPT !.note = note]
<1>3. /\ Current \in StepRecord /\ last \in StepRecord
      /\ last.action = Current.action /\ Current.action \in Captions
  BY <1>1, <1>2 DEF Current, StepRecord
<1>4. CASE Current.note # ""
  BY <1>3, <1>4 DEF Noted
<1>5. CASE Current.note = ""
  <2>1. Noted(note) = [steps EXCEPT ![Len(steps)] = last]
    BY <1>5 DEF Noted, Current
  <2> HIDE DEF last
  <2>2. /\ [steps EXCEPT ![Len(steps)] = last] \in Seq(StepRecord)
        /\ Len([steps EXCEPT ![Len(steps)] = last]) = Len(steps)
        /\ \A j \in 1 .. Len(steps) :
              [steps EXCEPT ![Len(steps)] = last][j] =
                 IF j = Len(steps) THEN last ELSE steps[j]
    BY <1>1, <1>3, ExceptSeq
  <2> QED
    BY <1>3, <1>5, <2>1, <2>2 DEF Current
<1> QED
  BY <1>3, <1>4, <1>5

\* A caption joins the history.
LEMMA RememberEntry ==
    ASSUME NEW c \in Captions, history \in Seq(Entry), Remember(c)
    PROVE  history' \in Seq(Entry) /\ Len(history') = Len(history) + 1
<1>1. [caption |-> c, same |-> FALSE] \in Entry
  BY DEF Entry
<1> QED
  BY <1>1, AppendProperties DEF Remember

-----------------------------------------------------------------------------
(* The invariant.                                                          *)

\* It holds in the initial state.
LEMMA InitInvariant == Init => IInv
<1> SUFFICES ASSUME Init PROVE IInv
  OBVIOUS
<1>1. /\ steps \in Seq(StepRecord) /\ history \in Seq(Entry)
      /\ Len(steps) = 0 /\ Len(history) = 0
  BY EmptySeq DEF Init
<1>2. 0 \in 0 .. MaxSteps - 1 /\ 0 \in 0 .. MaxDenials /\ 0 \in 0 .. 0 /\ 0 < Deadline
  BY SessionAssumption
<1>3. Counted
  BY <1>1 DEF Init, Counted
<1>4. shielded \in [0 .. MaxSteps - 1 -> Nat] /\ OneShieldPerStep
  <2>1. shielded = [k \in 0 .. MaxSteps - 1 |-> 0]
    BY DEF Init
  <2>2. \A k \in 0 .. MaxSteps - 1 : shielded[k] = 0
    BY <2>1
  <2> QED
    BY <2>1, <2>2 DEF OneShieldPerStep
<1>5. TypeOK
  BY <1>1, <1>2, <1>3, <1>4 DEF Init, TypeOK, Pc, InLoop, Outcome, Verdict, Reason
<1>6. SuccessIsReal /\ VerdictIsEarned /\ InTime
  BY <1>2 DEF Init, SuccessIsReal, VerdictIsEarned, InTime, Verdict
<1> QED
  BY <1>4, <1>5, <1>6 DEF IInv

\* The steps that append nothing: the navigation, an await that raises, the cap, the end.
LEMMA PlainKeeps ==
    ASSUME IInv, Goto \/ Raise \/ WallCap \/ Close PROVE IInv'
<1> USE DEF IInv, Policy, End, GoOn
<1>1. CASE Goto
  BY <1>1 DEF Goto, TypeOK, Counted, SuccessIsReal, VerdictIsEarned, InTime,
              OneShieldPerStep, Pc, InLoop, Outcome, Reason, Verdict
<1>2. CASE Raise
  BY <1>2 DEF Raise, TypeOK, Counted, SuccessIsReal, VerdictIsEarned, InTime,
              OneShieldPerStep, Pc, InLoop, Outcome, Reason, Verdict
<1>3. CASE WallCap
  BY <1>3 DEF WallCap, TypeOK, Counted, SuccessIsReal, VerdictIsEarned, InTime,
              OneShieldPerStep, Pc, InLoop, Outcome, Reason, Verdict
<1>4. CASE Close
  BY <1>4 DEF Close, TypeOK, Counted, SuccessIsReal, VerdictIsEarned, InTime,
              OneShieldPerStep, Pc, InLoop, Outcome, Reason, Verdict, Current
<1> QED
  BY <1>1, <1>2, <1>3, <1>4

\* The screenshot may annotate the last entry of the history.
LEMMA ScreenshotKeeps == ASSUME IInv, Screenshot PROVE IInv'
<1>1. history' \in Seq(Entry) /\ Len(history') = Len(history)
  <2>1. CASE UNCHANGED history
    BY <2>1 DEF IInv, TypeOK
  <2>2. CASE history # <<>> /\ history' = [history EXCEPT ![Len(history)].same = TRUE]
    <3> DEFINE entry == [history[Len(history)] EXCEPT !.same = TRUE]
    <3>1. history \in Seq(Entry) /\ Len(history) \in Nat /\ Len(history) # 0
      BY <2>2, EmptySeq, LenProperties DEF IInv, TypeOK
    <3>2. Len(history) \in 1 .. Len(history) /\ history[Len(history)] \in Entry
      BY <3>1, ElementOfSeq
    <3>3. entry \in Entry /\ history' = [history EXCEPT ![Len(history)] = entry]
      BY <2>2, <3>2 DEF Entry
    <3> HIDE DEF entry
    <3> QED
      BY <3>1, <3>2, <3>3, ExceptSeq
  <2> QED
    BY <2>1, <2>2 DEF Screenshot
<1> QED
  BY <1>1 DEF IInv, Screenshot, Policy, GoOn, TypeOK, Counted, SuccessIsReal,
     VerdictIsEarned, InTime, OneShieldPerStep, Pc, InLoop, Verdict

\* The model's answer ends the session only if it is a claim that nothing can verify.
LEMMA DecideKeeps == ASSUME IInv, Decide PROVE IInv'
<1>1. PICK c \in Captions :
          /\ steps' = Append(steps, [action |-> c, note |-> ""])
          /\ IF c \notin Answers THEN GoOn("check")
             ELSE IF Verified THEN GoOn("verify")
             ELSE End("success", "")
  BY DEF Decide
<1>2. [action |-> c, note |-> ""] \in StepRecord
  BY DEF StepRecord, Note
<1>3. /\ steps' \in Seq(StepRecord) /\ Len(steps') = Len(steps) + 1
      /\ Current'.action = c
  <2> DEFINE record == [action |-> c, note |-> ""]
  <2>1. record \in StepRecord /\ record.action = c /\ steps' = Append(steps, record)
    BY <1>1, <1>2
  <2> HIDE DEF record
  <2>2. steps \in Seq(StepRecord)
    BY DEF IInv, TypeOK
  <2>3. /\ steps' \in Seq(StepRecord) /\ Len(steps') = Len(steps) + 1
        /\ steps'[Len(steps')] = record
    BY <2>1, <2>2, AppendRecord
  <2> QED
    BY <2>1, <2>3 DEF Current
<1>4. /\ pc = "decide" /\ Len(steps) = n /\ Len(history) = n /\ n \in Nat
      /\ sim < Deadline /\ outcome = "none"
  <2>1. pc = "decide"
    BY DEF Decide
  <2> QED
    BY <2>1 DEF IInv, TypeOK, Counted, InTime
<1>5. UNCHANGED <<n, history, sim, seen, denials, shields, shielded>>
  BY DEF Decide, Policy
<1>6. CASE c \notin Answers \/ Verified
  <2>1. /\ pc' \in {"check", "verify"} /\ UNCHANGED <<outcome, reason>>
    BY <1>1, <1>6 DEF GoOn
  <2> QED
    BY <1>3, <1>4, <1>5, <2>1 DEF IInv, TypeOK, Counted, SuccessIsReal,
       VerdictIsEarned, InTime, OneShieldPerStep, Pc, InLoop, Verdict
<1>7. CASE c \in Answers /\ ~Verified
  <2>1. pc' = "close" /\ outcome' = "success" /\ reason' = ""
    BY <1>1, <1>7 DEF End
  <2> QED
    BY <1>3, <1>4, <1>5, <1>7, <2>1 DEF IInv, TypeOK, Counted, SuccessIsReal,
       VerdictIsEarned, InTime, OneShieldPerStep, Pc, Outcome, Reason, Verdict
<1> QED
  BY <1>6, <1>7

\* The loop ends: with success if the page was seen to confirm the task, and with a
\* verdict that is earned.
LEMMA EndKeeps ==
    ASSUME TypeOK, OneShieldPerStep, UNCHANGED Policy, n' = n, sim' = sim,
           steps' \in Seq(StepRecord), Len(steps') \in {n, n + 1}, history' \in Seq(Entry),
           seen' \in BOOLEAN, NEW o \in Outcome \ {"none"}, NEW why \in Reason, End(o, why),
           seen' <=> o = "success", o = "success" => Len(steps') = n + 1,
           o \in {"step_budget", "stuck"} => sim < Deadline,
           o = "time_budget" => sim >= Deadline,
           o = "step_budget" => Len(steps') = MaxSteps
    PROVE  IInv'
<1>1. pc' = "close" /\ outcome' = o /\ reason' = why
  BY DEF End
<1>2. Counted'
  BY <1>1 DEF Counted
<1>3. TypeOK'
  BY <1>1, <1>2 DEF TypeOK, Pc, Policy
<1>4. SuccessIsReal'
  BY <1>1 DEF SuccessIsReal
<1>5. InTime'
  BY <1>1 DEF InTime
<1>6. VerdictIsEarned'
  <2> SUFFICES ASSUME o \in Verdict
               PROVE  /\ ~seen'
                      /\ o = "time_budget" <=> sim >= Deadline
                      /\ o = "step_budget" => Len(steps') = MaxSteps
    BY <1>1 DEF VerdictIsEarned
  <2>1. o \in {"step_budget", "stuck"} \/ o = "time_budget"
    BY DEF Verdict
  <2>2. sim \in Nat /\ Deadline \in Nat
    BY SessionAssumption DEF TypeOK
  <2> QED
    BY <2>1, <2>2
<1>7. OneShieldPerStep'
  BY DEF OneShieldPerStep, Policy
<1> QED
  BY <1>3, <1>4, <1>5, <1>6, <1>7 DEF IInv

\* The loop goes on, within the persona's patience.
LEMMA GoOnKeeps ==
    ASSUME TypeOK, OneShieldPerStep, UNCHANGED Policy, outcome = "none",
           n' \in 0 .. MaxSteps - 1, sim' \in Nat,
           steps' \in Seq(StepRecord), history' \in Seq(Entry), seen' = FALSE,
           NEW next \in InLoop, GoOn(next), next # "recheck" => sim' < Deadline,
           Len(steps') = IF next \in {"screenshot", "decide"} THEN n' ELSE n' + 1,
           Len(history') = IF next = "recheck" THEN n' + 1 ELSE n'
    PROVE  IInv'
<1>1. pc' = next /\ outcome' = "none" /\ reason' = reason
  BY DEF GoOn
<1>2. Counted'
  BY <1>1 DEF Counted, InLoop
<1>3. TypeOK'
  BY <1>1, <1>2 DEF TypeOK, Pc, Policy, Outcome
<1>4. SuccessIsReal' /\ VerdictIsEarned'
  BY <1>1 DEF SuccessIsReal, VerdictIsEarned, Verdict
<1>5. InTime'
  BY <1>1 DEF InTime, InLoop
<1>6. OneShieldPerStep'
  BY DEF OneShieldPerStep, Policy
<1> QED
  BY <1>3, <1>4, <1>5, <1>6 DEF IInv

\* The head of the loop: another pass, or all the steps are used up.
LEMMA NextStepKeeps ==
    ASSUME IInv, NextStep, outcome = "none", sim < Deadline, seen' = FALSE, sim' = sim,
           steps' \in Seq(StepRecord), Len(steps') = n + 1,
           history' \in Seq(Entry), Len(history') = n + 1, UNCHANGED Policy
    PROVE  IInv'
<1>1. n \in 0 .. MaxSteps - 1 /\ sim \in Nat /\ TypeOK /\ OneShieldPerStep
  BY DEF IInv, TypeOK
<1>2. CASE n + 1 < MaxSteps
  <2>1. n' = n + 1 /\ GoOn("screenshot")
    BY <1>2 DEF NextStep
  <2>2. n + 1 \in 0 .. MaxSteps - 1
    BY <1>1, <1>2, SessionAssumption
  <2>3. "screenshot" \in InLoop
    BY DEF InLoop
  <2> QED
    BY <1>1, <2>1, <2>2, <2>3, GoOnKeeps
<1>3. CASE ~(n + 1 < MaxSteps)
  <2>1. n' = n /\ End("step_budget", "steps")
    BY <1>3 DEF NextStep
  <2>2. Len(steps') = MaxSteps
    BY <1>1, <1>3, SessionAssumption
  <2>3. "step_budget" \in Outcome \ {"none"} /\ "steps" \in Reason
    BY DEF Outcome, Verdict, Reason
  <2> QED
    BY <1>1, <2>1, <2>2, <2>3, EndKeeps
<1> QED
  BY <1>2, <1>3

\* What holds in the loop, wherever it is.
LEMMA InLoopFacts ==
    ASSUME IInv, pc \in InLoop
    PROVE  /\ TypeOK /\ OneShieldPerStep /\ outcome = "none"
           /\ n \in Nat /\ n \in 0 .. MaxSteps - 1 /\ sim \in Nat
           /\ steps \in Seq(StepRecord) /\ history \in Seq(Entry)
           /\ pc # "recheck" => sim < Deadline
           /\ pc \in {"verify", "check", "act"} => Len(steps) = n + 1 /\ Len(history) = n
           /\ pc = "recheck" => Len(steps) = n + 1 /\ Len(history) = n + 1
<1>1. outcome = "none"
  BY DEF IInv, TypeOK, Counted, InLoop
<1> QED
  BY <1>1 DEF IInv, TypeOK, Counted, InTime, InLoop

\* A claim that is rejected is noted, joins the history and uses up a step.
LEMMA VerifyKeeps == ASSUME IInv, Verify PROVE IInv'
<1>1. pc = "verify" /\ pc \in InLoop
  BY DEF Verify, InLoop
<1>2. /\ TypeOK /\ OneShieldPerStep /\ outcome = "none" /\ sim < Deadline
      /\ steps \in Seq(StepRecord) /\ history \in Seq(Entry) /\ sim \in Nat
      /\ Len(steps) = n + 1 /\ Len(history) = n /\ n \in 0 .. MaxSteps - 1 /\ n \in Nat
  BY <1>1, InLoopFacts
<1>3. seen' \in BOOLEAN /\ sim' = sim /\ UNCHANGED Policy
  BY SessionAssumption DEF Verify, Look, Policy
<1>4. CASE seen' /\ End("success", "") /\ UNCHANGED <<n, steps, history>>
  <2>1. "success" \in Outcome \ {"none"} /\ "" \in Reason
    BY DEF Outcome, Reason
  <2> QED
    BY <1>2, <1>3, <1>4, <2>1, EndKeeps
<1>5. CASE /\ ~seen'
           /\ steps' = Noted("answer_unverified")
           /\ Remember(Current.action)
           /\ IF IsStuck(history') THEN End("stuck", "unverified") /\ UNCHANGED n
                                   ELSE NextStep
  <2>1. /\ Current.action \in Captions
        /\ steps' \in Seq(StepRecord) /\ Len(steps') = n + 1
    <3>1. "answer_unverified" \in Note /\ Len(steps) # 0
      BY <1>1, <1>2 DEF Note
    <3> QED
      BY <1>2, <1>5, <3>1, NoteRecord
  <2>2. history' \in Seq(Entry) /\ Len(history') = n + 1
    BY <1>2, <1>5, <2>1, RememberEntry
  <2>3. seen' = FALSE
    BY <1>3, <1>5
  <2>4. CASE IsStuck(history')
    <3>1. End("stuck", "unverified") /\ n' = n
      BY <1>5, <2>4
    <3>2. "stuck" \in Outcome \ {"none"} /\ "unverified" \in Reason
      BY DEF Outcome, Verdict, Reason
    <3> QED
      BY <1>1, <1>2, <1>3, <2>1, <2>2, <2>3, <3>1, <3>2, EndKeeps
  <2>5. CASE ~IsStuck(history')
    <3>1. NextStep
      BY <1>5, <2>5
    <3> QED
      BY <1>2, <1>3, <2>1, <2>2, <2>3, <3>1, NextStepKeeps
  <2> QED
    BY <2>4, <2>5
<1> QED
  BY <1>4, <1>5 DEF Verify

\* Before acting: success, a loop, or the action.
LEMMA CheckKeeps == ASSUME IInv, Check PROVE IInv'
<1>1. pc = "check" /\ pc \in InLoop
  BY DEF Check, InLoop
<1>2. /\ TypeOK /\ OneShieldPerStep /\ outcome = "none" /\ sim < Deadline
      /\ steps \in Seq(StepRecord) /\ history \in Seq(Entry) /\ sim \in Nat
      /\ Len(steps) = n + 1 /\ Len(history) = n /\ n \in 0 .. MaxSteps - 1 /\ n \in Nat
  BY <1>1, InLoopFacts
<1>3. seen' \in BOOLEAN /\ UNCHANGED <<n, steps, history, sim>> /\ UNCHANGED Policy
  BY SessionAssumption DEF Check, Look, Policy
<1>4. /\ "success" \in Outcome \ {"none"} /\ "" \in Reason
      /\ "stuck" \in Outcome \ {"none"} /\ "repeated" \in Reason
      /\ "act" \in InLoop
  BY DEF Outcome, Verdict, Reason, InLoop
<1>5. CASE seen'
  <2>1. End("success", "")
    BY <1>5 DEF Check
  <2> QED
    BY <1>2, <1>3, <1>4, <1>5, <2>1, EndKeeps
<1>6. CASE ~seen' /\ IsStuck(history)
  <2>1. End("stuck", "repeated")
    BY <1>6 DEF Check
  <2> QED
    BY <1>2, <1>3, <1>4, <1>6, <2>1, EndKeeps
<1>7. CASE ~seen' /\ ~IsStuck(history)
  <2>1. GoOn("act") /\ seen' = FALSE
    BY <1>3, <1>7 DEF Check
  <2> QED
    BY <1>2, <1>3, <1>4, <2>1, GoOnKeeps
<1> QED
  BY <1>5, <1>6, <1>7

\* An action joins the history and takes time.
LEMMA ActKeeps == ASSUME IInv, Act PROVE IInv'
<1>1. pc = "act" /\ pc \in InLoop
  BY DEF Act, InLoop
<1>2. /\ TypeOK /\ OneShieldPerStep /\ outcome = "none"
      /\ steps \in Seq(StepRecord) /\ history \in Seq(Entry) /\ sim \in Nat
      /\ Len(steps) = n + 1 /\ Len(history) = n /\ n \in 0 .. MaxSteps - 1 /\ n \in Nat
  BY <1>1, InLoopFacts
<1>3. GoOn("recheck") /\ UNCHANGED <<n, steps, seen>> /\ UNCHANGED Policy
  BY DEF Act, Policy
<1>4. seen = FALSE
  BY <1>2 DEF IInv, InTime, TypeOK
<1>5. sim' \in Nat
  BY <1>2, SessionAssumption DEF Act
<1>6. Current.action \in Captions
  <2>1. Len(steps) \in 1 .. Len(steps)
    BY <1>2
  <2>2. steps[Len(steps)] \in StepRecord
    BY <1>2, <2>1, ElementOfSeq
  <2> QED
    BY <2>2 DEF Current, StepRecord
<1>7. history' \in Seq(Entry) /\ Len(history') = n + 1
  BY <1>2, <1>6, RememberEntry DEF Act
<1>8. "recheck" \in InLoop
  BY DEF InLoop
<1> QED
  BY <1>2, <1>3, <1>4, <1>5, <1>7, <1>8, GoOnKeeps

\* After acting: success, patience, or the next step.
LEMMA RecheckKeeps == ASSUME IInv, Recheck PROVE IInv'
<1>1. pc = "recheck" /\ pc \in InLoop
  BY DEF Recheck, InLoop
<1>2. /\ TypeOK /\ OneShieldPerStep /\ outcome = "none"
      /\ steps \in Seq(StepRecord) /\ history \in Seq(Entry) /\ sim \in Nat
      /\ Len(steps) = n + 1 /\ Len(history) = n + 1 /\ n \in 0 .. MaxSteps - 1
  BY <1>1, InLoopFacts
<1>3. seen' \in BOOLEAN /\ UNCHANGED <<steps, history, sim>> /\ UNCHANGED Policy
  BY SessionAssumption DEF Recheck, Look, Policy
<1>4. /\ "success" \in Outcome \ {"none"} /\ "" \in Reason
      /\ "time_budget" \in Outcome \ {"none"} /\ "time" \in Reason
  BY DEF Outcome, Verdict, Reason
<1>5. CASE seen'
  <2>1. End("success", "") /\ n' = n
    BY <1>5 DEF Recheck
  <2> QED
    BY <1>2, <1>3, <1>4, <1>5, <2>1, EndKeeps
<1>6. CASE ~seen' /\ sim >= Deadline
  <2>1. End("time_budget", "time") /\ n' = n
    BY <1>6 DEF Recheck
  <2> QED
    BY <1>2, <1>3, <1>4, <1>6, <2>1, EndKeeps
<1>7. CASE ~seen' /\ ~(sim >= Deadline)
  <2>1. NextStep /\ seen' = FALSE
    BY <1>3, <1>7 DEF Recheck
  <2>2. sim < Deadline
    BY <1>2, <1>7, SessionAssumption
  <2> QED
    BY <1>2, <1>3, <2>1, <2>2, NextStepKeeps
<1> QED
  BY <1>5, <1>6, <1>7

\* A denied request is counted before its handler is.
LEMMA DenyKeeps == ASSUME IInv, Deny PROVE IInv'
<1>1. /\ denials \in Nat /\ denials' = denials + 1 /\ denials < MaxDenials
      /\ shields' = shields + 1 /\ shields \in 0 .. denials
      /\ UNCHANGED <<pc, n, steps, history, sim, outcome, reason, seen, shielded>>
  BY SessionAssumption DEF Deny, IInv, TypeOK
<1>2. denials' \in 0 .. MaxDenials /\ shields' \in 0 .. denials'
  BY <1>1, SessionAssumption
<1>3. Counted'
  BY <1>1 DEF IInv, TypeOK, Counted
<1>4. TypeOK'
  BY <1>1, <1>2, <1>3 DEF IInv, TypeOK
<1>5. SuccessIsReal' /\ VerdictIsEarned' /\ InTime' /\ OneShieldPerStep'
  BY <1>1 DEF IInv, SuccessIsReal, VerdictIsEarned, InTime, OneShieldPerStep, Current
<1> QED
  BY <1>4, <1>5 DEF IInv

\* A handler may note the last record, and tells the grid once for each step.
LEMMA ShieldKeeps == ASSUME IInv, Shield PROVE IInv'
<1>1. /\ shields' \in 0 .. denials
      /\ UNCHANGED <<pc, n, history, sim, outcome, reason, seen, denials>>
  <2>1. shields \in 0 .. denials /\ denials \in Nat /\ shields > 0 /\ shields' = shields - 1
    BY SessionAssumption DEF Shield, IInv, TypeOK
  <2> QED
    BY <2>1 DEF Shield
<1>2. /\ steps' \in Seq(StepRecord) /\ Len(steps') = Len(steps)
      /\ Len(steps) # 0 => Current'.action = Current.action
  <2>1. steps \in Seq(StepRecord) /\ Len(steps) \in Nat
    BY LenProperties DEF IInv, TypeOK
  <2>2. CASE steps' = steps
    BY <2>1, <2>2 DEF Current
  <2>3. CASE steps # <<>> /\ steps' = Noted("policy_blocked")
    <3>1. Len(steps) # 0 /\ "policy_blocked" \in Note
      BY <2>1, <2>3, EmptySeq DEF Note
    <3>2. /\ steps' \in Seq(StepRecord) /\ Len(steps') = Len(steps)
          /\ \A i \in 1 .. Len(steps) : steps'[i].action = steps[i].action
      BY <2>1, <2>3, <3>1, NoteRecord
    <3> QED
      BY <2>1, <3>1, <3>2 DEF Current
  <2> QED
    BY <2>2, <2>3 DEF Shield
<1>3. shielded' \in [0 .. MaxSteps - 1 -> Nat] /\ OneShieldPerStep'
  <2>1. /\ shielded \in [0 .. MaxSteps - 1 -> Nat]
        /\ \A k \in 0 .. MaxSteps - 1 : shielded[k] <= 1
    BY DEF IInv, TypeOK, OneShieldPerStep
  <2> DEFINE told == IF shielded[n] = 0 THEN 1 ELSE shielded[n]
  <2>2. shielded' = shielded \/ shielded' = [shielded EXCEPT ![n] = told]
    BY DEF Shield
  <2>3. told \in Nat /\ told <= 1
    BY <2>1 DEF IInv, TypeOK
  <2> HIDE DEF told
  <2>4. shielded' \in [0 .. MaxSteps - 1 -> Nat]
    BY <2>1, <2>2, <2>3
  <2>5. \A k \in 0 .. MaxSteps - 1 : shielded'[k] <= 1
    BY <2>1, <2>2, <2>3
  <2> QED
    BY <2>4, <2>5 DEF OneShieldPerStep
<1>4. Counted'
  BY <1>1, <1>2 DEF IInv, TypeOK, Counted
<1>5. TypeOK'
  BY <1>1, <1>2, <1>3, <1>4 DEF IInv, TypeOK
<1>6. SuccessIsReal'
  <2> SUFFICES ASSUME outcome = "success", ~seen
               PROVE  ~Verified /\ Current'.action \in Answers
    BY <1>1 DEF SuccessIsReal
  <2>1. ~Verified /\ Current.action \in Answers
    BY DEF IInv, SuccessIsReal
  <2>2. Len(steps) # 0
    BY DEF IInv, TypeOK, Counted
  <2> QED
    BY <1>2, <2>1, <2>2
<1>7. VerdictIsEarned' /\ InTime'
  BY <1>1, <1>2 DEF IInv, VerdictIsEarned, InTime
<1> QED
  BY <1>3, <1>5, <1>6, <1>7 DEF IInv

\* A step that changes nothing.
LEMMA StutterKeeps == ASSUME IInv, UNCHANGED vars PROVE IInv'
BY DEF vars, IInv, TypeOK, Counted, SuccessIsReal, VerdictIsEarned, InTime,
       OneShieldPerStep, Current

-----------------------------------------------------------------------------
(* The records are only added to.                                          *)

RecordsKept ==
    \A i \in 1 .. Len(steps) :
        /\ i <= Len(steps') /\ steps'[i].action = steps[i].action
        /\ steps[i].note # "" => steps'[i].note = steps[i].note

\* Only Decide, a rejected claim and a handler write records: a handler and a rejection
\* write a note where there is none.
LEMMA NextKeepsRecords == ASSUME IInv, Next PROVE RecordsKept
<1>1. steps \in Seq(StepRecord) /\ Len(steps) \in Nat
  BY LenProperties DEF IInv, TypeOK
<1>2. CASE steps' = steps
  BY <1>1, <1>2 DEF RecordsKept
<1>3. CASE Decide
  <2>1. PICK c \in Captions : steps' = Append(steps, [action |-> c, note |-> ""])
    BY <1>3 DEF Decide
  <2> DEFINE record == [action |-> c, note |-> ""]
  <2>2. record \in StepRecord /\ steps' = Append(steps, record)
    BY <2>1 DEF StepRecord, Note
  <2> HIDE DEF record
  <2>3. /\ Len(steps') = Len(steps) + 1
        /\ \A i \in 1 .. Len(steps) : steps'[i] = steps[i]
    BY <1>1, <2>2, AppendRecord
  <2> SUFFICES ASSUME NEW i \in 1 .. Len(steps)
               PROVE  i <= Len(steps') /\ steps'[i] = steps[i]
    BY DEF RecordsKept
  <2>4. steps'[i] = steps[i]
    BY <2>3
  <2>5. i <= Len(steps')
    BY <1>1, <2>3
  <2> QED
    BY <2>4, <2>5
<1>4. ASSUME NEW note \in Note, steps' = Noted(note), Len(steps) # 0
      PROVE  RecordsKept
  <2>1. /\ Len(steps') = Len(steps)
        /\ \A i \in 1 .. Len(steps) : /\ steps'[i].action = steps[i].action
                                      /\ steps[i].note # "" =>
                                           steps'[i].note = steps[i].note
    BY <1>1, <1>4, NoteRecord
  <2>2. ASSUME NEW i \in 1 .. Len(steps) PROVE i <= Len(steps')
    <3>1. Len(steps') = Len(steps)
      BY <2>1
    <3>2. i \in Int /\ i <= Len(steps)
      BY <1>1
    <3> QED
      BY <3>1, <3>2
  <2> QED
    BY <2>1, <2>2 DEF RecordsKept
<1>5. CASE Verify
  <2>1. Len(steps) # 0
    <3>1. pc = "verify" /\ pc \in InLoop
      BY <1>5 DEF Verify, InLoop
    <3> QED
      BY <3>1, InLoopFacts
  <2>2. steps' = steps \/ steps' = Noted("answer_unverified")
    BY <1>5 DEF Verify
  <2>3. "answer_unverified" \in Note
    BY DEF Note
  <2> QED
    BY <1>2, <1>4, <2>1, <2>2, <2>3
<1>6. CASE Shield
  <2>1. steps' = steps \/ (steps # <<>> /\ steps' = Noted("policy_blocked"))
    BY <1>6 DEF Shield
  <2>2. steps # <<>> => Len(steps) # 0
    BY <1>1, EmptySeq
  <2>3. "policy_blocked" \in Note
    BY DEF Note
  <2> QED
    BY <1>2, <1>4, <2>1, <2>2, <2>3
<1>7. steps' = steps \/ Decide \/ Verify \/ Shield
  BY DEF Next, Loop, Goto, Screenshot, Check, Act, Recheck, Raise, WallCap, Close, Deny
<1> QED
  BY <1>2, <1>3, <1>5, <1>6, <1>7

-----------------------------------------------------------------------------
(* The theorems.                                                           *)

\* The invariant is one.
THEOREM Invariance == Spec => []IInv
<1>1. IInv /\ [Next]_vars => IInv'
  BY PlainKeeps, ScreenshotKeeps, DecideKeeps, VerifyKeeps, CheckKeeps, ActKeeps,
     RecheckKeeps, DenyKeeps, ShieldKeeps, StutterKeeps DEF Next, Loop
<1> QED
  BY <1>1, InitInvariant, PTL DEF Spec

\* The locals are well typed, and a pass of the loop leaves one record.
THEOREM TypeCorrect == Spec => []TypeOK
<1>1. IInv => TypeOK
  BY DEF IInv
<1> QED
  BY <1>1, Invariance, PTL

\* No session counts as a completion on the model's word if the page can be asked.
THEOREM SuccessesAreReal == Spec => []SuccessIsReal
<1>1. IInv => SuccessIsReal
  BY DEF IInv
<1> QED
  BY <1>1, Invariance, PTL

\* A verdict means that the budget it names, and no other, was used up without success.
THEOREM VerdictsAreEarned == Spec => []VerdictIsEarned
<1>1. IInv => VerdictIsEarned
  BY DEF IInv
<1> QED
  BY <1>1, Invariance, PTL

\* The grid is told once for each step, however many handlers resume in it.
THEOREM ShieldsAreOnce == Spec => []OneShieldPerStep
<1>1. IInv => OneShieldPerStep
  BY DEF IInv
<1> QED
  BY <1>1, Invariance, PTL

\* No step takes back a record or a note.
THEOREM NotesAreKept == Spec => NoteIsKept
<1>1. IInv /\ [Next]_vars => [RecordsKept]_vars
  BY NextKeepsRecords
<1> QED
  BY <1>1, Invariance, PTL DEF Spec, NoteIsKept, RecordsKept
=============================================================================
