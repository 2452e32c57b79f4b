-------------------------- MODULE HoloClient_proofs --------------------------
(***************************************************************************)
(* How far a run is ahead of its provider's budget, for any number of      *)
(* personas, of attempts, of resends, of permits and of tokens, and any    *)
(* rate; that the queue is in order; and where clicks land.                *)
(***************************************************************************)
EXTENDS HoloClient, Lemmas

Unqueued == Personas \ Queued

\* The types that what follows rests on.
ClientInv ==
    /\ mix \in DOMAIN Mixes
    /\ tokens \in 0 .. Capacity
    /\ credit \in Int
    /\ task \in [Personas -> {"idle"} \union Busy \union Reasons]
    /\ resent \in [Personas -> 0 .. Resends]

\* A call sends a request at least, and more than it sends again.
LEMMA SendsMore == Sends \in Nat \ {0} /\ Sends > Resends
BY ClientAssumption DEF Sends

\* The bucket is full at first and nobody has called.
LEMMA ClientInit == Init => ClientInv
BY ClientAssumption DEF Init, ClientInv

\* Every step keeps the types.
LEMMA ClientStep == ClientInv /\ [Next]_vars => ClientInv'
<1> SUFFICES ASSUME ClientInv, [Next]_vars PROVE ClientInv'
    OBVIOUS
<1> USE ClientAssumption, SendsMore DEF ClientInv, limits
<1> DEFINE Same == mix' = mix /\ tokens' = tokens
           States == {"idle"} \union Busy \union Reasons
<1>a. \A p \in Personas, t \in States : [task EXCEPT ![p] = t] \in [Personas -> States]
    OBVIOUS
<1>b. \A p \in Personas : [resent EXCEPT ![p] = 0] \in [Personas -> 0 .. Resends]
    OBVIOUS
<1>1. CASE Tick
    <2>1. /\ Sends * Capacity \in Int /\ credit + Sends * Rate \in Int
          /\ tokens + Rate \in Int /\ tokens + Rate >= 0
        OBVIOUS
    <2>2. Min({Capacity, tokens + Rate}) \in 0 .. Capacity
        BY <2>1, MinOfTwo
    <2>3. Min({Sends * Capacity, credit + Sends * Rate}) \in Int
        BY <2>1, MinOfTwo
    <2>4. QED BY <1>1, <2>2, <2>3 DEF Tick
<1>2. ASSUME NEW p \in Personas, BeginAny(p) PROVE ClientInv'
    <2>1. PICK t \in {"acquiring", "flight"} : task' = [task EXCEPT ![p] = t]
        BY <1>2 DEF BeginAny, Begin
    <2>2. Same /\ credit' = credit /\ resent' = resent
        BY <1>2 DEF BeginAny, Begin
    <2>3. t \in States
        BY DEF Busy
    <2>4. QED BY <1>a, <2>1, <2>2, <2>3
<1>3. ASSUME NEW p \in Personas, TakeToken(p) \/ AwaitToken(p) \/ Start(p) PROVE ClientInv'
    BY <1>3 DEF TakeToken, AwaitToken, Start, Busy
<1>4. ASSUME NEW p \in Personas, AnswerAny(p) PROVE ClientInv'
    <2>1. /\ Same /\ credit' = credit /\ task' = [task EXCEPT ![p] = "idle"]
          /\ resent' = [resent EXCEPT ![p] = 0]
        BY <1>4 DEF AnswerAny, Answer
    <2>2. QED BY <1>a, <1>b, <2>1
<1>5. ASSUME NEW p \in Personas, ResendAny(p) PROVE ClientInv'
    <2>1. /\ Same /\ credit' = credit - Token /\ task' = task /\ resent[p] < Resends
          /\ resent' = [resent EXCEPT ![p] = @ + 1]
        BY <1>5 DEF ResendAny, Resend
    <2>2. resent[p] + 1 \in 0 .. Resends
        BY <2>1
    <2>3. QED BY <2>1, <2>2
<1>6. ASSUME NEW p \in Personas, FailAny(p) PROVE ClientInv'
    <2>1. Same /\ credit' = credit /\ resent' = [resent EXCEPT ![p] = 0]
        BY <1>6 DEF FailAny, Fail, Retry, Raise
    <2>2. PICK t \in {"acquiring"} \union Reasons : task' = [task EXCEPT ![p] = t]
        BY <1>6 DEF FailAny, Fail, Retry, Raise, Reason, Reasons
    <2>3. t \in States
        BY <2>2 DEF Busy
    <2>4. QED BY <1>a, <1>b, <2>1, <2>2, <2>3
<1>7. ASSUME NEW p \in Personas, Cancel(p) PROVE ClientInv'
    <2>1. /\ Same /\ credit' = credit /\ task' = [task EXCEPT ![p] = "cancelled"]
          /\ resent' = [resent EXCEPT ![p] = 0]
        BY <1>7 DEF Cancel
    <2>2. "cancelled" \in States
        BY DEF Reasons
    <2>3. QED BY <1>a, <1>b, <2>1, <2>2
<1>8. CASE UNCHANGED vars
    BY <1>8 DEF vars
<1>9. QED BY <1>1, <1>2, <1>3, <1>4, <1>5, <1>6, <1>7, <1>8 DEF Next, Acquire, Goes

\* The types are invariant.
LEMMA ClientInvariance == Spec => []ClientInv
BY ClientInit, ClientStep, PTL DEF Spec

-----------------------------------------------------------------------------
(* The budget.                                                             *)

\* The HTTP requests that calls under way may still send again.
Spare == {s \in Personas \X (1 .. Resends) :
              Relative /\ task[s[1]] = "flight" /\ resent[s[1]] < s[2]}

(***************************************************************************)
(* The bucket refills while calls wait for a permit.  Whatever the tokens  *)
(* that there are may yet pay for, and the requests that calls under way   *)
(* may send again, are covered by the provider's credit and one call for   *)
(* each persona that is not waiting.                                       *)
(***************************************************************************)
RateInv ==
    credit + Sends * Token * Cardinality(Unqueued) >= Sends * tokens + Token * Cardinality(Spare)

\* The personas that do not queue can be counted.
LEMMA UnqueuedFinite == IsFiniteSet(Unqueued) /\ Cardinality(Unqueued) \in Nat
<1>1. IsFiniteSet(Unqueued)
    BY ClientAssumption, FS_Subset DEF Unqueued
<1>2. QED BY <1>1, FS_CardinalityType

\* So can the requests to come, and the personas that do not queue are good for them.
LEMMA SpareFinite ==
    /\ IsFiniteSet(Spare) /\ Cardinality(Spare) \in Nat
    /\ Token * Cardinality(Spare) <= Sends * Token * Cardinality(Unqueued)
<1> DEFINE u == Cardinality(Unqueued)
           s == Cardinality(Spare)
<1>1. IsFiniteSet(1 .. Resends) /\ Cardinality(1 .. Resends) = Resends
    BY FS_Interval, ClientAssumption
<1>2. /\ IsFiniteSet(Unqueued \X (1 .. Resends))
      /\ Cardinality(Unqueued \X (1 .. Resends)) = u * Resends
    BY <1>1, UnqueuedFinite, FS_Product
<1>3. Spare \in SUBSET (Unqueued \X (1 .. Resends))
    BY DEF Spare, Unqueued, Queued
<1>4. IsFiniteSet(Spare) /\ s <= u * Resends
    BY <1>2, <1>3, FS_Subset
<1>5. s \in Nat
    BY <1>4, FS_CardinalityType
<1>6. u \in Nat
    BY UnqueuedFinite
<1> HIDE DEF u, s
<1>7. Token * s <= Sends * Token * u
    <2>1. Resends <= Sends /\ Resends \in Nat /\ Sends \in Nat /\ Token \in Nat
        BY ClientAssumption, SendsMore
    <2>2. u * Resends <= u * Sends
        BY <1>6, <2>1, Times
    <2>3. u * Resends \in Int /\ u * Sends \in Int
        BY <1>6, <2>1
    <2>4. s <= u * Sends
        BY <1>4, <1>5, <2>2, <2>3
    <2>5. Token * s <= Token * (u * Sends)
        BY <1>5, <2>1, <2>3, <2>4, Times
    <2>6. Token * (u * Sends) = Sends * Token * u
        BY <1>6, <2>1
    <2>7. QED BY <2>5, <2>6
<1>8. QED BY <1>4, <1>5, <1>7 DEF u, s

\* A persona that queues leaves the others one fewer.
LEMMA Queueing ==
    ASSUME ClientInv, NEW p \in Personas, task[p] # "queued",
           task' = [task EXCEPT ![p] = "queued"]
    PROVE  Cardinality(Unqueued)' = Cardinality(Unqueued) - 1
<1>1. p \in Unqueued
    BY DEF Unqueued, Queued
<1>2. Unqueued' = Unqueued \ {p}
    BY DEF Unqueued, Queued, ClientInv
<1>3. Cardinality(Unqueued \ {p}) = Cardinality(Unqueued) - 1
    BY <1>1, UnqueuedFinite, FS_RemoveElement
<1>4. QED BY <1>2, <1>3

\* A persona that leaves the queue is one more of the others.
LEMMA Leaving ==
    ASSUME ClientInv, NEW p \in Personas, task[p] = "queued", NEW t, t # "queued",
           task' = [task EXCEPT ![p] = t]
    PROVE  Cardinality(Unqueued)' = Cardinality(Unqueued) + 1
<1>1. p \notin Unqueued
    BY DEF Unqueued, Queued
<1>2. Unqueued' = Unqueued \union {p}
    BY DEF Unqueued, Queued, ClientInv
<1>3. Cardinality(Unqueued \union {p}) = Cardinality(Unqueued) + 1
    BY <1>1, UnqueuedFinite, FS_AddElement
<1>4. QED BY <1>2, <1>3

\* A persona that neither joins nor leaves the queue changes nothing of it.
LEMMA Elsewhere ==
    ASSUME ClientInv, NEW p \in Personas, task[p] # "queued", NEW t, t # "queued",
           task' = [task EXCEPT ![p] = t]
    PROVE  Unqueued' = Unqueued
BY DEF Unqueued, Queued, ClientInv

\* Only a call that gets its permit has more requests to send than before.
LEMMA NoMoreToSend ==
    ASSUME ClientInv, mix' = mix, NEW p \in Personas, NEW t,
           task' = [task EXCEPT ![p] = t], t = "flight" => ~Relative,
           \A q \in Personas \ {p} : resent'[q] = resent[q]
    PROVE  Spare' \in SUBSET Spare
<1>1. Relative' = Relative
    BY DEF Relative, Given
<1>2. QED BY <1>1 DEF Spare, ClientInv

\* A call that gets its permit has one request to send and Resends to send again.
LEMMA Permitted ==
    ASSUME ClientInv, NEW p \in Personas, Start(p)
    PROVE  Cardinality(Spare)' \in Nat /\ Cardinality(Spare)' <= Cardinality(Spare) + Resends
<1> DEFINE own == {p} \X (1 .. Resends)
<1>1. Relative' = Relative /\ task' = [task EXCEPT ![p] = "flight"] /\ resent' = resent
    BY DEF Start, Relative, Given
<1>2. Spare' \in SUBSET (Spare \union own)
    BY <1>1 DEF Spare, ClientInv
<1>3. IsFiniteSet(1 .. Resends) /\ Cardinality(1 .. Resends) = Resends
    BY FS_Interval, ClientAssumption
<1>4. IsFiniteSet({p}) /\ Cardinality({p}) = 1
    BY FS_Singleton
<1>5. IsFiniteSet(own) /\ Cardinality(own) = 1 * Resends
    BY <1>3, <1>4, FS_Product
<1> HIDE DEF own
<1>6. IsFiniteSet(Spare \intersect own)
    BY SpareFinite, FS_Intersection
<1>7. Cardinality(Spare \intersect own) \in Nat
    BY <1>6, FS_CardinalityType
<1>8. /\ IsFiniteSet(Spare \union own)
      /\ Cardinality(Spare \union own)
             = Cardinality(Spare) + Cardinality(own) - Cardinality(Spare \intersect own)
    BY <1>5, SpareFinite, FS_Union
<1>9. IsFiniteSet(Spare') /\ Cardinality(Spare') <= Cardinality(Spare \union own)
    BY <1>2, <1>8, FS_Subset
<1>10. Cardinality(Spare') \in Nat
    BY <1>9, FS_CardinalityType
<1>11. QED BY <1>5, <1>7, <1>8, <1>9, <1>10, SpareFinite, ClientAssumption

\* A request that is sent again is one fewer of those to come.
LEMMA SentAgain ==
    ASSUME ClientInv, NEW p \in Personas, ResendAny(p)
    PROVE  Cardinality(Spare)' = Cardinality(Spare) - 1
<1>1. PICK error \in Given.errors : Resend(p, error)
    BY DEF ResendAny
<1>2. Relative
    BY MixesAssumption DEF ClientInv, Given, Relative, ResendAny
<1>3. Relative' = Relative
    BY <1>1 DEF Resend, Relative, Given
<1> DEFINE s == <<p, resent[p] + 1>>
<1>4. resent[p] + 1 \in 1 .. Resends /\ resent[p] \in Nat
    BY <1>1, ClientAssumption DEF Resend, ClientInv
<1>5. s \in Spare
    BY <1>1, <1>2, <1>4 DEF Spare, Resend
<1>6. Spare' = Spare \ {s}
    <2>1. \A n \in 1 .. Resends : resent'[p] < n <=> resent[p] < n /\ n # resent[p] + 1
        BY <1>1, <1>4, ClientAssumption DEF Resend, ClientInv
    <2>2. task' = task /\ \A q \in Personas \ {p} : resent'[q] = resent[q]
        BY <1>1 DEF Resend, ClientInv
    <2>3. QED BY <1>3, <1>4, <2>1, <2>2 DEF Spare
<1>7. Cardinality(Spare \ {s}) = Cardinality(Spare) - 1
    BY <1>5, SpareFinite, FS_RemoveElement
<1>8. QED BY <1>6, <1>7

\* The bucket and the provider's count are full at first.
LEMMA RateInit == Init => RateInv
<1> SUFFICES ASSUME Init PROVE RateInv
    OBVIOUS
<1>1. tokens = Capacity /\ credit = Sends * Capacity
    BY DEF Init
<1>2. Spare = {}
    BY DEF Init, Spare
<1>3. Cardinality(Spare) = 0
    BY <1>2, FS_EmptySet
<1>4. PICK n \in Nat : n = Cardinality(Unqueued)
    BY UnqueuedFinite
<1>5. Sends * Token * n >= 0 /\ Sends * Token * n \in Nat /\ Sends * Capacity \in Nat
    BY ClientAssumption, SendsMore
<1>6. QED BY <1>1, <1>3, <1>4, <1>5, ClientAssumption DEF RateInv

(* Every step leaves what the tokens may pay for covered, with every request  *)
(* of a call.                                                                *)
LEMMA RateStep ==
    ASSUME ClientInv, RateInv, [Next]_vars
    PROVE  RateInv'
<1> USE DEF limits
<1> DEFINE u == Cardinality(Unqueued)
           s == Cardinality(Spare)
           paid == Sends * Token
<1>u. u \in Nat /\ s \in Nat /\ Token * s <= paid * u
    BY UnqueuedFinite, SpareFinite
<1>p. /\ paid \in Nat /\ Token \in Nat /\ Sends \in Nat /\ Resends \in Nat /\ Capacity \in Nat
      /\ Rate \in Nat
      /\ paid >= Token + Token * Resends
      /\ \A n \in Int : paid * (n + 1) = paid * n + paid /\ paid * (n - 1) = paid * n - paid
      /\ \A n \in Int : Token * (n - 1) = Token * n - Token
    <2>1. Token * (Resends + 1) <= Token * Sends
        BY ClientAssumption, SendsMore, Times
    <2>2. QED BY <2>1, ClientAssumption, SendsMore
<1>c. /\ credit \in Int /\ tokens \in Int /\ 0 <= tokens /\ tokens <= Capacity
      /\ credit + paid * u >= Sends * tokens + Token * s
    BY ClientAssumption DEF ClientInv, RateInv
<1>g. SUFFICES credit' + paid * Cardinality(Unqueued') >= Sends * tokens' + Token * Cardinality(Spare')
    BY DEF RateInv
<1> HIDE DEF u, s, paid
<1> DEFINE Goal == credit' + paid * Cardinality(Unqueued') >= Sends * tokens' + Token * Cardinality(Spare')
<1>m. paid * u \in Int /\ Token * s \in Int /\ Sends * tokens \in Int
    BY <1>u, <1>p, <1>c
\* Fewer requests to come cost no more.
<1>f. ASSUME Spare' \in SUBSET Spare
      PROVE  Cardinality(Spare') \in Nat /\ Token * Cardinality(Spare') <= Token * s
    <2>1. IsFiniteSet(Spare') /\ Cardinality(Spare') <= s
        BY <1>f, SpareFinite, FS_Subset DEF s
    <2>2. Cardinality(Spare') \in Nat
        BY <2>1, FS_CardinalityType
    <2>3. QED BY <1>p, <1>u, <2>1, <2>2, Times
<1>a. ASSUME Spare' \in SUBSET Spare, Unqueued' = Unqueued, tokens' = tokens, credit' = credit
      PROVE  Goal
    <2>1. Token * Cardinality(Spare') \in Int
        BY <1>a, <1>f, <1>p
    <2>2. QED BY <1>a, <1>c, <1>f, <1>m, <2>1 DEF u
<1>b. ASSUME task' = task, resent' = resent, mix' = mix
      PROVE  Spare' = Spare /\ Unqueued' = Unqueued
    BY <1>b DEF Spare, Unqueued, Queued, Relative, Given
<1>1. CASE Tick
    <2>1. /\ tokens' = Min({Capacity, tokens + Rate})
          /\ credit' = Min({Sends * Capacity, credit + Sends * Rate})
          /\ Spare' = Spare /\ Unqueued' = Unqueued
        BY <1>1, <1>b DEF Tick
    <2>2. Sends * Capacity \in Int /\ Sends * Rate \in Int
        BY <1>p
    <2>3. /\ tokens' = IF Capacity <= tokens + Rate THEN Capacity ELSE tokens + Rate
          /\ credit' = IF Sends * Capacity <= credit + Sends * Rate
                       THEN Sends * Capacity ELSE credit + Sends * Rate
        BY <1>p, <1>c, <2>1, <2>2, MinOfTwo
    <2>4. tokens' \in Int /\ tokens' <= Capacity /\ tokens' <= tokens + Rate
        BY <1>p, <1>c, <2>3
    <2>a. ASSUME NEW x \in Int, NEW y \in Int, x <= y PROVE Sends * x <= Sends * y
        BY <1>p, <2>a, Times
    <2>b. PICK t \in Int : t = tokens' /\ t <= Capacity /\ t <= tokens + Rate
        BY <2>4
    <2>c. tokens + Rate \in Int /\ Capacity \in Int
        BY <1>p, <1>c
    <2>d. Sends * t <= Sends * Capacity
        BY <2>a, <2>b, <2>c
    <2>e. Sends * t <= Sends * (tokens + Rate)
        BY <2>a, <2>b, <2>c
    <2>5. Sends * tokens' <= Sends * Capacity /\ Sends * tokens' <= Sends * (tokens + Rate)
        BY <2>b, <2>d, <2>e
    <2>7. Sends * (tokens + Rate) = Sends * tokens + Sends * Rate /\ Sends * tokens' \in Int
        BY <1>p, <1>c, <2>4
    <2>8. credit' + paid * u >= Sends * tokens' + Token * s
        BY <1>c, <1>m, <1>u, <2>2, <2>3, <2>5, <2>7
    <2>9. QED BY <2>1, <2>8 DEF u, s
<1>2. ASSUME NEW p \in Personas, BeginAny(p) PROVE Goal
    <2>1. /\ task' = [task EXCEPT ![p] = IF Relative THEN "acquiring" ELSE "flight"]
          /\ task[p] = "idle" /\ mix' = mix /\ tokens' = tokens /\ credit' = credit
          /\ resent' = resent
        BY <1>2 DEF BeginAny, Begin
    <2>2. Unqueued' = Unqueued /\ Spare' \in SUBSET Spare
        BY <2>1, Elsewhere, NoMoreToSend
    <2>3. QED BY <1>a, <2>1, <2>2
<1>3. ASSUME NEW p \in Personas, TakeToken(p) PROVE Goal
    <2>1. /\ task[p] # "queued" /\ task' = [task EXCEPT ![p] = "queued"]
          /\ tokens' = tokens - Token /\ credit' = credit /\ mix' = mix /\ resent' = resent
        BY <1>3 DEF TakeToken
    <2>2. Cardinality(Unqueued') = u - 1
        BY <2>1, Queueing DEF u
    <2>3. Spare' \in SUBSET Spare
        BY <2>1, NoMoreToSend
    <2>4. Sends * tokens' = Sends * tokens - paid
        BY <1>p, <1>c, <2>1 DEF paid
    <2>5. Token * Cardinality(Spare') \in Int /\ Token * Cardinality(Spare') <= Token * s
        BY <1>f, <1>p, <2>3
    <2>6. paid * Cardinality(Unqueued') = paid * u - paid
        BY <1>p, <1>u, <2>2
    <2>7. QED BY <1>c, <1>m, <1>p, <2>1, <2>4, <2>5, <2>6
<1>4. ASSUME NEW p \in Personas, AwaitToken(p) PROVE Goal
    BY <1>4, <1>a, <1>b DEF AwaitToken
<1>5. ASSUME NEW p \in Personas, Start(p) PROVE Goal
    <2>1. /\ task[p] = "queued" /\ task' = [task EXCEPT ![p] = "flight"]
          /\ tokens' = tokens /\ credit' = credit - Token
        BY <1>5 DEF Start
    <2>2. Cardinality(Unqueued') = u + 1
        BY <2>1, Leaving DEF u
    <2>3. Cardinality(Spare') \in Nat /\ Cardinality(Spare') <= s + Resends
        BY <1>5, Permitted DEF s
    <2>4. Token * Cardinality(Spare') <= Token * (s + Resends)
        BY <1>p, <1>u, <2>3, Times
    <2>5. /\ Token * (s + Resends) = Token * s + Token * Resends
          /\ Token * Cardinality(Spare') \in Int /\ Token * Resends \in Int
        BY <1>p, <1>u, <2>3
    <2>6. paid * Cardinality(Unqueued') = paid * u + paid
        BY <1>p, <1>u, <2>2
    <2>7. QED BY <1>c, <1>m, <1>p, <2>1, <2>4, <2>5, <2>6
<1>6. ASSUME NEW p \in Personas, AnswerAny(p) PROVE Goal
    <2>1. /\ task[p] = "flight" /\ task' = [task EXCEPT ![p] = "idle"]
          /\ mix' = mix /\ tokens' = tokens /\ credit' = credit
          /\ resent' = [resent EXCEPT ![p] = 0]
        BY <1>6 DEF AnswerAny, Answer
    <2>2. Unqueued' = Unqueued
        BY <2>1, Elsewhere
    <2>3. Spare' \in SUBSET Spare
        BY <2>1, NoMoreToSend DEF ClientInv
    <2>4. QED BY <1>a, <2>1, <2>2, <2>3
<1>7. ASSUME NEW p \in Personas, ResendAny(p) PROVE Goal
    <2>1. task' = task /\ tokens' = tokens /\ credit' = credit - Token
        BY <1>7 DEF ResendAny, Resend
    <2>2. Unqueued' = Unqueued
        BY <2>1 DEF Unqueued, Queued
    <2>3. Cardinality(Spare') = s - 1
        BY <1>7, SentAgain DEF s
    <2>4. Token * Cardinality(Spare') = Token * s - Token
        BY <1>p, <1>u, <2>3
    <2>5. paid * Cardinality(Unqueued') = paid * u
        BY <2>2 DEF u
    <2>6. QED BY <1>c, <1>m, <1>p, <2>1, <2>4, <2>5
<1>8. ASSUME NEW p \in Personas, FailAny(p) PROVE Goal
    <2>1. /\ task[p] = "flight" /\ mix' = mix /\ tokens' = tokens /\ credit' = credit
          /\ resent' = [resent EXCEPT ![p] = 0]
        BY <1>8 DEF FailAny, Fail, Retry, Raise
    <2>2. PICK t \in {"acquiring"} \union Reasons : task' = [task EXCEPT ![p] = t]
        BY <1>8 DEF FailAny, Fail, Retry, Raise, Reason, Reasons
    <2>3. t # "queued" /\ t # "flight"
        BY <2>2 DEF Reasons
    <2>4. Unqueued' = Unqueued
        BY <2>1, <2>2, <2>3, Elsewhere
    <2>5. Spare' \in SUBSET Spare
        BY <2>1, <2>2, <2>3, NoMoreToSend DEF ClientInv
    <2>6. QED BY <1>a, <2>1, <2>4, <2>5
<1>9. ASSUME NEW p \in Personas, Cancel(p) PROVE Goal
    <2>1. /\ task' = [task EXCEPT ![p] = "cancelled"] /\ resent' = [resent EXCEPT ![p] = 0]
          /\ mix' = mix /\ tokens' = tokens /\ credit' = credit
        BY <1>9 DEF Cancel
    <2>2. Spare' \in SUBSET Spare
        BY <2>1, NoMoreToSend DEF ClientInv
    <2>3. CASE task[p] # "queued"
        <3>1. Unqueued' = Unqueued
            BY <2>1, <2>3, Elsewhere
        <3>2. QED BY <1>a, <2>1, <2>2, <3>1
    <2>4. CASE task[p] = "queued"
        <3>1. Cardinality(Unqueued') = u + 1
            BY <2>1, <2>4, Leaving DEF u
        <3>2. paid * Cardinality(Unqueued') = paid * u + paid
            BY <1>p, <1>u, <3>1
        <3>3. Token * Cardinality(Spare') \in Int /\ Token * Cardinality(Spare') <= Token * s
            BY <1>f, <1>p, <2>2
        <3>4. QED BY <1>c, <1>m, <1>p, <2>1, <3>2, <3>3
    <2>5. QED BY <2>3, <2>4
<1>10. CASE UNCHANGED vars
    BY <1>10, <1>a, <1>b DEF vars, call
<1>11. QED
    BY <1>1, <1>2, <1>3, <1>4, <1>5, <1>6, <1>7, <1>8, <1>9, <1>10 DEF Next, Acquire, Goes

(***************************************************************************)
(* How far the HTTP requests of a run, those included that the SDK sends   *)
(* again, are ahead of Sends times the limiter's budget at most.           *)
(***************************************************************************)
THEOREM OverrunIsBounded == Spec => []RateOverrunBounded
<1>1. ClientInv /\ RateInv => RateOverrunBounded
    <2> SUFFICES ASSUME ClientInv, RateInv PROVE RateOverrunBounded
        OBVIOUS
    <2>1. PICK u \in Nat : u = Cardinality(Unqueued)
        BY UnqueuedFinite
    <2>2. PICK s \in Nat : s = Cardinality(Spare)
        BY SpareFinite
    <2>3. Sends * tokens \in Nat /\ Token * s \in Nat /\ Sends * Token * u \in Nat
        BY ClientAssumption, SendsMore DEF ClientInv
    <2>4. credit >= 0 - Sends * Token * u
        BY <2>1, <2>2, <2>3 DEF RateInv, ClientInv
    <2>5. QED BY <2>1, <2>4 DEF RateOverrunBounded, Unqueued
<1>2. ClientInv /\ RateInv /\ [Next]_vars => RateInv'
    BY RateStep
<1>3. QED BY <1>1, <1>2, RateInit, ClientInvariance, PTL DEF Spec

-----------------------------------------------------------------------------
(* Types.                                                                  *)

(***************************************************************************)
(* The types and, of the semaphore's queue, that it holds each waiter at   *)
(* one position.                                                           *)
(***************************************************************************)
QueueInv ==
    /\ mix \in DOMAIN Mixes
    /\ wait \in [Personas -> Nat]
    /\ attempt \in [Personas -> 0 .. MaxRetries - 1]
    /\ calls \in [Personas -> Nat]
    /\ queue \in Seq(Personas)
    /\ ToSet(queue) = Queued
    /\ \A i, j \in DOMAIN queue : queue[i] = queue[j] => i = j
    /\ DOMAIN aim = Personas /\ DOMAIN said = Personas

\* A queue with each waiter at one position is as long as there are waiters.
LEMMA OnceEach ==
    ASSUME QueueInv
    PROVE  Len(queue) = Cardinality(Queued)
<1>1. DOMAIN queue = 1 .. Len(queue) /\ Len(queue) \in Nat
    BY LenProperties DEF QueueInv
<1>2. queue \in Bijection(1 .. Len(queue), ToSet(queue))
    BY <1>1 DEF QueueInv, Bijection, Injection, Surjection, IsInjective, ToSet
<1>3. IsFiniteSet(1 .. Len(queue)) /\ Cardinality(1 .. Len(queue)) = Len(queue)
    <2>1. \A n \in Nat : IsFiniteSet(1 .. n) /\ Cardinality(1 .. n) = n
        BY FS_Interval
    <2>2. QED BY <1>1, <2>1
<1>4. Cardinality(ToSet(queue)) = Cardinality(1 .. Len(queue))
    BY <1>2, <1>3, FS_Bijection DEF ExistsBijection
<1>5. QED BY <1>3, <1>4 DEF QueueInv

\* Nobody queues at first.
LEMMA QueueInit == Init => QueueInv
<1> SUFFICES ASSUME Init PROVE QueueInv
    OBVIOUS
<1>1. Given.calls \in Nat
    BY MixesAssumption DEF Init, Given
<1>2. calls \in [Personas -> Nat]
    BY <1>1 DEF Init
<1>3. queue \in Seq(Personas) /\ ToSet(queue) = {} /\ DOMAIN queue = {}
    BY DEF Init, ToSet
<1>4. Queued = {}
    BY DEF Init, Queued
<1>5. QED BY <1>2, <1>3, <1>4, ClientAssumption DEF Init, QueueInv

\* The sleeps of acquire and of a retry are ticks.
LEMMA SleepsAreTicks ==
    /\ tokens \in Int /\ tokens < Token => Deficit \in Nat
    /\ \A error \in Errors, n \in Nat : BackOff(error, n) \in Nat
<1>1. ASSUME tokens \in Int, tokens < Token PROVE Deficit \in Nat
    <2> DEFINE y == Token - tokens + Rate - 1
    <2>1. y \in Int /\ Rate * 0 <= y
        BY <1>1, ClientAssumption
    <2> HIDE DEF y
    <2>2. 0 <= y \div Rate /\ y \div Rate \in Int
        BY <2>1, ClientAssumption, Quotient, Division
    <2>3. Deficit = Min({y \div Rate, MaxSleep})
        BY DEF Deficit, y
    <2>4. QED BY <2>2, <2>3, MinOfTwo, ClientAssumption
<1>2. ASSUME NEW error \in Errors, NEW n \in Nat PROVE BackOff(error, n) \in Nat
    <2> DEFINE cap == IF error = "rate" THEN 30 ELSE 10
    <2>1. CASE n >= 5
        BY <2>1 DEF BackOff
    <2>2. CASE n < 5
        <3>1. 2 ^ n \in Nat
            <4>1. n = 0 \/ n = 1 \/ n = 2 \/ n = 3 \/ n = 4
                BY <2>2
            <4>2. 2 ^ 0 = 1 /\ 2 ^ 1 = 2 /\ 2 ^ 2 = 4 /\ 2 ^ 3 = 8 /\ 2 ^ 4 = 16
                OBVIOUS
            <4>3. CASE n = 0
                BY <4>2, <4>3
            <4>4. CASE n = 1
                BY <4>2, <4>4
            <4>5. CASE n = 2
                BY <4>2, <4>5
            <4>6. CASE n = 3
                BY <4>2, <4>6
            <4>7. CASE n = 4
                BY <4>2, <4>7
            <4>8. QED BY <4>1, <4>3, <4>4, <4>5, <4>6, <4>7
        <3>2. BackOff(error, n) = Min({2 ^ n, cap}) /\ cap \in Nat
            BY <2>2 DEF BackOff
        <3>3. QED BY <3>1, <3>2, MinOfTwo
    <2>3. QED BY <2>1, <2>2
<1>3. QED BY <1>1, <1>2

\* A step that leaves the queue alone keeps it in order if nobody joins or leaves it.
LEMMA QueueKept ==
    ASSUME QueueInv, task \in [Personas -> {"idle"} \union Busy \union Reasons],
           NEW p \in Personas, NEW t, task[p] # "queued", t # "queued",
           task' = [task EXCEPT ![p] = t], queue' = queue
    PROVE  /\ queue' \in Seq(Personas) /\ ToSet(queue') = Queued'
           /\ \A i, j \in DOMAIN queue' : queue'[i] = queue'[j] => i = j
<1>1. Queued' = Queued
    BY DEF Queued
<1>2. QED BY <1>1 DEF QueueInv

\* Every step keeps the queue to those who wait, each once.
LEMMA QueueStep == ClientInv /\ QueueInv /\ [Next]_vars => QueueInv'
<1> SUFFICES ASSUME ClientInv, QueueInv, [Next]_vars PROVE QueueInv'
    OBVIOUS
<1> DEFINE Ordered(q) == \A i, j \in DOMAIN q : q[i] = q[j] => i = j
<1>a. /\ task \in [Personas -> {"idle"} \union Busy \union Reasons] /\ tokens \in Int
      /\ queue \in Seq(Personas) /\ ToSet(queue) = Queued /\ Ordered(queue)
      /\ Len(queue) \in Nat /\ DOMAIN queue = 1 .. Len(queue)
    BY LenProperties, ClientAssumption DEF ClientInv, QueueInv
<1>1. CASE Tick
    <2>1. ASSUME NEW p \in Personas PROVE Max({0, wait[p] - 1}) \in Nat
        <3>1. wait[p] - 1 \in Int
            BY DEF QueueInv
        <3>2. QED BY <3>1, MaxOfTwo
    <2>2. wait' \in [Personas -> Nat]
        BY <1>1, <2>1 DEF Tick
    <2>3. QED BY <1>1, <2>2 DEF Tick, QueueInv, Queued
<1>2. ASSUME NEW p \in Personas, BeginAny(p) PROVE QueueInv'
    <2>a. PICK view \in Given.views : \E target \in Targets(view) : Begin(p, view, target)
        BY <1>2 DEF BeginAny
    <2>1. PICK target \in Targets(view) : Begin(p, view, target)
        BY <2>a
    <2>2. task[p] = "idle" /\ calls[p] > 0
        BY <1>2 DEF BeginAny
    <2>3. PICK t \in {"acquiring", "flight"} : task' = [task EXCEPT ![p] = t]
        BY <2>1 DEF Begin
    <2>4. queue' \in Seq(Personas) /\ ToSet(queue') = Queued' /\ Ordered(queue')
        BY <1>a, <2>1, <2>2, <2>3, QueueKept DEF Begin
    <2>5. QED BY <2>1, <2>2, <2>4, ClientAssumption DEF Begin, QueueInv
<1>3. ASSUME NEW p \in Personas, TakeToken(p) PROVE QueueInv'
    <2>1. /\ task[p] = "acquiring" /\ task' = [task EXCEPT ![p] = "queued"]
          /\ queue' = Append(queue, p)
        BY <1>3 DEF TakeToken
    <2>2. Queued' = Queued \union {p} /\ p \notin Queued
        BY <1>a, <2>1 DEF Queued
    <2>3. /\ queue' \in Seq(Personas) /\ DOMAIN queue' = 1 .. Len(queue) + 1
          /\ \A i \in 1 .. Len(queue) : queue'[i] = queue[i]
          /\ queue'[Len(queue) + 1] = p
        BY <1>a, <2>1, AppendProperties, LenProperties
    <2>4. ToSet(queue') = ToSet(queue) \union {p}
        BY <1>a, <2>3 DEF ToSet
    <2>5. ASSUME NEW i \in DOMAIN queue', NEW j \in DOMAIN queue', queue'[i] = queue'[j]
          PROVE  i = j
        <3>1. \A k \in 1 .. Len(queue) : queue[k] # p
            BY <1>a, <2>2 DEF ToSet
        <3>2. QED BY <1>a, <2>3, <2>5, <3>1
    <2>6. QED BY <1>3, <1>a, <2>2, <2>3, <2>4, <2>5 DEF TakeToken, QueueInv
<1>4. ASSUME NEW p \in Personas, AwaitToken(p) PROVE QueueInv'
    <2>1. Deficit \in Nat
        BY <1>4, <1>a, SleepsAreTicks DEF AwaitToken
    <2>2. QED BY <1>4, <2>1 DEF AwaitToken, QueueInv, Queued
<1>5. ASSUME NEW p \in Personas, Start(p) PROVE QueueInv'
    <2>1. /\ queue # <<>> /\ p = Head(queue) /\ task[p] = "queued"
          /\ queue' = Tail(queue) /\ task' = [task EXCEPT ![p] = "flight"]
        BY <1>5 DEF Start
    <2>2. /\ queue' \in Seq(Personas) /\ DOMAIN queue' = 1 .. Len(queue) - 1
          /\ \A i \in 1 .. Len(queue) - 1 : queue'[i] = queue[i + 1]
        BY <1>a, <2>1, HeadTailProperties, LenProperties
    <2>3. Queued' = Queued \ {p}
        BY <1>a, <2>1 DEF Queued
    <2>4. p = queue[1] /\ 1 \in DOMAIN queue
        BY <1>a, <2>1, EmptySeq
    <2>5. ToSet(queue') = ToSet(queue) \ {p}
        <3>1. ASSUME NEW x \in ToSet(queue') PROVE x \in ToSet(queue) \ {p}
            <4>1. PICK i \in 1 .. Len(queue) - 1 : x = queue'[i]
                BY <2>2 DEF ToSet
            <4>2. x = queue[i + 1] /\ i + 1 \in DOMAIN queue /\ i + 1 # 1
                BY <1>a, <2>2, <4>1
            <4>3. QED BY <1>a, <2>4, <4>2 DEF ToSet
        <3>2. ASSUME NEW x \in ToSet(queue) \ {p} PROVE x \in ToSet(queue')
            <4>1. PICK i \in DOMAIN queue : x = queue[i]
                BY DEF ToSet
            <4>2. i # 1
                BY <2>4, <3>2, <4>1
            <4>3. i - 1 \in DOMAIN queue' /\ queue'[i - 1] = x
                BY <1>a, <2>2, <4>1, <4>2
            <4>4. QED BY <4>3 DEF ToSet
        <3>3. QED BY <3>1, <3>2
    <2>6. Ordered(queue')
        <3> SUFFICES ASSUME NEW i \in DOMAIN queue', NEW j \in DOMAIN queue', queue'[i] = queue'[j]
                     PROVE  i = j
            OBVIOUS
        <3>1. /\ queue[i + 1] = queue[j + 1] /\ i + 1 \in DOMAIN queue /\ j + 1 \in DOMAIN queue
              /\ i \in Int /\ j \in Int
            BY <1>a, <2>2
        <3>2. i + 1 = j + 1
            BY <1>a, <3>1
        <3>3. QED BY <3>1, <3>2
    <2>7. QED BY <1>5, <1>a, <2>2, <2>3, <2>5, <2>6 DEF Start, QueueInv
<1>6. ASSUME NEW p \in Personas, AnswerAny(p) PROVE QueueInv'
    <2>1. task[p] = "flight" /\ queue' = queue /\ task' = [task EXCEPT ![p] = "idle"]
        BY <1>6 DEF AnswerAny, Answer
    <2>2. queue' \in Seq(Personas) /\ ToSet(queue') = Queued' /\ Ordered(queue')
        BY <1>a, <2>1, QueueKept
    <2>3. QED BY <1>6, <2>2, ClientAssumption DEF AnswerAny, Answer, limits, QueueInv
<1>r. ASSUME NEW p \in Personas, ResendAny(p) PROVE QueueInv'
    BY <1>r DEF ResendAny, Resend, QueueInv, Queued
<1>7. ASSUME NEW p \in Personas, FailAny(p) PROVE QueueInv'
    <2>1. PICK error \in Given.errors : Retry(p, error) \/ Raise(p, error)
        BY <1>7 DEF FailAny, Fail
    <2>2. task[p] = "flight" /\ queue' = queue
        BY <2>1 DEF Retry, Raise
    <2>3. PICK t \in {"acquiring"} \union Reasons : task' = [task EXCEPT ![p] = t]
        BY <2>1 DEF Retry, Raise, Reason, Reasons
    <2>4. t # "queued"
        BY <2>3 DEF Reasons
    <2>5. queue' \in Seq(Personas) /\ ToSet(queue') = Queued' /\ Ordered(queue')
        BY <1>a, <2>2, <2>3, <2>4, QueueKept
    <2>6. CASE Retry(p, error)
        <3>1. error \in Errors /\ attempt[p] \in Nat /\ attempt[p] + 1 \in 0 .. MaxRetries - 1
            BY <2>6, ClientAssumption DEF Retry, Retriable, Errors, QueueInv
        <3>2. BackOff(error, attempt[p]) \in Nat
            BY <3>1, SleepsAreTicks
        <3>3. QED BY <2>5, <2>6, <3>1, <3>2 DEF Retry, QueueInv
    <2>7. CASE Raise(p, error)
        BY <2>5, <2>7 DEF Raise, QueueInv
    <2>8. QED BY <2>1, <2>6, <2>7
<1>8. ASSUME NEW p \in Personas, Cancel(p) PROVE QueueInv'
    <2>1. task' = [task EXCEPT ![p] = "cancelled"]
        BY <1>8 DEF Cancel
    <2>2. queue' \in Seq(Personas) /\ ToSet(queue') = Queued' /\ Ordered(queue')
        <3>1. CASE task[p] # "queued"
            BY <1>8, <1>a, <2>1, <3>1, QueueKept DEF Cancel
        <3>2. CASE task[p] = "queued"
            <4>1. PICK i \in DOMAIN queue : queue[i] = p /\ queue' = RemoveAt(queue, i)
                BY <1>8, <3>2 DEF Cancel
            <4>2. /\ queue' \in Seq(Personas) /\ Len(queue') = Len(queue) - 1
                  /\ \A w \in Personas \ {p} : w \in ToSet(queue') <=> w \in ToSet(queue)
                  /\ \A j \in 1 .. Len(queue) - 1 :
                        queue'[j] = IF j < i THEN queue[j] ELSE queue[j + 1]
                <5>1. queue \in Seq(Personas) /\ i \in DOMAIN queue
                    BY <1>a
                <5>2. /\ RemoveAt(queue, i) \in Seq(Personas)
                      /\ Len(RemoveAt(queue, i)) = Len(queue) - 1
                      /\ \A w \in Personas \ {queue[i]} :
                            w \in ToSet(RemoveAt(queue, i)) <=> w \in ToSet(queue)
                      /\ \A j \in 1 .. Len(queue) - 1 :
                            RemoveAt(queue, i)[j] = IF j < i THEN queue[j] ELSE queue[j + 1]
                    BY <5>1, OneLess
                <5> DEFINE left == RemoveAt(queue, i)
                <5>3. queue' = left /\ queue[i] = p
                    BY <4>1
                <5> HIDE DEF left
                <5>4. QED BY <5>2, <5>3 DEF left
            <4>3. DOMAIN queue' = 1 .. Len(queue) - 1
                BY <4>2, LenProperties
            <4>4. Ordered(queue')
                <5> SUFFICES ASSUME NEW j \in 1 .. Len(queue) - 1, NEW k \in 1 .. Len(queue) - 1,
                                    queue'[j] = queue'[k]
                             PROVE  j = k
                    BY <4>3
                <5> DEFINE At(n) == IF n < i THEN n ELSE n + 1
                <5>1. queue[At(j)] = queue[At(k)] /\ At(j) \in DOMAIN queue /\ At(k) \in DOMAIN queue
                    BY <1>a, <4>1, <4>2
                <5>2. At(j) = At(k)
                    BY <1>a, <5>1
                <5>3. QED BY <5>2, <1>a
            <4>5. p \notin ToSet(queue')
                <5>1. ASSUME NEW j \in 1 .. Len(queue) - 1 PROVE queue'[j] # p
                    <6>1. CASE j < i
                        BY <6>1, <1>a, <4>1, <4>2
                    <6>2. CASE ~(j < i)
                        <7>1. queue'[j] = queue[j + 1] /\ j + 1 \in DOMAIN queue /\ j + 1 # i
                            BY <6>2, <1>a, <4>1, <4>2
                        <7>2. QED BY <7>1, <1>a, <4>1
                    <6>3. QED BY <6>1, <6>2
                <5>2. QED BY <4>3, <5>1 DEF ToSet
            <4>6. Queued' = Queued \ {p}
                BY <1>a, <2>1 DEF Queued
            <4>7. ToSet(queue') \subseteq Personas /\ ToSet(queue) \subseteq Personas
                BY <1>a, <4>2, SeqSetFinite
            <4>8. QED BY <1>a, <4>2, <4>4, <4>5, <4>6, <4>7
        <3>3. QED BY <3>1, <3>2
    <2>3. QED BY <1>8, <2>2 DEF Cancel, QueueInv
<1>9. CASE UNCHANGED vars
    BY <1>9 DEF vars, call, limits, QueueInv, Queued
<1>10. QED BY <1>1, <1>2, <1>3, <1>4, <1>5, <1>6, <1>r, <1>7, <1>8, <1>9 DEF Next, Acquire, Goes

\* The types of the client for any personas, mixes and limits; the queue of the semaphore
\* holds those that wait for it, each once, whoever is answered, refused or cancelled.
THEOREM ClientTyped == Spec => []TypeOK
<1>1. ClientInv /\ QueueInv => TypeOK
    BY OnceEach DEF ClientInv, QueueInv, TypeOK
<1>2. Spec => []ClientInv
    BY ClientInvariance
<1>3. Spec => []QueueInv
    BY <1>2, QueueInit, QueueStep, PTL DEF Spec
<1>4. QED BY <1>1, <1>2, <1>3, PTL

-----------------------------------------------------------------------------
(* Where clicks land.                                                      *)

\* The steps of the grid that the model answers on.
Grid == 1000

\* r is the quotient of n and d, or off it by at most a half.
Rounds(r, n, d) == r \in Int /\ 2 * (r * d - n) <= d /\ 2 * (n - r * d) <= d

(***************************************************************************)
(* Along an axis of h pixels of which W are sent as M: b is half a step of *)
(* the grid, a pixel of the image and half a pixel away from t at most.    *)
(***************************************************************************)
Lands(b, t, h, M, W) ==
    /\ M * (2000 * (b - t)) <= h * M + 2000 * W + 1000 * M
    /\ M * (2000 * (t - b)) <= h * M + 2000 * W + 1000 * M

\* All of the axis is sent as one pixel; or the pixels sent have room for a pixel of the image.
Thin(W, M, h, g) == g = 1 /\ 2 * (h * M) <= W
Roomy(W, M, h) == 1000 * W <= M * (2000 + h)

\* A rounded quotient is off by at most a half.
LEMMA Nearest ==
    ASSUME NEW n \in Int, NEW d \in Nat \ {0}
    PROVE  Rounds(RoundHalfEven(n, d), n, d)
<1> DEFINE q == n \div d
           m == n % d
           r == RoundHalfEven(n, d)
<1>1. q \in Int /\ m \in 0 .. d - 1 /\ n = d * q + m
    BY Division
<1>2. r = (IF 2 * m > d \/ (2 * m = d /\ q % 2 = 1) THEN q + 1 ELSE q)
    BY DEF RoundHalfEven
<1> HIDE DEF q, m, r
<1>3. d * q \in Int /\ q * d = d * q /\ (q + 1) * d = d * q + d
    BY <1>1
<1>4. r \in Int /\ 2 * (r * d - n) <= d /\ 2 * (n - r * d) <= d
    <2>1. CASE r = q /\ 2 * m <= d
        BY <1>1, <1>3, <2>1
    <2>2. CASE r = q + 1 /\ 2 * m >= d
        BY <1>1, <1>3, <2>2
    <2>3. QED BY <1>1, <1>2, <2>1, <2>2
<1>5. QED BY <1>4 DEF Rounds, r

\* Rounding does not pass a whole number, from below or from above.
LEMMA RoundedUpTo ==
    ASSUME NEW n \in Int, NEW d \in Nat \ {0}, NEW k \in Int, n <= k * d
    PROVE  RoundHalfEven(n, d) <= k
<1> DEFINE r == RoundHalfEven(n, d)
<1>1. r \in Int /\ 2 * (r * d - n) <= d
    BY Nearest DEF Rounds
<1> HIDE DEF r
<1>2. SUFFICES ASSUME r >= k + 1 PROVE FALSE
    BY <1>1 DEF r
<1>3. d * (k + 1) <= d * r
    BY <1>1, <1>2, Times
<1>4. d * (k + 1) = k * d + d /\ d * r = r * d /\ r * d \in Int /\ k * d \in Int
    BY <1>1
<1>5. QED BY <1>1, <1>3, <1>4

\* The same from above.
LEMMA RoundedDownTo ==
    ASSUME NEW n \in Int, NEW d \in Nat \ {0}, NEW k \in Int, k * d <= n
    PROVE  k <= RoundHalfEven(n, d)
<1> DEFINE r == RoundHalfEven(n, d)
<1>1. r \in Int /\ 2 * (n - r * d) <= d
    BY Nearest DEF Rounds
<1> HIDE DEF r
<1>2. SUFFICES ASSUME r + 1 <= k PROVE FALSE
    BY <1>1 DEF r
<1>3. d * (r + 1) <= d * k
    BY <1>1, <1>2, Times
<1>4. d * (r + 1) = r * d + d /\ d * k = k * d /\ r * d \in Int /\ k * d \in Int
    BY <1>1
<1>5. QED BY <1>1, <1>3, <1>4

(***************************************************************************)
(* One axis, h pixels of the screen of which g are sent: t is aimed at, r  *)
(* named on the grid, q the pixel of the image, b the pixel clicked.  W    *)
(* pixels of a row are sent as M.                                          *)
(***************************************************************************)
LEMMA AxisError ==
    ASSUME NEW W \in Nat \ {0}, NEW M \in Nat \ {0}, NEW h \in Nat \ {0}, NEW g \in Nat \ {0},
           Rounds(g, h * M, W), g * W = h * M \/ Roomy(W, M, h),
           NEW t \in 0 .. h - 1,
           NEW r \in 0 .. Grid, Rounds(r, Grid * t, h),
           NEW q \in 0 .. g, Rounds(q, r * g, Grid),
           NEW b \in Int, Rounds(b, Within(q, g) * W, M)
    PROVE  Lands(b, t, h, M, W)
<1> DEFINE d == Within(q, g)
<1>1. d \in Nat /\ d <= q /\ (q < g => d = q) /\ (q = g => d = g - 1)
    BY DEF Within
<1>2. 2 * (b * M - d * W) <= M /\ 2 * (d * W - b * M) <= M
    BY DEF Rounds
<1> HIDE DEF d
<1>3. /\ M * (2 * (r * h - 1000 * t)) <= M * h
      /\ M * (2 * (1000 * t - r * h)) <= M * h
    <2>1. 2 * (r * h - 1000 * t) \in Int /\ 2 * (1000 * t - r * h) \in Int
        OBVIOUS
    <2>2. 2 * (r * h - 1000 * t) <= h /\ 2 * (1000 * t - r * h) <= h
        BY DEF Rounds, Grid
    <2>3. QED BY <2>1, <2>2, Times
<1>4. /\ W * (2 * (q * 1000 - r * g)) <= W * 1000
      /\ W * (2 * (r * g - q * 1000)) <= W * 1000
    <2>1. 2 * (q * 1000 - r * g) \in Int /\ 2 * (r * g - q * 1000) \in Int
        OBVIOUS
    <2>2. 2 * (q * 1000 - r * g) <= 1000 /\ 2 * (r * g - q * 1000) <= 1000
        BY DEF Rounds, Grid
    <2>3. QED BY <2>1, <2>2, Times
<1>5. /\ r * (2 * (g * W - h * M)) <= 1000 * W
      /\ r * (2 * (h * M - g * W)) <= 1000 * W
    <2> DEFINE up == 2 * (g * W - h * M)
               down == 2 * (h * M - g * W)
    <2>1. up \in Int /\ down \in Int /\ up <= W /\ down <= W
        BY DEF Rounds
    <2> HIDE DEF up, down
    <2>2. r \in Nat /\ r <= 1000
        BY DEF Grid
    <2>3. r * up <= 1000 * W
        BY <2>1, <2>2, TimesBoth
    <2>4. r * down <= 1000 * W
        BY <2>1, <2>2, TimesBoth
    <2>5. QED BY <2>3, <2>4 DEF up, down
<1>6. W * d <= W * q
    BY <1>1, Times
<1> DEFINE rhM == r * h * M
           rgW == r * g * W
           tM == t * M
           bM == b * M
           dW == d * W
           hM == h * M
<1>7. rhM \in Int /\ rgW \in Int /\ tM \in Int /\ bM \in Int /\ dW \in Int /\ hM \in Int
    BY <1>1
<1>8. /\ 2 * rhM - 2000 * tM <= hM /\ 2000 * tM - 2 * rhM <= hM
      /\ 2 * rgW - 2 * rhM <= 1000 * W /\ 2 * rhM - 2 * rgW <= 1000 * W
      /\ 2 * bM - 2 * dW <= M /\ 2 * dW - 2 * bM <= M
    <2>1. M * (2 * (r * h - 1000 * t)) = 2 * rhM - 2000 * tM /\ M * h = hM
        OBVIOUS
    <2>2. M * (2 * (1000 * t - r * h)) = 2000 * tM - 2 * rhM
        OBVIOUS
    <2>3. /\ r * (2 * (g * W - h * M)) = 2 * rgW - 2 * rhM
          /\ r * (2 * (h * M - g * W)) = 2 * rhM - 2 * rgW
        OBVIOUS
    <2> HIDE DEF rhM, rgW, tM, bM, dW, hM
    <2>5. 2 * rhM - 2000 * tM <= hM /\ 2000 * tM - 2 * rhM <= hM
        BY <1>3, <2>1, <2>2
    <2>6. 2 * rgW - 2 * rhM <= 1000 * W /\ 2 * rhM - 2 * rgW <= 1000 * W
        BY <1>5, <1>7, <2>3
    <2>7. 2 * bM - 2 * dW <= M /\ 2 * dW - 2 * bM <= M
        <3>1. 2 * (b * M - d * W) = 2 * bM - 2 * dW /\ 2 * (d * W - b * M) = 2 * dW - 2 * bM
            BY <1>1 DEF bM, dW
        <3>2. QED BY <1>2, <3>1
    <2>8. QED BY <2>5, <2>6, <2>7
<1>9. 2000 * dW - 2 * rgW <= W * 1000
    BY <1>1, <1>4, <1>6
<1>10. /\ M * (2000 * (b - t)) = 2000 * bM - 2000 * tM
       /\ M * (2000 * (t - b)) = 2000 * tM - 2000 * bM
    OBVIOUS
<1>11. M * (2000 * (b - t)) <= hM + 2000 * W + 1000 * M
    <2> HIDE DEF rhM, rgW, tM, bM, dW, hM
    <2>1. QED BY <1>7, <1>8, <1>9, <1>10
<1>12. M * (2000 * (t - b)) <= hM + 2000 * W + 1000 * M
    <2>1. CASE q < g
        <3>1. 2 * rgW - 2000 * dW <= W * 1000
            BY <2>1, <1>1, <1>4
        <3> HIDE DEF rhM, rgW, tM, bM, dW, hM
        <3>2. QED BY <1>7, <1>8, <1>10, <3>1
    <2>2. CASE q = g
        <3>1. M * t <= M * (h - 1)
            BY Times
        <3>2. d * W = g * W - W
            BY <2>2, <1>1
        <3>3. M * (2000 * (t - b)) <= 2000 * (h * M - g * W) + 2000 * W - 1000 * M
            BY <1>1, <1>2, <3>1, <3>2
        <3>4. 2 * (h * M - g * W) <= W /\ (g * W = h * M \/ 1000 * W <= M * (2000 + h))
            BY DEF Rounds, Roomy
        <3>5. QED BY <3>3, <3>4
    <2>3. QED BY <2>1, <2>2
<1>13. QED BY <1>11, <1>12 DEF Lands

\* An axis that is sent as a single pixel.
LEMMA ThinError ==
    ASSUME NEW W \in Nat \ {0}, NEW M \in Nat \ {0}, NEW h \in Nat \ {0}, NEW g, Thin(W, M, h, g),
           NEW t \in 0 .. h - 1
    PROVE  Lands(0, t, h, M, W)
<1> DEFINE tM == t * M
           hM == h * M
<1>1. M * t <= M * h
    BY Times
<1>2. tM \in Nat /\ hM \in Nat /\ tM <= hM
    BY <1>1
<1>3. M * (2000 * (0 - t)) = 0 - 2000 * tM /\ M * (2000 * (t - 0)) = 2000 * tM
    OBVIOUS
<1>4. 2 * hM <= W
    BY DEF Thin
<1> HIDE DEF tM, hM
<1>5. 0 - 2000 * tM <= hM + 2000 * W + 1000 * M /\ 2000 * tM <= hM + 2000 * W + 1000 * M
    BY <1>2, <1>4
<1>6. QED BY <1>3, <1>5 DEF hM, Lands

\* The middle of the image is near the middle of the screen.
LEMMA MiddleError ==
    ASSUME NEW W \in Nat \ {0}, NEW M \in Nat \ {0}, NEW h \in Nat \ {0}, NEW g \in Nat \ {0},
           M <= W, Rounds(g, h * M, W) \/ Thin(W, M, h, g),
           NEW b \in Int, Rounds(b, (g \div 2) * W, M)
    PROVE  Lands(b, h \div 2, h, M, W)
<1> DEFINE d == g \div 2
           t == h \div 2
           hM == h * M
           gW == g * W
           dW == d * W
           tM == t * M
           bM == b * M
<1>1. d \in Nat /\ t \in Nat /\ (g = 2 * d \/ g = 2 * d + 1) /\ (h = 2 * t \/ h = 2 * t + 1)
    OBVIOUS
<1>2. 2 * (b * M - d * W) <= M /\ 2 * (d * W - b * M) <= M
    BY DEF Rounds
<1> HIDE DEF d, t
<1>3. hM \in Nat /\ gW \in Nat /\ dW \in Nat /\ tM \in Nat /\ bM \in Int
    BY <1>1
<1>4. (gW = 2 * dW \/ gW = 2 * dW + W) /\ (hM = 2 * tM \/ hM = 2 * tM + M)
    BY <1>1
<1>5. 2 * bM - 2 * dW <= M /\ 2 * dW - 2 * bM <= M
    BY <1>1, <1>2
<1>6. (2 * gW - 2 * hM <= W /\ 2 * hM - 2 * gW <= W) \/ (gW = W /\ 2 * hM <= W)
    BY <1>1 DEF Rounds, Thin
<1>7. M * (2000 * (b - t)) = 2000 * bM - 2000 * tM /\ M * (2000 * (t - b)) = 2000 * tM - 2000 * bM
    BY <1>1
<1> HIDE DEF hM, gW, dW, tM, bM
<1>8. /\ 2000 * bM - 2000 * tM <= hM + 2000 * W + 1000 * M
      /\ 2000 * tM - 2000 * bM <= hM + 2000 * W + 1000 * M
    BY <1>3, <1>4, <1>5, <1>6
<1>9. QED BY <1>7, <1>8 DEF t, hM, Lands

\* The distance that is allowed, when the screen is W pixels wide and the image M.
Close(at, t, noise, h, M, W) ==
    2000 * (Magnitude(at - t) - Magnitude(noise)) <= h + (2000 * W) \div M + 1000

\* A pair is a point.
LEMMA PairsArePoints == \A x, y : <<x, y>> # NoPoint
BY DEF NoPoint

\* The tremor moves a click by no more than its draw, and the edges of the screen only help.
LEMMA Trembled ==
    ASSUME NEW W \in Nat \ {0}, NEW M \in Nat \ {0}, NEW h \in Nat \ {0},
           NEW t \in 0 .. h - 1, NEW b \in Int, NEW noise \in Int, Lands(b, t, h, M, W)
    PROVE  Within(b + noise, h) \in 0 .. h - 1 /\ Close(Within(b + noise, h), t, noise, h, M, W)
<1> DEFINE at == Within(b + noise, h)
           k == (2000 * W) \div M
<1>1. at \in 0 .. h - 1 /\ Magnitude(at - t) - Magnitude(noise) <= Magnitude(b - t)
    BY DEF Within, Magnitude
<1>2. ASSUME NEW e \in Int, M * (2000 * e) <= h * M + 2000 * W + 1000 * M
      PROVE  2000 * e <= h + k + 1000
    <2>1. M * (2000 * e - h - 1000) = M * (2000 * e) - h * M - 1000 * M
        OBVIOUS
    <2>2. /\ M * (2000 * e) \in Int /\ h * M \in Int /\ 1000 * M \in Int
          /\ 2000 * e - h - 1000 \in Int /\ 2000 * W \in Int
        OBVIOUS
    <2>3. M * (2000 * e - h - 1000) <= 2000 * W
        BY <1>2, <2>1, <2>2
    <2>4. 2000 * e - h - 1000 <= k
        BY <2>2, <2>3, Quotient
    <2>5. k \in Int
        BY <2>2, Division
    <2> HIDE DEF k
    <2>6. QED BY <2>4, <2>5
<1>3. k \in Int
    <2>1. 2000 * W \in Int
        OBVIOUS
    <2>2. QED BY <2>1, Division
<1>4. 2000 * (b - t) <= h + k + 1000 /\ 2000 * (t - b) <= h + k + 1000
    BY <1>2 DEF Lands
<1> HIDE DEF k
<1>5. 2000 * Magnitude(b - t) <= h + k + 1000
    BY <1>3, <1>4 DEF Magnitude
<1>6. 2000 * (Magnitude(at - t) - Magnitude(noise)) <= 2000 * Magnitude(b - t)
    <2>1. Magnitude(at - t) \in Int /\ Magnitude(noise) \in Int /\ Magnitude(b - t) \in Int
        BY <1>1 DEF Magnitude
    <2>2. QED BY <2>1, <1>1
<1>7. 2000 * (Magnitude(at - t) - Magnitude(noise)) \in Int /\ 2000 * Magnitude(b - t) \in Int
    BY <1>1 DEF Magnitude
<1>8. QED BY <1>1, <1>3, <1>5, <1>6, <1>7 DEF k, Close

\* A target on the grid that is laid over h pixels.
LEMMA GridPoint ==
    ASSUME NEW h \in Nat \ {0}, NEW t \in 0 .. h - 1
    PROVE  RoundHalfEven(Grid * t, h) \in 0 .. Grid
           /\ Rounds(RoundHalfEven(Grid * t, h), Grid * t, h)
<1> DEFINE n == Grid * t
           bottom == 0
           r == RoundHalfEven(n, h)
<1>1. n \in Int /\ Grid \in Int /\ bottom \in Int /\ n <= Grid * h /\ bottom * h <= n
    BY DEF Grid
<1> HIDE DEF n, bottom
<1>2. Rounds(r, n, h) /\ r <= Grid /\ bottom <= r
    BY <1>1, Nearest, RoundedUpTo, RoundedDownTo
<1> HIDE DEF r
<1>3. r \in 0 .. Grid
    BY <1>1, <1>2 DEF bottom, Rounds
<1>4. QED BY <1>2, <1>3 DEF r, n

\* The pixel of the image, g of them along the axis, that a number of the grid stands for.
LEMMA ImagePixel ==
    ASSUME NEW g \in Nat \ {0}, NEW r \in 0 .. Grid
    PROVE  RoundHalfEven(r * g, Grid) \in 0 .. g
           /\ Rounds(RoundHalfEven(r * g, Grid), r * g, Grid)
<1> DEFINE n == r * g
           bottom == 0
           q == RoundHalfEven(n, Grid)
<1>1. /\ n \in Int /\ Grid \in Nat \ {0} /\ bottom \in Int
      /\ n <= g * Grid /\ bottom * Grid <= n
    <2>1. g * r <= g * Grid /\ g * r = r * g /\ r * g \in Nat
        BY Times DEF Grid
    <2>2. QED BY <2>1 DEF Grid
<1> HIDE DEF n, bottom
<1>2. Rounds(q, n, Grid) /\ q <= g /\ bottom <= q
    BY <1>1, Nearest, RoundedUpTo, RoundedDownTo
<1> HIDE DEF q
<1>3. q \in 0 .. g
    BY <1>2 DEF bottom, Rounds
<1>4. QED BY <1>2, <1>3 DEF q, n

\* A pixel of the image taken back to the screen.
LEMMA ScreenPixel ==
    ASSUME NEW W \in Nat \ {0}, NEW M \in Nat \ {0}, NEW d \in Int
    PROVE  Rounds(IF M = W THEN d ELSE RoundHalfEven(d * W, M), d * W, M)
<1>1. CASE M = W
    BY <1>1 DEF Rounds
<1>2. CASE M # W
    <2> DEFINE n == d * W
    <2>1. n \in Int
        OBVIOUS
    <2> HIDE DEF n
    <2>2. Rounds(RoundHalfEven(n, M), n, M)
        BY <2>1, Nearest
    <2>3. QED BY <1>2, <2>2 DEF n
<1>3. QED BY <1>1, <1>2

\* Pixel 0 stays where it is.
LEMMA Corner ==
    ASSUME NEW M \in Nat \ {0}, NEW b, Rounds(b, 0, M)
    PROVE  b = 0
<1>a. b \in Int /\ 2 * (b * M) <= M /\ 0 - M <= 2 * (b * M)
    BY DEF Rounds
<1>1. b <= 0
    <2>1. SUFFICES ASSUME 1 <= b PROVE FALSE
        BY <1>a
    <2>2. M * 1 <= M * b
        BY <1>a, <2>1, Times
    <2>3. QED BY <1>a, <2>2
<1>2. 0 <= b
    <2>1. SUFFICES ASSUME b <= 0 - 1 PROVE FALSE
        BY <1>a
    <2>2. M * b <= M * (0 - 1)
        BY <1>a, <2>1, Times
    <2>3. QED BY <1>a, <2>2
<1>3. QED BY <1>a, <1>1, <1>2

\* Along an axis, a target that the model names on the grid comes back as a pixel near it.
LEMMA PointAxis ==
    ASSUME NEW W \in Nat \ {0}, NEW M \in Nat \ {0}, NEW h \in Nat \ {0}, NEW g \in Nat \ {0},
           Rounds(g, h * M, W) \/ Thin(W, M, h, g), g * W = h * M \/ Roomy(W, M, h),
           NEW t \in 0 .. h - 1, NEW d, NEW b,
           d = Within(RoundHalfEven(RoundHalfEven(Grid * t, h) * g, Grid), g),
           b = IF M = W THEN d ELSE RoundHalfEven(d * W, M)
    PROVE  b \in Int /\ Lands(b, t, h, M, W)
<1> DEFINE r == RoundHalfEven(Grid * t, h)
           q == RoundHalfEven(r * g, Grid)
<1>1. r \in 0 .. Grid /\ Rounds(r, Grid * t, h)
    BY GridPoint
<1>2. d = Within(q, g)
    OBVIOUS
<1> HIDE DEF r
<1>3. q \in 0 .. g /\ Rounds(q, r * g, Grid)
    BY <1>1, ImagePixel, Zenon
<1> HIDE DEF q
<1>4. d \in Int
    BY <1>2, <1>3 DEF Within
<1>5. Rounds(b, d * W, M) /\ b \in Int
    <2>1. Rounds(b, d * W, M)
        <3>1. Rounds(IF M = W THEN d ELSE RoundHalfEven(d * W, M), d * W, M)
            BY <1>4, ScreenPixel, Zenon
        <3>2. QED BY <3>1, Zenon
    <2>2. QED BY <2>1 DEF Rounds
<1>6. CASE Thin(W, M, h, g)
    <2>1. d = 0
        BY <1>2, <1>3, <1>6 DEF Within, Thin
    <2>2. d * W = 0
        BY <2>1
    <2>3. b = 0
        BY <1>5, <2>2, Corner
    <2>4. QED BY <1>6, <2>3, ThinError
<1>7. CASE Rounds(g, h * M, W)
    <2>1. Rounds(b, Within(q, g) * W, M)
        BY <1>2, <1>5
    <2>2. Lands(b, t, h, M, W)
        BY <1>1, <1>3, <1>5, <1>7, <2>1, AxisError, Zenon
    <2>3. QED BY <1>5, <2>2
<1>8. QED BY <1>6, <1>7

\* The image that is sent has the shape of the screen, but for the rounding of its height.
LEMMA SentSize ==
    ASSUME NEW relative \in BOOLEAN, NEW view \in Viewport
    PROVE  \E M, k \in Nat \ {0} :
               /\ Sent(relative, view) = [w |-> M, h |-> k] /\ M <= view.w
               /\ \/ Sent(relative, view) = view
                  \/ relative /\ MaxW > 0 /\ view.w > MaxW /\ M = MaxW
               /\ Rounds(k, view.h * M, view.w) \/ Thin(view.w, M, view.h, k)
<1> DEFINE Fits(M, k) ==
               /\ Sent(relative, view) = [w |-> M, h |-> k] /\ M <= view.w
               /\ \/ Sent(relative, view) = view
                  \/ relative /\ MaxW > 0 /\ view.w > MaxW /\ M = MaxW
               /\ Rounds(k, view.h * M, view.w) \/ Thin(view.w, M, view.h, k)
<1>a. SUFFICES \E M, k \in Nat \ {0} : Fits(M, k)
    OBVIOUS
<1>1. view.w \in Nat \ {0} /\ view.h \in Nat \ {0} /\ MaxW \in Int
      /\ view = [w |-> view.w, h |-> view.h]
    BY MaxWAssumption DEF Viewport
<1>2. CASE ~relative \/ MaxW <= 0 \/ view.w <= MaxW
    <2>1. Sent(relative, view) = view
        BY <1>1, <1>2 DEF Sent
    <2>2. \A W, h \in Nat \ {0} : Rounds(h, h * W, W)
        BY DEF Rounds
    <2>3. QED BY <1>1, <2>1, <2>2
<1>3. CASE relative /\ MaxW > 0 /\ view.w > MaxW
    <2> DEFINE W == view.w
               n == view.h * MaxW
               r == RoundHalfEven(n, W)
               g == Max({1, r})
    <2>1. n \in Int /\ W \in Nat \ {0} /\ MaxW \in Nat \ {0} /\ MaxW <= W
        BY <1>1, <1>3
    <2>2. Sent(relative, view) = [w |-> MaxW, h |-> g]
        BY <1>1, <1>3 DEF Sent
    <2> HIDE DEF n, W
    <2>3. r \in Int /\ Rounds(r, n, W)
        BY <2>1, Nearest DEF Rounds
    <2> HIDE DEF r
    <2>4. g = IF 1 <= r THEN r ELSE 1
        BY <2>3, MaxOfTwo
    <2> HIDE DEF g
    <2>5. Rounds(g, n, W) \/ (g = 1 /\ 2 * n <= W)
        <3>1. CASE 1 <= r
            BY <2>3, <2>4, <3>1
        <3>2. CASE ~(1 <= r)
            <4>1. W * r <= W * 0
                BY <2>1, <2>3, <3>2, Times
            <4>2. 2 * (n - r * W) <= W /\ r * W \in Int /\ r * W <= 0
                BY <2>1, <2>3, <4>1 DEF Rounds
            <4>3. 2 * n <= W
                BY <2>1, <4>2
            <4>4. QED BY <2>4, <3>2, <4>3
        <3>3. QED BY <3>1, <3>2
    <2>6. g \in Nat \ {0}
        BY <2>3, <2>4
    <2>7. Rounds(g, view.h * MaxW, view.w) \/ Thin(view.w, MaxW, view.h, g)
        BY <2>5 DEF n, W, Thin
    <2>8. MaxW <= view.w
        BY <2>1 DEF W
    <2>9. relative /\ MaxW > 0 /\ view.w > MaxW
        BY <1>3
    <2>10. Fits(MaxW, g)
        BY <2>2, <2>7, <2>8, <2>9
    <2> HIDE DEF Fits
    <2>11. QED BY <2>1, <2>6, <2>10
<1>4. QED BY <1>1, <1>2, <1>3

\* A view wider than the image is at most so much wider that a pixel of the image has room.
Fitting(view) == MaxW > 0 /\ view.w > MaxW => Roomy(view.w, MaxW, view.h)

\* The tremor and the edges of the screen, on both axes.
LEMMA Actuated ==
    ASSUME NEW view \in Viewport, NEW M \in Nat \ {0}, NEW sent, sent.w = M,
           NEW t \in (0 .. view.w - 1) \X (0 .. view.h - 1),
           NEW b \in Int \X Int, NEW noise \in Int \X Int,
           Lands(b[1], t[1], view.w, M, view.w), Lands(b[2], t[2], view.h, M, view.w)
    PROVE  /\ Inside(Jitter(b, noise, view), view)
           /\ Near(Jitter(b, noise, view), t, noise, sent, view)
<1> DEFINE at == Jitter(b, noise, view)
<1>1. at = << Within(b[1] + noise[1], view.w), Within(b[2] + noise[2], view.h) >>
    BY DEF Jitter, Clamped
<1>2. view.w \in Nat \ {0} /\ view.h \in Nat \ {0}
    BY DEF Viewport
<1>3. /\ t[1] \in 0 .. view.w - 1 /\ t[2] \in 0 .. view.h - 1
      /\ b[1] \in Int /\ b[2] \in Int /\ noise[1] \in Int /\ noise[2] \in Int
    OBVIOUS
<1>4. at[1] = Within(b[1] + noise[1], view.w) /\ at[2] = Within(b[2] + noise[2], view.h)
    BY <1>1
<1> HIDE DEF at
<1>5. at[1] \in 0 .. view.w - 1 /\ Close(at[1], t[1], noise[1], view.w, M, view.w)
    <2>1. Within(b[1] + noise[1], view.w) \in 0 .. view.w - 1
          /\ Close(Within(b[1] + noise[1], view.w), t[1], noise[1], view.w, M, view.w)
        BY <1>2, <1>3, Trembled, Zenon
    <2>2. QED BY <1>4, <2>1, Zenon
<1>6. at[2] \in 0 .. view.h - 1 /\ Close(at[2], t[2], noise[2], view.h, M, view.w)
    <2>1. Within(b[2] + noise[2], view.h) \in 0 .. view.h - 1
          /\ Close(Within(b[2] + noise[2], view.h), t[2], noise[2], view.h, M, view.w)
        BY <1>2, <1>3, Trembled, Zenon
    <2>2. QED BY <1>4, <2>1, Zenon
<1>7. Inside(at, view) /\ Near(at, t, noise, sent, view)
    BY <1>5, <1>6 DEF Inside, Near, NearEnough, Close
<1>8. QED BY <1>7 DEF at

\* What the model names on the grid, and what a script names in pixels.
LEMMA PointLands ==
    ASSUME NEW relative \in BOOLEAN, NEW view \in Viewport, Fitting(view),
           NEW t \in (0 .. view.w - 1) \X (0 .. view.h - 1), NEW noise \in Int \X Int,
           NEW reply, reply = [kind |-> "point", at |-> Ideal(relative, view, t)]
    PROVE  LET sent == Sent(relative, view)
               at == Decide(relative, sent, view, reply, noise)
           IN  Inside(at, view) /\ Near(at, t, noise, sent, view)
<1> DEFINE W == view.w
           h == view.h
           sent == Sent(relative, view)
<1>1. PICK M, k \in Nat \ {0} :
          /\ sent = [w |-> M, h |-> k] /\ M <= W
          /\ \/ sent = view
             \/ relative /\ MaxW > 0 /\ view.w > MaxW /\ M = MaxW
          /\ Rounds(k, h * M, W) \/ Thin(W, M, h, k)
    BY SentSize
<1>2. sent.w = M /\ sent.h = k /\ W \in Nat \ {0} /\ h \in Nat \ {0}
    BY <1>1 DEF Viewport
<1>3. t[1] \in 0 .. W - 1 /\ t[2] \in 0 .. h - 1 /\ t = <<t[1], t[2]>>
    OBVIOUS
<1>4. CASE relative
    <2> DEFINE d1 == Within(RoundHalfEven(RoundHalfEven(Grid * t[1], W) * M, Grid), M)
               d2 == Within(RoundHalfEven(RoundHalfEven(Grid * t[2], h) * k, Grid), k)
               b1 == IF M = W THEN d1 ELSE RoundHalfEven(d1 * W, M)
               b2 == IF M = W THEN d2 ELSE RoundHalfEven(d2 * W, M)
    <2>1. ParseAction(reply, sent) = <<d1, d2>>
        BY <1>2, <1>4 DEF Ideal, ParseAction, Denormalize, Clamped, Grid
    <2>2. ScaleBack(<<d1, d2>>, sent, view) = <<b1, b2>>
        BY <1>2 DEF ScaleBack
    <2>3. Decide(relative, sent, view, reply, noise) = Jitter(<<b1, b2>>, noise, view)
        BY <1>4, <2>1, <2>2, PairsArePoints DEF Decide
    <2>4. b1 \in Int /\ Lands(b1, t[1], W, M, W)
        <3>1. Rounds(M, W * M, W) /\ M * W = W * M
            BY <1>2 DEF Rounds
        <3>2. QED BY <1>2, <1>3, <3>1, PointAxis, Zenon
    <2>5. b2 \in Int /\ Lands(b2, t[2], h, M, W)
        <3>1. k * W = h * M \/ Roomy(W, M, h)
            BY <1>1, <1>2 DEF Fitting
        <3>2. Rounds(k, h * M, W) \/ Thin(W, M, h, k)
            BY <1>1
        <3>3. QED BY <1>2, <1>3, <3>1, <3>2, PointAxis, Zenon
    <2> HIDE DEF b1, b2, d1, d2
    <2> DEFINE b == <<b1, b2>>
    <2>6. b \in Int \X Int /\ b[1] = b1 /\ b[2] = b2
        BY <2>4, <2>5
    <2> HIDE DEF b
    <2>7. Lands(b[1], t[1], view.w, M, view.w) /\ Lands(b[2], t[2], view.h, M, view.w)
        BY <2>4, <2>5, <2>6
    <2>8. Inside(Jitter(b, noise, view), view) /\ Near(Jitter(b, noise, view), t, noise, sent, view)
        BY <1>2, <2>6, <2>7, Actuated
    <2>9. QED BY <2>3, <2>8 DEF b
<1>5. CASE ~relative
    <2>1. sent = view /\ sent.w = view.w
        BY <1>5 DEF Sent
    <2>2. ParseScript(reply, sent) = t /\ t # NoPoint
        BY <1>3, <1>5, PairsArePoints DEF ParseScript, Ideal
    <2>3. Decide(relative, sent, view, reply, noise) = Jitter(t, noise, view)
        BY <1>5, <2>1, <2>2 DEF Decide, ScaleBack
    <2>4. \A M1, h1 \in Nat \ {0} : \A t1 \in 0 .. h1 - 1 : Lands(t1, t1, h1, M1, M1)
        <3> SUFFICES ASSUME NEW M1 \in Nat \ {0}, NEW h1 \in Nat \ {0}, NEW t1 \in 0 .. h1 - 1
                     PROVE  Lands(t1, t1, h1, M1, M1)
            OBVIOUS
        <3>1. h1 * M1 \in Nat /\ M1 * (2000 * (t1 - t1)) = 0
            OBVIOUS
        <3>2. QED BY <3>1 DEF Lands
    <2>5. Lands(t[1], t[1], view.w, view.w, view.w) /\ Lands(t[2], t[2], view.h, view.w, view.w)
        BY <1>2, <1>3, <2>4
    <2>6. t \in Int \X Int
        BY <1>3
    <2>7. QED BY <1>2, <2>1, <2>3, <2>5, <2>6, Actuated
<1>6. QED BY <1>4, <1>5

\* An action without a point of its own goes to the middle.
LEMMA MiddleLands ==
    ASSUME NEW relative \in BOOLEAN, NEW view \in Viewport, NEW noise \in Int \X Int,
           NEW reply, reply.kind \in {"partial", "unreadable"}
    PROVE  LET sent == Sent(relative, view)
               at == Decide(relative, sent, view, reply, noise)
           IN  Inside(at, view) /\ Near(at, Centre(view), noise, sent, view)
<1> DEFINE W == view.w
           h == view.h
           sent == Sent(relative, view)
           t == Centre(view)
<1>1. PICK M, k \in Nat \ {0} :
          /\ sent = [w |-> M, h |-> k] /\ M <= W
          /\ Rounds(k, h * M, W) \/ Thin(W, M, h, k)
    BY SentSize
<1>2. sent.w = M /\ sent.h = k /\ W \in Nat \ {0} /\ h \in Nat \ {0}
    BY <1>1 DEF Viewport
<1>3. /\ t = <<W \div 2, h \div 2>> /\ t[1] = W \div 2 /\ t[2] = h \div 2
      /\ W \div 2 \in 0 .. W - 1 /\ h \div 2 \in 0 .. h - 1
    BY <1>2 DEF Centre
<1> DEFINE d1 == M \div 2
           d2 == k \div 2
           b1 == IF M = W THEN d1 ELSE RoundHalfEven(d1 * W, M)
           b2 == IF M = W THEN d2 ELSE RoundHalfEven(d2 * W, M)
           b == <<b1, b2>>
<1>4. Decide(relative, sent, view, reply, noise) = Jitter(b, noise, view)
    <2>1. reply.kind # "point"
        OBVIOUS
    <2>2. ParseAction(reply, sent) = <<d1, d2>> /\ ParseScript(reply, sent) = <<d1, d2>>
        BY <1>2, <2>1 DEF ParseAction, ParseScript, Centre
    <2>3. ScaleBack(<<d1, d2>>, sent, view) = b
        BY <1>2 DEF ScaleBack
    <2>4. QED BY <2>2, <2>3, PairsArePoints DEF Decide
<1>5. d1 \in Int /\ d2 \in Int
    OBVIOUS
<1>6. Rounds(b1, d1 * W, M) /\ Rounds(b2, d2 * W, M)
    <2> HIDE DEF d1, d2
    <2>1. QED BY <1>2, <1>5, ScreenPixel, Zenon
<1>7. b1 \in Int /\ b2 \in Int
    BY <1>6 DEF Rounds
<1>9. Lands(b1, W \div 2, W, M, W)
    <2>1. Rounds(M, W * M, W)
        BY <1>2 DEF Rounds
    <2> HIDE DEF b1
    <2>2. QED BY <1>1, <1>2, <1>6, <1>7, <2>1, MiddleError, Zenon
<1>10. Lands(b2, h \div 2, h, M, W)
    <2> HIDE DEF b2
    <2>1. QED BY <1>1, <1>2, <1>6, <1>7, MiddleError, Zenon
<1> HIDE DEF b1, b2
<1>11. b \in Int \X Int /\ b[1] = b1 /\ b[2] = b2
    BY <1>7
<1> HIDE DEF b
<1>12. Lands(b[1], t[1], view.w, M, view.w) /\ Lands(b[2], t[2], view.h, M, view.w)
    BY <1>3, <1>9, <1>10, <1>11
<1>13. t \in (0 .. view.w - 1) \X (0 .. view.h - 1)
    BY <1>3
<1> HIDE DEF t, sent
<1>14. Inside(Jitter(b, noise, view), view) /\ Near(Jitter(b, noise, view), t, noise, sent, view)
    BY <1>2, <1>11, <1>12, <1>13, Actuated
<1>15. QED BY <1>4, <1>14 DEF t, sent

\* Whatever point the model names, a pixel of the screen is clicked.
LEMMA AnyLands ==
    ASSUME NEW relative \in BOOLEAN, NEW view \in Viewport, NEW noise \in Int \X Int,
           NEW wild \in Int \X Int, NEW reply, reply = [kind |-> "point", at |-> wild]
    PROVE  Inside(Decide(relative, Sent(relative, view), view, reply, noise), view)
<1> DEFINE sent == Sent(relative, view)
<1>1. PICK M, k \in Nat \ {0} : sent = [w |-> M, h |-> k] /\ M <= view.w
    BY SentSize
<1>2. /\ sent.w \in Nat \ {0} /\ sent.h \in Nat \ {0}
      /\ view.w \in Nat \ {0} /\ view.h \in Nat \ {0}
    BY <1>1 DEF Viewport
<1> HIDE DEF sent
<1>3. \A n \in Int, l \in Nat \ {0} : Within(n, l) \in 0 .. l - 1
    BY DEF Within
<1> DEFINE raw == IF relative THEN ParseAction(reply, sent) ELSE ParseScript(reply, sent)
<1>4. raw \in Int \X Int /\ raw # NoPoint
    <2>1. CASE ~relative
        <3>1. wild = <<wild[1], wild[2]>>
            OBVIOUS
        <3>2. raw = wild
            BY <2>1 DEF ParseScript
        <3> HIDE DEF raw
        <3>3. QED BY <3>1, <3>2, PairsArePoints
    <2>2. CASE relative
        <3>1. raw = Denormalize(wild, sent)
            BY <2>2 DEF ParseAction
        <3>2. wild[1] * sent.w \in Int /\ wild[2] * sent.h \in Int
            BY <1>2
        <3>3. Grid \in Nat \ {0}
            BY DEF Grid
        <3>4. /\ RoundHalfEven(wild[1] * sent.w, Grid) \in Int
              /\ RoundHalfEven(wild[2] * sent.h, Grid) \in Int
            BY <3>2, <3>3, Nearest, Zenon DEF Rounds
        <3>5. raw = << Within(RoundHalfEven(wild[1] * sent.w, Grid), sent.w),
                       Within(RoundHalfEven(wild[2] * sent.h, Grid), sent.h) >>
            BY <3>1 DEF Denormalize, Clamped, Grid
        <3>6. \A n \in Int, l \in Nat \ {0} : Within(n, l) \in Int
            BY DEF Within
        <3>7. /\ Within(RoundHalfEven(wild[1] * sent.w, Grid), sent.w) \in Int
              /\ Within(RoundHalfEven(wild[2] * sent.h, Grid), sent.h) \in Int
            BY <1>2, <3>4, <3>6, Zenon
        <3> HIDE DEF raw
        <3>8. QED BY <3>5, <3>7, PairsArePoints
    <2>3. QED BY <2>1, <2>2
<1> HIDE DEF raw
<1>5. ScaleBack(raw, sent, view) \in Int \X Int
    <2>1. CASE sent.w = view.w
        BY <1>4, <2>1 DEF ScaleBack
    <2>2. CASE sent.w # view.w
        <3>1. raw[1] * view.w \in Int /\ raw[2] * view.w \in Int
            BY <1>2, <1>4
        <3>2. /\ RoundHalfEven(raw[1] * view.w, sent.w) \in Int
              /\ RoundHalfEven(raw[2] * view.w, sent.w) \in Int
            BY <1>2, <3>1, Nearest, Zenon DEF Rounds
        <3>3. QED BY <2>2, <3>2 DEF ScaleBack
    <2>3. QED BY <2>1, <2>2
<1>6. Decide(relative, sent, view, reply, noise) = Jitter(ScaleBack(raw, sent, view), noise, view)
    BY <1>4 DEF Decide, raw
<1>7. \A b \in Int \X Int : Inside(Jitter(b, noise, view), view)
    <2> SUFFICES ASSUME NEW b \in Int \X Int PROVE Inside(Jitter(b, noise, view), view)
        OBVIOUS
    <2>1. b[1] + noise[1] \in Int /\ b[2] + noise[2] \in Int
        OBVIOUS
    <2>2. QED BY <1>2, <1>3, <2>1 DEF Inside, Jitter, Clamped
<1>8. QED BY <1>5, <1>6, <1>7 DEF sent

-----------------------------------------------------------------------------
(* The clicks of a run.                                                    *)

\* A persona looks at a view it is given, and what it was told is about that view.
Aimed(p) ==
    \E view \in Given.views : \E target \in Targets(view) :
        aim[p] = [view |-> view, target |-> target, sent |-> Sent(Relative, view)]

Answered(p) ==
    /\ Aimed(p)
    /\ \E kind \in Given.kinds : \E reply \in Said(p, kind) : \E noise \in Given.noise :
           said[p] = [reply |-> reply, meant |-> Meant(p, kind), noise |-> noise]

AimInv ==
    /\ mix \in DOMAIN Mixes
    /\ DOMAIN aim = Personas /\ DOMAIN said = Personas
    /\ \A p \in Personas : task[p] \in Busy => Aimed(p)
    /\ \A p \in Personas : said[p] = Unsaid \/ Answered(p)

\* Targets are pixels of the view.
LEMMA TargetsInside ==
    ASSUME NEW view \in Viewport, NEW target \in Targets(view)
    PROVE  target \in (0 .. view.w - 1) \X (0 .. view.h - 1)
<1>1. view.w \in Nat \ {0} /\ view.h \in Nat \ {0}
    BY DEF Viewport
<1>2. view.w \div 2 \in 0 .. view.w - 1 /\ view.h \div 2 \in 0 .. view.h - 1
    BY <1>1
<1>3. Centre(view)[1] = view.w \div 2 /\ Centre(view)[2] = view.h \div 2
      /\ Centre(view) = << view.w \div 2, view.h \div 2 >>
    BY DEF Centre
<1>4. \/ target = Centre(view)
      \/ \E x \in 0 .. view.w - 1 : target = <<x, view.h \div 2>>
      \/ \E y \in 0 .. view.h - 1 : target = <<view.w \div 2, y>>
    BY <1>3 DEF Targets
<1>5. QED BY <1>2, <1>3, <1>4

\* Nobody aims at first.
LEMMA AimInit == Init => AimInv
BY DEF Init, AimInv, Busy

\* What a persona looks at and was told stays true of it while both stay.
LEMMA Unmoved ==
    ASSUME mix' = mix, NEW p, aim'[p] = aim[p]
    PROVE  /\ Aimed(p) => Aimed(p)'
           /\ said'[p] = said[p] /\ Answered(p) => Answered(p)'
<1>1. Given' = Given
    BY DEF Given
<1>2. Relative' = Relative /\ \A view : Targets(view)' = Targets(view)
    BY <1>1 DEF Relative, Targets
<1>3. Aimed(p) => Aimed(p)'
    BY <1>1, <1>2 DEF Aimed
<1>4. \A kind : Said(p, kind)' = Said(p, kind) /\ Meant(p, kind)' = Meant(p, kind)
    BY <1>1, <1>2 DEF Said, Meant
<1>5. QED BY <1>1, <1>3, <1>4 DEF Answered

\* Every step keeps what a persona is about to be told to what it sees.
LEMMA AimStep == ClientInv /\ AimInv /\ [Next]_vars => AimInv'
<1> SUFFICES ASSUME ClientInv, AimInv, [Next]_vars PROVE AimInv'
    OBVIOUS
<1> DEFINE Looking == \A p \in Personas : task'[p] \in Busy => task[p] \in Busy
<1>a. task \in [Personas -> {"idle"} \union Busy \union Reasons] /\ DOMAIN task = Personas
    BY DEF ClientInv
<1>b. ASSUME mix' = mix, aim' = aim, said' = said, Looking PROVE AimInv'
    <2>1. ASSUME NEW p \in Personas
          PROVE  (task'[p] \in Busy => Aimed(p)') /\ (said'[p] = Unsaid \/ Answered(p)')
        BY <1>b, <2>1, Unmoved DEF AimInv
    <2>2. QED BY <1>b, <2>1 DEF AimInv
<1>1. CASE Tick
    BY <1>1, <1>b DEF Tick
<1>2. ASSUME NEW p \in Personas, BeginAny(p) PROVE AimInv'
    <2>1. PICK view \in Given.views : \E target \in Targets(view) : Begin(p, view, target)
        BY <1>2 DEF BeginAny
    <2>2. PICK target \in Targets(view) : Begin(p, view, target)
        BY <2>1
    <2>3. /\ mix' = mix /\ said' = [said EXCEPT ![p] = Unsaid]
          /\ aim' = [aim EXCEPT ![p] =
                         [view |-> view, target |-> target, sent |-> Sent(Relative, view)]]
          /\ task' = [task EXCEPT ![p] = IF Relative THEN "acquiring" ELSE "flight"]
        BY <2>2 DEF Begin
    <2>4. Aimed(p)'
        <3>1. Given' = Given
            BY <2>3 DEF Given
        <3>2. Relative' = Relative /\ Targets(view)' = Targets(view)
            BY <3>1 DEF Relative, Targets
        <3>3. aim'[p] = [view |-> view, target |-> target, sent |-> Sent(Relative, view)]
            BY <2>3 DEF AimInv
        <3>4. QED BY <3>1, <3>2, <3>3 DEF Aimed
    <2>5. ASSUME NEW q \in Personas \ {p}
          PROVE  (task'[q] \in Busy => Aimed(q)') /\ (said'[q] = Unsaid \/ Answered(q)')
        <3>1. aim'[q] = aim[q] /\ said'[q] = said[q] /\ task'[q] = task[q]
            BY <2>3, <1>a DEF AimInv
        <3>2. QED BY <2>3, <3>1, Unmoved DEF AimInv
    <2>6. said'[p] = Unsaid
        BY <2>3 DEF AimInv
    <2>7. QED BY <2>3, <2>4, <2>5, <2>6 DEF AimInv
<1>3. ASSUME NEW p \in Personas, TakeToken(p) \/ AwaitToken(p) PROVE AimInv'
    BY <1>3, <1>a, <1>b DEF TakeToken, AwaitToken, Busy
<1>4. ASSUME NEW p \in Personas, Start(p) PROVE AimInv'
    BY <1>4, <1>a, <1>b DEF Start, Busy
<1>5. ASSUME NEW p \in Personas, AnswerAny(p) PROVE AimInv'
    <2>1. PICK kind \in Given.kinds :
              \E reply \in Said(p, kind) : \E noise \in Given.noise : Answer(p, kind, reply, noise)
        BY <1>5 DEF AnswerAny
    <2>2. PICK reply \in Said(p, kind), noise \in Given.noise : Answer(p, kind, reply, noise)
        BY <2>1
    <2>3. /\ mix' = mix /\ aim' = aim /\ task' = [task EXCEPT ![p] = "idle"]
          /\ said' = [said EXCEPT ![p] =
                          [reply |-> reply, meant |-> Meant(p, kind), noise |-> noise]]
        BY <2>2 DEF Answer
    <2>4. Answered(p)'
        <3>1. Given' = Given
            BY <2>3 DEF Given
        <3>2. Relative' = Relative
            BY <3>1 DEF Relative
        <3>3. Said(p, kind)' = Said(p, kind) /\ Meant(p, kind)' = Meant(p, kind)
            BY <2>3, <3>1, <3>2 DEF Said, Meant
        <3>4. Aimed(p)
            BY <1>5 DEF AnswerAny, AimInv, Busy
        <3>5. Aimed(p)'
            BY <2>3, <3>4, Unmoved
        <3>6. said'[p] = [reply |-> reply, meant |-> Meant(p, kind)', noise |-> noise]
            BY <2>3, <3>3 DEF AimInv
        <3>7. QED BY <3>1, <3>3, <3>5, <3>6 DEF Answered
    <2>5. ASSUME NEW q \in Personas \ {p}
          PROVE  (task'[q] \in Busy => Aimed(q)') /\ (said'[q] = Unsaid \/ Answered(q)')
        <3>1. aim'[q] = aim[q] /\ said'[q] = said[q] /\ task'[q] = task[q]
            BY <2>3, <1>a DEF AimInv
        <3>2. QED BY <2>3, <3>1, Unmoved DEF AimInv
    <2>6. task'[p] \notin Busy
        BY <2>3, <1>a DEF Busy
    <2>7. QED BY <2>3, <2>4, <2>5, <2>6 DEF AimInv
<1>r. ASSUME NEW p \in Personas, ResendAny(p) PROVE AimInv'
    BY <1>r, <1>b DEF ResendAny, Resend
<1>6. ASSUME NEW p \in Personas, FailAny(p) PROVE AimInv'
    <2>1. /\ task[p] = "flight" /\ mix' = mix /\ aim' = aim /\ said' = said
          /\ \E t : task' = [task EXCEPT ![p] = t]
        BY <1>6 DEF FailAny, Fail, Retry, Raise
    <2>2. Looking
        BY <1>a, <2>1 DEF Busy
    <2>3. QED BY <1>b, <2>1, <2>2
<1>7. ASSUME NEW p \in Personas, Cancel(p) PROVE AimInv'
    <2>1. /\ task' = [task EXCEPT ![p] = "cancelled"]
          /\ mix' = mix /\ aim' = aim /\ said' = said
        BY <1>7 DEF Cancel
    <2>2. QED BY <1>a, <1>b, <2>1 DEF Busy
<1>8. CASE UNCHANGED vars
    BY <1>8, <1>b DEF vars, call
<1>9. QED BY <1>1, <1>2, <1>3, <1>4, <1>5, <1>r, <1>6, <1>7, <1>8 DEF Next, Acquire, Goes

\* Of every view that a behaviour gives its personas.
EveryViewFits == \A name \in DOMAIN Mixes : \A view \in Mixes[name].views : Fitting(view)

\* What is decided under the invariant lands where it should.
LEMMA AimedClick ==
    ASSUME AimInv, EveryViewFits, NEW p \in Personas, Action(p) # NoPoint
    PROVE  /\ Inside(Action(p), aim[p].view)
           /\ said[p].meant # NoPoint =>
                  Near(Action(p), said[p].meant, said[p].noise, aim[p].sent, aim[p].view)
<1>1. ASSUME said[p].reply.kind = "still" PROVE FALSE
    BY <1>1 DEF Action, Decide, ParseAction, ParseScript
<1>2. said[p] # Unsaid
    BY <1>1 DEF Unsaid
<1>3. Answered(p) /\ Given = Mixes[mix] /\ mix \in DOMAIN Mixes
    BY <1>2 DEF AimInv, Given
<1>a. PICK view \in Given.views : \E target \in Targets(view) :
          aim[p] = [view |-> view, target |-> target, sent |-> Sent(Relative, view)]
    BY <1>3 DEF Answered, Aimed
<1>4. PICK target \in Targets(view) :
          aim[p] = [view |-> view, target |-> target, sent |-> Sent(Relative, view)]
    BY <1>a
<1>b. PICK kind \in Given.kinds : \E reply \in Said(p, kind) : \E noise \in Given.noise :
          said[p] = [reply |-> reply, meant |-> Meant(p, kind), noise |-> noise]
    BY <1>3 DEF Answered
<1>5. PICK reply \in Said(p, kind), noise \in Given.noise :
          said[p] = [reply |-> reply, meant |-> Meant(p, kind), noise |-> noise]
    BY <1>b
<1>6. /\ view \in Viewport /\ noise \in Int \X Int /\ kind \in Replies \union {"wild"}
      /\ \A at \in Given.wild : at \in Int \X Int
      /\ Fitting(view)
    BY <1>3, MixesAssumption DEF EveryViewFits
<1>7. target \in (0 .. view.w - 1) \X (0 .. view.h - 1)
    BY <1>6, TargetsInside
<1>8. Relative \in BOOLEAN
    BY DEF Relative
<1>9. /\ aim[p].view = view /\ aim[p].target = target /\ aim[p].sent = Sent(Relative, view)
      /\ said[p].reply = reply /\ said[p].meant = Meant(p, kind) /\ said[p].noise = noise
      /\ Action(p) = Decide(Relative, Sent(Relative, view), view, reply, noise)
    BY <1>4, <1>5 DEF Action
<1>10. CASE kind = "wild"
    <2>1. PICK at \in Given.wild : reply = [kind |-> "point", at |-> at]
        BY <1>10 DEF Said
    <2>2. Inside(Action(p), view)
        BY <1>6, <1>8, <1>9, <2>1, AnyLands
    <2>3. said[p].meant = NoPoint
        BY <1>9, <1>10 DEF Meant
    <2>4. QED BY <1>9, <2>2, <2>3
<1>11. CASE kind = "point"
    <2>1. reply = [kind |-> "point", at |-> Ideal(Relative, view, target)]
        BY <1>9, <1>11 DEF Said
    <2>2. said[p].meant = target
        BY <1>9, <1>11 DEF Meant
    <2>3. Inside(Action(p), view) /\ Near(Action(p), target, noise, Sent(Relative, view), view)
        BY <1>6, <1>7, <1>8, <1>9, <2>1, PointLands
    <2>4. QED BY <1>9, <2>2, <2>3
<1>12. CASE kind \in {"partial", "unreadable"}
    <2>1. reply.kind \in {"partial", "unreadable"}
        BY <1>12 DEF Said
    <2>2. said[p].meant = Centre(view)
        BY <1>9, <1>12 DEF Meant
    <2>3. Inside(Action(p), view) /\ Near(Action(p), Centre(view), noise, Sent(Relative, view), view)
        BY <1>6, <1>8, <1>9, <2>1, MiddleLands
    <2>4. QED BY <1>9, <2>2, <2>3
<1>13. CASE kind = "still"
    <2>1. reply.kind = "still"
        BY <1>13 DEF Said
    <2>2. QED BY <1>1, <1>9, <2>1
<1>14. QED BY <1>6, <1>10, <1>11, <1>12, <1>13 DEF Replies

(***************************************************************************)
(* A click is a pixel of the screen and near where the persona meant to go, *)
(* for every size of screen and of image for which a pixel of the image     *)
(* leaves room: any screen up to twice as wide as the image does.           *)
(***************************************************************************)
THEOREM ClicksNear == ASSUME EveryViewFits PROVE Spec => []ClickNearTarget
<1>1. AimInv => ClickNearTarget
    BY AimedClick DEF ClickNearTarget
<1>2. Spec => []ClientInv
    BY ClientInvariance
<1>3. Spec => []AimInv
    BY <1>2, AimInit, AimStep, PTL DEF Spec
<1>4. QED BY <1>1, <1>3, PTL

\* The screens that the image is at least half as wide as fit, whatever their height.
LEMMA TwiceAsWideFits ==
    ASSUME NEW view \in Viewport, view.w <= 2 * MaxW
    PROVE  Fitting(view)
<1>1. view.w \in Nat /\ view.h \in Nat /\ MaxW \in Int
    BY MaxWAssumption DEF Viewport
<1>2. CASE MaxW > 0
    <2>1. MaxW * 2000 <= MaxW * (2000 + view.h)
        BY <1>1, <1>2, Times
    <2>2. MaxW * (2000 + view.h) \in Int /\ 1000 * view.w <= MaxW * 2000
        BY <1>1
    <2>3. QED BY <1>1, <2>1, <2>2 DEF Fitting, Roomy
<1>3. QED BY <1>2 DEF Fitting
=============================================================================
