---------------------------- MODULE Tiers_proofs ----------------------------
(***************************************************************************)
(* The tier and the private repositories of a project go together, for any *)
(* number of subscriptions, handlers and reconcilers; and how far requests *)
(* that cross each other exceed the limits of a tier, for any number of    *)
(* users, requests and jobs and any limits.                                *)
(***************************************************************************)
EXTENDS Billing, Entitlements, Lemmas

-----------------------------------------------------------------------------
(* Billing.                                                                *)

\* What is asked for has the two columns together.
LEMMA RowPairs ==
    ASSUME NEW s \in Subs \union {NoSub}
    PROVE  /\ Paid(s) \in Project /\ Paid(s).private /\ Paid(s).tier = "team"
           /\ Unpaid(s) \in Project /\ ~Unpaid(s).private /\ Unpaid(s).tier # "team"
BY DEF Paid, Unpaid, Project

\* Whatever an event or a status asks for has the two columns together.
LEMMA VerdictPairs ==
    ASSUME NEW e \in Event, NEW want \in Verdict(e)
    PROVE  want \in Project /\ (want.private <=> want.tier = "team")
<1>1. e.sub \in Subs
    BY DEF Event
<1>2. want = Paid(e.sub) \/ want = Unpaid(e.sub)
    BY DEF Verdict
<1>3. QED BY <1>1, <1>2, RowPairs

\* What the reconciler wants of a row has the two columns together.
LEMMA DesiredPairs ==
    ASSUME NEW st, NEW want \in Desired(st)
    PROVE  want \in Project /\ (want.private <=> want.tier = "team")
<1>1. want = Paid(NoSub) \/ want = Unpaid(NoSub)
    BY DEF Desired
<1>2. QED BY <1>1, RowPairs

\* A project and a session to begin with are of their types.
LEMMA IdleIsSession == Idle \in Session /\ Fresh \in Project
BY DEF At, Idle, Session, Fresh, Unpaid, Project

\* The invariant holds at first.
LEMMA BillingInitInv == BillingInit => BillingInv
<1> SUFFICES ASSUME BillingInit PROVE BillingInv
    OBVIOUS
<1>1. BillingTypeOK
    BY IdleIsSession DEF BillingInit, BillingTypeOK, Status, Event
<1>2. TeamHasPrivate
    BY DEF BillingInit, TeamHasPrivate, Fresh, Unpaid
<1>3. PairsTogether
    BY DEF BillingInit, PairsTogether, Idle, At, Fresh, Unpaid
<1>4. QED BY <1>1, <1>2, <1>3 DEF BillingInv

\* Setting one session to a session whose rows are pairs keeps the invariant.
LEMMA SetSession ==
    ASSUME BillingInv, NEW x \in Procs, NEW new \in Session,
           new.want.private <=> new.want.tier = "team",
           new.loaded.private <=> new.loaded.tier = "team",
           ses' = [ses EXCEPT ![x] = new], UNCHANGED project
    PROVE  ses' \in [Procs -> Session] /\ TeamHasPrivate' /\ PairsTogether'
<1>1. ses' \in [Procs -> Session]
    BY DEF BillingInv, BillingTypeOK
<1>2. TeamHasPrivate'
    BY DEF BillingInv, TeamHasPrivate
<1>3. PairsTogether'
    <2> SUFFICES ASSUME NEW y \in Procs PROVE
            /\ ses'[y].want.private <=> ses'[y].want.tier = "team"
            /\ ses'[y].loaded.private <=> ses'[y].loaded.tier = "team"
        BY DEF PairsTogether
    <2>1. CASE y = x
        BY <2>1 DEF BillingInv, BillingTypeOK
    <2>2. CASE y # x
        BY <2>2 DEF BillingInv, BillingTypeOK, PairsTogether
    <2>3. QED BY <2>1, <2>2
<1>4. QED BY <1>1, <1>2, <1>3

\* The commit of a session: what it wants and what it loaded are pairs, and so both
\* columns have changed or none has.
LEMMA CommitPair ==
    ASSUME BillingInv, NEW x \in Procs
    PROVE  LET new == [tier    |-> Column(x, "tier"),
                       private |-> Column(x, "private"),
                       sub     |-> IF ses[x].want.sub = NoSub THEN project.sub
                                   ELSE Column(x, "sub")]
           IN  new \in Project /\ (new.private <=> new.tier = "team")
<1>1. /\ project \in Project
      /\ ses[x].want \in Project /\ ses[x].loaded \in Project
    BY DEF BillingInv, BillingTypeOK, Session
<1>2. /\ project.private <=> project.tier = "team"
      /\ ses[x].want.private <=> ses[x].want.tier = "team"
      /\ ses[x].loaded.private <=> ses[x].loaded.tier = "team"
    BY DEF BillingInv, TeamHasPrivate, PairsTogether
<1> DEFINE want == ses[x].want
           loaded == ses[x].loaded
<1>3. /\ want.tier \in {"free", "team"} /\ loaded.tier \in {"free", "team"}
      /\ want.private \in BOOLEAN /\ loaded.private \in BOOLEAN
      /\ project.tier \in {"free", "team"} /\ project.private \in BOOLEAN
      /\ want.sub \in Subs \union {NoSub} /\ project.sub \in Subs \union {NoSub}
    BY <1>1 DEF Project
<1>4. Column(x, "tier") = IF want.tier # loaded.tier THEN want.tier ELSE project.tier
    BY DEF Column
<1>5. Column(x, "private")
          = IF want.private # loaded.private THEN want.private ELSE project.private
    BY DEF Column
<1>6. Column(x, "sub") \in Subs \union {NoSub}
    BY <1>3 DEF Column
<1>7. want.tier # loaded.tier <=> want.private # loaded.private
    BY <1>2, <1>3
<1>8. CASE want.tier # loaded.tier
    BY <1>8, <1>2, <1>3, <1>4, <1>5, <1>6, <1>7 DEF Project
<1>9. CASE want.tier = loaded.tier
    BY <1>9, <1>2, <1>3, <1>4, <1>5, <1>6, <1>7 DEF Project
<1>10. QED BY <1>8, <1>9

\* Each step keeps the invariant.
LEMMA BillingStepInv == BillingInv /\ [BillingNext]_billing => BillingInv'
<1> SUFFICES ASSUME BillingInv, [BillingNext]_billing PROVE BillingInv'
    OBVIOUS
<1> USE DEF BillingInv
<1>a. /\ status \in [Subs -> Status] /\ events \subseteq Event /\ project \in Project
      /\ ses \in [Procs -> Session]
    BY DEF BillingTypeOK
<1>b. \A x \in Procs : ses[x].want \in Project /\ ses[x].loaded \in Project
    BY <1>a DEF Session
<1>c. \A x \in Procs :
        /\ ses[x].want.private <=> ses[x].want.tier = "team"
        /\ ses[x].loaded.private <=> ses[x].loaded.tier = "team"
    BY DEF PairsTogether
<1>1. ASSUME NEW s \in Subs, Checkout(s) PROVE BillingInv'
    <2>1. status' \in [Subs -> Status] /\ events' \subseteq Event
        BY <1>1, <1>a DEF Checkout, Status, Event
    <2>2. QED BY <2>1, <1>1 DEF Checkout, BillingTypeOK, TeamHasPrivate, PairsTogether
<1>2. ASSUME NEW s \in Subs, NEW new \in Status, Change(s, new) PROVE BillingInv'
    <2>1. status' \in [Subs -> Status]
        BY <1>2, <1>a DEF Change
    <2>2. [type |-> IF new = "canceled" THEN "deleted" ELSE "updated",
           sub |-> s, status |-> new] \in Event
        BY DEF Event
    <2>3. events' \subseteq Event
        BY <2>2, <1>2, <1>a DEF Change
    <2>4. QED BY <2>1, <2>3, <1>2 DEF Change, BillingTypeOK, TeamHasPrivate, PairsTogether
<1>3. ASSUME NEW e \in events, Lose(e) PROVE BillingInv'
    BY <1>3 DEF Lose, BillingTypeOK, TeamHasPrivate, PairsTogether
<1>4. ASSUME NEW h \in Handlers, NEW e \in events, NEW again \in BOOLEAN, Webhook(h, e, again)
      PROVE  BillingInv'
    <2>1. h \in Procs /\ e \in Event /\ events' \subseteq Event /\ UNCHANGED <<status, project>>
        BY <1>4, <1>a DEF Procs, Webhook
    <2>2. CASE UNCHANGED ses
        BY <2>1, <2>2 DEF BillingTypeOK, TeamHasPrivate, PairsTogether
    <2>3. ASSUME NEW want \in Verdict(e),
                 ses' = [ses EXCEPT ![h] = At("set", want, Fresh)]
          PROVE  BillingInv'
        <3> DEFINE new == At("set", want, Fresh)
        <3>1. want \in Project /\ (want.private <=> want.tier = "team")
            BY <2>1, VerdictPairs
        <3>2. /\ new \in Session
              /\ new.want = want /\ new.loaded = Fresh
            BY <3>1, IdleIsSession DEF At, Session
        <3>3. new.loaded.private <=> new.loaded.tier = "team"
            BY <3>2 DEF Fresh, Unpaid
        <3>4. ses' \in [Procs -> Session] /\ TeamHasPrivate' /\ PairsTogether'
            BY <3>1, <3>2, <3>3, <2>1, <2>3, SetSession
        <3>5. QED BY <3>4, <2>1 DEF BillingTypeOK
    <2>4. QED BY <1>4, <2>2, <2>3 DEF Webhook
<1>5. ASSUME NEW x \in Procs, Load(x) PROVE BillingInv'
    <2> DEFINE new == At("loaded", ses[x].want, project)
    <2>1. /\ new \in Session /\ new.want = ses[x].want /\ new.loaded = project
        BY <1>a, <1>b DEF At, Session
    <2>2. ses' = [ses EXCEPT ![x] = new] /\ UNCHANGED <<status, events, project>>
        BY <1>5, <1>a DEF Load, Session
    <2>3. new.loaded.private <=> new.loaded.tier = "team"
        BY <2>1 DEF TeamHasPrivate
    <2>4. new.want.private <=> new.want.tier = "team"
        BY <2>1, <1>c
    <2>5. ses' \in [Procs -> Session] /\ TeamHasPrivate' /\ PairsTogether'
        BY <2>1, <2>2, <2>3, <2>4, SetSession
    <2>6. QED BY <2>5, <2>2 DEF BillingTypeOK
<1>6. ASSUME NEW x \in Procs, Commit(x) PROVE BillingInv'
    <2>1. project' \in Project /\ (project'.private <=> project'.tier = "team")
        BY <1>6, CommitPair DEF Commit
    <2>2. ses' \in [Procs -> Session]
        BY <1>6, <1>a, IdleIsSession DEF Commit
    <2>3. PairsTogether'
        <3> SUFFICES ASSUME NEW y \in Procs PROVE
                /\ ses'[y].want.private <=> ses'[y].want.tier = "team"
                /\ ses'[y].loaded.private <=> ses'[y].loaded.tier = "team"
            BY DEF PairsTogether
        <3>1. CASE y = x
            BY <3>1, <1>6, <1>a DEF Commit, Idle, At, Fresh, Unpaid
        <3>2. CASE y # x
            BY <3>2, <1>6, <1>a, <1>c DEF Commit
        <3>3. QED BY <3>1, <3>2
    <2>4. UNCHANGED <<status, events>>
        BY <1>6 DEF Commit
    <2>5. QED BY <2>1, <2>2, <2>3, <2>4 DEF BillingTypeOK, TeamHasPrivate
<1>7. ASSUME NEW x \in Procs, ses' = [ses EXCEPT ![x] = Idle],
             UNCHANGED <<status, events, project>>
      PROVE  BillingInv'
    <2>1. /\ Idle.want.private <=> Idle.want.tier = "team"
          /\ Idle.loaded.private <=> Idle.loaded.tier = "team"
        BY DEF Idle, At, Fresh, Unpaid
    <2>2. ses' \in [Procs -> Session] /\ TeamHasPrivate' /\ PairsTogether'
        BY <1>7, <2>1, IdleIsSession, SetSession
    <2>3. QED BY <2>2, <1>7 DEF BillingTypeOK
<1>8. ASSUME NEW r \in Reconcilers, Read(r) PROVE BillingInv'
    <2> DEFINE new == At("read", Fresh, project)
    <2>1. new \in Session /\ new.want = Fresh /\ new.loaded = project
        BY <1>a, IdleIsSession DEF At, Session
    <2>2. /\ new.want.private <=> new.want.tier = "team"
          /\ new.loaded.private <=> new.loaded.tier = "team"
        BY <2>1 DEF Fresh, Unpaid, TeamHasPrivate
    <2>3. /\ r \in Procs /\ ses' = [ses EXCEPT ![r] = new]
          /\ UNCHANGED <<status, events, project>>
        BY <1>8 DEF Read, Procs
    <2>4. ses' \in [Procs -> Session] /\ TeamHasPrivate' /\ PairsTogether'
        BY <2>1, <2>2, <2>3, SetSession
    <2>5. QED BY <2>4, <2>3 DEF BillingTypeOK
<1>9. ASSUME NEW r \in Reconcilers, Ask(r) PROVE BillingInv'
    <2>1. r \in Procs /\ UNCHANGED <<status, events, project>>
        BY <1>9 DEF Ask, Procs
    <2>2. ASSUME NEW want \in Desired(status[ses[r].loaded.sub]),
                 ses' = [ses EXCEPT ![r] = At("set", want, Fresh)]
          PROVE  BillingInv'
        <3> DEFINE new == At("set", want, Fresh)
        <3>1. want \in Project /\ (want.private <=> want.tier = "team")
            BY DesiredPairs
        <3>2. new \in Session /\ new.want = want /\ new.loaded = Fresh
            BY <3>1, IdleIsSession DEF At, Session
        <3>3. new.loaded.private <=> new.loaded.tier = "team"
            BY <3>2 DEF Fresh, Unpaid
        <3>4. ses' \in [Procs -> Session] /\ TeamHasPrivate' /\ PairsTogether'
            BY <3>1, <3>2, <3>3, <2>1, <2>2, SetSession
        <3>5. QED BY <3>4, <2>1 DEF BillingTypeOK
    <2>3. CASE ses' = [ses EXCEPT ![r] = Idle]
        BY <2>1, <2>3, <1>7
    <2>4. QED BY <1>9, <2>2, <2>3 DEF Ask
<1>10. ASSUME NEW x \in Procs, Abort(x) PROVE BillingInv'
    BY <1>10, <1>7 DEF Abort
<1>11. CASE UNCHANGED billing
    BY <1>11 DEF billing, BillingTypeOK, TeamHasPrivate, PairsTogether
<1>12. QED
    BY <1>1, <1>2, <1>3, <1>4, <1>5, <1>6, <1>8, <1>9, <1>10, <1>11
       DEF BillingNext, Stripe, BillingStep, BillingFault, Update

\* The rows at hand and the row in the database are well typed, and pairs.
THEOREM BillingInvariance == BillingSpec => []BillingInv
BY BillingInitInv, BillingStepInv, PTL DEF BillingSpec

\* A project has private repositories exactly when it has the paid tier, in every state
\* of any number of webhook handlers and reconcilers that load the row, cross each other
\* and write only the columns that have changed.
THEOREM PaidTogether == BillingSpec => []TeamHasPrivate
<1>1. BillingInv => TeamHasPrivate
    BY DEF BillingInv
<1>2. QED BY <1>1, BillingInvariance, PTL

-----------------------------------------------------------------------------
(* Entitlements.                                                           *)

EntitlementsInv == EntitlementsTypeOK /\ SeatOverrunBounded /\ QuotaOverrunBounded

USE DEF Tiers

\* The open requests of a kind are finitely many.
LEMMA OpenFinite ==
    ASSUME NEW kind
    PROVE  /\ IsFiniteSet(Open(kind)) /\ Cardinality(Open(kind)) \in Nat
           /\ Open(kind) \subseteq Requests
<1>1. Open(kind) \subseteq Requests
    BY DEF Open
<1>2. IsFiniteSet(Open(kind))
    BY <1>1, EntitlementsAssumption, FS_Subset
<1>3. QED BY <1>1, <1>2, FS_CardinalityType

\* The members can be counted.
LEMMA MembersFinite ==
    ASSUME EntitlementsTypeOK
    PROVE  IsFiniteSet(members) /\ Cardinality(members) \in Nat
BY EntitlementsAssumption, FS_Subset, FS_CardinalityType DEF EntitlementsTypeOK

\* The numbers that the bounds speak of.
LEMMA Numbers ==
    ASSUME EntitlementsTypeOK
    PROVE  /\ Cardinality(Requests) \in Nat \ {0}
           /\ SeatLimit["team"] \in Nat \ {0} /\ RunLimit["team"] \in Nat
           /\ runs \in Nat /\ retried \in Nat /\ retried <= runs /\ waiting \in Nat
           /\ peak \in Nat
<1>1. Cardinality(Requests) \in Nat \ {0}
    BY EntitlementsAssumption, FS_CardinalityType, FS_EmptySet
<1>2. QED BY <1>1, EntitlementsAssumption DEF EntitlementsTypeOK

\* A request that has not passed its check is not open: there is room for it.
LEMMA Room ==
    ASSUME NEW r \in Requests, NEW kind, r \notin Open(kind)
    PROVE  /\ Cardinality(Open(kind)) <= Cardinality(Requests) - 1
           /\ Cardinality(Open(kind) \union {r}) = Cardinality(Open(kind)) + 1
<1>1. Open(kind) \subseteq Requests \ {r}
    BY OpenFinite
<1>2. /\ IsFiniteSet(Requests \ {r})
      /\ Cardinality(Requests \ {r}) = Cardinality(Requests) - 1
    BY EntitlementsAssumption, FS_RemoveElement
<1>3. Cardinality(Open(kind)) <= Cardinality(Requests \ {r})
    BY <1>1, <1>2, FS_Subset
<1>4. Cardinality(Open(kind) \union {r}) = Cardinality(Open(kind)) + 1
    BY OpenFinite, FS_AddElement
<1>5. QED BY <1>2, <1>3, <1>4

\* What becomes of the open requests when one of them changes.
LEMMA OpenAfter ==
    ASSUME EntitlementsTypeOK, NEW r \in Requests, NEW new \in Request, NEW kind,
           req' = [req EXCEPT ![r] = new]
    PROVE  Open(kind)' = IF new.pc = "checked" /\ new.kind = kind THEN Open(kind) \union {r}
                         ELSE Open(kind) \ {r}
BY DEF EntitlementsTypeOK, Open

\* A request that changes is still one.
LEMMA ReqTyped ==
    ASSUME EntitlementsTypeOK, NEW r \in Requests, NEW new \in Request,
           req' = [req EXCEPT ![r] = new]
    PROVE  req' \in [Requests -> Request]
BY DEF EntitlementsTypeOK

\* What a request turns into is a request.
LEMMA AskedTyped ==
    ASSUME NEW pc \in {"none", "allowed", "checked"}, NEW kind \in {"seat", "run"},
           NEW tier \in Tiers, NEW user \in Users
    PROVE  /\ Asked(pc, kind, tier, user) \in Request
           /\ Asked(pc, kind, tier, user).pc = pc
           /\ Asked(pc, kind, tier, user).kind = kind
BY DEF Asked, Request

\* So is none.
LEMMA NoRequestTyped == NoRequest \in Request /\ NoRequest.pc = "none"
BY EntitlementsAssumption, AskedTyped DEF NoRequest

\* The invariant holds at first.
LEMMA EntitlementsInitInv == EntitlementsInit => EntitlementsInv
<1> SUFFICES ASSUME EntitlementsInit PROVE EntitlementsInv
    OBVIOUS
<1>1. EntitlementsTypeOK
    <2>1. req \in [Requests -> Request] /\ members \subseteq Users /\ Owner \in members
        BY EntitlementsAssumption, NoRequestTyped DEF EntitlementsInit
    <2>2. runs = 0 /\ retried = 0 /\ begun = FALSE /\ waiting = 0 /\ peak = 0
        BY DEF EntitlementsInit
    <2>3. retried \in 0 .. runs
        BY <2>2
    <2>4. QED BY <2>1, <2>2, <2>3 DEF EntitlementsTypeOK
<1>2. Open("seat") = {} /\ Open("run") = {}
    BY NoRequestTyped DEF EntitlementsInit, Open
<1>3. Cardinality(Open("seat")) = 0 /\ Cardinality(Open("run")) = 0
    BY <1>2, FS_EmptySet
<1>4. Cardinality(members) = 1
    BY FS_Singleton DEF EntitlementsInit
<1>5. SeatOverrunBounded
    BY <1>1, <1>3, <1>4, Numbers DEF SeatOverrunBounded
<1>6. QuotaOverrunBounded
    BY <1>1, <1>3, Numbers DEF QuotaOverrunBounded, EntitlementsInit
<1>7. QED BY <1>1, <1>5, <1>6 DEF EntitlementsInv

\* A step that opens no request and leaves the counts alone.
LEMMA Closing ==
    ASSUME EntitlementsInv, NEW r \in Requests, NEW new \in Request, new.pc # "checked",
           req' = [req EXCEPT ![r] = new],
           UNCHANGED <<members, runs, retried, begun, waiting, peak>>
    PROVE  EntitlementsInv'
<1> USE DEF EntitlementsInv
<1>1. EntitlementsTypeOK'
    BY ReqTyped DEF EntitlementsTypeOK
<1>2. Open("seat")' = Open("seat") \ {r} /\ Open("run")' = Open("run") \ {r}
    BY OpenAfter
<1>3. /\ Cardinality(Open("seat")') <= Cardinality(Open("seat"))
      /\ Cardinality(Open("run")') <= Cardinality(Open("run"))
      /\ Cardinality(Open("seat")') \in Nat /\ Cardinality(Open("run")') \in Nat
    <2>1. /\ Open("seat")' \subseteq Open("seat") /\ Open("run")' \subseteq Open("run")
        BY <1>2
    <2>2. QED BY <2>1, OpenFinite, FS_Subset, FS_CardinalityType
<1>4. Cardinality(Open("seat")) \in Nat /\ Cardinality(Open("run")) \in Nat
    BY OpenFinite
<1>5. Cardinality(members) \in Nat
    BY MembersFinite
<1>6. SeatOverrunBounded'
    BY <1>3, <1>4, <1>5, Numbers DEF SeatOverrunBounded
<1>7. QuotaOverrunBounded'
    BY <1>3, <1>4, Numbers DEF QuotaOverrunBounded
<1>8. QED BY <1>1, <1>6, <1>7

\* Passing the check of the seats.
LEMMA SeatsCounted ==
    ASSUME EntitlementsInv, NEW r \in Requests, CountSeats(r) PROVE EntitlementsInv'
<1> USE DEF EntitlementsInv
<1> DEFINE new == Asked("checked", "seat", req[r].tier, req[r].user)
<1>a. req[r] \in Request /\ req[r].tier \in Tiers /\ req[r].user \in Users
    BY DEF EntitlementsTypeOK, Request
<1>b. new \in Request /\ new.pc = "checked" /\ new.kind = "seat"
    BY <1>a, AskedTyped
<1>1. CASE Within(SeatLimit[req[r].tier], Cardinality(members) + 1)
    <2>1. req' = [req EXCEPT ![r] = new]
        BY <1>1 DEF CountSeats
    <2>2. UNCHANGED <<members, runs, retried, begun, waiting, peak>>
        BY DEF CountSeats
    <2>3. EntitlementsTypeOK'
        BY <1>b, <2>1, <2>2, ReqTyped DEF EntitlementsTypeOK
    <2>4. r \notin Open("seat") /\ r \notin Open("run")
        BY DEF CountSeats, Open
    <2>5. Open("seat")' = Open("seat") \union {r} /\ Open("run")' = Open("run")
        <3>1. Open("seat")' = Open("seat") \union {r}
            BY <1>b, <2>1, <2>4, OpenAfter
        <3>2. Open("run")' = Open("run") \ {r}
            BY <1>b, <2>1, <2>4, OpenAfter
        <3>3. QED BY <3>1, <3>2, <2>4
    <2>6. Cardinality(Open("seat")') = Cardinality(Open("seat")) + 1
        BY <2>4, <2>5, Room
    <2>7. Cardinality(Open("seat")) <= Cardinality(Requests) - 1
        BY <2>4, Room
    <2>8. /\ SeatLimit[req[r].tier] \in Nat
          /\ SeatLimit[req[r].tier] <= SeatLimit["team"]
        BY <1>a, EntitlementsAssumption
    <2>9. Cardinality(members) + 1 <= SeatLimit["team"]
        BY <1>1, <2>8, MembersFinite, Numbers DEF Within
    <2>10. Cardinality(Open("seat")) \in Nat /\ Cardinality(members) \in Nat
        BY OpenFinite, MembersFinite
    <2>11. SeatOverrunBounded'
        BY <2>2, <2>6, <2>7, <2>9, <2>10, Numbers DEF SeatOverrunBounded
    <2>12. QuotaOverrunBounded'
        BY <2>2, <2>5 DEF QuotaOverrunBounded
    <2>13. QED BY <2>3, <2>11, <2>12
<1>2. CASE ~Within(SeatLimit[req[r].tier], Cardinality(members) + 1)
    <2>1. req' = [req EXCEPT ![r] = NoRequest]
        BY <1>2 DEF CountSeats
    <2>2. UNCHANGED <<members, runs, retried, begun, waiting, peak>>
        BY DEF CountSeats
    <2>3. QED BY <2>1, <2>2, NoRequestTyped, Closing
<1>3. QED BY <1>1, <1>2

\* Passing the check of the runs.
LEMMA RunsCounted ==
    ASSUME EntitlementsInv, NEW r \in Requests, CountRuns(r) PROVE EntitlementsInv'
<1> USE DEF EntitlementsInv
<1> DEFINE new == Asked("checked", "run", req[r].tier, req[r].user)
<1>a. req[r] \in Request /\ req[r].tier \in Tiers /\ req[r].user \in Users
    BY DEF EntitlementsTypeOK, Request
<1>b. new \in Request /\ new.pc = "checked" /\ new.kind = "run"
    BY <1>a, AskedTyped
<1>c. UNCHANGED <<members, runs, retried, begun, waiting>>
    BY DEF CountRuns
<1>1. CASE Within(RunLimit[req[r].tier], runs + 1)
    <2>1. /\ req' = [req EXCEPT ![r] = new]
          /\ peak' = Larger(peak, waiting + Cardinality(Open("run")))
        BY <1>1 DEF CountRuns
    <2>2. Cardinality(Open("run")) \in Nat
        BY OpenFinite
    <2>3. peak' \in Nat /\ peak' >= waiting + Cardinality(Open("run"))
        BY <2>1, <2>2, Numbers DEF Larger
    <2>4. EntitlementsTypeOK'
        BY <1>b, <1>c, <2>1, <2>3, ReqTyped DEF EntitlementsTypeOK
    <2>5. r \notin Open("seat") /\ r \notin Open("run")
        BY DEF CountRuns, Open
    <2>6. Open("run")' = Open("run") \union {r} /\ Open("seat")' = Open("seat")
        <3>1. Open("run")' = Open("run") \union {r}
            BY <1>b, <2>1, <2>5, OpenAfter
        <3>2. Open("seat")' = Open("seat") \ {r}
            BY <1>b, <2>1, <2>5, OpenAfter
        <3>3. QED BY <3>1, <3>2, <2>5
    <2>7. Cardinality(Open("run")') = Cardinality(Open("run")) + 1
        BY <2>5, <2>6, Room
    <2>8. RunLimit[req[r].tier] \in Nat /\ RunLimit[req[r].tier] <= RunLimit["team"]
        BY <1>a, EntitlementsAssumption
    <2>9. runs + 1 <= RunLimit["team"]
        BY <1>1, <2>8, Numbers DEF Within
    <2>10. QuotaOverrunBounded'
        BY <1>c, <2>2, <2>3, <2>7, <2>9, Numbers DEF QuotaOverrunBounded
    <2>11. SeatOverrunBounded'
        BY <1>c, <2>6 DEF SeatOverrunBounded
    <2>12. QED BY <2>4, <2>10, <2>11
<1>2. CASE ~Within(RunLimit[req[r].tier], runs + 1)
    <2>1. req' = [req EXCEPT ![r] = NoRequest] /\ UNCHANGED peak
        BY <1>2 DEF CountRuns
    <2>2. QED BY <1>c, <2>1, NoRequestTyped, Closing
<1>3. QED BY <1>1, <1>2

\* The member is added and the request is over.
LEMMA MemberAdded ==
    ASSUME EntitlementsInv, NEW r \in Requests, AddMember(r) PROVE EntitlementsInv'
<1> USE DEF EntitlementsInv
<1>1. /\ r \in Open("seat") /\ r \notin Open("run")
      /\ members' = members \union {req[r].user}
      /\ req' = [req EXCEPT ![r] = NoRequest]
      /\ UNCHANGED <<runs, retried, begun, waiting, peak>>
    BY DEF AddMember, Open
<1>2. req[r].user \in Users
    BY DEF EntitlementsTypeOK, Request
<1>3. EntitlementsTypeOK'
    BY <1>1, <1>2, NoRequestTyped, ReqTyped DEF EntitlementsTypeOK
<1>4. Open("seat")' = Open("seat") \ {r} /\ Open("run")' = Open("run")
    <2>1. Open("seat")' = Open("seat") \ {r}
        BY <1>1, NoRequestTyped, OpenAfter
    <2>2. Open("run")' = Open("run") \ {r}
        BY <1>1, NoRequestTyped, OpenAfter
    <2>3. QED BY <2>1, <2>2, <1>1
<1>5. Cardinality(Open("seat")') = Cardinality(Open("seat")) - 1
    BY <1>1, <1>4, OpenFinite, FS_RemoveElement
<1>6. Cardinality(members') <= Cardinality(members) + 1 /\ Cardinality(members') \in Nat
    <2>1. /\ IsFiniteSet(members')
          /\ Cardinality(members') = Cardinality(members)
             \/ Cardinality(members') = Cardinality(members) + 1
        BY <1>1, MembersFinite, FS_AddElement
    <2>2. QED BY <2>1, MembersFinite, FS_CardinalityType
<1>7. Cardinality(members) \in Nat /\ Cardinality(Open("seat")) \in Nat
    BY MembersFinite, OpenFinite
<1>8. SeatOverrunBounded'
    BY <1>5, <1>6, <1>7, Numbers DEF SeatOverrunBounded
<1>9. QuotaOverrunBounded'
    BY <1>1, <1>4 DEF QuotaOverrunBounded
<1>10. QED BY <1>3, <1>8, <1>9

\* The job is enqueued and the request is over.
LEMMA JobEnqueued ==
    ASSUME EntitlementsInv, NEW r \in Requests, Enqueue(r) PROVE EntitlementsInv'
<1> USE DEF EntitlementsInv
<1>1. /\ r \in Open("run") /\ r \notin Open("seat")
      /\ waiting' = waiting + 1
      /\ req' = [req EXCEPT ![r] = NoRequest]
      /\ UNCHANGED <<members, runs, retried, begun, peak>>
    BY DEF Enqueue, Open
<1>2. EntitlementsTypeOK'
    BY <1>1, NoRequestTyped, ReqTyped DEF EntitlementsTypeOK
<1>3. Open("run")' = Open("run") \ {r} /\ Open("seat")' = Open("seat")
    <2>1. Open("run")' = Open("run") \ {r}
        BY <1>1, NoRequestTyped, OpenAfter
    <2>2. Open("seat")' = Open("seat") \ {r}
        BY <1>1, NoRequestTyped, OpenAfter
    <2>3. QED BY <2>1, <2>2, <1>1
<1>4. Cardinality(Open("run")') = Cardinality(Open("run")) - 1
    BY <1>1, <1>3, OpenFinite, FS_RemoveElement
<1>5. Cardinality(Open("run")) \in Nat
    BY OpenFinite
<1>6. QuotaOverrunBounded'
    BY <1>1, <1>4, <1>5, Numbers DEF QuotaOverrunBounded
<1>7. SeatOverrunBounded'
    BY <1>1, <1>3 DEF SeatOverrunBounded
<1>8. QED BY <1>2, <1>6, <1>7

\* A member who leaves makes room.
LEMMA MemberRemoved ==
    ASSUME EntitlementsInv, NEW u \in Users, RemoveMember(u) PROVE EntitlementsInv'
<1> USE DEF EntitlementsInv
<1>1. /\ members' = members \ {u} /\ u # Owner
      /\ UNCHANGED <<req, runs, retried, begun, waiting, peak>>
    BY DEF RemoveMember
<1>2. Open("seat")' = Open("seat") /\ Open("run")' = Open("run")
    BY <1>1 DEF Open
<1>3. EntitlementsTypeOK'
    BY <1>1 DEF EntitlementsTypeOK
<1>4. Cardinality(members') <= Cardinality(members) /\ Cardinality(members') \in Nat
    <2>1. IsFiniteSet(members') /\ members' \subseteq members
        BY <1>1, MembersFinite, FS_RemoveElement
    <2>2. QED BY <2>1, MembersFinite, FS_Subset, FS_CardinalityType
<1>5. SeatOverrunBounded'
    BY <1>2, <1>4, MembersFinite, OpenFinite, Numbers DEF SeatOverrunBounded
<1>6. QuotaOverrunBounded'
    BY <1>1, <1>2 DEF QuotaOverrunBounded
<1>7. QED BY <1>3, <1>5, <1>6

\* A run counts for a waiting job, or for a retry.
LEMMA RunCreated ==
    ASSUME EntitlementsInv, NEW first \in BOOLEAN, CreateRun(first) PROVE EntitlementsInv'
<1> USE DEF EntitlementsInv
<1>1. /\ UNCHANGED <<members, req, peak>> /\ runs' = runs + 1 /\ begun' = TRUE
      /\ \/ waiting > 0 /\ waiting' = waiting - 1 /\ retried' = retried
         \/ waiting' = waiting /\ retried' = retried + 1
    BY DEF CreateRun
<1>2. Open("seat")' = Open("seat") /\ Open("run")' = Open("run")
    BY <1>1 DEF Open
<1>3. EntitlementsTypeOK'
    BY <1>1, Numbers DEF EntitlementsTypeOK
<1>4. SeatOverrunBounded'
    BY <1>1, <1>2 DEF SeatOverrunBounded
<1>5. QuotaOverrunBounded'
    BY <1>1, <1>2, OpenFinite, Numbers DEF QuotaOverrunBounded
<1>6. QED BY <1>3, <1>4, <1>5

\* A new month forgets the runs and not the jobs.
LEMMA MonthBegun ==
    ASSUME EntitlementsInv, NewMonth PROVE EntitlementsInv'
<1> USE DEF EntitlementsInv
<1>1. /\ UNCHANGED <<members, req, begun, waiting>> /\ runs' = 0 /\ retried' = 0
      /\ peak' = waiting + Cardinality(Open("run"))
    BY DEF NewMonth
<1>2. Open("seat")' = Open("seat") /\ Open("run")' = Open("run")
    BY <1>1 DEF Open
<1>3. Cardinality(Open("run")) \in Nat
    BY OpenFinite
<1>4. EntitlementsTypeOK'
    BY <1>1, <1>3, Numbers DEF EntitlementsTypeOK
<1>5. SeatOverrunBounded'
    BY <1>1, <1>2 DEF SeatOverrunBounded
<1>6. QuotaOverrunBounded'
    BY <1>1, <1>2, <1>3, Numbers DEF QuotaOverrunBounded
<1>7. QED BY <1>4, <1>5, <1>6

\* Every step keeps the invariant.
LEMMA EntitlementsStepInv == EntitlementsInv /\ [EntitlementsNext]_entitlements => EntitlementsInv'
<1> SUFFICES ASSUME EntitlementsInv, [EntitlementsNext]_entitlements PROVE EntitlementsInv'
    OBVIOUS
<1>1. ASSUME NEW r \in Requests, NEW u \in Users, NEW t \in Tiers, AskSeat(r, u, t)
      PROVE  EntitlementsInv'
    <2>1. Asked("allowed", "seat", t, u) \in Request
          /\ Asked("allowed", "seat", t, u).pc # "checked"
        BY AskedTyped
    <2>2. QED BY <1>1, <2>1, Closing DEF AskSeat
<1>2. ASSUME NEW r \in Requests, NEW t \in Tiers, AskRun(r, t) PROVE EntitlementsInv'
    <2>1. Asked("allowed", "run", t, Owner) \in Request
          /\ Asked("allowed", "run", t, Owner).pc # "checked"
        BY AskedTyped, EntitlementsAssumption
    <2>2. QED BY <1>2, <2>1, Closing DEF AskRun
<1>3. CASE UNCHANGED entitlements
    BY <1>3 DEF entitlements, EntitlementsInv, EntitlementsTypeOK, SeatOverrunBounded,
                QuotaOverrunBounded, Open
<1>4. QED
    BY <1>1, <1>2, <1>3, SeatsCounted, MemberAdded, RunsCounted, JobEnqueued,
       MemberRemoved, RunCreated, MonthBegun DEF EntitlementsNext, Serve

\* The inductive invariant: seats and runs, counted with the requests that have passed
\* their check and have not acted, stay within the limit and one for each other request.
THEOREM EntitlementsInvariance == EntitlementsSpec => []EntitlementsInv
BY EntitlementsInitInv, EntitlementsStepInv, PTL DEF EntitlementsSpec

\* However many requests cross each other, a project has no more members than the best
\* tier allows and one more for each other request that had counted before.
THEOREM SeatsBounded == EntitlementsSpec => []SeatOverrunBounded
<1>1. EntitlementsInv => SeatOverrunBounded
    BY DEF EntitlementsInv
<1>2. QED BY <1>1, EntitlementsInvariance, PTL

\* However many jobs wait uncounted, first attempts exceed the quota by no more than
\* those that waited when the last request was let in.
THEOREM QuotaBounded == EntitlementsSpec => []QuotaOverrunBounded
<1>1. EntitlementsInv => QuotaOverrunBounded
    BY DEF EntitlementsInv
<1>2. QED BY <1>1, EntitlementsInvariance, PTL
=============================================================================
