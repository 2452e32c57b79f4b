---------------------------- MODULE Entitlements ----------------------------
(***************************************************************************)
(* What a tier allows (billing/entitlements.py) and the two requests that  *)
(* ask (server/routers/members.py, runs.py).  A request reads the project  *)
(* with its credentials, then counts, then acts, in three transactions.    *)
(***************************************************************************)
EXTENDS Integers, FiniteSets

CONSTANTS
    Users,         \* who may become a member
    Owner,         \* projects.owner_id
    Requests,      \* requests that are served at the same time
    SeatLimit,     \* max_seats, for each tier
    RunLimit       \* max_runs_per_month, for each tier

Tiers == {"free", "team"}

ASSUME EntitlementsAssumption ==
    /\ Owner \in Users
    /\ IsFiniteSet(Users) /\ IsFiniteSet(Requests) /\ Requests # {}
    /\ SeatLimit \in [Tiers -> Nat \ {0}]
    /\ RunLimit \in [Tiers -> Nat]
    /\ \A t \in Tiers : SeatLimit[t] <= SeatLimit["team"] /\ RunLimit[t] <= RunLimit["team"]

VARIABLES
    members,       \* memberships: the users that have one
    req,           \* what each request has at hand
    runs,          \* runs of this month
    retried,       \* those among them of a later attempt: history
    begun,         \* a job has had a run: it may be tried again
    waiting,       \* jobs that no run has been created for
    peak           \* the most jobs that were uncounted at a time, this month: history

entitlements == <<members, req, runs, retried, begun, waiting, peak>>

Asked(pc, kind, tier, user) == [pc |-> pc, kind |-> kind, tier |-> tier, user |-> user]
NoRequest == Asked("none", "seat", "free", Owner)
Request == [pc : {"none", "allowed", "checked"}, kind : {"seat", "run"}, tier : Tiers,
            user : Users]

EntitlementsInit ==
    /\ members = {Owner}
    /\ req = [r \in Requests |-> NoRequest]
    /\ runs = 0 /\ retried = 0 /\ begun = FALSE
    /\ waiting = 0
    /\ peak = 0

Open(kind) == {r \in Requests : req[r].pc = "checked" /\ req[r].kind = kind}

Larger(a, b) == IF a > b THEN a ELSE b

\* Mutant of Within: the count before the action is compared.
WithinBefore(limit, count) == limit < 0 \/ count - 1 <= limit

\* _within: count is the value after the action; a limit below zero, as of the tier "audit"
\* that only an operator can give, is none.
Within(limit, count) == limit < 0 \/ count <= limit

-----------------------------------------------------------------------------
(* add_member.                                                             *)

\* require_project_access and _require_owner; the project's row stays as it was read.
AskSeat(r, u, tier) ==
    /\ req[r].pc = "none"
    /\ req' = [req EXCEPT ![r] = Asked("allowed", "seat", tier, u)]
    /\ UNCHANGED <<members, runs, retried, begun, waiting, peak>>

\* member_count and check_can_add_seat: on, or 402.
CountSeats(r) ==
    /\ req[r].pc = "allowed" /\ req[r].kind = "seat"
    /\ req' = [req EXCEPT ![r] =
           IF Within(SeatLimit[req[r].tier], Cardinality(members) + 1)
           THEN Asked("checked", "seat", @.tier, @.user)
           ELSE NoRequest]
    /\ UNCHANGED <<members, runs, retried, begun, waiting, peak>>

\* add_member_by_email: a member is not added twice (409, or the unique constraint).
AddMember(r) ==
    /\ r \in Open("seat")
    /\ members' = members \union {req[r].user}
    /\ req' = [req EXCEPT ![r] = NoRequest]
    /\ UNCHANGED <<runs, retried, begun, waiting, peak>>

\* remove_member: never the owner.
RemoveMember(u) ==
    /\ u \in members \ {Owner}
    /\ members' = members \ {u}
    /\ UNCHANGED <<req, runs, retried, begun, waiting, peak>>

-----------------------------------------------------------------------------
(* start_run and what becomes of the job.                                  *)

\* current_project; require_attestation and assert_url_allowed pass.
AskRun(r, tier) ==
    /\ req[r].pc = "none"
    /\ req' = [req EXCEPT ![r] = Asked("allowed", "run", tier, Owner)]
    /\ UNCHANGED <<members, runs, retried, begun, waiting, peak>>

\* Mutant of CountRuns: the check forgets the limit.
CountRunsNever(r) ==
    /\ req[r].pc = "allowed" /\ req[r].kind = "run"
    /\ req' = [req EXCEPT ![r] = Asked("checked", "run", @.tier, @.user)]
    /\ peak' = Larger(peak, waiting + Cardinality(Open("run")))
    /\ UNCHANGED <<members, runs, retried, begun, waiting>>

\* runs_this_period and check_can_enqueue: on, or 402.  Jobs do not count, runs do.
CountRuns(r) ==
    /\ req[r].pc = "allowed" /\ req[r].kind = "run"
    /\ IF Within(RunLimit[req[r].tier], runs + 1)
       THEN /\ req' = [req EXCEPT ![r] = Asked("checked", "run", @.tier, @.user)]
            /\ peak' = Larger(peak, waiting + Cardinality(Open("run")))
       ELSE /\ req' = [req EXCEPT ![r] = NoRequest]
            /\ UNCHANGED peak
    /\ UNCHANGED <<members, runs, retried, begun, waiting>>

\* enqueue.
Enqueue(r) ==
    /\ r \in Open("run")
    /\ waiting' = waiting + 1
    /\ req' = [req EXCEPT ![r] = NoRequest]
    /\ UNCHANGED <<members, runs, retried, begun, peak>>

\* create_run in a worker: the first for a job, or one more for another attempt.
CreateRun(first) ==
    /\ IF first THEN waiting > 0 /\ waiting' = waiting - 1 /\ UNCHANGED retried
                ELSE begun /\ retried' = retried + 1 /\ UNCHANGED waiting
    /\ begun' = TRUE
    /\ runs' = runs + 1
    /\ UNCHANGED <<members, req, peak>>

\* _month_start moves on.
NewMonth ==
    /\ runs' = 0 /\ retried' = 0
    /\ peak' = waiting + Cardinality(Open("run"))
    /\ UNCHANGED <<members, req, begun, waiting>>

Serve(r) == CountSeats(r) \/ AddMember(r) \/ CountRuns(r) \/ Enqueue(r)

EntitlementsNext ==
    \/ \E r \in Requests :
        \/ \E u \in Users, t \in Tiers : AskSeat(r, u, t)
        \/ \E t \in Tiers : AskRun(r, t)
        \/ Serve(r)
    \/ \E u \in Users : RemoveMember(u)
    \/ \E first \in BOOLEAN : CreateRun(first)
    \/ NewMonth

EntitlementsSpec == EntitlementsInit /\ [][EntitlementsNext]_entitlements

-----------------------------------------------------------------------------
(* Properties.                                                             *)

EntitlementsTypeOK ==
    /\ members \subseteq Users /\ Owner \in members
    /\ req \in [Requests -> Request]
    /\ runs \in Nat /\ retried \in 0 .. runs /\ begun \in BOOLEAN /\ waiting \in Nat /\ peak \in Nat

\* Requests that have counted before another one added may take a seat too many each,
\* and no more than that: the limit of the best tier holds up to the requests open at a
\* time (members.py:66).
SeatOverrunBounded ==
    Cardinality(members) + Cardinality(Open("seat"))
        <= SeatLimit["team"] + Cardinality(Requests) - 1

\* Only runs are counted, so the quota is exceeded, but by no more than the jobs that
\* waited for their run when the last request was let in (runs.py:168).
QuotaOverrunBounded ==
    (runs - retried) + waiting + Cardinality(Open("run")) <= RunLimit["team"] + peak
=============================================================================
