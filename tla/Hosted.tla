------------------------------- MODULE Hosted -------------------------------
(***************************************************************************)
(* The hosted product around the worker: the tier of a project follows its *)
(* subscription (Billing), what its members may do follows the tier        *)
(* (Entitlements), their jobs wait with those of the other tenants         *)
(* (FairClaim), and what is kept of the runs is swept (History).           *)
(*                                                                         *)
(* "left" is what the environment may still do; the constant Mixes holds   *)
(* its first values, so that one instance can explore webhooks at length   *)
(* and another one requests.  It bounds no step of the program.            *)
(***************************************************************************)
EXTENDS Billing, Entitlements, FairClaim, History

CONSTANTS
    Home,          \* the project of Billing and Entitlements, a tenant
    Mixes          \* bound: how often each input and each fault may happen

Kinds == {"stripe", "lose", "again", "abort", "seat", "remove", "run", "retry", "month",
          "offer", "start", "set", "die", "miss"}

ASSUME HostedAssumption == Home \in Tenants /\ Mixes \subseteq [Kinds -> Nat]

VARIABLE left

hosted == <<billing, entitlements, fair, history, left>>

Init ==
    /\ BillingInit /\ EntitlementsInit /\ FairInit /\ HistoryInit
    /\ left \in Mixes

May(kind) == left[kind] > 0 /\ left' = [left EXCEPT ![kind] = @ - 1]

-----------------------------------------------------------------------------

BillingActs ==
    /\ \/ Stripe /\ May("stripe")
       \/ BillingStep /\ UNCHANGED left
       \/ (\E e \in events : Lose(e)) /\ May("lose")
       \/ (\E h \in Handlers, e \in events : Webhook(h, e, TRUE)) /\ May("again")
       \/ (\E p \in Procs : Abort(p)) /\ May("abort")
    /\ UNCHANGED <<entitlements, fair, history>>

\* Requests go by the tier of the row as it is when they come.
RequestsAct ==
    /\ \E r \in Requests :
        \/ (\E u \in Users : AskSeat(r, u, project.tier)) /\ May("seat")
        \/ AskRun(r, project.tier) /\ May("run")
        \/ (CountSeats(r) \/ AddMember(r) \/ CountRuns(r)) /\ UNCHANGED left
    /\ UNCHANGED <<billing, fair, history>>

\* A request's job joins the queue.
EnqueueHome ==
    /\ \E r \in Requests : Enqueue(r)
    /\ Offer(Home)
    /\ UNCHANGED <<billing, history, left>>

TenantActs ==
    /\ \/ (\E u \in Users : RemoveMember(u)) /\ May("remove")
       \/ CreateRun(TRUE) /\ UNCHANGED left
       \/ CreateRun(FALSE) /\ May("retry")
       \/ NewMonth /\ May("month")
    /\ UNCHANGED <<billing, fair, history>>

ClaimsAct ==
    /\ \/ (\E p \in Tenants : Offer(p)) /\ May("offer")
       \/ (\E s \in Slots : Claim(s)) /\ UNCHANGED left
    /\ UNCHANGED <<billing, entitlements, history>>

HistoryActs ==
    /\ \/ (\E r \in Runs : StartRun(r)) /\ May("start")
       \/ (\E s \in Setters, r \in Runs : GetRun(s, r)) /\ May("set")
       \/ SweepDies /\ May("die")
       \/ (\E r \in Runs : LeaveArtifacts(r)) /\ May("miss")
       \/ /\ \/ \E r \in Runs :
                  \/ CreateRow(r)
                  \/ \E last \in Runs \union {NoRun} : AttachRun(r, last)
                  \/ \E state \in {"finished", "error"} : EndRun(r, state)
                  \/ PutDir(r) \/ Abandon(r) \/ Age(r)
             \/ \E s \in Setters : LookUp(s) \/ Upsert(s)
             \/ Sweep
          /\ UNCHANGED left
    /\ UNCHANGED <<billing, entitlements, fair>>

Next ==
    \/ BillingActs \/ RequestsAct \/ EnqueueHome \/ TenantActs \/ ClaimsAct \/ HistoryActs

Spec == Init /\ [][Next]_hosted

\* Handlers finish what they have begun, the reconciler and the sweep are scheduled again
\* and again; Stripe, users and workers need not go on.
FairSpec ==
    /\ Spec
    /\ \A x \in Procs :
        WF_hosted(Update(x) /\ UNCHANGED <<entitlements, fair, history, left>>)
    /\ \A x \in Reconcilers :
        WF_hosted((Read(x) \/ Ask(x)) /\ UNCHANGED <<entitlements, fair, history, left>>)
    /\ WF_hosted(Sweep /\ UNCHANGED <<billing, entitlements, fair, left>>)

-----------------------------------------------------------------------------

\* The types of all parts.
TypeOK ==
    /\ BillingTypeOK /\ EntitlementsTypeOK /\ FairTypeOK /\ HistoryTypeOK
    /\ left \in [Kinds -> Nat]
=============================================================================
