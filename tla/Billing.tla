------------------------------ MODULE Billing -------------------------------
(***************************************************************************)
(* The tier of one project (billing/, server/routers/billing.py): Stripe   *)
(* tells it by webhooks, which come late, twice, in any order or not at    *)
(* all; a reconciler asks Stripe.  Each change is a session that loads the *)
(* row and commits later.  Projects share nothing: one is modelled.        *)
(***************************************************************************)
EXTENDS Integers, FiniteSets

CONSTANTS
    Subs,          \* subscriptions that the customer may take out
    NoSub,         \* stripe_subscription_id = ""
    Handlers,      \* webhook requests that are served at the same time
    Reconcilers    \* processes that run reconcile_project

ASSUME BillingAssumption ==
    /\ NoSub \notin Subs
    /\ Handlers \intersect Reconcilers = {}

VARIABLES
    status,        \* at Stripe: the status of each subscription
    events,        \* the webhooks that Stripe has yet to deliver
    project,       \* the row: tier, private_repos_enabled, stripe_subscription_id
    ses            \* what each handler and reconciler has at hand

billing == <<status, events, project, ses>>

Procs == Handlers \union Reconcilers

\* "active" stands for trialing too, "unpaid" for incomplete_expired, "past_due" for
\* every status that neither grants nor revokes.
Status == {"none", "active", "past_due", "unpaid", "canceled"}
Event == [type : {"completed", "updated", "deleted"}, sub : Subs, status : Status]
Project == [tier : {"free", "team"}, private : BOOLEAN, sub : Subs \union {NoSub}]

\* What set_project_billing is asked to write; NoSub: leave the id alone.
Paid(s) == [tier |-> "team", private |-> TRUE, sub |-> s]
Unpaid(s) == [tier |-> "free", private |-> FALSE, sub |-> s]
Fresh == Unpaid(NoSub)

At(pc, want, loaded) == [pc |-> pc, want |-> want, loaded |-> loaded]
Idle == At("idle", Fresh, Fresh)
Session == [pc : {"idle", "read", "set", "loaded"}, want : Project, loaded : Project]

BillingInit ==
    /\ status = [s \in Subs |-> "none"]
    /\ events = {}
    /\ project = Fresh
    /\ ses = [p \in Procs |-> Idle]

-----------------------------------------------------------------------------
(* Stripe.                                                                 *)

\* The checkout is paid.
Checkout(s) ==
    /\ status[s] = "none"
    /\ status' = [status EXCEPT ![s] = "active"]
    /\ events' = events \union {[type |-> "completed", sub |-> s, status |-> "active"]}
    /\ UNCHANGED <<project, ses>>

\* A payment fails or succeeds, or the subscription is canceled.
Change(s, new) ==
    /\ status[s] \in {"active", "past_due", "unpaid"}
    /\ new \in {"active", "past_due", "unpaid", "canceled"} \ {status[s]}
    /\ status' = [status EXCEPT ![s] = new]
    /\ events' = events \union
           {[type |-> IF new = "canceled" THEN "deleted" ELSE "updated",
             sub |-> s, status |-> new]}
    /\ UNCHANGED <<project, ses>>

\* A webhook that is never delivered.
Lose(e) ==
    /\ e \in events
    /\ events' = events \ {e}
    /\ UNCHANGED <<status, project, ses>>

-----------------------------------------------------------------------------
(* parse_webhook and stripe_webhook.                                       *)

Grants(e) == e.type = "completed" \/ (e.type = "updated" /\ e.status = "active")
Revokes(e) == e.type = "deleted" \/ (e.type = "updated" /\ e.status = "canceled")

\* What an event asks for: the tier and, always, the subscription's id; or nothing.
Verdict(e) ==
    IF Grants(e) THEN {Paid(e.sub)} ELSE IF Revokes(e) THEN {Unpaid(e.sub)} ELSE {}

\* A delivery; the webhook may be delivered again.
Webhook(h, e, again) ==
    /\ ses[h].pc = "idle"
    /\ e \in events
    /\ events' = IF again THEN events ELSE events \ {e}
    /\ \/ \E want \in Verdict(e) :
            ses' = [ses EXCEPT ![h] = At("set", want, Fresh)]
       \/ Verdict(e) = {} /\ UNCHANGED ses
    /\ UNCHANGED <<status, project>>

-----------------------------------------------------------------------------
(* set_project_billing: a session loads the row, sets the columns that were given,   *)
(* and commits those that changed.                                                   *)

Load(p) ==
    /\ ses[p].pc = "set"
    /\ ses' = [ses EXCEPT ![p] = At("loaded", @.want, project)]
    /\ UNCHANGED <<status, events, project>>

Column(p, c) == IF ses[p].want[c] # ses[p].loaded[c] THEN ses[p].want[c] ELSE project[c]

\* Mutant of Commit: the flag is written in every case, the tier if it has changed.
CommitFlag(p) ==
    /\ ses[p].pc = "loaded"
    /\ project' = [tier    |-> Column(p, "tier"),
                   private |-> ses[p].want.private,
                   sub     |-> IF ses[p].want.sub = NoSub THEN project.sub
                               ELSE Column(p, "sub")]
    /\ ses' = [ses EXCEPT ![p] = Idle]
    /\ UNCHANGED <<status, events>>

Commit(p) ==
    /\ ses[p].pc = "loaded"
    /\ project' = [tier    |-> Column(p, "tier"),
                   private |-> Column(p, "private"),
                   sub     |-> IF ses[p].want.sub = NoSub THEN project.sub
                               ELSE Column(p, "sub")]
    /\ ses' = [ses EXCEPT ![p] = Idle]
    /\ UNCHANGED <<status, events>>

\* The transaction raises, or the question to Stripe does: the row is as it was.
Abort(p) ==
    /\ ses[p].pc \in {"loaded", "read"}
    /\ ses' = [ses EXCEPT ![p] = Idle]
    /\ UNCHANGED <<status, events, project>>

-----------------------------------------------------------------------------
(* reconcile_project.                                                      *)

\* _desired_state.
Desired(st) == IF st = "active" THEN {Paid(NoSub)}
               ELSE IF st \in {"unpaid", "canceled", "none"} THEN {Unpaid(NoSub)}
               ELSE {}

Read(r) ==
    /\ ses[r].pc = "idle"
    /\ project.sub # NoSub
    /\ ses' = [ses EXCEPT ![r] = At("read", Fresh, project)]
    /\ UNCHANGED <<status, events, project>>

InSync(row, want) == row.tier = want.tier /\ row.private = want.private

\* Mutant of Ask: a tier is never taken away.
AskUp(r) ==
    /\ ses[r].pc = "read"
    /\ LET wants == {w \in Desired(status[ses[r].loaded.sub]) : w.private} IN
       \/ \E want \in wants :
            /\ ~InSync(ses[r].loaded, want)
            /\ ses' = [ses EXCEPT ![r] = At("set", want, Fresh)]
       \/ /\ \A want \in wants : InSync(ses[r].loaded, want)
          /\ ses' = [ses EXCEPT ![r] = Idle]
    /\ UNCHANGED <<status, events, project>>

\* The answer of Stripe for the id that was read, compared with the row that was read.
Ask(r) ==
    /\ ses[r].pc = "read"
    /\ \/ \E want \in Desired(status[ses[r].loaded.sub]) :
            /\ ~InSync(ses[r].loaded, want)
            /\ ses' = [ses EXCEPT ![r] = At("set", want, Fresh)]
       \/ /\ \A want \in Desired(status[ses[r].loaded.sub]) : InSync(ses[r].loaded, want)
          /\ ses' = [ses EXCEPT ![r] = Idle]
    /\ UNCHANGED <<status, events, project>>

Stripe == \E s \in Subs : Checkout(s) \/ \E new \in Status : Change(s, new)

Update(p) == Load(p) \/ Commit(p)

BillingStep ==
    \/ \E h \in Handlers, e \in events : Webhook(h, e, FALSE)
    \/ \E p \in Procs : Update(p)
    \/ \E r \in Reconcilers : Read(r) \/ Ask(r)

BillingFault ==
    \/ \E e \in events : Lose(e)
    \/ \E h \in Handlers, e \in events : Webhook(h, e, TRUE)
    \/ \E p \in Procs : Abort(p)

BillingNext == Stripe \/ BillingStep \/ BillingFault

BillingSpec == BillingInit /\ [][BillingNext]_billing

-----------------------------------------------------------------------------
(* Properties.                                                             *)

BillingTypeOK ==
    /\ status \in [Subs -> Status]
    /\ events \subseteq Event
    /\ project \in Project
    /\ ses \in [Procs -> Session]

\* The private repositories come and go with the paid tier, although the two columns
\* are compared and written one by one by sessions that cross each other.
TeamHasPrivate == project.private <=> project.tier = "team"

\* Why: whoever loads or wants a row has the two together.
PairsTogether ==
    \A p \in Procs : \A row \in {ses[p].want, ses[p].loaded} :
        row.private <=> row.tier = "team"

BillingInv == BillingTypeOK /\ TeamHasPrivate /\ PairsTogether

\* The backstop: once Stripe is quiet, the tier becomes and stays what Stripe says of
\* the subscription that the row names, whatever webhooks were lost, repeated or
\* crossed by the reconciler's stale decision.
Matches ==
    project.sub # NoSub =>
        \A want \in Desired(status[project.sub]) : InSync(project, want)
EventuallyInSync == <>[]Matches
=============================================================================
