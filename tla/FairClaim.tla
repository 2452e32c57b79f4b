----------------------------- MODULE FairClaim ------------------------------
(***************************************************************************)
(* FairClaim.claim (jobs/scheduler.py): slots that share one instance take *)
(* queued jobs in turn from the projects that have some.  Of the queue's   *)
(* rows only the project matters here: what a claim does to the row is in  *)
(* JobQueue.                                                               *)
(***************************************************************************)
EXTENDS Integers, SequencesExt

CONSTANTS
    Tenants,       \* project ids
    Slots,         \* slots of the process that share the instance
    MaxQueued      \* bound: queued jobs at a time

ASSUME FairClaimAssumption ==
    /\ IsFiniteSet(Tenants) /\ IsFiniteSet(Slots) /\ Slots # {}
    /\ MaxQueued \in Nat

VARIABLES
    queue,         \* the projects of the queued jobs, by created_at
    served,        \* _last_served, for each project
    serve_seq,     \* _serve_seq
    slot,          \* where the claim of each slot is
    overtaken      \* [p][q]: jobs of q taken since p waits: history

fair == <<queue, served, serve_seq, slot, overtaken>>

None == "none"
NeverServed == -1

Turn(pc, left, taken) == [pc |-> pc, left |-> left, taken |-> taken]
AtRest == Turn("rest", <<>>, None)

FairInit ==
    /\ queue = <<>>
    /\ served = [p \in Tenants |-> NeverServed] /\ serve_seq = 0
    /\ slot = [s \in Slots |-> AtRest]
    /\ overtaken = [p \in Tenants |-> [q \in Tenants |-> 0]]

Waits(p) == p \in ToSet(queue)

First(s, p) == SelectInSeq(s, LAMBDA q : q = p)

\* enqueue of a job of p.
Offer(p) ==
    /\ Len(queue) < MaxQueued
    /\ queue' = Append(queue, p)
    /\ UNCHANGED <<served, serve_seq, slot, overtaken>>

\* _candidate_projects: who has a queued job, by the age of the oldest; none: None.
Candidates(s) ==
    /\ slot[s].pc = "rest"
    /\ queue # <<>>
    /\ \E left \in SetToSeqs(ToSet(queue)) :
        /\ \A i, j \in DOMAIN left : i < j => First(queue, left[i]) < First(queue, left[j])
        /\ slot' = [slot EXCEPT ![s] = Turn("order", left, None)]
    /\ UNCHANGED <<queue, served, serve_seq, overtaken>>

\* Mutant of Order: by the age of the oldest job alone.
OrderByAge(s) ==
    /\ slot[s].pc = "order"
    /\ slot' = [slot EXCEPT ![s].pc = "walk"]
    /\ UNCHANGED <<queue, served, serve_seq, overtaken>>

\* The key of sorted: the last service, then the age.
Precedes(old, p, q) ==
    \/ served[p] < served[q]
    \/ served[p] = served[q] /\ First(old, p) < First(old, q)

\* sorted(candidates), once the SELECT has returned.
Order(s) ==
    /\ slot[s].pc = "order"
    /\ \E left \in SetToSeqs(ToSet(slot[s].left)) :
        /\ \A i, j \in DOMAIN left : i < j => Precedes(slot[s].left, left[i], left[j])
        /\ slot' = [slot EXCEPT ![s] = Turn("walk", left, None)]
    /\ UNCHANGED <<queue, served, serve_seq, overtaken>>

\* _claim_from_project takes the oldest job of the next candidate, whoever wins the
\* races for it on the way.
Take(s) ==
    /\ slot[s].pc = "walk" /\ slot[s].left # <<>>
    /\ LET p == Head(slot[s].left) IN
        /\ Waits(p)
        /\ \E i \in DOMAIN queue :
            /\ queue[i] = p /\ \A j \in 1 .. i - 1 : queue[j] # p
            /\ queue' = RemoveAt(queue, i)
        /\ slot' = [slot EXCEPT ![s] = Turn("mark", <<>>, p)]
        /\ overtaken' = [w \in Tenants |->
               IF w = p \/ ~Waits(w) THEN [q \in Tenants |-> 0]
               ELSE [overtaken[w] EXCEPT ![p] = @ + 1]]
    /\ UNCHANGED <<served, serve_seq>>

\* The candidate has no job left: the next one; after the last one, another pass.
Pass(s) ==
    /\ slot[s].pc = "walk"
    /\ IF slot[s].left = <<>> THEN slot' = [slot EXCEPT ![s] = AtRest]
       ELSE /\ ~Waits(Head(slot[s].left))
            /\ slot' = [slot EXCEPT ![s] = Turn("walk", Tail(@.left), None)]
    /\ UNCHANGED <<queue, served, serve_seq, overtaken>>

\* Mutant of Mark: the counter stays.
MarkSame(s) ==
    /\ slot[s].pc = "mark"
    /\ served' = [served EXCEPT ![slot[s].taken] = serve_seq]
    /\ slot' = [slot EXCEPT ![s] = AtRest]
    /\ UNCHANGED <<queue, serve_seq, overtaken>>

\* _mark_served, after the transaction of the claim has returned.
Mark(s) ==
    /\ slot[s].pc = "mark"
    /\ served' = [served EXCEPT ![slot[s].taken] = serve_seq]
    /\ serve_seq' = serve_seq + 1
    /\ slot' = [slot EXCEPT ![s] = AtRest]
    /\ UNCHANGED <<queue, overtaken>>

Claim(s) == Candidates(s) \/ Order(s) \/ Take(s) \/ Pass(s) \/ Mark(s)

FairNext == (\E p \in Tenants : Offer(p)) \/ (\E s \in Slots : Claim(s))

ClaimSpec == FairInit /\ [][FairNext]_fair

-----------------------------------------------------------------------------
(* Properties.                                                             *)

FairTypeOK ==
    /\ queue \in Seq(Tenants) /\ Len(queue) <= MaxQueued
    /\ serve_seq \in Nat /\ served \in [Tenants -> NeverServed .. serve_seq - 1]
    /\ \A p, q \in Tenants : served[p] = served[q] => p = q \/ served[p] = NeverServed
    /\ slot \in [Slots -> [pc : {"rest", "order", "walk", "mark"}, left : Seq(Tenants),
                           taken : Tenants \union {None}]]
    /\ \A s \in Slots : slot[s].pc = "mark" => slot[s].taken \in Tenants
    /\ overtaken \in [Tenants -> [Tenants -> Nat]]

\* "No tenant can starve the others" (scheduler.py:8): however many jobs another
\* project has, while a project waits that one is served a bounded number of times,
\* although each slot sorts by services that the other slots have yet to mark.
BoundedOvertaking ==
    LET n == Cardinality(Slots)
    IN  \A p, q \in Tenants : overtaken[p][q] <= (n * (n + 1)) \div 2
=============================================================================
