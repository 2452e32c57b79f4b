---------------------------- MODULE Hosted_proofs ----------------------------
(***************************************************************************)
(* The parts of the hosted product, together: a sweep leaves nothing of a  *)
(* run whose row it deletes, no tenant is overtaken without bound, and the *)
(* product is each of its parts, so that what holds of a part holds of it. *)
(***************************************************************************)
EXTENDS Hosted, Tiers_proofs

-----------------------------------------------------------------------------
(* History.                                                                *)

\* What is stale is over; a sweep works on stale runs alone, and what it has deleted of
\* them, but for what it has missed, is gone from the store and does not come back.
HistoryInv ==
    /\ HistoryTypeOK
    /\ \A r \in stale : worker[r] = "over"
    /\ sweep.left \union sweep.deleted \subseteq stale
    /\ sweep.deleted \intersect Stored \subseteq missed
    /\ \A r \in Runs : row[r] = "gone" => r \in stale /\ r \notin Stored \ missed

\* The invariant holds at first.
LEMMA HistoryInitInv == HistoryInit => HistoryInv
<1> SUFFICES ASSUME HistoryInit PROVE HistoryInv
    OBVIOUS
<1>1. HistoryTypeOK
    BY DEF HistoryInit, HistoryTypeOK, RowState, WorkerState, NoSetter, Waiting
<1>2. QED BY <1>1 DEF HistoryInit, HistoryInv, Waiting

\* Each step of a worker keeps the invariant: its run is not stale.
LEMMA WorkerStepInv ==
    ASSUME HistoryInv, NEW r \in Runs,
           \/ StartRun(r) \/ CreateRow(r) \/ (\E last \in Runs \union {NoRun} : AttachRun(r, last))
           \/ (\E state \in {"finished", "error"} : EndRun(r, state))
           \/ PutDir(r) \/ Abandon(r) \/ Age(r)
    PROVE  HistoryInv'
<1> USE DEF HistoryInv, HistoryTypeOK, RowState, WorkerState
<1>1. CASE StartRun(r)
    BY <1>1 DEF StartRun, Stored
<1>2. CASE CreateRow(r)
    BY <1>2 DEF CreateRow, Stored
<1>3. ASSUME NEW last \in Runs \union {NoRun}, AttachRun(r, last) PROVE HistoryInv'
    BY <1>3 DEF AttachRun, Stored
<1>4. ASSUME NEW state \in {"finished", "error"}, EndRun(r, state) PROVE HistoryInv'
    BY <1>4 DEF EndRun, Stored
<1>5. CASE PutDir(r)
    BY <1>5 DEF PutDir, Stored
<1>6. CASE Abandon(r)
    BY <1>6 DEF Abandon, Stored
<1>7. CASE Age(r)
    BY <1>7 DEF Age, Stored, Present
<1>8. QED BY <1>1, <1>2, <1>3, <1>4, <1>5, <1>6, <1>7

\* Each step of a request or of the sweep keeps the invariant.
LEMMA SetterStepInv ==
    ASSUME HistoryInv, NEW s \in Setters,
           (\E r \in Runs : GetRun(s, r)) \/ LookUp(s) \/ Upsert(s)
    PROVE  HistoryInv'
<1> USE DEF HistoryInv, HistoryTypeOK, Stored
<1>1. ASSUME NEW r \in Runs, GetRun(s, r) PROVE HistoryInv'
    BY <1>1 DEF GetRun, NoSetter
<1>2. CASE LookUp(s)
    BY <1>2 DEF LookUp
<1>3. CASE Upsert(s)
    BY <1>3 DEF Upsert, NoSetter
<1>4. QED BY <1>1, <1>2, <1>3

\* The sweep keeps the invariant of the stores.
LEMMA SweepStepInv ==
    ASSUME HistoryInv, Sweep \/ SweepDies \/ \E r \in Runs : LeaveArtifacts(r)
    PROVE  HistoryInv'
<1> USE DEF HistoryInv, HistoryTypeOK, Stored
<1>1. CASE Select
    BY <1>1 DEF Select
<1>2. ASSUME NEW r \in Runs, DeleteArtifacts(r) PROVE HistoryInv'
    BY <1>2 DEF DeleteArtifacts
<1>3. CASE DeleteRows
    BY <1>3 DEF DeleteRows, Waiting, RowState
<1>4. CASE SweepDies
    BY <1>4 DEF SweepDies, Waiting
<1>5. ASSUME NEW r \in Runs, LeaveArtifacts(r) PROVE HistoryInv'
    <2>1. /\ r \in sweep.left \intersect Stored /\ missed' = missed \union {r}
          /\ sweep' = [sweep EXCEPT !.left = @ \ {r}, !.deleted = @ \union {r}]
          /\ UNCHANGED <<row, worker, named, disk, bucket, stale, baseline, setter>>
        BY <1>5 DEF LeaveArtifacts
    <2>2. HistoryTypeOK'
        BY <2>1
    <2>3. /\ sweep'.left = sweep.left \ {r} /\ sweep'.deleted = sweep.deleted \union {r}
          /\ UNCHANGED <<row, worker, disk, bucket, stale>>
        BY <2>1
    <2>4. sweep'.deleted \intersect Stored' \subseteq missed'
        BY <2>1, <2>3
    <2>5. \A q \in Runs : row'[q] = "gone" => q \in stale' /\ q \notin Stored' \ missed'
        BY <2>1, <2>3
    <2>6. sweep'.left \union sweep'.deleted \subseteq stale'
        BY <2>1, <2>3
    <2>7. QED BY <2>2, <2>3, <2>4, <2>5, <2>6
<1>6. QED BY <1>1, <1>2, <1>3, <1>4, <1>5 DEF Sweep

\* So does every step of History.
LEMMA HistoryStepInv == HistoryInv /\ [HistoryNext]_history => HistoryInv'
<1> SUFFICES ASSUME HistoryInv, [HistoryNext]_history PROVE HistoryInv'
    OBVIOUS
<1>1. CASE UNCHANGED history
    BY <1>1 DEF history, HistoryInv, HistoryTypeOK, Stored
<1>2. CASE HistoryNext
    BY <1>2, WorkerStepInv, SetterStepInv, SweepStepInv DEF HistoryNext, HistoryStep
<1>3. QED BY <1>1, <1>2

\* The invariant of History, for any runs, workers and setters, with and without foreign
\* keys, with artifacts on the worker's disk or in a bucket.
THEOREM HistoryInvariance == HistorySpec => []HistoryInv
BY HistoryInitInv, HistoryStepInv, PTL DEF HistorySpec

\* A row that a sweep deletes leaves no artifact behind but what the store refused to
\* delete, wherever sweeps and workers stop (retention.py:175).
THEOREM NothingLeft == HistorySpec => []DeletedLeavesNothing
<1>1. HistoryInv => DeletedLeavesNothing
    BY DEF HistoryInv, DeletedLeavesNothing
<1>2. QED BY <1>1, HistoryInvariance, PTL

-----------------------------------------------------------------------------
(* FairClaim.                                                              *)

\* A job of q comes before one of w in the walk c.
InFront(c, q, w) ==
    \E j \in DOMAIN c.left : c.left[j] = q /\ \A i \in 1 .. j - 1 : c.left[i] # w

\* The slots that have no service of w to mark.
Others(w) == {s \in Slots : ~(slot[s].pc = "mark" /\ slot[s].taken = w)}

\* Those among them that may take a job of q yet, while w waits: q was not served later
\* than w, as far as is marked, or the slot has read so.
MayTake(w, q) ==
    {s \in Others(w) :
        \/ served[q] <= served[w] /\ ~(slot[s].pc = "mark" /\ slot[s].taken = q)
        \/ slot[s].pc = "order" /\ w \notin ToSet(slot[s].left)
        \/ slot[s].pc = "walk" /\ InFront(slot[s], q, w)}

\* What w has suffered from q and may suffer yet is bounded by the slots that have no
\* service of w to mark; marking one lets as many slots as there are take q once more.
Budget(w, q) ==
    LET k == Cardinality(Others(w))
    IN  2 * (overtaken[w][q] + Cardinality(MayTake(w, q))) <= k * (k + 1)

FairInv ==
    /\ FairTypeOK
    /\ \A w, q \in Tenants : ~Waits(w) \/ w = q => overtaken[w][q] = 0
    /\ \A w, q \in Tenants : w # q => Budget(w, q)

\* Sets of slots can be counted and compared.
LEMMA Sizes ==
    ASSUME NEW O \in SUBSET Slots, NEW M \in SUBSET O
    PROVE  /\ Cardinality(O) \in Nat /\ Cardinality(M) \in Nat /\ Cardinality(Slots) \in Nat
           /\ Cardinality(M) <= Cardinality(O) /\ Cardinality(O) <= Cardinality(Slots)
           /\ IsFiniteSet(O) /\ IsFiniteSet(M)
BY FairClaimAssumption, FS_Subset, FS_CardinalityType

\* The slots that may take a job are among the others.
LEMMA AmongOthers ==
    ASSUME NEW w, NEW q
    PROVE  /\ Others(w) \in SUBSET Slots /\ MayTake(w, q) \in SUBSET Others(w)
           /\ Others(w)' \in SUBSET Slots /\ MayTake(w, q)' \in SUBSET Others(w)'
BY DEF Others, MayTake

\* A tenant that was not overtaken yet is within the bound, wherever the slots are.
LEMMA AnewBounded ==
    ASSUME NEW w, NEW q, overtaken'[w][q] = 0
    PROVE  Budget(w, q)'
<1> DEFINE k == Cardinality(Others(w)')
           m == Cardinality(MayTake(w, q)')
<1>1. k \in Nat /\ m \in Nat /\ m <= k
    BY AmongOthers, Sizes
<1>2. 2 * k <= k * (k + 1) /\ k * (k + 1) \in Nat
    BY <1>1, Products
<1> HIDE DEF k, m
<1>3. 2 * (0 + m) <= k * (k + 1)
    BY <1>1, <1>2
<1>4. QED BY <1>3 DEF Budget, k, m

\* Steps that let no other slot take a job, and take none, keep within the bound.
LEMMA NoMoreBounded ==
    ASSUME FairInv, NEW w \in Tenants, NEW q \in Tenants, w # q,
           overtaken'[w][q] = overtaken[w][q],
           Others(w)' = Others(w), MayTake(w, q)' \subseteq MayTake(w, q)
    PROVE  Budget(w, q)'
<1> DEFINE k == Cardinality(Others(w))
           m == Cardinality(MayTake(w, q))
           n == Cardinality(MayTake(w, q)')
           o == overtaken[w][q]
<1>1. k \in Nat /\ m \in Nat /\ n \in Nat /\ n <= m
    BY AmongOthers, Sizes, FS_Subset
<1>2. o \in Nat /\ 2 * (o + m) <= k * (k + 1)
    BY DEF FairInv, FairTypeOK, Budget
<1>3. k * (k + 1) \in Nat
    BY <1>1, Products
<1> HIDE DEF k, m, n, o
<1>4. 2 * (o + n) <= k * (k + 1)
    BY <1>1, <1>2, <1>3
<1>5. QED BY <1>4 DEF Budget, k, n, o

\* Nobody has been overtaken at first.
LEMMA FairInitInv == FairInit => FairInv
<1> SUFFICES ASSUME FairInit PROVE FairInv
    OBVIOUS
<1>1. FairTypeOK
    BY FairClaimAssumption DEF FairInit, FairTypeOK, AtRest, Turn, NeverServed
<1>2. \A w, q \in Tenants : overtaken[w][q] = 0
    BY DEF FairInit
<1>3. ASSUME NEW w \in Tenants, NEW q \in Tenants PROVE Budget(w, q)
    <2> DEFINE k == Cardinality(Others(w))
               m == Cardinality(MayTake(w, q))
    <2>1. k \in Nat /\ m \in Nat /\ m <= k
        BY AmongOthers, Sizes
    <2>2. 2 * k <= k * (k + 1) /\ k * (k + 1) \in Nat
        BY <2>1, Products
    <2> HIDE DEF k, m
    <2>3. 2 * (0 + m) <= k * (k + 1)
        BY <2>1, <2>2
    <2>4. QED BY <2>3, <1>2 DEF Budget, k, m
<1>4. QED BY <1>1, <1>2, <1>3 DEF FairInv

\* A job joins the queue: whoever begins to wait was not overtaken yet.
LEMMA OfferInv ==
    ASSUME FairInv, NEW p \in Tenants, Offer(p)
    PROVE  FairInv'
<1>1. /\ queue \in Seq(Tenants) /\ Len(queue) < MaxQueued
      /\ queue' = Append(queue, p) /\ UNCHANGED <<served, serve_seq, slot, overtaken>>
    BY DEF FairInv, FairTypeOK, Offer
<1>2. /\ queue' \in Seq(Tenants) /\ Len(queue') = Len(queue) + 1
      /\ \A i \in 1 .. Len(queue) : queue'[i] = queue[i]
    BY <1>1, AppendProperties
<1>3. DOMAIN queue = 1 .. Len(queue) /\ DOMAIN queue' = 1 .. Len(queue') /\ Len(queue) \in Nat
    BY <1>1, <1>2, LenProperties
<1>4. FairTypeOK'
    BY <1>1, <1>2, <1>3, FairClaimAssumption DEF FairInv, FairTypeOK
<1>5. \A w \in Tenants : Waits(w) => Waits(w)'
    BY <1>2, <1>3 DEF Waits, ToSet
<1>6. \A w, q \in Tenants : ~Waits(w)' \/ w = q => overtaken'[w][q] = 0
    BY <1>1, <1>5 DEF FairInv
<1>7. ASSUME NEW w \in Tenants, NEW q \in Tenants, w # q PROVE Budget(w, q)'
    <2>1. Others(w)' = Others(w)
        BY <1>1 DEF Others
    <2>2. MayTake(w, q)' = MayTake(w, q)
        BY <1>1, <2>1 DEF MayTake, InFront
    <2>3. QED BY <1>1, <1>7, <2>1, <2>2, NoMoreBounded
<1>8. QED BY <1>4, <1>6, <1>7 DEF FairInv

\* A turn c may take a job of q before one of w, by what it has read.
Prefers(c, q, w) ==
    \/ c.pc = "order" /\ w \notin ToSet(c.left)
    \/ c.pc = "walk" /\ InFront(c, q, w)

\* A slot that reads, sorts or goes on keeps the invariant when it lets no project that
\* was served later than one that waits come first.
LEMMA TurnInv ==
    ASSUME FairInv, NEW s \in Slots, slot[s].pc # "mark",
           NEW c \in [pc : {"rest", "order", "walk"}, left : Seq(Tenants),
                      taken : Tenants \union {None}],
           slot' = [slot EXCEPT ![s] = c], UNCHANGED <<queue, served, serve_seq, overtaken>>,
           \A w, q \in Tenants :
               Waits(w) /\ w # q /\ served[w] < served[q] /\ Prefers(c, q, w)
                   => Prefers(slot[s], q, w)
    PROVE  FairInv'
<1>1. FairTypeOK /\ slot \in [Slots -> [pc : {"rest", "order", "walk", "mark"},
                                      left : Seq(Tenants), taken : Tenants \union {None}]]
    BY DEF FairInv, FairTypeOK
<1>2. slot'[s] = c /\ \A r \in Slots \ {s} : slot'[r] = slot[r]
    BY <1>1
<1>3. FairTypeOK'
    BY <1>1, <1>2 DEF FairTypeOK
<1>4. \A w \in Tenants : Waits(w)' <=> Waits(w)
    BY DEF Waits
<1>5. \A w, q \in Tenants : ~Waits(w)' \/ w = q => overtaken'[w][q] = 0
    BY <1>4 DEF FairInv
<1>6. ASSUME NEW w \in Tenants, NEW q \in Tenants, w # q PROVE Budget(w, q)'
    <2>1. CASE ~Waits(w)
        BY <2>1, AnewBounded DEF FairInv
    <2>2. CASE Waits(w)
        <3>1. Others(w)' = Others(w)
            BY <1>2 DEF Others
        <3>2. MayTake(w, q)' \subseteq MayTake(w, q)
            <4> SUFFICES ASSUME NEW r \in Slots, r \in MayTake(w, q)'
                         PROVE  r \in MayTake(w, q)
                BY DEF MayTake, Others
            <4>1. CASE r # s
                BY <4>1, <1>2, <3>1 DEF MayTake, InFront
            <4>2. CASE r = s
                <5>1. served[w] \in Int /\ served[q] \in Int
                    BY <1>1 DEF FairTypeOK, NeverServed
                <5>2. CASE served[q] <= served[w]
                    BY <4>2, <5>2, <3>1 DEF MayTake
                <5>3. CASE served[w] < served[q]
                    <6>1. Prefers(c, q, w)
                        BY <4>2, <5>1, <5>3, <1>2 DEF MayTake, Prefers, InFront
                    <6>2. Prefers(slot[s], q, w)
                        BY <6>1, <5>3, <2>2, <1>6
                    <6>3. QED BY <6>2, <4>2, <3>1 DEF MayTake, Prefers
                <5>4. QED BY <5>1, <5>2, <5>3
            <4>3. QED BY <4>1, <4>2
        <3>3. QED BY <1>6, <3>1, <3>2, NoMoreBounded
    <2>3. QED BY <2>1, <2>2
<1>7. QED BY <1>3, <1>5, <1>6 DEF FairInv

\* A slot that asks for the candidates has no turn yet to overtake with.
LEMMA CandidatesInv ==
    ASSUME FairInv, NEW s \in Slots, Candidates(s)
    PROVE  FairInv'
<1>1. PICK new \in SetToSeqs(ToSet(queue)) :
        slot' = [slot EXCEPT ![s] = Turn("order", new, None)]
    BY DEF Candidates
<1>2. queue \in Seq(Tenants)
    BY DEF FairInv, FairTypeOK
<1>3. new \in Seq(ToSet(queue)) /\ ToSet(new) = ToSet(queue) /\ ToSet(queue) \subseteq Tenants
    BY <1>2, SeqSetFinite, Enumerated
<1>4. new \in Seq(Tenants)
    BY <1>3, SeqMonotonic
<1> DEFINE c == Turn("order", new, None)
<1>5. c \in [pc : {"rest", "order", "walk"}, left : Seq(Tenants), taken : Tenants \union {None}]
    BY <1>4 DEF Turn
<1>6. ASSUME NEW w \in Tenants, NEW q \in Tenants, Waits(w) PROVE ~Prefers(c, q, w)
    BY <1>3, <1>6 DEF Prefers, Waits, Turn
<1>7. slot[s].pc # "mark" /\ UNCHANGED <<queue, served, serve_seq, overtaken>>
    BY DEF Candidates
<1> HIDE DEF c
<1>8. slot' = [slot EXCEPT ![s] = c]
    BY <1>1 DEF c
<1>9. QED BY <1>5, <1>6, <1>7, <1>8, TurnInv

\* The sort puts who was served later behind who waits.
LEMMA OrderInv ==
    ASSUME FairInv, NEW s \in Slots, Order(s)
    PROVE  FairInv'
<1> DEFINE old == slot[s].left
<1>1. PICK new \in SetToSeqs(ToSet(old)) :
        /\ \A i, j \in DOMAIN new : i < j => Precedes(old, new[i], new[j])
        /\ slot' = [slot EXCEPT ![s] = Turn("walk", new, None)]
    BY DEF Order
<1>2. old \in Seq(Tenants)
    BY DEF FairInv, FairTypeOK
<1>3. /\ new \in Seq(ToSet(old)) /\ ToSet(new) = ToSet(old) /\ ToSet(old) \subseteq Tenants
      /\ DOMAIN new = 1 .. Len(new)
    BY <1>2, SeqSetFinite, Enumerated
<1>4. new \in Seq(Tenants) /\ Len(new) \in Nat
    BY <1>3, SeqMonotonic, LenProperties
<1>5. slot[s].pc = "order" /\ UNCHANGED <<queue, served, serve_seq, overtaken>>
    BY DEF Order
<1> DEFINE c == Turn("walk", new, None)
<1>6. c \in [pc : {"rest", "order", "walk"}, left : Seq(Tenants), taken : Tenants \union {None}]
    BY <1>4 DEF Turn
<1> HIDE DEF old
<1>7. ASSUME NEW w \in Tenants, NEW q \in Tenants, w # q, served[w] < served[q], Prefers(c, q, w)
      PROVE  Prefers(slot[s], q, w)
    <2>1. PICK j \in DOMAIN new : new[j] = q /\ \A i \in 1 .. j - 1 : new[i] # w
        BY <1>7 DEF Prefers, InFront, Turn
    <2>2. w \notin ToSet(new)
        <3> SUFFICES ASSUME w \in ToSet(new) PROVE FALSE
            OBVIOUS
        <3>1. PICK i \in DOMAIN new : new[i] = w
            BY DEF ToSet
        <3>2. i # j /\ i \in Nat /\ j \in Nat /\ 1 <= i
            BY <1>3, <1>4, <1>7, <2>1, <3>1
        <3>3. j < i
            BY <2>1, <3>1, <3>2
        <3>4. Precedes(old, q, w)
            BY <1>1, <2>1, <3>1, <3>3
        <3>5. served[w] \in Int /\ served[q] \in Int
            BY DEF FairInv, FairTypeOK, NeverServed
        <3>6. QED BY <1>7, <3>4, <3>5 DEF Precedes
    <2>3. QED BY <1>3, <1>5, <2>2 DEF Prefers, old
<1>8. slot[s].pc # "mark"
    BY <1>5
<1>9. slot' = [slot EXCEPT ![s] = c]
    BY <1>1
<1> HIDE DEF c
<1>10. QED BY <1>5, <1>6, <1>7, <1>8, <1>9, TurnInv

\* The walk goes on behind a project that does not wait.
LEMMA PassInv ==
    ASSUME FairInv, NEW s \in Slots, Pass(s)
    PROVE  FairInv'
<1> DEFINE old == slot[s].left
<1>1. old \in Seq(Tenants) /\ slot[s].pc = "walk" /\ UNCHANGED <<queue, served, serve_seq, overtaken>>
    BY DEF FairInv, FairTypeOK, Pass
<1>2. CASE old = <<>>
    <2>1. AtRest \in [pc : {"rest", "order", "walk"}, left : Seq(Tenants),
                      taken : Tenants \union {None}]
        BY DEF AtRest, Turn
    <2>2. slot' = [slot EXCEPT ![s] = AtRest]
        BY <1>2 DEF Pass
    <2>3. \A w, q \in Tenants : ~Prefers(AtRest, q, w)
        BY DEF Prefers, AtRest, Turn
    <2>4. slot[s].pc # "mark"
        BY <1>1
    <2> HIDE DEF old
    <2>5. QED BY <1>1, <2>1, <2>2, <2>3, <2>4, TurnInv
<1>3. CASE old # <<>>
    <2> DEFINE c == Turn("walk", Tail(old), None)
    <2>1. slot' = [slot EXCEPT ![s] = c] /\ ~Waits(Head(old))
        BY <1>3 DEF Pass
    <2>2. /\ Tail(old) \in Seq(Tenants) /\ Len(Tail(old)) = Len(old) - 1
          /\ \A i \in 1 .. Len(Tail(old)) : Tail(old)[i] = old[i + 1]
        BY <1>1, <1>3, HeadTailProperties
    <2>3. /\ Len(old) \in Nat /\ DOMAIN old = 1 .. Len(old)
          /\ DOMAIN Tail(old) = 1 .. Len(Tail(old)) /\ Head(old) = old[1]
        BY <1>1, <2>2, LenProperties
    <2>4. c \in [pc : {"rest", "order", "walk"}, left : Seq(Tenants),
                 taken : Tenants \union {None}]
        BY <2>2 DEF Turn
    <2>5. ASSUME NEW w \in Tenants, NEW q \in Tenants, Waits(w), Prefers(c, q, w)
          PROVE  Prefers(slot[s], q, w)
        <3>1. PICK j \in DOMAIN Tail(old) : Tail(old)[j] = q /\ \A i \in 1 .. j - 1 : Tail(old)[i] # w
            BY <2>5 DEF Prefers, InFront, Turn
        <3> HIDE DEF c, old
        <3>2. j \in 1 .. Len(old) - 1 /\ j + 1 \in DOMAIN old /\ old[j + 1] = q
            BY <2>2, <2>3, <3>1
        <3>3. ASSUME NEW i \in 1 .. j PROVE old[i] # w
            <4>1. CASE i = 1
                BY <4>1, <2>1, <2>3, <2>5
            <4>2. CASE i # 1
                <5>1. i - 1 \in 1 .. j - 1 /\ i - 1 \in 1 .. Len(Tail(old)) /\ (i - 1) + 1 = i
                    BY <4>2, <3>2, <2>2, <2>3
                <5>2. Tail(old)[i - 1] = old[i]
                    BY <5>1, <2>2
                <5>3. QED BY <5>1, <5>2, <3>1
            <4>3. QED BY <4>1, <4>2
        <3>4. \A i \in 1 .. (j + 1) - 1 : old[i] # w
            BY <3>2, <3>3
        <3>5. QED BY <3>2, <3>4, <1>1 DEF Prefers, InFront, old
    <2>6. slot[s].pc # "mark"
        BY <1>1
    <2> HIDE DEF c, old
    <2>7. QED BY <1>1, <2>1, <2>4, <2>5, <2>6, TurnInv
<1>4. QED BY <1>2, <1>3

\* A job is taken: its project has come in front in this walk, and the slot takes no
\* other one before it has marked the service.
LEMMA TakeInv ==
    ASSUME FairInv, NEW s \in Slots, Take(s)
    PROVE  FairInv'
<1> DEFINE old == slot[s].left
           p == Head(old)
           zero == [q \in Tenants |-> 0]
<1>1. /\ FairTypeOK /\ queue \in Seq(Tenants) /\ old \in Seq(Tenants)
      /\ slot \in [Slots -> [pc : {"rest", "order", "walk", "mark"}, left : Seq(Tenants),
                             taken : Tenants \union {None}]]
      /\ overtaken \in [Tenants -> [Tenants -> Nat]]
    BY DEF FairInv, FairTypeOK
<1>2. /\ slot[s].pc = "walk" /\ old # <<>> /\ Waits(p)
      /\ slot' = [slot EXCEPT ![s] = Turn("mark", <<>>, p)]
      /\ UNCHANGED <<served, serve_seq>>
    BY DEF Take
<1>3. PICK i \in DOMAIN queue : queue[i] = p /\ queue' = RemoveAt(queue, i)
    BY DEF Take
<1>4. overtaken' = [w \in Tenants |-> IF w = p \/ ~Waits(w) THEN zero
                                     ELSE [overtaken[w] EXCEPT ![p] = @ + 1]]
    BY DEF Take
<1>5. p \in Tenants /\ 1 \in DOMAIN old /\ old[1] = p
    BY <1>1, <1>2, HeadTailProperties, LenProperties
<1> HIDE DEF old, p, zero
<1>6. /\ queue' \in Seq(Tenants) /\ Len(queue') = Len(queue) - 1
      /\ \A w \in Tenants \ {p} : Waits(w)' <=> Waits(w)
    BY <1>1, <1>3, OneLess DEF Waits
<1>7. /\ zero \in [Tenants -> Nat] /\ \A q \in Tenants : zero[q] = 0
    BY DEF zero
<1>8. ASSUME NEW w \in Tenants
      PROVE  /\ overtaken'[w] \in [Tenants -> Nat]
             /\ w = p \/ ~Waits(w) => \A q \in Tenants : overtaken'[w][q] = 0
             /\ w # p /\ Waits(w) =>
                    \A q \in Tenants : overtaken'[w][q] = IF q = p THEN overtaken[w][q] + 1
                                                         ELSE overtaken[w][q]
    <2>1. CASE w = p \/ ~Waits(w)
        BY <2>1, <1>4, <1>7
    <2>2. CASE w # p /\ Waits(w)
        <3>1. overtaken'[w] = [overtaken[w] EXCEPT ![p] = @ + 1]
            BY <2>2, <1>4
        <3>2. overtaken[w] \in [Tenants -> Nat]
            BY <1>1
        <3>3. QED BY <2>2, <3>1, <3>2, <1>5
    <2>3. QED BY <2>1, <2>2
<1>9. slot'[s] = Turn("mark", <<>>, p) /\ \A r \in Slots \ {s} : slot'[r] = slot[r]
    BY <1>1, <1>2
<1>10. FairTypeOK'
    <2>1. Turn("mark", <<>>, p) \in [pc : {"rest", "order", "walk", "mark"}, left : Seq(Tenants),
                                    taken : Tenants \union {None}]
        BY <1>5 DEF Turn
    <2>2. slot' \in [Slots -> [pc : {"rest", "order", "walk", "mark"}, left : Seq(Tenants),
                              taken : Tenants \union {None}]]
        BY <1>1, <1>2, <2>1
    <2>3. ASSUME NEW r \in Slots, slot'[r].pc = "mark" PROVE slot'[r].taken \in Tenants
        <3>1. CASE r = s
            BY <2>3, <3>1, <1>5, <1>9 DEF Turn
        <3>2. CASE r # s
            BY <2>3, <3>2, <1>1, <1>9 DEF FairTypeOK
        <3>3. QED BY <3>1, <3>2
    <2>4. Len(queue') <= MaxQueued
        BY <1>1, <1>6, LenProperties, FairClaimAssumption DEF FairTypeOK
    <2>5. overtaken' \in [Tenants -> [Tenants -> Nat]]
        BY <1>4, <1>8
    <2>6. QED BY <1>1, <1>2, <1>6, <2>2, <2>3, <2>4, <2>5 DEF FairTypeOK
<1>11. ASSUME NEW w \in Tenants, NEW q \in Tenants, ~Waits(w)' \/ w = q
       PROVE  overtaken'[w][q] = 0
    <2>1. CASE w = p \/ ~Waits(w)
        BY <2>1, <1>8
    <2>2. CASE w # p /\ Waits(w)
        BY <2>2, <1>6, <1>8, <1>11 DEF FairInv
    <2>3. QED BY <2>1, <2>2
<1>12. ASSUME NEW w \in Tenants, NEW q \in Tenants, w # q PROVE Budget(w, q)'
    <2>1. CASE w = p \/ ~Waits(w)
        BY <2>1, <1>8, AnewBounded
    <2>2. CASE w # p /\ Waits(w)
        <3>1. Others(w)' = Others(w)
            BY <2>2, <1>2, <1>9 DEF Others, Turn
        <3>2. ASSUME NEW r \in MayTake(w, q)' PROVE r \in MayTake(w, q)
            <4>1. r \in Slots
                BY DEF MayTake, Others
            <4>2. CASE r # s
                BY <4>1, <4>2, <1>2, <1>9, <3>1 DEF MayTake, InFront
            <4>3. CASE r = s
                BY <4>3, <1>2, <1>9, <3>1 DEF MayTake, Turn
            <4>4. QED BY <4>2, <4>3
        <3>3. CASE q # p
            BY <2>2, <3>1, <3>2, <3>3, <1>8, <1>12, NoMoreBounded
        <3>4. CASE q = p
            <4>1. s \in MayTake(w, q)
                BY <2>2, <3>4, <1>2, <1>5 DEF MayTake, Others, InFront, old
            <4>2. s \notin MayTake(w, q)'
                BY <3>4, <1>9 DEF MayTake, Turn
            <4> DEFINE k == Cardinality(Others(w))
                       m == Cardinality(MayTake(w, q))
                       n == Cardinality(MayTake(w, q)')
                       o == overtaken[w][q]
            <4>3. MayTake(w, q)' \subseteq MayTake(w, q) \ {s}
                BY <3>2, <4>2
            <4>4. k \in Nat /\ m \in Nat /\ n \in Nat /\ n <= m - 1
                <5>1. k \in Nat /\ m \in Nat /\ n \in Nat /\ IsFiniteSet(MayTake(w, q))
                    BY AmongOthers, Sizes
                <5>2. /\ IsFiniteSet(MayTake(w, q) \ {s})
                      /\ Cardinality(MayTake(w, q) \ {s}) = m - 1
                    BY <4>1, <5>1, FS_RemoveElement
                <5>3. QED BY <4>3, <5>1, <5>2, FS_Subset
            <4>5. o \in Nat /\ 2 * (o + m) <= k * (k + 1) /\ overtaken'[w][q] = o + 1
                BY <1>1, <1>8, <1>12, <2>2, <3>4 DEF FairInv, Budget
            <4>6. k * (k + 1) \in Nat
                BY <4>4, Products
            <4> HIDE DEF k, m, n, o
            <4>7. 2 * ((o + 1) + n) <= k * (k + 1)
                BY <4>4, <4>5, <4>6
            <4>8. QED BY <3>1, <4>5, <4>7 DEF Budget, k, n
        <3>5. QED BY <3>3, <3>4
    <2>3. QED BY <2>1, <2>2
<1>13. QED BY <1>10, <1>11, <1>12 DEF FairInv

\* A service is marked: its project is now behind all others, and one slot more may take
\* jobs before one of it.
LEMMA MarkInv ==
    ASSUME FairInv, NEW s \in Slots, Mark(s)
    PROVE  FairInv'
<1> DEFINE p == slot[s].taken
<1>1. /\ FairTypeOK
      /\ slot \in [Slots -> [pc : {"rest", "order", "walk", "mark"}, left : Seq(Tenants),
                             taken : Tenants \union {None}]]
      /\ serve_seq \in Nat /\ served \in [Tenants -> NeverServed .. serve_seq - 1]
    BY DEF FairInv, FairTypeOK
<1>2. /\ slot[s].pc = "mark" /\ p \in Tenants /\ slot' = [slot EXCEPT ![s] = AtRest]
      /\ served' = [served EXCEPT ![p] = serve_seq] /\ serve_seq' = serve_seq + 1
      /\ UNCHANGED <<queue, overtaken>>
    BY DEF FairInv, FairTypeOK, Mark
<1> HIDE DEF p
<1>3. slot'[s] = AtRest /\ \A r \in Slots \ {s} : slot'[r] = slot[r]
    BY <1>1, <1>2
<1>4. /\ \A q \in Tenants : served[q] \in Int /\ served[q] < serve_seq
      /\ served'[p] = serve_seq /\ \A q \in Tenants \ {p} : served'[q] = served[q]
    BY <1>1, <1>2 DEF NeverServed
<1>5. FairTypeOK'
    <2>1. slot' \in [Slots -> [pc : {"rest", "order", "walk", "mark"}, left : Seq(Tenants),
                              taken : Tenants \union {None}]]
        BY <1>1, <1>2 DEF AtRest, Turn
    <2>2. ASSUME NEW r \in Slots, slot'[r].pc = "mark" PROVE slot'[r].taken \in Tenants
        <3>1. CASE r = s
            BY <2>2, <3>1, <1>3 DEF AtRest, Turn
        <3>2. CASE r # s
            BY <2>2, <3>2, <1>1, <1>3 DEF FairTypeOK
        <3>3. QED BY <3>1, <3>2
    <2>3. served' \in [Tenants -> NeverServed .. serve_seq' - 1] /\ serve_seq' \in Nat
        BY <1>1, <1>2 DEF NeverServed
    <2>4. \A q, r \in Tenants : served'[q] = served'[r] => q = r \/ served'[q] = NeverServed
        <3> SUFFICES ASSUME NEW q \in Tenants, NEW r \in Tenants, served'[q] = served'[r],
                            q # r
                     PROVE  served'[q] = NeverServed
            OBVIOUS
        <3>1. q # p /\ r # p
            BY <1>4
        <3>2. QED BY <3>1, <1>4, <1>1 DEF FairTypeOK
    <2>5. QED BY <1>1, <1>2, <2>1, <2>2, <2>3, <2>4 DEF FairTypeOK
<1>6. \A w, q \in Tenants : ~Waits(w)' \/ w = q => overtaken'[w][q] = 0
    BY <1>2 DEF FairInv, Waits
<1>7. ASSUME NEW w \in Tenants, NEW q \in Tenants, w # q PROVE Budget(w, q)'
    <2>1. CASE w = p
        <3> DEFINE k == Cardinality(Others(w))
                   l == Cardinality(Others(w)')
                   m == Cardinality(MayTake(w, q))
                   n == Cardinality(MayTake(w, q)')
                   o == overtaken[w][q]
        <3>1. s \notin Others(w)
            BY <2>1, <1>2 DEF Others, p
        <3>2. Others(w)' = Others(w) \union {s}
            BY <1>3, <3>1 DEF Others, AtRest, Turn
        <3>3. k \in Nat /\ m \in Nat /\ n \in Nat /\ n <= l /\ IsFiniteSet(Others(w))
            BY AmongOthers, Sizes
        <3>4. l = k + 1
            BY <3>1, <3>2, <3>3, FS_AddElement
        <3>5. o \in Nat /\ 2 * (o + m) <= k * (k + 1)
            BY <1>1, <1>7 DEF FairInv, FairTypeOK, Budget
        <3>6. k * (k + 1) \in Nat /\ (k + 1) * ((k + 1) + 1) = k * (k + 1) + 2 * (k + 1)
            BY <3>3, Products
        <3> HIDE DEF k, l, m, n, o
        <3>7. 2 * (o + n) <= (k + 1) * ((k + 1) + 1)
            BY <3>3, <3>4, <3>5, <3>6
        <3>8. QED BY <1>2, <3>4, <3>7 DEF Budget, k, l, n, o
    <2>2. CASE w # p
        <3>1. Others(w)' = Others(w)
            BY <2>2, <1>2, <1>3 DEF Others, AtRest, Turn, p
        <3>2. ASSUME NEW r \in MayTake(w, q)' PROVE r \in MayTake(w, q)
            <4>1. r \in Slots
                BY DEF MayTake, Others
            <4>2. ASSUME served'[q] <= served'[w] PROVE q # p /\ served[q] <= served[w]
                BY <4>2, <2>2, <1>4, <1>1
            <4>3. CASE r # s
                <5>1. slot'[r] = slot[r] /\ r \in Others(w)
                    BY <4>1, <4>3, <1>3, <3>1 DEF MayTake
                <5>2. QED BY <5>1, <4>2 DEF MayTake, InFront
            <4>4. CASE r = s
                <5>1. served'[q] <= served'[w]
                    BY <4>4, <1>3 DEF MayTake, AtRest, Turn
                <5>2. QED BY <5>1, <4>2, <4>4, <1>2, <3>1 DEF MayTake, p
            <4>5. QED BY <4>3, <4>4
        <3>3. QED BY <1>2, <1>7, <3>1, <3>2, NoMoreBounded
    <2>3. QED BY <2>1, <2>2
<1>8. QED BY <1>5, <1>6, <1>7 DEF FairInv

\* Every step of FairClaim keeps the budgets.
LEMMA FairStepInv == FairInv /\ [FairNext]_fair => FairInv'
<1> SUFFICES ASSUME FairInv, [FairNext]_fair PROVE FairInv'
    OBVIOUS
<1>1. CASE UNCHANGED fair
    <2>1. FairTypeOK' /\ \A w, q \in Tenants : ~Waits(w)' \/ w = q => overtaken'[w][q] = 0
        BY <1>1 DEF fair, FairInv, FairTypeOK, Waits
    <2>2. ASSUME NEW w \in Tenants, NEW q \in Tenants, w # q PROVE Budget(w, q)'
        <3>1. Others(w)' = Others(w)
            BY <1>1 DEF fair, Others
        <3>2. MayTake(w, q)' = MayTake(w, q)
            BY <1>1, <3>1 DEF fair, MayTake, InFront
        <3>3. QED BY <1>1, <2>2, <3>1, <3>2, NoMoreBounded DEF fair
    <2>3. QED BY <2>1, <2>2 DEF FairInv
<1>2. CASE FairNext
    BY <1>2, OfferInv, CandidatesInv, OrderInv, TakeInv, PassInv, MarkInv DEF FairNext, Claim
<1>3. QED BY <1>1, <1>2

\* The invariant of FairClaim, for any tenants, slots and jobs: the overtaking that a
\* project has suffered and may suffer yet is bounded by the slots that have no service
\* of it to mark.
THEOREM FairInvariance == ClaimSpec => []FairInv
BY FairInitInv, FairStepInv, PTL DEF ClaimSpec

\* A budget within all slots is the bound.
LEMMA BudgetBounds == FairInv => BoundedOvertaking
<1> SUFFICES ASSUME FairInv, NEW w \in Tenants, NEW q \in Tenants
             PROVE  LET n == Cardinality(Slots) IN overtaken[w][q] <= (n * (n + 1)) \div 2
    BY DEF BoundedOvertaking
<1> DEFINE n == Cardinality(Slots)
           k == Cardinality(Others(w))
           m == Cardinality(MayTake(w, q))
           o == overtaken[w][q]
<1>1. n \in Nat /\ k \in Nat /\ m \in Nat /\ k <= n /\ o \in Nat
    BY AmongOthers, Sizes DEF FairInv, FairTypeOK
<1>2. k * (k + 1) <= n * (n + 1) /\ k * (k + 1) \in Nat /\ n * (n + 1) \in Nat
    BY <1>1, Products, LargerProducts
<1>3. 2 * (o + m) <= k * (k + 1) \/ o = 0
    BY DEF FairInv, Budget
<1> HIDE DEF n, k, m, o
<1>4. 2 * o <= n * (n + 1)
    BY <1>1, <1>2, <1>3
<1>5. \A x \in Nat : 2 * o <= x => o <= x \div 2
    BY <1>1
<1>6. o <= (n * (n + 1)) \div 2
    BY <1>2, <1>4, <1>5
<1>7. QED BY <1>6 DEF n, o

\* "No tenant can starve the others" (scheduler.py:8): with n slots, each other project
\* is served at most n(n+1)/2 times while one waits, however many jobs it has.
THEOREM NoTenantStarves == ClaimSpec => []BoundedOvertaking
BY FairInvariance, BudgetBounds, PTL

-----------------------------------------------------------------------------
(* The hosted product.                                                     *)

\* What the environment does is a step of the part it acts on, and no step of the others.
LEMMA StepsOfParts ==
    ASSUME BillingInv, [Next]_hosted
    PROVE  /\ [EntitlementsNext]_entitlements /\ [FairNext]_fair /\ [HistoryNext]_history
<1>1. CASE BillingActs
    BY <1>1 DEF BillingActs
<1>2. CASE RequestsAct
    <2>1. project.tier \in Tiers
        BY DEF BillingInv, BillingTypeOK, Project, Tiers
    <2>2. EntitlementsNext
        BY <1>2, <2>1 DEF RequestsAct, EntitlementsNext, Serve
    <2>3. UNCHANGED <<billing, fair, history>>
        BY <1>2 DEF RequestsAct
    <2>4. QED BY <2>2, <2>3
<1>3. CASE EnqueueHome
    <2>1. EntitlementsNext
        BY <1>3 DEF EnqueueHome, EntitlementsNext, Serve
    <2>2. FairNext
        BY <1>3, HostedAssumption DEF EnqueueHome, FairNext
    <2>3. UNCHANGED <<billing, history>>
        BY <1>3 DEF EnqueueHome
    <2>4. QED BY <2>1, <2>2, <2>3
<1>4. CASE TenantActs
    BY <1>4 DEF TenantActs, EntitlementsNext
<1>5. CASE ClaimsAct
    BY <1>5 DEF ClaimsAct, FairNext
<1>6. CASE HistoryActs
    BY <1>6 DEF HistoryActs, HistoryNext, HistoryStep
<1>7. CASE UNCHANGED hosted
    BY <1>7 DEF hosted
<1>8. QED BY <1>1, <1>2, <1>3, <1>4, <1>5, <1>6, <1>7 DEF Next

\* A step of the product is one of Billing, whatever the others do.
LEMMA BillingSteps == [Next]_hosted => [BillingNext]_billing
<1> SUFFICES ASSUME [Next]_hosted PROVE [BillingNext]_billing
    OBVIOUS
<1>1. CASE BillingActs
    BY <1>1 DEF BillingActs, BillingNext, BillingFault
<1>2. CASE ~BillingActs
    BY <1>2 DEF Next, hosted, RequestsAct, EnqueueHome, TenantActs, ClaimsAct, HistoryActs
<1>3. QED BY <1>1, <1>2

\* The hosted product implements each of its parts: what one part does to the others is
\* what their own specifications allow, the tier that requests go by included.
THEOREM PartsImplemented == Spec => BillingSpec /\ EntitlementsSpec /\ ClaimSpec /\ HistorySpec
<1>1. Init => BillingInit /\ EntitlementsInit /\ FairInit /\ HistoryInit
    BY DEF Init
<1>2. Spec => BillingSpec
    BY <1>1, BillingSteps, PTL DEF Spec, BillingSpec
<1>3. Spec => []BillingInv
    BY <1>2, BillingInvariance, PTL
<1>4. BillingInv /\ [Next]_hosted =>
        [EntitlementsNext]_entitlements /\ [FairNext]_fair /\ [HistoryNext]_history
    BY StepsOfParts
<1>5. QED BY <1>1, <1>2, <1>3, <1>4, PTL DEF Spec, EntitlementsSpec, ClaimSpec, HistorySpec

\* The budgets of inputs are numbers: an input is taken only while there is one left.
LEMMA LeftTyped == Spec => [](left \in [Kinds -> Nat])
<1>1. Init => left \in [Kinds -> Nat]
    BY HostedAssumption DEF Init
<1>2. left \in [Kinds -> Nat] /\ [Next]_hosted => (left \in [Kinds -> Nat])'
    <2> SUFFICES ASSUME left \in [Kinds -> Nat], [Next]_hosted PROVE left' \in [Kinds -> Nat]
        OBVIOUS
    <2>1. ASSUME NEW kind \in Kinds, May(kind) PROVE left' \in [Kinds -> Nat]
        BY <2>1 DEF May
    <2>2. CASE \E kind \in Kinds : May(kind)
        BY <2>1, <2>2
    <2>3. CASE UNCHANGED left
        BY <2>3
    <2>4. QED
        BY <2>2, <2>3 DEF Next, hosted, BillingActs, RequestsAct, EnqueueHome, TenantActs,
            ClaimsAct, HistoryActs, Kinds
<1>3. QED BY <1>1, <1>2, PTL DEF Spec

\* The types of all parts, for any mix of inputs and faults.
THEOREM HostedTyped == Spec => []TypeOK
<1>1. BillingInv /\ EntitlementsInv /\ FairInv /\ HistoryInv /\ left \in [Kinds -> Nat] => TypeOK
    BY DEF BillingInv, EntitlementsInv, FairInv, HistoryInv, TypeOK
<1>2. QED
    BY <1>1, PartsImplemented, LeftTyped, BillingInvariance, EntitlementsInvariance,
        FairInvariance, HistoryInvariance, PTL

\* What holds of the parts holds of the product, whatever the mix of inputs and faults:
\* paid features, seats, quota, turns and retention.
THEOREM HostedSafe ==
    Spec => [](/\ TeamHasPrivate /\ SeatOverrunBounded /\ QuotaOverrunBounded
               /\ BoundedOvertaking /\ DeletedLeavesNothing)
BY PartsImplemented, PaidTogether, SeatsBounded, QuotaBounded, NoTenantStarves, NothingLeft, PTL
=============================================================================
