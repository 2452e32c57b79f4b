--------------------------- MODULE LiveRun_proofs ---------------------------
(***************************************************************************)
(* Proofs about LiveRun for any personas and viewers, any number of steps  *)
(* and denied requests, and any size of the replay buffer.                 *)
(***************************************************************************)
EXTENDS LiveRun, Lemmas

-----------------------------------------------------------------------------
(* Suffixes, element by element.                                           *)

\* A sequence is a suffix of another if the two agree when aligned at their ends.
LEMMA SuffixByElements ==
    ASSUME NEW S, NEW s \in Seq(S), NEW t \in Seq(S)
    PROVE  IsSuffixOf(s, t) <=>
              /\ Len(s) <= Len(t)
              /\ \A i \in 1 .. Len(s) : s[i] = t[Len(t) - Len(s) + i]
<1> DEFINE m == Len(t) - Len(s) + 1
           u == SubSeq(t, m, Len(t))
<1>1. Len(s) \in Nat /\ Len(t) \in Nat
  BY LenProperties
<1>2. ASSUME Len(s) <= Len(t)
      PROVE  /\ u \in Seq(S)
             /\ Len(u) = Len(s)
             /\ \A i \in 1 .. Len(s) : u[i] = t[Len(t) - Len(s) + i]
  <2>1. m \in Int /\ m >= 1 /\ Len(t) \in Int /\ Len(t) - m + 1 = Len(s)
    BY <1>1, <1>2
  <2>2. \A i \in m .. Len(t) : t[i] \in S
    BY <1>1, <2>1, ElementOfSeq
  <2> HIDE DEF m
  <2>3. /\ SubSeq(t, m, Len(t)) \in Seq(S)
        /\ Len(SubSeq(t, m, Len(t))) = IF m <= Len(t) THEN Len(t) - m + 1 ELSE 0
        /\ \A i \in 1 .. Len(t) - m + 1 : SubSeq(t, m, Len(t))[i] = t[m + i - 1]
    BY <2>1, <2>2, SubSeqProperties
  <2>4. \A i \in 1 .. Len(s) : m + i - 1 = Len(t) - Len(s) + i
    BY <1>1 DEF m
  <2> QED
    BY <1>1, <2>1, <2>3, <2>4
<1> HIDE DEF u
<1>3. ASSUME Len(s) <= Len(t), \A i \in 1 .. Len(s) : s[i] = t[Len(t) - Len(s) + i]
      PROVE  s = u
  BY <1>2, <1>3, SeqEqual
<1>4. ASSUME Len(s) <= Len(t), s = u
      PROVE  \A i \in 1 .. Len(s) : s[i] = t[Len(t) - Len(s) + i]
  BY <1>2, <1>4
<1> QED
  BY <1>3, <1>4 DEF IsSuffixOf, u

\* The empty sequence is a suffix.
LEMMA SuffixEmpty ==
    ASSUME NEW S, NEW t \in Seq(S)
    PROVE  IsSuffixOf(<<>>, t)
<1> DEFINE empty == <<>>
<1>1. empty \in Seq(S) /\ Len(empty) = 0 /\ Len(t) \in Nat
  BY EmptySeq, LenProperties
<1> HIDE DEF empty
<1>2. Len(empty) <= Len(t)
  BY <1>1
<1>3. \A i \in 1 .. Len(empty) : empty[i] = t[Len(t) - Len(empty) + i]
  BY <1>1
<1>4. IsSuffixOf(empty, t)
  BY <1>1, <1>2, <1>3, SuffixByElements
<1> QED
  BY <1>4 DEF empty

\* What is appended to both keeps one a suffix of the other.
LEMMA SuffixAppend ==
    ASSUME NEW S, NEW s \in Seq(S), NEW t \in Seq(S), NEW e \in S, IsSuffixOf(s, t)
    PROVE  IsSuffixOf(Append(s, e), Append(t, e))
<1>1. /\ Len(s) \in Nat /\ Len(t) \in Nat /\ Len(s) <= Len(t)
      /\ \A i \in 1 .. Len(s) : s[i] = t[Len(t) - Len(s) + i]
  BY SuffixByElements, LenProperties
<1>2. /\ Append(s, e) \in Seq(S) /\ Len(Append(s, e)) = Len(s) + 1
      /\ \A i \in 1 .. Len(s) : Append(s, e)[i] = s[i]
      /\ Append(s, e)[Len(s) + 1] = e
  BY AppendProperties
<1>3. /\ Append(t, e) \in Seq(S) /\ Len(Append(t, e)) = Len(t) + 1
      /\ \A i \in 1 .. Len(t) : Append(t, e)[i] = t[i]
      /\ Append(t, e)[Len(t) + 1] = e
  BY AppendProperties
<1>4. ASSUME NEW i \in 1 .. Len(s) + 1
      PROVE  Append(s, e)[i] = Append(t, e)[(Len(t) + 1) - (Len(s) + 1) + i]
  <2>1. CASE i = Len(s) + 1
    <3>1. (Len(t) + 1) - (Len(s) + 1) + i = Len(t) + 1
      BY <1>1, <2>1
    <3> QED
      BY <1>2, <1>3, <2>1, <3>1
  <2>2. CASE i # Len(s) + 1
    <3>1. i \in 1 .. Len(s) /\ (Len(t) + 1) - (Len(s) + 1) + i = Len(t) - Len(s) + i
      BY <1>1, <2>2
    <3>2. Len(t) - Len(s) + i \in 1 .. Len(t)
      BY <1>1, <3>1
    <3> QED
      BY <1>1, <1>2, <1>3, <3>1, <3>2
  <2> QED
    BY <2>1, <2>2
<1>5. Len(Append(s, e)) <= Len(Append(t, e))
  BY <1>1, <1>2, <1>3
<1> QED
  BY <1>2, <1>3, <1>4, <1>5, SuffixByElements

\* What is left of a suffix without its first element is one.
LEMMA SuffixTail ==
    ASSUME NEW S, NEW s \in Seq(S), NEW t \in Seq(S), s # <<>>, IsSuffixOf(s, t)
    PROVE  IsSuffixOf(Tail(s), t)
<1>1. /\ Len(s) \in Nat /\ Len(t) \in Nat /\ Len(s) <= Len(t)
      /\ \A i \in 1 .. Len(s) : s[i] = t[Len(t) - Len(s) + i]
  BY SuffixByElements, LenProperties
<1>2. Len(s) # 0
  BY EmptySeq
<1>3. /\ Tail(s) \in Seq(S) /\ Len(Tail(s)) = Len(s) - 1
      /\ \A i \in 1 .. Len(Tail(s)) : Tail(s)[i] = s[i + 1]
  BY HeadTailProperties
<1>4. ASSUME NEW i \in 1 .. Len(Tail(s))
      PROVE  Tail(s)[i] = t[Len(t) - Len(Tail(s)) + i]
  <2>1. i + 1 \in 1 .. Len(s) /\ Len(t) - Len(Tail(s)) + i = Len(t) - Len(s) + (i + 1)
    BY <1>1, <1>2, <1>3
  <2> QED
    BY <1>1, <1>3, <2>1
<1>5. Len(Tail(s)) <= Len(t)
  BY <1>1, <1>3
<1> QED
  BY <1>3, <1>4, <1>5, SuffixByElements

-----------------------------------------------------------------------------
(* The operations of the hub.                                              *)

\* publish keeps every queue and the buffer a suffix of what was published, also when
\* the buffer evicts.
LEMMA PublishKeepsHub ==
    ASSUME NEW Events, NEW e \in Events, HubTypeOK(Events), QueueIsSuffix, Publish(e)
    PROVE  /\ HubTypeOK(Events)'
           /\ QueueIsSuffix'
<1> DEFINE longer == Append(buffer, e)
<1>1. /\ log \in Seq(Events) /\ log' = Append(log, e) /\ log' \in Seq(Events)
      /\ longer \in Seq(Events) /\ Len(longer) = Len(buffer) + 1 /\ longer # <<>>
      /\ Len(buffer) \in Nat /\ Len(buffer) <= BufferSize
  BY AppendProperties, LenProperties DEF HubTypeOK, Publish
<1>2. IsSuffixOf(longer, log')
  BY SuffixAppend DEF HubTypeOK, QueueIsSuffix, Publish
<1> HIDE DEF longer
<1>3. /\ buffer' \in Seq(Events) /\ Len(buffer') <= BufferSize
      /\ IsSuffixOf(buffer', log')
  <2>1. CASE Len(longer) > BufferSize
    <3>1. buffer' = Tail(longer)
      BY <2>1 DEF Publish, Bounded, longer
    <3>2. Tail(longer) \in Seq(Events) /\ Len(Tail(longer)) = Len(longer) - 1
      BY <1>1, HeadTailProperties
    <3>3. IsSuffixOf(Tail(longer), log')
      BY <1>1, <1>2, SuffixTail
    <3> QED
      BY <1>1, <3>1, <3>2, <3>3, EventHubAssumption
  <2>2. CASE ~(Len(longer) > BufferSize)
    <3>1. buffer' = longer
      BY <2>2 DEF Publish, Bounded, longer
    <3> QED
      BY <1>1, <1>2, <2>2, <3>1, EventHubAssumption
  <2> QED
    BY <2>1, <2>2
<1>4. queue' \in [Viewers -> Seq(Events)]
  BY AppendProperties DEF HubTypeOK, Publish, FanOut
<1>5. subscribers' = subscribers /\ subscribers \subseteq Viewers
  BY DEF HubTypeOK, Publish
<1>6. ASSUME NEW v \in subscribers
      PROVE  IsSuffixOf(queue'[v], log')
  <2>1. queue'[v] = Append(queue[v], e) /\ queue[v] \in Seq(Events)
    BY <1>5, <1>6 DEF HubTypeOK, Publish, FanOut
  <2>2. IsSuffixOf(queue[v], log)
    BY <1>6 DEF QueueIsSuffix
  <2> QED
    BY <1>1, <2>1, <2>2, SuffixAppend
<1> QED
  BY <1>1, <1>3, <1>4, <1>5, <1>6 DEF HubTypeOK, QueueIsSuffix

\* A new subscriber starts with the buffer, which is a suffix of what was published.
LEMMA SubscribeKeepsHub ==
    ASSUME NEW Events, NEW v \in Viewers, HubTypeOK(Events), QueueIsSuffix, Subscribe(v)
    PROVE  /\ HubTypeOK(Events)'
           /\ QueueIsSuffix'
BY DEF HubTypeOK, QueueIsSuffix, Subscribe

\* What a subscriber takes was published, and the rest of its queue is still a suffix.
LEMMA TakeKeepsHub ==
    ASSUME NEW Events, NEW v \in subscribers, NEW leaving \in BOOLEAN,
           HubTypeOK(Events), QueueIsSuffix, Take(v, leaving)
    PROVE  /\ HubTypeOK(Events)'
           /\ QueueIsSuffix'
           /\ Head(queue[v]) \in Events
           /\ \E i \in 1 .. Len(log) : Head(queue[v]) = log[i]
<1>1. /\ v \in Viewers /\ queue[v] \in Seq(Events) /\ queue[v] # <<>>
      /\ log \in Seq(Events) /\ IsSuffixOf(queue[v], log)
  BY DEF HubTypeOK, QueueIsSuffix, Take
<1>2. /\ Head(queue[v]) \in Events /\ Tail(queue[v]) \in Seq(Events)
  BY <1>1, HeadTailProperties
<1>3. IsSuffixOf(Tail(queue[v]), log)
  BY <1>1, SuffixTail
<1>4. HubTypeOK(Events)'
  BY <1>2 DEF HubTypeOK, Take
<1>5. QueueIsSuffix'
  BY <1>1, <1>3 DEF QueueIsSuffix, HubTypeOK, Take
<1>6. \E i \in 1 .. Len(log) : Head(queue[v]) = log[i]
  <2>1. /\ Len(queue[v]) \in Nat /\ Len(queue[v]) # 0 /\ Len(log) \in Nat
    BY <1>1, EmptySeq, LenProperties
  <2>2. /\ Len(queue[v]) <= Len(log)
        /\ \A i \in 1 .. Len(queue[v]) :
              queue[v][i] = log[Len(log) - Len(queue[v]) + i]
    BY <1>1, SuffixByElements
  <2>3. queue[v][1] = log[Len(log) - Len(queue[v]) + 1]
    <3>1. 1 \in 1 .. Len(queue[v])
      BY <2>1
    <3> QED
      BY <2>2, <3>1
  <2>4. Len(log) - Len(queue[v]) + 1 \in 1 .. Len(log)
    BY <2>1, <2>2
  <2>5. Head(queue[v]) = queue[v][1]
    BY <1>1
  <2> QED
    BY <2>3, <2>4, <2>5
<1> QED
  BY <1>2, <1>4, <1>5, <1>6

-----------------------------------------------------------------------------
(* The events and the reducer.                                             *)

\* What _execute and the sessions publish are events.
LEMMA EventTypes ==
    /\ RunEvent("run_started") \in Event /\ RunEvent("run_finished") \in Event
    /\ \A p \in Personas : /\ PersonaEvent("persona_started", p, "") \in Event
                            /\ PersonaEvent("step", p, "") \in Event
                            /\ PersonaEvent("step", p, "shield") \in Event
    /\ \A p \in Personas, o \in Outcome : PersonaEvent("persona_finished", p, o) \in Event
BY DEF Event, RunEvent, PersonaEvent

\* reduceEvent returns a grid, which is finished only by run_finished.
LEMMA ReduceTypes ==
    ASSUME NEW grid \in Grid, NEW e \in Event
    PROVE  /\ Reduce(grid, e) \in Grid
           /\ Reduce(grid, e).status = "finished" =>
                 grid.status = "finished" \/ e.event = "run_finished"
<1>1. CASE e.event = "run_started"
  <2> DEFINE tiles == [p \in Personas |-> [status |-> "pending", blocked |-> 0]]
  <2>1. tiles \in [Personas -> Tile]
    BY DEF Tile
  <2>2. Reduce(grid, e) = [status |-> "running", tiles |-> tiles]
    BY <1>1 DEF Reduce
  <2> HIDE DEF tiles
  <2> QED
    BY <2>1, <2>2 DEF Grid
<1>2. CASE e.event = "run_finished"
  <2>1. Reduce(grid, e) = [grid EXCEPT !.status = "finished"]
    BY <1>2 DEF Reduce
  <2> QED
    BY <1>2, <2>1 DEF Grid
<1>3. CASE e.event \notin {"run_started", "run_finished"}
  <2> DEFINE tile == Tiled(grid.tiles[e.persona], e)
  <2>1. /\ e.persona \in Personas /\ e.event \in {"persona_started", "step", "persona_finished"}
        /\ grid.tiles[e.persona] \in Tile /\ grid.tiles \in [Personas -> Tile]
    BY <1>3 DEF Event, Grid
  <2>2. grid.tiles[e.persona].status # "none" => tile \in Tile
    BY <2>1 DEF Tiled, Tile
  <2>3. \/ Reduce(grid, e) = grid
        \/ /\ grid.tiles[e.persona].status # "none"
           /\ Reduce(grid, e) = [grid EXCEPT !.tiles[e.persona] = tile]
    BY <1>3 DEF Reduce
  <2> HIDE DEF tile
  <2> QED
    BY <2>1, <2>2, <2>3 DEF Grid
<1> QED
  BY <1>1, <1>2, <1>3

-----------------------------------------------------------------------------
(* The invariant, in the parts that the steps disturb separately.          *)

\* What the invariant says of the events: nobody has been sent the end of the run
\* before exec is "ended", and then only shields may follow it.
HubInv ==
    /\ HubTypeOK(Event)
    /\ QueueIsSuffix
    /\ FinishedIsLast
    /\ \A i \in 1 .. Len(log) : log[i].event = "run_finished" => exec = "ended"

\* The rest of the invariant, which is about the swarm and the viewers.
SwarmTypeOK ==
    /\ exec \in {"created", "probing", "gathering", "narrating", "ended"}
    /\ status \in {"running", "finished", "error"}
    /\ report \in BOOLEAN
    /\ stage \in [Personas -> {"waiting", "starting", "opening", "looping",
                               "closing", "returned"}]
    /\ step \in [Personas -> 0 .. MaxSteps]
    /\ denials \in 0 .. MaxDenials
    /\ shields \in [Personas -> 0 .. denials]
    /\ result \in [Personas -> Outcome]

ViewerTypeOK ==
    /\ conn \in [Viewers -> {"off", "open", "gone", "closed"}]
    /\ live \in [Viewers -> Grid]
    /\ \A v \in Viewers : v \in subscribers <=> conn[v] \in {"open", "gone"}

ExecEnds ==
    /\ exec \in {"created", "probing"} => \A p \in Personas : stage[p] = "waiting"
    /\ exec \in {"narrating", "ended"} =>
          \A p \in Personas : stage[p] \in {"waiting", "returned"}
    /\ exec = "ended" => status # "running"
    /\ status = "finished" => report

ViewersHear == \A v \in Viewers : live[v].status = "finished" => exec = "ended"

Parts == HubInv /\ SwarmTypeOK /\ ViewerTypeOK /\ ExecEnds /\ ViewersHear

\* They are the invariant.
LEMMA PartsAreInvariant == Parts => IInv
BY DEF Parts, IInv, HubInv, TypeOK, EndIsRecorded, SwarmTypeOK, ViewerTypeOK, ExecEnds,
       ViewersHear

\* They hold in the initial state.
LEMMA InitParts == Init => Parts
<1> SUFFICES ASSUME Init PROVE Parts
  OBVIOUS
<1>1. HubTypeOK(Event) /\ QueueIsSuffix
  <2>1. <<>> \in Seq(Event) /\ Len(<<>>) = 0
    BY EmptySeq
  <2>2. IsSuffixOf(<<>>, <<>>)
    BY <2>1, SuffixEmpty
  <2> QED
    BY <2>1, <2>2, EventHubAssumption DEF Init, HubInit, HubTypeOK, QueueIsSuffix
<1>2. HubInv
  <2>1. Len(log) = 0
    BY EmptySeq DEF Init, HubInit
  <2> QED
    BY <1>1, <2>1 DEF HubInv, FinishedIsLast
<1>3. SwarmTypeOK /\ ExecEnds
  <2>1. 0 \in 0 .. MaxSteps /\ 0 \in 0 .. MaxDenials /\ 0 \in 0 .. 0 /\ "error" \in Outcome
    BY LiveRunAssumption DEF Outcome
  <2> QED
    BY <2>1 DEF Init, SwarmTypeOK, ExecEnds
<1>4. EmptyGrid \in Grid /\ EmptyGrid.status = "idle"
  BY DEF EmptyGrid, Grid, NoTile, Tile
<1>5. ViewerTypeOK /\ ViewersHear
  BY <1>4 DEF Init, HubInit, ViewerTypeOK, ViewersHear
<1> QED
  BY <1>2, <1>3, <1>5 DEF Parts

-----------------------------------------------------------------------------
(* Its preservation, by the hub's operations first.                        *)

\* Publishing keeps it if the run is not announced early and nothing but a shield
\* comes after it.
LEMMA PublishKeepsOrder ==
    ASSUME NEW e \in Event, HubInv, Publish(e),
           exec = "ended" => exec' = "ended",
           e.event = "run_finished" => exec' = "ended",
           exec # "ended" \/ e.detail = "shield"
    PROVE  HubInv' /\ subscribers' = subscribers
<1>1. HubTypeOK(Event)' /\ QueueIsSuffix' /\ subscribers' = subscribers
  BY PublishKeepsHub DEF HubInv, Publish
<1>2. /\ log \in Seq(Event) /\ Len(log) \in Nat /\ Len(log') = Len(log) + 1
      /\ \A i \in 1 .. Len(log) : log'[i] = log[i]
      /\ log'[Len(log) + 1] = e
  BY AppendProperties, LenProperties DEF HubInv, HubTypeOK, Publish
<1>3. \A i \in 1 .. Len(log') : i \in 1 .. Len(log) \/ i = Len(log) + 1
  BY <1>2
<1>4. ASSUME NEW i \in 1 .. Len(log'), log'[i].event = "run_finished"
      PROVE  exec' = "ended"
  BY <1>2, <1>3, <1>4 DEF HubInv
<1>5. ASSUME NEW i \in 1 .. Len(log'), NEW k \in 1 .. Len(log'), i < k,
             log'[i].event = "run_finished"
      PROVE  log'[k].detail = "shield"
  <2>1. i \in 1 .. Len(log)
    BY <1>2, <1>5
  <2>2. CASE k \in 1 .. Len(log)
    BY <1>2, <1>5, <2>1, <2>2 DEF HubInv, FinishedIsLast
  <2>3. CASE k = Len(log) + 1
    <3>1. exec = "ended"
      BY <1>2, <1>5, <2>1 DEF HubInv
    <3> QED
      BY <1>2, <2>3, <3>1
  <2> QED
    BY <1>3, <2>2, <2>3
<1> QED
  BY <1>1, <1>4, <1>5 DEF HubInv, FinishedIsLast

\* A step that leaves the hub alone keeps it too.
LEMMA QuietKeepsOrder ==
    ASSUME HubInv, UNCHANGED hub, exec = "ended" => exec' = "ended"
    PROVE  HubInv' /\ subscribers' = subscribers
BY DEF HubInv, HubTypeOK, QueueIsSuffix, FinishedIsLast, hub

\* So do the operations of a viewer's endpoint.
LEMMA EndpointKeepsOrder ==
    ASSUME HubInv, NEW v \in Viewers, exec' = exec,
           \/ Subscribe(v)
           \/ v \in subscribers /\ \E leaving \in BOOLEAN : Take(v, leaving)
    PROVE  HubInv'
<1>1. HubTypeOK(Event)' /\ QueueIsSuffix'
  BY SubscribeKeepsHub, TakeKeepsHub DEF HubInv
<1>2. log' = log
  BY DEF Subscribe, Take
<1> QED
  BY <1>1, <1>2 DEF HubInv, FinishedIsLast

\* The viewers do not notice a step of the swarm that ends nothing it had not ended.
LEMMA SwarmKeepsViewers ==
    ASSUME ViewerTypeOK, ViewersHear, UNCHANGED viewer, subscribers' = subscribers,
           exec = "ended" => exec' = "ended"
    PROVE  ViewerTypeOK' /\ ViewersHear'
BY DEF ViewerTypeOK, ViewersHear, viewer

\* The steps of _execute.
LEMMA ExecuteKeeps == ASSUME Parts, Execute PROVE Parts'
<1> DEFINE Announces(e) == /\ e \in Event
                           /\ Publish(e)
                           /\ e.event = "run_finished" => exec' = "ended"
<1>0. HubInv /\ SwarmTypeOK /\ ViewerTypeOK /\ ExecEnds /\ ViewersHear
  BY DEF Parts
<1>1. exec # "ended" /\ UNCHANGED viewer
  BY DEF Execute, Start, ProbePasses, ProbeFails, EndInError, Build, BuildRaises, Announce,
         Gathered
<1>2. UNCHANGED hub \/ \E e \in Event : Announces(e)
  BY EventTypes DEF Execute, Start, ProbePasses, ProbeFails, EndInError, Build, BuildRaises, Announce,
         RunEvent
<1>3. HubInv' /\ subscribers' = subscribers
  BY <1>0, <1>1, <1>2, PublishKeepsOrder, QuietKeepsOrder
<1>4. SwarmTypeOK' /\ ExecEnds'
  <2>1. CASE Start
    BY <1>0, <2>1 DEF Start, SwarmTypeOK, ExecEnds
  <2>2. CASE ProbePasses
    BY <1>0, <2>2 DEF ProbePasses, SwarmTypeOK, ExecEnds
  <2>3. CASE ProbeFails
    BY <1>0, <2>3 DEF ProbeFails, EndInError, SwarmTypeOK, ExecEnds
  <2>4. CASE Build
    BY <1>0, <2>4 DEF Build, Gathered, AllReturned, SwarmTypeOK, ExecEnds
  <2>5. CASE BuildRaises
    BY <1>0, <2>5 DEF BuildRaises, Gathered, AllReturned, EndInError, SwarmTypeOK, ExecEnds
  <2>6. CASE Announce
    BY <1>0, <2>6 DEF Announce, SwarmTypeOK, ExecEnds
  <2> QED
    BY <2>1, <2>2, <2>3, <2>4, <2>5, <2>6 DEF Execute
<1>5. ViewerTypeOK' /\ ViewersHear'
  BY <1>0, <1>1, <1>3, SwarmKeepsViewers
<1> QED
  BY <1>3, <1>4, <1>5 DEF Parts
\* The steps of a persona's session: once it has begun, exec stays "gathering" until
\* it has returned.
LEMMA SessionKeeps == ASSUME Parts, NEW p \in Personas, Session(p) PROVE Parts'
<1> USE DEF Go
<1>0. HubInv /\ SwarmTypeOK /\ ViewerTypeOK /\ ExecEnds /\ ViewersHear
  BY DEF Parts
<1>1. /\ stage[p] \notin {"waiting", "returned"} /\ exec' = exec /\ UNCHANGED viewer
      /\ UNCHANGED <<exec, status, report>>
  BY DEF Session, RunnerRaises, Open, Begin, GotoFails, TakeStep, EndLoop, Finish
<1>2. exec = "gathering"
  BY <1>0, <1>1 DEF SwarmTypeOK, ExecEnds
<1>3. \/ UNCHANGED hub
      \/ \E e \in Event : Publish(e) /\ e.event # "run_finished"
  <2>1. result[p] \in Outcome
    BY <1>0 DEF SwarmTypeOK
  <2> QED
    BY <2>1, EventTypes DEF Session, RunnerRaises, Open, Begin, GotoFails, TakeStep, EndLoop, Finish,
                PersonaEvent
<1>4. HubInv' /\ subscribers' = subscribers
  BY <1>0, <1>1, <1>2, <1>3, PublishKeepsOrder, QuietKeepsOrder
<1>5. ExecEnds'
  BY <1>0, <1>1, <1>2 DEF ExecEnds
<1>6. SwarmTypeOK'
  <2>1. CASE RunnerRaises(p)
    BY <1>0, <2>1 DEF RunnerRaises, SwarmTypeOK
  <2>2. CASE Open(p)
    BY <1>0, <2>2 DEF Open, SwarmTypeOK
  <2>3. CASE Begin(p)
    BY <1>0, <2>3 DEF Begin, SwarmTypeOK
  <2>4. CASE GotoFails(p)
    BY <1>0, <2>4 DEF GotoFails, SwarmTypeOK
  <2>5. CASE TakeStep(p)
    <3>1. step[p] \in 0 .. MaxSteps /\ step[p] < MaxSteps
      BY <1>0, <2>5 DEF TakeStep, SwarmTypeOK
    <3>2. step[p] + 1 \in 0 .. MaxSteps
      BY <3>1, LiveRunAssumption
    <3> QED
      BY <1>0, <2>5, <3>2 DEF TakeStep, SwarmTypeOK
  <2>6. CASE EndLoop(p)
    BY <1>0, <2>6 DEF EndLoop, SwarmTypeOK
  <2>7. CASE Finish(p)
    BY <1>0, <2>7 DEF Finish, SwarmTypeOK
  <2> QED
    BY <2>1, <2>2, <2>3, <2>4, <2>5, <2>6, <2>7 DEF Session
<1>7. ViewerTypeOK' /\ ViewersHear'
  BY <1>0, <1>1, <1>4, SwarmKeepsViewers
<1> QED
  BY <1>4, <1>5, <1>6, <1>7 DEF Parts

\* A denied request is counted before its handler is.
LEMMA DenyKeeps == ASSUME Parts, NEW p \in Personas, Deny(p) PROVE Parts'
<1>0. HubInv /\ SwarmTypeOK /\ ViewerTypeOK /\ ExecEnds /\ ViewersHear
  BY DEF Parts
<1>1. HubInv' /\ subscribers' = subscribers
  BY <1>0, QuietKeepsOrder DEF Deny
<1>2. ViewerTypeOK' /\ ViewersHear'
  BY <1>0, <1>1, SwarmKeepsViewers DEF Deny
<1>3. ExecEnds'
  BY <1>0 DEF Deny, ExecEnds
<1>4. denials' \in 0 .. MaxDenials /\ shields' \in [Personas -> 0 .. denials']
  <2>1. denials \in Nat /\ denials' = denials + 1 /\ denials < MaxDenials
    BY <1>0, LiveRunAssumption DEF Deny, SwarmTypeOK
  <2>2. \A q \in Personas : shields[q] \in 0 .. denials' /\ shields[q] + 1 \in 0 .. denials'
    BY <1>0, <2>1 DEF SwarmTypeOK
  <2>3. shields' = [shields EXCEPT ![p] = shields[p] + 1] /\ DOMAIN shields = Personas
    BY <1>0 DEF Deny, SwarmTypeOK
  <2> QED
    BY <2>1, <2>2, <2>3, <1>0, LiveRunAssumption DEF SwarmTypeOK
<1>5. SwarmTypeOK'
  BY <1>0, <1>4 DEF Deny, SwarmTypeOK
<1> QED
  BY <1>1, <1>2, <1>3, <1>5 DEF Parts

\* A late handler may speak after the end, but only as a shield.
LEMMA ShieldKeeps == ASSUME Parts, NEW p \in Personas, Shield(p) PROVE Parts'
<1>0. HubInv /\ SwarmTypeOK /\ ViewerTypeOK /\ ExecEnds /\ ViewersHear
  BY DEF Parts
<1>1. PersonaEvent("step", p, "shield") \in Event
  BY EventTypes
<1>2. /\ PersonaEvent("step", p, "shield").event # "run_finished"
      /\ PersonaEvent("step", p, "shield").detail = "shield"
  BY DEF PersonaEvent
<1>3. HubInv' /\ subscribers' = subscribers
  <2>1. exec' = exec /\ (Publish(PersonaEvent("step", p, "shield")) \/ UNCHANGED hub)
    BY DEF Shield
  <2> QED
    BY <1>0, <1>1, <1>2, <2>1, PublishKeepsOrder, QuietKeepsOrder
<1>4. ViewerTypeOK' /\ ViewersHear'
  BY <1>0, <1>3, SwarmKeepsViewers DEF Shield
<1>5. ExecEnds'
  BY <1>0 DEF Shield, ExecEnds
<1>6. SwarmTypeOK'
  <2>1. shields[p] \in 0 .. denials /\ denials \in Nat
    BY <1>0, LiveRunAssumption DEF SwarmTypeOK
  <2>2. shields[p] - 1 \in 0 .. denials
    BY <2>1 DEF Shield
  <2> QED
    BY <1>0, <2>2 DEF Shield, SwarmTypeOK
<1> QED
  BY <1>3, <1>4, <1>5, <1>6 DEF Parts

\* The steps of a viewer and of its endpoint: what a viewer is shown was published.
LEMMA ViewerKeeps ==
    ASSUME Parts, NEW v \in Viewers, Connect(v) \/ Serve(v) \/ Leave(v)
    PROVE  Parts'
<1>0. HubInv /\ SwarmTypeOK /\ ViewerTypeOK /\ ExecEnds /\ ViewersHear
  BY DEF Parts
<1>1. UNCHANGED swarm
  BY DEF Connect, Serve, Send, SendFails, Leave
<1>2. SwarmTypeOK' /\ ExecEnds' /\ exec' = exec
  BY <1>0, <1>1 DEF swarm, SwarmTypeOK, ExecEnds
<1>3. CASE Connect(v)
  <2>1. HubInv'
    BY <1>0, <1>2, <1>3, EndpointKeepsOrder DEF Connect
  <2>2. ViewerTypeOK' /\ ViewersHear'
    BY <1>0, <1>2, <1>3 DEF Connect, Subscribe, ViewerTypeOK, ViewersHear
  <2> QED
    BY <1>2, <2>1, <2>2 DEF Parts
<1>4. CASE Send(v)
  <2> DEFINE e == Head(queue[v])
             leaving == e.event = "run_finished"
  <2>1. v \in subscribers /\ leaving \in BOOLEAN /\ Take(v, leaving)
    BY <1>0, <1>4 DEF Send, ViewerTypeOK
  <2>2. HubInv'
    BY <1>0, <1>2, <2>1, EndpointKeepsOrder
  <2>3. e \in Event /\ \E i \in 1 .. Len(log) : e = log[i]
    BY <1>0, <2>1, TakeKeepsHub DEF HubInv
  <2>4. leaving => exec = "ended"
    BY <1>0, <2>3 DEF HubInv
  <2>5. /\ Reduce(live[v], e) \in Grid
        /\ Reduce(live[v], e).status = "finished" => live[v].status = "finished" \/ leaving
    BY <1>0, <2>3, ReduceTypes DEF ViewerTypeOK
  <2>6. /\ live' = [live EXCEPT ![v] = Reduce(live[v], e)]
        /\ subscribers' = IF leaving THEN subscribers \ {v} ELSE subscribers
        /\ conn' = IF leaving THEN [conn EXCEPT ![v] = "closed"] ELSE conn
        /\ conn[v] = "open"
    BY <1>4 DEF Send, Take
  <2> HIDE DEF e, leaving
  <2>7. ViewersHear'
    BY <1>0, <1>2, <2>4, <2>5, <2>6 DEF ViewerTypeOK, ViewersHear
  <2>8. ViewerTypeOK'
    BY <1>0, <2>5, <2>6 DEF ViewerTypeOK
  <2> QED
    BY <1>2, <2>2, <2>7, <2>8 DEF Parts
<1>5. CASE SendFails(v)
  <2>1. PICK leaving \in BOOLEAN :
            /\ Take(v, leaving)
            /\ conn' = IF leaving THEN [conn EXCEPT ![v] = "closed"] ELSE conn
    BY <1>5 DEF SendFails
  <2>2. v \in subscribers /\ conn[v] = "gone" /\ live' = live
    BY <1>0, <1>5 DEF SendFails, ViewerTypeOK
  <2>3. HubInv'
    BY <1>0, <1>2, <2>1, <2>2, EndpointKeepsOrder
  <2>4. ViewerTypeOK' /\ ViewersHear'
    BY <1>0, <1>2, <2>1, <2>2 DEF Take, ViewerTypeOK, ViewersHear
  <2> QED
    BY <1>2, <2>3, <2>4 DEF Parts
<1>6. CASE Leave(v)
  <2>1. HubInv' /\ subscribers' = subscribers
    BY <1>0, <1>2, <1>6, QuietKeepsOrder DEF Leave
  <2>2. ViewerTypeOK' /\ ViewersHear'
    BY <1>0, <1>2, <1>6, <2>1 DEF Leave, ViewerTypeOK, ViewersHear
  <2> QED
    BY <1>2, <2>1, <2>2 DEF Parts
<1> QED
  BY <1>3, <1>4, <1>5, <1>6 DEF Serve

\* A step that changes nothing.
LEMMA StutterKeeps == ASSUME Parts, UNCHANGED vars PROVE Parts'
BY DEF Parts, vars, hub, swarm, viewer, HubInv, HubTypeOK, QueueIsSuffix, FinishedIsLast,
       SwarmTypeOK, ViewerTypeOK, ExecEnds, ViewersHear

-----------------------------------------------------------------------------
(* The theorems.                                                           *)

\* The invariant is one.
THEOREM Invariance == Spec => []IInv
<1>1. Parts /\ [Next]_vars => Parts'
  BY ExecuteKeeps, SessionKeeps, DenyKeeps, ShieldKeeps, ViewerKeeps, StutterKeeps DEF Next
<1> QED
  BY <1>1, InitParts, PartsAreInvariant, PTL DEF Spec

\* The state of the server and of every browser is well typed.
THEOREM TypeCorrect == Spec => []TypeOK
<1>1. IInv => TypeOK
  BY DEF IInv
<1> QED
  BY <1>1, Invariance, PTL

\* A viewer, whenever it subscribed, is owed a gapless end of what was published.
THEOREM BacklogsAreSuffixes == Spec => []QueueIsSuffix
<1>1. IInv => QueueIsSuffix
  BY DEF IInv
<1> QED
  BY <1>1, Invariance, PTL

\* Nothing but late shields follows run_finished.
THEOREM NothingFollowsTheEnd == Spec => []FinishedIsLast
<1>1. IInv => FinishedIsLast
  BY DEF IInv
<1> QED
  BY <1>1, Invariance, PTL

\* Whoever sees the end finds the run closed, with its report unless it failed.
THEOREM ReportsAreReady == Spec => []ReportReady
<1>1. IInv => ReportReady
  BY DEF IInv, EndIsRecorded, ReportReady
<1> QED
  BY <1>1, Invariance, PTL

-----------------------------------------------------------------------------
(***************************************************************************)
(* What the grid says at the end is what the report says.  The events tell *)
(* how every session ended that came to anything, and nothing that is told *)
(* later of the same persona takes it back; a viewer that has the tiles    *)
(* has drawn everything but its queue, which therefore holds every ending  *)
(* that the tiles do not show yet.                                         *)
(***************************************************************************)

\* The notice that a session is over.
Notice(p) == PersonaEvent("persona_finished", p, result[p])

\* run_started comes first, and once.
StartFirst == \A i \in 1 .. Len(log) : log[i].event = "run_started" => i = 1

\* The notice of a session comes after it and says how it ended.
Noticed ==
    \A i \in 1 .. Len(log) : log[i].event = "persona_finished" =>
        stage[log[i].persona] = "returned" /\ log[i] = Notice(log[i].persona)

\* After it nothing but a late step is heard of the persona.
NoticeIsLast ==
    \A i, k \in 1 .. Len(log) :
        /\ i < k
        /\ log[i].event = "persona_finished"
        /\ log[k].persona = log[i].persona
        => log[k].event = "step"

\* A session that came to anything has been announced.
Told ==
    \A p \in Personas : stage[p] = "returned" /\ result[p] # "error" =>
        \E i \in 1 .. Len(log) : log[i] = Notice(p)

LogStory == StartFirst /\ Noticed /\ NoticeIsLast /\ Told

SwarmStory ==
    /\ exec = "created" => log = <<>> /\ \A p \in Personas : shields[p] = 0
    /\ \A p \in Personas :
          stage[p] \in {"waiting", "starting", "opening"} => result[p] = "error"
    /\ exec = "narrating" \/ report => AllReturned
    /\ report => exec = "ended"

Over(tile) == tile.status \in {"success", "abandoned"}

\* The session of a tile that is there is over and came to something.
Ended(v, p) ==
    live[v].tiles[p].status # "none" /\ stage[p] = "returned" /\ result[p] # "error"

TileTells(v, p) ==
    /\ conn[v] = "off" => live[v].tiles[p].status = "none"
    /\ Over(live[v].tiles[p]) =>
          /\ stage[p] = "returned"
          /\ live[v].tiles[p].status = "success" <=> result[p] = "success"
    /\ conn[v] = "open" /\ Over(live[v].tiles[p]) =>
          \A i \in 1 .. Len(queue[v]) :
              queue[v][i].persona = p => queue[v][i].event = "step"
    /\ conn[v] = "open" /\ Ended(v, p) =>
          \/ Over(live[v].tiles[p])
          \/ \E i \in 1 .. Len(queue[v]) : queue[v][i] = Notice(p)
    /\ live[v].status = "finished" /\ Ended(v, p) => Over(live[v].tiles[p])

EndsClosed == \A v \in Viewers : live[v].status = "finished" => conn[v] = "closed"

GridTells == EndsClosed /\ \A v \in Viewers, p \in Personas : TileTells(v, p)

StoryInv == Parts /\ LogStory /\ SwarmStory /\ GridTells

\* What the story says at the end.
LEMMA StoryMatches == StoryInv => GridMatchesReport
<1> SUFFICES ASSUME StoryInv, NEW v \in Viewers, live[v].status = "finished", report,
                    Created(live[v]), NEW p \in Personas
             PROVE  /\ live[v].tiles[p].status = "success" <=> result[p] = "success"
                    /\ live[v].tiles[p].status \in {"pending", "running"} => result[p] = "error"
  BY DEF GridMatchesReport
<1>1. TileTells(v, p) /\ stage[p] = "returned" /\ live[v].tiles[p].status # "none"
  BY DEF StoryInv, GridTells, SwarmStory, AllReturned, Created
<1>2. result[p] # "error" => Over(live[v].tiles[p])
  BY <1>1 DEF TileTells, Ended
<1>3. Over(live[v].tiles[p]) => (live[v].tiles[p].status = "success" <=> result[p] = "success")
  BY <1>1 DEF TileTells
<1> QED
  BY <1>2, <1>3 DEF Over

\* At the beginning there is nothing to tell.
LEMMA InitStory == Init => StoryInv
<1> SUFFICES ASSUME Init PROVE StoryInv
  OBVIOUS
<1>1. Parts
  BY InitParts
<1>2. Len(log) = 0 /\ log = <<>>
  BY EmptySeq DEF Init, HubInit
<1>3. LogStory /\ SwarmStory
  BY <1>2 DEF Init, LogStory, StartFirst, Noticed, NoticeIsLast, Told, SwarmStory
<1>4. GridTells
  BY DEF Init, GridTells, EndsClosed, TileTells, Ended, EmptyGrid, NoTile, Over
<1> QED
  BY <1>1, <1>3, <1>4 DEF StoryInv

\* What a step of the swarm may do to the sessions: an end is final, and no session
\* ends in anything once the run has.
Ends ==
    /\ \A p \in Personas : stage[p] = "returned" =>
          stage'[p] = "returned" /\ result'[p] = result[p]
    /\ exec = "ended" => stage' = stage /\ result' = result

\* What is published are events, and the notices are about personas.
LEMMA Heard ==
    ASSUME HubTypeOK(Event)
    PROVE  \A i \in 1 .. Len(log) :
              /\ log[i] \in Event
              /\ log[i].event = "persona_finished" => log[i].persona \in Personas
<1>1. \A i \in 1 .. Len(log) : log[i] \in Event
  BY ElementOfSeq DEF HubTypeOK
<1> QED
  BY <1>1 DEF Event

\* A step that tells nothing keeps the story if no session comes to anything by it.
LEMMA QuietTells ==
    ASSUME LogStory, GridTells, ViewersHear, UNCHANGED <<hub, viewer>>, Ends,
           \A p \in Personas : stage'[p] = "returned" /\ result'[p] # "error" =>
               stage[p] = "returned",
           HubTypeOK(Event), SwarmTypeOK
    PROVE  LogStory' /\ GridTells'
<1>1. \A i \in 1 .. Len(log) : log[i].event = "persona_finished" => log[i].persona \in Personas
  BY Heard
<1>2. log' = log /\ queue' = queue /\ live' = live /\ conn' = conn
  BY DEF hub, viewer
<1>3. StartFirst' /\ NoticeIsLast'
  BY <1>2 DEF LogStory, StartFirst, NoticeIsLast
<1>4. Noticed' /\ Told'
  BY <1>1, <1>2 DEF LogStory, Noticed, Told, Notice, Ends
<1>5. EndsClosed'
  BY <1>2 DEF GridTells, EndsClosed
<1>6. ASSUME NEW v \in Viewers, NEW p \in Personas PROVE TileTells(v, p)'
  <2>1. TileTells(v, p)
    BY DEF GridTells
  <2>2. Ended(v, p)' => Ended(v, p)
    BY <1>2 DEF Ended, Ends
  <2> QED
    BY <1>2, <2>1, <2>2 DEF TileTells, Ends, Notice, Over, Ended
<1> QED
  BY <1>3, <1>4, <1>5, <1>6 DEF LogStory, GridTells

\* A step that tells something keeps it if it starts the run or tells of a session
\* that is not over, the notice excepted, or is late.
LEMMA PublishTells ==
    ASSUME LogStory, GridTells, ViewersHear, HubTypeOK(Event), SwarmTypeOK, ViewerTypeOK,
           NEW e \in Event, Publish(e), UNCHANGED viewer, Ends,
           e.event = "run_started" => log = <<>>,
           e.event = "persona_finished" =>
               stage'[e.persona] = "returned" /\ e = Notice(e.persona)',
           e.persona \in Personas /\ stage[e.persona] = "returned" => e.event = "step",
           \A p \in Personas : stage'[p] = "returned" /\ result'[p] # "error" =>
               stage[p] = "returned" \/ e = Notice(p)'
    PROVE  LogStory' /\ GridTells'
<1>1. /\ Len(log) \in Nat /\ Len(log') = Len(log) + 1
      /\ \A i \in 1 .. Len(log) : log'[i] = log[i]
      /\ log'[Len(log) + 1] = e
      /\ \A i \in 1 .. Len(log') : i \in 1 .. Len(log) \/ i = Len(log) + 1
  BY AppendProperties, LenProperties DEF HubTypeOK, Publish
<1>2. \A i \in 1 .. Len(log) : log[i].event = "persona_finished" => log[i].persona \in Personas
  BY Heard
<1>3. StartFirst'
  <2>1. ASSUME NEW i \in 1 .. Len(log'), log'[i].event = "run_started" PROVE i = 1
    <3>1. CASE i \in 1 .. Len(log)
      BY <1>1, <2>1, <3>1 DEF LogStory, StartFirst
    <3>2. CASE i = Len(log) + 1
      <4>1. log = <<>> /\ Len(log) = 0
        BY <1>1, <2>1, <3>2, EmptySeq
      <4> QED
        BY <3>2, <4>1
    <3> QED
      BY <1>1, <3>1, <3>2
  <2> QED
    BY <2>1 DEF StartFirst
<1>4. Noticed'
  <2>1. ASSUME NEW i \in 1 .. Len(log'), log'[i].event = "persona_finished"
        PROVE  /\ stage'[log'[i].persona] = "returned"
               /\ log'[i] = PersonaEvent("persona_finished", log'[i].persona,
                                         result'[log'[i].persona])
    <3>1. CASE i \in 1 .. Len(log)
      BY <1>1, <1>2, <2>1, <3>1 DEF LogStory, Noticed, Notice, Ends
    <3>2. CASE i = Len(log) + 1
      BY <1>1, <2>1, <3>2 DEF Notice
    <3> QED
      BY <1>1, <3>1, <3>2
  <2> QED
    BY <2>1 DEF Noticed, Notice
<1>5. NoticeIsLast'
  <2>1. ASSUME NEW i \in 1 .. Len(log'), NEW k \in 1 .. Len(log'), i < k,
               log'[i].event = "persona_finished", log'[k].persona = log'[i].persona
        PROVE  log'[k].event = "step"
    <3>1. i \in 1 .. Len(log)
      BY <1>1, <2>1
    <3>2. stage[log[i].persona] = "returned" /\ log[i].persona \in Personas
      BY <1>1, <1>2, <2>1, <3>1 DEF LogStory, Noticed
    <3>3. CASE k \in 1 .. Len(log)
      BY <1>1, <2>1, <3>1, <3>3 DEF LogStory, NoticeIsLast
    <3>4. CASE k = Len(log) + 1
      BY <1>1, <2>1, <3>1, <3>2, <3>4
    <3> QED
      BY <1>1, <3>3, <3>4
  <2> QED
    BY <2>1 DEF NoticeIsLast
<1>6. Told'
  <2>1. ASSUME NEW p \in Personas, stage'[p] = "returned", result'[p] # "error"
        PROVE  \E i \in 1 .. Len(log') : log'[i] = Notice(p)'
    <3>1. CASE stage[p] = "returned"
      <4>1. result'[p] = result[p] /\ Notice(p)' = Notice(p)
        BY <3>1 DEF Ends, Notice
      <4>2. PICK i \in 1 .. Len(log) : log[i] = Notice(p)
        BY <2>1, <3>1, <4>1 DEF LogStory, Told
      <4>3. i \in 1 .. Len(log') /\ log'[i] = Notice(p)'
        BY <1>1, <4>1, <4>2
      <4> QED
        BY <4>3
    <3>2. CASE e = Notice(p)'
      <4>1. Len(log) + 1 \in 1 .. Len(log')
        BY <1>1
      <4> QED
        BY <1>1, <3>2, <4>1
    <3> QED
      BY <2>1, <3>1, <3>2
  <2> QED
    BY <2>1 DEF Told, Notice
<1>7. live' = live /\ conn' = conn
  BY DEF viewer
<1>8. EndsClosed'
  BY <1>7 DEF GridTells, EndsClosed
<1>9. ASSUME NEW v \in Viewers, NEW p \in Personas PROVE TileTells(v, p)'
  <2>1. TileTells(v, p)
    BY DEF GridTells
  <2>2. ASSUME conn[v] = "open"
        PROVE  /\ Len(queue[v]) \in Nat /\ Len(queue'[v]) = Len(queue[v]) + 1
               /\ \A i \in 1 .. Len(queue[v]) : queue'[v][i] = queue[v][i]
               /\ queue'[v][Len(queue[v]) + 1] = e
    <3>1. v \in subscribers /\ queue[v] \in Seq(Event) /\ queue'[v] = Append(queue[v], e)
      BY <2>2 DEF ViewerTypeOK, HubTypeOK, Publish, FanOut
    <3> QED
      BY <3>1, AppendProperties, LenProperties
  <2>3. Over(live[v].tiles[p]) =>
            /\ stage'[p] = "returned"
            /\ live[v].tiles[p].status = "success" <=> result'[p] = "success"
    BY <2>1 DEF TileTells, Ends
  <2>4. ASSUME conn[v] = "open", Over(live[v].tiles[p]), NEW i \in 1 .. Len(queue'[v]),
               queue'[v][i].persona = p
        PROVE  queue'[v][i].event = "step"
    <3>1. CASE i \in 1 .. Len(queue[v])
      BY <2>1, <2>2, <2>4, <3>1 DEF TileTells
    <3>2. CASE i = Len(queue[v]) + 1
      BY <2>1, <2>2, <2>4, <3>2 DEF TileTells
    <3> QED
      BY <2>2, <2>4, <3>1, <3>2
  <2>5. ASSUME conn[v] = "open", live[v].tiles[p].status # "none", stage'[p] = "returned",
               result'[p] # "error"
        PROVE  \/ Over(live[v].tiles[p])
               \/ \E i \in 1 .. Len(queue'[v]) : queue'[v][i] = Notice(p)'
    <3>1. CASE stage[p] = "returned"
      <4>1. result'[p] = result[p] /\ Notice(p)' = Notice(p)
        BY <3>1 DEF Ends, Notice
      <4>2. CASE ~Over(live[v].tiles[p])
        <5>1. PICK i \in 1 .. Len(queue[v]) : queue[v][i] = Notice(p)
          BY <2>1, <2>5, <3>1, <4>1, <4>2 DEF TileTells, Ended
        <5>2. i \in 1 .. Len(queue'[v]) /\ queue'[v][i] = Notice(p)'
          BY <2>2, <2>5, <4>1, <5>1
        <5> QED
          BY <5>2
      <4> QED
        BY <4>2
    <3>2. CASE e = Notice(p)'
      <4>1. Len(queue[v]) + 1 \in 1 .. Len(queue'[v])
        BY <2>2, <2>5
      <4> QED
        BY <2>2, <2>5, <3>2, <4>1
    <3> QED
      BY <2>5, <3>1, <3>2
  <2>6. live[v].status = "finished" => stage' = stage /\ result' = result
    BY DEF ViewersHear, Ends
  <2> QED
    BY <1>7, <2>1, <2>3, <2>4, <2>5, <2>6 DEF TileTells, Ended, Over, Notice
<1> QED
  BY <1>3, <1>4, <1>5, <1>6, <1>8, <1>9 DEF LogStory, GridTells

\* The steps of _execute end no session.
LEMMA ExecuteTells == ASSUME StoryInv, Execute PROVE LogStory' /\ GridTells' /\ SwarmStory'
<1>0. /\ LogStory /\ SwarmStory /\ GridTells /\ ViewersHear /\ ExecEnds
      /\ HubTypeOK(Event) /\ SwarmTypeOK /\ ViewerTypeOK
  BY DEF StoryInv, Parts, HubInv
<1>1. Ends /\ UNCHANGED viewer /\ \A p \in Personas : stage'[p] = "returned" => stage[p] = "returned"
  BY <1>0 DEF Execute, Start, ProbePasses, ProbeFails, EndInError, Build, BuildRaises, Announce,
              Gathered, Ends, ExecEnds
<1>2. result' = result
  BY DEF Execute, Start, ProbePasses, ProbeFails, EndInError, Build, BuildRaises, Announce
<1>6. SwarmStory'
  <2>1. CASE Start
    BY <1>0, <2>1 DEF Start, SwarmStory, AllReturned
  <2>2. CASE ProbePasses
    BY <1>0, <2>2 DEF ProbePasses, SwarmStory, AllReturned, ExecEnds
  <2>3. CASE ProbeFails
    BY <1>0, <2>3 DEF ProbeFails, EndInError, SwarmStory, AllReturned
  <2>4. CASE Build
    BY <1>0, <2>4 DEF Build, Gathered, SwarmStory, AllReturned
  <2>5. CASE BuildRaises
    BY <1>0, <2>5 DEF BuildRaises, Gathered, EndInError, SwarmStory, AllReturned
  <2>6. CASE Announce
    BY <1>0, <2>6 DEF Announce, SwarmStory, AllReturned
  <2> QED
    BY <2>1, <2>2, <2>3, <2>4, <2>5, <2>6 DEF Execute
<1>3. CASE UNCHANGED hub
  BY <1>0, <1>1, <1>3, <1>6, QuietTells
<1>4. CASE \E kind \in {"run_started", "run_finished"} :
              Publish(RunEvent(kind)) /\ (kind = "run_started" => exec = "created")
  <2>1. PICK kind \in {"run_started", "run_finished"} :
            Publish(RunEvent(kind)) /\ (kind = "run_started" => exec = "created")
    BY <1>4
  <2> DEFINE e == RunEvent(kind)
  <2>2. /\ e \in Event /\ e.persona \notin Personas /\ e.event # "persona_finished"
        /\ e.event = "run_started" => log = <<>>
    BY <1>0, <2>1, EventTypes, LiveRunAssumption DEF RunEvent, SwarmStory
  <2>3. Publish(e)
    BY <2>1
  <2> HIDE DEF e
  <2> QED
    BY <1>0, <1>1, <1>6, <2>2, <2>3, PublishTells
<1>5. UNCHANGED hub \/ \E kind \in {"run_started", "run_finished"} :
          Publish(RunEvent(kind)) /\ (kind = "run_started" => exec = "created")
  BY DEF Execute, Start, ProbePasses, ProbeFails, EndInError, Build, BuildRaises, Announce
<1> QED
  BY <1>3, <1>4, <1>5, <1>6

\* A session that comes to anything says so as it returns.
LEMMA SessionTells ==
    ASSUME StoryInv, NEW p \in Personas, Session(p)
    PROVE  LogStory' /\ GridTells' /\ SwarmStory'
<1> USE DEF Go
<1>0. /\ LogStory /\ SwarmStory /\ GridTells /\ ViewersHear /\ ExecEnds
      /\ HubTypeOK(Event) /\ SwarmTypeOK /\ ViewerTypeOK
  BY DEF StoryInv, Parts, HubInv
<1>1. /\ stage[p] \notin {"waiting", "returned"} /\ exec' = exec /\ report' = report
      /\ shields' = shields /\ UNCHANGED viewer
      /\ \A q \in Personas \ {p} : stage'[q] = stage[q] /\ result'[q] = result[q]
  BY <1>0 DEF Session, RunnerRaises, Open, Begin, GotoFails, TakeStep, EndLoop, Finish, SwarmTypeOK
<1>2. exec = "gathering" /\ report = FALSE
  BY <1>0, <1>1 DEF SwarmTypeOK, ExecEnds, SwarmStory
<1>3. Ends
  BY <1>1, <1>2 DEF Ends
<1>4. SwarmStory'
  BY <1>0, <1>1, <1>2 DEF Session, RunnerRaises, Open, Begin, GotoFails, TakeStep, EndLoop, Finish,
                          SwarmStory, SwarmTypeOK
<1>5. CASE /\ UNCHANGED hub
           /\ stage'[p] = "returned" => stage[p] = "starting" /\ result' = result
  <2>1. stage'[p] = "returned" => result'[p] = "error"
    BY <1>0, <1>5 DEF SwarmStory
  <2> QED
    BY <1>0, <1>1, <1>3, <1>4, <1>5, <2>1, QuietTells
<1>6. CASE Begin(p) \/ TakeStep(p)
  <2>1. PICK kind \in {"persona_started", "step"} : Publish(PersonaEvent(kind, p, ""))
    BY <1>6 DEF Begin, TakeStep
  <2> DEFINE e == PersonaEvent(kind, p, "")
  <2>2. /\ e \in Event /\ e.persona = p
        /\ e.event # "persona_finished" /\ e.event # "run_started"
    BY <2>1, EventTypes DEF PersonaEvent
  <2>3. Publish(e) /\ stage'[p] # "returned"
    BY <1>0, <1>6, <2>1 DEF Begin, TakeStep, SwarmTypeOK
  <2> HIDE DEF e
  <2> QED
    BY <1>0, <1>1, <1>3, <1>4, <2>2, <2>3, PublishTells
<1>7. CASE Finish(p)
  <2> DEFINE e == PersonaEvent("persona_finished", p, result[p])
  <2>1. e \in Event /\ e.persona = p /\ e.event = "persona_finished"
    BY <1>0, EventTypes DEF PersonaEvent, SwarmTypeOK
  <2>2. Publish(e) /\ stage'[p] = "returned" /\ result' = result /\ e = Notice(p)'
    BY <1>0, <1>7 DEF Finish, SwarmTypeOK, Notice
  <2> HIDE DEF e
  <2> QED
    BY <1>0, <1>1, <1>3, <1>4, <2>1, <2>2, PublishTells
<1>8. \/ UNCHANGED hub /\ (stage'[p] = "returned" => stage[p] = "starting" /\ result' = result)
      \/ Begin(p) \/ TakeStep(p) \/ Finish(p)
  BY <1>0 DEF Session, RunnerRaises, Open, GotoFails, EndLoop, SwarmTypeOK
<1> QED
  BY <1>4, <1>5, <1>6, <1>7, <1>8

\* Denied requests end nothing, and their notices are steps.
LEMMA ShieldTells ==
    ASSUME StoryInv, NEW p \in Personas, Deny(p) \/ Shield(p)
    PROVE  LogStory' /\ GridTells' /\ SwarmStory'
<1>0. /\ LogStory /\ SwarmStory /\ GridTells /\ ViewersHear /\ ExecEnds
      /\ HubTypeOK(Event) /\ SwarmTypeOK /\ ViewerTypeOK
  BY DEF StoryInv, Parts, HubInv
<1>1. /\ stage' = stage /\ result' = result /\ exec' = exec /\ report' = report /\ UNCHANGED viewer
      /\ exec # "created"
  BY <1>0 DEF Deny, Shield, ExecEnds, SwarmStory
<1>2. Ends /\ SwarmStory'
  BY <1>0, <1>1 DEF Ends, SwarmStory, AllReturned
<1>3. CASE UNCHANGED hub
  BY <1>0, <1>1, <1>2, <1>3, QuietTells
<1>4. CASE Publish(PersonaEvent("step", p, "shield"))
  <2> DEFINE e == PersonaEvent("step", p, "shield")
  <2>1. e \in Event /\ e.event = "step"
    BY EventTypes DEF PersonaEvent
  <2>2. Publish(e)
    BY <1>4
  <2> HIDE DEF e
  <2> QED
    BY <1>0, <1>1, <1>2, <2>1, <2>2, PublishTells
<1> QED
  BY <1>3, <1>4 DEF Deny, Shield

\* How what a viewer draws, and what is left in its queue, stand in what was published.
LEMMA Drawn ==
    ASSUME NEW Events, NEW s \in Seq(Events), NEW t \in Seq(Events), s # <<>>, IsSuffixOf(s, t)
    PROVE  /\ Len(s) \in Nat /\ Len(Tail(s)) = Len(s) - 1 /\ 1 \in 1 .. Len(s) /\ Head(s) = s[1]
           /\ \A k \in 1 .. Len(Tail(s)) :
                 /\ k + 1 \in 1 .. Len(s) /\ Tail(s)[k] = s[k + 1]
                 /\ \E i, j \in 1 .. Len(t) : i < j /\ Head(s) = t[i] /\ Tail(s)[k] = t[j]
           /\ \A i \in 1 .. Len(s) : i = 1 \/ (i - 1 \in 1 .. Len(Tail(s)) /\ s[i] = Tail(s)[i - 1])
           /\ \E i \in 1 .. Len(t) :
                 /\ Head(s) = t[i]
                 /\ i = 1 => \A k \in 1 .. Len(t) :
                                 k = 1 \/ (k - 1 \in 1 .. Len(Tail(s)) /\ t[k] = Tail(s)[k - 1])
<1> DEFINE o == Len(t) - Len(s)
<1>1. /\ Len(s) \in Nat /\ Len(t) \in Nat /\ Len(s) # 0 /\ o \in Nat
      /\ Len(t) = Len(s) + o
  BY SuffixByElements, LenProperties, EmptySeq
<1>2. \A i \in 1 .. Len(s) : s[i] = t[o + i]
  BY SuffixByElements
<1>3. /\ Len(Tail(s)) = Len(s) - 1 /\ Head(s) = s[1]
      /\ \A k \in 1 .. Len(Tail(s)) : Tail(s)[k] = s[k + 1]
  BY HeadTailProperties
<1> HIDE DEF o
<1>4. 1 \in 1 .. Len(s) /\ Head(s) = t[o + 1] /\ o + 1 \in 1 .. Len(t)
  BY <1>1, <1>2, <1>3
<1>5. ASSUME NEW k \in 1 .. Len(Tail(s))
      PROVE  /\ k + 1 \in 1 .. Len(s)
             /\ \E i, j \in 1 .. Len(t) : i < j /\ Head(s) = t[i] /\ Tail(s)[k] = t[j]
  <2>1. k + 1 \in 1 .. Len(s) /\ o + (k + 1) \in 1 .. Len(t) /\ o + 1 < o + (k + 1)
    BY <1>1, <1>3
  <2>2. Tail(s)[k] = t[o + (k + 1)]
    BY <1>2, <1>3, <2>1
  <2> QED
    BY <1>4, <2>1, <2>2
<1>6. ASSUME NEW i \in 1 .. Len(s), i # 1
      PROVE  i - 1 \in 1 .. Len(Tail(s)) /\ s[i] = Tail(s)[i - 1]
  <2>1. i - 1 \in 1 .. Len(Tail(s)) /\ (i - 1) + 1 = i
    BY <1>1, <1>3, <1>6
  <2> QED
    BY <1>3, <2>1
<1>7. ASSUME o + 1 = 1, NEW k \in 1 .. Len(t), k # 1
      PROVE  k - 1 \in 1 .. Len(Tail(s)) /\ t[k] = Tail(s)[k - 1]
  <2>1. k \in 1 .. Len(s) /\ o + k = k
    BY <1>1, <1>7
  <2> QED
    BY <1>2, <1>6, <1>7, <2>1
<1> QED
  BY <1>1, <1>3, <1>4, <1>5, <1>6, <1>7

\* What a viewer draws tells its tiles how the sessions ended.
LEMMA SendTells == ASSUME StoryInv, NEW v \in Viewers, Send(v) PROVE GridTells'
<1> DEFINE e == Head(queue[v])
           rest == Tail(queue[v])
           leaving == e.event = "run_finished"
<1>0. /\ LogStory /\ GridTells /\ ViewersHear /\ FinishedIsLast /\ QueueIsSuffix
      /\ HubTypeOK(Event) /\ SwarmTypeOK /\ ViewerTypeOK
  BY DEF StoryInv, Parts, HubInv
<1>1. /\ conn[v] = "open" /\ queue[v] # <<>> /\ v \in subscribers
      /\ live' = [live EXCEPT ![v] = Reduce(live[v], e)]
      /\ queue' = [queue EXCEPT ![v] = rest]
      /\ conn' = IF leaving THEN [conn EXCEPT ![v] = "closed"] ELSE conn
      /\ log' = log /\ stage' = stage /\ result' = result
  BY <1>0 DEF Send, Take, swarm, ViewerTypeOK
<1>2. /\ queue[v] \in Seq(Event) /\ log \in Seq(Event) /\ IsSuffixOf(queue[v], log)
      /\ e \in Event
  BY <1>0, <1>1, HeadTailProperties DEF HubTypeOK, QueueIsSuffix
<1>3. /\ e = queue[v][1] /\ 1 \in 1 .. Len(queue[v])
      /\ \A k \in 1 .. Len(rest) :
            /\ k + 1 \in 1 .. Len(queue[v]) /\ rest[k] = queue[v][k + 1]
            /\ \E i, j \in 1 .. Len(log) : i < j /\ e = log[i] /\ rest[k] = log[j]
      /\ \A i \in 1 .. Len(queue[v]) :
            i = 1 \/ (i - 1 \in 1 .. Len(rest) /\ queue[v][i] = rest[i - 1])
      /\ \E i \in 1 .. Len(log) :
            /\ e = log[i]
            /\ i = 1 => \A k \in 1 .. Len(log) :
                            k = 1 \/ (k - 1 \in 1 .. Len(rest) /\ log[k] = rest[k - 1])
  <2> DEFINE q == queue[v]
  <2>1. q \in Seq(Event) /\ log \in Seq(Event) /\ q # <<>> /\ IsSuffixOf(q, log)
    BY <1>1, <1>2
  <2>2. e = Head(q) /\ rest = Tail(q)
    OBVIOUS
  <2> HIDE DEF q, e, rest
  <2>3. Head(q) = q[1] /\ 1 \in 1 .. Len(q)
    BY <2>1, Drawn
  <2>4. \A k \in 1 .. Len(Tail(q)) :
            /\ k + 1 \in 1 .. Len(q) /\ Tail(q)[k] = q[k + 1]
            /\ \E i, j \in 1 .. Len(log) : i < j /\ Head(q) = log[i] /\ Tail(q)[k] = log[j]
    BY <2>1, Drawn
  <2>5. \A i \in 1 .. Len(q) :
            i = 1 \/ (i - 1 \in 1 .. Len(Tail(q)) /\ q[i] = Tail(q)[i - 1])
    BY <2>1, Drawn
  <2>6. \E i \in 1 .. Len(log) :
            /\ Head(q) = log[i]
            /\ i = 1 => \A k \in 1 .. Len(log) :
                  k = 1 \/ (k - 1 \in 1 .. Len(Tail(q)) /\ log[k] = Tail(q)[k - 1])
    BY <2>1, Drawn
  <2> QED
    BY <2>2, <2>3, <2>4, <2>5, <2>6 DEF q
<1>4. live[v].status # "finished"
  BY <1>0, <1>1 DEF GridTells, EndsClosed
<1>5. /\ queue' \in [Viewers -> Seq(Event)] /\ queue'[v] = rest
      /\ live'[v] = Reduce(live[v], e) /\ conn'[v] = IF leaving THEN "closed" ELSE "open"
      /\ \A w \in Viewers \ {v} :
            queue'[w] = queue[w] /\ live'[w] = live[w] /\ conn'[w] = conn[w]
  <2>1. rest \in Seq(Event)
    BY <1>1, <1>2, HeadTailProperties
  <2> HIDE DEF e, rest, leaving
  <2> QED
    BY <1>0, <1>1, <2>1 DEF HubTypeOK, ViewerTypeOK
<1>6. e.event = "persona_finished" =>
          /\ e.persona \in Personas /\ stage[e.persona] = "returned" /\ e = Notice(e.persona)
          /\ \A k \in 1 .. Len(rest) : rest[k].persona = e.persona => rest[k].event = "step"
  <2>1. PICK i \in 1 .. Len(log) : e = log[i]
    BY <1>3
  <2>2. e.event = "persona_finished" =>
            e.persona \in Personas /\ stage[e.persona] = "returned" /\ e = Notice(e.persona)
    BY <1>0, <2>1, Heard DEF LogStory, Noticed
  <2>3. ASSUME e.event = "persona_finished", NEW k \in 1 .. Len(rest), rest[k].persona = e.persona
        PROVE  rest[k].event = "step"
    BY <1>0, <1>3, <2>3 DEF LogStory, NoticeIsLast
  <2> QED
    BY <2>2, <2>3
<1>7. leaving => \A k \in 1 .. Len(rest) : rest[k].detail = "shield"
  BY <1>0, <1>3 DEF FinishedIsLast
<1>8. e.event = "run_started" =>
          \A k \in 1 .. Len(log) : log[k].event = "run_started" \/
              (k - 1 \in 1 .. Len(rest) /\ log[k] = rest[k - 1])
  BY <1>0, <1>3 DEF LogStory, StartFirst
<1> HIDE DEF rest
<1>9. live[v] \in Grid /\ live[v].tiles \in [Personas -> Tile]
  BY <1>0 DEF ViewerTypeOK, Grid
<1>10. ASSUME NEW p \in Personas PROVE TileTells(v, p)'
  <2> DEFINE tile == live[v].tiles[p]
             next == live'[v].tiles[p]
             ended == stage[p] = "returned" /\ result[p] # "error"
  <2>1. /\ TileTells(v, p) /\ tile \in Tile
        /\ Notice(p).persona = p /\ Notice(p).event = "persona_finished"
        /\ Notice(p).detail = result[p] /\ result[p] \in Outcome
    BY <1>0, <1>9 DEF GridTells, Notice, PersonaEvent, SwarmTypeOK
  <2>2. tile.status # "none" /\ ended /\ ~Over(tile) =>
            e = Notice(p) \/ \E k \in 1 .. Len(rest) : rest[k] = Notice(p)
    BY <1>1, <1>3, <2>1 DEF TileTells, Ended
  <2>3. Over(tile) => \A k \in 1 .. Len(rest) : rest[k].persona = p => rest[k].event = "step"
    <3>1. Over(tile) => \A i \in 1 .. Len(queue[v]) :
              queue[v][i].persona = p => queue[v][i].event = "step"
      BY <1>1, <2>1 DEF TileTells
    <3>2. \A k \in 1 .. Len(rest) : k + 1 \in 1 .. Len(queue[v]) /\ rest[k] = queue[v][k + 1]
      BY <1>3
    <3> HIDE DEF tile
    <3> QED
      BY <3>1, <3>2
  <2>4. Over(tile) /\ e.persona = p => e.event = "step"
    BY <1>1, <1>3, <2>1 DEF TileTells
  <2>5. Over(tile) => stage[p] = "returned" /\ (tile.status = "success" <=> result[p] = "success")
    BY <2>1 DEF TileTells
  <2>6. ASSUME /\ Over(next) => /\ stage[p] = "returned"
                                /\ next.status = "success" <=> result[p] = "success"
                                /\ \A k \in 1 .. Len(rest) :
                                      rest[k].persona = p => rest[k].event = "step"
               /\ next.status # "none" /\ ended /\ ~Over(next) =>
                     ~leaving /\ \E k \in 1 .. Len(rest) : rest[k] = Notice(p)
               /\ live'[v].status = "finished" => leaving
        PROVE  TileTells(v, p)'
    BY <1>1, <1>5, <2>6 DEF TileTells, Ended, Notice
  <2>t. live[v].tiles[p] \in Tile /\ DOMAIN live[v].tiles = Personas
    BY <1>9
  <2>7. CASE e.event = "run_started"
    <3>1. next = [status |-> "pending", blocked |-> 0] /\ live'[v].status = "running" /\ ~leaving
      BY <1>5, <2>7 DEF Reduce
    <3>2. ended => \E k \in 1 .. Len(rest) : rest[k] = Notice(p)
      <4>1. SUFFICES ASSUME ended PROVE \E k \in 1 .. Len(rest) : rest[k] = Notice(p)
        OBVIOUS
      <4>2. PICK i \in 1 .. Len(log) : log[i] = Notice(p)
        BY <1>0, <4>1 DEF LogStory, Told
      <4> QED
        BY <1>8, <2>1, <2>7, <4>2
    <3> HIDE DEF next
    <3> QED
      BY <2>6, <3>1, <3>2 DEF Over
  <2>8. CASE leaving
    <3>1. next = tile
      BY <1>5, <1>9, <2>8 DEF Reduce, Grid
    <3>2. \A k \in 1 .. Len(rest) : rest[k] # Notice(p)
      BY <1>7, <2>1, <2>8 DEF Outcome
    <3> HIDE DEF next, tile
    <3> QED
      BY <2>1, <2>2, <2>3, <2>5, <2>6, <2>8, <3>1, <3>2
  <2>9. CASE e.event \notin {"run_started", "run_finished"} /\ e.persona # p
    <3>1. next = tile /\ live'[v].status = live[v].status
      BY <1>5, <1>9, <2>9 DEF Reduce, Grid
    <3> HIDE DEF next, tile
    <3> QED
      BY <1>4, <2>1, <2>2, <2>3, <2>5, <2>6, <2>9, <3>1
  <2>t1. ASSUME e.event \notin {"run_started", "run_finished"}, e.persona = p
         PROVE  /\ next = IF tile.status = "none" THEN tile ELSE Tiled(tile, e)
                /\ live'[v].status = live[v].status
    BY <1>5, <1>9, <2>t1 DEF Reduce, Grid
  <2>10. CASE e.event = "step" /\ e.persona = p
    <3>1. /\ next = tile \/ (~Over(tile) /\ next.status = "running")
          /\ live'[v].status = live[v].status
      BY <2>t1, <2>10 DEF Tiled, Over
    <3>2. e # Notice(p) /\ ~leaving
      BY <2>1, <2>10
    <3>3. CASE next = tile
      <4> HIDE DEF next, tile, leaving
      <4> QED
        BY <1>4, <2>2, <2>3, <2>5, <2>6, <3>1, <3>2, <3>3
    <3>4. CASE ~Over(tile) /\ next.status = "running"
      <4>1. ~Over(next) /\ tile.status # "none"
        BY <2>t1, <2>10, <3>4 DEF Tiled, Over
      <4> HIDE DEF next, tile, leaving
      <4> QED
        BY <1>4, <2>2, <2>6, <3>1, <3>2, <3>4, <4>1
    <3> QED
      BY <3>1, <3>3, <3>4
  <2>11. CASE e.event = "persona_started" /\ e.persona = p
    <3>1. /\ next = tile \/ (tile.status # "none" /\ next.status = "running")
          /\ live'[v].status = live[v].status /\ ~Over(tile)
      BY <2>t1, <2>1, <2>4, <2>11 DEF Tiled, Tile
    <3> HIDE DEF next, tile
    <3> QED
      BY <1>4, <2>1, <2>2, <2>3, <2>5, <2>6, <2>11, <3>1 DEF Over
  <2>12. CASE e.event = "persona_finished" /\ e.persona = p
    <3>1. /\ \/ tile.status = "none" /\ next = tile
             \/ next.status = IF e.detail = "success" THEN "success" ELSE "abandoned"
          /\ live'[v].status = live[v].status
      BY <2>t1, <2>1, <2>12 DEF Tiled, Tile
    <3>2. e.detail = result[p] /\ stage[p] = "returned"
      BY <1>6, <2>1, <2>12
    <3>3. \A k \in 1 .. Len(rest) : rest[k].persona = p => rest[k].event = "step"
      BY <1>6, <2>12
    <3> HIDE DEF next, tile
    <3> QED
      BY <1>4, <2>6, <2>12, <3>1, <3>2, <3>3 DEF Over
  <2> QED
    BY <1>2, <2>7, <2>8, <2>9, <2>10, <2>11, <2>12 DEF Event
<1>11. ASSUME NEW p \in Personas, NEW w \in Viewers \ {v} PROVE TileTells(w, p)'
  BY <1>0, <1>1, <1>5 DEF GridTells, TileTells, Ended, Notice, Over
<1>12. EndsClosed'
  <2>1. live'[v].status = "finished" => leaving
    BY <1>2, <1>4, <1>5, <1>9, ReduceTypes
  <2> HIDE DEF leaving
  <2> QED
    BY <1>0, <1>5, <2>1 DEF GridTells, EndsClosed
<1> QED
  BY <1>10, <1>11, <1>12 DEF GridTells

\* The viewers' other steps show nothing.
LEMMA ViewerTells ==
    ASSUME StoryInv, NEW v \in Viewers, Connect(v) \/ Serve(v) \/ Leave(v)
    PROVE  LogStory' /\ GridTells' /\ SwarmStory'
<1>0. /\ LogStory /\ SwarmStory /\ GridTells /\ HubTypeOK(Event) /\ ViewerTypeOK
  BY DEF StoryInv, Parts, HubInv
<1>1. UNCHANGED <<swarm, log>>
  BY DEF Connect, Serve, Send, SendFails, Leave, Subscribe, Take, hub
<1>2. LogStory' /\ SwarmStory'
  BY <1>0, <1>1 DEF swarm, LogStory, StartFirst, Noticed, NoticeIsLast, Told, Notice, SwarmStory,
                    AllReturned
<1>3. CASE Send(v)
  BY <1>2, <1>3, SendTells
<1>4. CASE Connect(v)
  <2>1. live' = live /\ conn[v] = "off" /\ conn' = [conn EXCEPT ![v] = "open"]
        /\ queue' = [queue EXCEPT ![v] = buffer]
    BY <1>4 DEF Connect, Subscribe
  <2>2. EndsClosed'
    BY <1>0, <2>1 DEF GridTells, EndsClosed, ViewerTypeOK
  <2>3. ASSUME NEW w \in Viewers, NEW p \in Personas PROVE TileTells(w, p)'
    <3>1. TileTells(w, p)
      BY <1>0 DEF GridTells
    <3> QED
      BY <1>0, <1>1, <2>1, <3>1 DEF swarm, HubTypeOK, ViewerTypeOK, TileTells, Ended, Over, Notice
  <2> QED
    BY <1>2, <2>2, <2>3 DEF GridTells
<1>5. CASE SendFails(v) \/ Leave(v)
  <2>1. /\ live' = live /\ conn[v] \in {"open", "gone"}
        /\ conn'[v] \in {"gone", "closed"} /\ live[v].status # "finished"
    BY <1>0, <1>5 DEF SendFails, Leave, GridTells, EndsClosed, ViewerTypeOK
  <2>2. \A w \in Viewers \ {v} : queue'[w] = queue[w] /\ conn'[w] = conn[w]
    BY <1>0, <1>5 DEF SendFails, Leave, Take, hub, HubTypeOK, ViewerTypeOK
  <2>3. EndsClosed'
    BY <1>0, <2>1, <2>2 DEF GridTells, EndsClosed
  <2>4. ASSUME NEW w \in Viewers, NEW p \in Personas PROVE TileTells(w, p)'
    <3>1. TileTells(w, p)
      BY <1>0 DEF GridTells
    <3>2. CASE w = v
      BY <1>1, <2>1, <3>1, <3>2 DEF swarm, TileTells, Ended, Over, Notice
    <3>3. CASE w # v
      BY <1>1, <2>1, <2>2, <3>1, <3>3 DEF swarm, TileTells, Ended, Over, Notice
    <3> QED
      BY <3>2, <3>3
  <2> QED
    BY <1>2, <2>3, <2>4 DEF GridTells
<1> QED
  BY <1>3, <1>4, <1>5 DEF Serve

\* The story is an invariant.
LEMMA StoryStep == StoryInv /\ [Next]_vars => StoryInv'
<1> SUFFICES ASSUME StoryInv, [Next]_vars PROVE StoryInv'
  OBVIOUS
<1>1. Parts'
  BY ExecuteKeeps, SessionKeeps, DenyKeeps, ShieldKeeps, ViewerKeeps, StutterKeeps DEF Next, StoryInv
<1>2. LogStory' /\ GridTells' /\ SwarmStory'
  <2>1. CASE UNCHANGED vars
    BY <2>1 DEF StoryInv, vars, hub, swarm, viewer, LogStory, StartFirst, Noticed, NoticeIsLast,
                Told, Notice, SwarmStory, AllReturned, GridTells, EndsClosed, TileTells, Ended, Over
  <2> QED
    BY <2>1, ExecuteTells, SessionTells, ShieldTells, ViewerTells DEF Next
<1> QED
  BY <1>1, <1>2 DEF StoryInv

\* For any personas, viewers, steps, denied requests and size of the buffer, whenever a
\* viewer joined and whatever came late: when the run is shown as finished and has its
\* report, the tiles say of every persona what the report says.
THEOREM GridsMatchReports == Spec => []GridMatchesReport
<1> QED
  BY InitStory, StoryStep, StoryMatches, PTL DEF Spec

-----------------------------------------------------------------------------
(***************************************************************************)
(* A viewer that joins late shows what one shows that was there from the   *)
(* start.  Folding the reducer over a sequence takes its elements one by   *)
(* one, from either end, which the fold of the community modules does as a *)
(* recursion over the subsets of the positions.                            *)
(***************************************************************************)

\* The iteration that FoldLeft is, for the reducer.
Iterates(f, b, s, n) ==
    f = [T \in SUBSET (1 .. n) |->
            IF T = {} THEN b ELSE Reduce(f[T \ {Folds!Max(T)}], s[Folds!Max(T)])]

Iteration(b, s, n) == CHOOSE f : Iterates(f, b, s, n)

\* The grid after the first n of m events.
Draw(b, s, m, n) == Iteration(b, s, m)[1 .. n]

\* The last position of a set that has it.
LEMMA LastPosition ==
    ASSUME NEW n \in Nat, NEW T \in SUBSET (1 .. n + 1), n + 1 \in T
    PROVE  Folds!Max(T) = n + 1
<1>1. \A y \in T : n + 1 >= y
  OBVIOUS
<1>2. \A x \in T : (\A y \in T : x >= y) => x = n + 1
  OBVIOUS
<1> QED
  BY <1>1, <1>2 DEF Folds!Max

\* An iteration exists, for every number of events.
LEMMA IterationExists ==
    ASSUME NEW b, NEW s, NEW n \in Nat
    PROVE  \E f : Iterates(f, b, s, n)
<1> DEFINE Have == {m \in Nat : \E f : Iterates(f, b, s, m)}
<1>1. 0 \in Have
  <2> DEFINE g == [T \in SUBSET (1 .. 0) |-> b]
  <2>1. \A T \in SUBSET (1 .. 0) : T = {}
    OBVIOUS
  <2>2. Iterates(g, b, s, 0)
    BY <2>1 DEF Iterates
  <2> QED
    BY <2>2
<1>2. ASSUME NEW m \in Nat, m \in Have PROVE m + 1 \in Have
  <2>1. PICK f : Iterates(f, b, s, m)
    BY <1>2
  <2> DEFINE g == [T \in SUBSET (1 .. m + 1) |->
                      IF m + 1 \in T THEN Reduce(f[T \ {m + 1}], s[m + 1]) ELSE f[T]]
  <2>2. ASSUME NEW T \in SUBSET (1 .. m + 1)
        PROVE  g[T] = IF T = {} THEN b ELSE Reduce(g[T \ {Folds!Max(T)}], s[Folds!Max(T)])
    <3>1. CASE m + 1 \in T
      <4>1. Folds!Max(T) = m + 1
        BY <3>1, LastPosition
      <4>2. T \ {m + 1} \in SUBSET (1 .. m + 1) /\ m + 1 \notin T \ {m + 1}
        OBVIOUS
      <4>3. g[T \ {m + 1}] = f[T \ {m + 1}]
        BY <4>2
      <4> QED
        BY <3>1, <4>1, <4>3
    <3>2. CASE m + 1 \notin T
      <4>1. T \in SUBSET (1 .. m) /\ g[T] = f[T]
        BY <3>2
      <4>2. f[T] = IF T = {} THEN b ELSE Reduce(f[T \ {Folds!Max(T)}], s[Folds!Max(T)])
        BY <2>1, <4>1 DEF Iterates
      <4>3. /\ T \ {Folds!Max(T)} \in SUBSET (1 .. m + 1)
            /\ m + 1 \notin T \ {Folds!Max(T)}
        BY <3>2
      <4>4. g[T \ {Folds!Max(T)}] = f[T \ {Folds!Max(T)}]
        BY <4>3
      <4> QED
        BY <4>1, <4>2, <4>4
    <3> QED
      BY <3>1, <3>2
  <2>3. Iterates(g, b, s, m + 1)
    <3>1. g = [T \in SUBSET (1 .. m + 1) |-> g[T]]
      OBVIOUS
    <3> HIDE DEF g
    <3> QED
      BY <2>2, <3>1, Zenon DEF Iterates
  <2> QED
    BY <2>3
<1> HIDE DEF Have
<1>3. Nat \subseteq Have
  BY <1>1, <1>2, Induct
<1> QED
  BY <1>3 DEF Have

\* It begins with the grid.
LEMMA DrawNone == ASSUME NEW b, NEW s, NEW m \in Nat PROVE Draw(b, s, m, 0) = b
<1> DEFINE f == Iteration(b, s, m)
<1>1. Iterates(f, b, s, m)
  BY IterationExists, Zenon DEF Iteration
<1> HIDE DEF f
<1>2. 1 .. 0 = {} /\ {} \in SUBSET (1 .. m)
  OBVIOUS
<1> QED
  BY <1>1, <1>2 DEF Iterates, Draw, f

\* It draws the events in order.
LEMMA DrawNext ==
    ASSUME NEW b, NEW s, NEW m \in Nat, NEW n \in Nat, n < m
    PROVE  Draw(b, s, m, n + 1) = Reduce(Draw(b, s, m, n), s[n + 1])
<1> DEFINE f == Iteration(b, s, m)
           T == 1 .. n + 1
<1>1. Iterates(f, b, s, m)
  BY IterationExists, Zenon DEF Iteration
<1>2. T \in SUBSET (1 .. m) /\ T # {} /\ n + 1 \in T /\ T \in SUBSET (1 .. n + 1)
  OBVIOUS
<1>3. T \ {n + 1} = 1 .. n
  OBVIOUS
<1>4. Folds!Max(T) = n + 1
  BY <1>2, LastPosition
<1> HIDE DEF f, T
<1>5. f[T] = IF T = {} THEN b ELSE Reduce(f[T \ {Folds!Max(T)}], s[Folds!Max(T)])
  BY <1>1, <1>2, Zenon DEF Iterates
<1>6. f[T] = Reduce(f[1 .. n], s[n + 1])
  BY <1>2, <1>3, <1>4, <1>5
<1> QED
  BY <1>6 DEF T, f, Draw

\* The viewers' fold, over any sequence of events.
Shown(b, s) == Folds!FoldLeft(Reduce, b, s)

\* The fold is the iteration's last grid.
LEMMA ShownIsDrawn ==
    ASSUME NEW S, NEW s \in Seq(S), NEW b
    PROVE  Shown(b, s) = Draw(b, s, Len(s), Len(s))
<1>1. DOMAIN s = 1 .. Len(s)
  BY LenProperties
<1>2. Shown(b, s) = (CHOOSE f : f = [T \in SUBSET DOMAIN s |->
          IF T = {} THEN b
          ELSE Reduce(f[T \ {Folds!Max(T)}], s[Folds!Max(T)])])[DOMAIN s]
  BY Zenon DEF Shown, Folds!FoldLeft, Folds!MapThenFoldSet
<1> QED
  BY <1>1, <1>2, Zenon DEF Draw, Iteration, Iterates

\* Nothing drawn, nothing changed.
LEMMA ShownEmpty ==
    ASSUME NEW S, NEW b
    PROVE  Shown(b, <<>>) = b
<1> DEFINE s == <<>>
<1>1. s \in Seq(S) /\ Len(s) = 0
  BY EmptySeq
<1> HIDE DEF s
<1>2. Shown(b, s) = Draw(b, s, 0, 0)
  BY <1>1, ShownIsDrawn
<1>3. Shown(b, s) = b
  BY <1>2, DrawNone
<1> QED
  BY <1>3 DEF s

\* Sequences that agree on their first events show the same after them.
LEMMA DrawAgrees ==
    ASSUME NEW b, NEW s, NEW t, NEW m \in Nat, NEW k \in Nat, NEW n \in Nat, n <= m, n <= k,
           \A i \in 1 .. n : s[i] = t[i]
    PROVE  Draw(b, s, m, n) = Draw(b, t, k, n)
<1> DEFINE Same == {i \in Nat : i <= n => Draw(b, s, m, i) = Draw(b, t, k, i)}
<1>1. 0 \in Same
  BY DrawNone, DrawNext
<1>2. ASSUME NEW i \in Nat, i \in Same PROVE i + 1 \in Same
  <2>1. ASSUME i + 1 <= n PROVE Draw(b, s, m, i + 1) = Draw(b, t, k, i + 1)
    <3>1. i < m /\ i < k /\ i <= n /\ s[i + 1] = t[i + 1]
      BY <2>1
    <3>2. /\ Draw(b, s, m, i + 1) = Reduce(Draw(b, s, m, i), s[i + 1])
          /\ Draw(b, t, k, i + 1) = Reduce(Draw(b, t, k, i), t[i + 1])
      BY <3>1, DrawNone, DrawNext
    <3> QED
      BY <1>2, <3>1, <3>2
  <2> QED
    BY <2>1
<1> HIDE DEF Same
<1>3. n \in Same
  BY <1>1, <1>2, Induct
<1> QED
  BY <1>3 DEF Same

\* The last event is drawn last.
LEMMA ShownAppend ==
    ASSUME NEW S, NEW s \in Seq(S), NEW e \in S, NEW b
    PROVE  Shown(b, Append(s, e)) = Reduce(Shown(b, s), e)
<1> DEFINE t == Append(s, e)
           n == Len(s)
<1>1. /\ t \in Seq(S) /\ Len(t) = n + 1 /\ n \in Nat /\ t[n + 1] = e
      /\ \A i \in 1 .. n : t[i] = s[i]
  BY AppendProperties, LenProperties
<1> HIDE DEF t, n
<1>2. Shown(b, t) = Draw(b, t, n + 1, n + 1)
  BY <1>1, ShownIsDrawn
<1>3. Draw(b, t, n + 1, n + 1) = Reduce(Draw(b, t, n + 1, n), e)
  BY <1>1, DrawNone, DrawNext
<1>4. Draw(b, t, n + 1, n) = Draw(b, s, n, n)
  BY <1>1, DrawAgrees
<1>5. Shown(b, s) = Draw(b, s, n, n)
  BY ShownIsDrawn DEF n
<1> QED
  BY <1>2, <1>3, <1>4, <1>5 DEF t

\* The first event may be drawn first.
LEMMA ShownHead ==
    ASSUME NEW S, NEW s \in Seq(S), s # <<>>, NEW b
    PROVE  Shown(b, s) = Shown(Reduce(b, Head(s)), Tail(s))
<1> DEFINE t == Tail(s)
           n == Len(t)
           c == Reduce(b, Head(s))
<1>1. /\ t \in Seq(S) /\ Len(s) = n + 1 /\ n \in Nat /\ Head(s) = s[1]
      /\ \A i \in 1 .. n : t[i] = s[i + 1]
  BY HeadTailProperties, LenProperties, EmptySeq
<1> HIDE DEF t, n
<1> DEFINE Same == {i \in Nat : i <= n => Draw(b, s, n + 1, i + 1) = Draw(c, t, n, i)}
<1>2. 0 \in Same
  <2>1. Draw(b, s, n + 1, 0 + 1) = Reduce(b, s[0 + 1]) /\ Draw(c, t, n, 0) = c
    BY <1>1, DrawNone, DrawNext
  <2> QED
    BY <1>1, <2>1
<1>3. ASSUME NEW i \in Nat, i \in Same PROVE i + 1 \in Same
  <2>1. ASSUME i + 1 <= n PROVE Draw(b, s, n + 1, (i + 1) + 1) = Draw(c, t, n, i + 1)
    <3>1. i < n /\ i + 1 < n + 1 /\ i <= n /\ i + 1 \in Nat /\ s[(i + 1) + 1] = t[i + 1]
      BY <1>1, <2>1
    <3>2. Draw(c, t, n, i + 1) = Reduce(Draw(c, t, n, i), t[i + 1])
      BY <1>1, <3>1, DrawNone, DrawNext
    <3>3. Draw(b, s, n + 1, (i + 1) + 1) = Reduce(Draw(b, s, n + 1, i + 1), s[(i + 1) + 1])
      BY <1>1, <3>1, DrawNone, DrawNext
    <3> QED
      BY <1>3, <3>1, <3>2, <3>3
  <2> QED
    BY <2>1
<1> HIDE DEF Same
<1>4. n \in Same
  BY <1>1, <1>2, <1>3, Induct
<1>5. Draw(b, s, n + 1, n + 1) = Draw(c, t, n, n)
  BY <1>1, <1>4 DEF Same
<1>6. Shown(b, s) = Draw(b, s, n + 1, n + 1) /\ Shown(c, t) = Draw(c, t, n, n)
  BY <1>1, ShownIsDrawn DEF n
<1> QED
  BY <1>5, <1>6 DEF t

-----------------------------------------------------------------------------
\* No tile has been created.
Untold(grid) == \A p \in Personas : grid.tiles[p].status = "none"

NoStart(s) == \A i \in 1 .. Len(s) : s[i].event # "run_started"

\* Only run_started creates tiles.
LEMMA ReduceUntold ==
    ASSUME NEW grid \in Grid, NEW e \in Event, e.event # "run_started", Untold(grid)
    PROVE  Untold(Reduce(grid, e))
<1>1. CASE e.event = "run_finished"
  <2>1. Reduce(grid, e) = [grid EXCEPT !.status = "finished"]
    BY <1>1 DEF Reduce
  <2>2. Reduce(grid, e).tiles = grid.tiles
    BY <2>1 DEF Grid
  <2> QED
    BY <2>2 DEF Untold
<1>2. CASE e.event # "run_finished"
  <2>1. e.persona \in Personas
    BY <1>2 DEF Event
  <2>2. Reduce(grid, e) = grid
    BY <1>2, <2>1 DEF Reduce, Untold
  <2> QED
    BY <2>2
<1> QED
  BY <1>1, <1>2

\* What is shown is a grid, and without run_started it has no tiles.
LEMMA ShownTypes ==
    ASSUME NEW b \in Grid, NEW s \in Seq(Event)
    PROVE  /\ Shown(b, s) \in Grid
           /\ Untold(b) /\ NoStart(s) => Untold(Shown(b, s))
<1> DEFINE m == Len(s)
           Fine(g) == g \in Grid /\ (Untold(b) /\ NoStart(s) => Untold(g))
           Have == {n \in Nat : n <= m => Fine(Draw(b, s, m, n))}
<1>1. m \in Nat /\ \A i \in 1 .. m : s[i] \in Event
  BY LenProperties, ElementOfSeq
<1>2. 0 \in Have
  BY <1>1, DrawNone
<1>3. ASSUME NEW n \in Nat, n \in Have PROVE n + 1 \in Have
  <2>1. ASSUME n + 1 <= m PROVE Fine(Draw(b, s, m, n + 1))
    <3>1. n < m /\ n + 1 \in 1 .. m /\ s[n + 1] \in Event
      BY <1>1, <2>1
    <3> DEFINE g == Draw(b, s, m, n)
    <3>2. Fine(g)
      BY <1>1, <1>3, <3>1
    <3>3. Draw(b, s, m, n + 1) = Reduce(g, s[n + 1])
      BY <1>1, <3>1, DrawNext
    <3> HIDE DEF g
    <3>4. Fine(Reduce(g, s[n + 1]))
      BY <3>1, <3>2, ReduceTypes, ReduceUntold DEF NoStart
    <3> QED
      BY <3>3, <3>4
  <2> QED
    BY <2>1
<1> HIDE DEF Have
<1>4. m \in Have
  BY <1>1, <1>2, <1>3, Induct
<1>5. Fine(Draw(b, s, m, m))
  BY <1>1, <1>4 DEF Have
<1>6. Shown(b, s) = Draw(b, s, m, m)
  BY ShownIsDrawn
<1> QED
  BY <1>5, <1>6

\* A backlog is drawn to what the whole history is drawn to, or its tiles are missing.
SameAs(grid, backlog) ==
    Shown(grid, backlog) = Shown(EmptyGrid, log) \/ Untold(Shown(grid, backlog))

SameInv ==
    /\ \A v \in Viewers : conn[v] = "off" => live[v] = EmptyGrid
    /\ buffer = log \/ NoStart(buffer)
    /\ \A v \in Viewers : conn[v] = "open" => SameAs(live[v], queue[v])

\* The empty grid has no tiles.
LEMMA EmptyTypes == EmptyGrid \in Grid /\ Untold(EmptyGrid)
BY DEF EmptyGrid, Grid, NoTile, Tile, Untold

\* That is what the invariant is for.
LEMMA SameShows == SameInv => JoinedLateSameGrid
<1> SUFFICES ASSUME SameInv, NEW v \in Viewers, conn[v] = "open", Created(Shown(live[v], queue[v]))
             PROVE  Shown(live[v], queue[v]) = Shown(EmptyGrid, log)
  BY Zenon DEF JoinedLateSameGrid, Shown
<1>1. ~Untold(Shown(live[v], queue[v]))
  BY LiveRunAssumption DEF Created, Untold
<1> QED
  BY <1>1 DEF SameInv, SameAs

\* At the beginning nothing is published, nobody is connected.
LEMMA InitSame == Init => SameInv
BY DEF Init, HubInit, SameInv

\* The history is whole in the buffer until its first event, run_started, is evicted.
LEMMA PublishSame ==
    ASSUME StoryInv, SameInv, NEW e \in Event, Publish(e), UNCHANGED viewer,
           e.event = "run_started" => log = <<>>, StartFirst'
    PROVE  SameInv'
<1> DEFINE longer == Append(buffer, e)
<1>0. /\ HubTypeOK(Event) /\ QueueIsSuffix /\ ViewerTypeOK
  BY DEF StoryInv, Parts, HubInv
<1>1. live' = live /\ conn' = conn
  BY DEF viewer
<1>2. /\ log \in Seq(Event) /\ log' = Append(log, e) /\ log' \in Seq(Event)
      /\ longer \in Seq(Event) /\ longer # <<>> /\ Len(longer) = Len(buffer) + 1
      /\ \A i \in 1 .. Len(buffer) : longer[i] = buffer[i]
      /\ longer[Len(buffer) + 1] = e
      /\ Len(buffer) \in Nat /\ Len(log) \in Nat
  BY <1>0, AppendProperties, LenProperties DEF HubTypeOK, Publish
<1>3. IsSuffixOf(longer, log')
  BY <1>0, SuffixAppend DEF HubTypeOK, QueueIsSuffix, Publish
<1> HIDE DEF longer
<1>4. buffer' = log' \/ NoStart(buffer')
  <2>1. CASE Len(longer) > BufferSize
    <3>1. buffer' = Tail(longer)
      BY <2>1 DEF Publish, Bounded, longer
    <3> DEFINE t == log'
    <3>t. t \in Seq(Event) /\ IsSuffixOf(longer, t)
      BY <1>2, <1>3
    <3> HIDE DEF t
    <3>d. \A k \in 1 .. Len(Tail(longer)) :
              \E i, j \in 1 .. Len(t) :
                  i < j /\ Head(longer) = t[i] /\ Tail(longer)[k] = t[j]
      BY <1>2, <3>t, Drawn
    <3>2. ASSUME NEW k \in 1 .. Len(Tail(longer)) PROVE Tail(longer)[k].event # "run_started"
      <4>1. PICK i \in 1 .. Len(log'), j \in 1 .. Len(log') : i < j /\ Tail(longer)[k] = log'[j]
        BY <3>d DEF t
      <4>2. j # 1
        BY <4>1
      <4> QED
        BY <4>1, <4>2 DEF StartFirst
    <3> QED
      BY <3>1, <3>2 DEF NoStart
  <2>2. CASE ~(Len(longer) > BufferSize)
    <3>1. buffer' = longer
      BY <2>2 DEF Publish, Bounded, longer
    <3>2. CASE buffer = log
      BY <1>2, <3>1, <3>2 DEF longer
    <3>3. CASE log = <<>>
      <4>1. Len(buffer) <= 0 /\ buffer \in Seq(Event)
        BY <1>0, <3>3, EmptySeq, SuffixByElements DEF HubTypeOK, QueueIsSuffix
      <4>2. buffer = <<>>
        BY <1>2, <4>1, EmptySeq
      <4> QED
        BY <3>2, <3>3, <4>2
    <3>4. CASE NoStart(buffer) /\ log # <<>>
      BY <1>2, <3>1, <3>4 DEF NoStart
    <3> QED
      BY <3>2, <3>3, <3>4 DEF SameInv
  <2> QED
    BY <2>1, <2>2
<1>5. ASSUME NEW v \in Viewers, conn[v] = "open" PROVE SameAs(live[v], queue[v])'
  <2> DEFINE g == Shown(live[v], queue[v])
             h == Shown(EmptyGrid, log)
  <2>1. queue[v] \in Seq(Event) /\ queue'[v] = Append(queue[v], e) /\ live[v] \in Grid
    BY <1>0, <1>5 DEF HubTypeOK, ViewerTypeOK, Publish, FanOut
  <2>2. Shown(live[v], queue'[v]) = Reduce(g, e) /\ Shown(EmptyGrid, log') = Reduce(h, e)
    BY <1>2, <2>1, ShownAppend
  <2>3. g \in Grid
    BY <2>1, ShownTypes
  <2>4. g = h \/ Untold(g)
    BY <1>5 DEF SameInv, SameAs
  <2> HIDE DEF g, h
  <2>5. e.event = "run_started" => Reduce(g, e) = Reduce(h, e)
    BY DEF Reduce
  <2>6. Reduce(g, e) = Reduce(h, e) \/ Untold(Reduce(g, e))
    BY <2>3, <2>4, <2>5, ReduceUntold
  <2> QED
    BY <1>1, <2>2, <2>6 DEF SameAs
<1> QED
  BY <1>1, <1>4, <1>5 DEF SameInv

\* What the swarm publishes.
LEMMA SwarmPublishes ==
    ASSUME StoryInv, Execute \/ \E p \in Personas : Session(p) \/ Deny(p) \/ Shield(p)
    PROVE  /\ UNCHANGED viewer
           /\ \/ UNCHANGED hub
              \/ \E e \in Event : Publish(e) /\ (e.event = "run_started" => log = <<>>)
<1>1. CASE Execute
  <2>1. exec = "created" => log = <<>>
    BY DEF StoryInv, SwarmStory
  <2> QED
    BY <1>1, <2>1, EventTypes DEF Execute, Start, ProbePasses, ProbeFails, EndInError, Build,
                                  BuildRaises, Announce, RunEvent
<1>2. CASE \E p \in Personas : Session(p) \/ Deny(p) \/ Shield(p)
  <2>1. PICK p \in Personas : Session(p) \/ Deny(p) \/ Shield(p)
    BY <1>2
  <2>2. result[p] \in Outcome
    BY DEF StoryInv, Parts, SwarmTypeOK
  <2> QED
    BY <2>1, <2>2, EventTypes DEF Session, RunnerRaises, Open, Begin, GotoFails, TakeStep, EndLoop,
                                  Finish, Deny, Shield, PersonaEvent
<1> QED
  BY <1>1, <1>2

\* A viewer's steps: a new one is given the buffer, and drawing moves an event from the
\* queue into the grid.
LEMMA ViewerSame ==
    ASSUME StoryInv, SameInv, NEW v \in Viewers, Connect(v) \/ Serve(v) \/ Leave(v)
    PROVE  SameInv'
<1>0. HubTypeOK(Event) /\ ViewerTypeOK
  BY DEF StoryInv, Parts, HubInv
<1>1. log' = log /\ buffer' = buffer
  BY DEF Connect, Serve, Send, SendFails, Leave, Subscribe, Take, hub
<1>2. \A w \in Viewers \ {v} : queue'[w] = queue[w] /\ live'[w] = live[w] /\ conn'[w] = conn[w]
  BY <1>0 DEF Connect, Serve, Send, SendFails, Leave, Subscribe, Take, hub, HubTypeOK, ViewerTypeOK
<1>3. \A w \in Viewers \ {v} :
          /\ conn'[w] = "off" => live'[w] = EmptyGrid
          /\ conn'[w] = "open" => SameAs(live[w], queue[w])'
  BY <1>1, <1>2 DEF SameInv, SameAs
<1>4. conn'[v] # "off"
  BY <1>0 DEF Connect, Serve, Send, SendFails, Leave, ViewerTypeOK
<1>5. ASSUME conn'[v] = "open" PROVE SameAs(live[v], queue[v])'
  <2>1. CASE Connect(v)
    <3>1. live'[v] = EmptyGrid /\ queue'[v] = buffer /\ buffer \in Seq(Event)
      BY <1>0, <2>1 DEF Connect, Subscribe, SameInv, HubTypeOK
    <3>2. NoStart(buffer) => Untold(Shown(EmptyGrid, buffer))
      BY <3>1, EmptyTypes, ShownTypes
    <3> QED
      BY <1>1, <3>1, <3>2 DEF SameInv, SameAs
  <2>2. CASE Send(v)
    <3>1. /\ conn[v] = "open" /\ queue[v] # <<>> /\ queue[v] \in Seq(Event)
          /\ live'[v] = Reduce(live[v], Head(queue[v])) /\ queue'[v] = Tail(queue[v])
      BY <1>0, <2>2 DEF Send, Take, HubTypeOK, ViewerTypeOK
    <3>2. Shown(live'[v], queue'[v]) = Shown(live[v], queue[v])
      BY <3>1, ShownHead
    <3> QED
      BY <1>1, <3>1, <3>2 DEF SameInv, SameAs
  <2>3. CASE SendFails(v) \/ Leave(v)
    BY <1>0, <1>5, <2>3 DEF SendFails, Leave, ViewerTypeOK
  <2> QED
    BY <2>1, <2>2, <2>3 DEF Serve
<1> QED
  BY <1>1, <1>3, <1>4, <1>5 DEF SameInv

\* It is an invariant, on top of the story.
LEMMA SameStep == StoryInv /\ SameInv /\ [Next]_vars => SameInv'
<1> SUFFICES ASSUME StoryInv, SameInv, [Next]_vars PROVE SameInv'
  OBVIOUS
<1>1. CASE UNCHANGED <<hub, viewer>>
  BY <1>1 DEF hub, viewer, SameInv, SameAs
<1>2. CASE Execute \/ \E p \in Personas : Session(p) \/ Deny(p) \/ Shield(p)
  <2>1. StartFirst'
    BY StoryStep DEF StoryInv, LogStory
  <2> QED
    BY <1>1, <1>2, <2>1, SwarmPublishes, PublishSame
<1>3. CASE \E v \in Viewers : Connect(v) \/ Serve(v) \/ Leave(v)
  BY <1>3, ViewerSame
<1> QED
  BY <1>1, <1>2, <1>3 DEF Next, vars

\* For any personas, viewers, steps, denied requests and size of the buffer: a viewer
\* that joins at any time, and whose backlog still had run_started, is brought to the
\* grid of one that was there from the start, down to the count of blocked requests.
THEOREM LateViewersCatchUp == Spec => []JoinedLateSameGrid
<1> QED
  BY InitStory, StoryStep, InitSame, SameStep, SameShows, PTL DEF Spec
=============================================================================
