----------------------------- MODULE HoloClient -----------------------------
(***************************************************************************)
(* LiveHoloClient: the personas of a run share one client, its rate        *)
(* limiter and its semaphore.  Tokens are counted in grains, Token of them *)
(* to a request, and time in ticks that refill Rate grains.  credit is the *)
(* provider's own count: of Sends times the limiter's budget, what is left *)
(* when every HTTP request is counted as it leaves, those included that    *)
(* the SDK sends again by itself, which no limiter sees; it is below zero  *)
(* when the run sends more.                                                *)
(***************************************************************************)
EXTENDS Integers, Sequences, FiniteSets, SequencesExt, PersonaAgent

CONSTANTS
    Personas,          \* the sessions that share the client
    MaxRetries,        \* max_retries: the attempts at one call
    Resends,           \* max_retries of AsyncOpenAI: 2 unless it is told otherwise
    MaxConcurrency,    \* GEMINI_MAX_CONCURRENCY: the value of the semaphore
    Capacity,          \* grains the bucket holds
    Rate,              \* grains refilled in a tick
    Token,             \* grains of a request
    MaxSleep,          \* the longest sleep of acquire, in ticks
    Mixes              \* the inputs of a behaviour, by name: see Given

ASSUME ClientAssumption ==
    /\ IsFiniteSet(Personas)
    /\ MaxRetries \in Nat \ {0} /\ Resends \in Nat /\ MaxConcurrency \in Nat \ {0}
    /\ Token \in Nat \ {0} /\ Rate \in Nat \ {0} /\ MaxSleep \in Nat \ {0}
    /\ Capacity \in Nat /\ Capacity >= Token

\* The HTTP requests that one call of create, on one token, may send.
Sends == 1 + Resends

Viewport == [w : Nat \ {0}, h : Nat \ {0}]

(* A mix gives the personas that run and their calls, the viewports, whether *)
(* every pixel of their two axes is a target or only the middle, the kinds   *)
(* of reply, the draws of the tremor, the errors of the API, whether sessions *)
(* are cancelled, and the backend; a scripted one has no API that could fail. *)
Vendors == {"holo", "selfhost", "gemini"}

ASSUME MixesAssumption ==
    \A name \in DOMAIN Mixes : LET given == Mixes[name] IN
        /\ given.calls \in Nat
        /\ \A view \in given.views : view \in Viewport
        /\ given.kinds \subseteq Replies \union {"wild"}
        /\ \A at \in given.noise \union given.wild : at \in Int \X Int
        /\ given.errors # {} => given.backend \in Vendors

VARIABLES
    mix,        \* what the personas of this behaviour are given
    tokens,     \* RateLimiter._tokens, after _refill
    credit,     \* the provider's count
    task,       \* where the session of a persona is
    wait,       \* the ticks it still sleeps
    attempt,    \* the attempts of the call that failed
    resent,     \* how often the SDK has sent the request under way again
    calls,      \* the steps it has left
    queue,      \* the waiters of the semaphore, first come first served
    aim,        \* the viewport a persona sees, the target in it, the image sent
    said        \* the last answer, what it was to hit and the tremor's draw

limits == <<tokens, credit>>
call == <<task, wait, attempt, resent, queue>>
vars == <<mix, tokens, credit, task, wait, attempt, resent, calls, queue, aim, said>>

Busy == {"acquiring", "queued", "flight"}
Reasons == {"key", "access", "rate", "raw", "cancelled"}
Errors == {"key", "access", "rate", "network", "server", "other"}

NoAim == [view |-> [w |-> 1, h |-> 1], target |-> NoPoint, sent |-> [w |-> 1, h |-> 1]]
Unsaid == [reply |-> [kind |-> "still", at |-> NoPoint], meant |-> NoPoint, noise |-> NoPoint]

Queued == {p \in Personas : task[p] = "queued"}

\* Mutant of InFlight: the permit is kept through the back-off and the wait for the next token.
HeldThroughRetries ==
    {p \in Personas : task[p] = "flight" \/ (task[p] # "idle" /\ attempt[p] > 0)}

InFlight == {p \in Personas : task[p] = "flight"}

Given == Mixes[mix]

(* build_model: the vendors' clients share a limiter and answer on the grid,  *)
(* and only Gemini's is given fewer permits than there are personas.          *)
Relative == Given.backend \in Vendors
Permits == IF Given.backend = "gemini" THEN MaxConcurrency ELSE Cardinality(Personas)

Targets(view) ==
    LET middle == Centre(view) IN
    IF Given.axes THEN {<<x, middle[2]>> : x \in 0 .. view.w - 1}
                   \union {<<middle[1], y>> : y \in 0 .. view.h - 1}
    ELSE {middle}

Init ==
    /\ mix \in DOMAIN Mixes
    /\ tokens = Capacity
    /\ credit = Sends * Capacity
    /\ task = [p \in Personas |-> "idle"]
    /\ wait = [p \in Personas |-> 0]
    /\ attempt = [p \in Personas |-> 0]
    /\ resent = [p \in Personas |-> 0]
    /\ calls = [p \in Personas |-> IF p \in Given.who THEN Given.calls ELSE 0]
    /\ queue = <<>>
    /\ aim = [p \in Personas |-> NoAim]
    /\ said = [p \in Personas |-> Unsaid]

\* Decide is called on a new screenshot; a scripted backend answers at once.
Begin(p, view, target) ==
    /\ task' = [task EXCEPT ![p] = IF Relative THEN "acquiring" ELSE "flight"]
    /\ calls' = [calls EXCEPT ![p] = @ - 1]
    /\ attempt' = [attempt EXCEPT ![p] = 0]
    /\ wait' = [wait EXCEPT ![p] = 0]
    /\ aim' = [aim EXCEPT ![p] =
            [view |-> view, target |-> target, sent |-> Sent(Relative, view)]]
    /\ said' = [said EXCEPT ![p] = Unsaid]
    /\ UNCHANGED <<mix, limits, resent, queue>>

\* The sleep until the token that is missing will be there, rounded up.
Deficit == LET ticks == (Token - tokens + Rate - 1) \div Rate IN Min({ticks, MaxSleep})

\* Mutant of TakeToken: only the first attempt takes a token.
TakeTokenOnce(p) ==
    /\ task[p] = "acquiring" /\ wait[p] = 0 /\ (tokens >= Token \/ attempt[p] > 0)
    /\ tokens' = IF attempt[p] = 0 THEN tokens - Token ELSE tokens
    /\ task' = [task EXCEPT ![p] = "queued"]
    /\ queue' = Append(queue, p)
    /\ UNCHANGED <<mix, credit, wait, attempt, resent, calls, aim, said>>

TakeToken(p) ==
    /\ task[p] = "acquiring" /\ wait[p] = 0 /\ tokens >= Token
    /\ tokens' = tokens - Token
    /\ task' = [task EXCEPT ![p] = "queued"]
    /\ queue' = Append(queue, p)
    /\ UNCHANGED <<mix, credit, wait, attempt, resent, calls, aim, said>>

AwaitToken(p) ==
    /\ task[p] = "acquiring" /\ wait[p] = 0 /\ tokens < Token
    /\ wait' = [wait EXCEPT ![p] = Deficit]
    /\ UNCHANGED <<mix, limits, task, attempt, resent, calls, queue, aim, said>>

Acquire(p) == TakeToken(p) \/ AwaitToken(p)

\* The first waiter gets a free permit and its request leaves.
Start(p) ==
    /\ queue # <<>> /\ p = Head(queue) /\ task[p] = "queued"
    /\ Cardinality(InFlight) < Permits
    /\ queue' = Tail(queue)
    /\ task' = [task EXCEPT ![p] = "flight"]
    /\ credit' = credit - Token
    /\ UNCHANGED <<mix, tokens, wait, attempt, resent, calls, aim, said>>

(* create sends the request again when the connection failed or the provider *)
(* had none to spare or failed: with its token and its permit, until it has   *)
(* done so Resends times.                                                    *)
Resend(p, error) ==
    /\ task[p] = "flight" /\ error \in {"rate", "network", "server"} /\ resent[p] < Resends
    /\ credit' = credit - Token
    /\ resent' = [resent EXCEPT ![p] = @ + 1]
    /\ UNCHANGED <<mix, tokens, task, wait, attempt, calls, queue, aim, said>>

\* create raises: an answer may forbid another request (x-should-retry), a lost one cannot.
GivesUp(p, error) == error = "network" => resent[p] = Resends

\* What a reply names is what the model saw, or anything.
Said(p, kind) ==
    IF kind = "wild" THEN {[kind |-> "point", at |-> at] : at \in Given.wild}
    ELSE {[kind |-> kind, at |-> Ideal(Relative, aim[p].view, aim[p].target)]}

\* Without a point of its own the action goes to the middle.
Meant(p, kind) ==
    CASE kind = "point" -> aim[p].target
      [] kind \in {"partial", "unreadable"} -> Centre(aim[p].view)
      [] kind \in {"wild", "still"} -> NoPoint

Answer(p, kind, reply, noise) ==
    /\ task' = [task EXCEPT ![p] = "idle"]
    /\ attempt' = [attempt EXCEPT ![p] = 0]
    /\ said' = [said EXCEPT ![p] = [reply |-> reply, meant |-> Meant(p, kind), noise |-> noise]]
    /\ resent' = [resent EXCEPT ![p] = 0]
    /\ UNCHANGED <<mix, limits, wait, calls, queue, aim>>

\* What decide makes of the answer: the action that is carried out.
Action(p) == Decide(Relative, aim[p].sent, aim[p].view, said[p].reply, said[p].noise)

Retriable(error) == error \in {"rate", "network"}

\* 2 ** n, up to the cap; from the sixth attempt on that is above both.
BackOff(error, n) ==
    LET cap == IF error = "rate" THEN 30 ELSE 10
    IN  IF n < 5 THEN Min({2 ^ n, cap}) ELSE cap

\* _classify_api_error, or the error's own text.
Reason(error) == IF error \in {"key", "access", "rate"} THEN error ELSE "raw"

Retry(p, error) ==
    /\ task[p] = "flight" /\ Retriable(error) /\ attempt[p] < MaxRetries - 1
    /\ task' = [task EXCEPT ![p] = "acquiring"]
    /\ wait' = [wait EXCEPT ![p] = BackOff(error, attempt[p])]
    /\ attempt' = [attempt EXCEPT ![p] = @ + 1]
    /\ resent' = [resent EXCEPT ![p] = 0]
    /\ UNCHANGED <<mix, limits, calls, queue, aim, said>>

\* The error ends the persona's session.
Raise(p, error) ==
    /\ task[p] = "flight" /\ ~(Retriable(error) /\ attempt[p] < MaxRetries - 1)
    /\ task' = [task EXCEPT ![p] = Reason(error)]
    /\ resent' = [resent EXCEPT ![p] = 0]
    /\ UNCHANGED <<mix, limits, wait, attempt, calls, queue, aim, said>>

Fail(p, error) == GivesUp(p, error) /\ (Retry(p, error) \/ Raise(p, error))

\* Mutant of Cancel: the waiter keeps its place in the queue.
CancelInPlace(p) ==
    /\ Given.cancels /\ task[p] \in Busy
    /\ task' = [task EXCEPT ![p] = "cancelled"]
    /\ UNCHANGED <<mix, limits, wait, attempt, resent, calls, queue, aim, said>>

\* The session's wall clock ends and cancels the call where it awaits.
Cancel(p) ==
    /\ Given.cancels /\ task[p] \in Busy
    /\ task' = [task EXCEPT ![p] = "cancelled"]
    /\ IF task[p] = "queued"
       THEN \E i \in DOMAIN queue : queue[i] = p /\ queue' = RemoveAt(queue, i)
       ELSE UNCHANGED queue
    /\ resent' = [resent EXCEPT ![p] = 0]
    /\ UNCHANGED <<mix, limits, wait, attempt, calls, aim, said>>

Tick ==
    /\ tokens' = Min({Capacity, tokens + Rate})
    /\ credit' = Min({Sends * Capacity, credit + Sends * Rate})
    /\ wait' = [p \in Personas |-> IF task[p] = "acquiring" THEN Max({0, wait[p] - 1}) ELSE 0]
    /\ UNCHANGED <<mix, task, attempt, resent, calls, queue, aim, said>>

BeginAny(p) ==
    /\ task[p] = "idle" /\ calls[p] > 0
    /\ \E view \in Given.views : \E target \in Targets(view) : Begin(p, view, target)

AnswerAny(p) ==
    /\ task[p] = "flight"
    /\ \E kind \in Given.kinds : \E reply \in Said(p, kind) : \E noise \in Given.noise :
          Answer(p, kind, reply, noise)

ResendAny(p) == \E error \in Given.errors : Resend(p, error)

FailAny(p) == \E error \in Given.errors : Fail(p, error)

\* What becomes of a request that is under way.
Goes(p) == AnswerAny(p) \/ ResendAny(p) \/ FailAny(p)

Next ==
    \/ Tick
    \/ \E p \in Personas :
          BeginAny(p) \/ Acquire(p) \/ Start(p) \/ Goes(p) \/ Cancel(p)

Spec == Init /\ [][Next]_vars

(* The clock runs, the event loop runs what is ready, and the HTTP client     *)
(* ends each request with an answer or an error, after it has sent it again   *)
(* so often at most.  No session need be ended by its wall clock, and no      *)
(* persona need begin a step.                                                *)
Fairness ==
    /\ WF_vars(Tick)
    /\ \A p \in Personas :
          WF_vars(Acquire(p)) /\ WF_vars(Start(p)) /\ WF_vars(Goes(p))

FairSpec == Spec /\ Fairness

------------------------------------------------------------------------------
\* The semaphore's queue holds those who wait for it, each once.
TypeOK ==
    /\ mix \in DOMAIN Mixes
    /\ tokens \in 0 .. Capacity
    /\ credit \in Int
    /\ task \in [Personas -> {"idle"} \union Busy \union Reasons]
    /\ wait \in [Personas -> Nat]
    /\ attempt \in [Personas -> 0 .. MaxRetries - 1]
    /\ resent \in [Personas -> 0 .. Resends]
    /\ calls \in [Personas -> Nat]
    /\ queue \in Seq(Personas)
    /\ ToSet(queue) = Queued /\ Len(queue) = Cardinality(Queued)
    /\ DOMAIN aim = Personas /\ DOMAIN said = Personas

(***************************************************************************)
(* A token pays for a call of create, which sends up to Sends requests,    *)
(* and the tokens of calls that wait for the semaphore are spent but not   *)
(* sent, while the bucket refills.  This bounds the HTTP requests that     *)
(* reach the provider: whatever is retried, sent again, cancelled or held  *)
(* back, the run is never ahead of Sends times the limiter's budget by     *)
(* more than one call, with all its resends, for each persona whose call   *)
(* does not wait for a permit (holo_client.py:428).                        *)
(***************************************************************************)
RateOverrunBounded == credit >= 0 - Sends * Token * Cardinality(Personas \ Queued)

(***************************************************************************)
(* Every call ends: no persona waits forever for a token that others take  *)
(* first, or for a permit that a failed, retried or cancelled call of      *)
(* another kept.                                                           *)
(***************************************************************************)
CallsEnd == \A p \in Personas : (task[p] \in Busy) ~> (task[p] \notin Busy)

(***************************************************************************)
(* A decided point is a pixel of the viewport whatever the model said, and *)
(* when it answered as asked, the pixel is where the persona meant to go,  *)
(* but for the grid, the pixels of the smaller image and the tremor.       *)
(***************************************************************************)
ClickNearTarget ==
    \A p \in Personas : LET at == Action(p) IN
        at # NoPoint =>
            /\ Inside(at, aim[p].view)
            /\ said[p].meant # NoPoint =>
                   Near(at, said[p].meant, said[p].noise, aim[p].sent, aim[p].view)
=============================================================================
