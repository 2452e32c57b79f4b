------------------------------- MODULE MCGate -------------------------------
(* The bundled roster, of which three personas are sent again and again.    *)
EXTENDS Gate

BundledRoster ==
    <<"ai-agent", "first-timer", "fluent", "misclick-prone", "mobile-thumb", "rushed">>
BundledChannels ==
    "ai-agent" :> <<>> @@ "first-timer" :> <<"low_literacy", "impatience">>
      @@ "fluent" :> <<>> @@ "misclick-prone" :> <<"tremor">>
      @@ "mobile-thumb" :> <<"small_viewport", "tremor">> @@ "rushed" :> <<"impatience">>
BundledMaxSteps ==
    "ai-agent" :> 40 @@ "first-timer" :> 20 @@ "fluent" :> 40
      @@ "misclick-prone" :> 6 @@ "mobile-thumb" :> 7 @@ "rushed" :> 10

Trio == <<"ai-agent", "rushed", "mobile-thumb">>

Ended(how, n, pixel) ==
    [outcome |-> how, steps |-> n, died |-> IF how = "success" \/ n = 0 THEN None ELSE n - 1,
     at |-> pixel, again |-> how = "stuck"]
Succeeds == Ended("success", 4, NoPixel)
Breaks == Ended("error", 0, NoPixel)
BreaksLate == Ended("error", 3, <<1300, 90>>)

\* Of the two impaired personas one at most gives up.
TrioSessions ==
    {s \in {"ai-agent" :> a @@ "rushed" :> r @@ "mobile-thumb" :> m :
            a \in {Succeeds, Ended("stuck", 6, <<638, 566>>), Breaks},
            r \in {Succeeds, Ended("stuck", 5, <<638, 590>>), BreaksLate},
            m \in {Succeeds, Ended("step_budget", 7, <<600, -3>>)}} :
        s["rushed"].outcome = "stuck" => s["mobile-thumb"] = Succeeds}
DemoSessions == {WorkingSessions, BrokenSessions}
WholeSessions == {[p \in Personas |-> Breaks],
                  [p \in Personas |-> IF p = "fluent" THEN Breaks ELSE Ended("step_budget", MaxSteps[p], <<9, 9>>)]}
AllSessions == TrioSessions \union DemoSessions \union WholeSessions

Plain == [fixture |-> FALSE, url |-> TRUE, task |-> TRUE, known |-> TRUE, ask |-> Trio, cap |-> 6,
          writable |-> TRUE, scheme |-> "http", addrs |-> {"public"}, listed |-> TRUE,
          private |-> FALSE, up |-> TRUE, key |-> TRUE]
AllFlags ==
    {Plain, [Plain EXCEPT !.ask = <<>>], [Plain EXCEPT !.ask = Append(Trio, "fluent"), !.cap = 3],
     [Plain EXCEPT !.ask = <<"grandma">>], [Plain EXCEPT !.writable = FALSE],
     [Plain EXCEPT !.known = FALSE], [Plain EXCEPT !.url = FALSE], [Plain EXCEPT !.scheme = "ftp"],
     [Plain EXCEPT !.addrs = {}], [Plain EXCEPT !.addrs = {"public", "private"}],
     [Plain EXCEPT !.addrs = {"loopback"}, !.private = TRUE, !.up = FALSE],
     [Plain EXCEPT !.key = FALSE], [Plain EXCEPT !.fixture = TRUE, !.key = FALSE, !.task = FALSE]}

\* What may be kept outside the directory: the broken build's report.
OtherReports == {NoReport, Torn, Build(BrokenSessions)}

AllBars == {[kind |-> "last", at |-> 0], [kind |-> "bar", at |-> 60], [kind |-> "junk", at |-> 0]}
=============================================================================
