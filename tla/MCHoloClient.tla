---------------------------- MODULE MCHoloClient ----------------------------
(* Instances of HoloClient: two mixes race for tokens and permits, the      *)
(* others aim at pixels without faults.                                     *)
EXTENDS HoloClient

CONSTANTS p1, p2, p3

Everyone == {p1, p2, p3}

Size(w, h) == [w |-> w, h |-> h]
Still == {<<0, 0>>}
Tremors == {<<0, 0>>, <<4, -4>>}

Racing == [who |-> Everyone, calls |-> 1, views |-> {Size(4, 4)}, axes |-> FALSE,
           kinds |-> {"still"}, noise |-> Still, wild |-> {},
           errors |-> {"rate"}, cancels |-> FALSE, backend |-> "gemini"]
Repeating == [Racing EXCEPT !.who = {p1, p2}, !.calls = 2, !.cancels = TRUE, !.backend = "holo",
                              !.errors = {"key", "rate", "network", "server"}]

\* The roster's desktop and phone, and screens wider than the image sent.
Views == {Size(1280, 800), Size(390, 844), Size(2560, 1440), Size(1025, 3)}
Aiming == [who |-> {p1}, calls |-> 1, views |-> Views, axes |-> TRUE,
           kinds |-> {"point"}, noise |-> Tremors, wild |-> {},
           errors |-> {}, cancels |-> FALSE, backend |-> "holo"]
Rambling == [Aiming EXCEPT !.axes = FALSE, !.kinds = {"wild", "partial", "unreadable", "still"},
             !.wild = {<<0, 0>>, <<-7, 1200>>, <<1280, 800>>, <<1000, 1000>>, <<999, 1>>}]
Scripted == [Rambling EXCEPT !.kinds = @ \union {"point"}, !.backend = "echo"]

AllMixes == [racing |-> Racing, repeating |-> Repeating, aiming |-> Aiming,
             rambling |-> Rambling, scripted |-> Scripted]
=============================================================================
