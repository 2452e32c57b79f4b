------------------------------ MODULE MCHosted ------------------------------
(* Instances of Hosted: one mix of inputs for each of its parts.            *)
EXTENDS Hosted

CONSTANTS p1, p2, s1, s2, u1, u2, u3, u4, a1, a2, h1, c1, sl1, sl2, r1, r2, b1

TwoSubs == {s1, s2}
FourUsers == {u1, u2, u3, u4}
TwoTenants == {p1, p2}

Seats == [t \in Tiers |-> IF t = "free" THEN 1 ELSE 2]
RunQuota == [t \in Tiers |-> IF t = "free" THEN 1 ELSE 2]

Nothing == [k \in Kinds |-> 0]
Subscribing == [Nothing EXCEPT !["stripe"] = 3, !["lose"] = 1, !["again"] = 1, !["abort"] = 1]
Inviting == [Nothing EXCEPT !["stripe"] = 1, !["seat"] = 4, !["remove"] = 1]
Running == [Nothing EXCEPT !["stripe"] = 1, !["run"] = 3]
Retrying == [Nothing EXCEPT !["run"] = 2, !["retry"] = 1, !["month"] = 1]
Queueing == [Nothing EXCEPT !["offer"] = 7]
Sweeping == [Nothing EXCEPT !["start"] = 2, !["set"] = 2, !["die"] = 1, !["miss"] = 1]
AllMixes == {Subscribing, Inviting, Running, Retrying, Queueing, Sweeping}
OnlySweeping == {Sweeping}
=============================================================================
