---------------------------- MODULE JobLifecycle ----------------------------
(***************************************************************************)
(* What the durable queue promises of a job, whoever works on it: its      *)
(* attempts are counted by claims of a QUEUED row and by nothing else, it  *)
(* is DONE only when an attempt has stored a report, a report is never     *)
(* taken back, and it is dead-lettered (FAILED) only when its attempts are *)
(* used up.  It does NOT promise that DONE and FAILED are final: a late    *)
(* mark_failed or sweep may queue the job again.                           *)
(* Worker.tla implements this specification.                               *)
(***************************************************************************)
EXTENDS Integers

CONSTANTS Jobs, MaxAttempts

VARIABLES
    state,      \* the state of each job
    attempts,   \* how often it was claimed
    reported    \* the jobs an attempt of which has stored its report

lifecycle == <<state, attempts, reported>>

Init ==
    /\ state = [j \in Jobs |-> "absent"]
    /\ attempts = [j \in Jobs |-> 0]
    /\ reported = {}

Submit(j) ==
    /\ state[j] = "absent"
    /\ state' = [state EXCEPT ![j] = "queued"]
    /\ UNCHANGED <<attempts, reported>>

Claim(j) ==
    /\ state[j] = "queued"
    /\ state' = [state EXCEPT ![j] = "running"]
    /\ attempts' = [attempts EXCEPT ![j] = @ + 1]
    /\ UNCHANGED reported

Report(j) ==
    /\ attempts[j] > 0
    /\ reported' = reported \union {j}
    /\ UNCHANGED <<state, attempts>>

Complete(j) ==
    /\ j \in reported
    /\ state' = [state EXCEPT ![j] = "done"]
    /\ UNCHANGED <<attempts, reported>>

\* A failed attempt, or a sweep over several jobs at once: each is queued again
\* or, with its attempts used up, dead-lettered.
GiveBack(retried, dead) ==
    /\ \A j \in retried \union dead : attempts[j] > 0
    /\ \A j \in dead : attempts[j] >= MaxAttempts
    /\ state' = [j \in Jobs |-> IF j \in dead THEN "failed"
                                ELSE IF j \in retried THEN "queued"
                                ELSE state[j]]
    /\ UNCHANGED <<attempts, reported>>

Next ==
    \/ \E j \in Jobs : Submit(j) \/ Claim(j) \/ Report(j) \/ Complete(j)
    \/ \E retried, dead \in SUBSET Jobs : GiveBack(retried, dead)

Spec == Init /\ [][Next]_lifecycle
=============================================================================
