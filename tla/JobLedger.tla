------------------------------- MODULE JobLedger -------------------------------
(***************************************************************************)
(* What the job store promises its clients, without its tables: a job that *)
(* was created stays pending, moving from place to place, until it ends    *)
(* once, and the tally of outcomes of a place grows by exactly the jobs    *)
(* that end there in the same step.                                        *)
(***************************************************************************)
EXTENDS Integers, FiniteSets

CONSTANTS
    Jobs,
    Places   \* where a job can be: a profile and a provider

VARIABLES
    life,   \* "absent", "pending" or an outcome
    place,  \* where the job is, or ended
    legs,   \* how many places the job has left behind
    tally   \* per place, jobs per outcome

vars == <<life, place, legs, tally>>
Outcome == {"succeeded", "failed", "canceled"}

EndedAt(S, k) == Cardinality({j \in S : place[j] = k})

\* Jobs of an earlier time may be there, pending or ended.
Init ==
    /\ life \in [Jobs -> {"absent", "pending"} \union Outcome]
    /\ place \in [Jobs -> Places]
    /\ legs = [j \in Jobs |-> 0]
    /\ tally = [k \in Places |-> [o \in Outcome |-> EndedAt({j \in Jobs : life[j] = o}, k)]]

Accept(j) ==
    /\ life[j] = "absent"
    /\ life' = [life EXCEPT ![j] = "pending"]
    /\ \E k \in Places : place' = [place EXCEPT ![j] = k]
    /\ UNCHANGED <<legs, tally>>

MoveOn(j) ==
    /\ life[j] = "pending"
    /\ \E k \in Places \ {place[j]} : place' = [place EXCEPT ![j] = k]
    /\ legs' = [legs EXCEPT ![j] = @ + 1]
    /\ UNCHANGED <<life, tally>>

\* Several jobs end together when a daemon finds what its predecessor left.
End(S, o) ==
    /\ \A j \in S : life[j] = "pending"
    /\ life' = [j \in Jobs |-> IF j \in S THEN o ELSE life[j]]
    /\ tally' = [k \in Places |-> [tally[k] EXCEPT ![o] = @ + EndedAt(S, k)]]
    /\ UNCHANGED <<place, legs>>

Next ==
    \/ \E j \in Jobs : Accept(j) \/ MoveOn(j)
    \/ \E S \in SUBSET Jobs, o \in Outcome : End(S, o)

Spec == Init /\ [][Next]_vars
=============================================================================
