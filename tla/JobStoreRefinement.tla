--------------------------- MODULE JobStoreRefinement ---------------------------
(***************************************************************************)
(* A job store implements JobLedger: the tally of a place is what the      *)
(* dashboard says of it, plus the jobs it leaves out: turns canceled       *)
(* through the private protocol since it was built, and what a crash lost. *)
(* Until there is a dashboard the rows themselves are the tally.           *)
(***************************************************************************)
EXTENDS JobStore

LifeOf == [j \in Jobs |-> IF status[j] \in Active THEN "pending" ELSE status[j]]
PlaceOf == [j \in Jobs |-> SlotOf(j)]
LegsOf == [j \in Jobs |-> Len(request[j].trail)]

EndedIn(S, o, k) == Cardinality({j \in S : status[j] = o /\ SlotOf(j) = k})
TallyOf == [k \in Slots |-> [o \in Terminal |->
               IF Populated THEN dashboard[k][o] + EndedIn(uncounted \union torn, o, k)
                            ELSE EndedIn(Jobs, o, k)]]

Ledger == INSTANCE JobLedger
          WITH Places <- Slots, life <- LifeOf, place <- PlaceOf, legs <- LegsOf, tally <- TallyOf

(***************************************************************************)
(* Every step of the store, crashes and restarts between its transactions  *)
(* included, ends a set of pending jobs and counts exactly those where     *)
(* they ended, moves one pending job on, accepts one, or changes nothing a *)
(* client counts.                                                          *)
(***************************************************************************)
ImplementsLedger == Ledger!Spec
=============================================================================
