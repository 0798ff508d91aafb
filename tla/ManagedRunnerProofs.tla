-------------------------- MODULE ManagedRunnerProofs --------------------------
(***************************************************************************)
(* Theorems of JobStore, and of ManagedRunner on top of it, for every set  *)
(* of jobs, providers, profiles, requests, responses and scripts.          *)
(*                                                                         *)
(* Of the store: the outcomes, the plan, the submissions and the dashboard *)
(* are right, and it implements JobLedger.  Of the runner: what an         *)
(* execution remembers agrees with the row of its job, therefore it takes  *)
(* only steps of the store, and what the providers accepted was admitted,  *)
(* once, and never abandoned unexplained.                                  *)
(***************************************************************************)
EXTENDS ManagedRunner, JobStoreRefinement, FiniteSetTheorems, TLAPS

-----------------------------------------------------------------------------
(* The job store.                                                          *)

USE JobsAssumption, ProvidersAssumption, BoundAssumption

(***************************************************************************)
(* The request safeFallbackRequest builds is again a request: it has a     *)
(* provider, a shorter plan and a longer trail.                            *)
(***************************************************************************)
LEMMA NextRequestType ==
    ASSUME NEW r \in Requests, r.plan # <<>>, NEW reason \in Reasons, NEW sub \in BOOLEAN
    PROVE  NextRequest(r, reason, sub) \in Requests
<1> DEFINE attempt == [provider |-> r.provider, reason |-> reason, submitted |-> sub]
<1>1. r.plan \in Seq(Providers) /\ r.trail \in Seq(Attempts) /\ r.provider \in Providers
  BY DEF Requests
<1>2. Head(r.plan) \in Providers /\ Tail(r.plan) \in Seq(Providers)
  BY <1>1
<1>3. attempt \in Attempts
  BY <1>1 DEF Attempts
<1>4. Append(r.trail, attempt) \in Seq(Attempts)
  BY <1>1, <1>3
<1> QED
  BY <1>2, <1>4 DEF NextRequest, Requests

(***************************************************************************)
(* Counting jobs and adding them to a tally stays within the naturals.     *)
(***************************************************************************)
LEMMA CountsAreNat ==
    /\ \A S : S \subseteq Jobs => Cardinality(S) \in Nat
    /\ \A S : S \subseteq Responses => Cardinality(S) \in Nat
    /\ \A S : S \subseteq Jobs \X Responses => Cardinality(S) \in Nat
<1>1. IsFiniteSet(Jobs) /\ IsFiniteSet(Responses)
  OBVIOUS
<1>2. IsFiniteSet(Jobs \X Responses)
  BY <1>1, FS_Product
<1> QED
  BY <1>1, <1>2, FS_Subset, FS_CardinalityType

LEMMA SlotsOfJobs ==
    ASSUME TypeOK, NEW j \in Jobs
    PROVE  SlotOf(j) \in Slots
BY DEF TypeOK, SlotOf, Slots, Requests

LEMMA TerminalTallyType ==
    ASSUME TypeOK, NEW S \in SUBSET Jobs, NEW o \in Terminal, RecordTerminal(S, o)
    PROVE  dashboard' \in [Slots -> [Terminal -> Nat]]
<1>1. ASSUME NEW k \in Slots
      PROVE  [dashboard[k] EXCEPT ![o] = @ + Cardinality({j \in S : SlotOf(j) = k})]
                 \in [Terminal -> Nat]
  <2>1. Cardinality({j \in S : SlotOf(j) = k}) \in Nat
    BY CountsAreNat
  <2>2. dashboard[k] \in [Terminal -> Nat]
    BY DEF TypeOK
  <2> QED
    BY <2>1, <2>2
<1> QED
  BY <1>1 DEF RecordTerminal

LEMMA SavingsType ==
    ASSUME TypeOK, NEW j \in Jobs, NEW measured \in SUBSET Responses, RecordSavings(j, measured)
    PROVE  /\ events' \in [Jobs -> SUBSET Responses]
           /\ savings' \in [Slots -> [responses : Nat, jobs : Nat]]
<1> DEFINE fresh == measured \ events[j]
           first == fresh # {} /\ events[j] = {}
           old == savings[SlotOf(j)]
           new == [responses |-> old.responses + Cardinality(fresh),
                   jobs |-> old.jobs + IF first THEN 1 ELSE 0]
<1>1. events' = [events EXCEPT ![j] = @ \union fresh]
      /\ savings' = [savings EXCEPT ![SlotOf(j)] = new]
  BY DEF RecordSavings
<1>2. Cardinality(fresh) \in Nat
  BY CountsAreNat
<1>3. old \in [responses : Nat, jobs : Nat]
  BY SlotsOfJobs DEF TypeOK
<1>4. new \in [responses : Nat, jobs : Nat]
  BY <1>2, <1>3
<1>5. savings' \in [Slots -> [responses : Nat, jobs : Nat]]
  BY <1>1, <1>4 DEF TypeOK
<1>6. events' \in [Jobs -> SUBSET Responses]
  BY <1>1 DEF TypeOK
<1> QED
  BY <1>5, <1>6

-----------------------------------------------------------------------------
LEMMA InitTypeOK == Init => TypeOK
<1> SUFFICES ASSUME Init PROVE TypeOK
  OBVIOUS
<1>1. request \in [Jobs -> Requests]
  BY RequestsAssumption DEF Init
<1>2. outcome \in [Jobs -> Outcomes]
  BY DEF Init, Outcomes, ResultOnly, NoOutcome
<1> QED
  BY <1>1, <1>2 DEF Init, TypeOK, Phases, Statuses, Active, Terminal

LEMMA NextTypeOK == TypeOK /\ [Next]_vars => TypeOK'
<1> SUFFICES ASSUME TypeOK, [Next]_vars PROVE TypeOK'
  OBVIOUS
<1> USE DEF TypeOK, Phases, Statuses, Active, Executing, Terminal, Outcomes
<1>1. CASE Migrate
  BY <1>1 DEF Migrate, jobVars, dashboardVars
<1>2. CASE RebuildDashboard
  <2>1. dashboard' \in [Slots -> [Terminal -> Nat]]
    BY <1>2, CountsAreNat DEF RebuildDashboard
  <2>2. savings' \in [Slots -> [responses : Nat, jobs : Nat]]
    BY <1>2, CountsAreNat DEF RebuildDashboard
  <2> QED
    BY <1>2, <2>1, <2>2 DEF RebuildDashboard, jobVars
<1>3. CASE FailInterrupted
  <2> DEFINE left == {j \in Jobs : status[j] \in Active}
  <2>1. RecordTerminal(left, "failed")
    BY <1>3 DEF FailInterrupted
  <2>2. dashboard' \in [Slots -> [Terminal -> Nat]]
    BY <2>1, TerminalTallyType
  <2>3. outcome' \in [Jobs -> Outcomes]
    BY <1>3 DEF FailInterrupted, ErrorOnly, NoOutcome
  <2> QED
    BY <1>3, <2>2, <2>3 DEF FailInterrupted
<1>4. CASE Crash
  BY <1>4 DEF Crash, jobVars, dashboardVars
<1>5. CASE ClearOutputSavings
  BY <1>5 DEF ClearOutputSavings, openVars, jobVars
<1>6. ASSUME NEW j \in Jobs, NEW r \in NewRequests, CreateJob(j, r) PROVE TypeOK'
  <2>1. request' \in [Jobs -> Requests]
    BY <1>6, RequestsAssumption DEF CreateJob
  <2>2. Cardinality(Rows) \in Nat
    BY CountsAreNat DEF Rows
  <2>3. born' \in [Jobs -> Nat]
    BY <1>6, <2>2 DEF CreateJob, Rows
  <2> QED
    BY <1>6, <2>1, <2>3 DEF CreateJob, openVars, dashboardVars
<1>7. ASSUME NEW j \in Jobs, TakeNextJob(j) PROVE TypeOK'
  BY <1>7 DEF TakeNextJob, openVars, dashboardVars
<1>8. ASSUME NEW j \in Jobs, MarkWaitingForUser(j) PROVE TypeOK'
  BY <1>8 DEF MarkWaitingForUser, openVars, dashboardVars
<1>9. ASSUME NEW j \in Jobs, MarkRunning(j) PROVE TypeOK'
  BY <1>9 DEF MarkRunning, openVars, dashboardVars
<1>10. ASSUME NEW j \in Jobs, AdmitProviderAction(j) PROVE TypeOK'
  <2>1. request[j].provider \in Providers
    BY DEF Requests
  <2> QED
    BY <1>10, <2>1 DEF AdmitProviderAction, openVars, jobVars, dashboardVars
<1>11. ASSUME NEW j \in Jobs, RecordProviderSubmission(j) PROVE TypeOK'
  BY <1>11 DEF RecordProviderSubmission, openVars, dashboardVars
<1>12. ASSUME NEW j \in Jobs, Fallback(j) PROVE TypeOK'
  <2>1. PICK reason \in Reasons, proof \in Proofs :
            /\ request[j].plan # <<>>
            /\ FallbackJob(j, NextRequest(request[j], reason, submitted[j]), proof)
    BY <1>12 DEF Fallback
  <2>2. NextRequest(request[j], reason, submitted[j]) \in Requests
    BY <2>1, NextRequestType
  <2>3. outcome' \in [Jobs -> Outcomes]
    BY <2>1 DEF FallbackJob, MayRestart, NoOutcome
  <2> QED
    BY <2>1, <2>2, <2>3 DEF FallbackJob, MayRestart, openVars, dashboardVars
<1>13. ASSUME NEW j \in Jobs, NEW recorded \in SUBSET Responses,
              CompleteWithResult(j, recorded)
       PROVE  TypeOK'
  <2>1. dashboard' \in [Slots -> [Terminal -> Nat]]
    BY <1>13, TerminalTallyType DEF CompleteWithResult
  <2>2. /\ events' \in [Jobs -> SUBSET Responses]
        /\ savings' \in [Slots -> [responses : Nat, jobs : Nat]]
    BY <1>13, SavingsType DEF CompleteWithResult
  <2>3. outcome' \in [Jobs -> Outcomes]
    BY <1>13 DEF CompleteWithResult, ResultOnly, NoOutcome
  <2> QED
    BY <1>13, <2>1, <2>2, <2>3 DEF CompleteWithResult, openVars
<1>14. ASSUME NEW j \in Jobs, CompleteWithError(j) PROVE TypeOK'
  <2>1. dashboard' \in [Slots -> [Terminal -> Nat]]
    BY <1>14, TerminalTallyType DEF CompleteWithError
  <2>2. outcome' \in [Jobs -> Outcomes]
    BY <1>14 DEF CompleteWithError, ErrorOnly, NoOutcome
  <2> QED
    BY <1>14, <2>1, <2>2 DEF CompleteWithError, openVars
<1>15. ASSUME NEW j \in Jobs, CancelJob(j) PROVE TypeOK'
  <2>1. dashboard' \in [Slots -> [Terminal -> Nat]]
    BY <1>15, TerminalTallyType DEF CancelJob
  <2>2. outcome' \in [Jobs -> Outcomes]
    BY <1>15 DEF CancelJob, ErrorOnly, NoOutcome
  <2> QED
    BY <1>15, <2>1, <2>2 DEF CancelJob, openVars
<1>16. ASSUME NEW j \in Jobs, CancelTurnJob(j) PROVE TypeOK'
  BY <1>16 DEF CancelTurnJob, openVars, ErrorOnly, NoOutcome
<1>17. CASE UNCHANGED vars
  BY <1>17 DEF vars, openVars, jobVars, dashboardVars
<1> QED
  BY <1>1, <1>2, <1>3, <1>4, <1>5, <1>6, <1>7, <1>8, <1>9, <1>10, <1>11, <1>12, <1>13,
     <1>14, <1>15, <1>16, <1>17 DEF Next

(***************************************************************************)
(* Every column always holds a value its readers accept.                   *)
(***************************************************************************)
THEOREM TypeCorrect == Spec => []TypeOK
BY InitTypeOK, NextTypeOK, PTL DEF Spec

-----------------------------------------------------------------------------
LEMMA InitOutcome == Init => OutcomeMatchesStatus
BY DEF Init, OutcomeMatchesStatus, NoOutcome, ResultOnly

LEMMA NextOutcome ==
    TypeOK /\ OutcomeMatchesStatus /\ [Next]_vars => OutcomeMatchesStatus'
<1> SUFFICES ASSUME TypeOK, OutcomeMatchesStatus, [Next]_vars
             PROVE  OutcomeMatchesStatus'
  OBVIOUS
<1> USE DEF TypeOK, OutcomeMatchesStatus, NoOutcome, ResultOnly, ErrorOnly, Outcomes,
            Statuses, Active, Executing, Terminal
<1>1. CASE Migrate
  BY <1>1 DEF Migrate, jobVars
<1>2. CASE RebuildDashboard
  BY <1>2 DEF RebuildDashboard, jobVars
<1>3. CASE FailInterrupted
  BY <1>3 DEF FailInterrupted
<1>4. CASE Crash
  BY <1>4 DEF Crash, jobVars
<1>5. CASE ClearOutputSavings
  BY <1>5 DEF ClearOutputSavings, jobVars
<1>6. ASSUME NEW j \in Jobs, NEW r \in NewRequests, CreateJob(j, r)
      PROVE  OutcomeMatchesStatus'
  BY <1>6 DEF CreateJob
<1>7. ASSUME NEW j \in Jobs, TakeNextJob(j) PROVE OutcomeMatchesStatus'
  BY <1>7 DEF TakeNextJob, Oldest, Queued
<1>8. ASSUME NEW j \in Jobs, MarkWaitingForUser(j) PROVE OutcomeMatchesStatus'
  BY <1>8 DEF MarkWaitingForUser
<1>9. ASSUME NEW j \in Jobs, MarkRunning(j) PROVE OutcomeMatchesStatus'
  BY <1>9 DEF MarkRunning
<1>10. ASSUME NEW j \in Jobs, AdmitProviderAction(j) PROVE OutcomeMatchesStatus'
  BY <1>10 DEF AdmitProviderAction, jobVars
<1>11. ASSUME NEW j \in Jobs, RecordProviderSubmission(j) PROVE OutcomeMatchesStatus'
  BY <1>11 DEF RecordProviderSubmission
<1>12. ASSUME NEW j \in Jobs, Fallback(j) PROVE OutcomeMatchesStatus'
  BY <1>12 DEF Fallback, FallbackJob, MayRestart
<1>13. ASSUME NEW j \in Jobs, NEW recorded \in SUBSET Responses,
              CompleteWithResult(j, recorded)
       PROVE  OutcomeMatchesStatus'
  BY <1>13 DEF CompleteWithResult
<1>14. ASSUME NEW j \in Jobs, CompleteWithError(j) PROVE OutcomeMatchesStatus'
  BY <1>14 DEF CompleteWithError
<1>15. ASSUME NEW j \in Jobs, CancelJob(j) PROVE OutcomeMatchesStatus'
  BY <1>15 DEF CancelJob
<1>16. ASSUME NEW j \in Jobs, CancelTurnJob(j) PROVE OutcomeMatchesStatus'
  BY <1>16 DEF CancelTurnJob
<1>17. CASE UNCHANGED vars
  BY <1>17 DEF vars, jobVars
<1> QED
  BY <1>1, <1>2, <1>3, <1>4, <1>5, <1>6, <1>7, <1>8, <1>9, <1>10, <1>11, <1>12, <1>13,
     <1>14, <1>15, <1>16, <1>17 DEF Next

(***************************************************************************)
(* result_json, error_json and blocker_json agree with the status, in      *)
(* whatever order completions, cancellations, handoffs, fallbacks, crashes *)
(* and restarts reach the row.                                             *)
(***************************************************************************)
THEOREM OutcomesAgree == Spec => []OutcomeMatchesStatus
BY InitTypeOK, NextTypeOK, InitOutcome, NextOutcome, PTL DEF Spec

-----------------------------------------------------------------------------
Frozen(j) ==
    /\ status'[j] = status[j]
    /\ outcome'[j] = outcome[j]
    /\ request'[j] = request[j]
    /\ submitted'[j] = submitted[j]

LEMMA SettledStep ==
    ASSUME TypeOK, [Next]_vars, NEW i \in Jobs, status[i] \in Terminal
    PROVE  Frozen(i)
<1> USE DEF TypeOK, Frozen, Statuses, Active, Executing, Terminal
<1>1. CASE Migrate
  BY <1>1 DEF Migrate, jobVars
<1>2. CASE RebuildDashboard
  BY <1>2 DEF RebuildDashboard, jobVars
<1>3. CASE FailInterrupted
  BY <1>3 DEF FailInterrupted
<1>4. CASE Crash
  BY <1>4 DEF Crash, jobVars
<1>5. CASE ClearOutputSavings
  BY <1>5 DEF ClearOutputSavings, jobVars
<1>6. ASSUME NEW j \in Jobs, NEW r \in NewRequests, CreateJob(j, r) PROVE Frozen(i)
  BY <1>6 DEF CreateJob
<1>7. ASSUME NEW j \in Jobs, TakeNextJob(j) PROVE Frozen(i)
  BY <1>7 DEF TakeNextJob, Oldest, Queued
<1>8. ASSUME NEW j \in Jobs, MarkWaitingForUser(j) PROVE Frozen(i)
  BY <1>8 DEF MarkWaitingForUser
<1>9. ASSUME NEW j \in Jobs, MarkRunning(j) PROVE Frozen(i)
  BY <1>9 DEF MarkRunning
<1>10. ASSUME NEW j \in Jobs, AdmitProviderAction(j) PROVE Frozen(i)
  BY <1>10 DEF AdmitProviderAction, jobVars
<1>11. ASSUME NEW j \in Jobs, RecordProviderSubmission(j) PROVE Frozen(i)
  BY <1>11 DEF RecordProviderSubmission
<1>12. ASSUME NEW j \in Jobs, Fallback(j) PROVE Frozen(i)
  BY <1>12 DEF Fallback, FallbackJob, MayRestart
<1>13. ASSUME NEW j \in Jobs, NEW recorded \in SUBSET Responses,
              CompleteWithResult(j, recorded)
       PROVE  Frozen(i)
  BY <1>13 DEF CompleteWithResult
<1>14. ASSUME NEW j \in Jobs, CompleteWithError(j) PROVE Frozen(i)
  BY <1>14 DEF CompleteWithError
<1>15. ASSUME NEW j \in Jobs, CancelJob(j) PROVE Frozen(i)
  BY <1>15 DEF CancelJob
<1>16. ASSUME NEW j \in Jobs, CancelTurnJob(j) PROVE Frozen(i)
  BY <1>16 DEF CancelTurnJob
<1>17. CASE UNCHANGED vars
  BY <1>17 DEF vars, jobVars
<1> QED
  BY <1>1, <1>2, <1>3, <1>4, <1>5, <1>6, <1>7, <1>8, <1>9, <1>10, <1>11, <1>12, <1>13,
     <1>14, <1>15, <1>16, <1>17 DEF Next

(***************************************************************************)
(* A job that ended never changes again, whatever arrives late.            *)
(***************************************************************************)
THEOREM Settled == Spec => SettledIsFinal
<1> DEFINE Step == \A j \in Jobs : status[j] \in Terminal => Frozen(j)
<1>1. TypeOK /\ [Next]_vars => [Step]_vars
  BY SettledStep
<1>2. Spec => [][Step]_vars
  BY <1>1, InitTypeOK, NextTypeOK, PTL DEF Spec
<1> QED
  BY <1>2 DEF SettledIsFinal, Frozen

-----------------------------------------------------------------------------
\* A submission cleared from j leaves behind the attempt that was refused.
ClearedByRefusal(j) ==
    submitted[j] /\ ~submitted'[j] =>
        \E i \in DOMAIN request'[j].trail :
            request'[j].trail[i] \in RefusedAttempt(request[j].provider)

LEMMA FallbackClears ==
    ASSUME TypeOK, NEW j \in Jobs, Fallback(j), submitted[j]
    PROVE  ClearedByRefusal(j)
<1>1. PICK reason \in Reasons, proof \in Proofs :
          /\ request[j].plan # <<>>
          /\ FallbackJob(j, NextRequest(request[j], reason, submitted[j]), proof)
  BY DEF Fallback
<1> DEFINE next == NextRequest(request[j], reason, submitted[j])
           n == Len(next.trail)
<1>2. AcceptedAfterSubmission(request[j], outcome[j].result, next, proof)
      /\ request'[j] = next
  BY <1>1 DEF FallbackJob, MayRestart, TypeOK
<1>3. next.trail[n] = [provider |-> request[j].provider, reason |-> proof.reason,
                       submitted |-> TRUE]
      /\ n \in 1 .. MaxAlternatives
  BY <1>2 DEF AcceptedAfterSubmission
<1>4. proof.reason \in {"rate_limit", "capacity"}
  BY <1>2 DEF AcceptedAfterSubmission, Proofs, NoProof
<1>5. next \in Requests
  BY <1>1, NextRequestType DEF TypeOK
<1>6. n \in DOMAIN next.trail
  <2> HIDE DEF next
  <2>1. next.trail \in Seq(Attempts)
    BY <1>5 DEF Requests
  <2> QED
    BY <1>3, <2>1
<1> QED
  BY <1>2, <1>3, <1>4, <1>6 DEF ClearedByRefusal, RefusedAttempt

LEMMA ClearedStep ==
    ASSUME TypeOK, [Next]_vars, NEW i \in Jobs
    PROVE  ClearedByRefusal(i)
<1> USE DEF TypeOK, ClearedByRefusal
<1>1. CASE UNCHANGED submitted
  BY <1>1
<1>2. ASSUME NEW j \in Jobs, RecordProviderSubmission(j) PROVE ClearedByRefusal(i)
  BY <1>2 DEF RecordProviderSubmission
<1>3. ASSUME NEW j \in Jobs, Fallback(j) PROVE ClearedByRefusal(i)
  <2>1. CASE i = j /\ submitted[j]
    BY <1>3, <2>1, FallbackClears
  <2>2. CASE i # j \/ ~submitted[j]
    BY <1>3, <2>2 DEF Fallback, FallbackJob, MayRestart
  <2> QED
    BY <2>1, <2>2
<1>4. [Next]_vars => UNCHANGED submitted \/ \E j \in Jobs : RecordProviderSubmission(j) \/ Fallback(j)
  BY DEF Next, vars, jobVars, Migrate, RebuildDashboard, FailInterrupted, Crash,
         ClearOutputSavings, CreateJob, TakeNextJob, MarkWaitingForUser, MarkRunning,
         AdmitProviderAction, CompleteWithResult, CompleteWithError, CancelJob, CancelTurnJob
<1> QED
  BY <1>1, <1>2, <1>3, <1>4

(***************************************************************************)
(* A recorded submission is cleared only into an attempt that says the     *)
(* provider refused the prompt.                                            *)
(***************************************************************************)
THEOREM ClearedOnlyOnRefusal == Spec => SubmissionClearedOnlyOnRefusal
<1>1. TypeOK /\ [Next]_vars =>
          [\A j \in Jobs : submitted[j] /\ ~submitted'[j] =>
               \E i \in DOMAIN request'[j].trail :
                   request'[j].trail[i] \in RefusedAttempt(request[j].provider)]_vars
  BY ClearedStep DEF ClearedByRefusal
<1> QED
  BY <1>1, InitTypeOK, NextTypeOK, PTL DEF Spec, SubmissionClearedOnlyOnRefusal

-----------------------------------------------------------------------------
\* w is a, then v, then b.
Joined(w, a, v, b) ==
    /\ w \in Seq(Providers) /\ Len(w) = Len(a) + 1 + Len(b)
    /\ Len(a) \in Nat /\ Len(b) \in Nat
    /\ \A i \in 1 .. Len(a) : w[i] = a[i]
    /\ w[Len(a) + 1] = v
    /\ \A i \in 1 .. Len(b) : w[Len(a) + 1 + i] = b[i]

LEMMA ConcatParts ==
    ASSUME NEW a \in Seq(Providers), NEW v \in Providers, NEW b \in Seq(Providers)
    PROVE  Joined(a \o <<v>> \o b, a, v, b)
<1> DEFINE c == a \o <<v>>
<1>1. /\ c \in Seq(Providers) /\ Len(c) = Len(a) + 1 /\ c[Len(a) + 1] = v
      /\ \A i \in 1 .. Len(a) : c[i] = a[i]
      /\ Len(a) \in Nat /\ Len(b) \in Nat
  OBVIOUS
<1> HIDE DEF c
<1>2. /\ c \o b \in Seq(Providers) /\ Len(c \o b) = Len(c) + Len(b)
      /\ \A i \in 1 .. Len(c) : (c \o b)[i] = c[i]
      /\ \A i \in 1 .. Len(b) : (c \o b)[Len(c) + i] = b[i]
  <2>0. c \in Seq(Providers)
    BY <1>1
  <2>1. c \o b \in Seq(Providers) /\ Len(c \o b) = Len(c) + Len(b)
    BY ONLY <2>0, b \in Seq(Providers)
  <2>2. \A i \in 1 .. Len(c) : (c \o b)[i] = c[i]
    BY ONLY <2>0, b \in Seq(Providers)
  <2>3. \A i \in 1 .. Len(b) : (c \o b)[Len(c) + i] = b[i]
    BY ONLY <2>0, b \in Seq(Providers)
  <2> QED BY <2>1, <2>2, <2>3
<1>0. Len(c) = Len(a) + 1 /\ Len(a) \in Nat
  BY <1>1
<1>3. \A i \in 1 .. Len(a) : i \in 1 .. Len(c)
  BY ONLY <1>0
<1>4. Len(a) + 1 \in 1 .. Len(c)
  BY ONLY <1>0
<1>5. Joined(c \o b, a, v, b)
  BY <1>1, <1>2, <1>3, <1>4 DEF Joined
<1> QED BY <1>5 DEF c

\* The providers of a trail.
Tried(t) == [i \in 1 .. Len(t) |-> t[i].provider]

LEMMA TriedType ==
    ASSUME NEW t \in Seq(Attempts)
    PROVE  /\ Tried(t) \in Seq(Providers) /\ Len(Tried(t)) = Len(t) /\ Len(t) \in Nat
           /\ \A i \in 1 .. Len(t) : Tried(t)[i] = t[i].provider
<1>1. Len(t) \in Nat /\ \A i \in 1 .. Len(t) : t[i] \in Attempts
  OBVIOUS
<1>2. \A i \in 1 .. Len(t) : t[i].provider \in Providers
  BY <1>1 DEF Attempts
<1> QED BY <1>1, <1>2 DEF Tried

\* The route of a request, piece by piece.
LEMMA RouteParts ==
    ASSUME NEW r \in Requests
    PROVE  Joined(Route(r), Tried(r.trail), r.provider, r.plan)
<1>1. r.trail \in Seq(Attempts) /\ r.provider \in Providers /\ r.plan \in Seq(Providers)
  BY DEF Requests
<1>2. Tried(r.trail) \in Seq(Providers)
  BY <1>1, TriedType
<1>3. Route(r) = Tried(r.trail) \o <<r.provider>> \o r.plan
  BY DEF Route, Tried
<1>4. Joined(Tried(r.trail) \o <<r.provider>> \o r.plan, Tried(r.trail), r.provider, r.plan)
  BY <1>1, <1>2, ConcatParts
<1> QED BY <1>3, <1>4

\* The next request moves the boundary between what was tried and what is planned, and nothing else.
LEMMA NextRoute ==
    ASSUME NEW r \in Requests, r.plan # <<>>, NEW reason \in Reasons, NEW sub \in BOOLEAN
    PROVE  /\ Route(NextRequest(r, reason, sub)) = Route(r)
           /\ Len(NextRequest(r, reason, sub).plan) <= Len(r.plan)
<1> DEFINE n == NextRequest(r, reason, sub)
           attempt == [provider |-> r.provider, reason |-> reason, submitted |-> sub]
<1>1. n \in Requests /\ attempt \in Attempts /\ attempt.provider = r.provider
  BY NextRequestType DEF Requests, Attempts
<1>2. /\ n.provider = Head(r.plan) /\ n.plan = Tail(r.plan) /\ n.trail = Append(r.trail, attempt)
      /\ r.plan \in Seq(Providers) /\ r.trail \in Seq(Attempts) /\ r.provider \in Providers
  BY DEF NextRequest, Requests
<1> HIDE DEF n, attempt
<1>3. PICK t \in Seq(Attempts), p \in Seq(Providers), v \in Providers :
          r.trail = t /\ r.plan = p /\ r.provider = v
  BY <1>2
<1>4. /\ p # <<>> /\ Head(p) \in Providers /\ Tail(p) \in Seq(Providers) /\ Append(t, attempt) \in Seq(Attempts)
      /\ n.provider = Head(p) /\ n.plan = Tail(p) /\ n.trail = Append(t, attempt) /\ attempt.provider = v
  BY <1>1, <1>2, <1>3
<1>5. /\ Len(t) \in Nat /\ Len(p) \in Nat \ {0} /\ Len(Append(t, attempt)) = Len(t) + 1
      /\ Len(Tail(p)) = Len(p) - 1 /\ Head(p) = p[1]
      /\ \A i \in 1 .. Len(t) : Append(t, attempt)[i] = t[i]
      /\ Append(t, attempt)[Len(t) + 1] = attempt
      /\ \A i \in 1 .. Len(p) - 1 : Tail(p)[i] = p[i + 1]
  BY <1>4
<1>6. /\ Route(n) \in Seq(Providers) /\ Len(Route(n)) = Len(t) + 1 + 1 + (Len(p) - 1)
      /\ \A i \in 1 .. Len(t) + 1 : Route(n)[i] = Append(t, attempt)[i].provider
      /\ Route(n)[Len(t) + 1 + 1] = p[1]
      /\ \A i \in 1 .. Len(p) - 1 : Route(n)[Len(t) + 1 + 1 + i] = p[i + 1]
  <2> DEFINE u == Append(t, attempt)
             q == Tail(p)
             w == Route(n)
  <2>1. /\ u \in Seq(Attempts) /\ Len(u) = Len(t) + 1 /\ Len(q) = Len(p) - 1
        /\ \A i \in 1 .. Len(p) - 1 : q[i] = p[i + 1]
    BY <1>4, <1>5
  <2>2. Joined(w, Tried(u), p[1], q)
    <3>1. Joined(w, Tried(n.trail), n.provider, n.plan)
      BY <1>1, RouteParts
    <3> QED BY <1>4, <1>5, <3>1
  <2> HIDE DEF u, q, w
  <2>3. Len(Tried(u)) = Len(u) /\ \A i \in 1 .. Len(u) : Tried(u)[i] = u[i].provider
    BY <2>1, TriedType
  <2>4. /\ w \in Seq(Providers) /\ Len(w) = Len(t) + 1 + 1 + (Len(p) - 1)
        /\ \A i \in 1 .. Len(t) + 1 : w[i] = u[i].provider
        /\ w[Len(t) + 1 + 1] = p[1]
        /\ \A i \in 1 .. Len(p) - 1 : w[Len(t) + 1 + 1 + i] = p[i + 1]
    BY <2>1, <2>2, <2>3 DEF Joined
  <2> QED BY <2>4 DEF u, w
<1>7. /\ Route(r) \in Seq(Providers) /\ Len(Route(r)) = Len(t) + 1 + Len(p)
      /\ \A i \in 1 .. Len(t) : Route(r)[i] = t[i].provider
      /\ Route(r)[Len(t) + 1] = v
      /\ \A i \in 1 .. Len(p) : Route(r)[Len(t) + 1 + i] = p[i]
  <2> DEFINE w == Route(r)
  <2>1. Joined(w, Tried(t), v, p)
    BY <1>3, RouteParts
  <2> HIDE DEF w
  <2>2. Len(Tried(t)) = Len(t) /\ \A i \in 1 .. Len(t) : Tried(t)[i] = t[i].provider
    BY TriedType
  <2>3. /\ w \in Seq(Providers) /\ Len(w) = Len(t) + 1 + Len(p)
        /\ \A i \in 1 .. Len(t) : w[i] = t[i].provider
        /\ w[Len(t) + 1] = v
        /\ \A i \in 1 .. Len(p) : w[Len(t) + 1 + i] = p[i]
    BY <2>1, <2>2 DEF Joined
  <2> QED BY <2>3 DEF w
<1>8. ASSUME NEW i \in 1 .. Len(Route(r)) PROVE Route(n)[i] = Route(r)[i]
  <2>1. CASE i \in 1 .. Len(t)
    BY <1>5, <1>6, <1>7, <2>1
  <2>2. CASE i = Len(t) + 1
    <3>1. Len(t) + 1 \in 1 .. Len(t) + 1
      BY <1>4
    <3>2. Route(n)[Len(t) + 1] = attempt.provider
      BY <1>5, <1>6, <3>1
    <3> QED BY <1>4, <1>7, <2>2, <3>2
  <2>3. CASE i = Len(t) + 1 + 1
    BY <1>5, <1>6, <1>7, <2>3
  <2>4. CASE i > Len(t) + 2
    <3>1. PICK m \in 1 .. Len(p) - 1 : i = Len(t) + 1 + 1 + m
      <4>1. i - Len(t) - 2 \in 1 .. Len(p) - 1 /\ i = Len(t) + 1 + 1 + (i - Len(t) - 2)
        BY <1>5, <1>7, <2>4
      <4> QED BY <4>1
    <3>2. m + 1 \in 1 .. Len(p) /\ i = Len(t) + 1 + (m + 1)
      BY <1>5, <3>1
    <3>3. Route(r)[i] = p[m + 1]
      BY <1>7, <3>2
    <3> QED BY <1>6, <3>1, <3>3
  <2>5. i \in Nat /\ 1 <= i
    BY <1>5, <1>7
  <2>6. i \in 1 .. Len(t) \/ i = Len(t) + 1 \/ i = Len(t) + 1 + 1 \/ i > Len(t) + 2
    BY <1>5, <2>5
  <2> QED BY <2>1, <2>2, <2>3, <2>4, <2>6
<1>9. Route(n) = Route(r)
  <2>1. Len(Route(n)) = Len(Route(r))
    BY <1>5, <1>6, <1>7
  <2> DEFINE x == Route(n)
             y == Route(r)
  <2>2. x \in Seq(Providers) /\ y \in Seq(Providers) /\ Len(x) = Len(y) /\ \A i \in 1 .. Len(y) : x[i] = y[i]
    BY <1>6, <1>7, <1>8, <2>1
  <2> HIDE DEF x, y
  <2>3. x = y
    BY <2>2
  <2> QED BY <2>3 DEF x, y
<1>10. Len(n.plan) <= Len(r.plan)
  BY <1>3, <1>4, <1>5
<1> QED BY <1>9, <1>10 DEF n

RouteSame(j) == Route(request'[j]) = Route(request[j]) /\ Len(request'[j].plan) <= Len(request[j].plan)

LEMMA RouteStep ==
    ASSUME TypeOK, [Next]_vars, NEW i \in Jobs, status[i] # "absent"
    PROVE  RouteSame(i)
<1>0. Len(request[i].plan) \in Nat /\ request \in [Jobs -> Requests]
  BY DEF TypeOK, Requests
<1>1. CASE request'[i] = request[i]
  BY <1>0, <1>1 DEF RouteSame
<1>2. ASSUME NEW j \in Jobs, NEW r \in NewRequests, CreateJob(j, r) PROVE request'[i] = request[i]
  BY <1>0, <1>2 DEF CreateJob
<1>3. ASSUME NEW j \in Jobs, Fallback(j) PROVE RouteSame(i)
  <2>1. PICK reason \in Reasons, proof \in Proofs :
            /\ request[j].plan # <<>>
            /\ FallbackJob(j, NextRequest(request[j], reason, submitted[j]), proof)
    BY <1>3 DEF Fallback
  <2>2. CASE i = j
    <3>1. request'[i] = NextRequest(request[i], reason, submitted[i])
      BY <1>0, <2>1, <2>2 DEF FallbackJob
    <3> QED BY <1>0, <2>1, <2>2, <3>1, NextRoute DEF RouteSame, TypeOK
  <2>3. CASE i # j
    BY <1>0, <1>1, <2>1, <2>3 DEF FallbackJob
  <2> QED BY <2>2, <2>3
<1>4. UNCHANGED request \/ \E j \in Jobs : Fallback(j) \/ \E r \in NewRequests : CreateJob(j, r)
  BY DEF Next, vars, jobVars, Migrate, RebuildDashboard, FailInterrupted, Crash, ClearOutputSavings,
         TakeNextJob, MarkWaitingForUser, MarkRunning, AdmitProviderAction, RecordProviderSubmission,
         CompleteWithResult, CompleteWithError, CancelJob, CancelTurnJob
<1> QED BY <1>1, <1>2, <1>3, <1>4

(***************************************************************************)
(* A job only moves forward along the route it was created with.           *)
(***************************************************************************)
THEOREM RouteFollowed == Spec => RouteKept
<1>1. TypeOK /\ [Next]_vars =>
          [\A j \in Jobs : status[j] # "absent" =>
               /\ Route(request'[j]) = Route(request[j])
               /\ Len(request'[j].plan) <= Len(request[j].plan)]_vars
  BY RouteStep DEF RouteSame
<1> QED
  BY <1>1, InitTypeOK, NextTypeOK, PTL DEF Spec, RouteKept

-----------------------------------------------------------------------------
(***************************************************************************)
(* The dashboard.                                                          *)
(***************************************************************************)
\* What the aggregates of a slot are to be: the rows behind each of its three numbers.
Ended(o, k) == {j \in Jobs \ (uncounted \union torn) : status[j] = o /\ SlotOf(j) = k}
Measured(k) == {e \in (Jobs \ torn) \X Responses : e[2] \in events[e[1]] /\ SlotOf(e[1]) = k}
Saving(k) == {j \in Jobs \ torn : events[j] # {} /\ SlotOf(j) = k}

EndedCounted(k) == \A o \in Terminal : dashboard[k][o] = Cardinality(Ended(o, k))
SavingsCounted(k) ==
    /\ savings[k].responses = Cardinality(Measured(k))
    /\ savings[k].jobs = Cardinality(Saving(k))

Blank ==
    /\ \A k \in Slots : /\ \A o \in Terminal : dashboard[k][o] = 0
                        /\ savings[k].responses = 0
                        /\ savings[k].jobs = 0
    /\ uncounted = {}

(***************************************************************************)
(* Fresh tables stay blank until their rebuild; only a canceled job is     *)
(* left uncounted, and only one that succeeded has measured responses.     *)
(***************************************************************************)
DashboardInv ==
    /\ TypeOK
    /\ ~tables => phase = "down"
    /\ ~tables \/ phase = "rebuilding" => Blank /\ torn = {}
    /\ \A j \in uncounted : status[j] = "canceled"
    /\ \A j \in torn : status[j] \in Terminal
    /\ \A j \in Jobs : events[j] # {} => status[j] = "succeeded"
    /\ Populated => \A k \in Slots : EndedCounted(k) /\ SavingsCounted(k)

LEMMA InvMatches == DashboardInv => DashboardMatchesJobs
BY DEF DashboardInv, DashboardMatchesJobs, EndedCounted, SavingsCounted, Ended, Measured, Saving

LEMMA InitDashboard == Init => DashboardInv
<1> SUFFICES ASSUME Init PROVE DashboardInv
  OBVIOUS
<1>1. TypeOK
  BY InitTypeOK
<1>2. Blank
  BY DEF Init, Blank
<1> QED BY <1>1, <1>2 DEF Init, DashboardInv, Populated

LEMMA Finite ==
    ASSUME NEW k
    PROVE  /\ \A S : S \subseteq Jobs => IsFiniteSet(S)
           /\ \A o : IsFiniteSet(Ended(o, k))
           /\ IsFiniteSet(Measured(k))
           /\ IsFiniteSet(Saving(k))
<1>1. \A S : S \subseteq Jobs => IsFiniteSet(S)
  BY FS_Subset
<1>2. \A S : S \subseteq Jobs \X Responses => IsFiniteSet(S)
  BY FS_Product, FS_Subset
<1> QED BY <1>1, <1>2 DEF Ended, Measured, Saving

\* recordTerminalDashboardMetrics, for jobs that were active until this step.
LEMMA EndsAreCounted ==
    ASSUME TypeOK, NEW S \in SUBSET Jobs, NEW o \in Terminal, NEW k \in Slots,
           RecordTerminal(S, o), \A j \in S : status[j] \in Active /\ j \notin uncounted \union torn,
           \A j \in Jobs : status'[j] = IF j \in S THEN o ELSE status[j],
           UNCHANGED <<request, uncounted, torn>>, EndedCounted(k)
    PROVE  EndedCounted(k)'
<1> DEFINE new == {j \in S : SlotOf(j) = k}
<1>1. dashboard'[k] = [dashboard[k] EXCEPT ![o] = @ + Cardinality(new)] /\ dashboard[k] \in [Terminal -> Nat]
  BY DEF RecordTerminal, TypeOK
<1>2. Ended(o, k)' = Ended(o, k) \union new /\ Ended(o, k) \cap new = {}
  BY DEF Ended, SlotOf, Active, Terminal
<1>3. IsFiniteSet(new) /\ IsFiniteSet(Ended(o, k))
  BY Finite
<1>4. Cardinality(Ended(o, k)') = Cardinality(Ended(o, k)) + Cardinality(new)
  <2> HIDE DEF new
  <2>1. Cardinality(Ended(o, k) \union new) =
            Cardinality(Ended(o, k)) + Cardinality(new) - Cardinality(Ended(o, k) \cap new)
    BY <1>3, FS_Union
  <2>2. Cardinality(Ended(o, k)) \in Nat /\ Cardinality(new) \in Nat
    BY <1>3, FS_CardinalityType
  <2>3. Cardinality(Ended(o, k) \cap new) = 0
    BY <1>2, FS_EmptySet
  <2> QED BY <1>2, <2>1, <2>2, <2>3
<1>5. ASSUME NEW q \in Terminal, q # o PROVE Ended(q, k)' = Ended(q, k)
  BY <1>5 DEF Ended, SlotOf, Active, Terminal
<1> HIDE DEF new
<1> QED BY <1>1, <1>4, <1>5 DEF EndedCounted

\* The numbers of a slot do not change when its rows do not.
LEMMA SameRowsSameEnds ==
    ASSUME NEW k \in Slots, EndedCounted(k), dashboard'[k] = dashboard[k],
           \A o \in Terminal : Ended(o, k)' = Ended(o, k)
    PROVE  EndedCounted(k)'
BY DEF EndedCounted

LEMMA SameRowsSameSavings ==
    ASSUME NEW k \in Slots, SavingsCounted(k), savings'[k] = savings[k],
           UNCHANGED <<events, torn>>, \A j \in Jobs : events[j] # {} => request'[j] = request[j]
    PROVE  SavingsCounted(k)'
<1>1. Measured(k)' = Measured(k)
  <2>1. \A e \in Jobs \X Responses : e[1] \in Jobs
    OBVIOUS
  <2> QED BY <2>1 DEF Measured, SlotOf
<1>2. Saving(k)' = Saving(k)
  BY DEF Saving, SlotOf
<1> QED BY <1>1, <1>2 DEF SavingsCounted

\* recordOutputSavingsForJob of a job that has no events yet.
LEMMA ResponsesAreCounted ==
    ASSUME TypeOK, NEW j \in Jobs, NEW R \in SUBSET Responses, RecordSavings(j, R), events[j] = {},
           j \notin torn, UNCHANGED <<request, torn>>, NEW k \in Slots, SavingsCounted(k)
    PROVE  SavingsCounted(k)'
<1> DEFINE new == [responses |-> savings[SlotOf(j)].responses + Cardinality(R),
                   jobs |-> savings[SlotOf(j)].jobs + IF R # {} THEN 1 ELSE 0]
<1>1. R \ events[j] = R /\ SlotOf(j) \in Slots
  BY SlotsOfJobs
<1>2. events' = [events EXCEPT ![j] = R] /\ savings' = [savings EXCEPT ![SlotOf(j)] = new]
  BY <1>1 DEF RecordSavings
<1>3. events'[j] = R /\ \A i \in Jobs : i # j => events'[i] = events[i]
  BY <1>2 DEF TypeOK
<1>4. IsFiniteSet(R)
  BY FS_Subset
<1>5. CASE SlotOf(j) # k
  <2>1. savings'[k] = savings[k]
    BY <1>2, <1>5
  <2>2. Measured(k)' = Measured(k)
    <3>1. \A e \in Jobs \X Responses : e[1] \in Jobs
      OBVIOUS
    <3> QED BY <1>3, <1>5, <3>1 DEF Measured, SlotOf
  <2>3. Saving(k)' = Saving(k)
    BY <1>3, <1>5 DEF Saving, SlotOf
  <2> QED BY <2>1, <2>2, <2>3 DEF SavingsCounted
<1>6. CASE SlotOf(j) = k
  <2>1. /\ savings'[k].responses = savings[k].responses + Cardinality(R)
        /\ savings'[k].jobs = savings[k].jobs + IF R # {} THEN 1 ELSE 0
    BY <1>1, <1>2, <1>6 DEF TypeOK
  <2>2. Cardinality(Measured(k)') = Cardinality(Measured(k)) + Cardinality(R)
    <3>1. Measured(k)' = Measured(k) \union ({j} \X R)
      <4>1. ASSUME NEW i \in Jobs, NEW r \in Responses
            PROVE  <<i, r>> \in Measured(k)' <=> <<i, r>> \in Measured(k) \union ({j} \X R)
        <5>1. <<i, r>> \in Measured(k)' <=> i \notin torn /\ r \in events'[i] /\ SlotOf(i) = k
          BY DEF Measured, SlotOf
        <5>2. <<i, r>> \in Measured(k) <=> i \notin torn /\ r \in events[i] /\ SlotOf(i) = k
          BY DEF Measured
        <5>3. <<i, r>> \in {j} \X R <=> i = j /\ r \in R
          OBVIOUS
        <5> QED BY <1>3, <1>6, <5>1, <5>2, <5>3
      <4>2. \A e \in Jobs \X Responses : e[1] \in Jobs /\ e[2] \in Responses /\ e = <<e[1], e[2]>>
        OBVIOUS
      <4>3. {j} \X R \subseteq Jobs \X Responses
        OBVIOUS
      <4>4. Measured(k) \subseteq Jobs \X Responses /\ Measured(k)' \subseteq Jobs \X Responses
        BY DEF Measured
      <4>5. \A e \in Jobs \X Responses : e \in Measured(k)' <=> e \in Measured(k) \union ({j} \X R)
        BY <4>1, <4>2
      <4> HIDE DEF new
      <4> QED BY <4>3, <4>4, <4>5
    <3>2. Measured(k) \cap ({j} \X R) = {}
      <4>1. \A e \in {j} \X R : e[1] = j
        OBVIOUS
      <4> QED BY <4>1 DEF Measured
    <3>3. IsFiniteSet({j} \X R) /\ Cardinality({j} \X R) = Cardinality({j}) * Cardinality(R)
      BY <1>4, FS_Singleton, FS_Product
    <3>4. Cardinality({j}) = 1 /\ Cardinality(R) \in Nat /\ Cardinality(Measured(k)) \in Nat /\ IsFiniteSet(Measured(k))
      BY <1>4, Finite, FS_Singleton, FS_CardinalityType
    <3>5. Cardinality({j} \X R) = Cardinality(R)
      BY <3>3, <3>4
    <3>6. Cardinality(Measured(k) \union ({j} \X R)) =
              Cardinality(Measured(k)) + Cardinality({j} \X R) - Cardinality(Measured(k) \cap ({j} \X R))
      BY <3>3, <3>4, FS_Union
    <3>7. Cardinality(Measured(k) \cap ({j} \X R)) = 0
      BY <3>2, FS_EmptySet
    <3> QED BY <3>1, <3>4, <3>5, <3>6, <3>7
  <2>3. Cardinality(Saving(k)') = Cardinality(Saving(k)) + IF R # {} THEN 1 ELSE 0
    <3>1. Saving(k)' = IF R # {} THEN Saving(k) \union {j} ELSE Saving(k)
      BY <1>3, <1>6 DEF Saving, SlotOf
    <3>2. j \notin Saving(k)
      BY DEF Saving
    <3>3. Cardinality(Saving(k) \union {j}) = Cardinality(Saving(k)) + 1
      BY <3>2, Finite, FS_AddElement
    <3>4. Cardinality(Saving(k)) \in Nat
      BY Finite, FS_CardinalityType
    <3> QED BY <3>1, <3>3, <3>4
  <2> QED BY <2>1, <2>2, <2>3 DEF SavingsCounted
<1> QED BY <1>5, <1>6

-----------------------------------------------------------------------------
\* A step that records no end and touches no aggregate: the rows behind them stay.
LEMMA QuietDashboard ==
    ASSUME DashboardInv, TypeOK', UNCHANGED <<openVars, events, dashboard, savings>>,
           \A j \in Jobs : /\ status[j] \in Terminal => status'[j] = status[j] /\ request'[j] = request[j]
                           /\ status'[j] \in Terminal /\ status[j] \notin Terminal => j \in uncounted',
           uncounted \subseteq uncounted', \A j \in uncounted' : status'[j] = "canceled",
           \A j \in uncounted' \ uncounted : status[j] \notin Terminal,
           uncounted' = uncounted \/ phase = "serving"
    PROVE  DashboardInv'
<1>1. \A j \in Jobs : events[j] # {} => status'[j] = status[j] /\ request'[j] = request[j]
  BY DEF DashboardInv, Terminal
<1>2. ASSUME NEW k \in Slots, Populated PROVE EndedCounted(k)' /\ SavingsCounted(k)'
  <2>1. ASSUME NEW o \in Terminal, NEW j \in Jobs PROVE j \in Ended(o, k)' <=> j \in Ended(o, k)
    <3>1. j \in Ended(o, k)' <=> j \notin uncounted' \union torn' /\ status'[j] = o /\ SlotOf(j)' = k
      BY DEF Ended
    <3>2. j \in Ended(o, k) <=> j \notin uncounted \union torn /\ status[j] = o /\ SlotOf(j) = k
      BY DEF Ended
    <3>3. status[j] \in Terminal => SlotOf(j)' = SlotOf(j)
      BY DEF SlotOf
    <3> QED BY <3>1, <3>2, <3>3 DEF openVars
  <2>2. \A o \in Terminal : Ended(o, k)' = Ended(o, k)
    BY <2>1 DEF Ended
  <2> QED BY <1>1, <1>2, <2>2, SameRowsSameEnds, SameRowsSameSavings DEF DashboardInv, openVars
<1>3. ~tables' \/ phase' = "rebuilding" => Blank' /\ torn' = {}
  <2>1. tables' = tables /\ phase' = phase /\ torn' = torn
    BY DEF openVars
  <2>2. ~tables \/ phase = "rebuilding" => uncounted' = {}
    BY DEF DashboardInv, Blank
  <2> QED BY <2>1, <2>2 DEF Blank, DashboardInv
<1>4. \A j \in torn' : status'[j] \in Terminal
  BY DEF DashboardInv, TypeOK, openVars
<1>5. \A j \in Jobs : events'[j] # {} => status'[j] = "succeeded"
  BY <1>1 DEF DashboardInv
<1>6. ~tables' => phase' = "down"
  BY DEF DashboardInv, openVars
<1>7. Populated' => Populated
  BY DEF Populated, openVars
<1> QED BY <1>2, <1>3, <1>4, <1>5, <1>6, <1>7 DEF DashboardInv

LEMMA CreateKeeps ==
    ASSUME DashboardInv, TypeOK', NEW j \in Jobs, NEW r \in NewRequests, CreateJob(j, r)
    PROVE  DashboardInv'
BY QuietDashboard DEF CreateJob, DashboardInv, TypeOK, Terminal, dashboardVars

\* A running or waiting job changes its row: it is not counted yet.
LEMMA RowKeeps ==
    ASSUME DashboardInv, TypeOK', NEW j \in Jobs,
           \/ TakeNextJob(j) \/ MarkWaitingForUser(j) \/ MarkRunning(j) \/ AdmitProviderAction(j)
           \/ RecordProviderSubmission(j) \/ Fallback(j) \/ CancelTurnJob(j)
    PROVE  DashboardInv'
<1> USE DEF DashboardInv, TypeOK, Terminal, dashboardVars
<1>1. CASE TakeNextJob(j)
  BY <1>1, QuietDashboard DEF TakeNextJob, Oldest, Queued
<1>2. CASE MarkWaitingForUser(j) \/ MarkRunning(j)
  BY <1>2, QuietDashboard DEF MarkWaitingForUser, MarkRunning
<1>3. CASE AdmitProviderAction(j) \/ RecordProviderSubmission(j)
  BY <1>3, QuietDashboard DEF AdmitProviderAction, RecordProviderSubmission, jobVars
<1>4. CASE Fallback(j)
  BY <1>4, QuietDashboard DEF Fallback, FallbackJob, MayRestart, Executing
<1>5. CASE CancelTurnJob(j)
  BY <1>5, QuietDashboard DEF CancelTurnJob, Active
<1> QED BY <1>1, <1>2, <1>3, <1>4, <1>5

\* completeJob, cancelJob and failInterruptedJobs: the jobs of S end with outcome o.
LEMMA EndKeeps ==
    ASSUME DashboardInv, TypeOK', NEW S \in SUBSET Jobs, NEW o \in Terminal, RecordTerminal(S, o),
           \A j \in S : status[j] \in Active,
           \A j \in Jobs : status'[j] = IF j \in S THEN o ELSE status[j],
           UNCHANGED <<tables, torn, request, uncounted>>, phase \in {"migrated", "serving"}, phase' = "serving",
           \A j \in Jobs : events'[j] # {} => events[j] # {} \/ (j \in S /\ o = "succeeded"),
           \A k \in Slots : SavingsCounted(k) => SavingsCounted(k)'
    PROVE  DashboardInv'
<1>1. \A j \in S : j \notin uncounted \union torn /\ events[j] = {}
  BY DEF DashboardInv, Active, Terminal
<1>2. ASSUME NEW k \in Slots, Populated PROVE EndedCounted(k)' /\ SavingsCounted(k)'
  BY <1>1, <1>2, EndsAreCounted DEF DashboardInv
<1>3. tables /\ (Populated' <=> Populated)
  BY DEF DashboardInv, Populated
<1>4. \A j \in uncounted : status'[j] = "canceled"
  BY <1>1 DEF DashboardInv, TypeOK
<1>5. \A j \in Jobs : events'[j] # {} => status'[j] = "succeeded"
  BY <1>1 DEF DashboardInv
<1>6. Populated' => \A k \in Slots : EndedCounted(k)' /\ SavingsCounted(k)'
  BY <1>2, <1>3
<1>7. \A j \in torn' : status'[j] \in Terminal
  BY <1>1 DEF DashboardInv, TypeOK
<1>8. tables' /\ phase' # "rebuilding"
  BY <1>3
<1> QED BY <1>4, <1>5, <1>6, <1>7, <1>8 DEF DashboardInv

LEMMA CompleteKeeps ==
    ASSUME DashboardInv, TypeOK', NEW j \in Jobs,
           \/ CompleteWithError(j) \/ CancelJob(j)
           \/ \E recorded \in SUBSET Responses : CompleteWithResult(j, recorded)
    PROVE  DashboardInv'
<1>1. CASE CompleteWithError(j) \/ CancelJob(j)
  <2>1. /\ UNCHANGED <<openVars, request, events, savings, uncounted>> /\ phase = "serving" /\ status[j] \in Active
        /\ \E o \in {"failed", "canceled"} : RecordTerminal({j}, o) /\ status' = [status EXCEPT ![j] = o]
    BY <1>1 DEF CompleteWithError, CancelJob, Executing, Active
  <2>2. PICK o \in {"failed", "canceled"} : RecordTerminal({j}, o) /\ status' = [status EXCEPT ![j] = o]
    BY <2>1
  <2>3. \A k \in Slots : SavingsCounted(k) => SavingsCounted(k)'
    BY <2>1, SameRowsSameSavings DEF openVars
  <2>4. \A i \in Jobs : status'[i] = IF i \in {j} THEN o ELSE status[i]
    BY <2>2 DEF DashboardInv, TypeOK
  <2>5. o \in Terminal /\ {j} \in SUBSET Jobs /\ UNCHANGED <<tables, torn, request, uncounted>>
    BY <2>1 DEF Terminal, openVars
  <2>6. phase \in {"migrated", "serving"} /\ phase' = "serving" /\ \A i \in {j} : status[i] \in Active
    BY <2>1 DEF openVars
  <2> DEFINE S == {j}
  <2>7. S \in SUBSET Jobs /\ RecordTerminal(S, o) /\ (\A i \in S : status[i] \in Active)
    BY <2>2, <2>5, <2>6
  <2>8. \A i \in Jobs : status'[i] = IF i \in S THEN o ELSE status[i]
    BY ONLY <2>4
  <2>9. \A i \in Jobs : events'[i] # {} => events[i] # {} \/ (i \in S /\ o = "succeeded")
    BY <2>1
  <2> HIDE DEF S
  <2>10. o \in Terminal /\ UNCHANGED <<tables, torn, request, uncounted>>
    BY <2>5
  <2> QED BY ONLY DashboardInv, TypeOK', <2>3, <2>6, <2>7, <2>8, <2>9, <2>10, EndKeeps
<1>2. ASSUME NEW R \in SUBSET Responses, CompleteWithResult(j, R) PROVE DashboardInv'
  <2>1. /\ UNCHANGED <<openVars, request, uncounted>> /\ phase = "serving" /\ status[j] \in Active
        /\ RecordTerminal({j}, "succeeded") /\ status' = [status EXCEPT ![j] = "succeeded"] /\ RecordSavings(j, R)
    BY <1>2 DEF CompleteWithResult, Executing, Active
  <2>2. events[j] = {} /\ j \notin torn /\ torn' = torn
    BY <2>1 DEF DashboardInv, Active, Terminal, openVars
  <2>3. \A k \in Slots : SavingsCounted(k) => SavingsCounted(k)'
    BY <2>1, <2>2, ResponsesAreCounted DEF DashboardInv
  <2>4. \A i \in Jobs : i # j => events'[i] = events[i]
    BY <2>1 DEF RecordSavings, DashboardInv, TypeOK
  <2>5. \A i \in Jobs : status'[i] = IF i \in {j} THEN "succeeded" ELSE status[i]
    BY <2>1 DEF DashboardInv, TypeOK
  <2> QED BY <2>1, <2>3, <2>4, <2>5, EndKeeps DEF Terminal, openVars
<1> QED BY <1>1, <1>2

LEMMA OpeningKeeps ==
    ASSUME DashboardInv, TypeOK', Migrate \/ RebuildDashboard \/ FailInterrupted \/ Crash \/ ClearOutputSavings
    PROVE  DashboardInv'
<1>1. CASE Migrate
  <2>1. /\ phase = "down" /\ phase' = (IF tables THEN "migrated" ELSE "rebuilding") /\ tables'
        /\ UNCHANGED <<torn, status, request, events, dashboard, savings, uncounted>>
    BY <1>1 DEF Migrate, jobVars, dashboardVars
  <2>2. ASSUME Populated', NEW k \in Slots PROVE EndedCounted(k)' /\ SavingsCounted(k)'
    <3>1. Populated
      BY <2>1, <2>2 DEF Populated
    <3>2. \A o \in Terminal : Ended(o, k)' = Ended(o, k)
      BY <2>1 DEF Ended, SlotOf
    <3> QED BY <2>1, <3>1, <3>2, SameRowsSameEnds, SameRowsSameSavings DEF DashboardInv
  <2> QED BY <2>1, <2>2 DEF DashboardInv, Blank
<1>2. CASE RebuildDashboard
  <2>1. /\ phase = "rebuilding" /\ phase' = "migrated" /\ UNCHANGED <<tables, torn, status, request, events>>
        /\ uncounted' = {} /\ torn = {}
    BY <1>2 DEF RebuildDashboard, jobVars, DashboardInv
  <2>2. ASSUME NEW k \in Slots PROVE EndedCounted(k)' /\ SavingsCounted(k)'
    BY <1>2, <2>1 DEF RebuildDashboard, EndedCounted, SavingsCounted, Ended, Measured, Saving, SlotOf
  <2> QED BY <2>1, <2>2 DEF DashboardInv
<1>3. CASE FailInterrupted
  <2> DEFINE left == {j \in Jobs : status[j] \in Active}
  <2>1. /\ phase = "migrated" /\ phase' = "serving" /\ RecordTerminal(left, "failed")
        /\ status' = [j \in Jobs |-> IF j \in left THEN "failed" ELSE status[j]]
        /\ UNCHANGED <<tables, torn, request, uncounted, events, savings>>
    BY <1>3 DEF FailInterrupted
  <2>2. left \in SUBSET Jobs /\ \A j \in left : status[j] \in Active
    OBVIOUS
  <2>3. \A k \in Slots : SavingsCounted(k) => SavingsCounted(k)'
    BY <2>1, SameRowsSameSavings
  <2> HIDE DEF left
  <2>4. \A j \in Jobs : status'[j] = IF j \in left THEN "failed" ELSE status[j]
    BY <2>1
  <2>5. "failed" \in Terminal
        /\ \A j \in Jobs : events'[j] # {} => events[j] # {} \/ (j \in left /\ "failed" = "succeeded")
    BY <2>1 DEF Terminal
  <2>6. RecordTerminal(left, "failed") /\ UNCHANGED <<tables, torn, request, uncounted>>
    BY <2>1
  <2>7. phase \in {"migrated", "serving"} /\ phase' = "serving"
    BY <2>1
  <2> QED BY <2>2, <2>3, <2>4, <2>5, <2>6, <2>7, EndKeeps
<1>4. CASE Crash
  <2>1. /\ phase' = "down"
        /\ torn' = IF phase = "rebuilding" THEN {j \in Jobs : status[j] \in Terminal} ELSE torn
        /\ UNCHANGED <<tables, status, request, events, dashboard, savings, uncounted>>
    BY <1>4 DEF Crash, jobVars, dashboardVars
  <2>2. ASSUME Populated', NEW k \in Slots PROVE EndedCounted(k)' /\ SavingsCounted(k)'
    <3>1. CASE phase # "rebuilding"
      <4>1. Populated /\ torn' = torn
        BY <2>1, <2>2, <3>1 DEF Populated
      <4>2. \A o \in Terminal : Ended(o, k)' = Ended(o, k)
        BY <2>1, <4>1 DEF Ended, SlotOf
      <4> QED BY <2>1, <4>1, <4>2, SameRowsSameEnds, SameRowsSameSavings DEF DashboardInv
    <3>2. CASE phase = "rebuilding"
\* The rebuild is lost: the fresh tables count none of the jobs that had ended.
      <4>1. Blank /\ torn' = {j \in Jobs : status[j] \in Terminal}
        BY <2>1, <3>2 DEF DashboardInv
      <4>2. \A o \in Terminal : Ended(o, k)' = {}
        BY <2>1, <4>1 DEF Ended
      <4>3. \A j \in Jobs \ torn' : events'[j] = {}
        BY <2>1, <4>1 DEF DashboardInv, Terminal
      <4>4. Saving(k)' = {}
        BY <4>3 DEF Saving
      <4>5. Measured(k)' = {}
        <5>1. \A e \in (Jobs \ torn') \X Responses : e[1] \in Jobs \ torn'
          OBVIOUS
        <5> QED BY <4>3, <5>1 DEF Measured
      <4>6. Blank'
        BY <2>1, <4>1 DEF Blank
      <4> QED BY <4>2, <4>4, <4>5, <4>6, FS_EmptySet DEF EndedCounted, SavingsCounted, Blank
    <3> QED BY <3>1, <3>2
  <2>3. \A j \in torn' : status'[j] \in Terminal
    BY <2>1 DEF DashboardInv
  <2>4. ~tables' \/ phase' = "rebuilding" => Blank' /\ torn' = {}
    BY <2>1 DEF DashboardInv, Blank
  <2> QED BY <2>1, <2>2, <2>3, <2>4 DEF DashboardInv
<1>5. CASE ClearOutputSavings
  <2>1. /\ phase = "serving" /\ events' = [j \in Jobs |-> {}] /\ savings' = [k \in Slots |-> [responses |-> 0, jobs |-> 0]]
        /\ UNCHANGED <<phase, tables, torn, status, request, dashboard, uncounted>>
    BY <1>5 DEF ClearOutputSavings, openVars, jobVars
  <2>2. ASSUME NEW k \in Slots PROVE SavingsCounted(k)'
    <3>1. Saving(k)' = {}
      BY <2>1 DEF Saving
    <3>2. Measured(k)' = {}
      <4>1. \A e \in Jobs \X Responses : e[1] \in Jobs
        OBVIOUS
      <4> QED BY <2>1, <4>1 DEF Measured
    <3> QED BY <2>1, <3>1, <3>2, FS_EmptySet DEF SavingsCounted
  <2>3. ASSUME NEW k \in Slots, Populated PROVE EndedCounted(k)'
    BY <2>1, <2>3 DEF DashboardInv, EndedCounted, Ended, SlotOf
  <2> QED BY <2>1, <2>2, <2>3 DEF DashboardInv, Populated
<1> QED BY <1>1, <1>2, <1>3, <1>4, <1>5

LEMMA StepDashboard == DashboardInv /\ [Next]_vars => DashboardInv'
<1> SUFFICES ASSUME DashboardInv, [Next]_vars PROVE DashboardInv'
  OBVIOUS
<1>1. TypeOK'
  BY NextTypeOK DEF DashboardInv
<1>2. CASE UNCHANGED vars
  BY <1>1, <1>2, QuietDashboard DEF vars, jobVars, dashboardVars, DashboardInv
<1> QED
  BY <1>1, <1>2, CreateKeeps, RowKeeps, CompleteKeeps, OpeningKeeps DEF Next

(***************************************************************************)
(* The dashboard counts every job that ended, and every measured response, *)
(* exactly once, in the slot the job ended in.                             *)
(***************************************************************************)
THEOREM DashboardExact == Spec => []DashboardMatchesJobs
BY InvMatches, InitDashboard, StepDashboard, PTL DEF Spec

-----------------------------------------------------------------------------
(***************************************************************************)
(* The ledger.  Its tally of a place is the number of rows that ended      *)
(* there, whether the dashboard counts them or leaves them out, so every   *)
(* step is judged by what it does to statuses and places.                  *)
(***************************************************************************)
LedgerInv ==
    /\ DashboardInv
    /\ \A j \in Jobs : status[j] = "absent" => Len(request[j].trail) = 0

Rest(o, k) == {j \in uncounted \union torn : status[j] = o /\ SlotOf(j) = k}
EndedRows(o, k) == {j \in Jobs : status[j] = o /\ SlotOf(j) = k}

LEMMA TallyIsExact ==
    ASSUME DashboardInv, NEW k \in Slots, NEW o \in Terminal
    PROVE  TallyOf[k][o] = Cardinality(EndedRows(o, k))
<1>1. CASE ~Populated
  BY <1>1 DEF TallyOf, EndedIn, EndedRows
<1>2. CASE Populated
  <2>1. TallyOf[k][o] = dashboard[k][o] + Cardinality(Rest(o, k))
    BY <1>2 DEF TallyOf, EndedIn, Rest
  <2>2. dashboard[k][o] = Cardinality(Ended(o, k))
    BY <1>2 DEF DashboardInv, EndedCounted
  <2>3. /\ EndedRows(o, k) = Ended(o, k) \union Rest(o, k)
        /\ Ended(o, k) \cap Rest(o, k) = {} /\ Rest(o, k) \subseteq Jobs
    BY DEF DashboardInv, TypeOK, EndedRows, Ended, Rest
  <2>4. IsFiniteSet(Ended(o, k)) /\ IsFiniteSet(Rest(o, k))
    BY <2>3, Finite
  <2>5. /\ Cardinality(Ended(o, k) \union Rest(o, k)) =
               Cardinality(Ended(o, k)) + Cardinality(Rest(o, k)) - Cardinality(Ended(o, k) \cap Rest(o, k))
        /\ Cardinality(Ended(o, k)) \in Nat /\ Cardinality(Rest(o, k)) \in Nat
    BY <2>4, FS_Union, FS_CardinalityType
  <2>6. Cardinality(Ended(o, k) \cap Rest(o, k)) = 0
    BY <2>3, FS_EmptySet
  <2> QED BY <2>1, <2>2, <2>3, <2>5, <2>6
<1> QED BY <1>1, <1>2

ByRows == TallyOf = [k \in Slots |-> [o \in Terminal |-> Cardinality(EndedRows(o, k))]]

LEMMA TallyByRows == (DashboardInv => ByRows) /\ (DashboardInv' => ByRows')
<1>1. DashboardInv => ByRows
  BY TallyIsExact DEF TallyOf, ByRows
<1> QED BY <1>1, PTL

\* completeJob, the cancellations and failInterruptedJobs end the jobs of S.
LEMMA EndsInLedger ==
    ASSUME DashboardInv, DashboardInv', NEW S \in SUBSET Jobs, NEW o \in Terminal,
           \A j \in S : status[j] \in Active, request' = request,
           status' = [j \in Jobs |-> IF j \in S THEN o ELSE status[j]]
    PROVE  Ledger!End(S, o)
<1>1. \A j \in S : LifeOf[j] = "pending"
  BY DEF LifeOf
<1>2. LifeOf' = [j \in Jobs |-> IF j \in S THEN o ELSE LifeOf[j]]
  BY DEF LifeOf, Active, Terminal
<1>3. UNCHANGED <<PlaceOf, LegsOf>>
  BY DEF PlaceOf, LegsOf, SlotOf
<1>4. ASSUME NEW k \in Slots
      PROVE  /\ Cardinality(EndedRows(o, k)') = Cardinality(EndedRows(o, k)) + Ledger!EndedAt(S, k)
             /\ \A q \in Terminal : q # o => EndedRows(q, k)' = EndedRows(q, k)
  <2> DEFINE new == {j \in S : SlotOf(j) = k}
  <2>1. new = {j \in S : PlaceOf[j] = k}
    BY DEF PlaceOf
  <2>2. EndedRows(o, k)' = EndedRows(o, k) \union new /\ EndedRows(o, k) \cap new = {}
    BY DEF EndedRows, SlotOf, Active, Terminal
  <2>3. IsFiniteSet(EndedRows(o, k)) /\ IsFiniteSet(new)
    BY FS_Subset DEF EndedRows
  <2>4. \A q \in Terminal : q # o => EndedRows(q, k)' = EndedRows(q, k)
    BY DEF EndedRows, SlotOf, Active, Terminal
  <2> HIDE DEF new
  <2>5. /\ Cardinality(EndedRows(o, k) \union new) =
               Cardinality(EndedRows(o, k)) + Cardinality(new) - Cardinality(EndedRows(o, k) \cap new)
        /\ Cardinality(EndedRows(o, k)) \in Nat /\ Cardinality(new) \in Nat
    BY <2>3, FS_Union, FS_CardinalityType
  <2>6. Cardinality(EndedRows(o, k) \cap new) = 0
    BY <2>2, FS_EmptySet
  <2>7. Ledger!EndedAt(S, k) = Cardinality(new)
    BY <2>1 DEF Ledger!EndedAt, Cardinality, Ledger!Cardinality
  <2>8. Cardinality(EndedRows(o, k)') = Cardinality(EndedRows(o, k)) + Cardinality(new)
    BY <2>2, <2>5, <2>6
  <2> QED BY <2>4, <2>7, <2>8
<1>5. TallyOf' = [k \in Slots |-> [TallyOf[k] EXCEPT ![o] = @ + Ledger!EndedAt(S, k)]]
  <2>1. TallyOf' = [k \in Slots |-> [q \in Terminal |-> Cardinality(EndedRows(q, k)')]]
    BY TallyByRows DEF ByRows
  <2>2. TallyOf = [k \in Slots |-> [q \in Terminal |-> Cardinality(EndedRows(q, k))]]
    BY TallyByRows DEF ByRows
  <2>3. ASSUME NEW k \in Slots
        PROVE  [q \in Terminal |-> Cardinality(EndedRows(q, k)')] =
                   [TallyOf[k] EXCEPT ![o] = @ + Ledger!EndedAt(S, k)]
    BY <1>4, <2>2
  <2> QED BY <2>1, <2>3
<1> QED BY <1>1, <1>2, <1>3, <1>5 DEF Ledger!End

\* A step that ends no job leaves the tally alone.
LEMMA SameTally ==
    ASSUME DashboardInv, DashboardInv',
           \A j \in Jobs : \/ status'[j] = status[j] /\ request'[j] = request[j]
                           \/ status[j] \notin Terminal /\ status'[j] \notin Terminal
    PROVE  TallyOf' = TallyOf
<1>1. \A k \in Slots, o \in Terminal : EndedRows(o, k)' = EndedRows(o, k)
  BY DEF EndedRows, SlotOf
<1> QED BY <1>1, TallyByRows DEF ByRows

LEMMA QuietInLedger ==
    ASSUME DashboardInv, DashboardInv', request' = request,
           \A j \in Jobs : status'[j] = status[j] \/ (status[j] \in Active /\ status'[j] \in Active)
    PROVE  UNCHANGED Ledger!vars
<1>1. LifeOf' = LifeOf /\ PlaceOf' = PlaceOf /\ LegsOf' = LegsOf
  BY DEF LifeOf, PlaceOf, LegsOf, SlotOf
<1>2. TallyOf' = TallyOf
  BY SameTally DEF Active, Terminal
<1> QED BY <1>1, <1>2 DEF Ledger!vars

LEMMA CreateInLedger ==
    ASSUME LedgerInv, DashboardInv', NEW j \in Jobs, NEW r \in NewRequests, CreateJob(j, r)
    PROVE  Ledger!Accept(j)
<1>1. /\ status[j] = "absent" /\ status' = [status EXCEPT ![j] = "queued"]
      /\ request' = [request EXCEPT ![j] = r] /\ r \in Requests /\ Len(r.trail) = 0
  BY RequestsAssumption DEF CreateJob
<1>2. status \in [Jobs -> Statuses] /\ request \in [Jobs -> Requests] /\ Len(request[j].trail) = 0
  BY <1>1 DEF LedgerInv, DashboardInv, TypeOK
<1>3. LifeOf[j] = "absent" /\ LifeOf' = [LifeOf EXCEPT ![j] = "pending"]
  BY <1>1, <1>2 DEF LifeOf, Active
<1>4. LegsOf' = LegsOf
  BY <1>1, <1>2 DEF LegsOf
<1>5. PlaceOf' = [PlaceOf EXCEPT ![j] = <<r.profile, r.provider>>] /\ <<r.profile, r.provider>> \in Slots
  BY <1>1, <1>2 DEF PlaceOf, SlotOf, Slots, Requests
<1>6. TallyOf' = TallyOf
  BY <1>1, <1>2, SameTally DEF LedgerInv, Terminal
<1> QED BY <1>3, <1>4, <1>5, <1>6 DEF Ledger!Accept

LEMMA FallbackInLedger ==
    ASSUME LedgerInv, DashboardInv', NEW j \in Jobs, Fallback(j)
    PROVE  Ledger!MoveOn(j)
<1>1. PICK reason \in Reasons, proof \in Proofs :
          /\ request[j].plan # <<>>
          /\ FallbackJob(j, NextRequest(request[j], reason, submitted[j]), proof)
  BY DEF Fallback
<1> DEFINE next == NextRequest(request[j], reason, submitted[j])
<1>2. /\ status \in [Jobs -> Statuses] /\ request \in [Jobs -> Requests] /\ submitted[j] \in BOOLEAN
      /\ request[j] \in Requests
  BY DEF LedgerInv, DashboardInv, TypeOK
<1>3. next \in Requests
  BY <1>1, <1>2, NextRequestType
<1>4. /\ next.provider # request[j].provider /\ next.profile = request[j].profile
      /\ Len(next.trail) = Len(request[j].trail) + 1
  <2>1. request[j].trail \in Seq(Attempts)
    BY <1>2 DEF Requests
  <2>2. next.provider # request[j].provider
    BY <1>1 DEF FallbackJob, MayRestart
  <2> QED BY <1>2, <2>1, <2>2 DEF NextRequest, Requests
<1>5. /\ status[j] \in Executing /\ status' = [status EXCEPT ![j] = "running"]
      /\ request' = [request EXCEPT ![j] = next]
  BY <1>1 DEF FallbackJob, MayRestart
<1> HIDE DEF next
<1>6. LifeOf[j] = "pending" /\ LifeOf' = LifeOf
  BY <1>2, <1>5 DEF LifeOf, Active, Executing
<1>7. LegsOf' = [LegsOf EXCEPT ![j] = @ + 1]
  BY <1>2, <1>4, <1>5 DEF LegsOf
<1>8. /\ PlaceOf' = [PlaceOf EXCEPT ![j] = <<next.profile, next.provider>>]
      /\ <<next.profile, next.provider>> \in Slots \ {PlaceOf[j]}
  BY <1>2, <1>3, <1>4, <1>5 DEF PlaceOf, SlotOf, Slots, Requests
<1>9. TallyOf' = TallyOf
  BY <1>2, <1>5, SameTally DEF LedgerInv, Terminal, Executing
<1> QED BY <1>6, <1>7, <1>8, <1>9 DEF Ledger!MoveOn

LEMMA EndStepInLedger ==
    ASSUME DashboardInv, DashboardInv',
           \/ FailInterrupted
           \/ \E j \in Jobs : \/ CompleteWithError(j) \/ CancelJob(j) \/ CancelTurnJob(j)
                            \/ \E recorded \in SUBSET Responses : CompleteWithResult(j, recorded)
    PROVE  \E S \in SUBSET Jobs, o \in Terminal : Ledger!End(S, o)
<1>1. CASE FailInterrupted
  <2> DEFINE left == {j \in Jobs : status[j] \in Active}
  <2>1. /\ left \in SUBSET Jobs /\ \A j \in left : status[j] \in Active
        /\ request' = request /\ "failed" \in Terminal
        /\ status' = [j \in Jobs |-> IF j \in left THEN "failed" ELSE status[j]]
    BY <1>1 DEF FailInterrupted, Terminal
  <2> HIDE DEF left
  <2> QED BY <2>1, EndsInLedger
<1>2. ASSUME NEW j \in Jobs,
             \/ CompleteWithError(j) \/ CancelJob(j) \/ CancelTurnJob(j)
             \/ \E recorded \in SUBSET Responses : CompleteWithResult(j, recorded)
      PROVE  \E S \in SUBSET Jobs, o \in Terminal : Ledger!End(S, o)
  <2>1. PICK o \in Terminal : status' = [status EXCEPT ![j] = o]
    BY <1>2 DEF CompleteWithError, CancelJob, CancelTurnJob, CompleteWithResult, Terminal
  <2>2. status[j] \in Active /\ request' = request
    BY <1>2 DEF CompleteWithError, CancelJob, CancelTurnJob, CompleteWithResult, Executing, Active
  <2> DEFINE S == {j}
  <2>3. /\ S \in SUBSET Jobs /\ \A i \in S : status[i] \in Active
        /\ status' = [i \in Jobs |-> IF i \in S THEN o ELSE status[i]]
    BY <2>1, <2>2 DEF DashboardInv, TypeOK
  <2> HIDE DEF S
  <2> QED BY <2>2, <2>3, EndsInLedger
<1> QED BY <1>1, <1>2

LEMMA StepInLedger == LedgerInv /\ LedgerInv' /\ [Next]_vars => [Ledger!Next]_Ledger!vars
<1> SUFFICES ASSUME LedgerInv, LedgerInv', [Next]_vars
             PROVE  Ledger!Next \/ UNCHANGED Ledger!vars
  OBVIOUS
<1>0. DashboardInv /\ DashboardInv' /\ status \in [Jobs -> Statuses]
  BY DEF LedgerInv, DashboardInv, TypeOK
<1>1. ASSUME NEW j \in Jobs, NEW r \in NewRequests, CreateJob(j, r) PROVE Ledger!Next
  BY <1>0, <1>1, CreateInLedger DEF Ledger!Next
<1>2. ASSUME NEW j \in Jobs, Fallback(j) PROVE Ledger!Next
  BY <1>0, <1>2, FallbackInLedger DEF Ledger!Next
<1>3. ASSUME \/ FailInterrupted
             \/ \E j \in Jobs : \/ CompleteWithError(j) \/ CancelJob(j) \/ CancelTurnJob(j)
                              \/ \E recorded \in SUBSET Responses : CompleteWithResult(j, recorded)
      PROVE  Ledger!Next
  <2>1. Ledger!Outcome = Terminal
    BY DEF Ledger!Outcome, Terminal
  <2> QED BY <1>0, <1>3, <2>1, EndStepInLedger DEF Ledger!Next
<1>4. ASSUME Migrate \/ RebuildDashboard \/ Crash \/ ClearOutputSavings \/ UNCHANGED vars
      PROVE  UNCHANGED Ledger!vars
  <2>1. request' = request /\ status' = status
    BY <1>4 DEF Migrate, RebuildDashboard, Crash, ClearOutputSavings, vars, jobVars
  <2>2. \A i \in Jobs : status'[i] = status[i]
    BY <2>1
  <2> QED BY <1>0, <2>1, <2>2, QuietInLedger
<1>5. ASSUME NEW j \in Jobs,
             \/ TakeNextJob(j) \/ MarkWaitingForUser(j) \/ MarkRunning(j)
             \/ AdmitProviderAction(j) \/ RecordProviderSubmission(j)
      PROVE  UNCHANGED Ledger!vars
  <2>1. /\ request' = request
        /\ \/ status' = status
           \/ \E s \in Active : status[j] \in Active /\ status' = [status EXCEPT ![j] = s]
    BY <1>5 DEF TakeNextJob, MarkWaitingForUser, MarkRunning, AdmitProviderAction,
                RecordProviderSubmission, jobVars, Oldest, Queued, Active
  <2>2. \A i \in Jobs : status'[i] = status[i] \/ (status[i] \in Active /\ status'[i] \in Active)
    <3>1. CASE status' = status
      BY <3>1
    <3>2. ASSUME NEW s \in Active, status[j] \in Active, status' = [status EXCEPT ![j] = s]
          PROVE  \A i \in Jobs : status'[i] = status[i] \/ (status[i] \in Active /\ status'[i] \in Active)
      BY <1>0, <3>2
    <3> QED BY <2>1, <3>1, <3>2
  <2> QED BY <1>0, <2>1, <2>2, QuietInLedger
<1> QED BY <1>1, <1>2, <1>3, <1>4, <1>5 DEF Next

\* A job that is not there yet has left no provider behind.
LEMMA StepLedgerInv == LedgerInv /\ [Next]_vars => LedgerInv'
<1> SUFFICES ASSUME LedgerInv, [Next]_vars, NEW j \in Jobs, status'[j] = "absent"
             PROVE  Len(request'[j].trail) = 0
  BY StepDashboard DEF LedgerInv
<1>1. status[j] = "absent" /\ request'[j] = request[j]
  <2>1. TypeOK /\ TypeOK'
    BY StepDashboard DEF LedgerInv, DashboardInv
  <2> USE DEF TypeOK, Active, Executing, Terminal, Statuses
  <2>2. ASSUME NEW i \in Jobs, NEW r \in NewRequests, CreateJob(i, r)
        PROVE  status[j] = "absent" /\ request'[j] = request[j]
    BY <2>1, <2>2 DEF CreateJob
  <2>3. ASSUME NEW i \in Jobs, Fallback(i)
        PROVE  status[j] = "absent" /\ request'[j] = request[j]
    BY <2>1, <2>3 DEF Fallback, FallbackJob, MayRestart
  <2>4. ASSUME request' = request,
               \A i \in Jobs : status'[i] = "absent" => status[i] = "absent"
        PROVE  status[j] = "absent" /\ request'[j] = request[j]
    BY <2>4
  <2>5. CASE Migrate \/ RebuildDashboard \/ Crash \/ ClearOutputSavings \/ UNCHANGED vars
    BY <2>4, <2>5 DEF Migrate, RebuildDashboard, Crash, ClearOutputSavings, vars, jobVars
  <2>6. CASE FailInterrupted
    BY <2>4, <2>6 DEF FailInterrupted
  <2>7. ASSUME NEW i \in Jobs,
               \/ TakeNextJob(i) \/ MarkWaitingForUser(i) \/ MarkRunning(i)
               \/ AdmitProviderAction(i) \/ RecordProviderSubmission(i)
               \/ CompleteWithError(i) \/ CancelJob(i) \/ CancelTurnJob(i)
               \/ \E recorded \in SUBSET Responses : CompleteWithResult(i, recorded)
        PROVE  status[j] = "absent" /\ request'[j] = request[j]
    BY <2>1, <2>4, <2>7
       DEF TakeNextJob, MarkWaitingForUser, MarkRunning, AdmitProviderAction,
           RecordProviderSubmission, CompleteWithError, CancelJob, CancelTurnJob,
           CompleteWithResult, jobVars
  <2> QED BY <2>2, <2>3, <2>5, <2>6, <2>7 DEF Next
<1> QED BY <1>1 DEF LedgerInv

LEMMA InitInLedger == Init => LedgerInv /\ Ledger!Init
<1> SUFFICES ASSUME Init PROVE LedgerInv /\ Ledger!Init
  OBVIOUS
<1>1. DashboardInv /\ TypeOK
  BY InitDashboard DEF DashboardInv
<1>2. \A j \in Jobs : Len(request[j].trail) = 0
  BY RequestsAssumption DEF Init
<1>3. /\ LifeOf \in [Jobs -> {"absent", "pending"} \union Ledger!Outcome]
      /\ PlaceOf \in [Jobs -> Slots]
      /\ LegsOf = [j \in Jobs |-> 0]
  BY <1>1, <1>2, SlotsOfJobs DEF TypeOK, LifeOf, PlaceOf, LegsOf, Statuses, Active, Terminal, Ledger!Outcome
<1>4. TallyOf = [k \in Slots |-> [o \in Ledger!Outcome |->
                    Ledger!EndedAt({j \in Jobs : LifeOf[j] = o}, k)]]
  <2>1. Ledger!Outcome = Terminal
    BY DEF Ledger!Outcome, Terminal
  <2>2. ASSUME NEW k \in Slots, NEW o \in Terminal
        PROVE  EndedRows(o, k) = {i \in {j \in Jobs : LifeOf[j] = o} : PlaceOf[i] = k}
    BY DEF EndedRows, LifeOf, PlaceOf, Terminal, Active
  <2>3. ASSUME NEW k \in Slots, NEW o \in Terminal
        PROVE  Ledger!EndedAt({j \in Jobs : LifeOf[j] = o}, k) = Cardinality(EndedRows(o, k))
    BY <2>2 DEF Ledger!EndedAt, Cardinality, Ledger!Cardinality
  <2> QED BY <1>1, <2>1, <2>3, TallyByRows DEF ByRows
<1> QED BY <1>1, <1>2, <1>3, <1>4 DEF LedgerInv, Ledger!Init

(***************************************************************************)
(* The store implements the ledger: from a fresh home or an old one, a job *)
(* that was created pends until it ends once, and the tally of a place     *)
(* grows by exactly the jobs that end there, whatever crashes, lost        *)
(* rebuilds, fallbacks and cancellations come between.                     *)
(***************************************************************************)
THEOREM StoreImplementsLedger == Spec => ImplementsLedger
<1>1. Spec => []LedgerInv
  BY InitInLedger, StepLedgerInv, PTL DEF Spec
<1> QED
  BY <1>1, InitInLedger, StepInLedger, PTL DEF Spec, ImplementsLedger, Ledger!Spec

-----------------------------------------------------------------------------
(* The runner.                                                             *)

USE ScriptsAssumption

\* What the memory of an execution and the row of its job have to do with each other.
Remembers(j) ==
    /\ At(j, {"none"}) => exec[j] = Idle
    /\ ~At(j, {"none"}) => phase = "serving"
    /\ exec[j].canceled => status[j] = "canceled"
    /\ status[j] \in {"absent", "queued"} => At(j, {"none"}) /\ ~submitted[j]
    /\ status[j] \in Executing =>
          /\ phase = "serving" /\ ~halted => ~At(j, {"none"})
          /\ At(j, {"fell"}) => ~submitted[j]
          /\ ~At(j, {"none", "fell"}) => exec[j].submitted = submitted[j]
MemoryInv ==
    /\ RTypeOK
    /\ ctl = "quiescing" => halted
    /\ \A j \in Jobs : Remembers(j)

-----------------------------------------------------------------------------
(* Every step of the runner is a step of the store, or none.               *)

LEMMA LeaveIsFallback ==
    ASSUME MemoryInv, NEW j \in Jobs, NEW f \in Failures, NEW s \in BOOLEAN,
           Leave(j, f, s), ~At(j, {"none", "fell"})
    PROVE  Fallback(j)
<1>1. status[j] \in Executing /\ request[j].plan # <<>> /\ request[j] \in Requests
  BY DEF Leave, MayLeave, MayFallBack, FallbackJob, MayRestart, MemoryInv, RTypeOK, TypeOK
<1>2. exec[j].submitted = submitted[j]
  BY <1>1 DEF MemoryInv, Remembers
<1>3. FailureReason(f) \in Reasons
  BY DEF FailureReason, Reasons
<1>4. ProofFor(j, f) \in Proofs
  BY <1>1 DEF ProofFor, RejectionProof, Proofs, FailureReason, Requests
<1>5. FallbackJob(j, NextRequest(request[j], FailureReason(f), submitted[j]), ProofFor(j, f))
  BY <1>2 DEF Leave, NextFor
<1> QED BY <1>1, <1>3, <1>4, <1>5 DEF Fallback

\* failOrFallback.
LEMMA FailureIsStoreStep ==
    ASSUME MemoryInv, NEW j \in Jobs, NEW f \in Failures, NEW s \in BOOLEAN,
           FailOrFallback(j, f, s), ~At(j, {"none", "fell"})
    PROVE  Fallback(j) \/ UNCHANGED vars
BY LeaveIsFallback DEF FailOrFallback, KeepStore

\* The store's side of a step of j's execution.
OfJob(j) ==
    \/ TakeNextJob(j) \/ MarkWaitingForUser(j) \/ MarkRunning(j)
    \/ AdmitProviderAction(j) \/ RecordProviderSubmission(j) \/ Fallback(j)
    \/ \E recorded \in SUBSET Responses : CompleteWithResult(j, recorded)
    \/ CompleteWithError(j)
    \/ UNCHANGED vars

LEMMA WorkIsStoreStep ==
    ASSUME MemoryInv, NEW j \in Jobs, Work(j)
    PROVE  OfJob(j)
<1>1. CASE Project(j)
  BY <1>1, FailureIsStoreStep DEF Project, At, Failures, Errors, KeepStore, OfJob
<1>2. CASE OpenPage(j)
  BY <1>2, FailureIsStoreStep DEF OpenPage, At, Failures, Errors, KeepStore, OfJob
<1>3. CASE Begin(j)
  BY <1>3, FailureIsStoreStep DEF Begin, At, Failures, Errors, KeepStore, OfJob
<1>4. CASE Prepared(j) \/ Restart(j) \/ Abandon(j)
  BY <1>4 DEF Prepared, Restart, Abandon, KeepStore, OfJob
<1>5. CASE Succeed(j)
  BY <1>5 DEF Succeed, KeepStore, OfJob
<1>6. CASE Fail(j)
  BY <1>6 DEF Fail, KeepStore, OfJob
<1>7. CASE Finish(j)
  BY <1>7 DEF Finish, KeepStore, OfJob
<1> QED BY <1>1, <1>2, <1>3, <1>4, <1>5, <1>6, <1>7 DEF Work

LEMMA FailuresTyped ==
    \A kind : ActionFailures(kind) \subseteq Failures
BY DEF ActionFailures, Failures, Errors

LEMMA WaitIsStoreStep ==
    ASSUME MemoryInv, NEW j \in Jobs,
           \/ Take(j) \/ PollCancel(j) \/ \E b \in Blockers : Blocked(j, b)
           \/ HandoffResolved(j) \/ HandoffEnds(j) \/ PrepareFails(j) \/ Deliver(j) \/ ActFails(j)
    PROVE  OfJob(j)
<1>1. CASE Take(j) \/ PollCancel(j) \/ HandoffResolved(j) \/ Deliver(j)
  BY <1>1 DEF Take, PollCancel, HandoffResolved, Deliver, KeepStore, OfJob
<1>2. ASSUME NEW b \in Blockers, Blocked(j, b) PROVE OfJob(j)
  BY <1>2, LeaveIsFallback DEF Blocked, At, Failures, KeepStore, OfJob
<1>3. CASE HandoffEnds(j)
  BY <1>3, FailureIsStoreStep DEF HandoffEnds, At, Failures, Blockers, TerminalBlockers, Errors, OfJob
<1>4. CASE PrepareFails(j)
  BY <1>4, FailureIsStoreStep DEF PrepareFails, At, Failures, Errors, OfJob
<1>5. CASE ActFails(j)
  BY <1>5, FailureIsStoreStep, FailuresTyped DEF ActFails, At, KeepStore, OfJob
<1> QED BY <1>1, <1>2, <1>3, <1>4, <1>5

LEMMA StepRefines ==
    ASSUME MemoryInv, [RNext]_allVars
    PROVE  [Next]_vars
<1>1. ASSUME NEW j \in Jobs, OfJob(j) PROVE [Next]_vars
  BY <1>1 DEF OfJob, Next
<1>2. CASE Open \/ Serve \/ Die
  BY <1>2 DEF Open, Serve, Die, Next
<1>3. CASE Quiesce \/ Settle
  BY <1>3 DEF Quiesce, Settle, KeepStore
<1>4. ASSUME NEW j \in Jobs, NEW r \in NewRequests, Submit(j, r) PROVE [Next]_vars
  BY <1>4 DEF Submit, Next
<1>5. ASSUME NEW j \in Jobs, Cancel(j) PROVE [Next]_vars
  BY <1>5 DEF Cancel, Next
<1>6. CASE UNCHANGED allVars
  BY <1>6 DEF allVars
<1> QED
  BY <1>1, <1>2, <1>3, <1>4, <1>5, <1>6, WorkIsStoreStep, WaitIsStoreStep DEF RNext

-----------------------------------------------------------------------------
(* What executions remember.                                               *)

LEMMA InitRemembers == RInit => MemoryInv
<1> SUFFICES ASSUME RInit PROVE MemoryInv
  OBVIOUS
<1>1. TypeOK
  BY InitTypeOK DEF RInit
<1>2. RTypeOK
  BY <1>1 DEF RInit, RTypeOK, Idle, Points
<1>3. \A j \in Jobs : Remembers(j)
  BY DEF RInit, Init, Remembers, At, Idle, Executing
<1> QED BY <1>2, <1>3 DEF MemoryInv, RInit

\* RTypeOK without the columns of the store.
Executions == [pc : Points, cursor : Nat, submitted : BOOLEAN, answered : BOOLEAN,
               canceled : BOOLEAN, landed : BOOLEAN]
RunTyped ==
    /\ ctl \in {"stopped", "running", "quiescing", "quiesced"}
    /\ script \in [Jobs -> Scripts]
    /\ exec \in [Jobs -> Executions]
    /\ delivered \in [Jobs -> [Providers -> Nat]]
    /\ doubted \in [Jobs -> SUBSET Providers]
    /\ halted \in BOOLEAN

LEMMA TypeParts == (RTypeOK <=> TypeOK /\ RunTyped) /\ (RTypeOK' <=> TypeOK' /\ RunTyped')
BY DEF RTypeOK, RunTyped, Executions

LEMMA WrittenTyped ==
    ASSUME RunTyped, NEW j \in Jobs, NEW e \in Executions, exec' = [exec EXCEPT ![j] = e], KeepHistory
    PROVE  RunTyped'
BY DEF RunTyped, KeepHistory

LEMMA MovedTyped ==
    ASSUME RunTyped, NEW j \in Jobs, NEW p \in Points, Goto(j, p), KeepHistory
    PROVE  RunTyped'
BY DEF RunTyped, Goto, KeepHistory, Executions

LEMMA LeaveTyped ==
    ASSUME RunTyped, TypeOK, NEW j \in Jobs, NEW f, NEW s, Leave(j, f, s)
    PROVE  RunTyped'
<1>1. Here(j) \in Providers
  BY DEF TypeOK, Requests, Here
<1>2. exec' \in [Jobs -> Executions]
  <2>1. exec \in [Jobs -> Executions] /\ exec[j] \in Executions
    BY DEF RunTyped
  <2>2. \A p \in Points : [exec[j] EXCEPT !.pc = p] \in Executions
    BY <2>1 DEF Executions
  <2> QED BY <2>1, <2>2 DEF Leave, Goto, Points
<1> QED BY <1>1, <1>2 DEF Leave, Goto, RunTyped

LEMMA FailureTyped ==
    ASSUME RunTyped, TypeOK, NEW j \in Jobs, NEW f, NEW s, FailOrFallback(j, f, s)
    PROVE  RunTyped'
BY LeaveTyped, MovedTyped DEF FailOrFallback, Points

LEMMA WorkTyped ==
    ASSUME RunTyped, TypeOK, NEW j \in Jobs, Work(j)
    PROVE  RunTyped'
<1>1. CASE Project(j)
  BY <1>1, FailureTyped, MovedTyped DEF Project, Points
<1>2. CASE OpenPage(j)
  BY <1>2, FailureTyped, MovedTyped DEF OpenPage, Points
<1>3. CASE Begin(j)
  BY <1>3, FailureTyped, MovedTyped DEF Begin, Points
<1>4. CASE Prepared(j)
  BY <1>4, MovedTyped DEF Prepared, Points
<1>5. CASE Restart(j) \/ Abandon(j) \/ Fail(j) \/ Finish(j)
  <2>1. Idle \in Executions /\ [Idle EXCEPT !.pc = "start"] \in Executions
    BY DEF Idle, Executions, Points
  <2> QED BY <1>5, <2>1, WrittenTyped DEF Restart, Abandon, Fail, Finish, Quit
<1>6. CASE Succeed(j)
  <2>1. ASSUME NEW e \in Executions, exec' = [exec EXCEPT ![j] = Advanced(e, j)], KeepHistory
        PROVE  RunTyped'
    <3>1. \A p \in Points : [e EXCEPT !.cursor = @ + 1, !.landed = FALSE, !.pc = p] \in Executions
      <4>1. e.cursor + 1 \in Nat
        BY DEF Executions
      <4> QED BY <4>1 DEF Executions
    <3>2. {"finish", "loop", "ready"} \subseteq Points
      BY DEF Points
    <3>3. Advanced(e, j) \in Executions
      BY <3>1, <3>2 DEF Advanced
    <3> QED BY <2>1, <3>3, WrittenTyped
  <2>2. exec[j] \in Executions /\ [exec[j] EXCEPT !.submitted = TRUE] \in Executions
    BY DEF RunTyped, Executions
  <2>3. CASE exec' = [exec EXCEPT ![j] = Advanced([@ EXCEPT !.submitted = TRUE], j)]
    BY <1>6, <2>1, <2>2, <2>3 DEF Succeed
  <2>4. CASE Goto(j, "failing")
    BY <1>6, <2>4, MovedTyped DEF Succeed, Points
  <2>5. ASSUME NEW text \in BOOLEAN, exec' = [exec EXCEPT ![j] = Advanced([exec[j] EXCEPT !.answered = @ \/ text], j)]
        PROVE  RunTyped'
    <3>1. [exec[j] EXCEPT !.answered = @ \/ text] \in Executions
      BY DEF RunTyped, Executions
    <3>2. KeepHistory
      BY <1>6 DEF Succeed
    <3> QED BY <2>1, <2>5, <3>1, <3>2 DEF Executions
  <2>6. CASE exec' = [exec EXCEPT ![j] = Advanced(@, j)]
    BY <1>6, <2>1, <2>2, <2>6 DEF Succeed
  <2> QED BY <1>6, <2>3, <2>4, <2>5, <2>6 DEF Succeed
<1> QED BY <1>1, <1>2, <1>3, <1>4, <1>5, <1>6 DEF Work

LEMMA WaitTyped ==
    ASSUME RunTyped, TypeOK, NEW j \in Jobs,
           \/ Take(j) \/ PollCancel(j) \/ \E b \in Blockers : Blocked(j, b)
           \/ HandoffResolved(j) \/ HandoffEnds(j) \/ PrepareFails(j) \/ Deliver(j) \/ ActFails(j)
    PROVE  RunTyped'
<1>1. CASE Take(j) \/ HandoffResolved(j)
  BY <1>1, MovedTyped DEF Take, HandoffResolved, Points
<1>2. CASE PollCancel(j)
  BY <1>2 DEF PollCancel, RunTyped, KeepHistory, Executions
<1>3. CASE Deliver(j)
  <2>1. exec' \in [Jobs -> Executions]
    BY <1>3 DEF Deliver, RunTyped, Executions
  <2>0. Here(j) \in Providers
    BY DEF TypeOK, Requests, Here
  <2>2. delivered' \in [Jobs -> [Providers -> Nat]]
    BY <1>3, <2>0 DEF Deliver, RunTyped
  <2> QED BY <1>3, <2>1, <2>2 DEF Deliver, RunTyped
<1>4. ASSUME NEW b \in Blockers, Blocked(j, b) PROVE RunTyped'
  BY <1>4, LeaveTyped, MovedTyped DEF Blocked, Points
<1>5. CASE HandoffEnds(j) \/ PrepareFails(j)
  BY <1>5, FailureTyped DEF HandoffEnds, PrepareFails
<1>6. CASE ActFails(j)
  BY <1>6, FailureTyped, MovedTyped DEF ActFails, Points
<1> QED BY <1>1, <1>2, <1>3, <1>4, <1>5, <1>6

LEMMA StepTyped ==
    ASSUME MemoryInv, [RNext]_allVars
    PROVE  RTypeOK'
<1>1. TypeOK /\ RunTyped
  BY TypeParts DEF MemoryInv
<1>2. TypeOK'
  BY <1>1, StepRefines, NextTypeOK
<1>3. ASSUME Open \/ Serve \/ Die \/ Quiesce \/ Settle PROVE RunTyped'
  <2>1. CASE Open \/ Serve
    BY <1>1, <2>1 DEF Open, Serve, RunTyped, runVars
  <2>2. CASE Die
    BY <1>1, <2>2 DEF Die, RunTyped, Idle, Points, Executions
  <2>3. CASE Quiesce \/ Settle
    BY <1>1, <2>3 DEF Quiesce, Settle, RunTyped
  <2> QED BY <1>3, <2>1, <2>2, <2>3
<1>4. ASSUME NEW j \in Jobs, \/ Cancel(j) \/ \E r \in NewRequests : Submit(j, r)
      PROVE  RunTyped'
  BY <1>1, <1>4 DEF Cancel, Submit, RunTyped, runVars
<1>5. ASSUME UNCHANGED allVars PROVE RunTyped'
  BY <1>1, <1>5 DEF allVars, runVars, RunTyped
<1>6. RunTyped'
  BY <1>1, <1>3, <1>4, <1>5, WorkTyped, WaitTyped DEF RNext
<1> QED BY <1>2, <1>6, TypeParts

\* A step of the execution of j: it leaves the others alone, and remembers.
Untouched(i) == exec'[i] = exec[i] /\ status'[i] = status[i] /\ submitted'[i] = submitted[i]
Kept(j) ==
    /\ UNCHANGED <<phase, ctl, halted>>
    /\ \A i \in Jobs : i # j => Untouched(i)
    /\ Remembers(j)'

LEMMA KeptIsEnough ==
    ASSUME MemoryInv, RTypeOK', NEW j \in Jobs, Kept(j)
    PROVE  MemoryInv'
<1>1. ASSUME NEW i \in Jobs, i # j PROVE Remembers(i)'
  BY <1>1 DEF MemoryInv, Kept, Untouched, Remembers, At
<1> QED BY <1>1 DEF MemoryInv, Kept

LEMMA LeaveKeeps ==
    ASSUME MemoryInv, NEW j \in Jobs, NEW f, NEW s, Leave(j, f, s), ~At(j, {"none"})
    PROVE  Kept(j)
BY DEF Leave, FallbackJob, MayRestart, Kept, Untouched, Goto, At, MemoryInv, RTypeOK, TypeOK, Remembers,
       Executing, openVars, Idle

\* A step that only moves the execution on, to a point where it still remembers.
LEMMA GotoKeeps ==
    ASSUME MemoryInv, NEW j \in Jobs, NEW p \in Points \ {"none", "fell"}, Goto(j, p), ~At(j, {"none", "fell"}),
           KeepStore, UNCHANGED <<ctl, halted>>
    PROVE  Kept(j)
BY DEF Goto, Kept, Untouched, At, MemoryInv, RTypeOK, TypeOK, Remembers, KeepStore, vars, jobVars, openVars, Idle

LEMMA FailureKeeps ==
    ASSUME MemoryInv, NEW j \in Jobs, NEW f, NEW s, FailOrFallback(j, f, s), ~At(j, {"none", "fell"})
    PROVE  Kept(j)
BY LeaveKeeps, GotoKeeps DEF FailOrFallback, KeepHistory, At, Points

LEMMA WorkKeeps ==
    ASSUME MemoryInv, NEW j \in Jobs, Work(j)
    PROVE  Kept(j)
<1>1. CASE Project(j)
  BY <1>1, FailureKeeps, GotoKeeps DEF Project, At, Points, KeepHistory
<1>2. CASE OpenPage(j)
  BY <1>2, FailureKeeps, GotoKeeps DEF OpenPage, At, Points, KeepHistory
<1>3. CASE Begin(j)
  <2>1. CASE AdmitProviderAction(j) /\ Goto(j, "acting") /\ KeepHistory
    BY <1>3, <2>1 DEF Begin, AdmitProviderAction, Goto, Kept, Untouched, At, MemoryInv, RTypeOK, TypeOK, Remembers,
                      KeepHistory, jobVars, openVars
  <2> QED BY <1>3, <2>1, FailureKeeps, GotoKeeps DEF Begin, At, Points, KeepHistory
<1>4. CASE Prepared(j)
  BY <1>4, GotoKeeps DEF Prepared, At, Points, KeepHistory
<1>5. CASE Restart(j)
  BY <1>5 DEF Restart, Kept, Untouched, At, MemoryInv, RTypeOK, TypeOK, Remembers, KeepStore, KeepHistory, vars,
              jobVars, openVars, Idle, Executing
<1>6. CASE Abandon(j)
  BY <1>6 DEF Abandon, Aborted, Quit, Kept, Untouched, At, MemoryInv, RTypeOK, TypeOK, Remembers, KeepStore,
              KeepHistory, vars, jobVars, openVars, Idle, Executing
<1>7. CASE Fail(j)
  BY <1>7 DEF Fail, CompleteWithError, Quit, Kept, Untouched, At, MemoryInv, RTypeOK, TypeOK, Remembers, KeepStore,
              KeepHistory, vars, jobVars, openVars, Idle, Executing
<1>8. CASE Finish(j)
  BY <1>8 DEF Finish, CompleteWithResult, Quit, Kept, Untouched, At, MemoryInv, RTypeOK, TypeOK, Remembers, KeepStore,
              KeepHistory, vars, jobVars, openVars, Idle, Executing
<1>9. CASE Succeed(j)
  <2> USE DEF Kept, Untouched, At, Remembers, openVars
  <2>0. exec \in [Jobs -> Executions] /\ j \in DOMAIN submitted /\ DOMAIN submitted = Jobs
    BY TypeParts DEF MemoryInv, RunTyped, TypeOK
  <2>1. CASE RecordProviderSubmission(j) /\ exec' = [exec EXCEPT ![j] = Advanced([@ EXCEPT !.submitted = TRUE], j)]
    <3>1. exec'[j].pc \in {"finish", "loop", "ready"} /\ exec'[j].submitted /\ exec'[j].canceled = exec[j].canceled
      BY <2>0, <2>1 DEF Advanced, Executions
    <3>2. submitted'[j] /\ UNCHANGED <<phase, ctl, halted, status>> /\ status[j] \in Executing
      BY <1>9, <2>0, <2>1 DEF Succeed, RecordProviderSubmission, KeepHistory
    <3>3. \A i \in Jobs : i # j => Untouched(i)
      BY <2>0, <2>1, <3>2 DEF RecordProviderSubmission
    <3>4. exec[j].pc = "acting"
      BY <1>9 DEF Succeed
    <3> QED BY <2>0, <3>1, <3>2, <3>3, <3>4 DEF MemoryInv, Executing
  <2>2. CASE Goto(j, "failing") /\ KeepStore
    BY <1>9, <2>2, GotoKeeps DEF Succeed, Points, KeepHistory
  <2>3. ASSUME NEW e \in Executions, e.submitted = exec[j].submitted, e.canceled = exec[j].canceled,
               exec' = [exec EXCEPT ![j] = Advanced(e, j)], KeepStore
        PROVE  Kept(j)
    <3>1. exec'[j].pc \in {"finish", "loop", "ready"} /\ exec'[j].submitted = exec[j].submitted
          /\ exec'[j].canceled = exec[j].canceled
      BY <2>0, <2>3 DEF Advanced, Executions
    <3>2. UNCHANGED <<phase, ctl, halted, status, submitted>>
      BY <1>9, <2>3 DEF Succeed, KeepStore, KeepHistory, vars, jobVars
    <3>3. \A i \in Jobs : i # j => Untouched(i)
      BY <2>0, <2>3, <3>2
    <3>4. exec[j].pc = "acting"
      BY <1>9 DEF Succeed
    <3> QED BY <2>0, <3>1, <3>2, <3>3, <3>4 DEF MemoryInv
  <2>4. ASSUME NEW text \in BOOLEAN,
               exec' = [exec EXCEPT ![j] = Advanced([exec[j] EXCEPT !.answered = @ \/ text], j)], KeepStore
        PROVE  Kept(j)
    <3>1. [exec[j] EXCEPT !.answered = @ \/ text] \in Executions
      BY <2>0 DEF Executions
    <3> QED BY <2>0, <2>3, <2>4, <3>1 DEF Executions
  <2>5. CASE exec' = [exec EXCEPT ![j] = Advanced(@, j)] /\ KeepStore
    BY <2>0, <2>3, <2>5
  <2> QED BY <1>9, <2>1, <2>2, <2>4, <2>5 DEF Succeed
<1> QED BY <1>1, <1>2, <1>3, <1>4, <1>5, <1>6, <1>7, <1>8, <1>9 DEF Work

LEMMA WaitKeeps ==
    ASSUME MemoryInv, NEW j \in Jobs,
           \/ Take(j) \/ PollCancel(j) \/ \E b \in Blockers : Blocked(j, b)
           \/ HandoffResolved(j) \/ HandoffEnds(j) \/ PrepareFails(j) \/ Deliver(j) \/ ActFails(j)
    PROVE  Kept(j)
<1>1. CASE Take(j)
  BY <1>1 DEF Take, TakeNextJob, Oldest, Queued, Goto, Kept, Untouched, At, MemoryInv, RTypeOK, TypeOK, Remembers,
              KeepHistory, openVars, Idle, Executing
<1>2. CASE PollCancel(j)
  BY <1>2 DEF PollCancel, Kept, Untouched, At, MemoryInv, RTypeOK, TypeOK, Remembers, KeepStore, KeepHistory, vars,
              jobVars, openVars, Executing
<1>3. ASSUME NEW b \in Blockers, Blocked(j, b) PROVE Kept(j)
  <2>1. CASE MarkWaitingForUser(j) /\ Goto(j, "handoff") /\ KeepHistory
    BY <1>3, <2>1 DEF Blocked, MarkWaitingForUser, Goto, Kept, Untouched, At, MemoryInv, RTypeOK, TypeOK, Remembers,
                      KeepHistory, openVars, Executing
  <2> QED BY <1>3, <2>1, LeaveKeeps, GotoKeeps DEF Blocked, At, Points, KeepHistory
<1>4. CASE HandoffResolved(j)
  BY <1>4 DEF HandoffResolved, MarkRunning, Goto, Kept, Untouched, At, MemoryInv, RTypeOK, TypeOK, Remembers,
              KeepHistory, openVars, Executing
<1>5. CASE HandoffEnds(j) \/ PrepareFails(j)
  BY <1>5, FailureKeeps DEF HandoffEnds, PrepareFails, At
<1>6. CASE Deliver(j)
  BY <1>6 DEF Deliver, Kept, Untouched, At, MemoryInv, RTypeOK, TypeOK, Remembers, KeepStore, vars, jobVars, openVars
<1>7. CASE ActFails(j)
  BY <1>7, FailureKeeps, GotoKeeps DEF ActFails, At, Points, KeepHistory
<1> QED BY <1>1, <1>2, <1>3, <1>4, <1>5, <1>6, <1>7

LEMMA DaemonKeeps ==
    ASSUME MemoryInv, RTypeOK', Open \/ Serve \/ Die \/ Quiesce \/ Settle
    PROVE  MemoryInv'
<1> USE DEF MemoryInv, Remembers, At
<1>1. CASE Open
  BY <1>1 DEF Open, Migrate, RebuildDashboard, runVars, jobVars
<1>2. CASE Serve
  BY <1>2 DEF Serve, FailInterrupted, Executing, Active, RTypeOK, TypeOK
<1>3. CASE Die
  BY <1>3 DEF Die, Crash, jobVars, Idle, Executing
<1>4. CASE Quiesce \/ Settle
  BY <1>4 DEF Quiesce, Settle, KeepStore, vars, jobVars, openVars
<1> QED BY <1>1, <1>2, <1>3, <1>4

LEMMA ClientKeeps ==
    ASSUME MemoryInv, RTypeOK', NEW j \in Jobs, Cancel(j) \/ \E r \in NewRequests : Submit(j, r)
    PROVE  MemoryInv'
<1> USE DEF MemoryInv, Remembers, At, RTypeOK, TypeOK
<1>1. CASE Cancel(j)
  BY <1>1 DEF Cancel, CancelJob, CancelTurnJob, runVars, openVars, Executing
<1>2. ASSUME NEW r \in NewRequests, Submit(j, r) PROVE MemoryInv'
  BY <1>2 DEF Submit, CreateJob, openVars, Executing
<1> QED BY <1>1, <1>2

LEMMA StepRemembers == MemoryInv /\ [RNext]_allVars => MemoryInv'
<1> SUFFICES ASSUME MemoryInv, [RNext]_allVars PROVE MemoryInv'
  OBVIOUS
<1>1. RTypeOK'
  BY StepTyped
<1>2. CASE UNCHANGED allVars
  BY <1>1, <1>2 DEF allVars, runVars, vars, jobVars, openVars, MemoryInv, Remembers, At
<1> QED BY <1>1, <1>2, DaemonKeeps, ClientKeeps, WorkKeeps, WaitKeeps, KeptIsEnough DEF RNext

(***************************************************************************)
(* While nobody quiesces the runtime, unfinished jobs have an execution,   *)
(* and it knows whether the prompt is on record as sent: for any number of *)
(* jobs, providers and fallbacks.                                          *)
(***************************************************************************)
THEOREM RunnerRemembers == RSpec => []MemoryAgrees
<1>1. MemoryInv => MemoryAgrees
  BY DEF MemoryInv, Remembers, MemoryAgrees, At
<1> QED BY <1>1, InitRemembers, StepRemembers, PTL DEF RSpec

(***************************************************************************)
(* The runner takes only steps of the store: what it writes into a         *)
(* fallback is what the store's specification lets a caller write.  The    *)
(* theorems of the store hold of it under the runner.                      *)
(***************************************************************************)
THEOREM RunnerImplementsStore == RSpec => StoreSpec
<1>1. RInit => Init
  BY DEF RInit
<1>2. MemoryInv /\ [RNext]_allVars => [Next]_vars
  BY StepRefines
<1> QED BY <1>1, <1>2, InitRemembers, StepRemembers, PTL DEF RSpec, StoreSpec, Spec

(***************************************************************************)
(* What was proved of the store therefore holds while the runner drives    *)
(* it: the ledger its clients see, the route of each job, when a recorded  *)
(* submission may go, what has ended, and the sums of the dashboard.       *)
(***************************************************************************)
THEOREM StoreUnderRunner ==
    RSpec => /\ ImplementsLedger
             /\ RouteKept
             /\ SubmissionClearedOnlyOnRefusal
             /\ SettledIsFinal
             /\ []DashboardMatchesJobs
BY RunnerImplementsStore, StoreImplementsLedger, RouteFollowed, ClearedOnlyOnRefusal, Settled, DashboardExact
   DEF StoreSpec

-----------------------------------------------------------------------------
(* What was delivered.                                                     *)

(***************************************************************************)
(* A script sends one prompt and reads only after it.  The builders of     *)
(* requests produce such scripts, and a direct job is refused without this *)
(* form; a browser request with a second prompt.submit is not refused, and *)
(* the theorems that assume OnePrompt say nothing of it.                   *)
(***************************************************************************)
OnePrompt ==
    \A s \in Scripts :
        /\ \A a, b \in DOMAIN s : s[a] = "submit" /\ s[b] = "submit" => a = b
        /\ \A a \in DOMAIN s : s[a] = "read" => \E b \in 1 .. a - 1 : s[b] = "submit"

\* The prompt of the script lies behind the cursor.
Prompted(j) == \E i \in 1 .. exec[j].cursor - 1 : script[j][i] = "submit"

\* The providers still planned differ from each other and from the current one, and got nothing yet.
Routed(j) ==
    /\ Injective(request[j].plan)
    /\ \A i \in DOMAIN request[j].plan :
          request[j].plan[i] # Here(j) /\ delivered[j][request[j].plan[i]] = 0

\* Where an execution stands in its script, and what its provider got of it.
Placed(j) ==
    /\ exec[j].cursor \in 1 .. Len(script[j]) + 1
    /\ exec[j].cursor > Len(script[j]) => At(j, {"finish"})
    /\ At(j, {"finish"}) => exec[j].cursor > Len(script[j])
    /\ exec[j].landed => At(j, {"acting", "failing", "fell"})
    /\ exec[j].landed /\ At(j, {"acting"}) => Kind(j) = "submit"
    /\ At(j, {"fell"}) => delivered[j][Here(j)] = 0 /\ ~exec[j].answered
    /\ ~At(j, {"none", "fell"}) =>
          /\ delivered[j][Here(j)] = 1 <=> exec[j].landed \/ Prompted(j)
          /\ Prompted(j) \/ exec[j].answered => exec[j].submitted

Counted(j) ==
    /\ \A v \in Providers : delivered[j][v] \in {0, 1}
    /\ status[j] \in {"absent", "queued"} => \A v \in Providers : delivered[j][v] = 0
    /\ Browser(j) => /\ \A v \in Providers : delivered[j][v] <= admissions[j][v]
                     /\ At(j, {"acting"}) /\ Kind(j) = "submit" => admissions[j][Here(j)] >= 1
    /\ \A v \in Providers : delivered[j][v] = 1 /\ Here(j) # v => Refused(j, v) \/ v \in doubted[j]
    /\ status[j] = "succeeded" =>
          /\ At(j, {"none"})
          /\ (\E i \in DOMAIN script[j] : script[j][i] = "submit") => submitted[j] /\ delivered[j][Here(j)] = 1

Deliveries(j) == Routed(j) /\ Placed(j) /\ Counted(j)
DeliveryInv == MemoryInv /\ \A j \in Jobs : Deliveries(j)

\* What Deliveries says of a job that no step touched.
Same(i) ==
    /\ exec'[i] = exec[i] /\ status'[i] = status[i] /\ submitted'[i] = submitted[i]
    /\ request'[i] = request[i] /\ delivered'[i] = delivered[i] /\ doubted'[i] = doubted[i]
    /\ admissions'[i] = admissions[i] /\ script'[i] = script[i]

LEMMA SameDeliveries ==
    ASSUME NEW i \in Jobs, Same(i), Deliveries(i)
    PROVE  Deliveries(i)'
<1>1. Routed(i)'
  BY DEF Same, Deliveries, Routed, Here
<1>2. Placed(i)'
  BY DEF Same, Deliveries, Placed, Here, At, Kind, Prompted
<1>3. Counted(i)'
  BY DEF Same, Deliveries, Counted, Here, At, Kind, Browser, Refused
<1> QED BY <1>1, <1>2, <1>3 DEF Deliveries

\* The types the deliveries of a job need.
LEMMA JobTypes ==
    ASSUME MemoryInv, NEW j \in Jobs
    PROVE  /\ exec \in [Jobs -> Executions] /\ exec[j] \in Executions
           /\ status \in [Jobs -> Statuses] /\ submitted \in [Jobs -> BOOLEAN]
           /\ request \in [Jobs -> Requests] /\ request[j] \in Requests /\ Here(j) \in Providers
           /\ admissions \in [Jobs -> [Providers -> Nat]] /\ delivered \in [Jobs -> [Providers -> Nat]]
           /\ doubted \in [Jobs -> SUBSET Providers]
           /\ script[j] \in Seq({"edit", "workspace", "submit", "read"}) /\ Len(script[j]) \in Nat \ {0}
<1>1. TypeOK /\ RunTyped
  BY TypeParts DEF MemoryInv
<1>2. script[j] \in Scripts
  BY <1>1 DEF RunTyped
<1>3. script[j] \in Seq({"edit", "workspace", "submit", "read"}) /\ script[j] # <<>>
  BY <1>2
<1>4. Len(script[j]) \in Nat \ {0}
  BY <1>3
<1>5. request[j] \in Requests /\ Here(j) \in Providers
  BY <1>1 DEF TypeOK, Requests, Here
<1> QED BY <1>1, <1>3, <1>4, <1>5 DEF TypeOK, RunTyped

\* An execution that runs has a job that was taken and has not succeeded.
LEMMA LiveStatus ==
    ASSUME DeliveryInv, NEW j \in Jobs, ~At(j, {"none"})
    PROVE  status[j] \notin {"absent", "queued", "succeeded"}
BY DEF DeliveryInv, MemoryInv, Remembers, Deliveries, Counted, At

\* A step that moves j's execution on without reaching its provider.
LEMMA MoveDelivers ==
    ASSUME DeliveryInv, NEW j \in Jobs, NEW p \in {"open", "loop", "ready", "handoff", "acting", "failing"},
           Goto(j, p), ~At(j, {"none", "fell", "finish"}),
           p # "failing" => ~At(j, {"acting", "failing"}),
           status'[j] \notin {"absent", "queued", "succeeded"},
           UNCHANGED <<script, request, delivered, doubted>>,
           admissions'[j] \in [Providers -> Nat], \A v \in Providers : admissions'[j][v] >= admissions[j][v],
           p = "acting" /\ Browser(j) /\ Kind(j) = "submit" => admissions'[j][Here(j)] >= 1
    PROVE  Deliveries(j)'
<1>1. exec'[j] = [exec[j] EXCEPT !.pc = p] /\ exec[j] \in Executions
  BY JobTypes DEF DeliveryInv, Goto
<1>2. /\ exec'[j].pc = p /\ exec'[j].cursor = exec[j].cursor /\ exec'[j].landed = exec[j].landed
      /\ exec'[j].answered = exec[j].answered /\ exec'[j].submitted = exec[j].submitted
  BY <1>1 DEF Executions
<1>3. Routed(j)'
  BY DEF DeliveryInv, Deliveries, Routed, Here
<1>4. Placed(j)'
  BY <1>2 DEF DeliveryInv, Deliveries, Placed, Here, At, Kind, Prompted
<1>5. Counted(j)'
  <2>1. Browser(j) => \A v \in Providers : delivered[j][v] <= admissions'[j][v]
    BY JobTypes DEF DeliveryInv, Deliveries, Counted
  <2> QED BY <1>2, <2>1 DEF DeliveryInv, Deliveries, Counted, Here, At, Kind, Browser, Refused
<1> QED BY <1>3, <1>4, <1>5 DEF Deliveries

\* The same, when the store is left alone.
LEMMA StayDelivers ==
    ASSUME DeliveryInv, NEW j \in Jobs, NEW p \in {"open", "loop", "ready", "handoff", "acting", "failing"},
           Goto(j, p), ~At(j, {"none", "fell", "finish"}), KeepStore, KeepHistory,
           p # "failing" => ~At(j, {"acting", "failing"}),
           p = "acting" => (Browser(j) => Kind(j) # "submit")
    PROVE  Deliveries(j)'
<1>1. status'[j] \notin {"absent", "queued", "succeeded"}
  BY LiveStatus DEF KeepStore, vars, jobVars, At
<1>2. admissions'[j] \in [Providers -> Nat] /\ \A v \in Providers : admissions'[j][v] >= admissions[j][v]
  BY JobTypes DEF DeliveryInv, KeepStore, vars
<1> QED BY <1>1, <1>2, MoveDelivers DEF KeepStore, vars, jobVars, KeepHistory

\* The end of an execution.
LEMMA QuitDelivers ==
    ASSUME DeliveryInv, NEW j \in Jobs, Quit(j), UNCHANGED <<script, request, delivered, doubted, admissions>>,
           status'[j] \notin {"absent", "queued"},
           status'[j] = "succeeded" => submitted'[j] = submitted[j] /\
               (\/ status[j] = "succeeded"
                \/ (\E i \in DOMAIN script[j] : script[j][i] = "submit") => submitted[j] /\ delivered[j][Here(j)] = 1)
    PROVE  Deliveries(j)'
<1>1. exec'[j] = Idle
  BY JobTypes DEF DeliveryInv, Quit
<1>2. Routed(j)'
  BY DEF DeliveryInv, Deliveries, Routed, Here
<1>3. Placed(j)'
  BY <1>1, JobTypes DEF DeliveryInv, Placed, Idle, At
<1>4. Counted(j)'
  BY <1>1 DEF DeliveryInv, Deliveries, Counted, Here, At, Browser, Refused, Idle
<1> QED BY <1>2, <1>3, <1>4 DEF Deliveries

\* Leaving a provider: it got nothing, or it refused, or the submission is in doubt; the next one is fresh.
LEMMA LeaveDelivers ==
    ASSUME DeliveryInv, NEW j \in Jobs, NEW f \in Failures, NEW s \in BOOLEAN, Leave(j, f, s),
           ~At(j, {"none", "fell", "finish"}), exec[j].landed => f \in ActionFailures("submit")
    PROVE  Deliveries(j)'
<1> DEFINE r == request[j]
<1> DEFINE t == request'[j]
<1>1. MemoryInv /\ Routed(j) /\ Placed(j) /\ Counted(j) /\ Remembers(j)
  BY DEF DeliveryInv, Deliveries, MemoryInv
<1>2. /\ r \in Requests /\ r.plan # <<>> /\ t = NextFor(j, f) /\ status[j] \in Executing
      /\ status'[j] = "running" /\ exec'[j] = [exec[j] EXCEPT !.pc = "fell"]
      /\ UNCHANGED <<admissions, delivered, script>>
      /\ doubted'[j] = IF f = "uncertain_submit" THEN doubted[j] \union {Here(j)} ELSE doubted[j]
  BY <1>1, JobTypes DEF Leave, MayLeave, MayFallBack, FallbackJob, MayRestart, Goto
<1> DEFINE attempt == [provider |-> r.provider, reason |-> FailureReason(f), submitted |-> exec[j].submitted]
<1>3. /\ t.provider = r.plan[1] /\ t.plan = Tail(r.plan) /\ t.trail = Append(r.trail, attempt) /\ t.mode = r.mode
      /\ r.plan \in Seq(Providers) /\ r.trail \in Seq(Attempts)
  BY <1>2 DEF NextFor, NextRequest, Requests
<1> HIDE DEF t, r, attempt
<1>0. ~At(j, {"none", "fell"})
  BY DEF At
<1>4. /\ Len(t.plan) = Len(r.plan) - 1 /\ Len(r.plan) \in Nat \ {0} /\ 1 \in DOMAIN r.plan
      /\ \A i \in DOMAIN t.plan : i \in Nat /\ i + 1 \in DOMAIN r.plan /\ i + 1 # 1 /\ t.plan[i] = r.plan[i + 1]
  BY <1>2, <1>3
<1>5. /\ exec'[j].pc = "fell" /\ exec'[j].cursor = exec[j].cursor /\ exec'[j].landed = exec[j].landed
      /\ exec'[j].answered = exec[j].answered
  BY <1>1, <1>2, JobTypes DEF Executions
<1>6. Routed(j)'
  <2>1. \A i \in DOMAIN t.plan : t.plan[i] # t.provider /\ delivered[j][t.plan[i]] = 0
    BY <1>1, <1>3, <1>4 DEF Routed, Injective, r
  <2>2. \A a, b \in DOMAIN t.plan : t.plan[a] = t.plan[b] => a = b
    <3> SUFFICES ASSUME NEW a \in DOMAIN t.plan, NEW b \in DOMAIN t.plan, t.plan[a] = t.plan[b] PROVE a = b
      OBVIOUS
    <3>1. a + 1 = b + 1
      BY <1>1, <1>4 DEF Routed, Injective, r
    <3> QED BY <1>4, <3>1
  <2> QED BY <1>2, <2>1, <2>2 DEF Routed, Injective, Here, t
\* The proof of a refusal needs a prompt on record; without one there is neither prompt nor answer.
<1>7. ~exec[j].answered
  BY <1>0, <1>1, <1>2 DEF Leave, MayLeave, MayFallBack, RejectionProof, Placed
<1>8. Placed(j)'
  <2>1. delivered[j][t.provider] = 0
    BY <1>1, <1>3, <1>4 DEF Routed, r
  <2> QED BY <1>1, <1>2, <1>5, <1>7, <2>1 DEF Placed, Here, At, Kind, t
<1>9. \A v \in Providers : Refused(j, v) => Refused(j, v)'
  <2> SUFFICES ASSUME NEW v \in Providers, NEW i \in DOMAIN r.trail, r.trail[i] \in RefusedAttempt(v)
               PROVE  Refused(j, v)'
    BY DEF Refused, r
  <2>1. i \in DOMAIN t.trail /\ t.trail[i] = r.trail[i]
    BY <1>3
  <2> QED BY <2>1 DEF Refused, RefusedAttempt, t
<1>10. ASSUME NEW v \in Providers, v = Here(j), delivered[j][v] = 1
       PROVE  Refused(j, v)' \/ v \in doubted'[j]
  <2> SUFFICES ASSUME f # "uncertain_submit" PROVE Refused(j, v)'
    BY <1>1, <1>2, <1>10, JobTypes
  <2>1. exec[j].landed \/ exec[j].submitted
    BY <1>0, <1>1, <1>10 DEF Placed
  <2>2. exec[j].submitted
    <3> SUFFICES ASSUME ~exec[j].submitted PROVE FALSE
      OBVIOUS
    <3>1. f \in {"input_too_long", "ambiguous"}
      BY <2>1 DEF ActionFailures
    <3>2. Eligible(f, exec[j].submitted, s)
      BY DEF Leave, MayLeave, MayFallBack, RejectionProof
    <3> QED BY <3>1, <3>2 DEF Eligible, Blockers, UserBlockers, TerminalBlockers
  <2>3. submitted[j]
    BY <1>0, <1>1, <1>2, <2>2 DEF Remembers
  <2>4. AcceptedAfterSubmission(r, outcome[j].result, t, ProofFor(j, f))
    BY <1>2, <2>3 DEF Leave, FallbackJob, MayRestart, r
  <2>5. t.trail[Len(t.trail)] = [provider |-> r.provider, reason |-> ProofFor(j, f).reason, submitted |-> TRUE]
        /\ ProofFor(j, f).reason \in {"rate_limit", "capacity"}
    <3>1. ProofFor(j, f) # NoProof
      BY <2>4 DEF AcceptedAfterSubmission
    <3>2. f \in {"rate_limit", "credits", "input_too_long"} /\ ProofFor(j, f).reason = FailureReason(f)
      BY <3>1 DEF ProofFor, RejectionProof
    <3>3. FailureReason(f) \in {"rate_limit", "capacity"}
      BY <3>2 DEF FailureReason
    <3> QED BY <2>4, <3>2, <3>3 DEF AcceptedAfterSubmission
  <2>6. Len(t.trail) \in DOMAIN t.trail
    BY <1>3
  <2> QED BY <1>10, <2>5, <2>6 DEF Refused, RefusedAttempt, Here, t, r
<1>11. Counted(j)'
  <2>1. \A v \in Providers : delivered[j][v] = 1 => Refused(j, v)' \/ v \in doubted'[j]
    BY <1>1, <1>2, <1>9, <1>10 DEF Counted
  <2> QED BY <1>1, <1>2, <1>3, <1>5, <2>1 DEF Counted, Browser, At, Here, t, r
<1> QED BY <1>6, <1>8, <1>11 DEF Deliveries

LEMMA FailureDelivers ==
    ASSUME DeliveryInv, NEW j \in Jobs, NEW f \in Failures, NEW s \in BOOLEAN, FailOrFallback(j, f, s),
           ~At(j, {"none", "fell", "finish"}), exec[j].landed => f \in ActionFailures("submit")
    PROVE  Deliveries(j)'
BY LeaveDelivers, StayDelivers DEF FailOrFallback, At

\* Until an execution acts, its page has accepted nothing for the action at hand.
LEMMA NothingLanded ==
    ASSUME DeliveryInv, NEW j \in Jobs, ~At(j, {"acting", "failing", "fell"})
    PROVE  ~exec[j].landed
BY DEF DeliveryInv, Deliveries, Placed

LEMMA TakeDelivers ==
    ASSUME DeliveryInv, NEW j \in Jobs, Take(j)
    PROVE  Deliveries(j)'
<1>1. Deliveries(j) /\ Remembers(j) /\ exec[j] \in Executions
  BY JobTypes DEF DeliveryInv, MemoryInv
<1>2. /\ status[j] = "queued" /\ status'[j] = "running" /\ exec'[j] = [exec[j] EXCEPT !.pc = "start"]
      /\ UNCHANGED <<request, delivered, doubted, admissions, script>>
  BY JobTypes DEF Take, TakeNextJob, Oldest, Queued, Goto, KeepHistory, DeliveryInv
<1>3. exec[j] = Idle
  BY <1>1, <1>2 DEF Remembers
<1>4. exec'[j].pc = "start" /\ exec'[j].cursor = 1 /\ ~exec'[j].landed /\ ~exec'[j].answered
  BY <1>2, <1>3 DEF Idle
<1>5. Routed(j)'
  BY <1>1, <1>2 DEF Deliveries, Routed, Here
<1>6. delivered[j][Here(j)] = 0
  BY <1>1, <1>2, JobTypes DEF Deliveries, Counted, DeliveryInv
<1>7. Placed(j)'
  BY <1>2, <1>4, <1>6, JobTypes DEF Placed, At, Prompted, Here, DeliveryInv
<1>8. Counted(j)'
  BY <1>1, <1>2, <1>4 DEF Deliveries, Counted, At, Here, Browser, Refused
<1> QED BY <1>5, <1>7, <1>8 DEF Deliveries

LEMMA RestartDelivers ==
    ASSUME DeliveryInv, NEW j \in Jobs, Restart(j)
    PROVE  Deliveries(j)'
<1>1. Deliveries(j) /\ exec[j] \in Executions
  BY JobTypes DEF DeliveryInv
<1>2. /\ exec'[j] = [Idle EXCEPT !.pc = "start"] /\ exec[j].pc = "fell"
      /\ UNCHANGED <<request, delivered, doubted, admissions, script, status, submitted>>
  BY JobTypes DEF Restart, At, KeepStore, KeepHistory, vars, jobVars, DeliveryInv
<1>3. exec'[j].pc = "start" /\ exec'[j].cursor = 1 /\ ~exec'[j].landed /\ ~exec'[j].answered
  BY <1>2 DEF Idle
<1>4. Routed(j)'
  BY <1>1, <1>2 DEF Deliveries, Routed, Here
<1>5. delivered[j][Here(j)] = 0
  BY <1>1, <1>2 DEF Deliveries, Placed, At
<1>6. Placed(j)'
  BY <1>2, <1>3, <1>5, JobTypes DEF Placed, At, Prompted, Here, DeliveryInv
<1>7. Counted(j)'
  BY <1>1, <1>2, <1>3 DEF Deliveries, Counted, At, Here, Browser, Refused
<1> QED BY <1>4, <1>6, <1>7 DEF Deliveries

LEMMA PollCancelDelivers ==
    ASSUME DeliveryInv, NEW j \in Jobs, PollCancel(j)
    PROVE  Deliveries(j)'
<1>1. Deliveries(j) /\ exec[j] \in Executions
  BY JobTypes DEF DeliveryInv
<1>2. /\ exec'[j] = [exec[j] EXCEPT !.canceled = TRUE]
      /\ UNCHANGED <<request, delivered, doubted, admissions, script, status, submitted>>
  BY JobTypes DEF PollCancel, KeepStore, KeepHistory, vars, jobVars, DeliveryInv
<1>3. /\ exec'[j].pc = exec[j].pc /\ exec'[j].cursor = exec[j].cursor /\ exec'[j].landed = exec[j].landed
      /\ exec'[j].answered = exec[j].answered /\ exec'[j].submitted = exec[j].submitted
  BY <1>1, <1>2 DEF Executions
<1>4. Routed(j)'
  BY <1>1, <1>2 DEF Deliveries, Routed, Here
<1>5. Placed(j)'
  BY <1>1, <1>2, <1>3 DEF Deliveries, Placed, At, Prompted, Here, Kind
<1>6. Counted(j)'
  BY <1>1, <1>2, <1>3 DEF Deliveries, Counted, At, Here, Browser, Refused, Kind
<1> QED BY <1>4, <1>5, <1>6 DEF Deliveries

\* The page accepts the only prompt of the script, for a provider that has got none of it.
LEMMA DeliverDelivers ==
    ASSUME DeliveryInv, OnePrompt, NEW j \in Jobs, Deliver(j)
    PROVE  Deliveries(j)'
<1>1. Routed(j) /\ Placed(j) /\ Counted(j) /\ exec[j] \in Executions /\ Here(j) \in Providers
  BY JobTypes DEF DeliveryInv, Deliveries
<1>2. /\ exec'[j] = [exec[j] EXCEPT !.landed = TRUE] /\ exec[j].pc = "acting" /\ Kind(j) = "submit" /\ ~exec[j].landed
      /\ delivered'[j] = [delivered[j] EXCEPT ![Here(j)] = @ + 1] /\ delivered[j] \in [Providers -> Nat]
      /\ UNCHANGED <<request, doubted, admissions, script, status, submitted>>
  BY JobTypes DEF Deliver, At, KeepStore, vars, jobVars, DeliveryInv
<1>3. /\ exec'[j].pc = "acting" /\ exec'[j].cursor = exec[j].cursor /\ exec'[j].landed
      /\ exec'[j].answered = exec[j].answered /\ exec'[j].submitted = exec[j].submitted
  BY <1>1, <1>2 DEF Executions
<1>4. ~Prompted(j)
  <2>0. Len(script[j]) \in Nat \ {0} /\ exec[j].cursor <= Len(script[j])
    <3>1. Len(script[j]) \in Nat \ {0}
      BY JobTypes DEF DeliveryInv
    <3> QED BY <1>1, <1>2, <3>1 DEF Placed, At
  <2>1. exec[j].cursor \in DOMAIN script[j] /\ script[j] \in Scripts
    <3>1. script[j] \in Scripts
      BY TypeParts DEF DeliveryInv, MemoryInv, RunTyped
    <3>2. exec[j].cursor \in 1 .. Len(script[j])
      BY <1>1, <2>0 DEF Placed
    <3>3. script[j] \in Seq({"edit", "workspace", "submit", "read"})
      BY JobTypes DEF DeliveryInv
    <3> QED BY <3>1, <3>2, <3>3
  <2>2. \A i \in 1 .. exec[j].cursor - 1 : i \in DOMAIN script[j] /\ i # exec[j].cursor
    BY <2>1, JobTypes DEF DeliveryInv
  <2> QED BY <1>2, <2>1, <2>2 DEF OnePrompt, Prompted, Kind
<1>5. delivered[j][Here(j)] = 0
  BY <1>1, <1>2, <1>4 DEF Placed, Counted, At
<1>6. delivered'[j][Here(j)] = 1 /\ \A v \in Providers : v # Here(j) => delivered'[j][v] = delivered[j][v]
  BY <1>1, <1>2, <1>5
<1>7. Routed(j)'
  <2>1. \A i \in DOMAIN request[j].plan : request[j].plan[i] \in Providers
    BY JobTypes DEF DeliveryInv, Requests
  <2> QED BY <1>1, <1>2, <1>6, <2>1 DEF Routed, Here
<1>8. Placed(j)'
  BY <1>1, <1>2, <1>3, <1>6 DEF Placed, At, Prompted, Here, Kind
<1>9. Counted(j)'
  <2>1. status[j] \notin {"absent", "queued", "succeeded"}
    BY <1>2, LiveStatus DEF At
  <2>2. \A v \in Providers : delivered'[j][v] \in {0, 1}
    BY <1>1, <1>6 DEF Counted
  <2>3. Browser(j) => \A v \in Providers : delivered'[j][v] <= admissions[j][v]
    BY <1>1, <1>2, <1>6 DEF Counted, At
  <2> QED BY <1>1, <1>2, <1>3, <1>6, <2>1, <2>2, <2>3 DEF Counted, At, Here, Browser, Refused, Kind
<1> QED BY <1>7, <1>8, <1>9 DEF Deliveries

\* An action that succeeded moves the cursor over it: a submission over the prompt that landed, a
\* reading over an answer to it.
LEMMA AdvanceDelivers ==
    ASSUME DeliveryInv, NEW j \in Jobs, NEW e \in Executions, exec' = [exec EXCEPT ![j] = Advanced(e, j)],
           exec[j].pc = "acting", e.cursor = exec[j].cursor, e.pc = "acting",
           UNCHANGED <<request, delivered, doubted, admissions, script, status>>,
           Kind(j) = "submit" => exec[j].landed /\ e.submitted, exec[j].submitted => e.submitted,
           e.answered => e.submitted
    PROVE  Deliveries(j)'
<1>1. Routed(j) /\ Placed(j) /\ Counted(j) /\ exec[j] \in Executions
  BY JobTypes DEF DeliveryInv, Deliveries
<1>2. /\ exec'[j].pc = IF e.cursor = Len(script[j]) THEN "finish" ELSE IF Browser(j) THEN "loop" ELSE "ready"
      /\ exec'[j].cursor = exec[j].cursor + 1 /\ ~exec'[j].landed /\ exec'[j].answered = e.answered
      /\ exec'[j].submitted = e.submitted
  BY JobTypes DEF Advanced, Executions, DeliveryInv
<1>3. exec[j].cursor \in 1 .. Len(script[j]) /\ Len(script[j]) \in Nat
  BY <1>1, JobTypes DEF Placed, At, DeliveryInv
<1>4. Prompted(j)' <=> Prompted(j) \/ Kind(j) = "submit"
  BY <1>2, <1>3 DEF Prompted, Kind
<1>5. Routed(j)'
  BY <1>1 DEF Routed, Here
<1>6. Placed(j)'
  <2>1. delivered[j][Here(j)] = 1 <=> Prompted(j)'
    BY <1>1, <1>4 DEF Placed, At
  <2>2. Prompted(j)' \/ e.answered => e.submitted
    BY <1>1, <1>4 DEF Placed, At
  <2> QED BY <1>2, <1>3, <2>1, <2>2 DEF Placed, At, Here
<1>7. Counted(j)'
  <2>1. status[j] \notin {"absent", "queued", "succeeded"}
    BY LiveStatus DEF At
  <2>2. exec'[j].pc \in {"finish", "loop", "ready"}
    BY <1>2
  <2> QED BY <1>1, <2>1, <2>2 DEF Counted, At, Here, Browser, Refused
<1> QED BY <1>5, <1>6, <1>7 DEF Deliveries

LEMMA SucceedDelivers ==
    ASSUME DeliveryInv, OnePrompt, NEW j \in Jobs, Succeed(j)
    PROVE  Deliveries(j)'
<1>1. Routed(j) /\ Placed(j) /\ Counted(j) /\ exec[j] \in Executions
  BY JobTypes DEF DeliveryInv, Deliveries
<1>2. exec[j].pc = "acting" /\ UNCHANGED <<delivered, doubted, script>> /\ KeepHistory
  BY DEF Succeed, At, KeepHistory
<1>3. CASE /\ Kind(j) = "submit" /\ exec[j].landed /\ RecordProviderSubmission(j)
           /\ exec' = [exec EXCEPT ![j] = Advanced([@ EXCEPT !.submitted = TRUE], j)]
  <2> DEFINE e == [exec[j] EXCEPT !.submitted = TRUE]
  <2>1. e \in Executions /\ e.cursor = exec[j].cursor /\ e.pc = "acting" /\ e.submitted
    BY <1>1, <1>2 DEF Executions
  <2>2. UNCHANGED <<request, admissions, status>>
    BY <1>3 DEF RecordProviderSubmission
  <2>3. exec' = [exec EXCEPT ![j] = Advanced(e, j)]
    BY <1>3
  <2> HIDE DEF e
  <2> QED BY <1>2, <1>3, <2>1, <2>2, <2>3, AdvanceDelivers
<1>4. CASE Goto(j, "failing") /\ KeepStore
  BY <1>2, <1>4, StayDelivers DEF At
<1>5. ASSUME NEW text \in BOOLEAN, Kind(j) = "read", KeepStore,
             exec' = [exec EXCEPT ![j] = Advanced([exec[j] EXCEPT !.answered = @ \/ text], j)]
      PROVE  Deliveries(j)'
  <2>1. UNCHANGED <<request, admissions, status>>
    BY <1>5 DEF KeepStore, vars, jobVars
\* The prompt was sent before its answer is read.
  <2>2. exec[j].submitted
    <3>1. exec[j].cursor \in DOMAIN script[j] /\ script[j] \in Scripts
      BY <1>1, <1>2, JobTypes, TypeParts DEF Placed, At, DeliveryInv, MemoryInv, RunTyped
    <3>2. Prompted(j)
      BY <1>5, <3>1 DEF OnePrompt, Prompted, Kind
    <3> QED BY <1>1, <1>2, <3>2 DEF Placed, At
  <2>3. ASSUME NEW e \in Executions, e.cursor = exec[j].cursor, e.pc = exec[j].pc,
               e.submitted = exec[j].submitted, exec' = [exec EXCEPT ![j] = Advanced(e, j)]
        PROVE  Deliveries(j)'
    BY <1>2, <1>5, <2>1, <2>2, <2>3, AdvanceDelivers
  <2>4. [exec[j] EXCEPT !.answered = @ \/ text] \in Executions
    BY <1>1 DEF Executions
  <2> QED BY <1>1, <1>5, <2>3, <2>4 DEF Executions
<1>6. CASE /\ Kind(j) \in {"edit", "workspace"} /\ KeepStore
           /\ exec' = [exec EXCEPT ![j] = Advanced(@, j)]
  <2>1. UNCHANGED <<request, admissions, status>>
    BY <1>6 DEF KeepStore, vars, jobVars
  <2>2. exec[j].answered => exec[j].submitted
    BY <1>1, <1>2 DEF Placed, At
  <2> QED BY <1>1, <1>2, <1>6, <2>1, <2>2, AdvanceDelivers
<1> QED BY <1>3, <1>4, <1>5, <1>6 DEF Succeed

\* A job that succeeds has passed its whole script.
LEMMA EndDelivers ==
    ASSUME DeliveryInv, NEW j \in Jobs, Abandon(j) \/ Fail(j) \/ Finish(j)
    PROVE  Deliveries(j)'
<1>1. Routed(j) /\ Placed(j) /\ Counted(j) /\ Remembers(j) /\ exec[j] \in Executions /\ status \in [Jobs -> Statuses]
  BY JobTypes DEF DeliveryInv, Deliveries, MemoryInv
<1>2. ~At(j, {"none"}) /\ Quit(j) /\ UNCHANGED <<script, delivered, doubted>>
  BY DEF Abandon, Fail, Finish, KeepHistory, At
<1>3. UNCHANGED <<request, admissions, submitted>>
  BY DEF Abandon, Fail, Finish, KeepStore, CompleteWithResult, CompleteWithError, vars, jobVars
<1>4. status[j] \notin {"absent", "queued", "succeeded"}
  BY <1>2, LiveStatus
<1>5. CASE status'[j] = status[j] \/ status'[j] = "failed"
  BY <1>2, <1>3, <1>4, <1>5, QuitDelivers
<1>6. CASE Finish(j) /\ status[j] \in Executing /\ status'[j] = "succeeded"
  <2>1. exec[j].pc = "finish" /\ exec[j].cursor = Len(script[j]) + 1
    BY <1>1, <1>6, JobTypes DEF Finish, At, Placed, DeliveryInv
  <2>2. (\E i \in DOMAIN script[j] : script[j][i] = "submit") => Prompted(j)
    BY <2>1, JobTypes DEF Prompted, DeliveryInv
  <2>3. Prompted(j) => submitted[j] /\ delivered[j][Here(j)] = 1
    BY <1>1, <1>6, <2>1 DEF Placed, At, Remembers
  <2> QED BY <1>2, <1>3, <1>6, <2>2, <2>3, QuitDelivers
<1> QED
  BY <1>1, <1>5, <1>6 DEF Abandon, Fail, Finish, KeepStore, CompleteWithResult, CompleteWithError, vars, jobVars

LEMMA BeginDelivers ==
    ASSUME DeliveryInv, NEW j \in Jobs, Begin(j)
    PROVE  Deliveries(j)'
<1>1. exec[j].pc = "ready" /\ ~exec[j].landed
  BY NothingLanded DEF Begin, At
<1>2. CASE AdmitProviderAction(j) /\ Goto(j, "acting") /\ KeepHistory
  <2>1. /\ UNCHANGED <<script, request, delivered, doubted>> /\ status'[j] = "running"
        /\ admissions' = [admissions EXCEPT ![j][Here(j)] = @ + 1]
    BY <1>2 DEF AdmitProviderAction, KeepHistory, jobVars, Here
  <2>2. admissions \in [Jobs -> [Providers -> Nat]] /\ Here(j) \in Providers
    BY JobTypes DEF DeliveryInv
  <2>3. /\ admissions'[j] \in [Providers -> Nat] /\ \A v \in Providers : admissions'[j][v] >= admissions[j][v]
        /\ admissions'[j][Here(j)] >= 1
    BY <2>1, <2>2
  <2> QED BY <1>1, <1>2, <2>1, <2>3, MoveDelivers DEF At
<1>3. ASSUME NEW f \in {"capacity"}, FailOrFallback(j, f, TRUE) PROVE Deliveries(j)'
  BY <1>1, <1>3, FailureDelivers DEF At, Failures, Errors
<1>4. CASE Goto(j, "failing") /\ KeepStore /\ KeepHistory
  BY <1>1, <1>4, StayDelivers DEF At
<1>5. CASE Goto(j, "acting") /\ KeepStore /\ KeepHistory /\ (Browser(j) => Kind(j) # "submit")
  BY <1>1, <1>5, StayDelivers DEF At
<1> QED BY <1>2, <1>3, <1>4, <1>5 DEF Begin

LEMMA WorkDelivers ==
    ASSUME DeliveryInv, OnePrompt, NEW j \in Jobs, Work(j)
    PROVE  Deliveries(j)'
<1>1. CASE Project(j)
  <2>1. exec[j].pc = "start" /\ ~exec[j].landed
    BY <1>1, NothingLanded DEF Project, At
  <2> QED BY <1>1, <2>1, FailureDelivers, StayDelivers DEF Project, At, Failures, Errors
<1>2. CASE OpenPage(j)
  <2>1. exec[j].pc = "open" /\ ~exec[j].landed
    BY <1>2, NothingLanded DEF OpenPage, At
  <2> QED BY <1>2, <2>1, FailureDelivers, StayDelivers DEF OpenPage, At, Failures, Errors
<1>3. CASE Prepared(j)
  <2>1. exec[j].pc = "loop"
    BY <1>3 DEF Prepared, At
  <2> QED BY <1>3, <2>1, StayDelivers DEF Prepared, At
<1> QED BY <1>1, <1>2, <1>3, BeginDelivers, SucceedDelivers, RestartDelivers, EndDelivers DEF Work

LEMMA WaitDelivers ==
    ASSUME DeliveryInv, OnePrompt, NEW j \in Jobs,
           \/ Take(j) \/ PollCancel(j) \/ \E b \in Blockers : Blocked(j, b)
           \/ HandoffResolved(j) \/ HandoffEnds(j) \/ PrepareFails(j) \/ Deliver(j) \/ ActFails(j)
    PROVE  Deliveries(j)'
<1>1. ASSUME NEW b \in Blockers, Blocked(j, b) PROVE Deliveries(j)'
  <2>1. exec[j].pc \in {"open", "loop"} /\ ~exec[j].landed
    BY <1>1, NothingLanded DEF Blocked, At
  <2>2. CASE MarkWaitingForUser(j) /\ Goto(j, "handoff") /\ KeepHistory
    <3>1. status'[j] = "waiting_for_user" /\ UNCHANGED <<script, request, delivered, doubted, admissions>>
      BY <2>2, JobTypes DEF MarkWaitingForUser, KeepHistory, DeliveryInv
    <3>2. admissions'[j] \in [Providers -> Nat] /\ \A v \in Providers : admissions'[j][v] >= admissions[j][v]
      BY <3>1, JobTypes DEF DeliveryInv
    <3> QED BY <2>1, <2>2, <3>1, <3>2, MoveDelivers DEF At
  <2> QED BY <1>1, <2>1, <2>2, LeaveDelivers, StayDelivers DEF Blocked, At, Failures
<1>2. CASE HandoffResolved(j)
  <2>1. exec[j].pc = "handoff" /\ MarkRunning(j) /\ KeepHistory
    BY <1>2 DEF HandoffResolved, At
  <2>2. status'[j] = "running" /\ UNCHANGED <<script, request, delivered, doubted, admissions>>
    BY <2>1, JobTypes DEF MarkRunning, KeepHistory, DeliveryInv
  <2>3. admissions'[j] \in [Providers -> Nat] /\ \A v \in Providers : admissions'[j][v] >= admissions[j][v]
    BY <2>2, JobTypes DEF DeliveryInv
  <2>4. PICK p \in {"loop", "ready"} : Goto(j, p)
    BY <1>2 DEF HandoffResolved
  <2> QED BY <2>1, <2>2, <2>3, <2>4, MoveDelivers DEF At
<1>3. CASE HandoffEnds(j)
  <2>1. exec[j].pc = "handoff" /\ ~exec[j].landed
    BY <1>3, NothingLanded DEF HandoffEnds, At
  <2> QED BY <1>3, <2>1, FailureDelivers DEF HandoffEnds, At, Failures, Errors, Blockers, TerminalBlockers
<1>4. CASE PrepareFails(j)
  <2>1. exec[j].pc = "loop" /\ ~exec[j].landed
    BY <1>4, NothingLanded DEF PrepareFails, At
  <2> QED BY <1>4, <2>1, FailureDelivers DEF PrepareFails, At, Failures, Errors
<1>5. CASE ActFails(j)
  <2>1. exec[j].pc = "acting" /\ (exec[j].landed => Kind(j) = "submit")
    BY <1>5 DEF ActFails, At, DeliveryInv, Deliveries, Placed
  <2>2. ASSUME NEW f \in ActionFailures(Kind(j)), FailOrFallback(j, f, Kind(j) = "submit") PROVE Deliveries(j)'
    <3>1. f \in Failures /\ (Kind(j) = "submit") \in BOOLEAN /\ (exec[j].landed => f \in ActionFailures("submit"))
      BY <2>1, <2>2, FailuresTyped
    <3> QED BY <2>1, <2>2, <3>1, FailureDelivers DEF At
  <2>3. CASE Goto(j, "failing") /\ KeepStore /\ KeepHistory
    BY <2>1, <2>3, StayDelivers DEF At
  <2> QED BY <1>5, <2>2, <2>3 DEF ActFails
<1> QED BY <1>1, <1>2, <1>3, <1>4, <1>5, TakeDelivers, PollCancelDelivers, DeliverDelivers

-----------------------------------------------------------------------------
\* A step of one execution reaches no other job.
LEMMA RowsApart ==
    ASSUME MemoryInv, NEW j \in Jobs, OfJob(j), NEW i \in Jobs, i # j
    PROVE  request'[i] = request[i] /\ admissions'[i] = admissions[i]
<1> USE JobTypes
<1>1. CASE Fallback(j)
  BY <1>1 DEF Fallback, FallbackJob
<1>2. CASE \/ TakeNextJob(j) \/ MarkWaitingForUser(j) \/ MarkRunning(j) \/ AdmitProviderAction(j)
           \/ RecordProviderSubmission(j) \/ CompleteWithError(j) \/ UNCHANGED vars
           \/ \E recorded \in SUBSET Responses : CompleteWithResult(j, recorded)
  BY <1>2 DEF TakeNextJob, MarkWaitingForUser, MarkRunning, AdmitProviderAction, RecordProviderSubmission,
              CompleteWithError, CompleteWithResult, vars, jobVars
<1> QED BY <1>1, <1>2 DEF OfJob

LEMMA HistoriesApart ==
    ASSUME MemoryInv, NEW j \in Jobs, NEW i \in Jobs, i # j,
           \/ Work(j)
           \/ Take(j) \/ PollCancel(j) \/ \E b \in Blockers : Blocked(j, b)
           \/ HandoffResolved(j) \/ HandoffEnds(j) \/ PrepareFails(j) \/ Deliver(j) \/ ActFails(j)
    PROVE  delivered'[i] = delivered[i] /\ doubted'[i] = doubted[i] /\ script'[i] = script[i]
<1> DEFINE Apart == delivered'[i] = delivered[i] /\ doubted'[i] = doubted[i] /\ script'[i] = script[i]
<1>1. ASSUME NEW f, NEW s, Leave(j, f, s) PROVE Apart
  BY <1>1, JobTypes DEF Leave
<1>2. ASSUME NEW f, NEW s, FailOrFallback(j, f, s) PROVE Apart
  BY <1>1, <1>2 DEF FailOrFallback, KeepHistory
<1>3. CASE Work(j)
  <2>1. CASE Project(j)
    BY <1>2, <2>1 DEF Project, KeepHistory
  <2>2. CASE OpenPage(j)
    BY <1>2, <2>2 DEF OpenPage, KeepHistory
  <2>3. CASE Begin(j)
    BY <1>2, <2>3 DEF Begin, KeepHistory
  <2>4. CASE Prepared(j) \/ Succeed(j) \/ Restart(j) \/ Fail(j) \/ Finish(j) \/ Abandon(j)
    BY <2>4 DEF Prepared, Succeed, Restart, Fail, Finish, Abandon, KeepHistory
  <2> QED BY <1>3, <2>1, <2>2, <2>3, <2>4 DEF Work
<1>4. CASE Take(j) \/ PollCancel(j) \/ HandoffResolved(j)
  BY <1>4 DEF Take, PollCancel, HandoffResolved, KeepHistory
<1>5. ASSUME NEW b \in Blockers, Blocked(j, b) PROVE Apart
  BY <1>1, <1>5 DEF Blocked, KeepHistory
<1>6. CASE HandoffEnds(j) \/ PrepareFails(j)
  BY <1>2, <1>6 DEF HandoffEnds, PrepareFails
<1>7. CASE Deliver(j)
  BY <1>7, JobTypes DEF Deliver
<1>8. CASE ActFails(j)
  BY <1>2, <1>8 DEF ActFails, KeepHistory
<1> QED BY <1>3, <1>4, <1>5, <1>6, <1>7, <1>8

LEMMA ExecutionDelivers ==
    ASSUME DeliveryInv, OnePrompt, NEW j \in Jobs,
           \/ Work(j)
           \/ Take(j) \/ PollCancel(j) \/ \E b \in Blockers : Blocked(j, b)
           \/ HandoffResolved(j) \/ HandoffEnds(j) \/ PrepareFails(j) \/ Deliver(j) \/ ActFails(j)
    PROVE  \A i \in Jobs : Deliveries(i)'
<1>1. MemoryInv
  BY DEF DeliveryInv
<1>2. Kept(j) /\ OfJob(j) /\ Deliveries(j)'
  BY <1>1, WorkKeeps, WaitKeeps, WorkIsStoreStep, WaitIsStoreStep, WorkDelivers, WaitDelivers
<1>3. ASSUME NEW i \in Jobs, i # j PROVE Deliveries(i)'
  <2>1. Same(i)
    BY <1>1, <1>2, <1>3, RowsApart, HistoriesApart DEF Kept, Untouched, Same
  <2> QED BY <2>1, SameDeliveries DEF DeliveryInv
<1> QED BY <1>2, <1>3

\* A new request plans each provider once.
LEMMA NewRoutes ==
    ASSUME NEW r \in NewRequests
    PROVE  /\ Injective(r.plan)
           /\ \A i \in DOMAIN r.plan : r.plan[i] # r.provider
           /\ r \in Requests
<1>1. r \in Requests /\ r.trail = <<>> /\ Injective(Route(r))
  BY RequestsAssumption
<1>2. r.plan \in Seq(Providers) /\ r.provider \in Providers
  BY <1>1 DEF Requests
<1>3. Route(r) = <<r.provider>> \o r.plan
  <2>1. [i \in 1 .. Len(r.trail) |-> r.trail[i].provider] = <<>>
    BY <1>1
  <2>2. <<>> \o <<r.provider>> = <<r.provider>>
    BY <1>2
  <2> QED BY <2>1, <2>2 DEF Route
<1>4. /\ DOMAIN Route(r) = 1 .. Len(r.plan) + 1 /\ Route(r)[1] = r.provider
      /\ \A i \in DOMAIN r.plan : i + 1 \in DOMAIN Route(r) /\ Route(r)[i + 1] = r.plan[i]
  BY <1>2, <1>3
<1>5. ASSUME NEW a \in DOMAIN r.plan, NEW b \in DOMAIN r.plan, r.plan[a] = r.plan[b] PROVE a = b
  <2>1. a + 1 = b + 1
    BY <1>1, <1>4, <1>5 DEF Injective
  <2> QED BY <1>2, <2>1
<1>6. ASSUME NEW i \in DOMAIN r.plan, r.plan[i] = r.provider PROVE FALSE
  <2>1. i + 1 = 1 /\ i \in 1 .. Len(r.plan) /\ Len(r.plan) \in Nat
    BY <1>1, <1>2, <1>4, <1>6 DEF Injective
  <2> QED BY <2>1
<1> QED BY <1>1, <1>5, <1>6 DEF Injective

\* A job whose execution has not begun and whose providers got nothing.
LEMMA FreshDelivers ==
    ASSUME NEW j \in Jobs, status[j] \notin {"succeeded"}, request[j] \in NewRequests, exec[j] = Idle,
           delivered[j] = [v \in Providers |-> 0], admissions[j] \in [Providers -> Nat], script[j] \in Scripts
    PROVE  Deliveries(j)
<1>1. Here(j) \in Providers /\ \A i \in DOMAIN request[j].plan : request[j].plan[i] \in Providers
  BY NewRoutes DEF Requests, Here
<1>2. Routed(j)
  BY <1>1, NewRoutes DEF Routed, Here
<1>3. Len(script[j]) \in Nat \ {0}
  <2>1. script[j] \in Seq({"edit", "workspace", "submit", "read"}) /\ script[j] # <<>>
    OBVIOUS
  <2> QED BY <2>1
<1>4. Placed(j)
  BY <1>3 DEF Placed, Idle, At
<1>5. Counted(j)
  BY <1>1 DEF Counted, At, Idle
<1> QED BY <1>2, <1>4, <1>5 DEF Deliveries

LEMMA InitDelivers == RInit /\ LegacyJobs = {} => DeliveryInv
<1> SUFFICES ASSUME RInit, LegacyJobs = {}, NEW j \in Jobs PROVE Deliveries(j)
  BY InitRemembers DEF DeliveryInv
<1>1. status[j] = "absent" /\ request[j] \in NewRequests /\ admissions[j] \in [Providers -> Nat]
  BY DEF RInit, Init
<1>2. exec[j] = Idle /\ delivered[j] = [v \in Providers |-> 0] /\ script[j] \in Scripts
  BY DEF RInit
<1> QED BY <1>1, <1>2, FreshDelivers

LEMMA DaemonDelivers ==
    ASSUME DeliveryInv, Open \/ Serve \/ Die \/ Quiesce \/ Settle, NEW j \in Jobs
    PROVE  Deliveries(j)'
<1>0. Deliveries(j) /\ MemoryInv
  BY DEF DeliveryInv
<1>1. CASE Open \/ Quiesce \/ Settle
  <2>1. Same(j)
    BY <1>1 DEF Open, Quiesce, Settle, Migrate, RebuildDashboard, KeepStore, vars, jobVars, runVars, Same
  <2> QED BY <1>0, <2>1, SameDeliveries
<1>2. CASE Serve
  <2>1. /\ UNCHANGED <<request, submitted, admissions, delivered, doubted, script, exec>>
        /\ status'[j] = status[j] \/ status'[j] = "failed"
    BY <1>2 DEF Serve, FailInterrupted
  <2>2. Routed(j)' /\ Placed(j)'
    BY <1>0, <2>1 DEF Deliveries, Routed, Placed, Here, At, Kind, Prompted
  <2>3. Counted(j)'
    BY <1>0, <2>1 DEF Deliveries, Counted, Here, At, Kind, Browser, Refused
  <2> QED BY <2>2, <2>3 DEF Deliveries
<1>3. CASE Die
  <2>1. /\ UNCHANGED <<status, request, submitted, admissions, delivered, doubted, script>> /\ exec'[j] = Idle
    BY <1>3 DEF Die, Crash, jobVars
  <2>2. Routed(j)'
    BY <1>0, <2>1 DEF Deliveries, Routed, Here
  <2>3. Placed(j)'
    BY <1>0, <2>1, JobTypes DEF Placed, Idle, At
  <2>4. Counted(j)'
    BY <1>0, <2>1 DEF Deliveries, Counted, Here, At, Kind, Browser, Refused, Idle
  <2> QED BY <2>2, <2>3, <2>4 DEF Deliveries
<1> QED BY <1>1, <1>2, <1>3

LEMMA ClientDelivers ==
    ASSUME DeliveryInv, RTypeOK', NEW j \in Jobs, Cancel(j) \/ \E r \in NewRequests : Submit(j, r), NEW i \in Jobs
    PROVE  Deliveries(i)'
<1>0. Deliveries(i) /\ Deliveries(j) /\ Remembers(j) /\ MemoryInv
  BY DEF DeliveryInv, MemoryInv
<1>1. CASE Cancel(j)
  <2>1. /\ UNCHANGED <<request, submitted, admissions, delivered, doubted, script, exec>>
        /\ status'[i] = status[i] \/ status'[i] = "canceled"
    BY <1>0, <1>1, JobTypes DEF Cancel, CancelJob, CancelTurnJob, runVars
  <2>2. Routed(i)' /\ Placed(i)'
    BY <1>0, <2>1 DEF Deliveries, Routed, Placed, Here, At, Kind, Prompted
  <2>3. Counted(i)'
    BY <1>0, <2>1 DEF Deliveries, Counted, Here, At, Kind, Browser, Refused
  <2> QED BY <2>2, <2>3 DEF Deliveries
<1>2. ASSUME NEW r \in NewRequests, Submit(j, r) PROVE Deliveries(i)'
  <2>1. /\ status[j] = "absent" /\ status' = [status EXCEPT ![j] = "queued"] /\ request' = [request EXCEPT ![j] = r]
        /\ UNCHANGED <<submitted, admissions, delivered, doubted, script, exec>>
    BY <1>2 DEF Submit, CreateJob
  <2>2. CASE i # j
    <3>1. Same(i)
      BY <1>0, <2>1, <2>2, JobTypes DEF Same
    <3> QED BY <1>0, <3>1, SameDeliveries
  <2>3. CASE i = j
    <3>1. status'[j] = "queued" /\ request'[j] = r /\ exec'[j] = Idle
      BY <1>0, <2>1, JobTypes DEF Remembers
    <3>2. \A v \in Providers : delivered'[j][v] = 0
      BY <1>0, <2>1 DEF Deliveries, Counted
    <3>3. r.plan \in Seq(Providers) /\ r.provider \in Providers
      BY NewRoutes DEF Requests
    <3>4. Routed(j)'
      BY <3>1, <3>2, <3>3, NewRoutes DEF Routed, Here
    <3>5. Placed(j)'
      BY <1>0, <2>1, <3>1, JobTypes DEF Placed, Idle, At
    <3>6. admissions'[j] \in [Providers -> Nat]
      BY <1>0, <2>1, JobTypes
    <3>7. Counted(j)'
      BY <3>1, <3>2, <3>3, <3>6 DEF Counted, At, Idle, Here
    <3> QED BY <2>3, <3>4, <3>5, <3>7 DEF Deliveries
  <2> QED BY <2>2, <2>3
<1> QED BY <1>1, <1>2

LEMMA StepDelivers == OnePrompt /\ DeliveryInv /\ [RNext]_allVars => DeliveryInv'
<1> SUFFICES ASSUME OnePrompt, DeliveryInv, [RNext]_allVars PROVE DeliveryInv'
  OBVIOUS
<1>1. MemoryInv /\ MemoryInv' /\ RTypeOK'
  BY StepRemembers DEF DeliveryInv, MemoryInv
<1>2. ASSUME UNCHANGED allVars, NEW i \in Jobs PROVE Deliveries(i)'
  <2>1. Same(i)
    BY <1>2 DEF allVars, vars, runVars, jobVars, Same
  <2> QED BY <2>1, SameDeliveries DEF DeliveryInv
<1>3. \A i \in Jobs : Deliveries(i)'
  BY <1>1, <1>2, DaemonDelivers, ClientDelivers, ExecutionDelivers DEF RNext
<1> QED BY <1>1, <1>3 DEF DeliveryInv

(***************************************************************************)
(* The ledger of attempts is never behind what was sent, and a job that    *)
(* succeeded was delivered to its provider, for every database created by  *)
(* this release and every script with one prompt.                          *)
(***************************************************************************)
THEOREM RunnerAdmits ==
    ASSUME OnePrompt, LegacyJobs = {}
    PROVE  RSpec => []DeliveriesAdmitted
<1>1. DeliveryInv => DeliveriesAdmitted
  <2> SUFFICES ASSUME DeliveryInv, NEW j \in Jobs
               PROVE  /\ \A v \in Providers : Browser(j) => delivered[j][v] <= admissions[j][v]
                      /\ status[j] = "succeeded" /\ "submit" \in {script[j][i] : i \in DOMAIN script[j]} =>
                             submitted[j] /\ delivered[j][Here(j)] = 1
    BY DEF DeliveriesAdmitted
  <2>1. Counted(j)
    BY DEF DeliveryInv, Deliveries
  <2> QED BY <2>1 DEF Counted
<1> QED BY <1>1, InitDelivers, StepDelivers, PTL DEF RSpec

(***************************************************************************)
(* No provider accepts a prompt twice, and a job leaves a provider that    *)
(* accepted it only with a visible refusal or a submission in doubt.       *)
(***************************************************************************)
THEOREM RunnerExplainsReplays ==
    ASSUME OnePrompt, LegacyJobs = {}
    PROVE  RSpec => []ReplayExplained
<1>1. DeliveryInv => ReplayExplained
  <2> SUFFICES ASSUME DeliveryInv, NEW j \in Jobs, NEW v \in Providers
               PROVE  /\ delivered[j][v] <= 1
                      /\ delivered[j][v] > 0 /\ Here(j) # v => Refused(j, v) \/ v \in doubted[j]
    BY DEF ReplayExplained
  <2>1. Counted(j)
    BY DEF DeliveryInv, Deliveries
  <2> QED BY <2>1 DEF Counted
<1> QED BY <1>1, InitDelivers, StepDelivers, PTL DEF RSpec

\* Leaving a provider changes nothing of what was read there.
LEMMA FellAsItWas ==
    ASSUME MemoryInv, RNext, NEW j \in Jobs, exec'[j].pc = "fell"
    PROVE  exec'[j].answered = exec[j].answered
<1>0. exec \in [Jobs -> Executions]
  BY JobTypes
<1>1. ASSUME NEW i \in Jobs, NEW p, Goto(i, p) PROVE exec'[j].answered = exec[j].answered
  BY <1>0, <1>1 DEF Goto, Executions
<1>2. ASSUME NEW i \in Jobs, NEW e, exec' = [exec EXCEPT ![i] = e], e.pc # "fell"
      PROVE  exec'[j].answered = exec[j].answered
  BY <1>0, <1>2
<1>3. ASSUME NEW i \in Jobs, NEW f, NEW s, Leave(i, f, s) \/ FailOrFallback(i, f, s)
      PROVE  exec'[j].answered = exec[j].answered
  BY <1>1, <1>3 DEF Leave, FailOrFallback
<1>4. CASE Open \/ Serve \/ Quiesce \/ Settle
  BY <1>4 DEF Open, Serve, Quiesce, Settle, runVars
<1>5. CASE Die
  BY <1>5 DEF Die, Idle
<1>6. ASSUME NEW i \in Jobs, Cancel(i) \/ \E r \in NewRequests : Submit(i, r)
      PROVE  exec'[j].answered = exec[j].answered
  BY <1>6 DEF Cancel, Submit, runVars
<1>7. ASSUME NEW i \in Jobs, Work(i) PROVE exec'[j].answered = exec[j].answered
  <2>1. CASE Project(i) \/ OpenPage(i) \/ Prepared(i) \/ Begin(i)
    BY <1>1, <1>3, <2>1 DEF Project, OpenPage, Prepared, Begin
  <2>2. CASE Restart(i) \/ Fail(i) \/ Finish(i) \/ Abandon(i)
    <3>1. Idle.pc # "fell" /\ [Idle EXCEPT !.pc = "start"].pc # "fell"
      BY DEF Idle
    <3> QED BY <1>2, <2>2, <3>1 DEF Restart, Fail, Finish, Abandon, Quit
  <2>3. CASE Succeed(i)
    <3>1. ASSUME NEW e \in Executions, exec' = [exec EXCEPT ![i] = Advanced(e, i)]
          PROVE  exec'[j].answered = exec[j].answered
      <4>1. Advanced(e, i).pc # "fell"
        BY DEF Advanced, Executions
      <4> QED BY <1>2, <3>1, <4>1
    <3>2. /\ exec[i] \in Executions /\ [exec[i] EXCEPT !.submitted = TRUE] \in Executions
          /\ \A text \in BOOLEAN : [exec[i] EXCEPT !.answered = @ \/ text] \in Executions
      BY <1>0 DEF Executions
    <3>3. CASE exec' = [exec EXCEPT ![i] = Advanced([@ EXCEPT !.submitted = TRUE], i)]
      BY <3>1, <3>2, <3>3
    <3>4. ASSUME NEW text \in BOOLEAN, exec' = [exec EXCEPT ![i] = Advanced([exec[i] EXCEPT !.answered = @ \/ text], i)]
          PROVE  exec'[j].answered = exec[j].answered
      BY <1>0, <3>1, <3>2, <3>4 DEF Executions
    <3>5. CASE exec' = [exec EXCEPT ![i] = Advanced(@, i)]
      BY <3>1, <3>2, <3>5
    <3> QED BY <1>1, <2>3, <3>3, <3>4, <3>5 DEF Succeed
  <2> QED BY <1>7, <2>1, <2>2, <2>3 DEF Work
<1>8. ASSUME NEW i \in Jobs,
             \/ Take(i) \/ PollCancel(i) \/ \E b \in Blockers : Blocked(i, b)
             \/ HandoffResolved(i) \/ HandoffEnds(i) \/ PrepareFails(i) \/ Deliver(i) \/ ActFails(i)
      PROVE  exec'[j].answered = exec[j].answered
  <2>1. CASE PollCancel(i) \/ Deliver(i)
    <3>1. \/ exec' = [exec EXCEPT ![i] = [exec[i] EXCEPT !.canceled = TRUE]]
          \/ exec' = [exec EXCEPT ![i] = [exec[i] EXCEPT !.landed = TRUE]]
      BY <1>0, <2>1 DEF PollCancel, Deliver
    <3>2. exec'[i].answered = exec[i].answered
      BY <1>0, <3>1 DEF Executions
    <3> QED BY <1>0, <3>1, <3>2
  <2>2. CASE \/ Take(i) \/ HandoffResolved(i) \/ HandoffEnds(i) \/ PrepareFails(i) \/ ActFails(i)
             \/ \E b \in Blockers : Blocked(i, b)
    BY <1>1, <1>3, <2>2 DEF Take, HandoffResolved, HandoffEnds, PrepareFails, ActFails, Blocked
  <2> QED BY <1>8, <2>1, <2>2
<1> QED BY <1>4, <1>5, <1>6, <1>7, <1>8 DEF RNext

(***************************************************************************)
(* An answer that was read is never thrown away by a restart elsewhere.    *)
(***************************************************************************)
THEOREM RunnerKeepsAnswers ==
    ASSUME OnePrompt, LegacyJobs = {}
    PROVE  RSpec => AnswerKept
<1> DEFINE Keeps == \A j \in Jobs : exec[j].answered => exec'[j].pc # "fell"
<1>1. ASSUME DeliveryInv, RNext PROVE Keeps
  <2>1. DeliveryInv'
    BY <1>1, StepDelivers
  <2> SUFFICES ASSUME NEW j \in Jobs, exec[j].answered, exec'[j].pc = "fell" PROVE FALSE
    OBVIOUS
  <2>2. ~exec'[j].answered
    BY <2>1 DEF DeliveryInv, Deliveries, Placed, At
  <2>3. exec'[j].answered = exec[j].answered
    BY <1>1, FellAsItWas DEF DeliveryInv
  <2> QED BY <2>2, <2>3
<1>2. ASSUME DeliveryInv, UNCHANGED allVars PROVE Keeps
  BY <1>2 DEF allVars, runVars, DeliveryInv, Deliveries, Placed, At
<1> QED BY <1>1, <1>2, InitDelivers, StepDelivers, PTL DEF RSpec, AnswerKept
=============================================================================
