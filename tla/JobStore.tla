-------------------------------- MODULE JobStore --------------------------------
(***************************************************************************)
(* The daemon's business record: the jobs table, the ledger of rate-limit  *)
(* attempts, the output-savings events and the dashboard aggregates, all   *)
(* in one SQLite file, and the steps by which a daemon opens that file.    *)
(* Every method of the store runs to completion in one event-loop turn,    *)
(* and its statements sit in one transaction, so each is one action; the   *)
(* exceptions (opening, and the savings recorded after a completion) are   *)
(* split where a crash can fall between two commits.                       *)
(***************************************************************************)
EXTENDS ProviderFallback, FiniteSets

CONSTANTS
    Jobs,           \* job ids
    Profiles,       \* managed browser profiles
    Responses,      \* measured responses a result can carry
    LegacyJobs,     \* jobs already in a database older than the dashboard tables
    NewRequests,    \* the requests clients create jobs with
    MaxAdmissions   \* bound: admission rows a job can collect at one provider

ASSUME JobsAssumption == IsFiniteSet(Jobs) /\ IsFiniteSet(Responses) /\ LegacyJobs \subseteq Jobs
ASSUME ProvidersAssumption == "none" \notin Providers
ASSUME BoundAssumption == MaxAdmissions \in Nat

VARIABLES
    phase,      \* how far the daemon got with opening the database
    tables,     \* the dashboard tables exist
    status,     \* jobs.status ("absent": no row)
    request,    \* jobs.profile_id, jobs.provider and the routing part of request_json
    outcome,    \* which of result_json, error_json, blocker_json are set
    submitted,  \* jobs.provider_submitted_at is set
    born,       \* jobs.created_at, as a clock that may stand still between two rows
    admissions, \* provider_rate_limit_attempts: rows per job and provider
    events,     \* output_savings_events: measured responses per job
    dashboard,  \* dashboard_daily_metrics: terminal jobs per slot
    savings,    \* dashboard_daily_metrics: measured responses and jobs per slot
    uncounted,  \* history: jobs canceled without a dashboard entry since the last rebuild
    torn        \* history: ended jobs that a crash left out of fresh dashboard tables

jobVars == <<status, request, outcome, submitted, born>>
dashboardVars == <<events, dashboard, savings, uncounted>>
openVars == <<phase, tables, torn>>
vars == <<openVars, jobVars, admissions, dashboardVars>>

-----------------------------------------------------------------------------
Active == {"queued", "running", "waiting_for_user"}
Executing == {"running", "waiting_for_user"}
Terminal == {"succeeded", "failed", "canceled"}
Statuses == Active \union Terminal \union {"absent"}
Phases == {"down", "rebuilding", "migrated", "serving"}
Modes == {"browser", "direct"}

Requests == [profile : Profiles, mode : Modes, provider : Providers, plan : Seq(Providers),
             trail : Seq(Attempts), exclusions : BOOLEAN]
Outcomes == [result : BOOLEAN, error : BOOLEAN, blocker : BOOLEAN]
NoOutcome == [result |-> FALSE, error |-> FALSE, blocker |-> FALSE]
ResultOnly == [result |-> TRUE, error |-> FALSE, blocker |-> FALSE]
ErrorOnly == [result |-> FALSE, error |-> TRUE, blocker |-> FALSE]

\* Clients name a provider and alternatives that never repeat a provider.
Injective(s) == \A a, b \in DOMAIN s : s[a] = s[b] => a = b
ASSUME RequestsAssumption ==
    /\ NewRequests # {}
    /\ \A r \in NewRequests : r \in Requests /\ r.trail = <<>> /\ Injective(Route(r))

\* The key of a dashboard row; days and execution modes are not told apart.
Slots == Profiles \X Providers
SlotOf(j) == <<request[j].profile, request[j].provider>>

\* recordTerminalDashboardMetrics for every job of S, which just ended with outcome o.
RecordTerminal(S, o) ==
    dashboard' = [k \in Slots |-> [dashboard[k] EXCEPT ![o] =
                     @ + Cardinality({j \in S : SlotOf(j) = k})]]

\* recordOutputSavingsForJob: the events of j not seen before, and their slot's totals.
RecordSavings(j, measured) ==
    LET fresh == measured \ events[j]
        first == fresh # {} /\ events[j] = {}
    IN  /\ events' = [events EXCEPT ![j] = @ \union fresh]
        /\ savings' = [savings EXCEPT ![SlotOf(j)] =
               [responses |-> @.responses + Cardinality(fresh),
                jobs |-> @.jobs + IF first THEN 1 ELSE 0]]

-----------------------------------------------------------------------------
(***************************************************************************)
(* A fresh home, or the home of a release that had no dashboard tables.    *)
(***************************************************************************)
Init ==
    /\ phase = "down"
    /\ tables = FALSE
    /\ torn = {}
    /\ status \in [Jobs -> {"absent", "running", "succeeded"}]
    /\ \A j \in Jobs : status[j] # "absent" => j \in LegacyJobs
    /\ request \in [Jobs -> NewRequests]
    /\ \A j \in Jobs : status[j] = "absent" => request[j] = CHOOSE r \in NewRequests : TRUE
    /\ outcome = [j \in Jobs |-> IF status[j] = "succeeded" THEN ResultOnly ELSE NoOutcome]
    /\ submitted = [j \in Jobs |-> status[j] = "succeeded"]
    /\ born = [j \in Jobs |-> 0]
    /\ admissions = [j \in Jobs |-> [v \in Providers |-> 0]]
    /\ events \in [Jobs -> {{}, Responses}]
    /\ \A j \in Jobs : events[j] # {} => status[j] = "succeeded"
    /\ dashboard = [k \in Slots |-> [o \in Terminal |-> 0]]
    /\ savings = [k \in Slots |-> [responses |-> 0, jobs |-> 0]]
    /\ uncounted = {}

-----------------------------------------------------------------------------
(* Opening and losing the daemon.                                          *)

\* initialize, up to the end of the migrations: the tables are created and committed.
Migrate ==
    /\ phase = "down"
    /\ phase' = IF tables THEN "migrated" ELSE "rebuilding"
    /\ tables' = TRUE
    /\ UNCHANGED <<torn, jobVars, admissions, dashboardVars>>

\* rebuildDashboardMetrics: the aggregates are recomputed from jobs and events.
RebuildDashboard ==
    /\ phase = "rebuilding"
    /\ phase' = "migrated"
    /\ dashboard' = [k \in Slots |-> [o \in Terminal |->
           Cardinality({j \in Jobs : status[j] = o /\ SlotOf(j) = k})]]
    /\ savings' = [k \in Slots |->
           [responses |-> Cardinality({e \in Jobs \X Responses :
                                           e[2] \in events[e[1]] /\ SlotOf(e[1]) = k}),
            jobs |-> Cardinality({j \in Jobs : events[j] # {} /\ SlotOf(j) = k})]]
    /\ uncounted' = {}
    /\ UNCHANGED <<tables, torn, jobVars, admissions, events>>

\* Mutant of FailInterrupted: the failed jobs are not added to the dashboard.
FailInterruptedUnrecorded ==
    LET left == {j \in Jobs : status[j] \in Active} IN
    /\ phase = "migrated"
    /\ phase' = "serving"
    /\ status' = [j \in Jobs |-> IF j \in left THEN "failed" ELSE status[j]]
    /\ outcome' = [j \in Jobs |-> IF j \in left THEN ErrorOnly ELSE outcome[j]]
    /\ UNCHANGED <<tables, torn, request, submitted, born, admissions, dashboardVars>>

\* failInterruptedJobs: whatever an earlier daemon left unfinished has failed.
FailInterrupted ==
    LET left == {j \in Jobs : status[j] \in Active} IN
    /\ phase = "migrated"
    /\ phase' = "serving"
    /\ status' = [j \in Jobs |-> IF j \in left THEN "failed" ELSE status[j]]
    /\ outcome' = [j \in Jobs |-> IF j \in left THEN ErrorOnly ELSE outcome[j]]
    /\ RecordTerminal(left, "failed")
    /\ UNCHANGED <<tables, torn, request, submitted, born, admissions, events, savings, uncounted>>

\* The daemon process ends, cleanly or not; the database file is all that remains.
Crash ==
    /\ phase # "down"
    /\ phase' = "down"
    /\ torn' = IF phase = "rebuilding" THEN {j \in Jobs : status[j] \in Terminal} ELSE torn
    /\ UNCHANGED <<tables, jobVars, admissions, dashboardVars>>

-----------------------------------------------------------------------------
(* The life of a job.                                                      *)

Rows == {j \in Jobs : status[j] # "absent"}

\* insertJob.
CreateJob(j, r) ==
    /\ phase = "serving"
    /\ status[j] = "absent"
    /\ status' = [status EXCEPT ![j] = "queued"]
    /\ request' = [request EXCEPT ![j] = r]
    /\ \E now \in {born[k] : k \in Rows} \union {Cardinality(Rows) + 1} :
           /\ \A k \in Rows : born[k] <= now
           /\ born' = [born EXCEPT ![j] = now]
    /\ UNCHANGED <<openVars, outcome, submitted, admissions, dashboardVars>>

Queued(p) == {j \in Jobs : status[j] = "queued" /\ request[j].profile = p}
Oldest(S) == {j \in S : \A k \in S : born[j] <= born[k]}

\* takeNextJob for the profile of j.
TakeNextJob(j) ==
    /\ phase = "serving"
    /\ j \in Oldest(Queued(request[j].profile))
    /\ status' = [status EXCEPT ![j] = "running"]
    /\ UNCHANGED <<openVars, request, outcome, submitted, born, admissions, dashboardVars>>

MarkWaitingForUser(j) ==
    /\ phase = "serving"
    /\ status[j] = "running"
    /\ status' = [status EXCEPT ![j] = "waiting_for_user"]
    /\ outcome' = [outcome EXCEPT ![j].blocker = TRUE]
    /\ UNCHANGED <<openVars, request, submitted, born, admissions, dashboardVars>>

MarkRunning(j) ==
    /\ phase = "serving"
    /\ status[j] = "waiting_for_user"
    /\ status' = [status EXCEPT ![j] = "running"]
    /\ outcome' = [outcome EXCEPT ![j].blocker = FALSE]
    /\ UNCHANGED <<openVars, request, submitted, born, admissions, dashboardVars>>

\* admitProviderAction with decision "admit": the attempt is recorded before it is made.
AdmitProviderAction(j) ==
    /\ phase = "serving"
    /\ status[j] = "running"
    /\ request[j].mode = "browser"
    /\ admissions[j][request[j].provider] < MaxAdmissions
    /\ admissions' = [admissions EXCEPT ![j][request[j].provider] = @ + 1]
    /\ UNCHANGED <<openVars, jobVars, dashboardVars>>

RecordProviderSubmission(j) ==
    /\ phase = "serving"
    /\ status[j] \in Executing
    /\ submitted' = [submitted EXCEPT ![j] = TRUE]
    /\ UNCHANGED <<openVars, status, request, outcome, born, admissions, dashboardVars>>

\* Mutant of MayRestart: a submitted job restarts without a proof of refusal.
MayRestartUnproven(j, next, proof) ==
    /\ status[j] \in Executing
    /\ next.provider # request[j].provider

\* What fallbackJob demands before it changes the row; it throws otherwise.
MayRestart(j, next, proof) ==
    /\ status[j] \in Executing
    /\ submitted[j] =>
           AcceptedAfterSubmission(request[j], outcome[j].result, next, proof)
    /\ next.provider # request[j].provider

\* fallbackJob: the same job restarts on another provider.
FallbackJob(j, next, proof) ==
    /\ phase = "serving"
    /\ MayRestart(j, next, proof)
    /\ status' = [status EXCEPT ![j] = "running"]
    /\ request' = [request EXCEPT ![j] = next]
    /\ outcome' = [outcome EXCEPT ![j] = NoOutcome]
    /\ submitted' = [submitted EXCEPT ![j] = FALSE]
    /\ UNCHANGED <<openVars, born, admissions, dashboardVars>>

(***************************************************************************)
(* completeJob.  The savings of a result are recorded in a transaction of  *)
(* their own whose failure is swallowed: recorded is measured or {}.       *)
(***************************************************************************)
CompleteWithResult(j, recorded) ==
    /\ phase = "serving"
    /\ status[j] \in Executing
    /\ status' = [status EXCEPT ![j] = "succeeded"]
    /\ outcome' = [outcome EXCEPT ![j] = ResultOnly]
    /\ RecordTerminal({j}, "succeeded")
    /\ RecordSavings(j, recorded)
    /\ UNCHANGED <<openVars, request, submitted, born, admissions, uncounted>>

CompleteWithError(j) ==
    /\ phase = "serving"
    /\ status[j] \in Executing
    /\ status' = [status EXCEPT ![j] = "failed"]
    /\ outcome' = [outcome EXCEPT ![j] = ErrorOnly]
    /\ RecordTerminal({j}, "failed")
    /\ UNCHANGED <<openVars, request, submitted, born, admissions, events, savings, uncounted>>

\* Mutant of CancelJob: the dashboard is not told.
CancelJobUnrecorded(j) ==
    /\ phase = "serving"
    /\ status[j] \in Active
    /\ status' = [status EXCEPT ![j] = "canceled"]
    /\ outcome' = [outcome EXCEPT ![j] = ErrorOnly]
    /\ UNCHANGED <<openVars, request, submitted, born, admissions, dashboardVars>>

CancelJob(j) ==
    /\ phase = "serving"
    /\ status[j] \in Active
    /\ status' = [status EXCEPT ![j] = "canceled"]
    /\ outcome' = [outcome EXCEPT ![j] = ErrorOnly]
    /\ RecordTerminal({j}, "canceled")
    /\ UNCHANGED <<openVars, request, submitted, born, admissions, events, savings, uncounted>>

\* The UPDATE of cancelStoredWebAiTurn, which records nothing on the dashboard.
CancelTurnJob(j) ==
    /\ phase = "serving"
    /\ status[j] \in Active
    /\ status' = [status EXCEPT ![j] = "canceled"]
    /\ outcome' = [outcome EXCEPT ![j] = ErrorOnly]
    /\ uncounted' = uncounted \union {j}
    /\ UNCHANGED <<openVars, request, submitted, born, admissions, events, dashboard, savings>>

\* clearOutputSavings.
ClearOutputSavings ==
    /\ phase = "serving"
    /\ events' = [j \in Jobs |-> {}]
    /\ savings' = [k \in Slots |-> [responses |-> 0, jobs |-> 0]]
    /\ UNCHANGED <<openVars, jobVars, admissions, dashboard, uncounted>>

-----------------------------------------------------------------------------
\* The runner's call: next and proof describe the failure that made it leave the provider.
Fallback(j) ==
    \E reason \in Reasons, proof \in Proofs :
        /\ request[j].plan # <<>>
        /\ FallbackJob(j, NextRequest(request[j], reason, submitted[j]), proof)

Next ==
    \/ Migrate \/ RebuildDashboard \/ FailInterrupted \/ Crash
    \/ ClearOutputSavings
    \/ \E j \in Jobs :
        \/ \E r \in NewRequests : CreateJob(j, r)
        \/ TakeNextJob(j)
        \/ MarkWaitingForUser(j) \/ MarkRunning(j)
        \/ AdmitProviderAction(j) \/ RecordProviderSubmission(j)
        \/ Fallback(j)
        \/ \E recorded \in SUBSET Responses : CompleteWithResult(j, recorded)
        \/ CompleteWithError(j)
        \/ CancelJob(j) \/ CancelTurnJob(j)

Spec == Init /\ [][Next]_vars

-----------------------------------------------------------------------------
\* Every column holds a value its readers accept.
TypeOK ==
    /\ phase \in Phases
    /\ tables \in BOOLEAN
    /\ torn \subseteq Jobs
    /\ status \in [Jobs -> Statuses]
    /\ request \in [Jobs -> Requests]
    /\ outcome \in [Jobs -> Outcomes]
    /\ submitted \in [Jobs -> BOOLEAN]
    /\ born \in [Jobs -> Nat]
    /\ admissions \in [Jobs -> [Providers -> Nat]]
    /\ events \in [Jobs -> SUBSET Responses]
    /\ dashboard \in [Slots -> [Terminal -> Nat]]
    /\ savings \in [Slots -> [responses : Nat, jobs : Nat]]
    /\ uncounted \subseteq Jobs

(***************************************************************************)
(* Readers of a job (HTTP projections, the dashboard, capacity history)    *)
(* trust that result_json, error_json and blocker_json agree with status,  *)
(* whichever of completion, cancellation, fallback, handoff and restart    *)
(* came last.                                                              *)
(***************************************************************************)
OutcomeMatchesStatus ==
    \A j \in Jobs :
        /\ outcome[j].result <=> status[j] = "succeeded"
        /\ outcome[j].error <=> status[j] \in {"failed", "canceled"}
        /\ outcome[j].blocker <=> status[j] = "waiting_for_user"

(***************************************************************************)
(* A job that ended never changes again: a late completion, submission     *)
(* record, handoff, fallback, cancellation or a restart leaves it alone.   *)
(***************************************************************************)
SettledIsFinal ==
    [][\A j \in Jobs : status[j] \in Terminal =>
           /\ status'[j] = status[j]
           /\ outcome'[j] = outcome[j]
           /\ request'[j] = request[j]
           /\ submitted'[j] = submitted[j]]_vars

(***************************************************************************)
(* The dashboard counts each job that ended exactly once, under the        *)
(* provider it ended on, across fallbacks, restarts and rebuilds.  Turns   *)
(* canceled through the private protocol are the exception until the next  *)
(* rebuild (uncounted), and what a crash before the only rebuild left out  *)
(* is another (torn).  The savings totals agree with the events they were  *)
(* added up from.                                                          *)
(***************************************************************************)
Populated == tables /\ phase # "rebuilding"
DashboardMatchesJobs ==
    Populated => \A k \in Slots :
        /\ \A o \in Terminal :
              dashboard[k][o] = Cardinality({j \in Jobs \ (uncounted \union torn) :
                                                status[j] = o /\ SlotOf(j) = k})
        /\ savings[k].responses =
              Cardinality({e \in (Jobs \ torn) \X Responses :
                               e[2] \in events[e[1]] /\ SlotOf(e[1]) = k})
        /\ savings[k].jobs =
              Cardinality({j \in Jobs \ torn : events[j] # {} /\ SlotOf(j) = k})

(***************************************************************************)
(* A recorded submission disappears from a job only when the job leaves    *)
(* the provider, and only into an attempt that says the provider refused   *)
(* it: the caller can always tell that the prompt reached that provider.   *)
(***************************************************************************)
RefusedAttempt(v) == {[provider |-> v, reason |-> r, submitted |-> TRUE] :
                          r \in {"rate_limit", "capacity"}}
SubmissionClearedOnlyOnRefusal ==
    [][\A j \in Jobs : submitted[j] /\ ~submitted'[j] =>
           \E i \in DOMAIN request'[j].trail :
               request'[j].trail[i] \in RefusedAttempt(request[j].provider)]_vars

(***************************************************************************)
(* A job only ever moves forward along the route it was created with, so   *)
(* no provider sees it twice.                                              *)
(***************************************************************************)
RouteKept ==
    [][\A j \in Jobs : status[j] # "absent" =>
           /\ Route(request'[j]) = Route(request[j])
           /\ Len(request'[j].plan) <= Len(request[j].plan)]_vars

=============================================================================
