----------------------------- MODULE ObservedLimits -----------------------------
(***************************************************************************)
(* The rate limits provider pages were seen to show.  They are not kept in *)
(* a table of their own: the store derives them from the rows of jobs,     *)
(* scanned in the order the rows were last updated.  A job that moved on   *)
(* carries the observation in its routing attempts, a job that failed      *)
(* carries it in its error, and a later success clears it.                 *)
(*                                                                         *)
(* The rows of one profile, whose jobs run side by side on several         *)
(* providers.  Rows are never older than the scan's horizon of a week.     *)
(***************************************************************************)
EXTENDS Integers, SequencesExt

CONSTANTS
    Jobs,       \* job ids; numbers, since the scan breaks ties by job_id
    Providers,
    Spans,      \* how long a shown limit lasts: its window, or the retry duration
    MaxTime     \* bound: the clock stops here

ASSUME JobsAssumption == Jobs \subseteq Nat /\ IsFiniteSet(Jobs) /\ MaxTime \in Nat
ASSUME SpansAssumption == Spans \subseteq Nat \ {0}

VARIABLES
    clock,      \* the wall clock; nothing makes it tick between two steps
    row,        \* the jobs table
    acting,     \* jobs whose prompt was admitted and is being sent or answered
    seen,       \* history: limits that were shown and written to a row
    answered    \* history: provider and time of the jobs that succeeded

vars == <<clock, row, acting, seen, answered>>

-----------------------------------------------------------------------------
Active == {"queued", "running"}
None == [at |-> 0, span |-> 0]

\* The columns the scan reads.
Fresh(v) == [status |-> "queued", provider |-> v, attempts |-> <<>>, error |-> None,
             submitted |-> FALSE, updated |-> clock]

\* ORDER BY updated_at ASC, job_id ASC: the last row of some.
Precedes(i, j) ==
    row[i].updated < row[j].updated \/ (row[i].updated = row[j].updated /\ i < j)
Newest(S) == CHOOSE j \in S : \A i \in S \ {j} : Precedes(i, j)

Later(latest, limit) == IF limit.at > latest.at THEN limit ELSE latest

\* What an attempt says of provider v, if it was refused with a visible limit.
Told(t, v) == IF t.provider = v /\ t.span > 0 THEN [at |-> t.at, span |-> t.span] ELSE None

\* Mutant of Candidates: an attempt is dated by the last update of its row.
CandidatesByUpdate(r, v) ==
    [i \in DOMAIN r.attempts |-> IF Told(r.attempts[i], v) = None THEN None
                                 ELSE [Told(r.attempts[i], v) EXCEPT !.at = r.updated]]
        \o <<IF r.provider = v /\ r.error # None THEN [r.error EXCEPT !.at = r.updated] ELSE None>>

\* The observations of provider v in row r: its attempts, then its error.
Candidates(r, v) ==
    [i \in DOMAIN r.attempts |-> Told(r.attempts[i], v)]
        \o <<IF r.provider = v /\ r.error # None THEN [r.error EXCEPT !.at = r.updated] ELSE None>>

\* Mutant of Clears: any success clears the observation, an earlier one too.
ClearsAlways(r, v, latest) ==
    r.provider = v /\ latest # None /\ r.status = "succeeded" /\ r.submitted

\* A success of the row clears what was observed before it.
Clears(r, v, latest) ==
    /\ r.provider = v
    /\ latest # None
    /\ r.status = "succeeded"
    /\ r.submitted
    /\ r.updated > latest.at

\* The body of the scan, for one row.
Visit(latest, r, v) ==
    LET found == FoldLeft(Later, latest, Candidates(r, v))
    IN  IF Clears(r, v, found) THEN None ELSE found

\* providerObservedRateLimit: the limit that is left when all rows were visited.
Stored == {j \in Jobs : row[j].status # "absent"}
Observed(v) ==
    MapThenFoldSet(LAMBDA r, latest : Visit(latest, r, v), None, LAMBDA j : row[j], Newest, Stored)

Deferred(v) == Observed(v).at + Observed(v).span > clock

-----------------------------------------------------------------------------
Init ==
    /\ clock = 1
    /\ row = [j \in Jobs |-> [status |-> "absent", provider |-> CHOOSE v \in Providers : TRUE,
                              attempts |-> <<>>, error |-> None, submitted |-> FALSE,
                              updated |-> 0]]
    /\ acting = {}
    /\ seen = {}
    /\ answered = {}

Tick ==
    /\ clock < MaxTime
    /\ clock' = clock + 1
    /\ UNCHANGED <<row, acting, seen, answered>>

Create(j, v) ==
    /\ row[j].status = "absent"
    /\ row' = [row EXCEPT ![j] = Fresh(v)]
    /\ UNCHANGED <<clock, acting, seen, answered>>

Take(j) ==
    /\ row[j].status = "queued"
    /\ row' = [row EXCEPT ![j].status = "running", ![j].updated = clock]
    /\ UNCHANGED <<clock, acting, seen, answered>>

\* admitProviderAction: a provider with an observed limit is not asked.
Admit(j) ==
    /\ row[j].status = "running"
    /\ j \notin acting
    /\ ~Deferred(row[j].provider)
    /\ acting' = acting \union {j}
    /\ UNCHANGED <<clock, row, seen, answered>>

RecordSubmission(j) ==
    /\ j \in acting
    /\ ~row[j].submitted
    /\ row' = [row EXCEPT ![j].submitted = TRUE, ![j].updated = clock]
    /\ UNCHANGED <<clock, acting, seen, answered>>

\* markWaitingForUser and markRunning: a user is asked for help and gives it.
HandOff(j) ==
    /\ row[j].status = "running"
    /\ row' = [row EXCEPT ![j].updated = clock]
    /\ UNCHANGED <<clock, acting, seen, answered>>

\* A limit of this span was shown for provider v, if any was.
Shown(v, span) == IF span > 0 THEN {[provider |-> v, at |-> clock, span |-> span]} ELSE {}

\* Mutant of Fallback: the attempt is recorded without the evidence.
FallbackUnproven(j, v, span) ==
    /\ row[j].status = "running"
    /\ v # row[j].provider
    /\ \A i \in DOMAIN row[j].attempts : row[j].attempts[i].provider # v
    /\ row' = [row EXCEPT ![j] =
           [row[j] EXCEPT !.provider = v, !.submitted = FALSE, !.updated = clock,
                     !.attempts = Append(@, [provider |-> row[j].provider, at |-> clock,
                                             span |-> 0])]]
    /\ acting' = acting \ {j}
    /\ seen' = seen \union Shown(row[j].provider, span)
    /\ UNCHANGED <<clock, answered>>

\* fallbackJob: the page shows a limit (or fails otherwise: span 0) and the job
\* moves on to v, which it has not visited yet.
Fallback(j, v, span) ==
    /\ row[j].status = "running"
    /\ v # row[j].provider
    /\ \A i \in DOMAIN row[j].attempts : row[j].attempts[i].provider # v
    /\ row' = [row EXCEPT ![j] =
           [row[j] EXCEPT !.provider = v, !.submitted = FALSE, !.updated = clock,
                     !.attempts = Append(@, [provider |-> row[j].provider, at |-> clock,
                                             span |-> span])]]
    /\ acting' = acting \ {j}
    /\ seen' = seen \union Shown(row[j].provider, span)
    /\ UNCHANGED <<clock, answered>>

\* The page shows a limit and there is nowhere to go.
FailLimited(j, span) ==
    /\ row[j].status = "running"
    /\ row' = [row EXCEPT ![j] =
           [@ EXCEPT !.status = "failed", !.error = [at |-> clock, span |-> span],
                     !.updated = clock]]
    /\ acting' = acting \ {j}
    /\ seen' = seen \union {[provider |-> row[j].provider, at |-> clock, span |-> span]}
    /\ UNCHANGED <<clock, answered>>

\* Any other failure, or a cancellation.
Stop(j) ==
    /\ row[j].status \in Active
    /\ \E s \in {"failed", "canceled"} :
           row' = [row EXCEPT ![j].status = s, ![j].updated = clock]
    /\ acting' = acting \ {j}
    /\ UNCHANGED <<clock, seen, answered>>

Succeed(j) ==
    /\ j \in acting
    /\ row[j].submitted
    /\ row' = [row EXCEPT ![j].status = "succeeded", ![j].updated = clock]
    /\ acting' = acting \ {j}
    /\ answered' = answered \union {[provider |-> row[j].provider, at |-> clock]}
    /\ UNCHANGED <<clock, seen>>

Next ==
    \/ Tick
    \/ \E j \in Jobs :
        \/ \E v \in Providers : Create(j, v)
        \/ Take(j) \/ HandOff(j) \/ Admit(j) \/ RecordSubmission(j)
        \/ \E v \in Providers, span \in Spans \union {0} : Fallback(j, v, span)
        \/ \E span \in Spans : FailLimited(j, span)
        \/ Stop(j) \/ Succeed(j)

Spec == Init /\ [][Next]_vars

-----------------------------------------------------------------------------
\* The limits a provider showed that nothing it did since has disproved.
Standing(v) ==
    {o \in seen : /\ o.provider = v
                  /\ \A o2 \in seen : o2.provider = v => o2.at <= o.at
                  /\ \A s \in answered : s.provider = v => s.at <= o.at}

(***************************************************************************)
(* A limit that a provider page showed keeps every job of the profile from *)
(* that provider until it is over, in whatever order the jobs that saw it, *)
(* carried it to another provider or failed with it were written.          *)
(***************************************************************************)
LimitHolds ==
    \A v \in Providers :
        Standing(v) # {} /\ (\A o \in Standing(v) : o.at + o.span > clock) => Deferred(v)

\* A provider is only ever deferred for a limit it showed and that is not over.
DeferralJustified ==
    \A v \in Providers : Deferred(v) =>
        \E o \in seen : o.provider = v /\ o.at + o.span > clock

=============================================================================
