---------------------------- MODULE ConfiguredLimits ----------------------------
(***************************************************************************)
(* The rate limits an operator writes into config.json: rolling windows    *)
(* over the attempts a daemon makes at a provider.  The store checks every *)
(* matching rule and records the attempt in one transaction, before the    *)
(* runner touches the page; jobs of several profiles compete, move on to   *)
(* other providers and end at any time, and the rules are edited meanwhile. *)
(*                                                                         *)
(* Jobs run in browser mode; those in direct mode are neither counted nor  *)
(* checked.  Published limits and observed ones may defer an attempt too:  *)
(* then Admit is not taken.                                                *)
(***************************************************************************)
EXTENDS Integers, Sequences, FiniteSets

CONSTANTS
    Jobs,       \* job ids
    Profiles,   \* managed browser profiles
    Providers,
    Rules,      \* the rules an operator may configure
    Requests,   \* limited actions of a request: uploads, then the prompt
    Routes,     \* providers a job may visit, in order
    MaxTime     \* bound: the clock stops here

PromptTypes == {"message", "image"}
Types == PromptTypes \union {"file"}

ASSUME RulesAssumption ==
    /\ IsFiniteSet(Rules)
    /\ Rules \subseteq [provider : Providers, type : Types \union {"submission"},
                        scope : {"provider", "profile"}, window : Nat \ {0}, max : Nat \ {0}]
ASSUME JobsAssumption == IsFiniteSet(Jobs) /\ MaxTime \in Nat
ASSUME RequestsAssumption ==
    \A q \in Requests : q \in Seq(Types) /\ q # <<>> /\ q[Len(q)] \in PromptTypes
ASSUME RoutesAssumption ==
    \A s \in Routes : /\ s \in Seq(Providers) /\ s # <<>>
                      /\ \A a, b \in DOMAIN s : s[a] = s[b] => a = b

VARIABLES
    clock,      \* the wall clock, in the unit of windowSeconds
    rules,      \* rateLimits in config.json
    job,        \* profile_id and request_json of each job
    live,       \* the jobs that are running
    plan,       \* jobs.provider, followed by the alternatives of the fallback plan
    submitted,  \* jobs.provider_submitted_at (0: NULL)
    attempts,   \* provider_rate_limit_attempts
    judged      \* history: attempts with the rules that admitted them and hold since

vars == <<clock, rules, job, live, plan, submitted, attempts, judged>>

-----------------------------------------------------------------------------
Provider(j) == Head(plan[j])
PromptType(q) == q[Len(q)]
Rows == [job : Jobs, index : Nat, provider : Providers, profile : Profiles, type : Types, at : Nat]

\* A rule on submissions counts every prompt, the others one type.
Matches(r, type) == IF r.type = "submission" THEN type # "file" ELSE type = r.type

\* Mutant of Unattempted: recorded submissions are counted next to their attempts.
UnattemptedAlways(v) == {j \in Jobs : submitted[j] # 0 /\ Provider(j) = v}

\* Jobs submitted by a release that kept no attempts.
Unattempted(v) ==
    {j \in Jobs : /\ submitted[j] # 0
                  /\ Provider(j) = v
                  /\ \A e \in attempts : ~(e.job = j /\ e.provider = v)}

\* configuredRateLimitHistory.
History(v) ==
    {e \in attempts : e.provider = v}
        \union {[job |-> j, index |-> 0, provider |-> v, profile |-> job[j].profile,
                 type |-> PromptType(job[j].request), at |-> submitted[j]] : j \in Unattempted(v)}

\* The events of the window (now - window, now] a rule counts for profile p.
Counted(r, p, now) ==
    {e \in History(r.provider) :
        /\ r.scope = "provider" \/ e.profile = p
        /\ Matches(r, e.type)
        /\ e.at > now - r.window
        /\ e.at <= now}

Overflow(r, p, units, now) == Cardinality(Counted(r, p, now)) + units - r.max

\* timestamps[k - 1] of the sorted timestamps.
KthTime(S, k) ==
    CHOOSE t \in {e.at : e \in S} :
        /\ Cardinality({e \in S : e.at < t}) < k
        /\ k <= Cardinality({e \in S : e.at <= t})

\* Mutant of EligibleAt: one event leaves the window, however many have to.
EligibleAtFirst(r, p, units, now) == KthTime(Counted(r, p, now), 1) + r.window

\* projectConfiguredRateLimit, for a deferred request that can ever be admitted.
EligibleAt(r, p, units, now) ==
    KthTime(Counted(r, p, now), Overflow(r, p, units, now)) + r.window

-----------------------------------------------------------------------------
\* A daemon that just migrated a database: what was submitted has no attempts yet.
Init ==
    /\ clock = 1
    /\ rules \in SUBSET Rules
    /\ job \in [Jobs -> [profile : Profiles, request : Requests]]
    /\ live \in SUBSET Jobs
    /\ plan \in [Jobs -> Routes]
    /\ submitted \in [Jobs -> {0, 1}]
    /\ \A j \in live : submitted[j] = 0
    /\ attempts = {}
    /\ judged = {}

Tick ==
    /\ clock < MaxTime
    /\ clock' = clock + 1
    /\ UNCHANGED <<rules, job, live, plan, submitted, attempts, judged>>

\* The operator saves another list of rules.
EditRules ==
    /\ rules' \in SUBSET Rules
    /\ judged' = {er \in judged : er[2] \in rules'}
    /\ UNCHANGED <<clock, job, live, plan, submitted, attempts>>

\* The row admitProviderAction inserts for the i-th limited action of j.
Attempt(j, i) ==
    [job |-> j, index |-> i, provider |-> Provider(j), profile |-> job[j].profile,
     type |-> job[j].request[i], at |-> clock]

\* Rules that ask for a unit of this action and have none left.
Blocking(j, i) ==
    {r \in rules : /\ r.provider = Provider(j)
                   /\ Matches(r, job[j].request[i])
                   /\ Overflow(r, job[j].profile, 1, clock) > 0}

\* Mutant of Admit: the rules are checked before the transaction, if at all.
AdmitUnchecked(j, i) ==
    /\ j \in live
    /\ i \in DOMAIN job[j].request
    /\ \A e \in attempts : ~(e.job = j /\ e.provider = Provider(j) /\ e.index = i)
    /\ attempts' = attempts \union {Attempt(j, i)}
    /\ judged' = judged \union
           ({Attempt(j, i)} \X {r \in rules : r.provider = Provider(j) /\ Matches(r, job[j].request[i])})
    /\ UNCHANGED <<clock, rules, job, live, plan, submitted>>

\* admitProviderAction with decision "admit"; the primary key refuses a second row.
Admit(j, i) ==
    /\ j \in live
    /\ i \in DOMAIN job[j].request
    /\ \A e \in attempts : ~(e.job = j /\ e.provider = Provider(j) /\ e.index = i)
    /\ Blocking(j, i) = {}
    /\ attempts' = attempts \union {Attempt(j, i)}
    /\ judged' = judged \union
           ({Attempt(j, i)} \X {r \in rules : r.provider = Provider(j) /\ Matches(r, job[j].request[i])})
    /\ UNCHANGED <<clock, rules, job, live, plan, submitted>>

\* recordProviderSubmission, which the runner only calls for an admitted prompt.
RecordSubmission(j) ==
    /\ j \in live
    /\ submitted[j] = 0
    /\ \E e \in attempts : e.job = j /\ e.provider = Provider(j) /\ e.type \in PromptTypes
    /\ submitted' = [submitted EXCEPT ![j] = clock]
    /\ UNCHANGED <<clock, rules, job, live, plan, attempts, judged>>

\* fallbackJob.
Fallback(j) ==
    /\ j \in live
    /\ Len(plan[j]) > 1
    /\ plan' = [plan EXCEPT ![j] = Tail(@)]
    /\ submitted' = [submitted EXCEPT ![j] = 0]
    /\ UNCHANGED <<clock, rules, job, live, attempts, judged>>

\* Completion, cancellation or a restart of the daemon.
End(j) ==
    /\ j \in live
    /\ live' = live \ {j}
    /\ UNCHANGED <<clock, rules, job, plan, submitted, attempts, judged>>

Next ==
    \/ Tick \/ EditRules
    \/ \E j \in Jobs :
        \/ \E i \in DOMAIN job[j].request : Admit(j, i)
        \/ RecordSubmission(j) \/ Fallback(j) \/ End(j)

Spec == Init /\ [][Next]_vars

-----------------------------------------------------------------------------
TypeOK ==
    /\ clock \in Nat
    /\ rules \subseteq Rules
    /\ job \in [Jobs -> [profile : Profiles, request : Requests]]
    /\ live \subseteq Jobs
    /\ plan \in [Jobs -> Seq(Providers) \ {<<>>}]
    /\ submitted \in [Jobs -> Nat]
    /\ attempts \subseteq Rows
    /\ judged \subseteq attempts \X Rules

(***************************************************************************)
(* docs/provider-rate-limits.md: internal rules use exact rolling windows. *)
(* The window that ends with an attempt never holds more than allowed by a *)
(* rule that admitted it and is in force since, whatever other jobs were   *)
(* admitted in the same instant, recorded, fell back or ended meanwhile.   *)
(***************************************************************************)
RollingLimit ==
    \A er \in judged :
        Cardinality(Counted(er[2], er[1].profile, er[1].at)) <= er[2].max

(***************************************************************************)
(* A prompt that reached the provider a job is on is counted exactly once, *)
(* though it may be on record twice: as an attempt and as a submission.    *)
(***************************************************************************)
CountedOnce ==
    \A j \in Jobs : submitted[j] # 0 =>
        Cardinality({e \in History(Provider(j)) : e.job = j /\ e.type \in PromptTypes}) = 1

(***************************************************************************)
(* Usage is given back by the passing of time only: neither a fallback     *)
(* (which clears provider_submitted_at) nor the end of a job refunds it,   *)
(* and one step never charges more than one unit.                          *)
(***************************************************************************)
UsageKept ==
    [][clock' = clock =>
         \A r \in Rules, p \in Profiles :
             Cardinality(Counted(r, p, clock))' - Cardinality(Counted(r, p, clock)) \in {0, 1}]_vars

(***************************************************************************)
(* The eligible time shown to users and used by the router is exact: the   *)
(* request is deferred until then and admitted at it, if nothing else is   *)
(* attempted in between.                                                   *)
(***************************************************************************)
EligibleAtExact ==
    \A r \in rules, p \in Profiles, units \in 1 .. 2 :
        LET at == EligibleAt(r, p, units, clock)
        IN  Overflow(r, p, units, clock) > 0 /\ units <= r.max =>
                /\ at > clock
                /\ Overflow(r, p, units, at) <= 0
                /\ \A t \in clock .. at - 1 : Overflow(r, p, units, t) > 0

=============================================================================
