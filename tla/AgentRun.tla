--------------------------------- MODULE AgentRun ---------------------------------
(***************************************************************************)
(* One AgentRun of the Harness: web-agent-harness.ts, with the calls it    *)
(* makes to the provider-turn protocol and to the tools.  A run is driven  *)
(* by the `read' requests of a client that polls it: each looks at the     *)
(* phase, takes one step and awaits a tool, the provider or the tool       *)
(* catalog.  Reads, resumes and cancels of one run are not serialised:     *)
(* each keeps what it saw before its await, and merges what it learned     *)
(* into whatever the record is by then.  Between two awaits JavaScript     *)
(* runs to completion: `loop' is the reader that does.                     *)
(*                                                                         *)
(* A turn's number stands for its nonce, its requestRef and its batchId:   *)
(* each is made afresh when the turn advances.  A call and the turn of its *)
(* batch stand for the digest of its arguments.                            *)
(***************************************************************************)
EXTENDS Integers, FiniteSets

CONSTANTS
    Readers,    \* GET requests that may be in progress at a time
    Cancellers, \* POST .../cancel requests; each is made at most once
    MaxTurns,   \* spec.maxTurns
    Calls,      \* ids of tool calls, in the order of a batch
    ReadOnly,   \* the calls of tools that need no approval
    DependsOn,  \* dependsOn of each call
    Answers,    \* responses of the provider: final, batch or malformed
    None        \* no reader

Turns == 1..MaxTurns
ASSUME CallsAssumption == /\ Calls \subseteq Nat /\ IsFiniteSet(Calls) /\ ReadOnly \subseteq Calls
                          /\ DependsOn \in [Calls -> SUBSET Calls] /\ MaxTurns \in Nat \ {0}
ASSUME AnswersAssumption ==      \* validateDependencies: a batch depends on nothing outside it
    \A a \in Answers : /\ a \in [kind : {"final", "batch", "malformed"}, calls : SUBSET Calls,
                                 invalid : SUBSET Calls, needs : BOOLEAN]
                       /\ a.invalid \subseteq a.calls /\ \A c \in a.calls : DependsOn[c] \subseteq a.calls
ASSUME NoneAssumption == None \notin Readers /\ Readers \intersect Cancellers = {}

VARIABLES
    run,        \* HarnessRunRecord
    request,    \* the requests in progress: what each awaits, for which turn or call, and the reply
    todo,       \* the calls a reader has still to visit in its pass over record.calls
    loop,       \* the reader that runs the loop of executeAndContinue (None)
    provider,   \* lifecycle of the provider's turns
    answer,     \* what the provider answered in a turn that succeeded
    approved,   \* history: the calls the user approved, by digest
    ended       \* history: what the tools did since the batch was accepted

clientVars == <<request, todo, loop>>
providerVars == <<provider, answer>>
historyVars == <<approved, ended>>
vars == <<run, clientVars, providerVars, historyVars>>

-----------------------------------------------------------------------------
Terminal == {"succeeded", "failed", "cancelled"}
Waits == {"waiting_for_input", "waiting_for_approval", "waiting_for_authentication"}
\* The status where it tells more than the phase, and the phase elsewhere.
Phases == {"discovering_tools", "submitting_provider", "awaiting_provider", "cancelling_provider",
           "executing_batch"} \union Waits \union Terminal
Alive == {"alive", "waiting_for_user"}       \* alive: queued or running
Lifecycles == {"none"} \union Alive \union Terminal

HarnessCall == [turn : Turns, approval : {"not_required", "pending", "approved"},
                status : {"pending", "executing", "succeeded", "failed", "authentication_required"}]
NoCall == [turn |-> 0, approval |-> "not_required", status |-> "absent"]
NoCalls == [c \in Calls |-> NoCall]
NoResults == [c \in Calls |-> "none"]
Outcomes == {"succeeded", "failed"}
NoTurn == [turn |-> 0, lifecycle |-> "none"]
NoAnswer == [kind |-> "none", calls |-> {}, invalid |-> {}, needs |-> FALSE]

Idle == [at |-> "idle", of |-> 0, by |-> "none", reply |-> "none"]
Gone == [Idle EXCEPT !.at = "gone"]
Asked(at, by) == [at |-> at, of |-> run.turn, by |-> by, reply |-> "none"]
Clients == Readers \union Cancellers
Back(x) == IF x \in Readers THEN Idle ELSE Gone

-----------------------------------------------------------------------------
(* The updates of the record.                                              *)
Fail == run' = [run EXCEPT !.phase = "failed", !.pending = 0, !.cancel = "none"]

\* recordCallOutcome: the call may be gone from record.calls, its result is kept.
WithStatus(r, c, status) ==
    [r EXCEPT !.calls[c] = IF @ = NoCall THEN NoCall ELSE [@ EXCEPT !.status = status]]
WithOutcome(r, c, outcome) == [WithStatus(r, c, outcome) EXCEPT !.results[c] = outcome]

HasFailedDependency(c) == \E d \in DependsOn[c] : run.results[d] = "failed"

\* resolveKnownDependencyFailures: the least set of calls that holds the invalid ones and those that
\* depend on one of its calls.
KnownFailures(a) ==
    LET closed(S) == a.invalid \subseteq S /\ \A c \in a.calls : DependsOn[c] \intersect S # {} => c \in S
    IN {c \in a.calls : \A S \in SUBSET a.calls : closed(S) => c \in S}

\* harnessCall of every call of a batch.
Accepted(a, t) ==
    [c \in Calls |->
        IF c \notin a.calls THEN NoCall
        ELSE [turn |-> t, status |-> IF c \in KnownFailures(a) THEN "failed" ELSE "pending",
              approval |-> IF c \in KnownFailures(a) \union ReadOnly THEN "not_required" ELSE "pending"]]

Pending(calls) == [c \in Calls |-> IF calls[c].status = "pending" THEN calls[c] ELSE NoCall]

\* Mutant of Actionable: a call does not wait for what it depends on.
ActionableEarly(calls) ==
    {c \in Calls : calls[c] # NoCall /\ (HasFailedDependency(c) \/ calls[c].approval # "pending")}

\* The calls of a pass that are not skipped: a dependency failed, or nothing keeps them waiting.
Actionable(calls) ==
    {c \in Calls : /\ calls[c] # NoCall
                   /\ \/ HasFailedDependency(c)
                      \/ /\ \A d \in DependsOn[c] : run.results[d] # "none"
                         /\ calls[c].approval # "pending"}

-----------------------------------------------------------------------------
(* read: what it does before its first await.                              *)
Polls(r) == request[r] = Idle /\ loop = None
Await(x, a) == request' = [request EXCEPT ![x] = a] /\ UNCHANGED <<todo, loop>>
At(x, at) == request[x].at = at

DiscoverTools(r) ==
    /\ Polls(r) /\ run.phase = "discovering_tools"
    /\ Await(r, Asked("discover", "none"))
    /\ UNCHANGED <<run, providerVars, historyVars>>

SubmitPending(r) ==
    /\ Polls(r) /\ run.phase = "submitting_provider"
    /\ Await(r, [Asked("submit", "none") EXCEPT !.of = run.pending])
    /\ UNCHANGED <<run, providerVars, historyVars>>

ReadProvider(r) ==
    /\ Polls(r) /\ run.phase = "awaiting_provider"
    /\ IF run.providerTurn.turn = run.turn
         THEN Await(r, Asked("read", "none")) /\ UNCHANGED run
         ELSE Fail /\ UNCHANGED clientVars       \* assertProviderTurnIdentity
    /\ UNCHANGED <<providerVars, historyVars>>

CancelAgain(r) ==
    /\ Polls(r) /\ run.phase = "cancelling_provider"
    /\ IF run.cancel = "turn" /\ run.providerTurn.turn # run.turn
         THEN Fail /\ UNCHANGED clientVars
         ELSE Await(r, Asked("cancel", run.cancel)) /\ UNCHANGED run
    /\ UNCHANGED <<providerVars, historyVars>>

ExecuteBatch(r) ==
    /\ Polls(r) /\ run.phase = "executing_batch"
    /\ IF run.needs = "asked"
         THEN /\ run' = [run EXCEPT !.phase = "waiting_for_input"]
              /\ UNCHANGED clientVars
         ELSE /\ request' = [request EXCEPT ![r] = [Idle EXCEPT !.at = "loop"]]
              /\ todo' = [todo EXCEPT ![r] = Pending(run.calls)]
              /\ loop' = r
              /\ UNCHANGED run
    /\ UNCHANGED <<providerVars, historyVars>>

-----------------------------------------------------------------------------
(* The loop of executeAndContinue, over the calls the pass began with.     *)
Visits(r, c) == loop = r /\ c \in Actionable(todo[r]) /\ \A d \in Actionable(todo[r]) : c <= d
After(r, c) == [todo EXCEPT ![r] = [d \in Calls |-> IF d > c THEN @[d] ELSE NoCall]]

\* Mutant of FailCall: the outcome is stored, and no result for the provider.
FailCallUnreported(r, c) ==
    /\ Visits(r, c)
    /\ run' = WithStatus(run, c, "failed")
    /\ todo' = After(r, c)
    /\ UNCHANGED <<request, loop, providerVars, historyVars>>

\* A dependency failed, or the arguments cannot be restored.
FailCall(r, c) ==
    /\ Visits(r, c)
    /\ run' = WithOutcome(run, c, "failed")
    /\ todo' = After(r, c)
    /\ UNCHANGED <<request, loop, providerVars, historyVars>>

StartTool(r, c) ==
    /\ Visits(r, c) /\ ~HasFailedDependency(c)
    /\ run' = WithStatus(run, c, "executing")
    /\ todo' = After(r, c)
    /\ loop' = None
    /\ request' = [request EXCEPT ![r] = [Idle EXCEPT !.at = "tool", !.of = c]]
    /\ UNCHANGED <<providerVars, historyVars>>

ToolEnds(r, outcome) ==
    /\ At(r, "tool") /\ loop = None
    /\ loop' = r
    /\ request' = [request EXCEPT ![r] = [Idle EXCEPT !.at = "loop"]]
    /\ LET c == request[r].of IN
       IF outcome \in Outcomes
         THEN /\ run' = WithOutcome(run, c, outcome)
              /\ ended' = [ended EXCEPT ![c] = outcome]
         ELSE run' = WithStatus(run, c, outcome) /\ UNCHANGED ended
    /\ UNCHANGED <<todo, approved, providerVars>>

\* The pass made progress, and the next one will.
NextPass(r) ==
    /\ loop = r /\ Actionable(todo[r]) = {} /\ Actionable(Pending(run.calls)) # {}
    /\ todo' = [todo EXCEPT ![r] = Pending(run.calls)]
    /\ UNCHANGED <<run, request, loop, providerVars, historyVars>>

\* The loop is over: the run waits for the user, or advances.
LoopEnds(r) ==
    /\ loop = r /\ Actionable(todo[r]) = {} /\ Actionable(Pending(run.calls)) = {}
    /\ loop' = None
    /\ request' = [request EXCEPT ![r] = Idle] /\ todo' = [todo EXCEPT ![r] = NoCalls]
Unapproved == \E c \in Calls : run.calls[c].status = "pending" /\ run.calls[c].approval = "pending"

\* Mutant of Unauthenticated: only a call that was approved is waited for.
UnauthenticatedApproved ==
    \E c \in Calls : run.calls[c].status = "authentication_required" /\ run.calls[c].approval = "approved"

Unauthenticated == \E c \in Calls : run.calls[c].status = "authentication_required"

WaitFor(r) ==
    /\ LoopEnds(r) /\ (Unapproved \/ Unauthenticated)
    /\ run' = [run EXCEPT !.phase = IF Unapproved THEN "waiting_for_approval"
                                                  ELSE "waiting_for_authentication"]
    /\ UNCHANGED <<providerVars, historyVars>>

\* The result of the batch: a call that is still pending depends on one that never settled.
Report == [c \in Calls |-> IF run.calls[c].status = "pending" THEN "failed" ELSE run.results[c]]

Advance(r) ==
    /\ LoopEnds(r) /\ ~Unapproved /\ ~Unauthenticated /\ run.needs # "asked" /\ run.turn < MaxTurns
    /\ run' = [run EXCEPT !.phase = "submitting_provider", !.turn = @ + 1, !.pending = run.turn + 1,
                          !.calls = NoCalls, !.results = NoResults, !.needs = "none"]
    /\ ended' = NoResults
    /\ UNCHANGED <<approved, providerVars>>

\* maxTurns is reached, or the result is too large.  The refusal of a need without an answer is rethrown
\* and records no failure; with one reader it is never reached.
BatchFails(r) ==
    /\ LoopEnds(r) /\ ~Unapproved /\ ~Unauthenticated
    /\ Fail
    /\ UNCHANGED <<providerVars, historyVars>>

-----------------------------------------------------------------------------
(* The provider-turn protocol.  A reply may be lost, and with it what the  *)
(* caller learns, not what the call did.                                   *)
Unanswered(x, at) == At(x, at) /\ request[x].reply = "none"
Reply(x, replies) == \E m \in replies \union {"error"} : request' = [request EXCEPT ![x].reply = m]
Turn(x) == request[x].of

\* A requestRef is accepted once.
ProviderStarts(x) ==
    /\ Unanswered(x, "submit")
    /\ IF provider[Turn(x)] = "none"
         THEN /\ provider' = [provider EXCEPT ![Turn(x)] = "alive"]
              /\ Reply(x, {"alive"})
         ELSE UNCHANGED provider /\ Reply(x, {})
    /\ UNCHANGED <<run, todo, loop, answer, historyVars>>

\* The submission fails before the provider's server accepts it.
SubmissionFails(x) ==
    /\ Unanswered(x, "submit") /\ Reply(x, {})
    /\ UNCHANGED <<run, todo, loop, providerVars, historyVars>>

ProviderReads(x) ==
    /\ Unanswered(x, "read") /\ Reply(x, {provider[Turn(x)]})
    /\ UNCHANGED <<run, todo, loop, providerVars, historyVars>>

\* The client asks for the turn before it cancels it by its turnRef.
ProviderLooks(x) ==
    /\ Unanswered(x, "cancel") /\ request[x].by = "turn"
    /\ IF provider[Turn(x)] \in Alive
         THEN request' = [request EXCEPT ![x].at = "confirm"]
         ELSE Reply(x, {provider[Turn(x)]})
    /\ UNCHANGED <<run, todo, loop, providerVars, historyVars>>

\* cancelStoredWebAiTurn refuses a turn that succeeded or failed; a request may have no turn.
ProviderCancels(x) ==
    /\ Unanswered(x, "confirm") \/ (Unanswered(x, "cancel") /\ request[x].by = "request")
    /\ provider' = IF provider[Turn(x)] \in Alive THEN [provider EXCEPT ![Turn(x)] = "cancelled"] ELSE provider
    /\ Reply(x, IF provider'[Turn(x)] = "cancelled" THEN {"cancelled"} ELSE {})
    /\ UNCHANGED <<run, todo, loop, answer, historyVars>>

\* The job of the turn ends, or waits for the user.
ProviderEnds(t) ==
    /\ provider[t] \in Alive
    /\ \/ /\ provider' = [provider EXCEPT ![t] = "succeeded"]
          /\ \E a \in Answers : answer' = [answer EXCEPT ![t] = a]
       \/ /\ \E m \in {"failed", "cancelled"} : provider' = [provider EXCEPT ![t] = m]
          /\ UNCHANGED answer
    /\ UNCHANGED <<run, clientVars, historyVars>>
ProviderWaits(t) ==
    /\ provider[t] = "alive"
    /\ provider' = [provider EXCEPT ![t] = "waiting_for_user"]
    /\ UNCHANGED <<run, clientVars, answer, historyVars>>

-----------------------------------------------------------------------------
(* What a request does after its await: `update' merges into the record.   *)
Answered(x, at) == At(x, at) /\ request[x].reply # "none" /\ loop = None
Return(x) == request' = [request EXCEPT ![x] = Back(x)] /\ UNCHANGED <<todo, loop>>
Learnt(x) == [turn |-> Turn(x), lifecycle |-> request[x].reply]

ToolsDiscovered(r) ==
    /\ At(r, "discover") /\ loop = None
    /\ Return(r)
    /\ \/ run' = [run EXCEPT !.phase = "submitting_provider", !.pending = Turn(r)]
       \/ Fail
    /\ UNCHANGED <<providerVars, historyVars>>

Submitted(r) ==
    /\ Answered(r, "submit")
    /\ Return(r)
    /\ IF request[r].reply = "error" THEN Fail
         ELSE run' = [run EXCEPT !.phase = "awaiting_provider", !.providerTurn = Learnt(r), !.pending = 0]
    /\ UNCHANGED <<providerVars, historyVars>>

\* acceptProviderResponse.
AcceptBatch(r) ==
    /\ Answered(r, "read") /\ request[r].reply = "succeeded" /\ answer[Turn(r)].kind = "batch"
    /\ Return(r)
    /\ LET a == answer[Turn(r)]
           calls == Accepted(a, Turn(r)) IN
       run' = [run EXCEPT !.providerTurn = Learnt(r), !.calls = calls,
                 !.results = [c \in Calls |-> IF c \in KnownFailures(a) THEN "failed" ELSE "none"],
                 !.needs = IF a.needs THEN "asked" ELSE "none",
                 !.phase = IF a.needs THEN "waiting_for_input"
                           ELSE IF \E c \in Calls : calls[c].approval = "pending"
                                  THEN "waiting_for_approval" ELSE "executing_batch"]
    /\ ended' = NoResults
    /\ UNCHANGED <<approved, providerVars>>

AcceptFinal(r) ==
    /\ Answered(r, "read") /\ request[r].reply = "succeeded" /\ answer[Turn(r)].kind = "final"
    /\ Return(r)
    /\ run' = [run EXCEPT !.phase = "succeeded", !.providerTurn = Learnt(r)]
    /\ UNCHANGED <<providerVars, historyVars>>

ReadReturns(r) ==
    /\ Answered(r, "read")
    /\ Return(r)
    /\ \/ /\ request[r].reply \notin {"error", "succeeded"}
          /\ run' = [run EXCEPT !.providerTurn = Learnt(r),
                       !.phase = IF request[r].reply \in Terminal THEN request[r].reply ELSE "awaiting_provider"]
       \/ /\ request[r].reply = "error" \/ (request[r].reply = "succeeded" /\ answer[Turn(r)].kind = "malformed")
          /\ Fail
    /\ UNCHANGED <<providerVars, historyVars>>

\* Mutant of CancelReturns: a cancel that was refused ends the run as cancelled.
CancelReturnsAnyway(x) ==
    /\ Answered(x, "cancel") \/ Answered(x, "confirm")
    /\ Return(x)
    /\ run' = [run EXCEPT !.pending = 0, !.cancel = "none",
                 !.phase = IF request[x].reply \in {"succeeded", "failed"} THEN "awaiting_provider" ELSE "cancelled"]
    /\ UNCHANGED <<providerVars, historyVars>>

CancelReturns(x) ==
    /\ Answered(x, "cancel") \/ Answered(x, "confirm")
    /\ Return(x)
    /\ IF request[x].reply = "error" THEN Fail
         ELSE run' = [run EXCEPT !.providerTurn = Learnt(x), !.pending = 0, !.cancel = "none",
                        !.phase = IF request[x].reply \in {"failed", "cancelled"} THEN request[x].reply
                                                                               ELSE "awaiting_provider"]
    /\ UNCHANGED <<providerVars, historyVars>>

-----------------------------------------------------------------------------
(* cancel and resume.                                                      *)
Cancel(k) ==
    /\ request[k] = Idle /\ loop = None
    /\ LET unsubmitted == run.phase = "submitting_provider" /\ run.providerTurn.turn # run.turn
           by == IF unsubmitted THEN "request" ELSE "turn" IN
       \/ /\ run.phase \in Terminal
          /\ Return(k) /\ UNCHANGED run
       \/ /\ run.phase \notin Terminal /\ ~unsubmitted /\ run.providerTurn.lifecycle \notin Alive
          /\ Return(k) /\ run' = [run EXCEPT !.phase = "cancelled"]
       \/ /\ run.phase \notin Terminal /\ (unsubmitted \/ run.providerTurn.lifecycle \in Alive)
          /\ IF unsubmitted \/ run.providerTurn.turn = run.turn
               THEN /\ Await(k, Asked("cancel", by))
                    /\ run' = [run EXCEPT !.phase = "cancelling_provider", !.cancel = by]
               ELSE Return(k) /\ Fail
    /\ UNCHANGED <<providerVars, historyVars>>

\* resume does nothing the provider waits for: it fails the run.
ResumeProvider ==
    /\ loop = None /\ run.phase \notin Terminal /\ run.providerTurn.lifecycle = "waiting_for_user"
    /\ Fail
    /\ UNCHANGED <<clientVars, providerVars, historyVars>>
Resumable(phase) == loop = None /\ run.phase = phase /\ run.providerTurn.lifecycle # "waiting_for_user"

\* Mutant of Approve: the digest is not compared.
ApproveAnyDigest(given, t) ==
    /\ Resumable("waiting_for_approval")
    /\ \A c \in Calls : run.calls[c].approval = "pending" /\ ~HasFailedDependency(c) => c \in given
    /\ run' = [run EXCEPT !.phase = "executing_batch",
                 !.calls = [c \in Calls |->
                    IF @[c].approval # "pending" THEN @[c] ELSE [@[c] EXCEPT !.approval = "approved"]]]
    /\ approved' = approved \union {<<c, t>> : c \in given}
    /\ UNCHANGED <<clientVars, providerVars, ended>>

\* The user approves calls of the batch of turn t, all that wait, or the resume is refused.
Approve(given, t) ==
    /\ Resumable("waiting_for_approval")
    /\ \A c \in Calls :
          run.calls[c].approval = "pending" /\ ~HasFailedDependency(c)
             => c \in given /\ run.calls[c].turn = t
    /\ run' = [run EXCEPT !.phase = "executing_batch",
                 !.calls = [c \in Calls |->
                    IF @[c].approval # "pending" THEN @[c]
                    ELSE [@[c] EXCEPT !.approval = IF HasFailedDependency(c)
                                                     THEN "not_required" ELSE "approved"]]]
    /\ approved' = approved \union {<<c, t>> : c \in given}
    /\ UNCHANGED <<clientVars, providerVars, ended>>

\* Mutant of AnswerNeeds: the answers are not kept.
AnswerNeedsLost ==
    /\ Resumable("waiting_for_input")
    /\ run' = [run EXCEPT !.phase = "executing_batch"]
    /\ UNCHANGED <<clientVars, providerVars, historyVars>>

AnswerNeeds ==
    /\ Resumable("waiting_for_input")
    /\ run' = [run EXCEPT !.phase = "executing_batch",
                          !.needs = IF @ = "asked" THEN "answered" ELSE @]
    /\ UNCHANGED <<clientVars, providerVars, historyVars>>

CompleteAuthentication ==
    /\ Resumable("waiting_for_authentication")
    /\ run' = [run EXCEPT !.phase = "executing_batch",
                 !.calls = [c \in Calls |-> IF @[c].status = "authentication_required"
                                                 THEN [@[c] EXCEPT !.status = "pending"] ELSE @[c]]]
    /\ UNCHANGED <<clientVars, providerVars, historyVars>>

-----------------------------------------------------------------------------
\* start.
Init ==
    /\ run = [phase |-> "discovering_tools", turn |-> 1, pending |-> 0, cancel |-> "none",
              providerTurn |-> NoTurn, calls |-> NoCalls, results |-> NoResults, needs |-> "none"]
    /\ request = [x \in Clients |-> Idle] /\ todo = [r \in Readers |-> NoCalls] /\ loop = None
    /\ provider = [t \in Turns |-> "none"] /\ answer = [t \in Turns |-> NoAnswer]
    /\ approved = {} /\ ended = NoResults

Read(r) == DiscoverTools(r) \/ SubmitPending(r) \/ ReadProvider(r) \/ CancelAgain(r) \/ ExecuteBatch(r)
Loop(r) == \/ \E c \in Calls : FailCall(r, c) \/ StartTool(r, c)
           \/ NextPass(r) \/ WaitFor(r) \/ Advance(r) \/ BatchFails(r)
Settle(r) == \E outcome \in Outcomes : ToolEnds(r, outcome)
Challenge(r) == ToolEnds(r, "authentication_required")
Replies(x) == ProviderStarts(x) \/ SubmissionFails(x) \/ ProviderReads(x) \/ ProviderLooks(x) \/ ProviderCancels(x)
Returns(r) == ToolsDiscovered(r) \/ Submitted(r) \/ AcceptBatch(r) \/ AcceptFinal(r) \/ ReadReturns(r)
Intervene == (\E given \in SUBSET Calls, t \in Turns : Approve(given, t)) \/ AnswerNeeds \/ CompleteAuthentication

Next ==
    \/ \E r \in Readers : Read(r) \/ Loop(r) \/ Settle(r) \/ Challenge(r) \/ Returns(r)
    \/ \E x \in Clients : Replies(x) \/ CancelReturns(x)
    \/ \E t \in Turns : ProviderEnds(t) \/ ProviderWaits(t)
    \/ \E k \in Cancellers : Cancel(k)
    \/ Intervene \/ ResumeProvider
Spec == Init /\ [][Next]_vars

(***************************************************************************)
(* Fairness.  A client polls, every request gets a reply or an error, the  *)
(* tools end and do not ask for a sign-in for ever, the jobs of the turns  *)
(* end, and the user answers what the run waits for.  Nobody has to        *)
(* cancel.                                                                 *)
(***************************************************************************)
Progress(r) == Read(r) \/ Loop(r) \/ Settle(r) \/ Challenge(r) \/ Replies(r) \/ Returns(r) \/ CancelReturns(r)
FairSpec ==
    /\ Spec
    /\ \A r \in Readers : WF_vars(Progress(r)) /\ SF_vars(Settle(r))
    /\ \A k \in Cancellers : WF_vars(Replies(k) \/ CancelReturns(k))
    /\ WF_vars(\E t \in Turns : ProviderEnds(t))
    /\ WF_vars(Intervene)

-----------------------------------------------------------------------------
TypeOK ==
    /\ run \in [phase : Phases, turn : Turns, pending : 0..MaxTurns, cancel : {"none", "request", "turn"},
                providerTurn : [turn : 0..MaxTurns, lifecycle : Lifecycles],
                calls : [Calls -> HarnessCall \union {NoCall}],
                results : [Calls -> Outcomes \union {"none"}],
                needs : {"none", "asked", "answered"}]
    /\ request \in [Clients -> [at : {"idle", "gone", "discover", "submit", "read", "cancel", "confirm", "tool", "loop"},
                                of : (0..MaxTurns) \union Calls, by : {"none", "request", "turn"},
                                reply : Lifecycles \union {"error"}]]
    /\ todo \in [Readers -> [Calls -> HarnessCall \union {NoCall}]] /\ loop \in Readers \union {None}
    /\ provider \in [Turns -> Lifecycles] /\ answer \in [Turns -> Answers \union {NoAnswer}]
    /\ approved \subseteq Calls \X Turns /\ ended \in [Calls -> Outcomes \union {"none"}]

\* With one reader, as the loop of the CLI polls: what the record says of a call, what the provider will be
\* told, what the tools did and what the user approved agree at every await, and nobody changes the
\* calls a reader still has to visit.
Busy(r) == request[r].at \in {"loop", "tool"}
CallConsistent(c) ==
    LET call == run.calls[c] IN
    /\ run.results[c] # "none" <=> call.status \in Outcomes
    /\ ended[c] # "none" => run.results[c] = ended[c]
    /\ run.results[c] = "succeeded" => ended[c] = "succeeded"
    /\ call.approval = "approved" => <<c, call.turn>> \in approved
    /\ call # NoCall /\ call.approval = "not_required" /\ c \notin ReadOnly
         => call.status = "failed" \/ HasFailedDependency(c)
    /\ call.status = "executing" <=> \E r \in Readers : request[r].at = "tool" /\ request[r].of = c
ReaderConsistent(r) ==
    /\ request[r].at = "loop" <=> loop = r
    /\ ~Busy(r) => todo[r] = NoCalls
    /\ Busy(r) => /\ run.phase \notin Waits /\ run.needs # "asked"
                  /\ \A c \in Calls : todo[r][c] # NoCall => todo[r][c] = run.calls[c] /\ run.calls[c].status = "pending"
RecordConsistent ==
    /\ TypeOK
    /\ \A c \in Calls : CallConsistent(c)
    /\ \A r \in Readers : ReaderConsistent(r)

\* A tool that needs approval starts only when the user approved this very call, by its digest.
ToolsApproved ==
    [][\A r \in Readers, c \in Calls : StartTool(r, c) => c \in ReadOnly \/ <<c, todo[r][c].turn>> \in approved]_vars

\* A tool starts when what it depends on was done in this batch and the questions of the batch are
\* answered, and only once: unless its sign-in interrupted it, or the batch was accepted again.
ToolsInOrder ==
    [][\A r \in Readers, c \in Calls : StartTool(r, c) =>
          /\ \A d \in DependsOn[c] : ended[d] = "succeeded"
          /\ ended[c] = "none" /\ run.needs # "asked"]_vars

\* What the provider is told of a batch is what happened: every call is reported, as what its tool
\* did, or as failed when its tool did not run.
ReportFaithful ==
    [][\A r \in Readers : Advance(r) =>
          \A c \in Calls : Report[c] = IF run.calls[c] = NoCall THEN "none"
                                       ELSE IF ended[c] # "none" THEN ended[c] ELSE "failed"]_vars

\* Once the requests are over, a cancelled run leaves no turn of the provider behind; unless a cancel
\* that was overtaken had put an earlier turn back into the record.
CancelledStopsProvider ==
    (/\ run.phase = "cancelled" /\ run.providerTurn.turn \in {0, run.turn}
     /\ \A x \in Clients : request[x] \in {Idle, Gone})
        => \A t \in Turns : provider[t] \notin Alive

\* Whatever the cancels run into, the run settles and stays settled.
RunEnds == <>[](run.phase \in Terminal)

\* "Harness-owned tools execute only inside the Harness's explicit authorization and current AgentRun
\* boundary" (docs/architecture.md:301): no tool starts in a run that is over.
CancelStopsTools == [][\A r \in Readers, c \in Calls : StartTool(r, c) => run.phase \notin Terminal]_vars
=============================================================================
