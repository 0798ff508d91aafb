------------------------------ MODULE ManagedRunner ------------------------------
(***************************************************************************)
(* The runner that drives provider pages for the jobs of the store.  Each  *)
(* job it takes becomes an execution: a chain of asynchronous steps that   *)
(* reads the store, waits for a page, and writes the store back, while     *)
(* clients cancel jobs, users clear sign-ins, the browser runtime is       *)
(* quiesced and the daemon dies.  A step between two awaits is one action. *)
(*                                                                         *)
(* The provider page is external: it shows blockers, accepts a prompt      *)
(* (Deliver) and reports what it likes.  A success of the submitting       *)
(* action is reported only for a prompt the page accepted.                 *)
(***************************************************************************)
EXTENDS JobStore

CONSTANT Scripts    \* action sequences a request may carry

ASSUME ScriptsAssumption ==
    /\ Scripts # {}
    /\ Scripts \subseteq Seq({"edit", "workspace", "submit", "read"}) \ {<<>>}

VARIABLES
    ctl,        \* the browser runtime: "stopped", "running", "quiescing" or "quiesced"
    script,     \* the actions of each job's request
    exec,       \* the execution of each job
    delivered,  \* history: prompts of a job each provider accepted
    doubted,    \* history: providers a job left with an uncertain submission
    halted      \* history: the runtime was quiesced since the daemon started

runVars == <<ctl, script, exec, delivered, doubted, halted>>
allVars == <<vars, runVars>>

-----------------------------------------------------------------------------
Points == {"none", "start", "open", "loop", "handoff", "ready", "acting", "fell",
           "failing", "finish"}

\* initialExecutionState, with the canceled flag of executeJob and the page's acceptance.
Idle == [pc |-> "none", cursor |-> 1, submitted |-> FALSE, answered |-> FALSE,
         canceled |-> FALSE, landed |-> FALSE]

At(j, points) == exec[j].pc \in points
Goto(j, point) == exec' = [exec EXCEPT ![j].pc = point]
Quit(j) == exec' = [exec EXCEPT ![j] = Idle]
Kind(j) == script[j][exec[j].cursor]
Here(j) == request[j].provider
Browser(j) == request[j].mode = "browser"

\* The signal of the execution: its runtime was stopped, or it saw its job canceled.
Aborted(j) == exec[j].canceled \/ ctl = "quiescing"

KeepHistory == UNCHANGED <<ctl, script, delivered, doubted, halted>>
KeepStore == UNCHANGED vars

\* A mutating action the next provider could not rebuild has completed.
Pinned(j) == \E i \in 1 .. exec[j].cursor - 1 : script[j][i] = "workspace"

RInit ==
    /\ Init
    /\ ctl = "stopped"
    /\ script \in [Jobs -> Scripts]
    /\ exec = [j \in Jobs |-> Idle]
    /\ delivered = [j \in Jobs |-> [v \in Providers |-> 0]]
    /\ doubted = [j \in Jobs |-> {}]
    /\ halted = FALSE

-----------------------------------------------------------------------------
(* The daemon and the browser runtime.                                     *)

Open ==
    /\ Migrate \/ RebuildDashboard
    /\ UNCHANGED runVars

\* The server opens its store and starts the runtime.
Serve ==
    /\ FailInterrupted
    /\ ctl' = "running"
    /\ UNCHANGED <<script, exec, delivered, doubted, halted>>

Die ==
    /\ Crash
    /\ ctl' = "stopped"
    /\ exec' = [j \in Jobs |-> Idle]
    /\ halted' = FALSE
    /\ UNCHANGED <<script, delivered, doubted>>

\* quiesce: the signal of every execution is aborted; none may take another job.
Quiesce ==
    /\ ctl = "running"
    /\ ctl' = "quiescing"
    /\ halted' = TRUE
    /\ KeepStore
    /\ UNCHANGED <<script, exec, delivered, doubted>>

\* settleRunner: every execution has settled.
Settle ==
    /\ ctl = "quiescing"
    /\ \A j \in Jobs : At(j, {"none"})
    /\ ctl' = "quiesced"
    /\ KeepStore
    /\ UNCHANGED <<script, exec, delivered, doubted, halted>>

\* A request that creates a job wakes the runtime, unless it is quiescing.
Submit(j, r) ==
    /\ CreateJob(j, r)
    /\ ctl' = IF ctl = "quiesced" THEN "running" ELSE ctl
    /\ UNCHANGED <<script, exec, delivered, doubted, halted>>

Cancel(j) ==
    /\ CancelJob(j) \/ CancelTurnJob(j)
    /\ UNCHANGED runVars

-----------------------------------------------------------------------------
(* Leaving a provider.                                                     *)

MayLeave(j, f, submitting) ==
    MayFallBack(request[j], f, exec[j].submitted, submitting, exec[j].answered, Pinned(j))
NextFor(j, f) == NextRequest(request[j], FailureReason(f), exec[j].submitted)
ProofFor(j, f) == RejectionProof(request[j], f, exec[j].submitted, exec[j].answered)

\* The fallback plan is followed, in the runner's opinion and in the store's.
Leave(j, f, submitting) ==
    /\ MayLeave(j, f, submitting)
    /\ FallbackJob(j, NextFor(j, f), ProofFor(j, f))
    /\ Goto(j, "fell")
    /\ doubted' = IF f = "uncertain_submit"
                  THEN [doubted EXCEPT ![j] = @ \union {Here(j)}]
                  ELSE doubted
    /\ UNCHANGED <<ctl, script, delivered, halted>>

\* There is no plan to follow, or the store refuses it.
Stay(j, f, submitting) ==
    MayLeave(j, f, submitting) => ~MayRestart(j, NextFor(j, f), ProofFor(j, f))

\* failOrFallback, where the caller has found the failure f.
FailOrFallback(j, f, submitting) ==
    /\ ~Aborted(j)
    /\ \/ Leave(j, f, submitting)
       \/ Stay(j, f, submitting) /\ Goto(j, "failing") /\ KeepStore /\ KeepHistory

-----------------------------------------------------------------------------
(* One execution.                                                          *)

Take(j) ==
    /\ ctl = "running"
    /\ TakeNextJob(j)
    /\ Goto(j, "start")
    /\ KeepHistory

\* projectJobProviderCapacity; a job in direct mode goes to its protocol at once.
Project(j) ==
    /\ At(j, {"start"})
    /\ ~Aborted(j)
    /\ \/ Browser(j) /\ status[j] \in Executing /\ Goto(j, "open") /\ KeepStore /\ KeepHistory
       \/ Browser(j) /\ status[j] \in Executing /\ FailOrFallback(j, "capacity", FALSE)
       \/ Browser(j) /\ status[j] \notin Executing /\ Goto(j, "failing") /\ KeepStore /\ KeepHistory
       \/ ~Browser(j) /\ Goto(j, "ready") /\ KeepStore /\ KeepHistory

\* acquireProviderPage, navigateToTarget and the capability preflight.
OpenPage(j) ==
    /\ At(j, {"open"})
    /\ \/ ~Aborted(j) /\ Goto(j, "loop") /\ KeepStore /\ KeepHistory
       \/ \E f \in {"unreachable", "unavailable", "ambiguous"} : FailOrFallback(j, f, FALSE)

(***************************************************************************)
(* clearUserResolvableBlocker once the page has shown a blocker b.  Unlike *)
(* failOrFallback it does not look at the signal again before it writes.   *)
(* Headless executions fail where a headed one waits for the user.         *)
(***************************************************************************)
Blocked(j, b) ==
    /\ At(j, {"open", "loop"})
    /\ Browser(j)
    /\ \/ Leave(j, b, FALSE)
       \/ Stay(j, b, FALSE) /\ Goto(j, "failing") /\ KeepStore /\ KeepHistory
       \/ /\ ~MayLeave(j, b, FALSE)
          /\ b \in UserBlockers
          /\ MarkWaitingForUser(j)
          /\ Goto(j, "handoff")
          /\ KeepHistory

\* The user cleared the blocker: a response is waited for again, any other action goes on.  A handoff during
\* the capability preflight goes back to that once and then into the loop; here it goes straight on, and what
\* the preflight may find is left to OpenPage.
HandoffResolved(j) ==
    /\ At(j, {"handoff"})
    /\ ~Aborted(j)
    /\ MarkRunning(j)
    /\ Goto(j, IF Kind(j) = "read" THEN "loop" ELSE "ready")
    /\ KeepHistory

\* Timeout, or a terminal blocker: after a submission that may be a visible refusal.
HandoffEnds(j) ==
    /\ At(j, {"handoff"})
    /\ \E f \in {"rate_limit", "credits", "ambiguous"} : FailOrFallback(j, f, FALSE)

\* No blocker, the action is prepared or the response is ready.
Prepared(j) ==
    /\ At(j, {"loop"})
    /\ ~Aborted(j)
    /\ Goto(j, "ready")
    /\ KeepStore
    /\ KeepHistory

\* prepareAction failed, or the response did not come before the wait ceiling.
PrepareFails(j) ==
    /\ At(j, {"loop"})
    /\ \E f \in IF Kind(j) = "read" THEN {"ambiguous"} ELSE {"unavailable", "ambiguous"} :
           FailOrFallback(j, f, FALSE)

\* Mutant of Begin: the attempt is not recorded before it is made.
BeginUnadmitted(j) ==
    /\ At(j, {"ready"})
    /\ ~Aborted(j)
    /\ Goto(j, IF Browser(j) /\ status[j] # "running" THEN "failing" ELSE "acting")
    /\ KeepStore
    /\ KeepHistory

\* admitProviderAction, then executeAction is called; direct protocols are not admitted.
Begin(j) ==
    /\ At(j, {"ready"})
    /\ ~Aborted(j)
    /\ \/ /\ Browser(j) /\ Kind(j) = "submit"
          /\ AdmitProviderAction(j)
          /\ Goto(j, "acting")
          /\ KeepHistory
       \/ /\ Browser(j) => Kind(j) # "submit" /\ status[j] = "running"
          /\ Goto(j, "acting")
          /\ KeepStore
          /\ KeepHistory
       \/ /\ Browser(j) /\ status[j] # "running"
          /\ Goto(j, "failing")
          /\ KeepStore
          /\ KeepHistory
       \/ Browser(j) /\ Kind(j) = "submit" /\ status[j] = "running"
              /\ FailOrFallback(j, "capacity", TRUE)

\* The page accepts the prompt; nobody has heard of it yet.
Deliver(j) ==
    /\ At(j, {"acting"})
    /\ Kind(j) = "submit"
    /\ ~exec[j].landed
    /\ exec' = [exec EXCEPT ![j].landed = TRUE]
    /\ delivered' = [delivered EXCEPT ![j][Here(j)] = @ + 1]
    /\ KeepStore
    /\ UNCHANGED <<ctl, script, doubted, halted>>

\* The loop moves to the next action, or out of the script.
Advanced(e, j) ==
    [e EXCEPT !.cursor = @ + 1, !.landed = FALSE,
              !.pc = IF e.cursor = Len(script[j]) THEN "finish"
                     ELSE IF Browser(j) THEN "loop" ELSE "ready"]

\* executeAction succeeded; a submission is recorded, in memory and then in the store.
Succeed(j) ==
    /\ At(j, {"acting"})
    /\ ~Aborted(j)
    /\ \/ /\ Kind(j) = "submit"
          /\ exec[j].landed
          /\ RecordProviderSubmission(j)
          /\ exec' = [exec EXCEPT ![j] = Advanced([@ EXCEPT !.submitted = TRUE], j)]
       \/ /\ Kind(j) = "submit"
          /\ exec[j].landed
          /\ status[j] \notin Executing
          /\ Goto(j, "failing")
          /\ KeepStore
       \/ /\ Kind(j) = "read"
          /\ \E text \in BOOLEAN :
                 exec' = [exec EXCEPT ![j] =
                             Advanced([exec[j] EXCEPT !.answered = @ \/ text], j)]
          /\ KeepStore
       \/ /\ Kind(j) \in {"edit", "workspace"}
          /\ exec' = [exec EXCEPT ![j] = Advanced(@, j)]
          /\ KeepStore
    /\ KeepHistory

ActionFailures(kind) ==
    CASE kind = "submit" -> {"uncertain_submit", "input_too_long", "ambiguous"}
      [] kind = "read" -> {"input_too_long", "ambiguous"}
      [] OTHER -> {"unreachable", "unavailable", "ambiguous"}

\* executeAction failed, whatever the page did with the prompt; direct modes never leave.
ActFails(j) ==
    /\ At(j, {"acting"})
    /\ \/ /\ Browser(j)
          /\ \E f \in ActionFailures(Kind(j)) : FailOrFallback(j, f, Kind(j) = "submit")
       \/ /\ ~Browser(j)
          /\ ~Aborted(j)
          /\ Goto(j, "failing")
          /\ KeepStore
          /\ KeepHistory

\* Mutant of Restart: the memory of the submission outlives the provider.
RestartRemembering(j) ==
    /\ At(j, {"fell"})
    /\ ~Aborted(j)
    /\ exec' = [exec EXCEPT ![j] = [Idle EXCEPT !.pc = "start", !.submitted = exec[j].submitted]]
    /\ KeepStore
    /\ KeepHistory

\* ProviderFallbackSignal: the job is read again and executed from the start.
Restart(j) ==
    /\ At(j, {"fell"})
    /\ ~Aborted(j)
    /\ exec' = [exec EXCEPT ![j] = [Idle EXCEPT !.pc = "start"]]
    /\ KeepStore
    /\ KeepHistory

\* Mutant of Fail: only a running job is completed, a waiting one is not.
FailRunningOnly(j) ==
    /\ At(j, {"failing"})
    /\ ~Aborted(j)
    /\ \/ status[j] = "running" /\ CompleteWithError(j)
       \/ status[j] # "running" /\ KeepStore
    /\ Quit(j)
    /\ KeepHistory

\* completeJob with the error; a store that refuses it is ignored.
Fail(j) ==
    /\ At(j, {"failing"})
    /\ ~Aborted(j)
    /\ \/ CompleteWithError(j)
       \/ status[j] \notin Executing /\ KeepStore
    /\ Quit(j)
    /\ KeepHistory

\* completeJob with the result: the signal was looked at before the savings were measured.
Finish(j) ==
    /\ At(j, {"finish"})
    /\ \/ CompleteWithResult(j, {})
       \/ status[j] \notin Executing /\ KeepStore
    /\ Quit(j)
    /\ KeepHistory

\* Mutant of Abandon: only the runtime's own signal ends an execution.
AbandonOnQuiesceOnly(j) ==
    /\ ~At(j, {"none"})
    /\ ctl = "quiescing"
    /\ Quit(j)
    /\ KeepStore
    /\ KeepHistory

\* Mutant of Abandon: only a canceled job ends its execution.
AbandonOnCancelOnly(j) ==
    /\ ~At(j, {"none"})
    /\ exec[j].canceled
    /\ Quit(j)
    /\ KeepStore
    /\ KeepHistory

\* The execution notices its signal and returns without writing the store.
Abandon(j) ==
    /\ ~At(j, {"none"})
    /\ Aborted(j)
    /\ Quit(j)
    /\ KeepStore
    /\ KeepHistory

\* The cancel poll of executeJob; no timer fires between a fallback and the new reading.
PollCancel(j) ==
    /\ ~At(j, {"none", "fell"})
    /\ status[j] = "canceled"
    /\ exec' = [exec EXCEPT ![j].canceled = TRUE]
    /\ KeepStore
    /\ KeepHistory

-----------------------------------------------------------------------------
\* What the execution of j does by itself.
Work(j) ==
    \/ Project(j) \/ OpenPage(j) \/ Prepared(j) \/ Begin(j) \/ Succeed(j)
    \/ Restart(j) \/ Fail(j) \/ Finish(j) \/ Abandon(j)

RNext ==
    \/ Open \/ Serve \/ Die \/ Quiesce \/ Settle
    \/ \E j \in Jobs :
        \/ \E r \in NewRequests : Submit(j, r)
        \/ Cancel(j) \/ Take(j) \/ PollCancel(j)
        \/ Work(j)
        \/ \E b \in Blockers : Blocked(j, b)
        \/ HandoffResolved(j) \/ HandoffEnds(j)
        \/ PrepareFails(j) \/ Deliver(j) \/ ActFails(j)

(***************************************************************************)
(* Fairness.  An execution is a chain of promises the event loop keeps     *)
(* running, polls on timers, and every wait in it has a deadline: actions  *)
(* time out, the handoff ends, and the wait for a response has an absolute *)
(* ceiling that blockers coming and going do not reset.  The pages  *)
(* are asked to answer an evaluation or to fail it, whatever they show;    *)
(* nothing is asked of clients, users or the operator.                     *)
(***************************************************************************)
Fairness ==
    /\ \A j \in Jobs :
        /\ WF_allVars(Work(j))
        /\ WF_allVars(HandoffEnds(j))
        /\ SF_allVars(PrepareFails(j))
        /\ WF_allVars(ActFails(j))
        /\ WF_allVars(PollCancel(j))
    /\ WF_allVars(Settle)

RSpec == RInit /\ [][RNext]_allVars
FairRSpec == RSpec /\ Fairness

-----------------------------------------------------------------------------
RTypeOK ==
    /\ TypeOK
    /\ ctl \in {"stopped", "running", "quiescing", "quiesced"}
    /\ script \in [Jobs -> Scripts]
    /\ exec \in [Jobs -> [pc : Points, cursor : Nat, submitted : BOOLEAN, answered : BOOLEAN,
                          canceled : BOOLEAN, landed : BOOLEAN]]
    /\ delivered \in [Jobs -> [Providers -> Nat]]
    /\ doubted \in [Jobs -> SUBSET Providers]
    /\ halted \in BOOLEAN

(***************************************************************************)
(* Whatever the runner, its pages, its users and its crashes do, the store *)
(* only takes the steps of its own specification: in particular the        *)
(* submission the runner writes into a fallback is the one on the row.     *)
(***************************************************************************)
StoreSpec == Spec

(***************************************************************************)
(* What the runner remembers and the row agree: while nobody quiesced the  *)
(* runtime an unfinished job has an execution, and that execution knows    *)
(* whether the prompt is on record as sent, across fallbacks; the proof of *)
(* refusal is built from the one and judged against the other.             *)
(***************************************************************************)
MemoryAgrees ==
    /\ RTypeOK
    /\ \A j \in Jobs : status[j] \in Executing =>
          /\ phase = "serving" /\ ~halted => ~At(j, {"none"})
          /\ ~At(j, {"none", "fell"}) => exec[j].submitted = submitted[j]

(***************************************************************************)
(* Every prompt a provider accepted from the browser was admitted before:  *)
(* the ledger of attempts is never behind what was really sent, even if    *)
(* the daemon died before it recorded the submission.  And a job that      *)
(* succeeded says it was submitted, and its last provider did accept it.   *)
(***************************************************************************)
DeliveriesAdmitted ==
    /\ \A j \in Jobs, v \in Providers : Browser(j) => delivered[j][v] <= admissions[j][v]
    /\ \A j \in Jobs : status[j] = "succeeded" /\ "submit" \in {script[j][i] : i \in DOMAIN script[j]} =>
          submitted[j] /\ delivered[j][Here(j)] = 1

Refused(j, v) ==
    \E i \in DOMAIN request[j].trail : request[j].trail[i] \in RefusedAttempt(v)

(***************************************************************************)
(* No provider accepts the same prompt twice, whatever fails and restarts, *)
(* and a job moves on from a provider that accepted its prompt only if     *)
(* that provider visibly refused it, or if the page left the submission    *)
(* in doubt.                                                               *)
(***************************************************************************)
ReplayExplained ==
    \A j \in Jobs, v \in Providers :
        /\ delivered[j][v] <= 1
        /\ delivered[j][v] > 0 /\ Here(j) # v => Refused(j, v) \/ v \in doubted[j]

\* An answer that was read is never thrown away by a restart on another provider.
AnswerKept == [][\A j \in Jobs : exec[j].answered => exec'[j].pc # "fell"]_allVars

(***************************************************************************)
(* A job that was taken ends, unless the daemon dies or the runtime is     *)
(* quiesced under it: no blocker, handoff, fallback or lost answer keeps   *)
(* it running for ever.                                                    *)
(***************************************************************************)
TakenJobEnds ==
    \A j \in Jobs : status[j] \in Executing ~>
        (status[j] \in Terminal \/ halted \/ phase # "serving")

\* A canceled job gives up its execution, whatever that was waiting for.
CanceledJobStops == \A j \in Jobs : status[j] = "canceled" ~> At(j, {"none"})

\* Quiescing the runtime always comes to an end.
QuiesceSettles == ctl = "quiescing" ~> ctl # "quiescing"

=============================================================================
