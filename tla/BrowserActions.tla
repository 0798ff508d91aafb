------------------------------ MODULE BrowserActions ------------------------------
(***************************************************************************)
(* The browser extension of the harness: a side panel, the daemon's broker *)
(* of page actions, the run they belong to, and the user's page.  The run  *)
(* proposes actions, the user decides each of them in the panel, the panel *)
(* applies what was approved and reports what the page answered, and the   *)
(* run waits for that with a deadline.  The panel's two loops, its         *)
(* buttons and the daemon meet in separate requests that overtake one      *)
(* another.  One session and one run; how the run talks to its provider is *)
(* reduced to what AgentRun lets it be told.  Each call of a batch freezes *)
(* its action in the broker before the batch stands: the broker may offer  *)
(* an action whose call the run never recorded, or recorded as failed.     *)
(***************************************************************************)
EXTENDS Integers, FiniteSets

CONSTANTS
    N,              \* bound: page actions a run proposes, numbered by createdAt
    MaxDecisions    \* bound: decisions of the user on their way to the daemon
ASSUME NAssumption == N \in Nat \ {0}

VARIABLES
    session,    \* the broker's session is attached and bound to the run
    broker,     \* ActionState of each action: stage of the decision and result
    run,        \* phase of the run, and its calls (those that need approval)
    poll,       \* pollUntilTerminal and the read it waits for
    loop,       \* actionLoop and the action it applies
    proposal,   \* the action whose buttons the panel offers, or 0
    panel,      \* running, stopped by an error, cleared, or closed by the user
    own,        \* the panel's sessionId is that of the run
    active,     \* the panel shows the run as active: cancel is offered, attaching is not
    clicks,     \* decisions on their way to the daemon
    cancel, detach,         \* the panel's other requests
    applied,    \* appliedActions
    given,      \* number of actions proposed so far
    approved, acted, answer \* history: approving clicks; acts of the page, and what it answered

daemonVars == <<session, broker, run, given>>
screen == <<proposal, panel, own, active>>
requests == <<clicks, cancel, detach>>
panelVars == <<loop, screen, requests, applied>>
pageVars == <<approved, acted, answer>>
vars == <<daemonVars, poll, panelVars, pageVars>>

-----------------------------------------------------------------------------
Actions == 1..N
Answers == {"succeeded", "failed"}
Stages == {"absent", "awaiting", "applying", "rejected", "expired"} \union Answers
Terminal == {"over"}        \* succeeded, failed and cancelled alike: nothing here tells them apart
Phases == {"provider", "input", "approval", "executing", "lost"} \union Terminal
\* A dropped call failed at once, for it depends on a call of its batch that is invalid.
Calls == {"none", "pending", "dropped", "approved", "executing"} \union Answers
Quiet == [at |-> "idle", of |-> 0, view |-> "none"]
Rest == [at |-> "idle", of |-> 0, answer |-> "none"]
\* A panel that was closed hears no reply.
Reply(view) == IF panel = "closed" THEN Quiet ELSE [at |-> "reply", of |-> 0, view |-> view]

Unsettled(a) == broker[a] \in {"awaiting", "applying"}
Offered(a) == Unsettled(a) /\ \A b \in Actions : Unsettled(b) => a <= b     \* nextAction
Pending == {a \in Actions : run.call[a] = "pending"}

\* presentRun: a view is only shown while the session is bound to the run.  The panel tells apart whether
\* the run goes on.
View(phase) == Reply(IF ~session THEN "error" ELSE IF phase \in Terminal THEN "over" ELSE "active")
SetPhase(phase) == run' = [run EXCEPT !.phase = phase]

-----------------------------------------------------------------------------
(* The panel's poll, and what the run does while it waits.                 *)
PollBegins ==
    /\ panel = "running" /\ poll = Quiet
    /\ session => run.phase # "executing"
    /\ poll' = IF ~session THEN Reply("error")
               ELSE IF run.phase = "provider" THEN [Quiet EXCEPT !.at = "provider"] ELSE View(run.phase)
    /\ UNCHANGED <<daemonVars, panelVars, pageVars>>

\* The provider goes on, ends its answer, asks the user for input, or fails; a turn limit fails the run too.
ProviderTells ==
    /\ poll.at = "provider"
    /\ \E phase \in {"provider", "input"} \union Terminal : SetPhase(phase) /\ poll' = View(phase)
    /\ UNCHANGED <<session, broker, given, panelVars, pageVars>>

\* acceptProviderResponse: redactArguments freezes an action for each page call, one by one, and then the
\* batch stands, or a later call throws: the run fails and records no call.  Of a batch that stands, calls
\* that depend on an invalid one are dropped; what they froze stays open, as it does when the run failed.
ProviderProposes ==
    /\ poll.at = "provider" /\ given < N
    /\ \E n \in (given + 1)..N :
          LET batch == (given + 1)..n IN
          /\ IF session
               THEN broker' = [a \in Actions |-> IF a \in batch THEN "awaiting" ELSE broker[a]] /\ given' = n
               ELSE UNCHANGED <<broker, given>>
          /\ \/ SetPhase("over") /\ poll' = View("over")
             \/ /\ session
                /\ \E dropped \in SUBSET batch, phase \in {"input", "approval", "executing"} :
                      /\ phase = "approval" => dropped # batch
                      /\ phase = "executing" => dropped = batch
                      /\ run' = [phase |-> phase,
                                 call |-> [a \in Actions |-> IF a \in dropped THEN "dropped"
                                                             ELSE IF a \in batch THEN "pending" ELSE run.call[a]]]
                      /\ poll' = View(phase)
    /\ UNCHANGED <<session, panelVars, pageVars>>

\* The run's record of a call that ended; it goes back to the provider, whatever became of it meanwhile.
CallEnds(a, outcome) ==
    /\ run' = [phase |-> "provider", call |-> [run.call EXCEPT ![a] = outcome]]
    /\ poll' = View("provider")

\* executeAndContinue with waitForAction: the result may be there before anybody waits for it, and of a
\* batch that was dropped nothing is left to execute.
Execute ==
    /\ panel = "running" /\ poll = Quiet /\ session /\ run.phase = "executing"
    /\ \/ \E a \in Actions :
             /\ run.call[a] = "approved"
             /\ IF broker[a] = "applying"
                  THEN /\ run' = [run EXCEPT !.call[a] = "executing"]
                       /\ poll' = [at |-> "tool", of |-> a, view |-> "none"]
                  ELSE CallEnds(a, IF broker[a] \in Answers THEN broker[a] ELSE "failed")
       \/ /\ \A a \in Actions : run.call[a] # "approved"
          /\ SetPhase("provider") /\ poll' = View("provider")
    /\ UNCHANGED <<session, broker, given, panelVars, pageVars>>

\* Mutant of Expire: the timer does not settle the action.
ExpireOpen ==
    /\ poll.at = "tool"
    /\ CallEnds(poll.of, "failed")
    /\ UNCHANGED <<session, broker, given, panelVars, pageVars>>

\* The deadline of waitForAction: the action is settled without a result.
Expire ==
    /\ poll.at = "tool"
    /\ broker' = [broker EXCEPT ![poll.of] = IF @ = "applying" THEN "expired" ELSE @]
    /\ CallEnds(poll.of, "failed")
    /\ UNCHANGED <<session, given, panelVars, pageVars>>

\* detachSession and clearAttachedPage; after attaching again the request names another session.
LetGo == detach' = IF panel' # "cleared" \/ detach # "no" THEN detach ELSE IF own THEN "asked" ELSE "done"

\* The panel hears of the read.  A run that is over is detached; an error only stops the loops.
PollEnds ==
    /\ poll.at = "reply"
    /\ poll' = Quiet
    /\ panel' = IF panel # "running" THEN panel
                ELSE IF poll.view = "error" THEN "stopped"
                ELSE IF poll.view = "over" THEN "cleared" ELSE panel
    /\ LetGo
    /\ active' = (poll.view = "active")
    /\ UNCHANGED <<daemonVars, loop, proposal, own, clicks, cancel, applied, pageVars>>

-----------------------------------------------------------------------------
(* The panel's loop of actions.                                            *)
\* Mutant of LoopSees: an action is applied before it is approved.
LoopSeesEagerly ==
    /\ panel = "running" /\ loop = Rest /\ session /\ own
    /\ \E a \in Actions :
          /\ Offered(a) /\ a \notin applied
          /\ proposal' = IF broker[a] = "awaiting" THEN a ELSE 0
          /\ loop' = [Rest EXCEPT !.at = "applying", !.of = a] /\ applied' = applied \union {a}
    /\ UNCHANGED <<daemonVars, poll, panel, own, active, requests, pageVars>>

\* actionLoop asks for the next action, and applies it if it was approved.
LoopSees ==
    /\ panel = "running" /\ loop = Rest /\ session /\ own
    /\ \/ \E a \in Actions :
             /\ Offered(a)
             /\ proposal' = IF broker[a] = "awaiting" THEN a ELSE 0
             /\ IF broker[a] = "applying" /\ a \notin applied
                  THEN loop' = [Rest EXCEPT !.at = "applying", !.of = a] /\ applied' = applied \union {a}
                  ELSE UNCHANGED <<loop, applied>>
       \/ /\ \A a \in Actions : ~Unsettled(a)
          /\ proposal' = 0 /\ UNCHANGED <<loop, applied>>
    /\ UNCHANGED <<daemonVars, poll, panel, own, active, requests, pageVars>>

\* It asks for a session the daemon does not know; what it shows stays.
LoopFails ==
    /\ panel = "running" /\ loop = Rest /\ ~(session /\ own)
    /\ active' = FALSE
    /\ UNCHANGED <<daemonVars, poll, loop, proposal, panel, own, requests, applied, pageVars>>

\* The page acts and succeeds, acts but cannot show it, or refuses: it changed, or was left.  The panel
\* reports it to the session it has by then, which the daemon must know as that of the run.
PageAnswers ==
    /\ loop.at = "applying"
    /\ \E outcome \in Answers, acts \in BOOLEAN :
          /\ outcome = "succeeded" => acts
          /\ acted' = [acted EXCEPT ![loop.of] = IF acts THEN @ + 1 ELSE @]
          /\ answer' = [answer EXCEPT ![loop.of] = outcome]
          /\ loop' = IF own /\ panel \in {"running", "stopped"}
                       THEN [loop EXCEPT !.at = "reporting", !.answer = outcome] ELSE Rest
    /\ active' = (active /\ loop' # Rest)
    /\ UNCHANGED <<daemonVars, poll, proposal, panel, own, requests, applied, approved>>

\* Mutant of ReportAccepted: a result is accepted after the deadline.
ReportAcceptedLate ==
    /\ loop.at = "reporting"
    /\ session /\ broker[loop.of] \in {"applying", "expired"}
    /\ broker' = [broker EXCEPT ![loop.of] = loop.answer]
    /\ IF poll.at = "tool" /\ poll.of = loop.of
         THEN CallEnds(loop.of, loop.answer) ELSE UNCHANGED <<run, poll>>
    /\ loop' = Rest /\ active' \in {active, FALSE}
    /\ UNCHANGED <<session, given, proposal, panel, own, requests, applied, pageVars>>

\* submitActionResult: the result counts while the action is still open, and wakes the run.  The
\* screenshot that follows may fail.
ReportAccepted ==
    /\ loop.at = "reporting"
    /\ session /\ broker[loop.of] = "applying"
    /\ broker' = [broker EXCEPT ![loop.of] = loop.answer]
    /\ IF poll.at = "tool" /\ poll.of = loop.of
         THEN CallEnds(loop.of, loop.answer) ELSE UNCHANGED <<run, poll>>
    /\ loop' = Rest /\ active' \in {active, FALSE}
    /\ UNCHANGED <<session, given, proposal, panel, own, requests, applied, pageVars>>

\* The request fails, comes too late or to a session that is gone, or its result does not match the
\* frozen action; an action that was open stays so.
ReportLost ==
    /\ loop.at = "reporting"
    /\ loop' = Rest /\ active' = FALSE
    /\ UNCHANGED <<daemonVars, poll, proposal, panel, own, requests, applied, pageVars>>

-----------------------------------------------------------------------------
(* The user: decisions, cancel, closing the panel.                         *)
\* decide: both buttons stay disabled until the loop shows the action again.
Click(verdict) ==
    /\ panel \in {"running", "stopped"} /\ proposal # 0
    /\ <<proposal, verdict>> \notin clicks /\ Cardinality(clicks) < MaxDecisions
    /\ clicks' = clicks \union {<<proposal, verdict>>}
    /\ approved' = IF verdict THEN approved \union {proposal} ELSE approved
    /\ proposal' = 0
    /\ UNCHANGED <<daemonVars, poll, loop, panel, own, active, cancel, detach, applied, acted, answer>>

Decidable(a) == session /\ Offered(a) /\ broker[a] = "awaiting"

\* decideAction approves the action, then the run resumes: with the approval of this call only.  A run
\* that does not wait for that refuses it; one whose provider waits for its user fails.
ApproveArrives(a) ==
    /\ <<a, TRUE>> \in clicks /\ Decidable(a)
    /\ clicks' = clicks \ {<<a, TRUE>>}
    /\ broker' = [broker EXCEPT ![a] = "applying"]
    /\ \/ run' = IF run.phase = "approval" /\ Pending = {a}
                   THEN [phase |-> "executing", call |-> [run.call EXCEPT ![a] = "approved"]] ELSE run
       \/ run.phase = "provider" /\ SetPhase("over")
    /\ active' = (active /\ (run' # run \/ run.phase \in Terminal))
    /\ UNCHANGED <<session, given, poll, loop, proposal, panel, own, cancel, detach, applied, pageVars>>

\* cancel: with a turn of the provider open, the provider's reply decides.
CancelRun(phase) ==
    phase \in IF run.phase = "provider" THEN {"provider"} \union Terminal ELSE Terminal

RejectArrives(a) ==
    /\ <<a, FALSE>> \in clicks /\ Decidable(a)
    /\ clicks' = clicks \ {<<a, FALSE>>}
    /\ broker' = [broker EXCEPT ![a] = "rejected"]
    /\ \E phase \in Phases : CancelRun(phase) /\ SetPhase(phase)
    /\ UNCHANGED <<session, given, poll, loop, screen, cancel, detach, applied, pageVars>>

\* A decision that was overtaken is refused.
DecisionRefused ==
    /\ \E a \in Actions, verdict \in BOOLEAN :
          /\ <<a, verdict>> \in clicks /\ ~Decidable(a)
          /\ clicks' = clicks \ {<<a, verdict>>}
    /\ active' = FALSE
    /\ UNCHANGED <<daemonVars, poll, loop, proposal, panel, own, cancel, detach, applied, pageVars>>

CancelClicked ==
    /\ active /\ cancel = "no"
    /\ cancel' = "asked"
    /\ UNCHANGED <<daemonVars, poll, loop, screen, clicks, detach, applied, pageVars>>

CancelArrives ==
    /\ cancel = "asked"
    /\ IF session THEN \E phase \in Phases : CancelRun(phase) /\ SetPhase(phase) ELSE UNCHANGED run
    /\ cancel' = IF session /\ panel # "closed" THEN "replied" ELSE "no"
    /\ active' = (active /\ session)
    /\ UNCHANGED <<session, broker, given, poll, loop, proposal, panel, own, clicks, detach, applied, pageVars>>

\* Mutant of CancelEnds: the session is not detached.
CancelEndsAttached ==
    /\ cancel = "replied"
    /\ cancel' = "no"
    /\ panel' = "cleared"
    /\ active' = FALSE
    /\ UNCHANGED <<daemonVars, poll, loop, proposal, own, clicks, detach, applied, pageVars>>

\* Whatever the reply says, the panel stops and lets the page go.
CancelEnds ==
    /\ cancel = "replied"
    /\ cancel' = "no"
    /\ panel' = "cleared"
    /\ LetGo /\ active' = FALSE
    /\ UNCHANGED <<daemonVars, poll, loop, proposal, own, clicks, applied, pageVars>>

\* detachSession with forgetRun: the actions go; a run that waits for one waits for its deadline.
DetachArrives ==
    /\ detach = "asked"
    /\ detach' = "done"
    /\ session' = FALSE
    /\ broker' = [a \in Actions |-> "absent"]
    /\ UNCHANGED <<run, given, poll, loop, screen, clicks, cancel, applied, pageVars>>

\* observeTab: attaching a page again gives the panel another session while the run goes on.
Reattach ==
    /\ panel \in {"running", "stopped"} /\ ~active /\ own
    /\ own' = FALSE
    /\ UNCHANGED <<daemonVars, poll, loop, proposal, panel, active, requests, applied, pageVars>>

PanelCloses ==
    /\ panel # "closed"
    /\ panel' = "closed" /\ active' = FALSE /\ proposal' = 0
    /\ poll' = IF poll.at = "reply" THEN Quiet ELSE poll
    /\ cancel' = IF cancel = "replied" THEN "no" ELSE cancel
    /\ UNCHANGED <<daemonVars, loop, own, clicks, detach, applied, pageVars>>

\* The daemon starts again: sessions, actions and runs were in its memory.
Restart ==
    /\ run.phase # "lost"
    /\ session' = FALSE
    /\ broker' = [a \in Actions |-> "absent"]
    /\ run' = [run EXCEPT !.phase = "lost"]
    /\ poll' = IF poll = Quiet THEN poll ELSE Reply("error")
    /\ clicks' = {} /\ cancel' = "no"
    /\ detach' = IF detach = "asked" THEN "done" ELSE detach
    /\ UNCHANGED <<given, loop, screen, applied, pageVars>>

-----------------------------------------------------------------------------
\* startRun: the session is attached, the run bound to it, both loops begin.
Init ==
    /\ session = TRUE /\ broker = [a \in Actions |-> "absent"] /\ given = 0
    /\ run = [phase |-> "provider", call |-> [a \in Actions |-> "none"]]
    /\ poll = Quiet /\ loop = Rest /\ proposal = 0
    /\ panel = "running" /\ own = TRUE /\ active = TRUE /\ clicks = {} /\ cancel = "no" /\ detach = "no" /\ applied = {}
    /\ approved = {} /\ acted = [a \in Actions |-> 0] /\ answer = [a \in Actions |-> "none"]

Polling == PollBegins \/ ProviderTells \/ ProviderProposes \/ Execute \/ PollEnds
Looping == LoopSees \/ LoopFails \/ PageAnswers \/ ReportAccepted \/ ReportLost
Requests ==
    \/ \E a \in Actions : ApproveArrives(a) \/ RejectArrives(a)
    \/ DecisionRefused \/ CancelArrives \/ CancelEnds \/ DetachArrives
User == Click(TRUE) \/ Click(FALSE) \/ CancelClicked \/ Reattach \/ PanelCloses
Next == Polling \/ Expire \/ Looping \/ Requests \/ User \/ Restart
Spec == Init /\ [][Next]_vars

(***************************************************************************)
(* Fairness.  The panel polls, the requests of cancel and detach are       *)
(* handled, the deadline of a wait passes, and a provider that is asked    *)
(* answers in the end: while one of these is due, one of them happens.     *)
(* Nothing is assumed of the page, of the loop of actions or of the user.  *)
(***************************************************************************)
Progress == Polling \/ Expire \/ CancelArrives \/ CancelEnds \/ DetachArrives
FairSpec == Spec /\ WF_vars(Progress)

-----------------------------------------------------------------------------
TypeOK ==
    /\ session \in BOOLEAN /\ broker \in [Actions -> Stages] /\ given \in 0..N
    /\ run \in [phase : Phases, call : [Actions -> Calls]]
    /\ poll \in [at : {"idle", "provider", "tool", "reply"}, of : 0..N, view : {"none", "error", "over", "active"}]
    /\ loop \in [at : {"idle", "applying", "reporting"}, of : 0..N, answer : Answers \union {"none"}]
    /\ proposal \in 0..N /\ panel \in {"running", "stopped", "cleared", "closed"}
    /\ own \in BOOLEAN /\ active \in BOOLEAN
    /\ clicks \subseteq Actions \X BOOLEAN /\ cancel \in {"no", "asked", "replied"}
    /\ detach \in {"no", "asked", "done"} /\ applied \subseteq Actions
    /\ approved \subseteq Actions /\ acted \in [Actions -> Nat] /\ answer \in [Actions -> Answers \union {"none"}]

\* Broker, run, panel and page agree about every action, whatever overtakes what: what the broker lets
\* the panel apply the user approved, what it has a result for the page answered, the run waits for
\* an action only while it is open, and what was not approved, or was rejected, left the page alone.  An
\* action that awaits its decision has a call that does, unless that call was dropped, or the run failed
\* before it recorded the call.
Decided(a) ==
    /\ broker[a] \in {"applying", "expired"} \union Answers => a \in approved
    /\ broker[a] = "awaiting" => run.call[a] \in {"pending", "dropped", "none"}
    /\ broker[a] # "absent" /\ run.call[a] = "none" => run.phase = "over" /\ poll.at \notin {"provider", "tool"}
    /\ broker[a] \in {"awaiting", "rejected"} => a \notin applied
    /\ a \in applied => a \in approved
    /\ <<a, TRUE>> \in clicks => a \in approved
Awaited(a) ==
    /\ run.call[a] = "approved" => broker[a] \in {"applying", "absent"} \union Answers
    /\ run.call[a] = "executing" => run.phase = "lost" \/ (poll.at = "tool" /\ poll.of = a)
    /\ broker[a] = "applying" => run.call[a] \notin Answers
Applied(a) ==
    /\ a \notin applied => acted[a] = 0 /\ answer[a] = "none"
    /\ acted[a] <= 1 /\ (answer[a] = "succeeded" => acted[a] = 1)
    /\ broker[a] \in Answers => answer[a] = broker[a]
Proposed(a) ==
    IF a <= given THEN session => broker[a] # "absent"
                  ELSE broker[a] = "absent" /\ run.call[a] = "none" /\ a \notin approved
LoopConsistent ==
    /\ loop.at # "idle" => loop.of \in applied
    /\ loop.at = "applying" => /\ acted[loop.of] = 0 /\ answer[loop.of] = "none"
                               /\ broker[loop.of] \in {"applying", "expired", "absent"}
    /\ loop.at = "reporting" => loop.answer \in Answers /\ answer[loop.of] = loop.answer
    /\ proposal \in 0..given
DaemonConsistent ==
    /\ poll.at = "tool" => poll.of \in Actions /\ run.call[poll.of] = "executing"
                            /\ broker[poll.of] \in {"applying", "absent"}
    /\ run.phase = "lost" => ~session /\ poll.at \notin {"provider", "tool"}
    /\ ~session => \A a \in Actions : broker[a] = "absent"
BrokerConsistent ==
    /\ TypeOK /\ LoopConsistent /\ DaemonConsistent
    /\ \A a \in Actions : Decided(a) /\ Awaited(a) /\ Applied(a) /\ Proposed(a)

\* The page acts for an action once, and only after the user approved that very action in the panel.
ActsOnceApproved == [][\A a \in Actions : acted'[a] # acted[a] => acted[a] = 0 /\ a \in approved]_vars

\* The run hears of an action it executes what the page answered: success only if the page acted and could
\* show it, and failure only if the page refused, unless the deadline passed first or the session was gone.
\* A dropped call is not among these: it is reported failed while its action may still be approved and act.
RunToldTruth ==
    \A a \in Actions :
       /\ run.call[a] = "succeeded" => answer[a] = "succeeded" /\ acted[a] = 1
       /\ run.call[a] = "failed" /\ answer[a] # "failed" => broker[a] \in {"expired", "absent"}

\* A run that is over and stays over does not keep the page: its session is detached, unless the panel
\* was closed, or the user attached a page again while it ran.  A read in flight may take up a run that a
\* rejection or a refused resume ended.
SessionReleased ==
    (run.phase \in Terminal) ~> (~session \/ panel = "closed" \/ ~own \/ run.phase \notin Terminal)

\* "Approve or reject each action separately" (docs/harness-browser-extension.md:36): when the user has
\* approved all the run asked for, the run does not go on waiting for an approval.
ApprovedOneByOne ==
    run.phase = "approval" /\ clicks = {} => \E a \in Pending : broker[a] # "applying" /\ broker[a] \notin Answers
=============================================================================
