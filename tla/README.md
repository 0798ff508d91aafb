# Formal models of Tokenless

Tokenless is a local daemon that runs prompts on web AI providers through managed browser
profiles. Clients (CLI, HTTP API, agent harness) create jobs; a runner drives provider pages
for them, asks the user for help when a page wants a sign-in, and moves a job to the next
provider of its plan when the current one refuses. The daemon keeps its business record in one
SQLite file. This directory holds TLA+ models of that core, TLC configurations that check them
on small instances, and TLAPS proofs of the results that should hold for any size.

All paths below are relative to the repository; `server/` stands for `packages/server/src/`.

## 1. Inventory

| component | state | operations | talks to |
|---|---|---|---|
| Job store, `server/jobs/store.ts` | `jobs`, `provider_rate_limit_attempts`, `output_savings_events`, dashboard aggregates, projects, conversations, turn bindings | open/migrate/rebuild/fail interrupted, create, take, wait, resume, admit, record submission, fall back, complete, cancel, clear savings | called by runner (through `runtime/in-process-client.ts`) and HTTP |
| Failure classification and fallback, `server/browser/provider-failure-classification.ts`, `job-contract.ts`, parts of the runner and the store | none (pure) | classify, bound the reason, build the next request, prove a refusal, accept the proof | runner, store |
| Runner, `server/browser/runner-service.ts` | per execution: action cursor, submission, responses, cancel flag; the set of active executions | take jobs, project capacity, acquire page, clear blockers, prepare, admit, act, record, fall back, complete, poll cancellation | store, contexts, provider pages |
| Runtime controller and lifecycle, `server/runtime/` | current runner, its abort signal, lane of lifecycle operations | start, wake, open/close profile, quiesce, shutdown | runner, HTTP |
| Configured limits, `server/providers/configured-rate-limits.ts` and the store's admission | rules in `config.json`, attempts | project, admit, history | store |
| Observed limits, `providerObservedRateLimit` in the store | none of its own: derived from job rows | scan | store |
| Private provider-turn protocol, `server/http/private/provider-turn/v0.ts`, `runtime/ephemeral-provider-payloads.ts` | bindings, staged attachments, turns; prompts and results in memory only | bind, stage, start, continue, read, cancel | store, runner |
| Browser contexts, `server/browser/browser/context-manager.ts` | per profile: tabs with reference and purpose, leases, temporary tabs, idle clocks, the allocation lane, the file `tokenless-browser-tabs.json` | ensure, acquire, replace, release, open for the user, check a sign-in, sweep (restore and collect), close, detach, attach | runner, controller, the user of the browser |
| HTTP server, `server/http/server.ts` | pending completion waits | routes | everything |
| Provider session, output savings worker, attachments, configuration, universal API, direct protocols, provider definitions | page observations, tokenizer process, files, conversions | | runner, HTTP |
| Harness, `packages/harness/src/run/` | in memory: runs with phase, turn, calls, results, needs; the provider's turn | start, read (one step of the loop), resume, cancel | provider-turn protocol, tools, clients that poll |
| Browser extension, `packages/harness-browser-extension/` and `packages/harness/src/browser-extension/` | broker: session and stage of each page action; panel: two loops, proposal, what was applied | attach, start, poll, decide, apply and report, expire, cancel, detach | the harness run, the user, the user's page |
| Harness agent contexts, sessions, skills | files and projections | | harness |
| CLI, dashboard, desktop menus, benchmarks | | | HTTP |

What is hard here, and what each component must get right:

* **Store.** Statements of one method are one transaction and run in one turn of the event loop,
  so methods are atomic; hazards sit between them: a cancellation against a completion, opening a
  database over several commits, savings in a second transaction. Correct means: the outcome
  columns agree with the status, what ended stays ended, the dashboard counts each ended job once.
* **Fallback.** Five places have to agree about whether a prompt reached a provider. Correct means:
  a plan is followed once from front to back, an answered prompt is never replayed, and the record
  that a prompt was sent disappears only with a proof that it was refused.
* **Runner.** Every `await` is a place where a job may be canceled, the runtime quiesced or the
  daemon killed. Correct means: no provider gets a prompt twice, what it got is explained by the
  record, memory and row agree, and every execution ends.
* **Limits.** Check and record must be one step; windows slide; two records of one prompt must
  count once; observed limits are folded in an order that other writes disturb.
* **Provider turns, HTTP waits.** Checks before an `await` and effects after it; maps that die with
  the process; a prompt, its attachments and its answer kept in three places.
* **Contexts.** Allocation and collection take turns in a lane, but the end of a lease, of a temporary
  tab and of the browser do not, and neither does the user. Correct means: no tab is closed under
  somebody, a restart brings every tab back as what it was, and an unused work tab goes in the end.
  The browsers themselves outlive the daemon, and requests, sweeps, recolourings and shutdowns meet at
  one profile. Correct means: a request gets the browser it asked for, nobody's browser is ended for
  another, and a browser that runs is never lost sight of.
* **Harness run.** Reads, resumes and cancels of one run are not serialised; each merges what it
  learned before its `await`. Correct means: no tool runs without the approval it needs, twice, or
  before what it depends on; the provider is told what happened; a cancel stops the provider.
* **Browser extension.** Decision, deadline, result, cancel, detach and restart are separate requests
  that overtake one another. Correct means: the page acts once and only as approved, the run is told
  what the page answered, and the page is let go of when the run is over.

`PROJECT.json` lists every hazard with its line and the properties that watch it.

## 2. Plan

Done, in this order:

1. `ProviderFallback`, `JobStore` (with `JobLedger`, `JobStoreRefinement`): the record everything
   else writes to; first proofs.
2. `ManagedRunner` on top of `JobStore`: the same actions, called from asynchronous executions, with
   proofs that it implements the store and explains what it delivered.
3. `ConfiguredLimits` and `ObservedLimits`: the two sources of deferral, each with the part of
   the row it reads; proofs that both defer exactly when they should.
4. `ProviderTurns`: requests, bundles, in-memory prompts and the restart that loses them, with
   proofs that turns stay apart, keep their prompts, files and answers, and keep them off the record.
5. `PageLeases`: the browser's tabs, which the runner's executions, sign-in checks, the collector and
   the user share; proofs that leases stay consistent, that only idle tabs are collected and that a
   restart keeps tabs, references and purposes.
6. `AgentRun`: the run loop of the harness above the provider-turn protocol; proofs that tools are
   approved, ordered and reported, and that a cancelled run stops its provider.
7. `BrowserActions`: the extension, whose broker is one of the run's tools; proofs that broker, run,
   panel and page agree.
8. `BrowserContexts`: the resident browsers of several profiles, their limit, their files and the
   daemons that come and go; proofs of all its properties.

Left, by importance:

9. Opening and closing single profiles in the controller's lane of lifecycle operations; HTTP
   completion waits; the observation machine of a provider session.
10. The installation of a browser build, whose locks on disk several processes share.

There are few runs, one per question: several properties of one model share a run.

## 3. Modules

**`ProviderFallback`** (operators). A request is reduced to the provider, the remaining plan, the
trail of attempts and whether routing exclusions are present. `Eligible` is the classifiers'
`automaticFallbackEligible`; `FailureReason` the bounded reason; `MayFallBack`/`NextRequest` what
`safeFallbackRequest` allows and builds; `RejectionProof` what the runner attaches after a
submission; `AcceptedAfterSubmission` what the store demands of it. Failure codes no decision
tells apart are one value. Automatic requests of the private protocol always carry exclusions, so
the store refuses their post-submission fallback; this is the `exclusions` field.

**`JobStore`**. One action per method of the store. `phase`/`tables` follow the commits of
`initialize`: `Migrate` (tables), `RebuildDashboard`, `FailInterrupted`; `Crash` may come between
any two. `CompleteWithResult` chooses which measured savings were recorded, since that transaction
may fail. `born` is `created_at` as a clock that can stand still, so the FIFO choice of
`takeNextJob` has ties. Days and execution modes of the dashboard key are not told apart.
`LegacyJobs` may be in a database older than the dashboard's tables. The history variables
`uncounted` (jobs canceled without a dashboard entry) and `torn` (ended jobs that a crash between the
creation of the tables and their rebuild left out) are the two known exceptions to the sums.

**`JobLedger`**, **`JobStoreRefinement`**. The promise to clients: jobs pend, move from place to place
and end once, and the tally of a place (a profile and a provider, the key of the dashboard) grows by
the jobs that end there. The refinement maps the tally to the counters of the dashboard plus the two
exceptions, and to the rows themselves while there is no dashboard yet.

**`ManagedRunner`**. EXTENDS `JobStore`; each job has at most one execution `exec[j]`, whose `pc`
names the await it stands at:

| `pc` | code |
|---|---|
| `start` | `executeJob` before the capacity projection |
| `open` | acquiring the page, navigating, preflight |
| `loop` | before preparing an action, or waiting for the response |
| `handoff` | polling in `clearUserResolvableBlocker` |
| `ready` | before `admitProviderAction` |
| `acting` | inside `executeAction` |
| `fell` | `ProviderFallbackSignal` on its way to the restart |
| `failing`, `finish` | before `completeJob` |

`Deliver` is the provider's side of a submission and separate from the runner hearing of it.
A handoff in the capability preflight goes straight on to the action here, where the code finishes the
preflight first. `Aborted` is the execution's signal (runtime stopping, or a cancellation it saw). `Blocked` writes
without looking at the signal again, as the code does; `FailOrFallback` looks first.
A script (sequence of edit, workspace, submit, read) abstracts the request's actions by their
lifecycles. Executions interact only through the queue, the store and the runtime's signal, so the
run has one job with three providers. `MemoryAgrees` relates the memory of an execution, the row and
the set of executions; `DeliveriesAdmitted` what providers got, what was admitted and what a success
says; `ReplayExplained` allows a second delivery only after a recorded refusal or an uncertain
submission, and never a second one to the same provider.

**`ConfiguredLimits`**. Jobs with their limited actions (uploads, then the prompt), the ledger of
attempts and the columns the history reads. `Admit` is the checked transaction. `judged` remembers
which rules admitted an attempt and were not edited since. It assumes a wall clock that does not
move back; the code assumes the same.

**`ObservedLimits`**. Rows with `updated`, and the scan, a fold over the stored rows that visits the
newest last, as the SQL orders them (`updated_at`, then `job_id`); every write of a row moves it in that
order. `seen` and `answered` remember what pages showed and which jobs succeeded.

**`ProviderTurns`**. The private protocol above a reduced store: a row is a status, the prompt in
`request_json` (or the marker in its place), whether a fallback plan is left, whether a submission
is recorded, and the result. `payload` and `bytes` are the two maps of
`ephemeral-provider-payloads.ts` (`bytes` also stands for the files of ordinary bundles on disk). A
request reference stands for the prompt it carries and for the answer to it. What the code does
between two awaits is one action: `StageBegins`/`StageEnds` around the upload, `StartBegins`/
`StartEnds` around the resolution of the routes of an auto binding, `Start` for an explicit one,
which awaits nothing between its checks and the transaction and has no fallback plan. `memory` is
the prompt of the execution, read when the job is taken and written back by `Fallback`. Auto turns
carry exclusions, so the store refuses to restart them after a submission, and `Fallback` is
guarded by that. Delivery and its record are one step (`ManagedRunner` separates them), a quiesce
is left to `ManagedRunner` (it removes the files of the jobs it aborts although their rows stay running,
and nobody executes these again; `FilesWhileNeeded` is to be read with that), and a continuation differs from a new conversation only in data, except
that a continuation on an explicit binding awaits its configuration between the lookup of the
request reference and the checks of its attachments; both are checked again at the creation.
The properties name two exceptions the code has: `replaced` (a refused start left its prompt in the
map in place of the accepted one) and `moved` (an ephemeral job restarted on another provider).

**`PageLeases`**. One profile's browser. A tab is open or not and shows a blank page, the provider's
home or a saved conversation; `bind` joins the two maps between pages and references with purpose
(`work` or `user`), the hold after a failed close, the idle clock and the pin of a tab handed to the
user; `lease` and `temp` are what clients work in. `lane` is the one operation that holds
`pageAllocation`, with the await it stands at:

| `lane.op` | code |
|---|---|
| `probe`, `create`, `save` | acquiring: asking a candidate tab, making one, writing the file |
| `temp` | making the temporary tab of a sign-in check |
| `restore`, `saveRestored` | `restorePages` of a sweep or after attaching |
| `observe`, `recheck`, `keep`, `close`, `saveCollected` | the collection of an idle tab |

`phase` and `closing` follow the context through close, detach, the death of the daemon and the
attachment of a later one to the browser that still runs. Simplifications: tabs with a key and
reserved ones stay blank and are no candidates, so they are left out; what the user does in a tab is
the nondeterministic answer `touched`; `saved` drops entries of tabs that closed, whose target id
never returns; the first observation of a tab, or one that failed, gives no baseline of activity; a
page that fails to answer while tabs are restored ends the sweep of its context. The model shows
behaviours one might not expect: a tab the user opened by hand on a saved conversation is adopted as a
work tab and collected later; a daemon that dies between binding a user tab and writing the file
forgets its purpose (`chosen` counts tabs whose registration was written); the last tab can be closed
if another one closed since the keeper was considered (`lone`).

**`BrowserContexts`**. The level above `PageLeases`: per profile the `browser` process, the two files a
later daemon knows it by (`endpoint`, the DevToolsActivePort; `session`, how it was launched), the
context `ctx` of the daemon, and the setting in the configuration. `call` is an `ensureContext` with
what its caller does around it, `lane` the order of those that wait for the one that creates:

| `call.at` | code |
|---|---|
| `resolving`, `queued`, `awaiting` | before the lane, in it, behind a close of the same profile |
| `connecting` | `connectExistingCdpManagedContext`, or `connectResidentForSupervision` of a sweep |
| `replacing`, `spawning`, `launching` | ending a browser that does not fit, starting one, waiting for its endpoint |
| `aborting`, `restoring` | cleaning up after a failed launch, `restorePages` |
| `using` | the caller works with the context |
| `closing`, `ending`, `saving` | a recolouring: close the profile, await that, write the setting |

A setting stands for runtime, proxy and colour. `mode` is the daemon: serving, quiescing, detaching or
off; `Crash` and `Detach` forget its memory and leave files and browsers. A second process on a
directory in use hands over and exits (`own`), and a process told to end does end, by SIGKILL at the
latest; what connecting finds is nondeterministic where the code asks the network. `recorded` is
history: whoever launched the browser got to write its session file. Native profiles, which only
connect and disconnect, are left out.

**`AgentRun`**. `run` is the record; status and phase are one, since the status tells more only in
the waiting and ended states. `request[x]` is what a GET, POST resume or POST cancel awaits
(`discover`, `submit`, `read`, `cancel`, `confirm`, `tool`) and what it saw before; `loop` is the
reader that runs `executeAndContinue` between two awaits, and `todo` the calls its pass has still to
visit, as they were when the pass began. A turn's number stands for nonce, request reference and batch
id; a call with its turn for the digest of its arguments. `Returns` merges what a request learned
into whatever the record is by then. The provider's turns end, wait for a user or fail at any time,
replies get lost, and a cancel can be refused or come late. Tools, MCP servers, workspace tools and
redaction are data or external; there is no operation to reject a call except cancelling. The history
variables `approved` and `ended` are what the user and the tools did, as opposed to what the record
says.

**`BrowserActions`**. One session, one run, one panel. `broker[a]` joins status, decision, settlement
and result of an action; `run.call[a]` is the run's side of it (calls that only look at the page read
its frozen snapshot, need no approval, and are left out); `poll` and `loop` are the panel's two loops,
with the read and the
action they wait for; `clicks`, `cancel` and `detach` are requests under way. A run's end is one phase
`over`. `acted` and `answer` are what the page did and showed: it may act and succeed, act and fail,
or refuse. Since `resume` wants the approvals of all pending calls in one request and the panel sends
one, only batches with one pending action ever execute in the run. The restart of the daemon forgets session
and run. How the run talks to its provider is reduced to proposing, ending or going on; `AgentRun`
has the rest. `PollEnds` with an error, `Reattach` and `PanelCloses` are how the panel loses its run; a
closed panel hears no reply. `ProviderProposes` is the whole of `acceptProviderResponse`: the action of each
call is frozen in the broker before the batch stands. A later call may throw; then the run is over, no
call was recorded (`none`) and the frozen actions stay open. Or calls depend on an invalid call of
the batch; they failed at once (`dropped`) and their actions stay open, too. A batch may also ask for input,
which the panel cannot give (phase `input`). `proposal` is the action whose buttons are enabled; a click
disables them until the loop shows the action again. A decision may fail a run whose provider waits for
its user, and a read in flight may take up a run that ended meanwhile. The broker takes a result while the
action is open and refuses it otherwise, or when it does not fit the frozen action (`ReportLost`).

## 4. Runs

| run | instance | states | question |
|---|---|---|---|
| `store` | 2 jobs (1 perhaps legacy), 2 providers, 2 responses, 1 admission | 1,580,091 | do rows, dashboard and ledger agree under every interleaving, migration and crash |
| `runner` | 1 job, 3 providers, scripts with work before the prompt and after the answer | 54,497 | plan, deliveries, memory, replay, endings; liveness under fairness |
| `configured_limits` | 2 jobs, 2 profiles, 2 rules, windows of 2 and 3 instants, clock to 3 | 191,904 | windows, double counting, eligible time |
| `observed_limits` | 2 jobs, 2 providers, spans 1 and 3, clock to 3 | 322,081 | deferral holds exactly while justified |
| `turns` | 2 requests, 2 bundles, 2 attachments, 2 waiting starts | 1,128,481 | one turn per request and bundle, with its prompt, files and answer, off the record where promised |
| `pages` | 2 clients, 1 reference, 2 tabs, 1 of them followed to its reclamation | 685,785 | leases against collector, user, restart; unused tabs go in the end |
| `contexts` | 2 profiles with room for 1, 2 callers, 2 settings of one profile | 1,016,498 | who gets which browser, who may end one, which can be found again |
| `agent` | 1 reader, 2 cancels, 2 turns, 2 calls (one depends on the other, one needs approval), 4 answers | 395,381 | approvals, order and reports of tools; cancels; the run settles |
| `browser` | 2 actions, 2 decisions in flight | 1,258,304 | broker, run, panel and page agree; the page acts once; the run hears the truth; the page is released |

Bounds: two jobs are enough for one to disturb another in queue, dashboard, window or scan (all
four are sums or pairwise comparisons); three providers, in `runner`, give a chain whose middle step
has a predecessor and a successor; `MaxAdmissions` 2 there admits every prompt a job can send to one provider
and one more; `MaxTime` 3 lets windows of length 2 and 3 close. The eligible time is evaluated
beyond the clock. `ObservedLimits` may stop: all jobs ended at the last instant. In `turns` two
requests, bundles and attachments give every collision (same request, same bundle, bundle of two
files, extension of a consumed bundle) and `MaxCalls` 2 lets two starts meet; references are opaque
in the code and in the model, so all their permutations are symmetries. In `pages` two clients meet
in one tab, or one in a tab while the other's is collected or temporary; the third party is the user.
In `contexts` everything happens to one profile (`Lively`: it is swept, recoloured, and loses its
browser or connection), while the other competes with it for the limit and the lane; two callers, one
in the lane and one that uses, recolours or waits, are symmetric.
In `agent` the two calls are listed against their dependency, so a batch needs two passes, and a second
turn gives stale approvals and late replies something to be about; the second cancel meets the first.
In `browser` two actions are a batch decided one by one, a batch of which one or both are dropped or frozen
in vain, or two batches of one action; with `MaxDecisions` 2 both verdicts on one action, or decisions on
two, overtake one another (more could only repeat these, since a further click needs the action shown again).
`DashboardMatchesJobs` says of every sum of the dashboard,
savings included, what rows and events it counts.

Three runs expect a violation, each of one statement a document makes; the findings in
`PROJECT.json` quote it:

* `pages_temporary`: "Active tasks ... remain protected" from the reclamation of tabs; a job can be
  lent the temporary tab of a sign-in check, whose end closes it.
* `agent_cancel`: tools run only inside "the current `AgentRun` boundary"; a cancel during a tool does
  not stop the next calls of the batch.
* `browser_approvals`: "Approve or reject each action separately"; a batch of two actions approved
  one by one waits for an approval for ever.

Every property of a passing run has a mutant: a definition replaced by the form a plausible bug
would give it (kept next to it, marked "Mutant of"), under which the property fails.

Fairness (`FairRSpec`) is weak for the steps an execution takes by itself, for its deadlines
(actions time out, the handoff ends) and for the cancel poll, a timer. It is strong for the end of
a response wait: blockers that come and go leave and re-enter the wait, but its ceiling is absolute
(`runner-service.ts:1479-1522`) and is not reset. Pages are assumed to answer an
evaluation or to fail it; of what they show, of clients, users and the operator nothing is assumed: taken
jobs end even if the page shows blockers for ever.

`PageLeases!FairSpec`: the operation in the lane gets over its awaits, the timer starts sweeps, idle
clocks run out, and a close tried again and again succeeds; nobody has to end a lease. That pages
answer is an assumption: `page.evaluate` has no timeout in the code (a hazard). `AgentRun!FairSpec`:
a client polls, requests get a reply or an error, tools end and do not ask for a sign-in for ever, the
jobs of turns end (which `TakenJobEnds` shows of the runner), and the user answers what the run waits
for; nobody has to cancel. `BrowserActions!FairSpec` is one weak fairness, of `Progress`: while the panel has to
poll, the daemon a read, cancel or detach to handle, or a deadline to pass, one of these happens; nothing is
assumed of the page, of the loop of actions or of the user.

## 5. Proofs

`ManagedRunnerProofs` is about the store, alone and under the runner. Its first part proves, for every
set of jobs, providers, profiles and requests allowed by the assumptions (the second and third are
invariants the others build on, and no run repeats them):

* `TypeCorrect`: `Spec => []TypeOK`, one step per action; lemmas type `NextRequest` and the
  dashboard operators (cardinalities of subsets of a finite set of jobs).
* `OutcomesAgree`: `OutcomeMatchesStatus` is inductive with `TypeOK`.
* `Settled` (`SettledIsFinal`): every action is guarded by a status that has not ended.
* `ClearedOnlyOnRefusal`: only `FallbackJob` clears a submission, and its acceptance test puts the
  refused attempt at the end of the next trail.
* `RouteFollowed`: `NextRequest` moves the boundary between trail and plan and leaves the route, taken
  piece by piece (`RouteParts`), as it was.
* `DashboardExact` (`DashboardMatchesJobs`): the counters, which the code only ever adds to, equal the
  numbers of rows behind them. `DashboardInv` adds what the argument rests on: fresh tables stay blank
  until their rebuild, uncounted jobs are canceled ones, and only a job that succeeded has measured
  responses, so a completion adds exactly the rows that were not counted yet (cardinalities of disjoint
  unions) and a fallback moves no counted row to another slot.
* `StoreImplementsLedger`: the refinement. By `DashboardInv` the tally of a place is at any time the
  number of rows that ended there (`TallyIsExact`), whether it is read from the dashboard or from the
  rows, so opening, migrating and rebuilding are stuttering steps although they change where it is
  read from. The steps that end jobs, one or all interrupted ones, add the ended set place by place
  (`EndsInLedger`); a fallback is the one step that moves a job on and counts nothing.

`ConfiguredLimitsProofs` proves `RollingLimit`. The inductive invariant is `IInv`: the types,
finiteness of `attempts`, `AttemptsPast` (no attempt lies in the future), `JudgedInForce` (what is
judged was attempted, and its rules are in force) and `RollingLimit` itself. When an attempt is
admitted at the present instant, the windows that end at earlier attempts do not change because the
new row is later; those that end now were checked by `Blocking`; and since every earlier attempt of
this instant was judged by a rule still in force, the new row cannot overfill its window, which is
the same one. Of fallback and the end of a job it is enough here that they add no event to a window.
`LimitsTyped` is the type part. `UsageStays` shows that they take none away either: by `Ledger`
(`Recorded`), a submission on record has its attempt, or its job has ended without one, so which
submissions count as legacy events never changes under a job that runs (`UnattemptedStays`), and a step
adds at most one attempt to what is counted. `PromptsCountedOnce` needs a hypothesis, `OnePrompt`: a
request limits one prompt, the one it ends with; the request builders keep to it. `EligibleExactly`
says of `EligibleAt`, which takes the k-th oldest event of a window, that there is such an event
(`KthTimeExists`, from well-foundedness of the strict subsets of a finite set) and that later
windows are those of now without what has left them (`CountedLater`).

`ObservedLimitsProofs` proves `LimitsHold` (`LimitHolds`) and `DeferralsJustified` (`DeferralJustified`)
for any jobs, providers and durations. The invariant `LInv` says what rows have to do with what
happened: attempts with a duration and errors were shown, jobs that succeeded were answered, and a limit
that was shown is still carried by a row, since a fallback moves it into the attempts and nothing
removes these (`RowWritten`). The rest is about the scan, a fold within a fold. The recursive function a
fold stands for exists because finite sets shrink to the empty one (`FoldExists`), and what survives one
more element holds of the whole set (`RemovalInduction`; with a set in the place of a predicate, since
the library's induction theorems take one as an operator). `CandidatesFound`, `VisitFinds` and
`ScanFinds` then say of the candidates of a row, of the visit of one row and of the whole scan that they
find only limits the provider showed, and, once a row tells it, the latest one that no success
disproved: nothing later can replace it, and no success clears it. `LimitHolds` therefore does not
depend on the order of the rows.

`ProviderTurnsProofs` proves `TurnsTyped`, `TurnsApart` (`OneTurn`), `PayloadsStay`
(`PayloadAvailable`) and `PromptsSent` (`AcceptedPromptSent`). The inductive invariant adds
`TurnsHaveRows` (a turn's job is in the table), `UnusedJobs` (nothing was executed or sent for a job
that does not exist) and `PromptsKept`, which follows the prompt through row, map, execution and
provider. A new turn needs a bundle without a row, so by `TurnsHaveRows` it shares job and map entry
with no older one (`StartKeeps`); the other steps touch one job at a time and only copy its prompt
from one of those places to the next (`JobStepKeeps`).

A second invariant, `Settlement`, carries `FilesStay` (`FilesWhileNeeded`), `AnswersRead`
(`AnswerReadable`) and `SecretsStayOff` (`SecretsOffRecord`). What a start checks it checks before an
await, and the bundle may change in between. `Settlement` says what holds when it commits: a bundle
without a job has attachments of one lifetime, all of them readable (`OneLifetime`, `BytesKept`), so a
start that finds no row has the lifetime of its bundle (`CallsFit`); hence what a refused start left in
the map of an ephemeral bundle is never found by a turn that is not ephemeral (`PayloadsEphemeral`).

`PageLeasesProofs` proves `LeasesStayConsistent` (`LeasesConsistent`) and `CollectsSafely`
(`CollectionIsSafe`) for any clients, references and tabs. An operation in the allocation lane looks
at tabs, awaits the browser, and acts on what it saw; meanwhile leases end, tabs close or crash, and
the user opens others. The inductive invariant adds `LaneSound`, what the operation may rely on at each
await: the reference it allocates still has no tab and the tab it probes still serves no other
(`Allocating`), a tab it observes or closes is still in nobody's use (`Watching`, `Reclaims`), and a
tab it keeps for last is still there (`Keeper`). These last because only the lane binds and lends, a
tab that closes loses its binding at once, and its name is not used again while the lane holds it.
`BindKeeps` and the lemma of each action carry this over.
A third theorem, `RestartsKeepTabs` (`TabsSurviveRestart`), is about what a daemon leaves behind and its
successor finds. `RestartSound` says how: the file names each open tab once (`SavedSound`, `OwnKeys`); a
daemon that attached has restored each entry or its sweep will still ask about it (`Attaching`); what
the lane is about to write agrees with the bindings (`Saves`); and a tab the user chose stays in the
file, bound while the daemon serves, and is pinned or owned, so a replacement never unbinds it
(`ChosenKept`).

`BrowserContextsProofs` proves, for any profiles, settings, callers and limit,
`RecordedBrowsersStayReachable` (`BrowsersReachable`), `RequestsGetWhatTheyAsked` (`HandedAsAsked`) and
`BrowsersEndForReasons` (`BrowsersPreserved`). The inductive invariant `IInv` (`ContextsSound`) is made
of `TypeOK`, `LaneSound` (who waits in the lane is at one of its stages, once, and only its head is past
`queued`), `BrowserSound` (what the files say of a browser), `ContextSound` (what an open or closing
context says of it) and `CallSound` (what a call may rely on at each await). The point of the argument:
for a profile without a context only the head of the lane connects, launches or removes files, and it,
as well as the close of a context, removes them only when the browser is gone or never was recorded; so
a browser nobody told to end keeps both. The limit is exact for requests because the head checks it and
no other request attaches before it ends; sweeps run in the same lane, and recolourings only take
contexts away.

`AgentRunProofs` proves `RecordConsistent`, `ToolsApproved`, `ToolsInOrder` and `ReportFaithful` for
any batches, dependencies, numbers of turns and of cancels, under one assumption beyond those of the
module: `SingleWriter`, one reader at a time, as the CLI's loop polls. Nothing in the code enforces it
and the properties fail with two readers (a hazard), so it is a hypothesis of each theorem. The
inductive invariant `IInv` is `RecordConsistent /\ Addressed`, where `Addressed` says what a request
under way is about. The point of the argument: while a reader is in the loop or in a tool, the user is
not being asked anything, so what `resume` writes meets no pass over the calls; cancels write no call;
hence the calls a pass has still to visit are those of the record, and a tool starts on what was
approved. There is one lemma per action; steps that leave calls, results, tools and loop alone share
`QuietStep`, and those that write one call `CallWritten`. `CancelsReachTheProvider`
(`CancelledStopsProvider`) rests on `ProviderKnown`: a run goes on only when its turn has succeeded, so
only the last turn can be alive (`TurnsSound`); what a request learnt of a turn was so, and still is if
it was the turn's end (`RequestSound`); and so is what the record says of it, while a run that is being
cancelled, or is cancelled with its turn alive, has a request under way that is about it (`PhaseSound`).

`BrowserActionsProofs` proves `BrokerConsistent`, `RunToldTruth` and `ActsOnceApproved` for any number
of actions. `IInv` is `BrokerConsistent /\ RunToldTruth`, inductive as it stands because the invariant
already relates, action by action, broker, run, poll, loop and page: a result reaches the run only
while its action is open, and only the loop that applied the action can bring one. An action may be open
though nothing waits for it, because its call was dropped or was never recorded. The latter only happens
in a run that failed, with no read in flight that could take it up again (`Decided`), so no later batch
finds actions without calls. `Parts` splits the
invariant into what it says of each action and of panel and daemon, and each action of the model has a
lemma that shows the one action it touches and carries the others over.

The other parts of `ManagedRunnerProofs` are about the runner. What its second part says holds for all
scripts and databases. `RunnerRemembers`
proves `MemoryAgrees`, from the inductive invariant `MemoryInv`: an execution exists only while the
daemon serves, knows whether the prompt is on record as sent, and a job that just left a provider is on
record as unsent. With it, `RunnerImplementsStore` proves the refinement (`RSpec => StoreSpec`): the
request and the proof a leaving execution builds from its memory are those `Fallback` of the store
builds from the row. `StoreUnderRunner` draws the conclusion: ledger, route, submissions, final
outcomes and dashboard hold of the store when the runner drives it.
The third part proves `DeliveriesAdmitted` (`RunnerAdmits`), `ReplayExplained`
(`RunnerExplainsReplays`) and `AnswerKept` (`RunnerKeepsAnswers`) for databases without legacy rows
and scripts that send one prompt and read only after it (`OnePrompt`); direct requests are held to
that form (`job-contract.ts:409,439`) and the request builders keep to it, but a browser request with
two prompts would be accepted and falls outside. `DeliveryInv` adds, job by job, where the execution
stands in its script (`Placed`), that the providers still planned are fresh (`Routed`) and what each
provider got (`Counted`). The point of the argument is `LeaveDelivers`: a provider that accepted the
prompt is left either before the record of it, and then only an uncertain submission is eligible, or
after, and then the store demanded the refusal and put it at the end of the trail.

Only model-checked: liveness under fairness (`TakenJobEnds`, `CanceledJobStops`, `QuiesceSettles`,
`WorkTabReclaimed`, `RunEnds`, `SessionReleased`), which is out of the prover's reach. Every other
property of a passing run is stated by a theorem.

## 6. Not modelled

Page automation of the providers (external and nondeterministic in the runner), formats and
conversions (the universal API is mostly that), authentication of HTTP clients, image extraction, the
tokenizer worker, the browser installation, published rate-limit tables, CLI and user interfaces,
completion waits of HTTP, native browser profiles, the harness's agent contexts, sessions and
skills, and of the extension pairing, credentials, evidence files and a second start on a busy
session. `ManagedRunner` leaves out `ClearOutputSavings`, which concerns no execution.

Some findings have no run of their own, because a passing property states what does hold instead, or
because the model shows them without a statement worth a run:

* `provider_submitted_at` is documented as immutable and a fallback clears it
  (`SubmissionClearedOnlyOnRefusal`);
* uncertain submissions are replayed, although "never replayed" (`ReplayExplained`);
* a crash between the creation of the dashboard's tables and their rebuild leaves out the jobs that had
  ended by then for good (the history variable `torn` of `JobStore`);
* a quiesce leaves running jobs that no execution owns (`MemoryAgrees`);
* region and maintenance notices cannot be recorded as an attempt, so the job fails with a plan left
  (`Recordable` in `ProviderFallback`);
* a later write to the row that carried an observed limit restores it after a success (`LimitHolds`);
* an ephemeral turn that moved before its submission loses its answer (`AnswerReadable`) and puts its
  prompt into the database (`SecretsOffRecord`); a refused start replaces the prompt of the accepted
  turn (`AcceptedPromptSent`);
* drafts do not protect a released tab, although documented (`touched` in `PageLeases`);
* a sweep attaches to a running browser without comparing its launch with the configuration, so a
  request with a changed proxy or runtime is handed the old browser (`HandedAsAsked`); a daemon stopped
  while it connects to a resident browser ends it, although the stop is a detach (`BrowsersPreserved`);
* in the extension: a second start overwrites session or prompt before it is refused; after the
  rejection of one action of a batch the others can still be approved and applied; attaching while a
  run goes on leaves its session behind (the exception in `SessionReleased`); a call that depends on an
  invalid one is reported as failed while its action can still be approved and applied (`dropped`, the
  exception in `RunToldTruth`); a batch that fails half-way leaves actions that can be approved until the
  panel detaches (`none`, the exception in `Decided`).

Remarks met while modelling, not counted as findings: `docs/architecture.md:229` lists a status
`timed_out` that neither code nor schema knows; `cancelStoredWebAiTurn` skips the dashboard entry
other endings make; a wake during a quiesce is a no-op, so a job created then waits for the next
wake. In the extension, a read in flight revives a run that a rejection
or a refused resume ended (`SessionReleased` is about runs that stay over). Of the browser contexts: a browser that ends while no daemon is attached leaves its endpoint
file, and launches fail until it is removed; `closing ??=` memoises a close that failed, and a failed
close removes the files of a browser that runs; the `Promise.all` of a quiesce gives up at the first
close that fails; the proxy is hashed into the launch signature but not passed to Chromium
(`context-manager.ts:1266,1551`, `COMMANDS.md:259`); a job that starts between the two halves of a
change of colour starts the browser in the old one (`COMMANDS.md:352`).
