------------------------------ MODULE AgentRunProofs ------------------------------
(***************************************************************************)
(* Proofs about an AgentRun that one client polls, for any batch, number   *)
(* of turns and number of requests that cancel it.                         *)
(*                                                                         *)
(* RecordConsistent ties the record, what the provider will be told, what  *)
(* the tools did and what the user approved together at every await.  The  *)
(* argument rests on the phases the user is asked in: no reader stands in  *)
(* a tool or in the loop then, so what the user answers never changes the  *)
(* calls of a pass, and a cancel that arrives meanwhile leaves them alone. *)
(*                                                                         *)
(* CancelledStopsProvider rests on ProviderKnown, what the run and its     *)
(* requests know of the provider: what was learnt of a turn was so, and    *)
(* still is if the turn had ended; only the last turn may be alive; and a  *)
(* run that is being cancelled has a request under way that cancels it.    *)
(***************************************************************************)
EXTENDS AgentRun, TLAPS

\* One request at a time reads the run, as the loop of the CLI does; nothing in the code enforces it.
SingleWriter == \A r, s \in Readers : r = s

\* What a request that awaits the provider or a tool is about.
InFlight == {"discover", "submit", "read", "cancel", "confirm"}
Addressed ==
    /\ \A x \in Clients : request[x].at \in InFlight => Turn(x) \in Turns
    /\ \A r \in Readers : request[r].at = "tool" => request[r].of \in Calls
    /\ run.phase = "submitting_provider" => run.pending \in Turns

IInv == RecordConsistent /\ Addressed

Runs == [phase : Phases, turn : Turns, pending : 0..MaxTurns, cancel : {"none", "request", "turn"},
         providerTurn : [turn : 0..MaxTurns, lifecycle : Lifecycles],
         calls : [Calls -> HarnessCall \union {NoCall}],
         results : [Calls -> Outcomes \union {"none"}],
         needs : {"none", "asked", "answered"}]
Requests == [at : {"idle", "gone", "discover", "submit", "read", "cancel", "confirm", "tool", "loop"},
             of : (0..MaxTurns) \union Calls, by : {"none", "request", "turn"},
             reply : Lifecycles \union {"error"}]

-----------------------------------------------------------------------------
\* A step that leaves the calls, their results, the tools and the readers in the loop alone, and does
\* not begin to wait for the user, keeps the record consistent.
LEMMA Quiet ==
    ASSUME RecordConsistent, run'.calls = run.calls, run'.results = run.results, run'.needs = run.needs,
           UNCHANGED <<todo, loop, historyVars>>,
           run'.phase \notin Waits \/ run'.phase = run.phase,
           \A r \in Readers : Busy(r) => request'[r] = request[r],
           \A r \in Readers : ~Busy(r) => request'[r].at \notin {"loop", "tool"}
    PROVE  (\A c \in Calls : CallConsistent(c)') /\ (\A r \in Readers : ReaderConsistent(r)')
<1>1. ASSUME NEW r \in Readers
      PROVE  /\ (request'[r].at = "loop") = (request[r].at = "loop")
             /\ (request'[r].at = "tool") = (request[r].at = "tool")
             /\ request[r].at = "tool" => request'[r].of = request[r].of
  BY DEF Busy
<1>2. ASSUME NEW c \in Calls PROVE CallConsistent(c)'
  <2>1. CallConsistent(c)
    BY DEF RecordConsistent
  <2>2. HasFailedDependency(c)' = HasFailedDependency(c)
    BY DEF HasFailedDependency
  <2> QED BY <1>1, <2>1, <2>2 DEF CallConsistent, historyVars
<1>3. ASSUME NEW r \in Readers PROVE ReaderConsistent(r)'
  <2>1. ReaderConsistent(r)
    BY DEF RecordConsistent
  <2> QED BY <1>1, <2>1 DEF ReaderConsistent, Busy
<1> QED BY <1>2, <1>3

\* What TypeOK says of the record and the requests, one at a time.
LEMMA Types ==
    ASSUME IInv
    PROVE  /\ run \in Runs /\ request \in [Clients -> Requests]
           /\ \A x \in Clients : request[x] \in Requests /\ Idle \in Requests /\ Gone \in Requests
           /\ \A t \in Turns : provider[t] \in Lifecycles
<1>1. run \in Runs /\ request \in [Clients -> Requests]
  BY DEF IInv, RecordConsistent, TypeOK, Runs, Requests
<1>2. \A t \in Turns : provider[t] \in Lifecycles
  BY DEF IInv, RecordConsistent, TypeOK
<1>3. Idle \in Requests /\ Gone \in Requests
  BY CallsAssumption DEF Idle, Gone, Requests, Lifecycles
<1> QED BY <1>1, <1>2, <1>3

\* A step that changes nothing but the record's phase and its dealings with the provider, the
\* requests outside the loop, and the provider.
LEMMA QuietStep ==
    ASSUME IInv, run' \in Runs, request' \in [Clients -> Requests],
           provider' \in [Turns -> Lifecycles], answer' \in [Turns -> Answers \union {NoAnswer}],
           run'.calls = run.calls, run'.results = run.results, run'.needs = run.needs,
           UNCHANGED <<todo, loop, historyVars>>,
           run'.phase \notin Waits \/ run'.phase = run.phase,
           run'.phase = "submitting_provider" => run'.pending \in Turns,
           \A r \in Readers : Busy(r) => request'[r] = request[r],
           \A x \in Clients : request'[x] = request[x] \/ (x \in Readers => ~Busy(x)),
           \A x \in Clients : request'[x] = request[x]
                 \/ request'[x].at \in {"idle", "gone"}
                 \/ (request'[x].at \in InFlight /\ request'[x].of \in Turns)
    PROVE  IInv'
<1>1. \A r \in Readers : ~Busy(r) => request'[r].at \notin {"loop", "tool"}
  BY DEF Busy, InFlight, Clients
<1>2. (\A c \in Calls : CallConsistent(c)') /\ (\A r \in Readers : ReaderConsistent(r)')
  BY <1>1, Quiet DEF IInv
<1>3. TypeOK'
  BY DEF IInv, RecordConsistent, TypeOK, Runs, Requests, historyVars
<1>4. Addressed'
  <2>1. ASSUME NEW x \in Clients, (request[x].at \in InFlight)' PROVE Turn(x)' \in Turns
    BY <2>1 DEF IInv, Addressed, Turn, InFlight
  <2>2. ASSUME NEW r \in Readers, (request[r].at = "tool")' PROVE (request[r].of)' \in Calls
    BY <2>2 DEF IInv, Addressed, InFlight, Clients
  <2> QED BY <2>1, <2>2 DEF Addressed
<1> QED BY <1>2, <1>3, <1>4 DEF IInv, RecordConsistent

\* Such a step of one request.
LEMMA QuietRequest ==
    ASSUME IInv, NEW x \in Clients, x \in Readers => ~Busy(x),
           NEW a \in Requests, a.at \in {"idle", "gone"} \/ (a.at \in InFlight /\ a.of \in Turns),
           request' = [request EXCEPT ![x] = a],
           run' \in Runs, run'.calls = run.calls, run'.results = run.results, run'.needs = run.needs,
           run'.phase \notin Waits \/ run'.phase = run.phase,
           run'.phase = "submitting_provider" => run'.pending \in Turns,
           provider' \in [Turns -> Lifecycles], answer' \in [Turns -> Answers \union {NoAnswer}],
           UNCHANGED <<todo, loop, historyVars>>
    PROVE  IInv'
<1>1. request' \in [Clients -> Requests]
  BY Types
<1>2. \A y \in Clients : request'[y] = IF y = x THEN a ELSE request[y]
  BY Types
<1>3. \A r \in Readers : Busy(r) => request'[r] = request[r]
  BY <1>2 DEF Clients
<1> QED BY <1>1, <1>2, <1>3, QuietStep

\* The record, with its dealings with the provider changed.
LEMMA Dealings ==
    ASSUME IInv, NEW phase \in Phases, NEW pending \in 0..MaxTurns, NEW cancel \in {"none", "request", "turn"},
           NEW turn \in [turn : 0..MaxTurns, lifecycle : Lifecycles],
           run' = [run EXCEPT !.phase = phase, !.pending = pending, !.cancel = cancel, !.providerTurn = turn]
    PROVE  /\ run' \in Runs /\ run'.calls = run.calls /\ run'.results = run.results /\ run'.needs = run.needs
           /\ run'.phase = phase /\ run'.pending = pending
<1>1. run \in Runs
  BY Types
<1> QED BY <1>1 DEF Runs

\* A run that fails.
LEMMA Fails ==
    ASSUME IInv, Fail
    PROVE  /\ run' \in Runs /\ run'.calls = run.calls /\ run'.results = run.results /\ run'.needs = run.needs
           /\ run'.phase = "failed"
<1>1. run \in Runs /\ "failed" \in Phases /\ 0 \in 0..MaxTurns
  BY Types, CallsAssumption DEF Phases, Terminal
<1>2. run' \in Runs
  BY <1>1 DEF Runs, Fail
<1> QED BY <1>1, <1>2 DEF Runs, Fail

-----------------------------------------------------------------------------
(* The requests that begin an await.                                       *)
LEMMA AskedTyped ==
    ASSUME IInv, NEW at \in InFlight, NEW by \in {"none", "request", "turn"}
    PROVE  Asked(at, by) \in Requests /\ Asked(at, by).at = at /\ Asked(at, by).of = run.turn /\ run.turn \in Turns
<1>1. run.turn \in Turns /\ run.turn \in 0..MaxTurns
  BY Types DEF Runs, Turns
<1> QED BY <1>1 DEF Asked, Requests, Lifecycles, InFlight

\* What a read does before its first await keeps the invariant.
LEMMA ReadKeeps ==
    ASSUME SingleWriter, IInv, NEW r \in Readers, Read(r)
    PROVE  IInv'
<1>0. r \in Clients /\ ~Busy(r) /\ request[r] = Idle /\ loop = None
  BY DEF Read, DiscoverTools, SubmitPending, ReadProvider, CancelAgain, ExecuteBatch, Polls, Clients, Busy, Idle
<1>a. provider \in [Turns -> Lifecycles] /\ answer \in [Turns -> Answers \union {NoAnswer}] /\ run \in Runs
  BY Types DEF IInv, RecordConsistent, TypeOK
<1>b. run.phase = "submitting_provider" => run.pending \in Turns
  BY DEF IInv, Addressed
<1>1. CASE DiscoverTools(r)
  BY <1>0, <1>a, <1>b, <1>1, AskedTyped, QuietRequest DEF DiscoverTools, Await, providerVars, InFlight
<1>2. CASE SubmitPending(r)
  <2> DEFINE a == [Asked("submit", "none") EXCEPT !.of = run.pending]
  <2>1. a \in Requests /\ a.at \in InFlight /\ a.of \in Turns
    BY <1>b, <1>2, Types DEF SubmitPending, Asked, Requests, Lifecycles, InFlight, Turns
  <2> HIDE DEF a
  <2> QED BY <1>0, <1>a, <1>b, <1>2, <2>1, QuietRequest DEF SubmitPending, Await, providerVars, a
<1>3. CASE ReadProvider(r)
  <2>1. CASE Fail /\ UNCHANGED clientVars
    BY <1>a, <1>3, <2>1, Fails, Types, QuietStep DEF ReadProvider, clientVars, providerVars, Waits
  <2>2. CASE Await(r, Asked("read", "none")) /\ UNCHANGED run
    BY <1>0, <1>a, <1>b, <1>3, <2>2, AskedTyped, QuietRequest DEF ReadProvider, Await, providerVars, InFlight
  <2> QED BY <1>3, <2>1, <2>2 DEF ReadProvider
<1>4. CASE CancelAgain(r)
  <2>1. CASE Fail /\ UNCHANGED clientVars
    BY <1>a, <1>4, <2>1, Fails, Types, QuietStep DEF CancelAgain, clientVars, providerVars, Waits
  <2>2. CASE Await(r, Asked("cancel", run.cancel)) /\ UNCHANGED run
    BY <1>0, <1>a, <1>b, <1>4, <2>2, AskedTyped, QuietRequest
       DEF CancelAgain, Await, providerVars, InFlight, Runs
  <2> QED BY <1>4, <2>1, <2>2 DEF CancelAgain
<1>5. CASE ExecuteBatch(r)
  <2>1. \A s \in Readers : s = r /\ ReaderConsistent(r)
    BY DEF SingleWriter, IInv, RecordConsistent
  <2>2. CASE run.needs = "asked"
    <3>1. run' = [run EXCEPT !.phase = "waiting_for_input"] /\ UNCHANGED <<clientVars, providerVars, historyVars>>
      BY <1>5, <2>2 DEF ExecuteBatch
    <3>2. run' \in Runs /\ run'.calls = run.calls /\ run'.results = run.results /\ run'.phase = "waiting_for_input"
      BY <1>a, <3>1 DEF Runs, Phases, Waits
    <3>3. TypeOK'
      BY <3>1, <3>2 DEF IInv, RecordConsistent, TypeOK, Runs, clientVars, providerVars, historyVars
    <3>4. Addressed'
      BY <3>1, <3>2 DEF IInv, Addressed, clientVars, Turn
    <3>5. ASSUME NEW c \in Calls PROVE CallConsistent(c)'
      BY <3>1, <3>2 DEF IInv, RecordConsistent, CallConsistent, HasFailedDependency, clientVars, historyVars
    <3>6. ReaderConsistent(r)'
      BY <1>0, <2>1, <3>1 DEF ReaderConsistent, Busy, clientVars
    <3> QED BY <2>1, <3>3, <3>4, <3>5, <3>6 DEF IInv, RecordConsistent
  <2>3. CASE run.needs # "asked"
    <3> DEFINE a == [Idle EXCEPT !.at = "loop"]
    <3>1. /\ request' = [request EXCEPT ![r] = a] /\ todo' = [todo EXCEPT ![r] = Pending(run.calls)] /\ loop' = r
          /\ UNCHANGED <<run, providerVars, historyVars>> /\ run.phase = "executing_batch"
      BY <1>5, <2>3 DEF ExecuteBatch
    <3>2. a \in Requests /\ a.at = "loop"
      BY CallsAssumption DEF Idle, Requests, Lifecycles
    <3> HIDE DEF a
    <3>3. Pending(run.calls) \in [Calls -> HarnessCall \union {NoCall}]
      BY <1>a DEF Pending, Runs
    <3>4. request' \in [Clients -> Requests] /\ todo' \in [Readers -> [Calls -> HarnessCall \union {NoCall}]]
      BY <3>1, <3>2, <3>3, Types DEF IInv, RecordConsistent, TypeOK
    <3>5. TypeOK'
      BY <3>1, <3>4 DEF IInv, RecordConsistent, TypeOK, Requests, providerVars, historyVars
    <3>6. \A y \in Clients : request'[y] = IF y = r THEN a ELSE request[y]
      BY <3>1, Types
    <3>7. Addressed'
      BY <1>0, <3>1, <3>2, <3>6 DEF IInv, Addressed, Clients, Turn, InFlight
    <3>8. ASSUME NEW c \in Calls PROVE CallConsistent(c)'
      <4>1. CallConsistent(c) /\ \A s \in Readers : request[s].at # "tool" /\ request'[s].at # "tool"
        BY <1>0, <2>1, <3>2, <3>6 DEF IInv, RecordConsistent, Idle
      <4> QED BY <3>1, <4>1 DEF CallConsistent, HasFailedDependency, historyVars
    <3>9. ReaderConsistent(r)'
      <4>1. todo'[r] = Pending(run.calls) /\ request'[r] = a
        BY <3>1, <3>6, <1>0 DEF IInv, RecordConsistent, TypeOK
      <4>2. \A c \in Calls : todo'[r][c] # NoCall => todo'[r][c] = run.calls[c] /\ run.calls[c].status = "pending"
        BY <4>1 DEF Pending
      <4> QED BY <2>3, <3>1, <3>2, <4>1, <4>2 DEF ReaderConsistent, Busy, Waits
    <3> QED BY <2>1, <3>5, <3>7, <3>8, <3>9 DEF IInv, RecordConsistent
  <2> QED BY <2>2, <2>3
<1> QED BY <1>1, <1>2, <1>3, <1>4, <1>5 DEF Read

-----------------------------------------------------------------------------
(* The provider, and what a request does after its await.                  *)
LEMMA ReplyKeeps ==
    ASSUME IInv, NEW x \in Clients, request[x].at \in InFlight, NEW m \in Lifecycles \union {"error"},
           NEW at \in InFlight, request' = [request EXCEPT ![x] = [request[x] EXCEPT !.at = at, !.reply = m]],
           provider' \in [Turns -> Lifecycles], UNCHANGED <<run, todo, loop, answer, historyVars>>
    PROVE  IInv'
<1> DEFINE a == [request[x] EXCEPT !.at = at, !.reply = m]
<1>1. request[x] \in Requests /\ Turn(x) \in Turns
  BY Types DEF IInv, Addressed
<1>2. a \in Requests /\ a.at = at /\ a.of \in Turns
  BY <1>1 DEF Requests, InFlight, Turn
<1>3. x \in Readers => ~Busy(x)
  BY DEF Busy, InFlight
<1>4. run \in Runs /\ answer \in [Turns -> Answers \union {NoAnswer}]
      /\ (run.phase = "submitting_provider" => run.pending \in Turns)
  BY Types DEF IInv, RecordConsistent, TypeOK, Addressed
<1> HIDE DEF a
<1> QED BY <1>2, <1>3, <1>4, QuietRequest DEF a

\* The replies of the provider touch the requests that wait for them, and no call.
LEMMA ProviderKeeps ==
    ASSUME IInv, NEW x \in Clients, Replies(x)
    PROVE  IInv'
<1>1. request[x] \in Requests /\ run \in Runs /\ provider \in [Turns -> Lifecycles] /\ \A t \in Turns : provider[t] \in Lifecycles
  BY Types DEF IInv, RecordConsistent, TypeOK
<1>2. ASSUME NEW replies \in SUBSET Lifecycles, Reply(x, replies), request[x].at \in InFlight,
             provider' \in [Turns -> Lifecycles], UNCHANGED <<run, todo, loop, answer, historyVars>>
      PROVE  IInv'
  <2>1. PICK m \in Lifecycles \union {"error"} : request' = [request EXCEPT ![x].reply = m]
    BY <1>2 DEF Reply
  <2>2. [request[x] EXCEPT !.reply = m] = [request[x] EXCEPT !.at = request[x].at, !.reply = m]
    BY <1>1 DEF Requests
  <2>3. request' = [request EXCEPT ![x] = [request[x] EXCEPT !.at = request[x].at, !.reply = m]]
    BY <2>1, <2>2
  <2> QED BY <1>2, <2>3, ReplyKeeps
<1>3. request[x].at \in InFlight => Turn(x) \in Turns
  BY DEF IInv, Addressed
<1>4. \A l \in Lifecycles : {l} \in SUBSET Lifecycles
  OBVIOUS
<1>5. CASE ProviderStarts(x)
  <2>1. request[x].at \in InFlight
    BY <1>5 DEF ProviderStarts, Unanswered, At, InFlight
  <2>2. provider' \in [Turns -> Lifecycles] /\ (Reply(x, {"alive"}) \/ Reply(x, {}))
    BY <1>1, <1>5 DEF ProviderStarts, Lifecycles, Alive
  <2>3. {"alive"} \in SUBSET Lifecycles
    BY DEF Lifecycles, Alive
  <2> QED BY <1>2, <1>5, <2>1, <2>2, <2>3 DEF ProviderStarts
<1>6. CASE SubmissionFails(x)
  BY <1>1, <1>2, <1>6 DEF SubmissionFails, Unanswered, At, InFlight, providerVars
<1>7. CASE ProviderReads(x)
  BY <1>1, <1>2, <1>3, <1>4, <1>7 DEF ProviderReads, Unanswered, At, InFlight, providerVars
<1>8. CASE ProviderLooks(x)
  <2>1. request[x].at \in InFlight /\ request[x].reply = "none" /\ UNCHANGED <<run, todo, loop, providerVars, historyVars>>
    BY <1>8 DEF ProviderLooks, Unanswered, At, InFlight
  <2>2. CASE request' = [request EXCEPT ![x].at = "confirm"]
    <3>1. [request[x] EXCEPT !.at = "confirm"] = [request[x] EXCEPT !.at = "confirm", !.reply = "none"]
      BY <1>1, <2>1 DEF Requests
    <3>2. request' = [request EXCEPT ![x] = [request[x] EXCEPT !.at = "confirm", !.reply = "none"]]
      BY <2>2, <3>1
    <3>3. "confirm" \in InFlight /\ "none" \in Lifecycles
      BY DEF InFlight, Lifecycles
    <3> QED BY <1>1, <2>1, <3>2, <3>3, ReplyKeeps DEF providerVars
  <2>3. CASE Reply(x, {provider[Turn(x)]})
    BY <1>1, <1>2, <1>3, <1>4, <2>1, <2>3 DEF providerVars
  <2> QED BY <1>8, <2>2, <2>3 DEF ProviderLooks
<1>9. CASE ProviderCancels(x)
  <2>1. request[x].at \in InFlight
    BY <1>9 DEF ProviderCancels, Unanswered, At, InFlight
  <2>2. provider' \in [Turns -> Lifecycles]
    BY <1>1, <1>9 DEF ProviderCancels, Lifecycles, Terminal
  <2>3. Reply(x, {"cancelled"}) \/ Reply(x, {})
    BY <1>9 DEF ProviderCancels
  <2>4. {"cancelled"} \in SUBSET Lifecycles /\ {} \in SUBSET Lifecycles
    BY DEF Lifecycles, Terminal
  <2> QED BY <1>2, <1>9, <2>1, <2>2, <2>3, <2>4 DEF ProviderCancels
<1> QED BY <1>5, <1>6, <1>7, <1>8, <1>9 DEF Replies

\* The ends of the provider's jobs, and their waits for a user, are not seen by the record.
LEMMA TurnEndsKeep ==
    ASSUME IInv, NEW t \in Turns, ProviderEnds(t) \/ ProviderWaits(t)
    PROVE  IInv'
<1>1. /\ run \in Runs /\ request \in [Clients -> Requests]
      /\ provider \in [Turns -> Lifecycles] /\ answer \in [Turns -> Answers \union {NoAnswer}]
      /\ run.phase = "submitting_provider" => run.pending \in Turns
  BY Types DEF IInv, RecordConsistent, TypeOK, Addressed
<1>2. provider' \in [Turns -> Lifecycles] /\ answer' \in [Turns -> Answers \union {NoAnswer}]
  BY <1>1 DEF ProviderEnds, ProviderWaits, Lifecycles, Alive, Terminal
<1>3. UNCHANGED <<run, clientVars, historyVars>>
  BY DEF ProviderEnds, ProviderWaits
<1> QED BY <1>1, <1>2, <1>3, QuietStep DEF clientVars

\* What a request learned of its turn.
LEMMA LearntTyped ==
    ASSUME IInv, NEW x \in Clients, request[x].at \in InFlight, request[x].reply # "error"
    PROVE  Learnt(x) \in [turn : 0..MaxTurns, lifecycle : Lifecycles]
<1>1. Turn(x) \in Turns
  BY DEF IInv, Addressed
<1>2. Turn(x) \in 0..MaxTurns /\ request[x] \in Requests
  BY <1>1, Types DEF Turns
<1> QED BY <1>2 DEF Learnt, Requests

\* A request that is over, and has only changed the record's dealings with the provider.
LEMMA ReturnQuietly ==
    ASSUME IInv, NEW x \in Clients, x \in Readers => ~Busy(x), Return(x), UNCHANGED <<providerVars, historyVars>>,
           run' \in Runs, run'.calls = run.calls, run'.results = run.results, run'.needs = run.needs,
           run'.phase \notin Waits, run'.phase = "submitting_provider" => run'.pending \in Turns
    PROVE  IInv'
<1>1. Back(x) \in Requests /\ Back(x).at \in {"idle", "gone"}
  BY CallsAssumption DEF Back, Idle, Gone, Requests, Lifecycles
<1>2. provider \in [Turns -> Lifecycles] /\ answer \in [Turns -> Answers \union {NoAnswer}]
  BY DEF IInv, RecordConsistent, TypeOK
<1> QED BY <1>1, <1>2, QuietRequest DEF Return, providerVars

\* The batch the provider answered with replaces the calls of the record.
LEMMA AcceptKeeps ==
    ASSUME SingleWriter, IInv, NEW r \in Readers, AcceptBatch(r)
    PROVE  IInv'
<1> DEFINE a == answer[Turn(r)]
           calls == Accepted(a, Turn(r))
           results == [c \in Calls |-> IF c \in KnownFailures(a) THEN "failed" ELSE "none"]
           needs == IF a.needs THEN "asked" ELSE "none"
           phase == IF a.needs THEN "waiting_for_input"
                    ELSE IF \E c \in Calls : calls[c].approval = "pending"
                           THEN "waiting_for_approval" ELSE "executing_batch"
<1>1. r \in Clients /\ request[r].at \in InFlight /\ request[r].reply # "error" /\ loop = None
  BY DEF AcceptBatch, Answered, At, InFlight, Clients
<1>2. Turn(r) \in Turns
  BY <1>1 DEF IInv, Addressed
<1>3. a \in Answers /\ KnownFailures(a) \subseteq a.calls /\ a.calls \subseteq Calls
  <2>1. a \in Answers \union {NoAnswer} /\ a.kind = "batch"
    BY <1>2 DEF IInv, RecordConsistent, TypeOK, AcceptBatch
  <2>2. a \in Answers
    BY <2>1 DEF NoAnswer
  <2> QED BY <2>2, AnswersAssumption DEF KnownFailures
<1>4. Learnt(r) \in [turn : 0..MaxTurns, lifecycle : Lifecycles] /\ run \in Runs
  BY <1>1, LearntTyped, Types
<1>5. /\ run' = [run EXCEPT !.providerTurn = Learnt(r), !.calls = calls, !.results = results, !.needs = needs,
                            !.phase = phase]
      /\ Return(r) /\ ended' = NoResults /\ UNCHANGED <<approved, providerVars>>
  BY DEF AcceptBatch
<1>6. calls \in [Calls -> HarnessCall \union {NoCall}] /\ results \in [Calls -> Outcomes \union {"none"}]
  BY <1>2 DEF Accepted, HarnessCall, Outcomes
<1>7. needs \in {"none", "asked", "answered"} /\ phase \in Phases /\ phase # "submitting_provider"
  BY DEF Phases, Waits
<1>8. \A c \in Calls : calls[c] = IF c \notin a.calls THEN NoCall
         ELSE [turn |-> Turn(r), status |-> IF c \in KnownFailures(a) THEN "failed" ELSE "pending",
               approval |-> IF c \in KnownFailures(a) \union ReadOnly THEN "not_required" ELSE "pending"]
  BY DEF Accepted
<1>9. \A c \in Calls : results[c] = IF c \in KnownFailures(a) THEN "failed" ELSE "none"
  OBVIOUS
<1> HIDE DEF calls, results, needs, phase
<1>10. run' \in Runs /\ run'.calls = calls /\ run'.results = results /\ run'.phase = phase
  BY <1>4, <1>5, <1>6, <1>7 DEF Runs
<1>11. request' = [request EXCEPT ![r] = Idle] /\ UNCHANGED <<todo, loop>>
  BY <1>5 DEF Return, Back
<1>12. request' \in [Clients -> Requests] /\ \A x \in Clients : request'[x] = IF x = r THEN Idle ELSE request[x]
  BY <1>11, Types
<1>13. TypeOK'
  BY <1>5, <1>10, <1>11, <1>12 DEF IInv, RecordConsistent, TypeOK, Runs, Requests, providerVars, NoResults
<1>14. Addressed'
  <2>1. ASSUME NEW x \in Clients, (request[x].at \in InFlight)' PROVE Turn(x)' \in Turns
    BY <1>12, <2>1 DEF IInv, Addressed, InFlight, Idle, Turn
  <2>2. ASSUME NEW s \in Readers, (request[s].at = "tool")' PROVE (request[s].of)' \in Calls
    BY <1>12, <2>2 DEF IInv, Addressed, Clients, Idle
  <2> QED BY <1>7, <1>10, <2>1, <2>2 DEF Addressed
<1>15. \A s \in Readers : s = r /\ request'[s] = Idle /\ todo'[s] = NoCalls
  BY <1>1, <1>11, <1>12 DEF SingleWriter, IInv, RecordConsistent, ReaderConsistent, Busy, InFlight
<1>16. ASSUME NEW c \in Calls PROVE CallConsistent(c)'
  <2>1. ended'[c] = "none" /\ \A s \in Readers : request'[s].at # "tool"
    BY <1>5, <1>15 DEF NoResults, Idle
  <2>2. run'.results[c] \in {"none", "failed"} /\ (run'.results[c] = "failed" <=> c \in KnownFailures(a))
    BY <1>9, <1>10
  <2> DEFINE known == c \in KnownFailures(a)
             unneeded == c \in KnownFailures(a) \union ReadOnly
  <2>3. run'.calls[c] = IF c \notin a.calls THEN NoCall
           ELSE [turn |-> Turn(r), status |-> IF known THEN "failed" ELSE "pending",
                 approval |-> IF unneeded THEN "not_required" ELSE "pending"]
    BY <1>8, <1>10
  <2>4. (known => c \in a.calls) /\ (unneeded <=> known \/ c \in ReadOnly)
    BY <1>3
  <2> HIDE DEF known, unneeded
  <2>5. /\ run'.calls[c].status \in {"absent", "pending", "failed"}
        /\ run'.calls[c].status = "failed" <=> known
        /\ run'.calls[c].approval \in {"pending", "not_required"}
        /\ run'.calls[c] # NoCall /\ run'.calls[c].approval = "not_required" /\ c \notin ReadOnly
              => run'.calls[c].status = "failed"
    <3>1. CASE c \notin a.calls
      BY <2>3, <2>4, <3>1 DEF NoCall
    <3>2. CASE c \in a.calls
      BY <2>3, <2>4, <3>2
    <3> QED BY <3>1, <3>2
  <2> QED BY <2>1, <2>2, <2>5 DEF CallConsistent, Outcomes, known
<1>17. ASSUME NEW s \in Readers PROVE ReaderConsistent(s)'
  BY <1>1, <1>11, <1>15, NoneAssumption DEF ReaderConsistent, Busy, Idle
<1> QED BY <1>13, <1>14, <1>16, <1>17 DEF IInv, RecordConsistent

\* What a read does after its await, accepting a batch included, keeps the invariant.
LEMMA ReturnsKeep ==
    ASSUME SingleWriter, IInv, NEW r \in Readers, Returns(r)
    PROVE  IInv'
<1>1. r \in Clients /\ request[r] \in Requests /\ run \in Runs
  BY Types DEF Clients
<1>2. request[r].at \in InFlight /\ ~Busy(r) /\ Turn(r) \in Turns /\ Turn(r) \in 0..MaxTurns
  <2>1. request[r].at \in InFlight
    BY DEF Returns, ToolsDiscovered, Submitted, AcceptBatch, AcceptFinal, ReadReturns, Answered, At, InFlight
  <2>2. Turn(r) \in Turns
    BY <1>1, <2>1 DEF IInv, Addressed
  <2> QED BY <2>1, <2>2 DEF Busy, InFlight, Turns
<1>3. CASE Return(r) /\ Fail /\ UNCHANGED <<providerVars, historyVars>>
  BY <1>1, <1>2, <1>3, Fails, ReturnQuietly DEF Waits
<1>4. ASSUME NEW phase \in Phases \ Waits, phase = "submitting_provider" => FALSE, NEW pending \in 0..MaxTurns,
             request[r].reply # "error", Return(r), UNCHANGED <<providerVars, historyVars>>,
             run' = [run EXCEPT !.phase = phase, !.providerTurn = Learnt(r), !.pending = pending]
      PROVE  IInv'
  <2>1. Learnt(r) \in [turn : 0..MaxTurns, lifecycle : Lifecycles]
    BY <1>1, <1>2, <1>4, LearntTyped
  <2>2. run' \in Runs
    BY <1>1, <1>4, <2>1 DEF Runs
  <2>3. run'.calls = run.calls /\ run'.results = run.results /\ run'.needs = run.needs /\ run'.phase = phase
    BY <1>1, <1>4 DEF Runs
  <2> QED BY <1>1, <1>2, <1>4, <2>2, <2>3, ReturnQuietly
<1>5. CASE ToolsDiscovered(r)
  <2>1. CASE Fail
    BY <1>3, <1>5, <2>1 DEF ToolsDiscovered
  <2>2. CASE run' = [run EXCEPT !.phase = "submitting_provider", !.pending = Turn(r)]
    <3>1. run' \in Runs /\ run'.phase = "submitting_provider" /\ run'.pending = Turn(r)
      BY <1>1, <1>2, <2>2 DEF Runs, Phases
    <3>2. run'.calls = run.calls /\ run'.results = run.results /\ run'.needs = run.needs
      BY <1>1, <2>2 DEF Runs
    <3> QED BY <1>1, <1>2, <1>5, <3>1, <3>2, ReturnQuietly DEF ToolsDiscovered, Waits
  <2> QED BY <1>5, <2>1, <2>2 DEF ToolsDiscovered
<1>6. CASE Submitted(r)
  <2>1. CASE request[r].reply = "error"
    BY <1>3, <1>6, <2>1 DEF Submitted
  <2>2. CASE request[r].reply # "error"
    <3>1. run' = [run EXCEPT !.phase = "awaiting_provider", !.providerTurn = Learnt(r), !.pending = 0]
      BY <1>6, <2>2 DEF Submitted
    <3>2. "awaiting_provider" \in Phases \ Waits /\ 0 \in 0..MaxTurns
      BY CallsAssumption DEF Phases, Waits
    <3> QED BY <1>4, <1>6, <2>2, <3>1, <3>2 DEF Submitted
  <2> QED BY <2>1, <2>2
<1>7. run.pending \in 0..MaxTurns /\ run = [run EXCEPT !.pending = run.pending]
  BY <1>1 DEF Runs
<1>8. CASE AcceptFinal(r)
  <2>1. run' = [run EXCEPT !.phase = "succeeded", !.providerTurn = Learnt(r), !.pending = run.pending]
    BY <1>1, <1>8 DEF AcceptFinal, Runs
  <2>2. "succeeded" \in Phases \ Waits
    BY DEF Phases, Waits, Terminal
  <2> QED BY <1>4, <1>7, <1>8, <2>1, <2>2 DEF AcceptFinal
<1>9. CASE ReadReturns(r)
  <2>1. CASE Fail
    BY <1>3, <1>9, <2>1 DEF ReadReturns
  <2>2. CASE request[r].reply \notin {"error", "succeeded"} /\ ~Fail
    <3> DEFINE phase == IF request[r].reply \in Terminal THEN request[r].reply ELSE "awaiting_provider"
    <3>1. run' = [run EXCEPT !.providerTurn = Learnt(r), !.phase = phase]
      BY <1>9, <2>2 DEF ReadReturns
    <3>2. phase \in Phases \ Waits /\ phase # "submitting_provider"
      BY DEF Phases, Waits, Terminal
    <3> HIDE DEF phase
    <3>3. run' = [run EXCEPT !.phase = phase, !.providerTurn = Learnt(r), !.pending = run.pending]
      BY <1>1, <3>1 DEF Runs
    <3> QED BY <1>4, <1>7, <1>9, <2>2, <3>2, <3>3 DEF ReadReturns
  <2> QED BY <1>9, <2>1, <2>2 DEF ReadReturns
<1> QED BY <1>5, <1>6, <1>8, <1>9, AcceptKeeps DEF Returns

-----------------------------------------------------------------------------
(* cancel, its return, and a resume for the provider.                      *)
LEMMA CancelReturnKeeps ==
    ASSUME IInv, NEW x \in Clients, CancelReturns(x)
    PROVE  IInv'
<1>1. request[x].at \in InFlight /\ request[x].reply \in Lifecycles \union {"error"} /\ request[x] \in Requests
  BY Types DEF CancelReturns, Answered, At, InFlight, Requests
<1>2. x \in Readers => ~Busy(x)
  BY <1>1 DEF InFlight, Busy
<1>3. CASE request[x].reply = "error"
  BY <1>2, <1>3, Fails, ReturnQuietly DEF CancelReturns, Waits
<1>4. CASE request[x].reply # "error"
  <2> DEFINE phase == IF request[x].reply \in {"failed", "cancelled"} THEN request[x].reply ELSE "awaiting_provider"
  <2>1. run' = [run EXCEPT !.providerTurn = Learnt(x), !.pending = 0, !.cancel = "none", !.phase = phase]
    BY <1>4 DEF CancelReturns
  <2>2. phase \in Phases \ Waits /\ phase # "submitting_provider" /\ 0 \in 0..MaxTurns
    BY CallsAssumption DEF Phases, Waits, Terminal
  <2>3. Learnt(x) \in [turn : 0..MaxTurns, lifecycle : Lifecycles] /\ run \in Runs
    BY <1>1, <1>4, LearntTyped, Types
  <2> HIDE DEF phase
  <2>4. run' = [run EXCEPT !.phase = phase, !.pending = 0, !.cancel = "none", !.providerTurn = Learnt(x)]
    BY <2>1, <2>3 DEF Runs
  <2>5. /\ run' \in Runs /\ run'.calls = run.calls /\ run'.results = run.results /\ run'.needs = run.needs
        /\ run'.phase = phase
    BY <2>2, <2>3, <2>4, Dealings
  <2> QED BY <1>2, <2>2, <2>5, ReturnQuietly DEF CancelReturns
<1> QED BY <1>3, <1>4

\* A cancel, while a tool runs or between two reads, leaves the calls alone.
LEMMA CancelKeeps ==
    ASSUME IInv, NEW k \in Cancellers, Cancel(k)
    PROVE  IInv'
<1>1. k \in Clients /\ k \notin Readers /\ run \in Runs
  BY NoneAssumption, Types DEF Clients
<1>2. /\ provider \in [Turns -> Lifecycles] /\ answer \in [Turns -> Answers \union {NoAnswer}]
      /\ run.phase = "submitting_provider" => run.pending \in Turns
      /\ UNCHANGED <<providerVars, historyVars>>
  BY DEF IInv, RecordConsistent, TypeOK, Addressed, Cancel
<1>3. CASE run.phase \in Terminal /\ Return(k) /\ UNCHANGED run
  BY <1>1, <1>2, <1>3, ReturnQuietly DEF Terminal, Waits
<1>4. CASE Return(k) /\ run' = [run EXCEPT !.phase = "cancelled"]
  <2>1. run' \in Runs /\ run'.calls = run.calls /\ run'.results = run.results /\ run'.needs = run.needs
        /\ run'.phase = "cancelled"
    BY <1>1, <1>4 DEF Runs, Phases, Terminal
  <2> QED BY <1>1, <1>2, <1>4, <2>1, ReturnQuietly DEF Waits
<1>5. CASE Return(k) /\ Fail
  BY <1>1, <1>2, <1>5, Fails, ReturnQuietly DEF Waits
<1>6. ASSUME NEW by \in {"request", "turn"}, Await(k, Asked("cancel", by)),
             run' = [run EXCEPT !.phase = "cancelling_provider", !.cancel = by]
      PROVE  IInv'
  <2>1. run' \in Runs /\ run'.calls = run.calls /\ run'.results = run.results /\ run'.needs = run.needs
        /\ run'.phase = "cancelling_provider"
    BY <1>1, <1>6 DEF Runs, Phases
  <2>2. Asked("cancel", by) \in Requests /\ Asked("cancel", by).at \in InFlight /\ Asked("cancel", by).of \in Turns
    BY AskedTyped DEF InFlight
  <2> QED BY <1>1, <1>2, <1>6, <2>1, <2>2, QuietRequest DEF Await, Waits, providerVars
<1> QED BY <1>3, <1>4, <1>5, <1>6 DEF Cancel

\* A resume that fails the run leaves the calls alone.
LEMMA ResumeProviderKeeps ==
    ASSUME IInv, ResumeProvider
    PROVE  IInv'
<1>1. /\ provider \in [Turns -> Lifecycles] /\ answer \in [Turns -> Answers \union {NoAnswer}]
      /\ request \in [Clients -> Requests]
  BY Types DEF IInv, RecordConsistent, TypeOK
<1> QED BY <1>1, Fails, QuietStep DEF ResumeProvider, clientVars, providerVars, Waits

-----------------------------------------------------------------------------
(* The loop.                                                               *)
\* What a pass visits waits for nothing: its status is pending, it has no outcome, and no tool runs.
LEMMA Visited ==
    ASSUME SingleWriter, IInv, NEW r \in Readers, NEW c \in Calls, Visits(r, c)
    PROVE  /\ r \in Clients /\ request[r].at = "loop" /\ loop = r /\ \A s \in Readers : s = r
           /\ todo[r][c] # NoCall /\ todo[r][c] = run.calls[c] /\ run.calls[c].status = "pending"
           /\ run.calls[c] \in HarnessCall /\ run.results[c] = "none" /\ ended[c] = "none"
           /\ run.phase \notin Waits /\ run.needs # "asked"
<1>1. loop = r /\ todo[r][c] # NoCall /\ r \in Clients /\ \A s \in Readers : s = r
  BY DEF Visits, Actionable, Clients, SingleWriter
<1>2. ReaderConsistent(r) /\ CallConsistent(c)
  BY DEF IInv, RecordConsistent
<1>3. request[r].at = "loop" /\ Busy(r)
  BY <1>1, <1>2 DEF ReaderConsistent, Busy
<1>4. todo[r][c] = run.calls[c] /\ run.calls[c].status = "pending" /\ run.phase \notin Waits /\ run.needs # "asked"
  BY <1>1, <1>2, <1>3 DEF ReaderConsistent
<1>5. run.calls[c] \in HarnessCall \union {NoCall} /\ run.results[c] \in Outcomes \union {"none"}
      /\ ended[c] \in Outcomes \union {"none"}
  BY Types DEF Runs, IInv, RecordConsistent, TypeOK
<1>6. run.results[c] = "none" /\ ended[c] = "none"
  BY <1>2, <1>4, <1>5 DEF CallConsistent, Outcomes
<1> QED BY <1>1, <1>3, <1>4, <1>5, <1>6

\* The updates of one call: nothing but its status changes, and its result where it has an outcome.
Writes(s, c, status) ==
    /\ s \in Runs /\ s.phase = run.phase /\ s.pending = run.pending /\ s.needs = run.needs
    /\ \A d \in Calls \ {c} : s.calls[d] = run.calls[d] /\ s.results[d] = run.results[d]
    /\ s.calls[c] \in HarnessCall /\ s.calls[c].status = status
    /\ s.calls[c].approval = run.calls[c].approval /\ s.calls[c].turn = run.calls[c].turn
    /\ s.results[c] = IF status \in Outcomes THEN status ELSE run.results[c]

\* What WithStatus writes to a call that is in the record, and what it leaves alone.
LEMMA StatusWritten ==
    ASSUME IInv, NEW c \in Calls, run.calls[c] \in HarnessCall,
           NEW status \in {"pending", "executing", "succeeded", "failed", "authentication_required"},
           NEW s, s = WithStatus(run, c, status)
    PROVE  /\ s \in Runs /\ s.phase = run.phase /\ s.pending = run.pending /\ s.needs = run.needs
           /\ \A d \in Calls \ {c} : s.calls[d] = run.calls[d]
           /\ s.calls[c] \in HarnessCall /\ s.calls[c].status = status /\ s.results = run.results
           /\ s.calls[c].approval = run.calls[c].approval /\ s.calls[c].turn = run.calls[c].turn
<1> DEFINE call == [run.calls[c] EXCEPT !.status = status]
           calls == [run.calls EXCEPT ![c] = call]
<1>1. run \in Runs /\ run.calls[c] # NoCall
  BY Types DEF HarnessCall, NoCall, Turns
<1>2. /\ call \in HarnessCall /\ call.status = status /\ call.approval = run.calls[c].approval
      /\ call.turn = run.calls[c].turn
  BY DEF HarnessCall
<1>3. s = [run EXCEPT !.calls = calls]
  BY <1>1 DEF WithStatus, Runs
<1> HIDE DEF call
<1>4. calls \in [Calls -> HarnessCall \union {NoCall}] /\ \A d \in Calls : calls[d] = IF d = c THEN call ELSE run.calls[d]
  BY <1>1, <1>2 DEF Runs
<1> HIDE DEF calls
<1>5. s \in Runs /\ s.calls = calls
  BY <1>1, <1>3, <1>4 DEF Runs
<1>6. s.phase = run.phase /\ s.pending = run.pending /\ s.needs = run.needs /\ s.results = run.results
  BY <1>1, <1>3 DEF Runs
<1> QED BY <1>2, <1>4, <1>5, <1>6

\* What the loop writes to a call it visits: a status, and the result that goes with it.
LEMMA CallWritten ==
    ASSUME IInv, NEW c \in Calls, run.calls[c] \in HarnessCall,
           NEW status \in {"executing", "succeeded", "failed", "authentication_required"},
           NEW s, s = IF status \in Outcomes THEN WithOutcome(run, c, status) ELSE WithStatus(run, c, status)
    PROVE  Writes(s, c, status)
<1> DEFINE w == WithStatus(run, c, status)
<1>1. /\ w \in Runs /\ w.phase = run.phase /\ w.pending = run.pending /\ w.needs = run.needs
      /\ \A d \in Calls \ {c} : w.calls[d] = run.calls[d]
      /\ w.calls[c] \in HarnessCall /\ w.calls[c].status = status /\ w.results = run.results
      /\ w.calls[c].approval = run.calls[c].approval /\ w.calls[c].turn = run.calls[c].turn
  <2>1. status \in {"pending", "executing", "succeeded", "failed", "authentication_required"}
    OBVIOUS
  <2> HIDE DEF w
  <2> QED BY <2>1, StatusWritten DEF w
<1>2. s = IF status \in Outcomes THEN [w EXCEPT !.results[c] = status] ELSE w
  BY DEF WithOutcome
<1> HIDE DEF w
<1>3. CASE status \in Outcomes
  <2>1. s = [w EXCEPT !.results[c] = status] /\ w.results \in [Calls -> Outcomes \union {"none"}]
    BY <1>1, <1>2, <1>3 DEF Runs
  <2>2. s \in Runs /\ s.phase = w.phase /\ s.pending = w.pending /\ s.needs = w.needs /\ s.calls = w.calls
    BY <1>1, <1>3, <2>1 DEF Runs
  <2>3. s.results = [w.results EXCEPT ![c] = status]
    BY <1>1, <2>1 DEF Runs
  <2> QED BY <1>1, <1>3, <2>1, <2>2, <2>3 DEF Writes
<1>4. CASE status \notin Outcomes
  BY <1>1, <1>2, <1>4 DEF Writes
<1> QED BY <1>3, <1>4

\* The pass goes on: only the call it visited may have changed.
LEMMA PassGoesOn ==
    ASSUME SingleWriter, IInv, NEW r \in Readers, NEW c \in Calls, Visits(r, c), todo' = After(r, c),
           \A d \in Calls \ {c} : run'.calls[d] = run.calls[d], run'.phase = run.phase, run'.needs = run.needs,
           request'[r].at \in {"loop", "tool"}, request'[r].at = "loop" <=> loop' = r
    PROVE  /\ todo' \in [Readers -> [Calls -> HarnessCall \union {NoCall}]]
           /\ \A s \in Readers : ReaderConsistent(s)'
<1>1. todo \in [Readers -> [Calls -> HarnessCall \union {NoCall}]]
  BY DEF IInv, RecordConsistent, TypeOK
<1>2. \A d \in Calls : todo'[r][d] = IF d > c THEN todo[r][d] ELSE NoCall
  BY <1>1 DEF After
<1>3. todo' \in [Readers -> [Calls -> HarnessCall \union {NoCall}]]
  BY <1>1 DEF After
<1>4. ReaderConsistent(r) /\ Busy(r) /\ run.phase \notin Waits /\ run.needs # "asked" /\ \A s \in Readers : s = r
  BY Visited DEF IInv, RecordConsistent, Busy
<1>5. ASSUME NEW d \in Calls, todo'[r][d] # NoCall PROVE todo'[r][d] = run'.calls[d] /\ run'.calls[d].status = "pending"
  <2>1. d > c /\ d \in Calls \ {c} /\ todo'[r][d] = todo[r][d] /\ todo[r][d] # NoCall
    BY <1>2, <1>5, CallsAssumption
  <2> QED BY <1>4, <2>1 DEF ReaderConsistent
<1>6. ReaderConsistent(r)'
  BY <1>4, <1>5 DEF ReaderConsistent, Busy
<1> QED BY <1>3, <1>4, <1>6

\* What it takes for a written call, and for the others, to stay consistent.
LEMMA OthersConsistent ==
    ASSUME RecordConsistent, NEW c \in Calls, NEW status, Writes(run', c, status), run.results[c] = "none",
           approved' = approved, \A d \in Calls \ {c} : ended'[d] = ended[d],
           NEW d \in Calls \ {c}, run.calls[d].status # "executing", \A s \in Readers : request'[s].at = "tool" => request'[s].of = c
    PROVE  CallConsistent(d)'
<1>1. CallConsistent(d)
  BY DEF RecordConsistent
<1>2. HasFailedDependency(d) => HasFailedDependency(d)'
  BY CallsAssumption DEF HasFailedDependency, Writes
<1>3. run'.calls[d] = run.calls[d] /\ run'.results[d] = run.results[d] /\ ended'[d] = ended[d] /\ d # c
  BY DEF Writes
<1>4. ~ \E s \in Readers : request'[s].at = "tool" /\ request'[s].of = d
  BY <1>3
<1> QED BY <1>1, <1>2, <1>3, <1>4 DEF CallConsistent

\* The call the loop wrote is consistent when its result and its tool's outcome are.
LEMMA WrittenConsistent ==
    ASSUME RecordConsistent, NEW c \in Calls, NEW status, Writes(run', c, status), run.results[c] = "none",
           run.calls[c].status \in {"pending", "executing"}, approved' = approved,
           ended'[c] \in {"none", run'.results[c]}, run'.results[c] = "succeeded" => ended'[c] = "succeeded",
           status \in {"executing", "failed", "succeeded", "authentication_required"},
           status = "executing" <=> \E s \in Readers : request'[s].at = "tool" /\ request'[s].of = c
    PROVE  CallConsistent(c)'
<1>1. CallConsistent(c) /\ run.calls[c] # NoCall
  BY DEF RecordConsistent, NoCall
<1>2. HasFailedDependency(c) => HasFailedDependency(c)'
  BY CallsAssumption DEF HasFailedDependency, Writes
<1>3. /\ run'.calls[c].status = status /\ run'.calls[c].approval = run.calls[c].approval
      /\ run'.calls[c].turn = run.calls[c].turn
      /\ run'.results[c] = IF status \in Outcomes THEN status ELSE "none"
  BY DEF Writes
<1> QED BY <1>1, <1>2, <1>3 DEF CallConsistent, Outcomes

\* A call that fails without its tool is reported as failed.
LEMMA FailCallKeeps ==
    ASSUME SingleWriter, IInv, NEW r \in Readers, NEW c \in Calls, FailCall(r, c)
    PROVE  IInv'
<1>1. Visits(r, c) /\ run' = WithOutcome(run, c, "failed") /\ todo' = After(r, c)
      /\ UNCHANGED <<request, loop, providerVars, historyVars>>
  BY DEF FailCall
<1>2. /\ request[r].at = "loop" /\ loop = r /\ run.calls[c] \in HarnessCall /\ run.calls[c].status = "pending"
      /\ run.results[c] = "none" /\ ended[c] = "none" /\ \A s \in Readers : s = r
  BY <1>1, Visited
<1>3. Writes(run', c, "failed")
  BY <1>1, <1>2, CallWritten DEF Outcomes
<1>4. /\ todo' \in [Readers -> [Calls -> HarnessCall \union {NoCall}]]
      /\ \A s \in Readers : ReaderConsistent(s)'
  BY <1>1, <1>2, <1>3, PassGoesOn DEF Writes
<1>5. TypeOK'
  BY <1>1, <1>3, <1>4 DEF Writes, IInv, RecordConsistent, TypeOK, Runs, providerVars, historyVars
<1>6. Addressed'
  BY <1>1, <1>3 DEF Writes, IInv, Addressed, Turn
<1>7. \A s \in Readers : request'[s].at # "tool"
  BY <1>1, <1>2
<1>8. \A d \in Calls : run.calls[d].status # "executing"
  BY <1>2 DEF IInv, RecordConsistent, CallConsistent
<1>9. \A d \in Calls \ {c} : CallConsistent(d)'
  BY <1>1, <1>2, <1>3, <1>7, <1>8, OthersConsistent DEF IInv, historyVars
<1>10. CallConsistent(c)'
  BY <1>1, <1>2, <1>3, <1>7, WrittenConsistent DEF IInv, historyVars, Writes, Outcomes
<1> QED BY <1>4, <1>5, <1>6, <1>9, <1>10 DEF IInv, RecordConsistent

\* The call whose tool starts is the one its reader awaits.
LEMMA StartToolKeeps ==
    ASSUME SingleWriter, IInv, NEW r \in Readers, NEW c \in Calls, StartTool(r, c)
    PROVE  IInv'
<1> DEFINE a == [Idle EXCEPT !.at = "tool", !.of = c]
<1>1. Visits(r, c) /\ run' = WithStatus(run, c, "executing") /\ todo' = After(r, c) /\ loop' = None
      /\ request' = [request EXCEPT ![r] = a] /\ UNCHANGED <<providerVars, historyVars>>
  BY DEF StartTool
<1>2. /\ request[r].at = "loop" /\ loop = r /\ run.calls[c] \in HarnessCall /\ run.calls[c].status = "pending"
      /\ run.results[c] = "none" /\ ended[c] = "none" /\ r \in Clients /\ \A s \in Readers : s = r
  BY <1>1, Visited
<1>3. Writes(run', c, "executing")
  BY <1>1, <1>2, CallWritten DEF Outcomes
<1>4. run'.phase = run.phase /\ run'.pending = run.pending /\ run'.needs = run.needs /\ run'.results[c] = "none"
  BY <1>2, <1>3 DEF Writes, Outcomes
<1>5. a \in Requests /\ a.at = "tool" /\ a.of = c
  BY CallsAssumption DEF Idle, Requests, Lifecycles
<1> HIDE DEF a
<1>6. request' \in [Clients -> Requests] /\ \A x \in Clients : request'[x] = IF x = r THEN a ELSE request[x]
  BY <1>1, <1>5, Types
<1>7. /\ todo' \in [Readers -> [Calls -> HarnessCall \union {NoCall}]]
      /\ \A s \in Readers : ReaderConsistent(s)'
  BY <1>1, <1>2, <1>3, <1>4, <1>5, <1>6, PassGoesOn, NoneAssumption DEF Writes
<1>8. TypeOK'
  BY <1>1, <1>3, <1>6, <1>7 DEF Writes, IInv, RecordConsistent, TypeOK, Runs, Requests, providerVars, historyVars
<1>9. Addressed'
  <2>1. ASSUME NEW x \in Clients, (request[x].at \in InFlight)' PROVE Turn(x)' \in Turns
    BY <1>5, <1>6, <2>1 DEF IInv, Addressed, InFlight, Turn
  <2>2. ASSUME NEW s \in Readers, (request[s].at = "tool")' PROVE (request[s].of)' \in Calls
    BY <1>2, <1>5, <1>6 DEF Clients
  <2> QED BY <1>4, <2>1, <2>2 DEF IInv, Addressed
<1>10. \A s \in Readers : request'[s].at = "tool" /\ request'[s].of = c
  BY <1>2, <1>5, <1>6
<1>11. \A d \in Calls : run.calls[d].status # "executing"
  BY <1>2 DEF IInv, RecordConsistent, CallConsistent
<1>12. \A d \in Calls \ {c} : CallConsistent(d)'
  BY <1>1, <1>2, <1>3, <1>10, <1>11, OthersConsistent DEF IInv, historyVars
<1>13. CallConsistent(c)'
  BY <1>1, <1>2, <1>3, <1>4, <1>10, WrittenConsistent DEF IInv, historyVars
<1> QED BY <1>7, <1>8, <1>9, <1>12, <1>13 DEF IInv, RecordConsistent

\* The outcome of a tool reaches the call, its result and the history together.
LEMMA ToolEndsKeeps ==
    ASSUME SingleWriter, IInv, NEW r \in Readers, NEW outcome \in Outcomes \union {"authentication_required"},
           ToolEnds(r, outcome)
    PROVE  IInv'
<1> DEFINE a == [Idle EXCEPT !.at = "loop"]
<1>0. PICK c \in Calls : c = request[r].of
  BY DEF IInv, Addressed, ToolEnds, At
<1>1. At(r, "tool") /\ loop = None /\ loop' = r /\ request' = [request EXCEPT ![r] = a]
      /\ UNCHANGED <<todo, approved, providerVars>>
  BY DEF ToolEnds
<1>2. r \in Clients /\ request[r].of = c /\ request[r].at = "tool" /\ \A s \in Readers : s = r
  BY <1>0, <1>1 DEF At, Clients, SingleWriter
<1>3. a \in Requests /\ a.at = "loop"
  BY CallsAssumption DEF Idle, Requests, Lifecycles
<1>4. /\ run' = IF outcome \in Outcomes THEN WithOutcome(run, c, outcome) ELSE WithStatus(run, c, outcome)
      /\ ended' = IF outcome \in Outcomes THEN [ended EXCEPT ![c] = outcome] ELSE ended
  BY <1>0 DEF ToolEnds
<1>5. \A d \in Calls : CallConsistent(d) /\ (run.calls[d].status = "executing" <=> d = c)
  BY <1>2 DEF IInv, RecordConsistent, CallConsistent
<1> HIDE DEF a
<1>6. request' \in [Clients -> Requests] /\ \A x \in Clients : request'[x] = IF x = r THEN a ELSE request[x]
  BY <1>1, <1>3, Types
<1>7. run.calls[c].status = "executing" /\ run.results[c] = "none" /\ run.calls[c] \in HarnessCall /\ ended[c] = "none"
  <2>1. run.calls[c] \in HarnessCall \union {NoCall} /\ ended[c] \in Outcomes \union {"none"}
    BY <1>2, Types DEF Runs, IInv, RecordConsistent, TypeOK
  <2>2. run.calls[c].status = "executing" /\ run.results[c] = "none"
    BY <1>2, <1>5 DEF CallConsistent, Outcomes
  <2>3. run.calls[c] # NoCall
    BY <2>2 DEF NoCall
  <2>4. ended[c] # "none" => run.results[c] = ended[c]
    BY <1>2, <1>5 DEF CallConsistent
  <2> QED BY <2>1, <2>2, <2>3, <2>4
<1>8. Writes(run', c, outcome)
  BY <1>2, <1>4, <1>7, CallWritten DEF Outcomes
<1>9. /\ ended' \in [Calls -> Outcomes \union {"none"}]
      /\ \A d \in Calls : ended'[d] = IF d = c /\ outcome \in Outcomes THEN outcome ELSE ended[d]
  BY <1>2, <1>4 DEF IInv, RecordConsistent, TypeOK
<1>10. TypeOK'
  BY <1>1, <1>6, <1>8, <1>9 DEF Writes, IInv, RecordConsistent, TypeOK, Runs, Requests, providerVars
<1>11. Addressed'
  <2>1. ASSUME NEW x \in Clients, (request[x].at \in InFlight)' PROVE Turn(x)' \in Turns
    BY <1>3, <1>6, <2>1 DEF IInv, Addressed, InFlight, Turn
  <2> QED BY <1>2, <1>3, <1>6, <1>8, <2>1 DEF Writes, IInv, Addressed
<1>12. ReaderConsistent(r)'
  <2>1. ReaderConsistent(r) /\ Busy(r)
    BY <1>2 DEF IInv, RecordConsistent, Busy
  <2>2. \A d \in Calls : todo[r][d] # NoCall => d # c
    BY <1>7, <2>1 DEF ReaderConsistent
  <2> QED BY <1>1, <1>2, <1>3, <1>6, <1>8, <2>1, <2>2 DEF Writes, ReaderConsistent, Busy
<1>13. \A s \in Readers : request'[s].at # "tool"
  BY <1>2, <1>3, <1>6
<1>14. \A d \in Calls \ {c} : CallConsistent(d)'
  BY <1>1, <1>2, <1>5, <1>7, <1>8, <1>9, <1>13, OthersConsistent DEF IInv
<1>15. CallConsistent(c)'
  <2>1. run'.results[c] = IF outcome \in Outcomes THEN outcome ELSE "none"
    BY <1>7, <1>8 DEF Writes
  <2>2. ended'[c] = run'.results[c]
    BY <1>2, <1>7, <1>9, <2>1
  <2>3. outcome \in {"executing", "failed", "succeeded", "authentication_required"} /\ outcome # "executing"
    BY DEF Outcomes
  <2>4. RecordConsistent /\ approved' = approved /\ run.calls[c].status \in {"pending", "executing"}
    BY <1>1, <1>7 DEF IInv
  <2> QED BY <1>2, <1>7, <1>8, <1>13, <2>2, <2>3, <2>4, WrittenConsistent
<1>16. (\A d \in Calls : CallConsistent(d)') /\ (\A s \in Readers : ReaderConsistent(s)')
  BY <1>2, <1>12, <1>14, <1>15
<1> QED BY <1>10, <1>11, <1>16 DEF IInv, RecordConsistent

\* A new pass begins with the calls that are pending.
LEMMA NextPassKeeps ==
    ASSUME SingleWriter, IInv, NEW r \in Readers, NextPass(r)
    PROVE  IInv'
<1>1. loop = r /\ todo' = [todo EXCEPT ![r] = Pending(run.calls)]
      /\ UNCHANGED <<run, request, loop, providerVars, historyVars>>
  BY DEF NextPass
<1>2. ReaderConsistent(r) /\ \A s \in Readers : s = r
  BY DEF SingleWriter, IInv, RecordConsistent
<1>3. Pending(run.calls) \in [Calls -> HarnessCall \union {NoCall}]
  BY Types DEF Pending, Runs
<1>4. TypeOK'
  BY <1>1, <1>3 DEF IInv, RecordConsistent, TypeOK, providerVars, historyVars
<1>5. Addressed'
  BY <1>1 DEF IInv, Addressed, Turn
<1>6. ASSUME NEW c \in Calls PROVE CallConsistent(c)'
  BY <1>1 DEF IInv, RecordConsistent, CallConsistent, HasFailedDependency, historyVars
<1>7. ReaderConsistent(r)'
  <2>1. Busy(r)
    BY <1>1, <1>2 DEF ReaderConsistent, Busy
  <2>2. todo'[r] = Pending(run.calls)
    BY <1>1 DEF IInv, RecordConsistent, TypeOK
  <2>3. \A c \in Calls : todo'[r][c] # NoCall => todo'[r][c] = run.calls[c] /\ run.calls[c].status = "pending"
    BY <2>2 DEF Pending
  <2> QED BY <1>1, <1>2, <2>1, <2>3 DEF ReaderConsistent, Busy
<1> QED BY <1>2, <1>4, <1>5, <1>6, <1>7 DEF IInv, RecordConsistent

\* A reader whose loop is over, and with one reader: all of them.
LEMMA LoopOver ==
    ASSUME SingleWriter, IInv, NEW r \in Readers, LoopEnds(r)
    PROVE  /\ request' \in [Clients -> Requests] /\ todo' \in [Readers -> [Calls -> HarnessCall \union {NoCall}]]
           /\ loop' = None /\ request[r].at = "loop"
           /\ \A x \in Clients : request'[x] = IF x = r THEN Idle ELSE request[x]
           /\ \A s \in Readers : s = r /\ ReaderConsistent(s)'
<1>1. loop = r /\ loop' = None /\ request' = [request EXCEPT ![r] = Idle] /\ todo' = [todo EXCEPT ![r] = NoCalls]
  BY DEF LoopEnds
<1>2. request' \in [Clients -> Requests] /\ \A x \in Clients : request'[x] = IF x = r THEN Idle ELSE request[x]
  BY <1>1, Types
<1>3. NoCalls \in [Calls -> HarnessCall \union {NoCall}]
  BY DEF NoCalls
<1>4. todo' \in [Readers -> [Calls -> HarnessCall \union {NoCall}]] /\ todo'[r] = NoCalls
  BY <1>1, <1>3 DEF IInv, RecordConsistent, TypeOK
<1>5. request[r].at = "loop" /\ \A s \in Readers : s = r
  BY <1>1 DEF SingleWriter, IInv, RecordConsistent, ReaderConsistent
<1>6. request'[r] = Idle
  BY <1>2 DEF Clients
<1>7. ReaderConsistent(r)'
  BY <1>1, <1>4, <1>6, NoneAssumption DEF ReaderConsistent, Busy, Idle
<1> QED BY <1>1, <1>2, <1>4, <1>5, <1>7

\* What the end of the loop writes, when it keeps the calls or drops them all.
LEMMA EndKeeps ==
    ASSUME SingleWriter, IInv, NEW r \in Readers, LoopEnds(r), run' \in Runs, UNCHANGED <<approved, providerVars>>,
           run'.phase = "submitting_provider" => run'.pending \in Turns,
           \/ run'.calls = run.calls /\ run'.results = run.results /\ UNCHANGED ended
           \/ run'.calls = NoCalls /\ run'.results = NoResults /\ ended' = NoResults
    PROVE  IInv'
<1>1. /\ request' \in [Clients -> Requests] /\ todo' \in [Readers -> [Calls -> HarnessCall \union {NoCall}]]
      /\ loop' = None /\ request[r].at = "loop"
      /\ \A x \in Clients : request'[x] = IF x = r THEN Idle ELSE request[x]
      /\ \A s \in Readers : s = r /\ ReaderConsistent(s)'
  BY LoopOver
<1>2. ended' \in [Calls -> Outcomes \union {"none"}]
  BY DEF IInv, RecordConsistent, TypeOK, NoResults
<1>3. TypeOK'
  BY <1>1, <1>2 DEF IInv, RecordConsistent, TypeOK, Runs, Requests, providerVars
<1>4. Addressed'
  <2>1. ASSUME NEW x \in Clients, (request[x].at \in InFlight)' PROVE Turn(x)' \in Turns
    BY <1>1, <2>1 DEF IInv, Addressed, InFlight, Idle, Turn
  <2>2. ASSUME NEW s \in Readers, (request[s].at = "tool")' PROVE (request[s].of)' \in Calls
    BY <1>1, <2>2 DEF Clients, Idle
  <2> QED BY <2>1, <2>2 DEF Addressed
<1>5. ASSUME NEW c \in Calls PROVE CallConsistent(c)'
  <2>1. CallConsistent(c) /\ \A s \in Readers : request[s].at # "tool" /\ request'[s].at # "tool"
    BY <1>1 DEF IInv, RecordConsistent, Clients, Idle
  <2>2. CASE run'.calls = run.calls /\ run'.results = run.results /\ UNCHANGED ended
    BY <2>1, <2>2 DEF CallConsistent, HasFailedDependency
  <2>3. CASE run'.calls = NoCalls /\ run'.results = NoResults /\ ended' = NoResults
    BY <2>1, <2>3 DEF CallConsistent, NoCalls, NoCall, NoResults, Outcomes
  <2> QED BY <2>2, <2>3
<1> QED BY <1>1, <1>3, <1>4, <1>5 DEF IInv, RecordConsistent

\* Every step of the loop keeps the invariant.
LEMMA LoopKeeps ==
    ASSUME SingleWriter, IInv, NEW r \in Readers, Loop(r)
    PROVE  IInv'
<1>1. run \in Runs
  BY Types
<1>2. ASSUME NEW c \in Calls, FailCall(r, c) \/ StartTool(r, c) PROVE IInv'
  BY <1>2, FailCallKeeps, StartToolKeeps
<1>3. CASE WaitFor(r)
  <2> DEFINE phase == IF Unapproved THEN "waiting_for_approval" ELSE "waiting_for_authentication"
  <2>1. run' = [run EXCEPT !.phase = phase] /\ LoopEnds(r) /\ UNCHANGED <<providerVars, historyVars>>
    BY <1>3 DEF WaitFor
  <2>2. phase \in Phases /\ phase # "submitting_provider"
    BY DEF Phases, Waits
  <2> HIDE DEF phase
  <2>3. run' \in Runs /\ run'.phase = phase /\ run'.calls = run.calls /\ run'.results = run.results
    BY <1>1, <2>1, <2>2 DEF Runs
  <2> QED BY <2>1, <2>2, <2>3, EndKeeps DEF historyVars
<1>4. CASE Advance(r)
  <2>1. /\ run' = [run EXCEPT !.phase = "submitting_provider", !.turn = run.turn + 1, !.pending = run.turn + 1,
                              !.calls = NoCalls, !.results = NoResults, !.needs = "none"]
        /\ LoopEnds(r) /\ ended' = NoResults /\ UNCHANGED <<approved, providerVars>> /\ run.turn < MaxTurns
    BY <1>1, <1>4 DEF Advance, Runs
  <2>2. run.turn + 1 \in Turns /\ run.turn + 1 \in 0..MaxTurns
    BY <1>1, <2>1, CallsAssumption DEF Runs, Turns
  <2>3. NoCalls \in [Calls -> HarnessCall \union {NoCall}] /\ NoResults \in [Calls -> Outcomes \union {"none"}]
        /\ "submitting_provider" \in Phases
    BY DEF NoCalls, NoResults, Phases
  <2>4. run' \in Runs /\ run'.pending = run.turn + 1 /\ run'.calls = NoCalls /\ run'.results = NoResults
    BY <1>1, <2>1, <2>2, <2>3 DEF Runs
  <2> QED BY <2>1, <2>2, <2>4, EndKeeps
<1>5. CASE BatchFails(r)
  BY <1>5, Fails, EndKeeps DEF BatchFails, historyVars
<1> QED BY <1>2, <1>3, <1>4, <1>5, NextPassKeeps DEF Loop

-----------------------------------------------------------------------------
(* The user.                                                               *)
LEMMA UserKeeps ==
    ASSUME IInv, run.phase \in Waits, run' \in Runs, run'.phase = "executing_batch",
           UNCHANGED <<clientVars, providerVars, ended>>, approved' \subseteq Calls \X Turns,
           \A c \in Calls : CallConsistent(c)'
    PROVE  IInv'
<1>1. TypeOK'
  BY DEF IInv, RecordConsistent, TypeOK, Runs, clientVars, providerVars
<1>2. Addressed'
  BY DEF IInv, Addressed, Turn, clientVars
<1>3. ASSUME NEW r \in Readers PROVE ReaderConsistent(r)'
  BY DEF IInv, RecordConsistent, ReaderConsistent, Busy, clientVars
<1> QED BY <1>1, <1>2, <1>3 DEF IInv, RecordConsistent

\* An approval marks as approved the calls the user named, by their batch, and no others.
LEMMA ApproveKeeps ==
    ASSUME IInv, NEW given \in SUBSET Calls, NEW t \in Turns, Approve(given, t)
    PROVE  IInv'
<1> DEFINE calls == [c \in Calls |->
                       IF run.calls[c].approval # "pending" THEN run.calls[c]
                       ELSE [run.calls[c] EXCEPT !.approval = IF HasFailedDependency(c)
                                                               THEN "not_required" ELSE "approved"]]
<1>1. /\ run.phase = "waiting_for_approval" /\ run \in Runs
      /\ run' = [run EXCEPT !.phase = "executing_batch", !.calls = calls]
      /\ approved' = approved \union {<<c, t>> : c \in given}
      /\ UNCHANGED <<clientVars, providerVars, ended>>
  BY Types DEF Approve, Resumable
<1>2. \A c \in Calls : run.calls[c].approval = "pending" /\ ~HasFailedDependency(c)
          => c \in given /\ run.calls[c].turn = t
  BY DEF Approve
<1>3. ASSUME NEW c \in Calls, run.calls[c].approval = "pending", NEW approval \in {"not_required", "approved"}
      PROVE  [run.calls[c] EXCEPT !.approval = approval] \in HarnessCall
  BY <1>1, <1>3 DEF Runs, HarnessCall, NoCall
<1>4. calls \in [Calls -> HarnessCall \union {NoCall}]
  BY <1>1, <1>3 DEF Runs
<1>5. ASSUME NEW c \in Calls
      PROVE  /\ calls[c].status = run.calls[c].status /\ calls[c].turn = run.calls[c].turn
             /\ calls[c].approval = IF run.calls[c].approval # "pending" THEN run.calls[c].approval
                                    ELSE IF HasFailedDependency(c) THEN "not_required" ELSE "approved"
             /\ calls[c] # NoCall => run.calls[c] # NoCall
  <2>1. CASE run.calls[c].approval # "pending"
    BY <2>1
  <2>2. CASE run.calls[c].approval = "pending"
    <3>1. run.calls[c] \in HarnessCall /\ run.calls[c] # NoCall
      BY <1>1, <2>2 DEF Runs, NoCall, HarnessCall, Turns
    <3> QED BY <2>2, <3>1 DEF HarnessCall
  <2> QED BY <2>1, <2>2
<1> HIDE DEF calls
<1>6. run' \in Runs /\ run'.phase = "executing_batch" /\ run'.calls = calls /\ run'.results = run.results
  BY <1>1, <1>4 DEF Runs, Phases
<1>7. ASSUME NEW c \in Calls PROVE CallConsistent(c)'
  <2>1. CallConsistent(c) /\ request' = request
    BY <1>1 DEF IInv, RecordConsistent, clientVars
  <2>2. HasFailedDependency(c)' = HasFailedDependency(c)
    BY <1>6 DEF HasFailedDependency
  <2>3. run'.calls[c].approval = "approved" => <<c, run'.calls[c].turn>> \in approved'
    BY <1>1, <1>2, <1>5, <1>6, <2>1 DEF CallConsistent
  <2>4. run'.calls[c] # NoCall /\ run'.calls[c].approval = "not_required" /\ c \notin ReadOnly
          => run'.calls[c].status = "failed" \/ HasFailedDependency(c)
    BY <1>5, <1>6, <2>1 DEF CallConsistent
  <2> QED BY <1>1, <1>5, <1>6, <2>1, <2>2, <2>3, <2>4 DEF CallConsistent
<1>8. approved' \subseteq Calls \X Turns
  BY <1>1 DEF IInv, RecordConsistent, TypeOK
<1> QED BY <1>1, <1>6, <1>7, <1>8, UserKeeps DEF Waits

\* What the user does while the run waits keeps the invariant.
LEMMA IntervenesKeep ==
    ASSUME IInv, Intervene
    PROVE  IInv'
<1>1. run \in Runs /\ approved \subseteq Calls \X Turns /\ \A c \in Calls : CallConsistent(c)
  BY Types DEF IInv, RecordConsistent, TypeOK
<1>2. ASSUME NEW given \in SUBSET Calls, NEW t \in Turns, Approve(given, t) PROVE IInv'
  BY <1>2, ApproveKeeps
<1>3. CASE AnswerNeeds
  <2>1. /\ run' \in Runs /\ run'.phase = "executing_batch" /\ run'.calls = run.calls /\ run'.results = run.results
        /\ run.phase \in Waits /\ UNCHANGED <<clientVars, providerVars, historyVars>>
    BY <1>1, <1>3 DEF AnswerNeeds, Resumable, Runs, Phases, Waits
  <2>2. \A c \in Calls : CallConsistent(c)'
    BY <1>1, <2>1 DEF CallConsistent, HasFailedDependency, clientVars, historyVars
  <2> QED BY <1>1, <2>1, <2>2, UserKeeps DEF historyVars
<1>4. CASE CompleteAuthentication
  <2> DEFINE calls == [c \in Calls |-> IF run.calls[c].status = "authentication_required"
                                         THEN [run.calls[c] EXCEPT !.status = "pending"] ELSE run.calls[c]]
  <2>1. /\ run' = [run EXCEPT !.phase = "executing_batch", !.calls = calls]
        /\ run.phase \in Waits /\ UNCHANGED <<clientVars, providerVars, historyVars>>
    BY <1>1, <1>4 DEF CompleteAuthentication, Resumable, Waits
  <2>2. calls \in [Calls -> HarnessCall \union {NoCall}]
    BY <1>1 DEF Runs, HarnessCall, NoCall
  <2>3. ASSUME NEW c \in Calls
        PROVE  /\ calls[c].approval = run.calls[c].approval /\ calls[c].turn = run.calls[c].turn
               /\ calls[c].status = IF run.calls[c].status = "authentication_required" THEN "pending"
                                                                                     ELSE run.calls[c].status
               /\ calls[c] # NoCall => run.calls[c] # NoCall
    <3>1. CASE run.calls[c].status # "authentication_required"
      BY <3>1
    <3>2. CASE run.calls[c].status = "authentication_required"
      <4>1. run.calls[c] \in HarnessCall /\ run.calls[c] # NoCall
        BY <1>1, <3>2 DEF Runs, NoCall, HarnessCall, Turns
      <4> QED BY <3>2, <4>1 DEF HarnessCall
    <3> QED BY <3>1, <3>2
  <2> HIDE DEF calls
  <2>4. run' \in Runs /\ run'.phase = "executing_batch" /\ run'.calls = calls /\ run'.results = run.results
    BY <1>1, <2>1, <2>2 DEF Runs, Phases
  <2>5. \A c \in Calls : CallConsistent(c)'
    BY <1>1, <2>1, <2>3, <2>4 DEF CallConsistent, HasFailedDependency, clientVars, historyVars, Outcomes
  <2> QED BY <1>1, <2>1, <2>4, <2>5, UserKeeps DEF historyVars
<1> QED BY <1>2, <1>3, <1>4 DEF Intervene

-----------------------------------------------------------------------------
\* The invariant holds of a new run.
LEMMA InitHolds ==
    ASSUME Init
    PROVE  IInv
<1>1. /\ run.calls = NoCalls /\ run.results = NoResults /\ run.phase = "discovering_tools" /\ ended = NoResults
      /\ todo = [r \in Readers |-> NoCalls] /\ loop = None /\ request = [x \in Clients |-> Idle]
  BY DEF Init
<1>2. NoCalls \in [Calls -> HarnessCall \union {NoCall}] /\ NoResults \in [Calls -> Outcomes \union {"none"}]
      /\ NoTurn \in [turn : 0..MaxTurns, lifecycle : Lifecycles] /\ 1 \in Turns /\ 0 \in 0..MaxTurns
  BY CallsAssumption DEF NoCalls, NoResults, NoTurn, Lifecycles, Turns
<1>3. run \in Runs
  BY <1>2 DEF Init, Runs, Phases
<1>4. Idle \in Requests
  BY <1>2 DEF Idle, Requests, Lifecycles
<1>5. TypeOK
  BY <1>1, <1>2, <1>3, <1>4 DEF Init, TypeOK, Runs, Requests, Lifecycles
<1>6. ASSUME NEW c \in Calls PROVE CallConsistent(c)
  BY <1>1 DEF CallConsistent, NoCalls, NoCall, NoResults, Outcomes, Idle, Clients
<1>7. ASSUME NEW r \in Readers PROVE ReaderConsistent(r)
  BY <1>1, NoneAssumption DEF ReaderConsistent, Busy, Idle, Clients
<1>8. Addressed
  BY <1>1 DEF Addressed, InFlight, Idle, Clients
<1> QED BY <1>5, <1>6, <1>7, <1>8 DEF IInv, RecordConsistent

\* Every step keeps the invariant.
LEMMA StepKeeps ==
    ASSUME SingleWriter, IInv, [Next]_vars
    PROVE  IInv'
<1>1. ASSUME NEW r \in Readers, Read(r) \/ Loop(r) \/ Settle(r) \/ Challenge(r) \/ Returns(r) PROVE IInv'
  BY <1>1, ReadKeeps, LoopKeeps, ToolEndsKeeps, ReturnsKeep DEF Settle, Challenge
<1>2. ASSUME NEW x \in Clients, Replies(x) \/ CancelReturns(x) PROVE IInv'
  BY <1>2, ProviderKeeps, CancelReturnKeeps
<1>3. ASSUME NEW t \in Turns, ProviderEnds(t) \/ ProviderWaits(t) PROVE IInv'
  BY <1>3, TurnEndsKeep
<1>4. ASSUME NEW k \in Cancellers, Cancel(k) PROVE IInv'
  BY <1>4, CancelKeeps
<1>5. CASE Intervene \/ ResumeProvider
  BY <1>5, IntervenesKeep, ResumeProviderKeeps
<1>6. CASE UNCHANGED vars
  <2>1. TypeOK'
    BY <1>6 DEF IInv, RecordConsistent, TypeOK, vars, clientVars, providerVars, historyVars
  <2>2. (\A c \in Calls : CallConsistent(c)') /\ (\A r \in Readers : ReaderConsistent(r)')
    BY <1>6 DEF IInv, RecordConsistent, CallConsistent, ReaderConsistent, HasFailedDependency, Busy,
                vars, clientVars, providerVars, historyVars
  <2> QED BY <1>6, <2>1, <2>2 DEF IInv, RecordConsistent, Addressed, Turn, vars, clientVars
<1> QED BY <1>1, <1>2, <1>3, <1>4, <1>5, <1>6 DEF Next

\* RecordConsistent holds of a run with one reader, whatever is cancelled, answered or lost.
THEOREM RecordStaysConsistent ==
    ASSUME SingleWriter
    PROVE  Spec => []RecordConsistent
<1>1. Init => IInv
  BY InitHolds
<1>2. IInv /\ [Next]_vars => IInv'
  BY StepKeeps
<1>3. IInv => RecordConsistent
  BY DEF IInv
<1> QED BY <1>1, <1>2, <1>3, PTL DEF Spec

\* A tool that starts was visited with all its dependencies done and nothing to approve.
LEMMA Started ==
    ASSUME SingleWriter, IInv, NEW r \in Readers, NEW c \in Calls, StartTool(r, c)
    PROVE  /\ c \in ReadOnly \/ <<c, todo[r][c].turn>> \in approved
           /\ \A d \in DependsOn[c] : ended[d] = "succeeded"
           /\ ended[c] = "none" /\ run.needs # "asked"
<1>1. Visits(r, c) /\ ~HasFailedDependency(c)
  BY DEF StartTool
<1>2. /\ todo[r][c] = run.calls[c] /\ run.calls[c].status = "pending" /\ run.calls[c] \in HarnessCall
      /\ todo[r][c] # NoCall /\ ended[c] = "none" /\ run.needs # "asked"
  BY <1>1, Visited
<1>3. (\A d \in DependsOn[c] : run.results[d] # "none") /\ run.calls[c].approval # "pending"
  BY <1>1, <1>2 DEF Visits, Actionable
<1>4. c \in ReadOnly \/ <<c, todo[r][c].turn>> \in approved
  BY <1>1, <1>2, <1>3 DEF IInv, RecordConsistent, CallConsistent, HarnessCall
<1>5. ASSUME NEW d \in DependsOn[c] PROVE ended[d] = "succeeded"
  <2>1. d \in Calls /\ run.results[d] \in Outcomes \union {"none"}
    BY CallsAssumption, Types DEF Runs
  <2>2. run.results[d] = "succeeded"
    BY <1>1, <1>3, <2>1 DEF HasFailedDependency, Outcomes
  <2> QED BY <2>1, <2>2 DEF IInv, RecordConsistent, CallConsistent
<1> QED BY <1>2, <1>4, <1>5

\* ToolsApproved: no tool that needs approval starts without this very call approved.
THEOREM ApprovalRequired ==
    ASSUME SingleWriter
    PROVE  Spec => ToolsApproved
<1>1. Init => IInv
  BY InitHolds
<1>2. IInv /\ [Next]_vars => IInv'
  BY StepKeeps
<1>3. IInv => \A r \in Readers, c \in Calls : StartTool(r, c) => c \in ReadOnly \/ <<c, todo[r][c].turn>> \in approved
  BY Started
<1> QED BY <1>1, <1>2, <1>3, PTL DEF Spec, ToolsApproved

\* ToolsInOrder: a tool starts once, after what it depends on was done and the questions are answered.
THEOREM OrderKept ==
    ASSUME SingleWriter
    PROVE  Spec => ToolsInOrder
<1>1. Init => IInv
  BY InitHolds
<1>2. IInv /\ [Next]_vars => IInv'
  BY StepKeeps
<1>3. IInv => \A r \in Readers, c \in Calls : StartTool(r, c) =>
                 /\ \A d \in DependsOn[c] : ended[d] = "succeeded"
                 /\ ended[c] = "none" /\ run.needs # "asked"
  BY Started
<1> QED BY <1>1, <1>2, <1>3, PTL DEF Spec, ToolsInOrder

\* What a batch that is over reports of a call.
LEMMA Reported ==
    ASSUME SingleWriter, IInv, NEW r \in Readers, NEW c \in Calls, Advance(r)
    PROVE  Report[c] = IF run.calls[c] = NoCall THEN "none" ELSE IF ended[c] # "none" THEN ended[c] ELSE "failed"
<1>1. LoopEnds(r) /\ ~Unauthenticated
  BY DEF Advance
<1>2. request[r].at = "loop" /\ \A s \in Readers : s = r
  BY <1>1, LoopOver
<1>3. CallConsistent(c) /\ run.calls[c] \in HarnessCall \union {NoCall} /\ run.results[c] \in Outcomes \union {"none"}
  BY Types DEF IInv, RecordConsistent, Runs
<1>4. run.calls[c].status \notin {"executing", "authentication_required"}
  BY <1>1, <1>2, <1>3 DEF CallConsistent, Unauthenticated
<1>5. Report[c] = IF run.calls[c].status = "pending" THEN "failed" ELSE run.results[c]
  BY DEF Report
<1>6. CASE run.calls[c] = NoCall
  BY <1>3, <1>5, <1>6 DEF CallConsistent, NoCall, Outcomes
<1>7. CASE run.calls[c] # NoCall
  <2>1. run.calls[c].status \in {"pending", "succeeded", "failed"}
    BY <1>3, <1>4, <1>7 DEF HarnessCall
  <2> QED BY <1>3, <1>5, <1>7, <2>1 DEF CallConsistent, Outcomes
<1> QED BY <1>6, <1>7

\* ReportFaithful: the provider is told of every call what its tool did, or that it failed.
THEOREM ReportsAreFaithful ==
    ASSUME SingleWriter
    PROVE  Spec => ReportFaithful
<1>1. Init => IInv
  BY InitHolds
<1>2. IInv /\ [Next]_vars => IInv'
  BY StepKeeps
<1>3. IInv => \A r \in Readers : Advance(r) =>
                 \A c \in Calls : Report[c] = IF run.calls[c] = NoCall THEN "none"
                                              ELSE IF ended[c] # "none" THEN ended[c] ELSE "failed"
  BY Reported
<1> QED BY <1>1, <1>2, <1>3, PTL DEF Spec, ReportFaithful

-----------------------------------------------------------------------------
(* What a run knows of the provider                                        *)

\* The provider said of turn t that it is m, and it still is, if m is the end of the turn.
Truthful(t, m) ==
    /\ t \in 1..run.turn /\ m \in Alive \union Terminal
    /\ provider[t] # "none" /\ (m \in Terminal => provider[t] = m)

\* The run goes on to the next turn when the last one has succeeded.
TurnsSound ==
    \A t \in Turns : /\ t < run.turn => provider[t] = "succeeded"
                     /\ t > run.turn => provider[t] = "none"

\* A reader learns of the turn of the run; a cancel may be about an earlier one.
RequestSound(x) ==
    request[x].at \in InFlight =>
        /\ request[x].of \in 1..run.turn
        /\ x \in Readers /\ request[x].at \in {"discover", "submit", "read"} => request[x].of = run.turn
        /\ request[x].reply \notin {"none", "error"} => Truthful(request[x].of, request[x].reply)

PhaseSound ==
    /\ run.providerTurn = NoTurn \/ Truthful(run.providerTurn.turn, run.providerTurn.lifecycle)
    /\ run.phase \in Waits \union {"executing_batch"} => provider[run.turn] = "succeeded"
    /\ \A r \in Readers : Busy(r) => provider[run.turn] = "succeeded" /\ run.providerTurn # NoTurn
    /\ run.phase \in Waits \union {"executing_batch", "awaiting_provider"} => run.providerTurn # NoTurn
    /\ run.phase = "submitting_provider" => run.pending = run.turn
    /\ run.phase = "cancelling_provider" => \E x \in Clients : request[x].at \in {"cancel", "confirm"}
    /\ run.phase = "discovering_tools" =>
          /\ provider[run.turn] = "none"
          /\ \A x \in Clients : request[x].at \in InFlight => request[x].at = "discover"
    /\ run.phase = "cancelled" /\ run.providerTurn.turn \in {0, run.turn} =>
          provider[run.turn] \notin Alive \/ \E x \in Clients : request[x].at \in InFlight

ProviderKnown == TurnsSound /\ PhaseSound /\ \A x \in Clients : RequestSound(x)

\* What the provider said before stays true: its turns only move on, and so does the run.
ProviderGoesOn == \A t \in Turns : \/ provider'[t] = provider[t]
                                   \/ provider[t] \notin Terminal /\ provider'[t] # "none"

LEMMA TruthKept ==
    ASSUME IInv, ProviderGoesOn, run' \in Runs, run'.turn \in {run.turn, run.turn + 1},
           NEW t, NEW m, Truthful(t, m)
    PROVE  Truthful(t, m)'
<1>1. run.turn \in 1..MaxTurns /\ run'.turn \in 1..MaxTurns /\ MaxTurns \in Nat
  BY Types, CallsAssumption DEF Runs, Turns
<1>2. t \in Turns /\ t \in 1..run'.turn
  BY <1>1 DEF Truthful, Turns
<1>3. provider'[t] # "none" /\ (provider[t] \in Terminal => provider'[t] = provider[t])
  BY <1>2 DEF ProviderGoesOn, Truthful
<1> QED BY <1>2, <1>3 DEF Truthful

\* The provider acts, and a request may get a reply.
LEMMA ProviderMoves ==
    ASSUME IInv, ProviderKnown, run' = run, ProviderGoesOn,
           \A t \in Turns : t # run.turn => provider'[t] = provider[t],
           \A x \in Clients : /\ request'[x].of = request[x].of
                              /\ \/ request'[x].at = request[x].at
                                 \/ {request[x].at, request'[x].at} \subseteq {"cancel", "confirm"}
                              /\ \/ request'[x].reply \in {request[x].reply, "error"}
                                 \/ RequestSound(x)',
           run.phase = "discovering_tools" => provider'[run.turn] = provider[run.turn],
           provider'[run.turn] \in Alive =>
                provider[run.turn] \in Alive \/ \E x \in Clients : request[x].at \in InFlight
    PROVE  ProviderKnown'
<1>1. run \in Runs /\ run.turn \in Turns
  BY Types DEF Runs
<1>2. TurnsSound'
  BY <1>1 DEF ProviderKnown, TurnsSound, Turns
<1>3. \A x \in Clients : (request'[x].at \in InFlight <=> request[x].at \in InFlight)
  BY DEF InFlight
<1>4. ASSUME NEW x \in Clients PROVE RequestSound(x)'
  <2>1. CASE request[x].at \in InFlight
    <3>1. /\ request[x].of \in 1..run.turn
          /\ x \in Readers /\ request[x].at \in {"discover", "submit", "read"} => request[x].of = run.turn
          /\ request[x].reply \notin {"none", "error"} => Truthful(request[x].of, request[x].reply)
      BY <2>1 DEF ProviderKnown, RequestSound
    <3>2. PICK t, m : t = request[x].of /\ m = request[x].reply
      OBVIOUS
    <3>3. Truthful(t, m) => Truthful(t, m)'
      BY <1>1, TruthKept
    <3>4. CASE request'[x].reply \in {m, "error"}
      BY <2>1, <3>1, <3>2, <3>3, <3>4 DEF RequestSound, InFlight
    <3> QED BY <3>2, <3>4
  <2>2. CASE request[x].at \notin InFlight
    BY <1>3, <2>2 DEF RequestSound
  <2> QED BY <2>1, <2>2
<1>5. PhaseSound'
  <2>1. run.providerTurn = NoTurn \/ Truthful(run.providerTurn.turn, run.providerTurn.lifecycle)'
    BY <1>1, TruthKept DEF ProviderKnown, PhaseSound
  <2>2. provider[run.turn] = "succeeded" => provider'[run.turn] = "succeeded"
    BY <1>1 DEF ProviderGoesOn, Terminal
  <2>3. \A r \in Readers : Busy(r)' => Busy(r)
    BY DEF Busy, Clients
  <2> QED BY <1>3, <2>1, <2>2, <2>3 DEF ProviderKnown, PhaseSound, InFlight
<1> QED BY <1>2, <1>4, <1>5 DEF ProviderKnown

LEMMA RepliesKnow ==
    ASSUME IInv, ProviderKnown, NEW x \in Clients, Replies(x)
    PROVE  ProviderKnown'
<1>1. /\ run \in Runs /\ run.turn \in Turns /\ request \in [Clients -> Requests]
      /\ \A t \in Turns : provider[t] \in Lifecycles
      /\ provider \in [Turns -> Lifecycles]
  BY Types DEF Runs, IInv, RecordConsistent, TypeOK
<1>2. /\ request[x].at \in InFlight /\ run' = run
      /\ request[x].of \in Turns /\ request[x].of \in 1..run.turn
  <2>1. request[x].at \in InFlight /\ run' = run
    BY DEF Replies, ProviderStarts, SubmissionFails, ProviderReads, ProviderLooks, ProviderCancels,
           Unanswered, At, InFlight
  <2> QED BY <2>1 DEF IInv, Addressed, Turn, ProviderKnown, RequestSound
<1>3. PICK t \in Turns : t = request[x].of
  BY <1>2
<1>4. provider[t] \notin {"none", "succeeded"} => t = run.turn
  BY <1>1, <1>2, <1>3 DEF ProviderKnown, TurnsSound, Turns
<1>0. provider' = provider => ProviderGoesOn
  BY DEF ProviderGoesOn
<1>5. CASE ProviderStarts(x)
  <2>1. CASE provider[t] = "none"
    <3>1. t = run.turn
      BY <1>1, <1>2, <1>3, <2>1 DEF ProviderKnown, TurnsSound, Turns
    <3>2. provider' = [provider EXCEPT ![t] = "alive"] /\ request[x].at = "submit"
      BY <1>3, <1>5, <2>1 DEF ProviderStarts, Turn, Unanswered, At
    <3>3. PICK m \in {"alive", "error"} : request' = [request EXCEPT ![x].reply = m]
      BY <1>5, <2>1, <1>3 DEF ProviderStarts, Reply, Turn
    <3>4. ProviderGoesOn /\ provider'[t] = "alive"
      <4>1. provider'[t] = "alive" /\ \A u \in Turns : u # t => provider'[u] = provider[u]
        BY <1>1, <3>2
      <4> QED BY <2>1, <4>1 DEF ProviderGoesOn, Terminal
    <3>5. RequestSound(x)'
      BY <1>1, <1>2, <1>3, <3>1, <3>2, <3>3, <3>4 DEF RequestSound, Truthful, Requests, Alive, Terminal, InFlight
    <3>6. run.phase # "discovering_tools"
      BY <3>2 DEF ProviderKnown, PhaseSound, InFlight
    <3> QED BY <1>1, <1>2, <3>1, <3>2, <3>3, <3>4, <3>5, <3>6, ProviderMoves DEF Requests
  <2>2. CASE provider[t] # "none"
    <3>1. provider' = provider /\ request' = [request EXCEPT ![x].reply = "error"]
      BY <1>3, <1>5, <2>2 DEF ProviderStarts, Reply, Turn
    <3> QED BY <1>0, <1>1, <1>2, <3>1, ProviderMoves DEF Requests
  <2> QED BY <2>1, <2>2
<1>6. CASE SubmissionFails(x)
  <2>1. provider' = provider /\ request' = [request EXCEPT ![x].reply = "error"]
    BY <1>6 DEF SubmissionFails, Reply, providerVars
  <2> QED BY <1>0, <1>1, <1>2, <2>1, ProviderMoves DEF Requests
<1>7. CASE ProviderReads(x) \/ ProviderLooks(x)
  <2>1. provider' = provider /\ ProviderGoesOn
    BY <1>0, <1>7 DEF ProviderReads, ProviderLooks, providerVars
  <2>2. CASE request' = [request EXCEPT ![x].at = "confirm"] /\ request[x].at = "cancel"
    BY <1>1, <1>2, <2>1, <2>2, ProviderMoves DEF Requests
  <2>3. ASSUME NEW m \in {provider[t], "error"}, request' = [request EXCEPT ![x].reply = m]
        PROVE  ProviderKnown'
    <3>1. RequestSound(x)'
      BY <1>1, <1>2, <1>3, <2>1, <2>3
      DEF ProviderKnown, RequestSound, Truthful, Requests, Lifecycles, Alive, Terminal
    <3> QED BY <1>1, <1>2, <2>1, <2>3, <3>1, ProviderMoves DEF Requests
  <2> QED BY <1>3, <1>7, <2>2, <2>3 DEF ProviderReads, ProviderLooks, Reply, Turn, Unanswered, At
<1>8. CASE ProviderCancels(x)
  <2>1. request[x].at \in {"cancel", "confirm"}
    BY <1>8 DEF ProviderCancels, Unanswered, At
  <2>2. provider' = IF provider[t] \in Alive THEN [provider EXCEPT ![t] = "cancelled"] ELSE provider
    BY <1>3, <1>8 DEF ProviderCancels, Turn
  <2>3. PICK m : /\ request' = [request EXCEPT ![x].reply = m]
                 /\ m = "error" \/ (m = "cancelled" /\ provider'[t] = "cancelled")
    BY <1>3, <1>8 DEF ProviderCancels, Turn, Reply
  <2>a. \A u \in Turns : \/ provider'[u] = provider[u]
                         \/ u = t /\ provider[t] \in Alive /\ provider'[u] = "cancelled"
    BY <1>1, <2>2
  <2>4. /\ ProviderGoesOn /\ \A u \in Turns : u # run.turn => provider'[u] = provider[u]
        /\ provider'[run.turn] \in Alive => provider[run.turn] \in Alive
        /\ run.phase = "discovering_tools" => provider'[run.turn] = provider[run.turn]
    BY <1>1, <1>4, <2>a DEF ProviderGoesOn, Terminal, Alive, ProviderKnown, PhaseSound
  <2>5. RequestSound(x)'
    BY <1>1, <1>2, <1>3, <2>1, <2>3
    DEF ProviderKnown, RequestSound, Truthful, Requests, Alive, Terminal
  <2> QED BY <1>1, <1>2, <2>3, <2>4, <2>5, ProviderMoves DEF Requests
<1> QED BY <1>5, <1>6, <1>7, <1>8 DEF Replies

LEMMA TurnEndsKnow ==
    ASSUME IInv, ProviderKnown, NEW t \in Turns, ProviderEnds(t) \/ ProviderWaits(t)
    PROVE  ProviderKnown'
<1>1. /\ run.turn \in Turns /\ provider \in [Turns -> Lifecycles] /\ provider[t] \in Alive
      /\ run' = run /\ request' = request
  BY Types DEF Runs, IInv, RecordConsistent, TypeOK, ProviderEnds, ProviderWaits, clientVars, Alive
<1>2. t = run.turn
  BY <1>1 DEF ProviderKnown, TurnsSound, Turns, Alive
<1>3. PICK m \in Terminal \union {"waiting_for_user"} : provider' = [provider EXCEPT ![t] = m]
  BY DEF ProviderEnds, ProviderWaits, Terminal
<1>4. ProviderGoesOn
  <2>1. \A u \in Turns : provider'[u] = IF u = t THEN m ELSE provider[u]
    BY <1>1, <1>3
  <2> QED BY <1>1, <1>3, <2>1 DEF ProviderGoesOn, Terminal, Alive
<1>5. run.phase # "discovering_tools"
  BY <1>1, <1>2 DEF ProviderKnown, PhaseSound, Alive
<1> QED BY <1>1, <1>2, <1>3, <1>4, <1>5, ProviderMoves

-----------------------------------------------------------------------------
\* The run moves, the provider does not.
LEMMA RunMoves ==
    ASSUME IInv, ProviderKnown, provider' = provider, run'.turn = run.turn,
           \A x \in Clients : request'[x] = request[x] \/ RequestSound(x)',
           PhaseSound'
    PROVE  ProviderKnown'
<1>1. TurnsSound'
  BY DEF ProviderKnown, TurnsSound
<1>2. \A x \in Clients : RequestSound(x)'
  BY DEF ProviderKnown, RequestSound, Truthful
<1> QED BY <1>1, <1>2 DEF ProviderKnown

\* A request comes back with what it learned.
LEMMA ReturnKnows ==
    ASSUME IInv, ProviderKnown, provider' = provider, run'.turn = run.turn,
           NEW x \in Clients, request' = [request EXCEPT ![x] = Back(x)],
           run'.providerTurn = run.providerTurn
              \/ Truthful(run'.providerTurn.turn, run'.providerTurn.lifecycle),
           run'.phase \in Waits \union {"executing_batch"} => provider[run.turn] = "succeeded",
           run'.phase \in Waits \union {"executing_batch", "awaiting_provider"} => run'.providerTurn # NoTurn,
           run'.phase = "submitting_provider" => run'.pending = run.turn,
           run'.phase \notin {"cancelling_provider", "discovering_tools"},
           run'.phase = "cancelled" /\ run'.providerTurn.turn \in {0, run.turn} => provider[run.turn] \notin Alive
    PROVE  ProviderKnown'
<1>1. /\ request \in [Clients -> Requests] /\ Back(x).at \in {"idle", "gone"}
      /\ \A y \in Clients : y # x => request'[y] = request[y]
      /\ request'[x] = Back(x)
  BY Types DEF Back, Idle, Gone
<1>2. RequestSound(x)'
  BY <1>1 DEF RequestSound, InFlight
<1>3. \A r \in Readers : Busy(r)' => Busy(r)
  BY <1>1 DEF Busy, Clients
<1>4. \A t, m : Truthful(t, m) => t # 0
  BY DEF Truthful
<1>5. run.providerTurn # NoTurn => run'.providerTurn # NoTurn
  BY <1>4 DEF NoTurn
<1>6. run'.providerTurn = NoTurn \/ Truthful(run'.providerTurn.turn, run'.providerTurn.lifecycle)
  BY DEF ProviderKnown, PhaseSound
<1>7. PhaseSound'
  BY <1>3, <1>5, <1>6 DEF ProviderKnown, PhaseSound, Truthful
<1> QED BY <1>1, <1>2, <1>7, RunMoves

LEMMA ReturnsKnow ==
    ASSUME IInv, ProviderKnown, NEW r \in Readers, Returns(r)
    PROVE  ProviderKnown'
<1>0. /\ run \in Runs /\ run.turn \in Turns /\ r \in Clients /\ request[r] \in Requests
      /\ provider' = provider /\ request' = [request EXCEPT ![r] = Back(r)]
  BY Types DEF Runs, Clients, Returns, ToolsDiscovered, Submitted, AcceptBatch, AcceptFinal, ReadReturns,
               Return, providerVars
<1>1. CASE ToolsDiscovered(r)
  <2>1. request[r].of = run.turn
    BY <1>0, <1>1 DEF ToolsDiscovered, At, ProviderKnown, RequestSound, InFlight
  <2>2. /\ run'.turn = run.turn /\ run'.providerTurn = run.providerTurn
        /\ \/ run'.phase = "submitting_provider" /\ run'.pending = run.turn
           \/ run'.phase = "failed"
    BY <1>0, <1>1, <2>1 DEF ToolsDiscovered, Runs, Turn, Fail
  <2> QED BY <1>0, <2>2, ReturnKnows DEF Waits
<1>2. CASE Submitted(r) \/ AcceptBatch(r) \/ AcceptFinal(r) \/ ReadReturns(r)
  <2>1. request[r].at \in {"submit", "read"} /\ request[r].reply # "none"
    BY <1>2 DEF Submitted, AcceptBatch, AcceptFinal, ReadReturns, Answered, At
  <2>2. PICK t, m : t = request[r].of /\ m = request[r].reply
    OBVIOUS
  <2>3. t = run.turn /\ m # "none" /\ (m # "error" => Truthful(t, m))
    BY <1>0, <2>1, <2>2 DEF ProviderKnown, RequestSound, InFlight
  <2>4. CASE Fail
    <3>1. run'.turn = run.turn /\ run'.providerTurn = run.providerTurn /\ run'.phase = "failed"
      BY <1>0, <2>4 DEF Fail, Runs
    <3> QED BY <1>0, <3>1, ReturnKnows DEF Waits
  <2>5. CASE ~Fail
    <3>1. m # "error" /\ run'.providerTurn = [turn |-> t, lifecycle |-> m] /\ run'.turn = run.turn
      BY <1>0, <1>2, <2>2, <2>5
      DEF Submitted, AcceptBatch, AcceptFinal, ReadReturns, Learnt, Turn, Runs
    <3>2. run'.providerTurn # NoTurn /\ Truthful(run'.providerTurn.turn, run'.providerTurn.lifecycle)
      BY <2>3, <3>1 DEF NoTurn, Truthful
    <3>3. \/ run'.phase \in Waits \union {"executing_batch"} /\ m = "succeeded"
          \/ run'.phase \in {"awaiting_provider", "succeeded", "failed"}
          \/ run'.phase = "cancelled" /\ m = "cancelled"
      BY <1>0, <1>2, <2>2, <2>5
      DEF Submitted, AcceptBatch, AcceptFinal, ReadReturns, Runs, Terminal, Waits, Turn
    <3>4. m \in Terminal => provider[run.turn] = m
      BY <2>3, <3>1 DEF Truthful
    <3> QED BY <1>0, <3>1, <3>2, <3>3, <3>4, ReturnKnows DEF Waits, Terminal, Alive
  <2> QED BY <2>4, <2>5
<1> QED BY <1>1, <1>2 DEF Returns

LEMMA CancelReturnKnows ==
    ASSUME IInv, ProviderKnown, NEW x \in Clients, CancelReturns(x)
    PROVE  ProviderKnown'
<1>0. /\ run \in Runs /\ run.turn \in Turns /\ request[x] \in Requests
      /\ provider' = provider /\ request' = [request EXCEPT ![x] = Back(x)]
      /\ request[x].at \in {"cancel", "confirm"} /\ request[x].reply # "none"
  BY Types DEF Runs, CancelReturns, Return, providerVars, Answered, At
<1>1. PICK t, m : t = request[x].of /\ m = request[x].reply
  OBVIOUS
<1>2. CASE m = "error"
  <2>1. run'.turn = run.turn /\ run'.providerTurn = run.providerTurn /\ run'.phase = "failed"
    BY <1>0, <1>1, <1>2 DEF CancelReturns, Fail, Runs
  <2> QED BY <1>0, <2>1, ReturnKnows DEF Waits
<1>3. CASE m # "error"
  <2>1. Truthful(t, m)
    BY <1>0, <1>1, <1>3 DEF ProviderKnown, RequestSound, InFlight
  <2>2. /\ run'.turn = run.turn /\ run'.providerTurn = [turn |-> t, lifecycle |-> m]
        /\ run'.phase = IF m \in {"failed", "cancelled"} THEN m ELSE "awaiting_provider"
    BY <1>0, <1>1, <1>3 DEF CancelReturns, Runs, Learnt, Turn
  <2>3. run'.providerTurn # NoTurn /\ Truthful(run'.providerTurn.turn, run'.providerTurn.lifecycle)
    BY <2>1, <2>2 DEF NoTurn, Truthful
  <2>4. run'.phase = "cancelled" /\ run'.providerTurn.turn = run.turn => provider[run.turn] \notin Alive
    BY <2>1, <2>2 DEF Truthful, Terminal, Alive
  <2>5. run'.providerTurn.turn # 0
    BY <2>1, <2>2 DEF Truthful
  <2> QED BY <1>0, <2>2, <2>3, <2>4, <2>5, ReturnKnows DEF Waits
<1> QED BY <1>2, <1>3

-----------------------------------------------------------------------------
\* A request begins: a read, or a cancel.
LEMMA AsksKnow ==
    ASSUME IInv, ProviderKnown, provider' = provider,
           NEW x \in Clients, request[x] = Idle, NEW at \in InFlight, NEW by \in {"none", "request", "turn"},
           request' = [request EXCEPT ![x] = Asked(at, by)],
           run'.turn = run.turn, run'.providerTurn = run.providerTurn, run'.pending = run.pending,
           \/ run'.phase = run.phase
           \/ run'.phase = "cancelling_provider" /\ at = "cancel",
           run'.phase = "discovering_tools" => at = "discover"
    PROVE  ProviderKnown'
<1>1. /\ run.turn \in Turns /\ Asked(at, by).of = run.turn /\ Asked(at, by).at = at
      /\ Asked(at, by).reply = "none" /\ request \in [Clients -> Requests]
  BY AskedTyped, Types DEF Asked
<1>2. /\ \A y \in Clients : y # x => request'[y] = request[y]
      /\ request'[x] = Asked(at, by)
  BY <1>1
<1>3. RequestSound(x)'
  BY <1>1, <1>2 DEF RequestSound, Turns
<1>4. \A r \in Readers : Busy(r)' => Busy(r)
  BY <1>1, <1>2 DEF Busy, Clients, InFlight
<1>5. request[x].at = "idle"
  BY DEF Idle
<1>6. PhaseSound'
  BY <1>1, <1>2, <1>4, <1>5 DEF ProviderKnown, PhaseSound, Truthful, InFlight, Waits
<1> QED BY <1>2, <1>3, <1>6, RunMoves

\* The run changes its phase by itself, and a request may be over before it awaits anything.
LEMMA PhaseChanges ==
    ASSUME IInv, ProviderKnown, provider' = provider,
           run'.turn = run.turn, run'.providerTurn = run.providerTurn,
           \A x \in Clients : \/ request'[x] = request[x]
                              \/ request[x].at \notin InFlight /\ request'[x].at \notin InFlight,
           \A r \in Readers : Busy(r)' => Busy(r) \/ run.phase = "executing_batch",
           \/ run'.phase = "failed"
           \/ run'.phase = "cancelled" /\ provider[run.turn] \notin Alive
           \/ run'.phase = "cancelled" /\ run.phase = "cancelling_provider"
           \/ run'.phase = "cancelled" /\ run.providerTurn.turn \notin {0, run.turn}
           \/ run'.phase = run.phase /\ run'.pending = run.pending
           \/ /\ run'.phase \in Waits \union {"executing_batch"}
              /\ provider[run.turn] = "succeeded" /\ run.providerTurn # NoTurn
    PROVE  ProviderKnown'
<1>1. \A x \in Clients : RequestSound(x)'
  BY DEF ProviderKnown, RequestSound, Truthful
<1>2. \A x \in Clients : /\ request[x].at \in InFlight => request'[x] = request[x]
                         /\ request'[x].at \in InFlight => request'[x] = request[x]
  OBVIOUS
<1>3. (\E x \in Clients : request[x].at \in InFlight) => (\E x \in Clients : request'[x].at \in InFlight)
  BY <1>2
<1>4. (\E x \in Clients : request[x].at \in {"cancel", "confirm"})
        => (\E x \in Clients : request'[x].at \in {"cancel", "confirm"})
  BY <1>2 DEF InFlight
<1>5. \A r \in Readers : Busy(r)' => provider[run.turn] = "succeeded" /\ run.providerTurn # NoTurn
  BY DEF ProviderKnown, PhaseSound
<1>6. (run.providerTurn = NoTurn \/ Truthful(run.providerTurn.turn, run.providerTurn.lifecycle))'
  BY DEF ProviderKnown, PhaseSound, Truthful
<1>7. PhaseSound'
  <2>1. CASE run'.phase = run.phase /\ run'.pending = run.pending
    BY <1>2, <1>3, <1>4, <1>5, <1>6, <2>1 DEF ProviderKnown, PhaseSound
  <2>2. CASE run'.phase = "failed"
    BY <1>5, <1>6, <2>2 DEF PhaseSound, Waits
  <2>3. CASE run'.phase = "cancelled" /\ run.phase = "cancelling_provider"
    BY <1>4, <1>5, <1>6, <2>3 DEF ProviderKnown, PhaseSound, Waits, InFlight
  <2>4. CASE run'.phase = "cancelled" /\ run.phase # "cancelling_provider" /\ run'.phase # run.phase
    BY <1>5, <1>6, <2>4 DEF PhaseSound, Waits
  <2>5. CASE /\ run'.phase \in Waits \union {"executing_batch"}
             /\ provider[run.turn] = "succeeded" /\ run.providerTurn # NoTurn
    BY <1>5, <1>6, <2>5 DEF PhaseSound, Waits
  <2>6. CASE run'.phase = "cancelled" /\ run.phase = "cancelled"
    BY <1>3, <1>5, <1>6, <2>6 DEF ProviderKnown, PhaseSound, Waits
  <2> QED BY <2>1, <2>2, <2>3, <2>4, <2>5, <2>6
<1> QED BY <1>1, <1>7, RunMoves

LEMMA ReadsKnow ==
    ASSUME IInv, ProviderKnown, NEW r \in Readers, Read(r)
    PROVE  ProviderKnown'
<1>0. /\ run \in Runs /\ run.turn \in Turns /\ r \in Clients /\ request[r] = Idle
      /\ request \in [Clients -> Requests] /\ provider' = provider
  BY Types DEF Runs, Clients, Read, DiscoverTools, SubmitPending, ReadProvider, CancelAgain, ExecuteBatch,
               Polls, providerVars
<1>1. CASE DiscoverTools(r)
  BY <1>0, <1>1, AsksKnow DEF DiscoverTools, Await, InFlight
<1>2. CASE SubmitPending(r)
  <2>1. run.pending = run.turn /\ run.phase = "submitting_provider"
    BY <1>2 DEF SubmitPending, ProviderKnown, PhaseSound
  <2>2. [Asked("submit", "none") EXCEPT !.of = run.pending] = Asked("submit", "none")
    BY <2>1 DEF Asked
  <2>3. request' = [request EXCEPT ![r] = Asked("submit", "none")] /\ run' = run
    BY <1>2, <2>2 DEF SubmitPending, Await
  <2> QED BY <1>0, <2>1, <2>3, AsksKnow DEF InFlight
<1>3. CASE (ReadProvider(r) \/ CancelAgain(r)) /\ Fail
  <2>1. /\ run'.turn = run.turn /\ run'.providerTurn = run.providerTurn /\ run'.phase = "failed"
        /\ \A x \in Clients : request'[x] = request[x] \/ request'[x].at \in InFlight
    BY <1>0, <1>3 DEF Fail, Runs, ReadProvider, CancelAgain, Await, Asked, clientVars, InFlight
  <2>2. request' = request
    <3>1. run # run'
      BY <1>0, <1>3, <2>1 DEF ReadProvider, CancelAgain
    <3> QED BY <1>3, <3>1 DEF ReadProvider, CancelAgain, clientVars
  <2> QED BY <1>0, <2>1, <2>2, PhaseChanges DEF Busy
<1>4. CASE (ReadProvider(r) \/ CancelAgain(r)) /\ ~Fail
  <2>1. run.phase \in {"awaiting_provider", "cancelling_provider"} /\ run' = run
    BY <1>4 DEF ReadProvider, CancelAgain
  <2>2. PICK at \in {"read", "cancel"}, by \in {"none", run.cancel} :
           request' = [request EXCEPT ![r] = Asked(at, by)]
    BY <1>4 DEF ReadProvider, CancelAgain, Await
  <2>3. by \in {"none", "request", "turn"} /\ at \in InFlight
    BY <1>0, <2>2 DEF Runs, InFlight
  <2> QED BY <1>0, <2>1, <2>2, <2>3, AsksKnow
<1>5. CASE ExecuteBatch(r)
  <2>1. run.phase = "executing_batch" /\ provider[run.turn] = "succeeded" /\ run.providerTurn # NoTurn
    BY <1>5 DEF ExecuteBatch, ProviderKnown, PhaseSound
  <2>2. /\ run'.turn = run.turn /\ run'.providerTurn = run.providerTurn
        /\ run'.phase \in {"waiting_for_input", "executing_batch"}
    BY <1>0, <1>5, <2>1 DEF ExecuteBatch, Runs
  <2>3. \A x \in Clients : \/ request'[x] = request[x]
                           \/ request[x].at \notin InFlight /\ request'[x].at \notin InFlight
    BY <1>0, <1>5 DEF ExecuteBatch, clientVars, InFlight, Idle
  <2> QED BY <1>0, <2>1, <2>2, <2>3, PhaseChanges DEF Waits
<1> QED BY <1>1, <1>2, <1>3, <1>4, <1>5 DEF Read

LEMMA CancelKnows ==
    ASSUME IInv, ProviderKnown, NEW k \in Cancellers, Cancel(k)
    PROVE  ProviderKnown'
<1> DEFINE unsubmitted == run.phase = "submitting_provider" /\ run.providerTurn.turn # run.turn
<1>0. /\ run \in Runs /\ run.turn \in Turns /\ k \in Clients /\ request[k] = Idle
      /\ request \in [Clients -> Requests] /\ provider' = provider
      /\ k \notin Readers /\ Back(k) = Gone
  BY Types, NoneAssumption DEF Runs, Clients, Cancel, providerVars, Back
<1>1. CASE Return(k)
  <2>1. /\ \A x \in Clients : \/ request'[x] = request[x]
                              \/ request[x].at \notin InFlight /\ request'[x].at \notin InFlight
        /\ \A r \in Readers : Busy(r)' => Busy(r)
    BY <1>0, <1>1 DEF Return, InFlight, Idle, Gone, Busy, Clients
  <2>2. CASE run' = run
    BY <1>0, <2>1, <2>2, PhaseChanges
  <2>3. CASE Fail
    <3>1. run'.turn = run.turn /\ run'.providerTurn = run.providerTurn /\ run'.phase = "failed"
      BY <1>0, <2>3 DEF Fail, Runs
    <3> QED BY <1>0, <2>1, <3>1, PhaseChanges
  <2>4. CASE /\ run.phase \notin Terminal /\ ~unsubmitted /\ run.providerTurn.lifecycle \notin Alive
             /\ run' = [run EXCEPT !.phase = "cancelled"]
    <3>1. run'.turn = run.turn /\ run'.providerTurn = run.providerTurn /\ run'.phase = "cancelled"
      BY <1>0, <2>4 DEF Runs
    <3>2. CASE run.providerTurn.turn = run.turn
      <4>1. Truthful(run.providerTurn.turn, run.providerTurn.lifecycle)
        BY <1>0, <3>2 DEF ProviderKnown, PhaseSound, NoTurn, Turns
      <4>2. provider[run.turn] \notin Alive
        BY <2>4, <3>2, <4>1 DEF Truthful, Terminal, Alive
      <4> QED BY <1>0, <2>1, <3>1, <4>2, PhaseChanges
    <3>3. CASE run.providerTurn.turn # run.turn /\ run.providerTurn = NoTurn
      <4>1. run.phase \in {"discovering_tools", "cancelling_provider"}
        BY <1>0, <2>4, <3>3 DEF ProviderKnown, PhaseSound, Runs, Phases
      <4>2. run.phase = "discovering_tools" => provider[run.turn] \notin Alive
        BY DEF ProviderKnown, PhaseSound, Alive
      <4> QED BY <1>0, <2>1, <3>1, <4>1, <4>2, PhaseChanges
    <3>4. CASE run.providerTurn.turn # run.turn /\ run.providerTurn # NoTurn
      <4>1. run.providerTurn.turn \notin {0, run.turn}
        BY <3>4 DEF ProviderKnown, PhaseSound, Truthful
      <4> QED BY <1>0, <2>1, <3>1, <4>1, PhaseChanges
    <3> QED BY <3>2, <3>3, <3>4
  <2>5. run' = run \/ Fail \/ (/\ run.phase \notin Terminal /\ ~unsubmitted
                               /\ run.providerTurn.lifecycle \notin Alive
                               /\ run' = [run EXCEPT !.phase = "cancelled"])
    <3>1. request'[k] = Gone
      BY <1>0, <1>1 DEF Return
    <3>2. \A by : ~Await(k, Asked("cancel", by))
      BY <1>0, <3>1 DEF Await, Asked, Gone
    <3> QED BY <3>2 DEF Cancel
  <2> QED BY <2>2, <2>3, <2>4, <2>5
<1>2. CASE ~Return(k)
  <2>1. PICK by \in {"request", "turn"} :
           /\ Await(k, Asked("cancel", by))
           /\ run' = [run EXCEPT !.phase = "cancelling_provider", !.cancel = by]
    BY <1>2 DEF Cancel
  <2>2. /\ run'.turn = run.turn /\ run'.providerTurn = run.providerTurn /\ run'.pending = run.pending
        /\ run'.phase = "cancelling_provider" /\ "cancel" \in InFlight
    BY <1>0, <2>1 DEF Runs, InFlight
  <2> QED BY <1>0, <2>1, <2>2, AsksKnow DEF Await
<1> QED BY <1>1, <1>2

\* The reader in the loop goes on, or leaves it for the user or for good.
LEMMA LoopKnows ==
    ASSUME IInv, ProviderKnown, NEW r \in Readers, Busy(r), provider' = provider,
           run'.turn = run.turn, run'.providerTurn = run.providerTurn,
           \/ run'.phase = run.phase /\ run'.pending = run.pending
           \/ run'.phase \in Waits \union {"failed"},
           request'[r].at \in {"idle", "loop", "tool"},
           \A x \in Clients : x = r \/ request'[x] = request[x]
    PROVE  ProviderKnown'
<1>1. /\ request \in [Clients -> Requests] /\ r \in Clients /\ request[r].at \notin InFlight
      /\ provider[run.turn] = "succeeded" /\ run.providerTurn # NoTurn
  BY Types DEF Clients, Busy, InFlight, ProviderKnown, PhaseSound
<1>2. \A x \in Clients : \/ request'[x] = request[x]
                         \/ x = r /\ request[x].at \notin InFlight /\ request'[x].at \notin InFlight
  BY <1>1 DEF InFlight
<1>3. \A s \in Readers : Busy(s)' => Busy(s)
  BY <1>2 DEF Busy, Clients
<1> QED BY <1>1, <1>2, <1>3, PhaseChanges

LEMMA AdvanceKnows ==
    ASSUME SingleWriter, IInv, ProviderKnown, NEW r \in Readers, Advance(r)
    PROVE  ProviderKnown'
<1>1. /\ run \in Runs /\ run.turn \in Turns /\ request \in [Clients -> Requests] /\ r \in Clients
      /\ provider' = provider /\ request' = [request EXCEPT ![r] = Idle] /\ run.turn < MaxTurns
      /\ MaxTurns \in Nat /\ loop = r
  BY Types, CallsAssumption DEF Advance, LoopEnds, Runs, Clients, providerVars
<1>2. /\ Busy(r) /\ request[r].at \notin InFlight /\ provider[run.turn] = "succeeded"
      /\ run.providerTurn # NoTurn
  BY <1>1 DEF IInv, RecordConsistent, ReaderConsistent, Busy, InFlight, ProviderKnown, PhaseSound
<1>3. /\ run'.turn = run.turn + 1 /\ run'.phase = "submitting_provider" /\ run'.pending = run.turn + 1
      /\ run'.providerTurn = run.providerTurn /\ run' \in Runs
  <2>1. run' = [run EXCEPT !.phase = "submitting_provider", !.turn = @ + 1, !.pending = run.turn + 1,
                           !.calls = NoCalls, !.results = NoResults, !.needs = "none"]
    BY DEF Advance
  <2>2. /\ "submitting_provider" \in Phases /\ run.turn + 1 \in Turns /\ run.turn + 1 \in 0..MaxTurns
        /\ NoCalls \in [Calls -> HarnessCall \union {NoCall}] /\ NoResults \in [Calls -> Outcomes \union {"none"}]
    BY <1>1 DEF Phases, Turns, NoCalls, NoResults
  <2> QED BY <1>1, <2>1, <2>2 DEF Runs
<1>4. ProviderGoesOn
  BY <1>1 DEF ProviderGoesOn
<1>5. TurnsSound'
  BY <1>1, <1>2, <1>3 DEF ProviderKnown, TurnsSound, Turns
<1>6. ASSUME NEW x \in Clients PROVE RequestSound(x)'
  <2>1. CASE x = r
    BY <1>1, <2>1 DEF RequestSound, Idle, InFlight
  <2>2. CASE x # r
    <3>1. request'[x] = request[x] /\ x \notin Readers
      BY <1>1, <2>2 DEF SingleWriter
    <3>2. PICK t, m : t = request[x].of /\ m = request[x].reply
      OBVIOUS
    <3>3. Truthful(t, m) => Truthful(t, m)'
      BY <1>3, <1>4, TruthKept
    <3>4. request[x].at \in InFlight => t \in 1..run'.turn
      BY <1>1, <1>3, <3>2 DEF ProviderKnown, RequestSound, Turns
    <3> QED BY <3>1, <3>2, <3>3, <3>4 DEF ProviderKnown, RequestSound
  <2> QED BY <2>1, <2>2
<1>7. PhaseSound'
  <2>1. PICK t, m : t = run.providerTurn.turn /\ m = run.providerTurn.lifecycle
    OBVIOUS
  <2>2. Truthful(t, m)'
    BY <1>2, <1>3, <1>4, <2>1, TruthKept DEF ProviderKnown, PhaseSound
  <2>3. Truthful(run.providerTurn.turn, run.providerTurn.lifecycle)'
    BY <1>3, <2>1, <2>2
  <2>4. \A s \in Readers : ~Busy(s)'
    BY <1>1 DEF SingleWriter, Busy, Idle
  <2> QED BY <1>3, <2>3, <2>4 DEF PhaseSound, Waits
<1> QED BY <1>5, <1>6, <1>7 DEF ProviderKnown

LEMMA LoopsKnow ==
    ASSUME SingleWriter, IInv, ProviderKnown, NEW r \in Readers,
           Loop(r) \/ \E outcome : ToolEnds(r, outcome)
    PROVE  ProviderKnown'
<1>0. run \in Runs /\ r \in Clients /\ request \in [Clients -> Requests]
  BY Types DEF Clients
<1>1. loop = r \/ request[r].at = "tool"
  BY DEF Loop, FailCall, StartTool, NextPass, WaitFor, Advance, BatchFails, Visits, LoopEnds, ToolEnds, At
<1>2. Busy(r)
  BY <1>1 DEF IInv, RecordConsistent, ReaderConsistent, Busy
<1>3. \A c, s : /\ WithStatus(run, c, s).turn = run.turn /\ WithStatus(run, c, s).phase = run.phase
                /\ WithStatus(run, c, s).pending = run.pending
                /\ WithStatus(run, c, s).providerTurn = run.providerTurn
                /\ WithOutcome(run, c, s).turn = run.turn /\ WithOutcome(run, c, s).phase = run.phase
                /\ WithOutcome(run, c, s).pending = run.pending
                /\ WithOutcome(run, c, s).providerTurn = run.providerTurn
  BY <1>0 DEF WithStatus, WithOutcome, Runs
<1>4. ASSUME NEW c \in Calls, FailCall(r, c) PROVE ProviderKnown'
  <2>1. /\ request' = request /\ provider' = provider
        /\ \E s : run' = WithOutcome(run, c, s)
    BY <1>4 DEF FailCall, providerVars
  <2> QED BY <1>2, <1>3, <2>1, PhaseChanges DEF Busy
<1>5. ASSUME NEW c \in Calls, StartTool(r, c) PROVE ProviderKnown'
  <2>1. /\ request' = [request EXCEPT ![r] = [Idle EXCEPT !.at = "tool", !.of = c]] /\ provider' = provider
        /\ \E s : run' = WithStatus(run, c, s)
    BY <1>5 DEF StartTool, providerVars
  <2>2. request'[r].at = "tool" /\ \A x \in Clients : x = r \/ request'[x] = request[x]
    BY <1>0, <2>1 DEF Idle
  <2>3. /\ run'.turn = run.turn /\ run'.providerTurn = run.providerTurn
        /\ run'.phase = run.phase /\ run'.pending = run.pending
    BY <1>3, <2>1
  <2> QED BY <1>2, <2>1, <2>2, <2>3, LoopKnows
<1>6. ASSUME NEW outcome, ToolEnds(r, outcome) PROVE ProviderKnown'
  <2>1. /\ request' = [request EXCEPT ![r] = [Idle EXCEPT !.at = "loop"]] /\ provider' = provider
        /\ \E c, s : run' = WithStatus(run, c, s) \/ run' = WithOutcome(run, c, s)
    BY <1>6 DEF ToolEnds, providerVars
  <2>2. request'[r].at = "loop" /\ \A x \in Clients : x = r \/ request'[x] = request[x]
    BY <1>0, <2>1 DEF Idle
  <2>3. /\ run'.turn = run.turn /\ run'.providerTurn = run.providerTurn
        /\ run'.phase = run.phase /\ run'.pending = run.pending
    BY <1>3, <2>1
  <2> QED BY <1>2, <2>1, <2>2, <2>3, LoopKnows
<1>7. CASE NextPass(r)
  BY <1>2, <1>7, PhaseChanges DEF NextPass, providerVars, Busy
<1>8. CASE WaitFor(r) \/ BatchFails(r)
  <2>1. /\ request' = [request EXCEPT ![r] = Idle] /\ provider' = provider
        /\ run'.turn = run.turn /\ run'.providerTurn = run.providerTurn
        /\ run'.phase \in Waits \union {"failed"}
    BY <1>0, <1>8 DEF WaitFor, BatchFails, LoopEnds, providerVars, Fail, Runs, Waits
  <2>2. request'[r].at = "idle" /\ \A x \in Clients : x = r \/ request'[x] = request[x]
    BY <1>0, <2>1 DEF Idle
  <2> QED BY <1>2, <2>1, <2>2, LoopKnows
<1> QED BY <1>4, <1>5, <1>6, <1>7, <1>8, AdvanceKnows DEF Loop

LEMMA UserKnows ==
    ASSUME IInv, ProviderKnown, Intervene \/ ResumeProvider
    PROVE  ProviderKnown'
<1>0. run \in Runs
  BY Types
<1>1. CASE ResumeProvider
  <2>1. /\ run'.turn = run.turn /\ run'.providerTurn = run.providerTurn /\ run'.phase = "failed"
        /\ request' = request /\ provider' = provider
    BY <1>0, <1>1 DEF ResumeProvider, Fail, Runs, clientVars, providerVars
  <2> QED BY <2>1, PhaseChanges DEF Busy
<1>2. CASE Intervene
  <2>1. /\ run.phase \in Waits /\ request' = request /\ provider' = provider
        /\ run'.turn = run.turn /\ run'.providerTurn = run.providerTurn /\ run'.phase = "executing_batch"
    BY <1>0, <1>2 DEF Intervene, Approve, AnswerNeeds, CompleteAuthentication, Resumable, Waits, Runs,
                      clientVars, providerVars
  <2>2. provider[run.turn] = "succeeded" /\ run.providerTurn # NoTurn
    BY <2>1 DEF ProviderKnown, PhaseSound
  <2> QED BY <2>1, <2>2, PhaseChanges DEF Busy
<1> QED BY <1>1, <1>2

LEMMA StepKnows ==
    ASSUME SingleWriter, IInv, ProviderKnown, [Next]_vars
    PROVE  ProviderKnown'
<1>1. CASE UNCHANGED vars
  BY <1>1, PhaseChanges DEF vars, clientVars, providerVars, Busy
<1>2. ASSUME NEW r \in Readers, Read(r) \/ Loop(r) \/ Settle(r) \/ Challenge(r) \/ Returns(r)
      PROVE  ProviderKnown'
  BY <1>2, ReadsKnow, LoopsKnow, ReturnsKnow DEF Settle, Challenge
<1> QED BY <1>1, <1>2, RepliesKnow, CancelReturnKnows, TurnEndsKnow, CancelKnows, UserKnows DEF Next

LEMMA InitKnows ==
    ASSUME Init
    PROVE  ProviderKnown
<1>1. \A x \in Clients : request[x].at = "idle"
  BY DEF Init, Idle
<1>2. TurnsSound
  BY DEF Init, TurnsSound, Turns
<1>3. PhaseSound
  <2>1. run.phase = "discovering_tools" /\ run.providerTurn = NoTurn /\ provider[run.turn] = "none"
    BY CallsAssumption DEF Init, Turns
  <2> QED BY <1>1, <2>1 DEF PhaseSound, Waits, Busy, Clients, InFlight
<1> QED BY <1>1, <1>2, <1>3 DEF ProviderKnown, RequestSound, InFlight

\* CancelledStopsProvider: once nothing is under way, a cancelled run has no turn alive, whatever its
\* cancels met: a submission under way, a reply that got lost, a turn that ended first, one another.
THEOREM CancelsReachTheProvider ==
    ASSUME SingleWriter
    PROVE  Spec => []CancelledStopsProvider
<1>1. Init => IInv /\ ProviderKnown
  BY InitHolds, InitKnows
<1>2. (IInv /\ ProviderKnown) /\ [Next]_vars => (IInv /\ ProviderKnown)'
  BY StepKeeps, StepKnows
<1>3. IInv /\ ProviderKnown => CancelledStopsProvider
  <2> SUFFICES ASSUME IInv, ProviderKnown, run.phase = "cancelled", run.providerTurn.turn \in {0, run.turn},
                      \A x \in Clients : request[x] \in {Idle, Gone}, NEW t \in Turns
               PROVE  provider[t] \notin Alive
    BY DEF CancelledStopsProvider
  <2>1. \A x \in Clients : request[x].at \notin InFlight
    BY DEF Idle, Gone, InFlight
  <2>2. provider[run.turn] \notin Alive
    BY <2>1 DEF ProviderKnown, PhaseSound
  <2>3. t < run.turn \/ t = run.turn \/ t > run.turn
    BY Types DEF Runs, Turns
  <2> QED BY <2>2, <2>3 DEF ProviderKnown, TurnsSound, Alive
<1> QED BY <1>1, <1>2, <1>3, PTL DEF Spec
=============================================================================
