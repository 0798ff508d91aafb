--------------------------- MODULE BrowserActionsProofs ---------------------------
(***************************************************************************)
(* Proofs about BrowserActions for any number of actions.  IInv, the       *)
(* conjunction of the two invariants that are model-checked, is inductive: *)
(* what the run was told can only be compared with what the page answered  *)
(* because broker, loop and poll agree about which action is open.         *)
(***************************************************************************)
EXTENDS BrowserActions, TLAPS

IInv == BrokerConsistent /\ RunToldTruth

\* What the invariants say of one action.
OfAction(a) ==
    /\ Decided(a) /\ Awaited(a) /\ Applied(a) /\ Proposed(a)
    /\ run.call[a] = "succeeded" => answer[a] = "succeeded" /\ acted[a] = 1
    /\ run.call[a] = "failed" /\ answer[a] # "failed" => broker[a] \in {"expired", "absent"}

\* The invariants are what they say of each action, and of the panel and the daemon.
LEMMA Parts == IInv <=> TypeOK /\ LoopConsistent /\ DaemonConsistent /\ \A a \in Actions : OfAction(a)
  BY DEF IInv, BrokerConsistent, RunToldTruth, OfAction

LEMMA PartsNext ==
    ASSUME TypeOK', LoopConsistent', DaemonConsistent', \A a \in Actions : OfAction(a)'
    PROVE  IInv'
  BY DEF IInv, BrokerConsistent, RunToldTruth, OfAction

-----------------------------------------------------------------------------
\* A step of the panel that only gives up requests, the loop or what it shows.
LEMMA PanelStep ==
    ASSUME IInv, TypeOK', UNCHANGED <<daemonVars, applied, pageVars>>, clicks' \subseteq clicks,
           loop' \in {loop, Rest}, proposal' \in {proposal, 0},
           poll' = poll \/ (poll.at # "tool" /\ poll'.at # "tool" /\ (poll'.at = "provider" => run.phase = "provider"))
    PROVE  IInv'
<1>1. TypeOK /\ LoopConsistent /\ DaemonConsistent /\ \A a \in Actions : OfAction(a)
  BY Parts
<1>2. LoopConsistent'
  BY <1>1 DEF LoopConsistent, TypeOK, daemonVars, pageVars, Rest
<1>3. DaemonConsistent'
  BY <1>1 DEF DaemonConsistent, daemonVars
<1>4. ASSUME NEW a \in Actions PROVE OfAction(a)'
  BY <1>1 DEF OfAction, Decided, Awaited, Applied, Proposed, daemonVars, pageVars
<1> QED BY <1>2, <1>3, <1>4, PartsNext

\* A step of the run that leaves its calls alone, while the session is there or the provider is asked.
LEMMA PhaseStep ==
    ASSUME IInv, TypeOK', UNCHANGED <<session, broker, given, loop, proposal, applied, pageVars>>,
           clicks' \subseteq clicks, run'.call = run.call, run.phase # "lost", run'.phase # "lost",
           run.phase = "over" => run'.phase = "over" \/ poll.at = "provider",
           poll' = poll \/ (poll.at = "provider" /\ poll'.at \in {"idle", "reply"})
    PROVE  IInv'
<1>1. LoopConsistent /\ DaemonConsistent /\ \A a \in Actions : OfAction(a)
  BY Parts
<1>2. LoopConsistent'
  BY <1>1 DEF LoopConsistent, pageVars
<1>3. DaemonConsistent'
  BY <1>1 DEF DaemonConsistent
<1>4. ASSUME NEW a \in Actions PROVE OfAction(a)'
  BY <1>1 DEF OfAction, Decided, Awaited, Applied, Proposed, pageVars
<1> QED BY <1>2, <1>3, <1>4, PartsNext

\* A call ends with what the page answered, or as failed when its action is settled without an answer.
LEMMA CallEndsStep ==
    ASSUME IInv, TypeOK', NEW a \in Actions, NEW outcome \in Answers, CallEnds(a, outcome),
           run.phase # "lost", run.call[a] \in {"approved", "executing", "pending"},
           poll.at = "tool" => poll.of = a, run.phase = "over" => poll.at = "tool",
           UNCHANGED <<session, given, proposal, clicks, applied, pageVars>>,
           loop' \in {loop, Rest},
           \A b \in Actions \ {a} : broker'[b] = broker[b],
           broker'[a] = "absent" => broker[a] = "absent",
           \/ broker'[a] \in {"expired", "absent"} /\ outcome = "failed"
           \/ broker'[a] \in Answers /\ outcome = answer[a] /\ broker'[a] = outcome /\ loop'.at # "applying"
           \/ broker'[a] \in Answers /\ outcome = answer[a] /\ broker'[a] = outcome /\ broker'[a] = broker[a],
           broker'[a] = "expired" => a \in approved, broker'[a] \in Answers => a \in approved,
           ~session => broker'[a] = "absent"
    PROVE  IInv'
<1>1. TypeOK /\ LoopConsistent /\ DaemonConsistent /\ \A b \in Actions : OfAction(b)
  BY Parts
<1>2. /\ run'.phase = "provider" /\ poll'.at \in {"idle", "reply"} /\ run'.call[a] = outcome
      /\ \A b \in Actions \ {a} : run'.call[b] = run.call[b]
  BY <1>1 DEF TypeOK, CallEnds, View, Reply, Quiet
<1>3. broker'[a] \in {"expired", "absent"} \union Answers
  OBVIOUS
<1>4. LoopConsistent'
  <2>1. CASE loop' = Rest
    BY <1>1, <2>1 DEF LoopConsistent, pageVars, Rest
  <2>2. CASE loop' = loop /\ loop.of # a
    BY <1>1, <2>2 DEF LoopConsistent, pageVars, TypeOK
  <2>3. CASE loop' = loop /\ loop.of = a
    <3>1. loop.at = "applying" => answer[a] = "none" /\ broker'[a] \notin Answers
      BY <1>1, <2>3 DEF LoopConsistent, OfAction, Applied, Answers
    <3> QED BY <1>1, <1>3, <2>3, <3>1 DEF LoopConsistent, pageVars
  <2> QED BY <2>1, <2>2, <2>3
<1>5. DaemonConsistent'
  BY <1>1, <1>2 DEF DaemonConsistent
<1>6. OfAction(a)'
  <2>1. Decided(a)'
    BY <1>1, <1>2, <1>3 DEF OfAction, Decided, pageVars, Answers
  <2>2. Awaited(a)'
    BY <1>1, <1>2, <1>3 DEF OfAction, Awaited, Answers
  <2>3. Applied(a)'
    BY <1>1, <1>2, <1>3 DEF OfAction, Applied, pageVars, Answers
  <2>4. Proposed(a)'
    BY <1>1, <1>2, <1>3 DEF OfAction, Proposed, pageVars, Answers
  <2>5. /\ run'.call[a] = "succeeded" => answer'[a] = "succeeded" /\ acted'[a] = 1
        /\ run'.call[a] = "failed" /\ answer'[a] # "failed" => broker'[a] \in {"expired", "absent"}
    BY <1>1, <1>2 DEF OfAction, Applied, pageVars, Answers
  <2> QED BY <2>1, <2>2, <2>3, <2>4, <2>5 DEF OfAction
<1>7. ASSUME NEW b \in Actions \ {a} PROVE OfAction(b)'
  <2>1. broker'[b] = broker[b] /\ run'.call[b] = run.call[b] /\ run.call[b] # "executing"
    BY <1>1, <1>2 DEF OfAction, Awaited
  <2>2. Decided(b)'
    BY <1>1, <2>1 DEF OfAction, Decided, pageVars
  <2>3. Awaited(b)'
    BY <1>1, <2>1 DEF OfAction, Awaited
  <2>4. Applied(b)'
    BY <1>1, <2>1 DEF OfAction, Applied, pageVars
  <2>5. Proposed(b)'
    BY <1>1, <2>1 DEF OfAction, Proposed, pageVars
  <2> QED BY <1>1, <2>1, <2>2, <2>3, <2>4, <2>5 DEF OfAction, pageVars
<1>8. \A b \in Actions : OfAction(b)'
  BY <1>6, <1>7
<1> QED BY <1>1, <1>4, <1>5, <1>8, PartsNext
-----------------------------------------------------------------------------
(* The panel's own steps.                                                  *)
\* The panel's read begins.
LEMMA PollBeginsKeeps == ASSUME IInv, PollBegins PROVE IInv'
<1>1. TypeOK
  BY Parts
<1>2. TypeOK'
  BY <1>1, NAssumption DEF PollBegins, View, Reply, Quiet, daemonVars, panelVars, pageVars, screen, requests, TypeOK, Actions, Answers, Stages, Terminal, Phases
<1>3. UNCHANGED <<daemonVars, applied, pageVars>> /\ clicks' \subseteq clicks /\ loop' \in {loop, Rest}
  BY DEF PollBegins, View, Reply, Quiet, panelVars, screen, requests
<1>4. proposal' \in {proposal, 0}
  BY DEF PollBegins, panelVars, screen
<1>5. poll' = poll \/ (poll.at # "tool" /\ poll'.at # "tool" /\ (poll'.at = "provider" => run.phase = "provider"))
  BY DEF PollBegins, Quiet, View, Reply
<1> QED BY <1>2, <1>3, <1>4, <1>5, PanelStep

\* The panel hears of its read.
LEMMA PollEndsKeeps == ASSUME IInv, PollEnds PROVE IInv'
<1>1. TypeOK
  BY Parts
<1>2. TypeOK'
  BY <1>1, NAssumption DEF PollEnds, LetGo, Quiet, daemonVars, panelVars, pageVars, screen, requests, TypeOK, Actions, Answers, Stages, Terminal, Phases
<1>3. UNCHANGED <<daemonVars, applied, pageVars>> /\ clicks' \subseteq clicks /\ loop' \in {loop, Rest}
  BY DEF PollEnds, LetGo, Quiet, panelVars, screen, requests
<1>4. proposal' \in {proposal, 0}
  BY DEF PollEnds, panelVars, screen
<1>5. poll' = poll \/ (poll.at # "tool" /\ poll'.at # "tool" /\ (poll'.at = "provider" => run.phase = "provider"))
  BY DEF PollEnds, Quiet, Reply
<1> QED BY <1>2, <1>3, <1>4, <1>5, PanelStep

\* The loop of actions asks for a session that is gone.
LEMMA LoopFailsKeeps == ASSUME IInv, LoopFails PROVE IInv'
<1>1. TypeOK
  BY Parts
<1>2. TypeOK'
  <2>1. session' \in BOOLEAN /\ own' \in BOOLEAN /\ active' \in BOOLEAN
    BY <1>1, Zenon DEF LoopFails, TypeOK, daemonVars, panelVars, screen
  <2>2. proposal' \in 0..N
    BY <1>1, NAssumption DEF LoopFails, TypeOK, panelVars, screen
  <2> QED
    BY <1>1, <2>1, <2>2, NAssumption DEF LoopFails, daemonVars, panelVars, pageVars, screen, requests, TypeOK
<1>3. UNCHANGED <<daemonVars, applied, pageVars>> /\ clicks' \subseteq clicks /\ loop' \in {loop, Rest}
  BY DEF LoopFails, panelVars, screen, requests
<1>4. proposal' \in {proposal, 0}
  BY DEF LoopFails, panelVars, screen
<1>5. poll' = poll \/ (poll.at # "tool" /\ poll'.at # "tool" /\ (poll'.at = "provider" => run.phase = "provider"))
  BY DEF LoopFails, Quiet, Reply
<1> QED BY <1>2, <1>3, <1>4, <1>5, PanelStep

\* A result that nobody takes.
LEMMA ReportLostKeeps == ASSUME IInv, ReportLost PROVE IInv'
<1>1. TypeOK
  BY Parts
<1>2. TypeOK'
  <2>1. session' \in BOOLEAN /\ own' \in BOOLEAN /\ active' \in BOOLEAN
    BY <1>1, Zenon DEF ReportLost, TypeOK, daemonVars, panelVars, screen
  <2>2. proposal' \in 0..N
    BY <1>1, NAssumption DEF ReportLost, TypeOK, panelVars, screen
  <2> QED
    BY <1>1, <2>1, <2>2, NAssumption DEF ReportLost, Rest, daemonVars, panelVars, pageVars, screen, requests, TypeOK
<1>3. UNCHANGED <<daemonVars, applied, pageVars>> /\ clicks' \subseteq clicks /\ loop' \in {loop, Rest}
  BY DEF ReportLost, Rest, panelVars, screen, requests
<1>4. proposal' \in {proposal, 0}
  BY DEF ReportLost, panelVars, screen
<1>5. poll' = poll \/ (poll.at # "tool" /\ poll'.at # "tool" /\ (poll'.at = "provider" => run.phase = "provider"))
  BY DEF ReportLost, Quiet, Reply
<1> QED BY <1>2, <1>3, <1>4, <1>5, PanelStep

\* A decision that was overtaken.
LEMMA DecisionRefusedKeeps == ASSUME IInv, DecisionRefused PROVE IInv'
<1>1. TypeOK
  BY Parts
<1>2. TypeOK'
  <2>1. session' \in BOOLEAN /\ own' \in BOOLEAN /\ active' \in BOOLEAN
    BY <1>1, Zenon DEF DecisionRefused, TypeOK, daemonVars, panelVars, screen
  <2>2. proposal' \in 0..N
    BY <1>1, NAssumption DEF DecisionRefused, TypeOK, panelVars, screen
  <2> QED
    BY <1>1, <2>1, <2>2, NAssumption DEF DecisionRefused, daemonVars, panelVars, pageVars, screen, requests, TypeOK
<1>3. UNCHANGED <<daemonVars, applied, pageVars>> /\ clicks' \subseteq clicks /\ loop' \in {loop, Rest}
  BY DEF DecisionRefused, panelVars, screen, requests
<1>4. proposal' \in {proposal, 0}
  BY DEF DecisionRefused, panelVars, screen
<1>5. poll' = poll \/ (poll.at # "tool" /\ poll'.at # "tool" /\ (poll'.at = "provider" => run.phase = "provider"))
  BY DEF DecisionRefused, Quiet, Reply
<1> QED BY <1>2, <1>3, <1>4, <1>5, PanelStep

\* Cancel is asked.
LEMMA CancelClickedKeeps == ASSUME IInv, CancelClicked PROVE IInv'
<1>1. TypeOK
  BY Parts
<1>2. TypeOK'
  BY <1>1, NAssumption DEF CancelClicked, daemonVars, panelVars, pageVars, screen, requests, TypeOK, Actions, Answers, Stages, Terminal, Phases
<1>3. UNCHANGED <<daemonVars, applied, pageVars>> /\ clicks' \subseteq clicks /\ loop' \in {loop, Rest}
  BY DEF CancelClicked, panelVars, screen, requests
<1>4. proposal' \in {proposal, 0}
  BY DEF CancelClicked, panelVars, screen
<1>5. poll' = poll \/ (poll.at # "tool" /\ poll'.at # "tool" /\ (poll'.at = "provider" => run.phase = "provider"))
  BY DEF CancelClicked, Quiet, Reply
<1> QED BY <1>2, <1>3, <1>4, <1>5, PanelStep

\* Cancel is answered.
LEMMA CancelEndsKeeps == ASSUME IInv, CancelEnds PROVE IInv'
<1>1. TypeOK
  BY Parts
<1>2. TypeOK'
  <2>1. session' \in BOOLEAN /\ own' \in BOOLEAN /\ active' \in BOOLEAN
    BY <1>1, Zenon DEF CancelEnds, TypeOK, daemonVars, panelVars, screen
  <2>2. proposal' \in 0..N
    BY <1>1, NAssumption DEF CancelEnds, TypeOK, panelVars, screen
  <2> QED
    BY <1>1, <2>1, <2>2, NAssumption DEF CancelEnds, LetGo, daemonVars, panelVars, pageVars, screen, requests, TypeOK
<1>3. UNCHANGED <<daemonVars, applied, pageVars>> /\ clicks' \subseteq clicks /\ loop' \in {loop, Rest}
  BY DEF CancelEnds, LetGo, panelVars, screen, requests
<1>4. proposal' \in {proposal, 0}
  BY DEF CancelEnds, panelVars, screen
<1>5. poll' = poll \/ (poll.at # "tool" /\ poll'.at # "tool" /\ (poll'.at = "provider" => run.phase = "provider"))
  BY DEF CancelEnds, Quiet, Reply
<1> QED BY <1>2, <1>3, <1>4, <1>5, PanelStep

\* A page is attached again.
LEMMA ReattachKeeps == ASSUME IInv, Reattach PROVE IInv'
<1>1. TypeOK
  BY Parts
<1>2. TypeOK'
  <2>1. session' \in BOOLEAN /\ own' \in BOOLEAN /\ active' \in BOOLEAN
    BY <1>1, Zenon DEF Reattach, TypeOK, daemonVars, panelVars, screen
  <2>2. proposal' \in 0..N
    BY <1>1, NAssumption DEF Reattach, TypeOK, panelVars, screen
  <2> QED
    BY <1>1, <2>1, <2>2, NAssumption DEF Reattach, daemonVars, panelVars, pageVars, screen, requests, TypeOK
<1>3. UNCHANGED <<daemonVars, applied, pageVars>> /\ clicks' \subseteq clicks /\ loop' \in {loop, Rest}
  BY DEF Reattach, panelVars, screen, requests
<1>4. proposal' \in {proposal, 0}
  BY DEF Reattach, panelVars, screen
<1>5. poll' = poll \/ (poll.at # "tool" /\ poll'.at # "tool" /\ (poll'.at = "provider" => run.phase = "provider"))
  BY DEF Reattach, Quiet, Reply
<1> QED BY <1>2, <1>3, <1>4, <1>5, PanelStep

\* The panel is closed.
LEMMA PanelClosesKeeps == ASSUME IInv, PanelCloses PROVE IInv'
<1>1. TypeOK
  BY Parts
<1>2. TypeOK'
  <2>1. session' \in BOOLEAN /\ own' \in BOOLEAN /\ active' \in BOOLEAN
    BY <1>1, Zenon DEF PanelCloses, TypeOK, daemonVars, panelVars, screen
  <2>2. proposal' \in 0..N
    BY <1>1, NAssumption DEF PanelCloses, TypeOK, panelVars, screen
  <2> QED
    BY <1>1, <2>1, <2>2, NAssumption DEF PanelCloses, Quiet, daemonVars, panelVars, pageVars, screen, requests, TypeOK
<1>3. UNCHANGED <<daemonVars, applied, pageVars>> /\ clicks' \subseteq clicks /\ loop' \in {loop, Rest}
  BY DEF PanelCloses, panelVars, screen, requests
<1>4. proposal' \in {proposal, 0}
  BY DEF PanelCloses, panelVars, screen
<1>5. poll' = poll \/ (poll.at # "tool" /\ poll'.at # "tool" /\ (poll'.at = "provider" => run.phase = "provider"))
  BY DEF PanelCloses, Quiet, Reply
<1> QED BY <1>2, <1>3, <1>4, <1>5, PanelStep

\* The types of the run and of the read, after a call ended and after the run began to wait for it.
LEMMA CallEndsType ==
    ASSUME TypeOK, NEW a \in Actions, NEW outcome \in Answers, CallEnds(a, outcome)
    PROVE  /\ run' \in [phase : Phases, call : [Actions -> Calls]]
           /\ poll' \in [at : {"idle", "provider", "tool", "reply"}, of : 0..N, view : {"none", "error", "over", "active"}]
<1>1. run' \in [phase : Phases, call : [Actions -> Calls]]
  BY DEF TypeOK, CallEnds, Phases, Calls
<1>2. poll' \in [at : {"idle", "provider", "tool", "reply"}, of : 0..N, view : {"none", "error", "over", "active"}]
  BY NAssumption DEF CallEnds, View, Reply, Quiet
<1> QED BY <1>1, <1>2

-----------------------------------------------------------------------------
(* The run and the daemon.                                                 *)
\* The provider goes on, or ends the run.
LEMMA ProviderTellsKeeps == ASSUME IInv, ProviderTells PROVE IInv'
<1>1. TypeOK /\ LoopConsistent /\ DaemonConsistent /\ \A b \in Actions : OfAction(b)
  BY Parts
<1>2. TypeOK'
  <2>1. session' \in BOOLEAN /\ own' \in BOOLEAN /\ active' \in BOOLEAN
    BY <1>1, Zenon DEF ProviderTells, TypeOK, daemonVars, panelVars, screen
  <2>2. PICK phase \in {"provider", "input"} \union Terminal : SetPhase(phase) /\ poll' = View(phase)
    BY DEF ProviderTells
  <2>3. run' \in [phase : Phases, call : [Actions -> Calls]]
    BY <1>1, <2>2 DEF TypeOK, SetPhase, Phases
  <2>4. poll' \in [at : {"idle", "provider", "tool", "reply"}, of : 0..N, view : {"none", "error", "over", "active"}]
    BY <2>2, NAssumption DEF View, Reply, Quiet
  <2>5. UNCHANGED <<session, broker, given, panelVars, pageVars>>
    BY DEF ProviderTells
  <2> QED BY <1>1, <2>1, <2>3, <2>4, <2>5 DEF TypeOK, panelVars, pageVars, screen, requests
<1>3. /\ UNCHANGED <<session, broker, given, loop, proposal, applied, pageVars>> /\ clicks' = clicks
      /\ run.phase # "lost" /\ poll.at = "provider" /\ poll'.at \in {"idle", "reply"}
  BY <1>1 DEF ProviderTells, DaemonConsistent, View, Reply, Quiet, panelVars, screen, requests
<1>4. run'.call = run.call /\ run'.phase # "lost"
  BY <1>1 DEF ProviderTells, SetPhase, TypeOK, Terminal
<1> QED BY <1>2, <1>3, <1>4, PhaseStep

\* The cancel request reaches the run.
LEMMA CancelArrivesKeeps == ASSUME IInv, CancelArrives PROVE IInv'
<1>1. TypeOK /\ LoopConsistent /\ DaemonConsistent /\ \A b \in Actions : OfAction(b)
  BY Parts
<1>2. TypeOK'
  <2>1. session' \in BOOLEAN /\ own' \in BOOLEAN /\ active' \in BOOLEAN
    BY <1>1, Zenon DEF CancelArrives, TypeOK, daemonVars, panelVars, screen
  <2> QED
    BY <1>1, <2>1, NAssumption DEF CancelArrives, CancelRun, SetPhase, daemonVars, panelVars, pageVars, screen, requests, TypeOK, Actions, Answers, Stages, Terminal, Phases
<1>3. UNCHANGED <<session, broker, given, poll, loop, proposal, applied, pageVars>> /\ clicks' = clicks
  BY DEF CancelArrives
<1>4. CASE session
  <2>1. run.phase # "lost"
    BY <1>1, <1>4 DEF DaemonConsistent
  <2>2. run'.call = run.call /\ run'.phase # "lost" /\ (run.phase = "over" => run'.phase = "over")
    BY <1>1, <1>4, <2>1 DEF CancelArrives, CancelRun, SetPhase, TypeOK, Terminal
  <2> QED BY <1>2, <1>3, <2>1, <2>2, PhaseStep
<1>5. CASE ~session
  BY <1>2, <1>3, <1>5, PanelStep DEF CancelArrives, daemonVars
<1> QED BY <1>4, <1>5

\* The run starts to wait for an action, or takes the result that is there.
LEMMA ExecuteKeeps == ASSUME IInv, Execute PROVE IInv'
<1>1. TypeOK /\ LoopConsistent /\ DaemonConsistent /\ \A b \in Actions : OfAction(b)
  BY Parts
<1>2. /\ session /\ run.phase = "executing" /\ poll.at = "idle"
      /\ UNCHANGED <<session, broker, given, loop, proposal, clicks, applied, pageVars>>
  BY DEF Execute, panelVars, screen, requests, Quiet
<1>3. ASSUME run' \in [phase : Phases, call : [Actions -> Calls]],
             poll' \in [at : {"idle", "provider", "tool", "reply"}, of : 0..N, view : {"none", "error", "over", "active"}]
      PROVE  TypeOK'
  <2>1. UNCHANGED <<session, broker, given, panelVars, pageVars>>
    BY DEF Execute
  <2> QED BY <1>1, <1>3, <2>1 DEF TypeOK, panelVars, pageVars, screen, requests
<1>4. CASE \E a \in Actions :
             /\ run.call[a] = "approved"
             /\ IF broker[a] = "applying"
                  THEN /\ run' = [run EXCEPT !.call[a] = "executing"]
                       /\ poll' = [at |-> "tool", of |-> a, view |-> "none"]
                  ELSE CallEnds(a, IF broker[a] \in Answers THEN broker[a] ELSE "failed")
  <2>1. PICK a \in Actions :
          /\ run.call[a] = "approved"
          /\ IF broker[a] = "applying"
               THEN /\ run' = [run EXCEPT !.call[a] = "executing"]
                    /\ poll' = [at |-> "tool", of |-> a, view |-> "none"]
               ELSE CallEnds(a, IF broker[a] \in Answers THEN broker[a] ELSE "failed")
    BY <1>4
  <2>2. CASE broker[a] = "applying"
    <3>1. /\ run'.phase = run.phase /\ poll'.at = "tool" /\ poll'.of = a /\ run'.call[a] = "executing"
          /\ \A b \in Actions \ {a} : run'.call[b] = run.call[b]
      BY <1>1, <2>1, <2>2 DEF TypeOK
    <3>2. TypeOK'
      <4>1. run' \in [phase : Phases, call : [Actions -> Calls]]
        BY <1>1, <2>1, <2>2 DEF TypeOK, Calls
      <4>2. poll' \in [at : {"idle", "provider", "tool", "reply"}, of : 0..N, view : {"none", "error", "over", "active"}]
        BY <2>1, <2>2, NAssumption DEF Actions
      <4> QED BY <1>3, <4>1, <4>2
    <3>3. LoopConsistent'
      BY <1>1, <1>2 DEF LoopConsistent, pageVars
    <3>4. DaemonConsistent'
      BY <1>1, <1>2, <2>2, <3>1 DEF DaemonConsistent
    <3>5. ASSUME NEW b \in Actions PROVE OfAction(b)'
      <4>1. run'.call[b] = run.call[b] \/ (b = a /\ run'.call[b] = "executing")
        BY <3>1
      <4>2. Decided(b)'
        BY <1>1, <2>1, <1>2, <2>2, <4>1 DEF OfAction, Decided, pageVars
      <4>3. Awaited(b)'
        BY <1>1, <2>1, <1>2, <2>2, <3>1, <4>1 DEF OfAction, Awaited, DaemonConsistent, Answers
      <4>4. Applied(b)'
        BY <1>1, <1>2 DEF OfAction, Applied, pageVars
      <4>5. Proposed(b)'
        BY <1>1, <2>1, <1>2, <4>1 DEF OfAction, Proposed, pageVars
      <4> QED BY <1>1, <1>2, <4>1, <4>2, <4>3, <4>4, <4>5 DEF OfAction, pageVars
    <3> QED BY <3>3, <3>4, <3>5, <3>2, PartsNext
  <2>3. CASE broker[a] # "applying"
    <3> DEFINE outcome == IF broker[a] \in Answers THEN broker[a] ELSE "failed"
    <3>1. outcome \in Answers /\ CallEnds(a, outcome)
      BY <2>1, <2>3 DEF Answers
    <3>2. broker[a] \in Answers => answer[a] = broker[a] /\ a \in approved
      BY <1>1 DEF OfAction, Applied, Decided
    <3>3. broker[a] \in {"absent"} \union Answers
      BY <1>1, <2>1, <2>3 DEF OfAction, Awaited
    <3>4. broker[a] \notin Answers => outcome = "failed" /\ broker[a] = "absent"
      BY <3>3
    <3> HIDE DEF outcome
    <3>5. TypeOK'
      BY <1>1, <1>3, <3>1, CallEndsType
    <3> QED BY <3>5, <2>1, <1>2, <3>1, <3>2, <3>3, <3>4, CallEndsStep DEF outcome, Answers
  <2> QED BY <2>2, <2>3
<1>5. CASE SetPhase("provider") /\ poll' = View("provider")
  <2>1. run'.phase = "provider" /\ run'.call = run.call /\ poll'.at \in {"idle", "reply"}
    BY <1>1, <1>5 DEF TypeOK, SetPhase, View, Reply, Quiet
  <2>2. TypeOK'
    <3>1. run' \in [phase : Phases, call : [Actions -> Calls]]
      BY <1>1, <1>5 DEF TypeOK, SetPhase, Phases
    <3>2. poll' \in [at : {"idle", "provider", "tool", "reply"}, of : 0..N, view : {"none", "error", "over", "active"}]
      BY <1>5, NAssumption DEF View, Reply, Quiet
    <3> QED BY <1>3, <3>1, <3>2
  <2>3. LoopConsistent' /\ DaemonConsistent'
    BY <1>1, <1>2, <2>1 DEF LoopConsistent, DaemonConsistent, pageVars
  <2>4. ASSUME NEW b \in Actions PROVE OfAction(b)'
    <3>1. run.call[b] # "executing"
      BY <1>1, <1>2 DEF OfAction, Awaited
    <3> QED BY <1>1, <1>2, <2>1, <3>1 DEF OfAction, Decided, Awaited, Applied, Proposed, pageVars
  <2> QED BY <2>2, <2>3, <2>4, PartsNext
<1> QED BY <1>4, <1>5 DEF Execute

\* The deadline of a wait passes.
LEMMA ExpireKeeps == ASSUME IInv, Expire PROVE IInv'
<1>1. TypeOK /\ LoopConsistent /\ DaemonConsistent /\ \A b \in Actions : OfAction(b)
  BY Parts
<1> DEFINE a == poll.of
<1>2. /\ a \in Actions /\ poll.at = "tool" /\ CallEnds(a, "failed") /\ run.phase # "lost"
      /\ run.call[a] = "executing" /\ broker[a] \in {"applying", "absent"}
  BY <1>1 DEF Expire, DaemonConsistent
<1>3. UNCHANGED <<session, given, loop, proposal, clicks, applied, pageVars>>
  BY DEF Expire, panelVars, screen, requests
<1>4. /\ \A b \in Actions \ {a} : broker'[b] = broker[b]
      /\ broker'[a] = IF broker[a] = "applying" THEN "expired" ELSE broker[a]
  BY <1>1, <1>2 DEF Expire, TypeOK
<1>5. (broker[a] = "applying" => a \in approved) /\ (~session => broker[a] = "absent")
  BY <1>1, <1>2 DEF OfAction, Decided, DaemonConsistent
<1>6. broker'[a] \in {"expired", "absent"} /\ (broker'[a] = "absent" => broker[a] = "absent")
  BY <1>2, <1>4
<1>7. "failed" \in Answers /\ broker'[a] \notin Answers
  BY <1>6 DEF Answers
<1>8. TypeOK'
  <2>1. broker' \in [Actions -> Stages]
    BY <1>1 DEF Expire, TypeOK, Stages
  <2>2. run.phase \in Phases /\ a \in Actions /\ "failed" \in Answers
    BY <1>1, <1>2, <1>7 DEF TypeOK
  <2> HIDE DEF a
  <2>3. /\ run' \in [phase : Phases, call : [Actions -> Calls]]
        /\ poll' \in [at : {"idle", "provider", "tool", "reply"}, of : 0..N, view : {"none", "error", "over", "active"}]
    BY <1>1, <1>2, <2>2, CallEndsType
  <2>4. UNCHANGED <<session, given, panelVars, pageVars>>
    BY DEF Expire
  <2> QED BY <1>1, <2>1, <2>3, <2>4 DEF TypeOK, panelVars, pageVars, screen, requests
<1> QED BY <1>8, <1>2, <1>3, <1>4, <1>5, <1>6, <1>7, CallEndsStep

\* The result of an action is accepted.
LEMMA ReportAcceptedKeeps == ASSUME IInv, ReportAccepted PROVE IInv'
<1>1. TypeOK /\ LoopConsistent /\ DaemonConsistent /\ \A b \in Actions : OfAction(b)
  BY Parts
<1>2. PICK a \in Actions :
      /\ a = loop.of /\ loop.at = "reporting" /\ session /\ broker[a] = "applying" /\ loop.answer \in Answers
      /\ answer[a] = loop.answer /\ loop' = Rest /\ run.phase # "lost" /\ a \in approved /\ a \in applied
  <2>1. loop.at = "reporting" /\ loop.of \in Actions
    BY <1>1 DEF ReportAccepted, LoopConsistent, TypeOK
  <2> QED BY <1>1, <2>1 DEF ReportAccepted, LoopConsistent, DaemonConsistent, OfAction, Decided
<1>3. broker' = [broker EXCEPT ![a] = loop.answer] /\ UNCHANGED <<session, given, proposal, clicks, applied, pageVars>>
  BY <1>2 DEF ReportAccepted, requests
<1>4. /\ broker'[a] = loop.answer /\ broker' \in [Actions -> Stages]
      /\ \A b \in Actions \ {a} : broker'[b] = broker[b]
  BY <1>1, <1>2, <1>3 DEF TypeOK, Stages, Answers
<1>5. ASSUME run' \in [phase : Phases, call : [Actions -> Calls]],
             poll' \in [at : {"idle", "provider", "tool", "reply"}, of : 0..N, view : {"none", "error", "over", "active"}]
      PROVE  TypeOK'
  <2>1. loop' \in [at : {"idle", "applying", "reporting"}, of : 0..N, answer : Answers \union {"none"}]
    BY NAssumption DEF ReportAccepted, Rest
  <2>2. active' \in BOOLEAN
    BY <1>1, Zenon DEF ReportAccepted, TypeOK
  <2>3. UNCHANGED <<panel, own, cancel, detach, acted, answer>>
    BY DEF ReportAccepted, requests, pageVars
  <2> QED BY <1>1, <1>3, <1>4, <1>5, <2>1, <2>3, <2>2 DEF TypeOK, pageVars
<1>6. CASE poll.at = "tool" /\ poll.of = a
  <2>1. CallEnds(a, loop.answer)
    BY <1>2, <1>6 DEF ReportAccepted
  <2>2. TypeOK'
    BY <1>1, <1>2, <1>5, <2>1, CallEndsType
  <2>3. run.call[a] = "executing" /\ loop'.at # "applying" /\ broker'[a] \notin {"absent", "expired"}
    BY <1>1, <1>2, <1>4, <1>6 DEF DaemonConsistent, Rest, Answers
  <2> QED BY <1>2, <1>3, <1>4, <1>6, <2>1, <2>2, <2>3, CallEndsStep
<1>7. CASE ~(poll.at = "tool" /\ poll.of = a)
  <2>1. UNCHANGED <<run, poll>>
    BY <1>2, <1>7 DEF ReportAccepted
  <2>2. TypeOK'
    BY <1>1, <1>5, <2>1 DEF TypeOK
  <2>3. LoopConsistent'
    BY <1>1, <1>2, <1>3 DEF LoopConsistent, Rest
  <2>4. DaemonConsistent'
    BY <1>1, <1>2, <1>3, <1>4, <1>7, <2>1 DEF DaemonConsistent
  <2>5. run.call[a] \notin {"executing", "succeeded", "failed"}
    BY <1>1, <1>2, <1>7 DEF OfAction, Awaited, Answers
  <2>6. OfAction(a)'
    <3>1. broker'[a] \in Answers /\ broker'[a] \notin {"awaiting", "applying", "rejected", "absent", "expired"}
      BY <1>2, <1>4 DEF Answers
    <3>2. Decided(a)'
      BY <1>1, <1>2, <1>3, <2>1, <3>1 DEF OfAction, Decided, pageVars
    <3>3. Awaited(a)'
      BY <1>1, <1>2, <2>1, <2>5, <3>1 DEF OfAction, Awaited
    <3>4. Applied(a)'
      BY <1>1, <1>2, <1>3, <1>4, <3>1 DEF OfAction, Applied, pageVars
    <3>5. Proposed(a)'
      BY <1>1, <1>2, <1>3, <2>1, <3>1 DEF OfAction, Proposed, pageVars
    <3> QED BY <2>1, <2>5, <3>2, <3>3, <3>4, <3>5 DEF OfAction
  <2>7. ASSUME NEW b \in Actions, b # a PROVE OfAction(b)'
    <3>1. broker'[b] = broker[b] /\ UNCHANGED <<session, given, clicks, applied, approved, acted, answer>>
      BY <1>3, <1>4, <2>7 DEF pageVars
    <3>2. OfAction(b) /\ run' = run /\ poll' = poll
      BY <1>1, <2>1
    <3>3. Decided(b)' /\ Awaited(b)'
      BY <3>1, <3>2 DEF OfAction, Decided, Awaited
    <3>4. Applied(b)' /\ Proposed(b)'
      BY <3>1, <3>2 DEF OfAction, Applied, Proposed
    <3> QED BY <3>1, <3>2, <3>3, <3>4 DEF OfAction
  <2>8. \A b \in Actions : OfAction(b)'
    BY <2>6, <2>7
  <2> QED BY <2>2, <2>3, <2>4, <2>8, PartsNext
<1> QED BY <1>6, <1>7

\* The run proposes a batch of actions.
LEMMA ProviderProposesKeeps == ASSUME IInv, ProviderProposes PROVE IInv'
<1>1. TypeOK /\ LoopConsistent /\ DaemonConsistent /\ \A b \in Actions : OfAction(b)
  BY Parts
<1>2. PICK n \in (given + 1)..N :
        LET batch == (given + 1)..n IN
        /\ IF session
             THEN broker' = [b \in Actions |-> IF b \in batch THEN "awaiting" ELSE broker[b]] /\ given' = n
             ELSE UNCHANGED <<broker, given>>
        /\ \/ SetPhase("over") /\ poll' = View("over")
           \/ /\ session
              /\ \E dropped \in SUBSET batch, phase \in {"input", "approval", "executing"} :
                    /\ phase = "approval" => dropped # batch
                    /\ phase = "executing" => dropped = batch
                    /\ run' = [phase |-> phase,
                               call |-> [b \in Actions |-> IF b \in dropped THEN "dropped"
                                                           ELSE IF b \in batch THEN "pending" ELSE run.call[b]]]
                    /\ poll' = View(phase)
  BY DEF ProviderProposes
<1>3. /\ poll.at = "provider" /\ run.phase # "lost"
      /\ UNCHANGED <<session, loop, proposal, clicks, applied, panelVars, pageVars>>
  BY <1>1 DEF ProviderProposes, DaemonConsistent, panelVars, screen, requests
<1>4. /\ run' \in [phase : {"input", "approval", "executing", "over"}, call : [Actions -> Calls]]
      /\ \A b \in Actions :
            \/ run'.call[b] = run.call[b] /\ (b \in (given + 1)..n => run'.phase = "over")
            \/ b \in (given + 1)..n /\ session /\ run'.call[b] \in {"dropped", "pending"}
      /\ ~session => run'.phase = "over" /\ run'.call = run.call
      /\ poll'.at \in {"idle", "reply"}
      /\ poll' \in [at : {"idle", "provider", "tool", "reply"}, of : 0..N, view : {"none", "error", "over", "active"}]
  <2>1. CASE SetPhase("over") /\ poll' = View("over")
    <3>1. /\ run' \in [phase : {"over"}, call : [Actions -> Calls]] /\ run'.call = run.call
      BY <1>1, <2>1 DEF TypeOK, SetPhase
    <3>2. /\ poll'.at \in {"idle", "reply"}
          /\ poll' \in [at : {"idle", "provider", "tool", "reply"}, of : 0..N, view : {"none", "error", "over", "active"}]
      BY <2>1, NAssumption DEF View, Reply, Quiet
    <3> QED BY <3>1, <3>2
  <2>2. ASSUME NEW dropped \in SUBSET ((given + 1)..n), NEW phase \in {"input", "approval", "executing"}, session,
               run' = [phase |-> phase,
                       call |-> [b \in Actions |-> IF b \in dropped THEN "dropped"
                                                   ELSE IF b \in (given + 1)..n THEN "pending" ELSE run.call[b]]],
               poll' = View(phase)
        PROVE  /\ run' \in [phase : {"input", "approval", "executing", "over"}, call : [Actions -> Calls]]
               /\ \A b \in Actions :
                     IF b \in (given + 1)..n THEN run'.call[b] \in {"dropped", "pending"} ELSE run'.call[b] = run.call[b]
               /\ poll'.at \in {"idle", "reply"}
               /\ poll' \in [at : {"idle", "provider", "tool", "reply"}, of : 0..N, view : {"none", "error", "over", "active"}]
    <3>1. run' \in [phase : {"input", "approval", "executing", "over"}, call : [Actions -> Calls]]
      BY <1>1, <2>2 DEF TypeOK, Calls
    <3>2. ASSUME NEW b \in Actions
          PROVE  IF b \in (given + 1)..n THEN run'.call[b] \in {"dropped", "pending"} ELSE run'.call[b] = run.call[b]
      BY <2>2
    <3>3. /\ poll'.at \in {"idle", "reply"}
          /\ poll' \in [at : {"idle", "provider", "tool", "reply"}, of : 0..N, view : {"none", "error", "over", "active"}]
      BY <2>2, NAssumption DEF View, Reply, Quiet
    <3> QED BY <2>2, <3>1, <3>2, <3>3
  <2> QED BY <1>2, <2>1, <2>2
<1>5. CASE session
  <2>1. /\ given \in 0..N /\ given' = n /\ n > given
        /\ \A b \in Actions : broker'[b] = IF b \in (given + 1)..n THEN "awaiting" ELSE broker[b]
    BY <1>1, <1>2, <1>5, NAssumption DEF TypeOK
  <2>2. TypeOK'
    <3>1. broker' \in [Actions -> Stages]
      BY <1>1, <1>2, <1>5 DEF TypeOK, Stages
    <3>2. run' \in [phase : Phases, call : [Actions -> Calls]]
      BY <1>4 DEF Phases, Terminal
    <3>3. given' \in 0..N
      BY <2>1, NAssumption
    <3> QED BY <1>1, <1>3, <1>4, <3>1, <3>2, <3>3 DEF TypeOK, panelVars, pageVars, screen, requests
  <2>3. ASSUME NEW b \in Actions, b \in (given + 1)..n
        PROVE  broker[b] = "absent" /\ run.call[b] = "none" /\ b \notin approved /\ b \notin applied
    <3>1. ~(b <= given)
      BY <2>1, <2>3, NAssumption
    <3> QED BY <1>1, <2>3, <3>1 DEF OfAction, Proposed, Decided
  <2>4. LoopConsistent'
    <3>1. loop.at = "applying" => loop.of \in Actions /\ loop.of \notin (given + 1)..n
      BY <1>1, <2>3 DEF LoopConsistent, TypeOK
    <3>2. proposal \in 0..n
      BY <1>1, <2>1, NAssumption DEF LoopConsistent, TypeOK
    <3>3. loop.at = "applying" => broker'[loop.of] = broker[loop.of]
      BY <2>1, <3>1
    <3> QED BY <1>1, <1>3, <2>1, <3>2, <3>3 DEF LoopConsistent, pageVars
  <2>5. DaemonConsistent'
    BY <1>3, <1>4, <1>5 DEF DaemonConsistent
  <2>6. ASSUME NEW b \in Actions PROVE OfAction(b)'
    <3>1. CASE b \in (given + 1)..n
      <4>1. /\ broker'[b] = "awaiting" /\ b <= given' /\ run'.call[b] \in {"none", "dropped", "pending"}
            /\ run'.call[b] = "none" => run'.phase = "over"
        BY <1>4, <2>1, <2>3, <3>1, NAssumption
      <4> QED BY <1>1, <1>3, <1>4, <2>3, <3>1, <4>1 DEF OfAction, Decided, Awaited, Applied, Proposed, pageVars, Answers
    <3>2. CASE b \notin (given + 1)..n
      <4>1. broker'[b] = broker[b] /\ run'.call[b] = run.call[b] /\ (b <= given' <=> b <= given)
        BY <1>4, <2>1, <3>2, NAssumption DEF Actions
      <4>2. run.call[b] # "executing" /\ (broker[b] # "absent" => run.call[b] # "none")
        BY <1>1, <1>3 DEF OfAction, Awaited, Decided
      <4> QED BY <1>1, <1>3, <4>1, <4>2 DEF OfAction, Decided, Awaited, Applied, Proposed, pageVars
    <3> QED BY <3>1, <3>2
  <2> QED BY <2>2, <2>4, <2>5, <2>6, PartsNext
<1>6. CASE ~session
  <2>1. UNCHANGED <<broker, given>> /\ run'.phase = "over" /\ run'.call = run.call
    BY <1>2, <1>4, <1>6
  <2>2. TypeOK'
    <3>1. run' \in [phase : Phases, call : [Actions -> Calls]]
      BY <1>4 DEF Phases, Terminal
    <3> QED BY <1>1, <1>3, <1>4, <2>1, <3>1 DEF TypeOK, panelVars, pageVars, screen, requests
  <2> QED BY <1>3, <1>4, <2>1, <2>2, PhaseStep
<1> QED BY <1>5, <1>6

\* The session is detached.
LEMMA DetachArrivesKeeps == ASSUME IInv, DetachArrives PROVE IInv'
<1>1. TypeOK /\ LoopConsistent /\ DaemonConsistent /\ \A b \in Actions : OfAction(b)
  BY Parts
<1>2. TypeOK'
  <2>1. session' \in BOOLEAN
    BY Zenon DEF DetachArrives
  <2>2. broker' \in [Actions -> Stages]
    BY DEF DetachArrives, Stages
  <2> QED BY <1>1, <2>1, <2>2 DEF DetachArrives, TypeOK, pageVars, screen
<1>3. /\ UNCHANGED <<run, given, poll, loop, proposal, clicks, applied, approved, acted, answer>> /\ ~session'
      /\ \A b \in Actions : broker'[b] = "absent"
  BY DEF DetachArrives, pageVars, screen
<1>4. LoopConsistent'
  BY <1>1, <1>3 DEF LoopConsistent, TypeOK
<1>5. DaemonConsistent'
  BY <1>1, <1>3 DEF DaemonConsistent
<1>6. ASSUME NEW b \in Actions PROVE OfAction(b)'
  <2>1. Decided(b)'
    BY <1>1, <1>3 DEF OfAction, Decided, Answers
  <2>2. Awaited(b)'
    BY <1>1, <1>3 DEF OfAction, Awaited, DaemonConsistent, Answers
  <2>3. Applied(b)'
    BY <1>1, <1>3 DEF OfAction, Applied, LoopConsistent, Answers
  <2>4. Proposed(b)'
    BY <1>1, <1>3 DEF OfAction, Proposed
  <2>5. /\ run'.call[b] = "succeeded" => answer'[b] = "succeeded" /\ acted'[b] = 1
        /\ run'.call[b] = "failed" /\ answer'[b] # "failed" => broker'[b] \in {"expired", "absent"}
    BY <1>1, <1>3 DEF OfAction, Applied, Awaited, LoopConsistent, Answers
  <2> QED BY <2>1, <2>2, <2>3, <2>4, <2>5 DEF OfAction
<1> QED BY <1>2, <1>4, <1>5, <1>6, PartsNext

\* The daemon starts again.
LEMMA RestartKeeps == ASSUME IInv, Restart PROVE IInv'
<1>1. TypeOK /\ LoopConsistent /\ DaemonConsistent /\ \A b \in Actions : OfAction(b)
  BY Parts
<1>2. TypeOK'
  <2>1. session' \in BOOLEAN
    BY Zenon DEF Restart
  <2>2. broker' \in [Actions -> Stages]
    BY DEF Restart, Stages
  <2>3. run' \in [phase : Phases, call : [Actions -> Calls]]
    BY <1>1 DEF Restart, TypeOK, Phases
  <2>4. poll' \in [at : {"idle", "provider", "tool", "reply"}, of : 0..N, view : {"none", "error", "over", "active"}]
    BY <1>1, NAssumption DEF Restart, TypeOK, Reply, Quiet
  <2>5. clicks' \subseteq Actions \X BOOLEAN /\ cancel' \in {"no", "asked", "replied"} /\ detach' \in {"no", "asked", "done"}
    BY <1>1 DEF Restart, TypeOK
  <2> QED BY <1>1, <2>1, <2>2, <2>3, <2>4, <2>5 DEF Restart, TypeOK, pageVars, screen
<1>3. /\ UNCHANGED <<given, loop, proposal, applied, approved, acted, answer>> /\ ~session' /\ clicks' = {}
      /\ run'.call = run.call /\ run'.phase = "lost" /\ poll'.at \in {"idle", "reply"}
      /\ \A b \in Actions : broker'[b] = "absent"
  BY <1>1 DEF Restart, pageVars, screen, TypeOK, Reply, Quiet
<1>4. LoopConsistent'
  BY <1>1, <1>3 DEF LoopConsistent, TypeOK
<1>5. DaemonConsistent'
  BY <1>1, <1>3 DEF DaemonConsistent
<1>6. ASSUME NEW b \in Actions PROVE OfAction(b)'
  <2>1. Decided(b)'
    BY <1>1, <1>3 DEF OfAction, Decided, Answers
  <2>2. Awaited(b)'
    BY <1>1, <1>3 DEF OfAction, Awaited, DaemonConsistent, Answers
  <2>3. Applied(b)'
    BY <1>1, <1>3 DEF OfAction, Applied, LoopConsistent, Answers
  <2>4. Proposed(b)'
    BY <1>1, <1>3 DEF OfAction, Proposed
  <2>5. /\ run'.call[b] = "succeeded" => answer'[b] = "succeeded" /\ acted'[b] = 1
        /\ run'.call[b] = "failed" /\ answer'[b] # "failed" => broker'[b] \in {"expired", "absent"}
    BY <1>1, <1>3 DEF OfAction, Applied, Awaited, LoopConsistent, Answers
  <2> QED BY <2>1, <2>2, <2>3, <2>4, <2>5 DEF OfAction
<1> QED BY <1>2, <1>4, <1>5, <1>6, PartsNext

\* The user decides an action in the panel.
LEMMA ClickKeeps == ASSUME IInv, NEW verdict \in BOOLEAN, Click(verdict) PROVE IInv'
<1>1. TypeOK /\ LoopConsistent /\ DaemonConsistent /\ \A b \in Actions : OfAction(b)
  BY Parts
<1>2. TypeOK'
  <2>1. proposal \in Actions
    BY <1>1, NAssumption DEF Click, TypeOK, LoopConsistent, Actions
  <2>2. clicks' \subseteq Actions \X BOOLEAN
    <3>1. <<proposal, verdict>> \in Actions \X BOOLEAN
      BY <2>1
    <3>2. clicks' = clicks \union {<<proposal, verdict>>}
      BY DEF Click
    <3> QED BY <1>1, <3>1, <3>2 DEF TypeOK
  <2>3. approved' \subseteq Actions
    BY <1>1, <2>1 DEF Click, TypeOK
  <2>4. proposal' \in 0..N
    BY NAssumption DEF Click
  <2> QED BY <1>1, <2>2, <2>3, <2>4 DEF Click, TypeOK, daemonVars
<1>3. /\ UNCHANGED <<session, broker, run, given, poll, loop, applied, acted, answer>>
      /\ proposal' = 0 /\ clicks' = clicks \union {<<proposal, verdict>>}
      /\ approved' = IF verdict THEN approved \union {proposal} ELSE approved
  BY DEF Click, daemonVars
<1>4. proposal <= given /\ 0 <= given /\ given <= N /\ approved \subseteq approved'
  BY <1>1, <1>3 DEF LoopConsistent, TypeOK
<1>5. LoopConsistent'
  BY <1>1, <1>3, <1>4 DEF LoopConsistent, TypeOK
<1>6. DaemonConsistent'
  BY <1>1, <1>3 DEF DaemonConsistent
<1>7. ASSUME NEW b \in Actions PROVE OfAction(b)'
  <2>1. Decided(b)'
    BY <1>1, <1>3, <1>4 DEF OfAction, Decided
  <2>2. Awaited(b)'
    BY <1>1, <1>3, <1>4 DEF OfAction, Awaited, DaemonConsistent, Answers
  <2>3. Applied(b)'
    BY <1>1, <1>3, <1>4 DEF OfAction, Applied, LoopConsistent, Answers
  <2>4. Proposed(b)'
    BY <1>1, <1>3, <1>4 DEF OfAction, Proposed
  <2>5. /\ run'.call[b] = "succeeded" => answer'[b] = "succeeded" /\ acted'[b] = 1
        /\ run'.call[b] = "failed" /\ answer'[b] # "failed" => broker'[b] \in {"expired", "absent"}
    BY <1>1, <1>3, <1>4 DEF OfAction, Applied, Awaited, LoopConsistent, Answers
  <2> QED BY <2>1, <2>2, <2>3, <2>4, <2>5 DEF OfAction
<1> QED BY <1>2, <1>5, <1>6, <1>7, PartsNext

\* The loop asks for the next action.
LEMMA LoopSeesKeeps == ASSUME IInv, LoopSees PROVE IInv'
<1>1. TypeOK /\ LoopConsistent /\ DaemonConsistent /\ \A b \in Actions : OfAction(b)
  BY Parts
<1>2. UNCHANGED <<session, broker, run, given, poll, clicks, approved, acted, answer>> /\ loop = Rest
  BY DEF LoopSees, daemonVars, requests, pageVars
<1>3. /\ proposal' = 0 \/ (proposal' \in Actions /\ broker[proposal'] = "awaiting")
      /\ \/ UNCHANGED <<loop, applied>>
         \/ \E a \in Actions : /\ broker[a] = "applying" /\ a \notin applied
                               /\ loop' = [Rest EXCEPT !.at = "applying", !.of = a] /\ applied' = applied \union {a}
  BY DEF LoopSees
<1>4. \/ UNCHANGED <<loop, applied>> /\ loop'.at = "idle"
      \/ \E a \in Actions \ applied :
            /\ loop'.at = "applying" /\ loop'.of = a /\ loop'.answer = "none" /\ broker[a] = "applying"
            /\ loop' \in [at : {"applying"}, of : Actions, answer : {"none"}] /\ applied' = applied \union {a}
  <2>1. CASE UNCHANGED <<loop, applied>>
    BY <1>2, <2>1 DEF Rest
  <2>2. ASSUME NEW a \in Actions, a \notin applied, broker[a] = "applying", applied' = applied \union {a},
               loop' = [Rest EXCEPT !.at = "applying", !.of = a]
        PROVE  \E b \in Actions \ applied :
                  /\ loop'.at = "applying" /\ loop'.of = b /\ loop'.answer = "none" /\ broker[b] = "applying"
                  /\ loop' \in [at : {"applying"}, of : Actions, answer : {"none"}] /\ applied' = applied \union {b}
    <3>1. loop' = [at |-> "applying", of |-> a, answer |-> "none"]
      BY <2>2 DEF Rest
    <3>2. /\ loop'.at = "applying" /\ loop'.of = a /\ loop'.answer = "none"
          /\ loop' \in [at : {"applying"}, of : Actions, answer : {"none"}]
      BY <3>1
    <3>3. a \in Actions \ applied
      BY <2>2
    <3> QED BY <2>2, <3>2, <3>3
  <2> QED BY <1>3, <2>1, <2>2
<1>5. ASSUME NEW b \in Actions PROVE (b \in applied' => b \in applied \/ broker[b] = "applying") /\ (b \in applied => b \in applied')
  BY <1>4
<1>6. TypeOK'
  <2>1. proposal' \in 0..N
    <3>1. proposal' = 0 \/ proposal' \in 1..N
      BY <1>3 DEF Actions
    <3> QED BY <3>1, NAssumption
  <2>2. loop' \in [at : {"idle", "applying", "reporting"}, of : 0..N, answer : Answers \union {"none"}]
    <3>1. Actions \subseteq 0..N
      BY NAssumption DEF Actions
    <3> QED BY <1>1, <1>4, <3>1 DEF TypeOK
  <2>3. applied' \subseteq Actions
    BY <1>1, <1>4 DEF TypeOK
  <2>4. UNCHANGED <<panel, own, active, cancel, detach>>
    BY DEF LoopSees, requests
  <2> QED BY <1>1, <1>2, <2>1, <2>2, <2>3, <2>4 DEF TypeOK
<1>7. LoopConsistent'
  <2>1. proposal' \in 0..given
    <3>1. ASSUME NEW a \in Actions, broker[a] = "awaiting" PROVE a \in 0..given
      BY <1>1, <3>1, NAssumption DEF OfAction, Proposed, Actions, TypeOK
    <3>2. 0 \in 0..given
      BY <1>1 DEF TypeOK
    <3> QED BY <1>3, <3>1, <3>2
  <2>2. loop'.at = "applying" => acted[loop'.of] = 0 /\ answer[loop'.of] = "none"
    BY <1>1, <1>4 DEF OfAction, Applied
  <2> QED BY <1>2, <1>4, <2>1, <2>2, Zenon DEF LoopConsistent
<1>8. DaemonConsistent'
  BY <1>1, <1>2 DEF DaemonConsistent
<1>9. ASSUME NEW b \in Actions PROVE OfAction(b)'
  <2>1. Decided(b)'
    BY <1>1, <1>2, <1>5 DEF OfAction, Decided
  <2>2. Awaited(b)'
    BY <1>1, <1>2, <1>5 DEF OfAction, Awaited, DaemonConsistent, Answers
  <2>3. Applied(b)'
    BY <1>1, <1>2, <1>5 DEF OfAction, Applied, LoopConsistent, Answers
  <2>4. Proposed(b)'
    BY <1>1, <1>2, <1>5 DEF OfAction, Proposed
  <2>5. /\ run'.call[b] = "succeeded" => answer'[b] = "succeeded" /\ acted'[b] = 1
        /\ run'.call[b] = "failed" /\ answer'[b] # "failed" => broker'[b] \in {"expired", "absent"}
    BY <1>1, <1>2, <1>5 DEF OfAction, Applied, Awaited, LoopConsistent, Answers
  <2> QED BY <2>1, <2>2, <2>3, <2>4, <2>5 DEF OfAction
<1> QED BY <1>6, <1>7, <1>8, <1>9, PartsNext

\* The page acts, or refuses to.
LEMMA PageAnswersKeeps == ASSUME IInv, PageAnswers PROVE IInv'
<1>1. TypeOK /\ LoopConsistent /\ DaemonConsistent /\ \A b \in Actions : OfAction(b)
  BY Parts
<1>2. PICK a \in Actions, outcome \in Answers, acts \in BOOLEAN :
        /\ a = loop.of /\ loop.at = "applying" /\ (outcome = "succeeded" => acts)
        /\ acted' = [acted EXCEPT ![a] = IF acts THEN @ + 1 ELSE @]
        /\ answer' = [answer EXCEPT ![a] = outcome]
        /\ loop' \in {[loop EXCEPT !.at = "reporting", !.answer = outcome], Rest}
  <2>1. loop.at = "applying" /\ loop.of \in Actions
    BY <1>1 DEF PageAnswers, LoopConsistent, TypeOK
  <2> QED BY <2>1 DEF PageAnswers
<1>3. UNCHANGED <<session, broker, run, given, poll, proposal, panel, own, clicks, cancel, detach, applied, approved>>
  BY DEF PageAnswers, daemonVars, requests
<1>4. /\ acted[a] = 0 /\ answer[a] = "none" /\ a \in applied /\ broker[a] \in {"applying", "expired", "absent"}
      /\ acted'[a] \in {0, 1} /\ (outcome = "succeeded" => acted'[a] = 1)
      /\ answer'[a] = outcome
      /\ \A b \in Actions \ {a} : acted'[b] = acted[b] /\ answer'[b] = answer[b]
      /\ run.call[a] # "succeeded" /\ broker[a] \notin Answers /\ (broker[a] = "applying" => run.call[a] # "failed")
  BY <1>1, <1>2 DEF LoopConsistent, TypeOK, OfAction, Awaited, Answers
<1>5. TypeOK'
  <2>1. acted' \in [Actions -> Nat] /\ answer' \in [Actions -> Answers \union {"none"}]
    BY <1>1, <1>2 DEF TypeOK
  <2>2. loop' \in [at : {"idle", "applying", "reporting"}, of : 0..N, answer : Answers \union {"none"}]
    <3>1. CASE loop' = Rest
      BY <3>1, NAssumption DEF Rest
    <3>2. CASE loop' = [loop EXCEPT !.at = "reporting", !.answer = outcome]
      BY <1>1, <1>2, <3>2 DEF TypeOK
    <3> QED BY <1>2, <3>1, <3>2
  <2>3. active' \in BOOLEAN
    BY Zenon DEF PageAnswers
  <2> QED BY <1>1, <1>3, <2>1, <2>2, <2>3 DEF TypeOK
<1>6. LoopConsistent'
  <2>1. loop'.at = "idle" \/ (loop'.at = "reporting" /\ loop'.of = a /\ loop'.answer = outcome)
    <3>1. CASE loop' = Rest
      BY <3>1 DEF Rest
    <3>2. CASE loop' = [loop EXCEPT !.at = "reporting", !.answer = outcome]
      BY <1>1, <1>2, <3>2 DEF TypeOK
    <3> QED BY <1>2, <3>1, <3>2
  <2> QED BY <1>1, <1>2, <1>3, <1>4, <2>1 DEF LoopConsistent
<1>7. DaemonConsistent'
  BY <1>1, <1>3 DEF DaemonConsistent
<1>8. ASSUME NEW b \in Actions PROVE OfAction(b)'
  <2>1. CASE b = a
    <3>1. Decided(b)' /\ Awaited(b)' /\ Proposed(b)'
      BY <1>1, <1>3 DEF OfAction, Decided, Awaited, Proposed
    <3>2. Applied(b)'
      BY <1>2, <1>3, <1>4, <2>1 DEF Applied
    <3> QED BY <1>3, <1>4, <2>1, <3>1, <3>2 DEF OfAction
  <2>2. CASE b # a
    <3>1. acted'[b] = acted[b] /\ answer'[b] = answer[b]
      BY <1>4, <2>2
    <3>2. Decided(b)' /\ Awaited(b)' /\ Proposed(b)'
      BY <1>1, <1>3 DEF OfAction, Decided, Awaited, Proposed
    <3>3. Applied(b)'
      BY <1>1, <1>3, <3>1 DEF OfAction, Applied
    <3> QED BY <1>1, <1>3, <3>1, <3>2, <3>3 DEF OfAction
  <2> QED BY <2>1, <2>2
<1> QED BY <1>5, <1>6, <1>7, <1>8, PartsNext

\* An approval reaches the daemon.
LEMMA ApproveArrivesKeeps == ASSUME IInv, NEW a \in Actions, ApproveArrives(a) PROVE IInv'
<1>1. TypeOK /\ LoopConsistent /\ DaemonConsistent /\ \A b \in Actions : OfAction(b)
  BY Parts
<1>2. /\ broker[a] = "awaiting" /\ broker'[a] = "applying" /\ session /\ <<a, TRUE>> \in clicks
      /\ clicks' \subseteq clicks /\ \A b \in Actions \ {a} : broker'[b] = broker[b]
      /\ UNCHANGED <<session, given, poll, loop, proposal, applied, approved, acted, answer>>
  BY <1>1 DEF ApproveArrives, Decidable, TypeOK, pageVars
<1>3. /\ run.call[a] \in {"pending", "dropped", "none"} /\ run.phase # "lost" /\ run'.phase # "lost"
      /\ run'.call[a] \in {run.call[a], "approved"} 
      /\ \A b \in Actions \ {a} : run'.call[b] = run.call[b]
      /\ run.phase = "over" => run'.phase = "over"
  <2>1. run.call[a] \in {"pending", "dropped", "none"} /\ run.phase # "lost"
    BY <1>1, <1>2 DEF OfAction, Decided, DaemonConsistent
  <2>2. run.call[a] = "none" => run.phase = "over"
    BY <1>1, <1>2 DEF OfAction, Decided
  <2> QED BY <1>1, <2>1, <2>2 DEF ApproveArrives, SetPhase, TypeOK
<1>4. TypeOK'
  <2>1. broker' \in [Actions -> Stages] /\ clicks' \subseteq Actions \X BOOLEAN
    BY <1>1 DEF ApproveArrives, TypeOK, Stages
  <2>2. run' \in [phase : Phases, call : [Actions -> Calls]]
    BY <1>1 DEF ApproveArrives, SetPhase, TypeOK, Phases, Calls, Terminal
  <2>3. active' \in BOOLEAN
    BY Zenon DEF ApproveArrives
  <2>4. UNCHANGED <<panel, own, cancel, detach>>
    BY DEF ApproveArrives
  <2> QED BY <1>1, <1>2, <2>1, <2>2, <2>3, <2>4 DEF TypeOK
<1>5. LoopConsistent'
  <2>1. loop.at = "applying" => loop.of \in Actions /\ loop.of # a
    BY <1>1, <1>2 DEF LoopConsistent, TypeOK
  <2> QED BY <1>1, <1>2, <2>1 DEF LoopConsistent
<1>6. DaemonConsistent'
  <2>1. poll.at = "tool" => poll.of \in Actions /\ poll.of # a
    BY <1>1, <1>3 DEF DaemonConsistent
  <2> QED BY <1>1, <1>2, <1>3, <2>1 DEF DaemonConsistent
<1>7. ASSUME NEW b \in Actions PROVE OfAction(b)'
  <2>1. CASE b = a
    <3>1. Decided(b)'
      BY <1>1, <1>2, <1>3, <2>1 DEF OfAction, Decided
    <3>2. Awaited(b)'
      BY <1>2, <1>3, <2>1 DEF Awaited, Answers
    <3>3. Applied(b)'
      BY <1>1, <1>2, <2>1 DEF OfAction, Applied, Answers
    <3>4. Proposed(b)'
      BY <1>1, <1>2, <1>3, <2>1 DEF OfAction, Proposed
    <3> QED BY <1>2, <1>3, <2>1, <3>1, <3>2, <3>3, <3>4 DEF OfAction
  <2>2. CASE b # a
    <3>1. broker'[b] = broker[b] /\ run'.call[b] = run.call[b]
      BY <1>2, <1>3, <2>2
    <3>2. Decided(b)' /\ Awaited(b)'
      <4>1. Decided(b)'
        BY <1>1, <1>2, <1>3, <3>1 DEF OfAction, Decided
      <4>2. Awaited(b)'
        BY <1>1, <1>2, <1>3, <3>1 DEF OfAction, Awaited
      <4> QED BY <4>1, <4>2
    <3>3. Applied(b)' /\ Proposed(b)'
      BY <1>1, <1>2, <3>1 DEF OfAction, Applied, Proposed
    <3> QED BY <1>1, <1>2, <3>1, <3>2, <3>3 DEF OfAction
  <2> QED BY <2>1, <2>2
<1> QED BY <1>4, <1>5, <1>6, <1>7, PartsNext

\* A rejection reaches the daemon.
LEMMA RejectArrivesKeeps == ASSUME IInv, NEW a \in Actions, RejectArrives(a) PROVE IInv'
<1>1. TypeOK /\ LoopConsistent /\ DaemonConsistent /\ \A b \in Actions : OfAction(b)
  BY Parts
<1>2. /\ broker[a] = "awaiting" /\ broker'[a] = "rejected" /\ session
      /\ clicks' \subseteq clicks /\ \A b \in Actions \ {a} : broker'[b] = broker[b]
      /\ UNCHANGED <<session, given, poll, loop, proposal, applied, approved, acted, answer>>
  BY <1>1 DEF RejectArrives, Decidable, TypeOK, pageVars, screen
<1>3. /\ run.call[a] \in {"pending", "dropped", "none"} /\ run.phase # "lost"
      /\ run'.phase # "lost" /\ run'.call = run.call /\ run'.phase \in Phases
      /\ run.phase = "over" => run'.phase = "over"
  <2>1. run.call[a] \in {"pending", "dropped", "none"} /\ run.phase # "lost"
    BY <1>1, <1>2 DEF OfAction, Decided, DaemonConsistent
  <2> QED BY <1>1, <2>1 DEF RejectArrives, CancelRun, SetPhase, TypeOK, Terminal
<1>4. TypeOK'
  <2>1. broker' \in [Actions -> Stages] /\ clicks' \subseteq Actions \X BOOLEAN
    BY <1>1 DEF RejectArrives, TypeOK, Stages
  <2>2. run' \in [phase : Phases, call : [Actions -> Calls]]
    BY <1>1 DEF RejectArrives, SetPhase, TypeOK
  <2>3. UNCHANGED <<panel, own, active, cancel, detach>>
    BY DEF RejectArrives, screen
  <2> QED BY <1>1, <1>2, <2>1, <2>2, <2>3 DEF TypeOK
<1>5. LoopConsistent'
  <2>1. loop.at = "applying" => loop.of \in Actions /\ loop.of # a
    BY <1>1, <1>2 DEF LoopConsistent, TypeOK
  <2> QED BY <1>1, <1>2, <2>1 DEF LoopConsistent
<1>6. DaemonConsistent'
  <2>1. poll.at = "tool" => poll.of \in Actions /\ poll.of # a
    BY <1>1, <1>3 DEF DaemonConsistent
  <2> QED BY <1>1, <1>2, <1>3, <2>1 DEF DaemonConsistent
<1>7. ASSUME NEW b \in Actions PROVE OfAction(b)'
  <2>1. CASE b = a
    <3>1. Decided(b)'
      BY <1>1, <1>2, <1>3, <2>1 DEF OfAction, Decided, Answers
    <3>2. Awaited(b)'
      BY <1>2, <1>3, <2>1 DEF Awaited, Answers
    <3>3. Applied(b)'
      BY <1>1, <1>2, <2>1 DEF OfAction, Applied, Answers
    <3>4. Proposed(b)'
      BY <1>1, <1>2, <1>3, <2>1 DEF OfAction, Proposed
    <3> QED BY <1>2, <1>3, <2>1, <3>1, <3>2, <3>3, <3>4 DEF OfAction
  <2>2. CASE b # a
    <3>1. broker'[b] = broker[b] /\ run'.call[b] = run.call[b]
      BY <1>2, <1>3, <2>2
    <3>2. Decided(b)' /\ Awaited(b)'
      <4>1. Decided(b)'
        BY <1>1, <1>2, <1>3, <3>1 DEF OfAction, Decided
      <4>2. Awaited(b)'
        BY <1>1, <1>2, <1>3, <3>1 DEF OfAction, Awaited
      <4> QED BY <4>1, <4>2
    <3>3. Applied(b)' /\ Proposed(b)'
      BY <1>1, <1>2, <3>1 DEF OfAction, Applied, Proposed
    <3> QED BY <1>1, <1>2, <3>1, <3>2, <3>3 DEF OfAction
  <2> QED BY <2>1, <2>2
<1> QED BY <1>4, <1>5, <1>6, <1>7, PartsNext

-----------------------------------------------------------------------------
(* The theorems.                                                           *)
\* What the panel starts with satisfies the invariant.
LEMMA InitIInv == Init => IInv
<1> SUFFICES ASSUME Init PROVE IInv
  OBVIOUS
<1>1. TypeOK
  <2>1. session \in BOOLEAN /\ own \in BOOLEAN /\ active \in BOOLEAN
    BY Zenon DEF Init
  <2>2. broker \in [Actions -> Stages] /\ given \in 0..N /\ 0 \in 0..N
    BY NAssumption DEF Init, Stages
  <2>3. run \in [phase : Phases, call : [Actions -> Calls]]
    BY DEF Init, Phases, Calls
  <2> QED BY <2>1, <2>2, <2>3 DEF Init, TypeOK, Quiet, Rest
<1>2. LoopConsistent /\ DaemonConsistent
  BY NAssumption DEF Init, LoopConsistent, DaemonConsistent, Rest, Quiet
<1>3. ASSUME NEW a \in Actions PROVE OfAction(a)
  <2>1. ~(a <= given)
    BY NAssumption DEF Init, Actions
  <2>2. /\ broker[a] = "absent" /\ run.call[a] = "none" /\ clicks = {} /\ applied = {} /\ approved = {}
        /\ acted[a] = 0 /\ answer[a] = "none"
    BY DEF Init
  <2> QED BY <2>1, <2>2 DEF OfAction, Decided, Awaited, Applied, Proposed, Answers
<1> QED BY <1>1, <1>2, <1>3, Parts

\* Every step preserves the invariant, one lemma for each action.
LEMMA NextIInv == IInv /\ [Next]_vars => IInv'
<1> SUFFICES ASSUME IInv, [Next]_vars PROVE IInv'
  OBVIOUS
<1>1. CASE Polling
  BY <1>1, PollBeginsKeeps, ProviderTellsKeeps, ProviderProposesKeeps, ExecuteKeeps, PollEndsKeeps DEF Polling
<1>2. CASE Expire
  BY <1>2, ExpireKeeps
<1>3. CASE Looping
  BY <1>3, LoopSeesKeeps, LoopFailsKeeps, PageAnswersKeeps, ReportAcceptedKeeps, ReportLostKeeps DEF Looping
<1>4. CASE Requests
  BY <1>4, ApproveArrivesKeeps, RejectArrivesKeeps, DecisionRefusedKeeps, CancelArrivesKeeps, CancelEndsKeeps,
     DetachArrivesKeeps DEF Requests
<1>5. CASE User
  BY <1>5, ClickKeeps, CancelClickedKeeps, ReattachKeeps, PanelClosesKeeps DEF User
<1>6. CASE Restart
  BY <1>6, RestartKeeps
<1>7. CASE UNCHANGED vars
  <2>1. UNCHANGED <<daemonVars, applied, pageVars>> /\ clicks' = clicks /\ loop' = loop /\ proposal' = proposal /\ poll' = poll
    BY <1>7 DEF vars, panelVars, screen, requests
  <2>2. TypeOK'
    BY <1>7, Parts DEF vars, daemonVars, panelVars, pageVars, screen, requests, TypeOK
  <2> QED BY <2>1, <2>2, PanelStep
<1> QED BY <1>1, <1>2, <1>3, <1>4, <1>5, <1>6, <1>7 DEF Next

\* The invariant holds of every reachable state.
LEMMA Inductive == Spec => []IInv
  BY InitIInv, NextIInv, PTL DEF Spec

\* Broker, run, panel and page agree about every action in every reachable state, however the panel's
\* requests, its two loops, deadlines and restarts overtake one another.
THEOREM BrokerStaysConsistent == Spec => []BrokerConsistent
<1>1. IInv => BrokerConsistent
  BY DEF IInv
<1> QED BY <1>1, Inductive, PTL

\* In every reachable state the run was told of each action it executed what the page answered, unless the
\* deadline passed first or the session was gone.  A dropped call executes nothing and is not among these.
THEOREM ToldTheTruth == Spec => []RunToldTruth
<1>1. IInv => RunToldTruth
  BY DEF IInv
<1> QED BY <1>1, Inductive, PTL

\* No step lets the page act twice for an action, or for one the user did not approve.
THEOREM ActsOnce == Spec => ActsOnceApproved
<1>1. ASSUME IInv, [Next]_vars, NEW a \in Actions, acted'[a] # acted[a]
      PROVE  acted[a] = 0 /\ a \in approved
  <2>1. TypeOK /\ LoopConsistent /\ \A b \in Actions : OfAction(b)
    BY <1>1, Parts
  <2>2. CASE PageAnswers
    <3>1. loop.at = "applying" /\ a = loop.of
      BY <1>1, <2>1, <2>2 DEF PageAnswers, TypeOK
    <3> QED BY <2>1, <3>1 DEF LoopConsistent, OfAction, Decided
  <2>3. CASE UNCHANGED acted
    BY <1>1, <2>3
  <2>4. PageAnswers \/ UNCHANGED acted
    BY <1>1 DEF Next, vars, pageVars, Polling, Looping, Requests, User, PollBegins, ProviderTells, ProviderProposes,
       Execute, PollEnds, Expire, LoopSees, LoopFails, ReportAccepted, ReportLost, ApproveArrives, RejectArrives,
       DecisionRefused, CancelArrives, CancelEnds, DetachArrives, Click, CancelClicked, Reattach, PanelCloses, Restart
  <2> QED BY <2>2, <2>3, <2>4
<1>2. IInv /\ [Next]_vars => [\A a \in Actions : acted'[a] # acted[a] => acted[a] = 0 /\ a \in approved]_vars
  BY <1>1
<1> QED BY <1>2, Inductive, PTL DEF Spec, ActsOnceApproved
=============================================================================
