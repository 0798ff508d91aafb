--------------------------- MODULE ProviderTurnsProofs ---------------------------
(***************************************************************************)
(* Proofs that the turns of a daemon stay apart and keep their prompts,    *)
(* for any number of requests, bundles, attachments and waiting starts.    *)
(*                                                                         *)
(* A turn is created over a bundle that has no row, and a bundle with a    *)
(* turn always has one; so a new turn shares neither job nor map entry     *)
(* with an older one, and what is in the map for the older one is only     *)
(* ever overwritten by a start that is refused.                            *)
(***************************************************************************)
EXTENDS ProviderTurns, TLAPS

\* A turn's job is in the table.
TurnsHaveRows == \A t \in turns : row[t.bundle].status # "absent"

\* Nothing was executed or sent for a job that does not exist.
UnusedJobs == \A b \in Bundles : row[b].status = "absent" => memory[b] = Nothing /\ sent[b] = Nothing

\* Wherever the prompt of a turn is kept, it is the one the turn was accepted with.
PromptsKept ==
    \A t \in turns : t.bundle \notin replaced =>
        /\ row[t.bundle].text \in {Marker, t.request}
        /\ row[t.bundle].text = Marker => payload[t.bundle].request = t.request
        /\ memory[t.bundle] \in {Nothing, t.request}
        /\ sent[t.bundle] \in {Nothing, t.request}

IInv == TypeOK /\ OneTurn /\ TurnsHaveRows /\ UnusedJobs /\ PromptsKept /\ PayloadAvailable

-----------------------------------------------------------------------------
\* A call and a new row are well typed.
LEMMA CallTypes ==
    ASSUME NEW c \in Calls
    PROVE  c.request \in Requests /\ c.bundle \in Bundles /\ c.files \subseteq Files /\ c.ephemeral \in BOOLEAN
  BY DEF Calls

LEMMA NoRowTyped == NoRow \in Rows /\ NoRow.status = "absent"
  BY DEF NoRow, Rows, Statuses, Active

\* A step that moves a job to another status, or records its submission, keeps the rows' type.
LEMMA RowTyped ==
    ASSUME TypeOK, NEW b \in Bundles, NEW s \in Statuses
    PROVE  /\ [row EXCEPT ![b].status = s] \in [Bundles -> Rows]
           /\ [row EXCEPT ![b].submitted = TRUE] \in [Bundles -> Rows]
<1>1. row \in [Bundles -> Rows] /\ row[b] \in Rows
  BY DEF TypeOK
<1>2. [row[b] EXCEPT !.status = s] \in Rows /\ [row[b] EXCEPT !.submitted = TRUE] \in Rows
  BY <1>1 DEF Rows
<1> QED BY <1>1, <1>2

\* The three opaque texts differ from each other and from every prompt.
LEMMA TextsDiffer ==
    /\ Nothing # Marker /\ Nothing # Redacted /\ Marker # Redacted
    /\ Nothing \notin Requests /\ Marker \notin Requests
  BY NothingAssumption DEF Nothing, Marker, Redacted

\* Accepting or refusing a start keeps the types.
LEMMA StartTyped ==
    ASSUME TypeOK, NEW c \in Calls, NEW plan \in BOOLEAN, Accept(c, plan) \/ Refuse(c), calls' \subseteq Calls
    PROVE  TypeOK'
<1> USE CallTypes
<1>1. payload' \in [Bundles -> Payloads]
  BY DEF TypeOK, Accept, Refuse, Remember, Payloads
<1>2. CASE Accept(c, plan)
  <2>1. row' \in [Bundles -> Rows]
    BY <1>2, NoRowTyped DEF TypeOK, Accept, Rows, NoRow, Statuses, Active
  <2>2. staged' \subseteq Attachments
    <3>1. \A s \in staged : s \in Attachments /\ [s EXCEPT !.turn = c.request] \in Attachments
      BY DEF TypeOK, Attachments
    <3> QED BY <1>2, <3>1 DEF Accept
  <2> QED BY <1>1, <1>2, <2>1, <2>2 DEF TypeOK, Accept
<1>3. CASE Refuse(c)
  BY <1>1, <1>3 DEF TypeOK, Refuse
<1> QED BY <1>2, <1>3

\* TypeOK is inductive.
LEMMA TypesKept ==
    ASSUME TypeOK, [Next]_vars
    PROVE  TypeOK'
<1>1. ASSUME NEW f \in Files, NEW b \in Bundles, NEW e \in BOOLEAN, StageBegins(f, b, e) PROVE TypeOK'
  BY <1>1 DEF TypeOK, StageBegins, historyVars, Attachments
<1>2. ASSUME NEW u \in uploads, StageEnds(u) \/ StageFails(u) PROVE TypeOK'
  <2>1. u \in Attachments /\ u.file \in Files
    BY DEF TypeOK, Attachments
  <2> QED BY <1>2, <2>1 DEF TypeOK, StageEnds, StageFails, historyVars
<1>3. ASSUME NEW c \in Calls, Start(c) PROVE TypeOK'
  BY <1>3, StartTyped DEF Start, TypeOK
<1>4. ASSUME NEW c \in Calls, StartBegins(c) PROVE TypeOK'
  BY <1>4 DEF TypeOK, StartBegins, historyVars
<1>5. ASSUME NEW c \in calls, StartEnds(c) PROVE TypeOK'
  <2>1. c \in Calls /\ calls' \subseteq Calls
    BY <1>5 DEF TypeOK, StartEnds
  <2>2. CASE (\E plan \in BOOLEAN : Accept(c, plan)) \/ Refuse(c)
    BY <2>1, <2>2, StartTyped
  <2>3. CASE UNCHANGED <<uploads, staged, turns, bytes, row, payload, memory, historyVars>>
    BY <2>1, <2>3 DEF TypeOK, historyVars
  <2> QED BY <1>5, <2>2, <2>3 DEF StartEnds
<1>6. ASSUME NEW b \in Bundles, Take(b) PROVE TypeOK'
  <2>1. row[b] \in Rows /\ payload[b] \in Payloads
    BY DEF TypeOK
  <2>2. row' \in [Bundles -> Rows]
    BY <1>6, RowTyped DEF Take, Statuses, Active
  <2>3. (IF row[b].text = Marker THEN payload[b].request ELSE row[b].text) \in Requests \union {Nothing}
    BY <2>1 DEF Rows, Payloads
  <2> QED BY <1>6, <2>2, <2>3 DEF TypeOK, Take, clientVars, historyVars
<1>7. ASSUME NEW b \in Bundles, Fallback(b) PROVE TypeOK'
  <2>1. memory[b] \in Requests \union {Nothing}
    BY DEF TypeOK
  <2>2. row' \in [Bundles -> Rows]
    <3>1. PICK more \in BOOLEAN : row' = [row EXCEPT ![b].text = memory[b], ![b].plan = more]
      BY <1>7 DEF Fallback
    <3>2. row \in [Bundles -> Rows] /\ row[b] \in Rows
      BY DEF TypeOK
    <3>3. [row[b] EXCEPT !.text = memory[b], !.plan = more] \in Rows
      BY <2>1, <3>2 DEF Rows
    <3>4. row' = [row EXCEPT ![b] = [row[b] EXCEPT !.text = memory[b], !.plan = more]]
      BY <3>1, <3>2
    <3> QED BY <3>2, <3>3, <3>4
  <2> QED BY <1>7, <2>2 DEF TypeOK, Fallback, clientVars
<1>8. ASSUME NEW b \in Bundles, Submit(b) PROVE TypeOK'
  <2>1. row' \in [Bundles -> Rows]
    BY <1>8, RowTyped DEF Submit, Statuses
  <2> QED BY <1>8, <2>1 DEF TypeOK, Submit, clientVars
<1>9. ASSUME NEW b \in Bundles, Succeed(b) PROVE TypeOK'
  <2>1. sent[b] \in Requests \union {Nothing}
    BY DEF TypeOK
  <2>2. row' \in [Bundles -> Rows]
    <3> DEFINE kept == IF payload[b].request = Nothing THEN sent[b] ELSE Redacted
               over == [row[b] EXCEPT !.status = "succeeded", !.result = kept]
    <3>1. row \in [Bundles -> Rows] /\ row[b] \in Rows /\ kept \in Requests \union {Nothing, Redacted}
      BY <2>1 DEF TypeOK
    <3>2. over \in Rows
      BY <3>1 DEF Rows, Statuses, Active
    <3>3. row' = [row EXCEPT ![b] = over]
      BY <1>9, <3>1 DEF Succeed
    <3> QED BY <3>1, <3>2, <3>3
  <2>3. payload' \in [Bundles -> Payloads]
    BY <1>9, <2>1 DEF TypeOK, Succeed, Payloads
  <2> QED BY <1>9, <2>2, <2>3 DEF TypeOK, Succeed, clientVars, historyVars
<1>10. ASSUME NEW b \in Bundles, Fail(b) PROVE TypeOK'
  <2>1. row' \in [Bundles -> Rows]
    BY <1>10, RowTyped DEF Fail, Statuses
  <2> QED BY <1>10, <2>1 DEF TypeOK, Fail, clientVars, historyVars
<1>11. ASSUME NEW b \in Bundles, GiveUp(b) PROVE TypeOK'
  <2>1. payload' \in [Bundles -> Payloads]
    BY <1>11 DEF TypeOK, GiveUp, Payloads
  <2> QED BY <1>11, <2>1 DEF TypeOK, GiveUp, clientVars, historyVars
<1>12. ASSUME NEW b \in Bundles, CancelJob(b) PROVE TypeOK'
  <2>1. row' \in [Bundles -> Rows]
    BY <1>12, RowTyped DEF CancelJob, Statuses
  <2> QED BY <1>12, <2>1 DEF TypeOK, CancelJob, clientVars, historyVars
<1>13. ASSUME NEW t \in turns, Cancel(t) PROVE TypeOK'
  <2>1. t.bundle \in Bundles
    BY CallTypes DEF TypeOK
  <2>2. row' \in [Bundles -> Rows]
    <3>1. row' = [row EXCEPT ![t.bundle].status = "canceled"] \/ row' = row
      BY <1>13 DEF Cancel
    <3>2. [row EXCEPT ![t.bundle].status = "canceled"] \in [Bundles -> Rows]
      BY <2>1, RowTyped DEF Statuses
    <3> QED BY <3>1, <3>2 DEF TypeOK
  <2>3. bytes' \subseteq Files
    BY <1>13 DEF TypeOK, Cancel
  <2> QED BY <1>13, <2>2, <2>3 DEF TypeOK, Cancel, clientVars, historyVars
<1>14. CASE Restart
  <2>1. row' \in [Bundles -> Rows]
    <3>1. \A b \in Bundles : row[b] \in Rows /\ [row[b] EXCEPT !.status = "failed"] \in Rows
      BY DEF TypeOK, Rows, Statuses, Active
    <3> QED BY <1>14, <3>1 DEF Restart
  <2> QED BY <1>14, <2>1 DEF TypeOK, Restart, NoPayload, Payloads
<1>15. CASE UNCHANGED vars
  BY <1>15 DEF TypeOK, vars, clientVars, historyVars
<1> QED
  BY <1>1, <1>2, <1>3, <1>4, <1>5, <1>6, <1>7, <1>8, <1>9, <1>10, <1>11, <1>12, <1>13, <1>14, <1>15 DEF Next

-----------------------------------------------------------------------------
(* The inductive step, one lemma for the starts and one for the rest.      *)

\* A start that is accepted or refused keeps the turns apart and their prompts in place.
LEMMA StartKeeps ==
    ASSUME IInv, NEW c \in Calls, NEW plan \in BOOLEAN, Accept(c, plan) \/ Refuse(c)
    PROVE  (OneTurn /\ TurnsHaveRows /\ UnusedJobs /\ PromptsKept /\ PayloadAvailable)'
<1> DEFINE b == c.bundle
<1> USE CallTypes, TextsDiffer
<1>1. b \in Bundles /\ (\A t \in turns : t.bundle \in Bundles)
  BY DEF IInv, TypeOK
<1>2. CASE Accept(c, plan)
  <2>1. row[b] = NoRow /\ row[b].status = "absent" /\ memory[b] = Nothing /\ sent[b] = Nothing
    BY <1>1, <1>2, NoRowTyped DEF IInv, UnusedJobs, Accept, Accepted
  <2>2. \A t \in turns : t.bundle # b /\ t.request # c.request
    BY <1>2, <2>1 DEF IInv, TurnsHaveRows, Accept, Accepted
  <2>3. /\ row'[b].status = "queued"
        /\ row'[b].text = IF c.ephemeral THEN Marker ELSE c.request
        /\ c.ephemeral => payload'[b].request = c.request
    BY <1>1, <1>2, NoRowTyped DEF IInv, TypeOK, Accept, Remember, NoRow
  <2>4. \A d \in Bundles : d # b => row'[d] = row[d] /\ payload'[d] = payload[d]
    BY <1>1, <1>2 DEF IInv, TypeOK, Accept, Remember
  <2>5. turns' = turns \union {c} /\ replaced' = replaced \ {b} /\ memory' = memory /\ sent' = sent
    BY <1>2 DEF Accept
  <2>6. OneTurn'
    BY <2>2, <2>5 DEF IInv, OneTurn
  <2>7. TurnsHaveRows'
    BY <1>1, <2>2, <2>3, <2>4, <2>5 DEF IInv, TurnsHaveRows
  <2>8. UnusedJobs'
    BY <2>3, <2>4, <2>5 DEF IInv, UnusedJobs
  <2>9. PromptsKept'
    <3>1. ASSUME NEW t \in turns', t.bundle \notin replaced'
          PROVE  /\ row'[t.bundle].text \in {Marker, t.request}
                 /\ row'[t.bundle].text = Marker => payload'[t.bundle].request = t.request
                 /\ memory'[t.bundle] \in {Nothing, t.request}
                 /\ sent'[t.bundle] \in {Nothing, t.request}
      <4>1. CASE t = c
        BY <2>1, <2>3, <2>5, <4>1
      <4>2. CASE t # c
        <5>1. t \in turns /\ t.bundle \in Bundles /\ t.bundle # b /\ t.bundle \notin replaced
          BY <1>1, <2>2, <2>5, <3>1, <4>2
        <5> QED BY <2>4, <2>5, <5>1 DEF IInv, PromptsKept
      <4> QED BY <4>1, <4>2
    <3> QED BY <3>1 DEF PromptsKept
  <2>10. PayloadAvailable'
    <3>1. ASSUME NEW d \in Bundles, row'[d].status \in Active, row'[d].text = Marker
          PROVE  payload'[d].request # Nothing
      <4>1. CASE d = b
        BY <2>3, <3>1, <4>1
      <4>2. CASE d # b
        BY <2>4, <3>1, <4>2 DEF IInv, PayloadAvailable
      <4> QED BY <4>1, <4>2
    <3> QED BY <3>1 DEF PayloadAvailable
  <2> QED BY <2>6, <2>7, <2>8, <2>9, <2>10
<1>3. CASE Refuse(c)
  <2>1. UNCHANGED <<turns, row, memory, sent>>
    BY <1>3 DEF Refuse
  <2>2. \A d \in Bundles : payload'[d] = payload[d] \/ (d = b /\ c.ephemeral /\ payload'[d].request = c.request)
    BY <1>1, <1>3 DEF IInv, TypeOK, Refuse, Remember
  <2>3. \A d \in Bundles : d \notin replaced' => d \notin replaced /\ payload'[d] = payload[d]
    BY <1>1, <1>3, <2>2 DEF Refuse, Remember
  <2>4. OneTurn' /\ TurnsHaveRows' /\ UnusedJobs'
    BY <2>1 DEF IInv, OneTurn, TurnsHaveRows, UnusedJobs
  <2>5. PromptsKept'
    BY <1>1, <2>1, <2>3 DEF IInv, PromptsKept
  <2>6. PayloadAvailable'
    BY <2>1, <2>2 DEF IInv, PayloadAvailable
  <2> QED BY <2>4, <2>5, <2>6
<1> QED BY <1>2, <1>3

\* A step that keeps the turns keeps them apart, and what it does to one job is judged
\* alone: its row stays there, and its prompts keep their places or leave them.
LEMMA JobStepKeeps ==
    ASSUME IInv, UNCHANGED <<turns, replaced>>,
           \A b \in Bundles :
               /\ row'[b].status = "absent" => row[b].status = "absent"
               /\ row[b].status = "absent" => memory'[b] = memory[b] /\ sent'[b] = sent[b]
               /\ payload'[b].request = payload[b].request
               /\ row'[b].status \in Active => row[b].status \in Active
               /\ row'[b].text = row[b].text \/ (row'[b].text = memory[b] /\ memory[b] # Nothing)
               /\ \/ memory'[b] \in {Nothing, memory[b]}
                  \/ memory'[b] = IF row[b].text = Marker THEN payload[b].request ELSE row[b].text
               /\ sent'[b] \in {sent[b], memory[b]}
    PROVE  (OneTurn /\ TurnsHaveRows /\ UnusedJobs /\ PromptsKept /\ PayloadAvailable)'
<1> USE TextsDiffer
<1>1. \A t \in turns : t.bundle \in Bundles /\ t.request \in Requests
  BY CallTypes DEF IInv, TypeOK
<1>2. \A b \in Bundles : memory[b] # Marker
  BY DEF IInv, TypeOK
<1>3. OneTurn'
  BY DEF IInv, OneTurn
<1>4. TurnsHaveRows'
  BY <1>1 DEF IInv, TurnsHaveRows
<1>5. UnusedJobs'
  BY DEF IInv, UnusedJobs
<1>6. PromptsKept'
  <2>1. ASSUME NEW t \in turns, t.bundle \notin replaced
        PROVE  /\ row'[t.bundle].text \in {Marker, t.request}
               /\ row'[t.bundle].text = Marker => payload'[t.bundle].request = t.request
               /\ memory'[t.bundle] \in {Nothing, t.request}
               /\ sent'[t.bundle] \in {Nothing, t.request}
    <3>1. /\ row[t.bundle].text \in {Marker, t.request}
          /\ row[t.bundle].text = Marker => payload[t.bundle].request = t.request
          /\ memory[t.bundle] \in {Nothing, t.request}
          /\ sent[t.bundle] \in {Nothing, t.request}
      BY <2>1 DEF IInv, PromptsKept
    <3> QED BY <1>1, <1>2, <3>1
  <2> QED BY <2>1 DEF PromptsKept
<1>7. PayloadAvailable'
  BY <1>2 DEF IInv, PayloadAvailable
<1> QED BY <1>3, <1>4, <1>5, <1>6, <1>7

\* IInv is inductive.
LEMMA TurnsKept ==
    ASSUME IInv, [Next]_vars
    PROVE  IInv'
<1> DEFINE Goal == (OneTurn /\ TurnsHaveRows /\ UnusedJobs /\ PromptsKept /\ PayloadAvailable)'
<1>0. TypeOK'
  BY TypesKept DEF IInv
<1>1. ASSUME UNCHANGED <<turns, row, payload, memory, sent, replaced>> PROVE Goal
  BY <1>1 DEF IInv, OneTurn, TurnsHaveRows, UnusedJobs, PromptsKept, PayloadAvailable
<1>2. ASSUME NEW f \in Files, NEW b \in Bundles, NEW e \in BOOLEAN, StageBegins(f, b, e) PROVE Goal
  BY <1>1, <1>2 DEF StageBegins, historyVars
<1>3. ASSUME NEW u \in uploads, StageEnds(u) \/ StageFails(u) PROVE Goal
  BY <1>1, <1>3 DEF StageEnds, StageFails, historyVars
<1>4. ASSUME NEW c \in Calls, Start(c) \/ StartBegins(c) PROVE Goal
  BY <1>1, <1>4, StartKeeps DEF Start, StartBegins, historyVars
<1>5. ASSUME NEW c \in calls, StartEnds(c) PROVE Goal
  <2>1. c \in Calls
    BY DEF IInv, TypeOK
  <2> QED BY <1>1, <1>5, <2>1, StartKeeps DEF StartEnds, historyVars
<1>6. ASSUME NEW b \in Bundles, Take(b) PROVE Goal
  BY <1>6, JobStepKeeps DEF IInv, TypeOK, Take, Rows, Active, clientVars, historyVars
<1>7. ASSUME NEW b \in Bundles, Fallback(b) PROVE Goal
  BY <1>7, JobStepKeeps DEF IInv, TypeOK, Fallback, Executing, Rows, Active, clientVars
<1>8. ASSUME NEW b \in Bundles, Submit(b) PROVE Goal
  BY <1>8, JobStepKeeps DEF IInv, TypeOK, Submit, Rows, Active, clientVars
<1>9. ASSUME NEW b \in Bundles, Succeed(b) PROVE Goal
  BY <1>9, JobStepKeeps DEF IInv, TypeOK, Succeed, Rows, Payloads, Active, clientVars, historyVars
<1>10. ASSUME NEW b \in Bundles, Fail(b) PROVE Goal
  BY <1>10, JobStepKeeps DEF IInv, TypeOK, Fail, Rows, Active, clientVars, historyVars
<1>11. ASSUME NEW b \in Bundles, GiveUp(b) PROVE Goal
  BY <1>11, JobStepKeeps DEF IInv, TypeOK, GiveUp, Rows, Payloads, Active, clientVars, historyVars
<1>12. ASSUME NEW b \in Bundles, CancelJob(b) PROVE Goal
  BY <1>12, JobStepKeeps DEF IInv, TypeOK, CancelJob, Rows, Active, clientVars, historyVars
<1>13. ASSUME NEW t \in turns, Cancel(t) PROVE Goal
  BY <1>13, JobStepKeeps DEF IInv, TypeOK, Cancel, Rows, Active, clientVars, historyVars
<1>14. ASSUME Restart PROVE Goal
  <2>1. turns' = {} /\ sent' = sent
    BY <1>14 DEF Restart
  <2>2. \A b \in Bundles : row'[b].status \notin Active /\ memory'[b] = Nothing
    <3>1. \A b \in Bundles : [row[b] EXCEPT !.status = "failed"].status = "failed"
      BY DEF IInv, TypeOK, Rows
    <3> QED BY <1>14, <3>1 DEF Restart, Active
  <2>3. \A b \in Bundles : row'[b].status = "absent" => row[b].status = "absent"
    <3>1. \A b \in Bundles : [row[b] EXCEPT !.status = "failed"].status = "failed"
      BY DEF IInv, TypeOK, Rows
    <3> QED BY <1>14, <3>1 DEF Restart
  <2>4. OneTurn' /\ TurnsHaveRows' /\ PromptsKept'
    BY <2>1 DEF OneTurn, TurnsHaveRows, PromptsKept
  <2>5. UnusedJobs'
    BY <2>1, <2>2, <2>3 DEF IInv, UnusedJobs
  <2>6. PayloadAvailable'
    BY <2>2 DEF PayloadAvailable
  <2> QED BY <2>4, <2>5, <2>6
<1>15. ASSUME UNCHANGED vars PROVE Goal
  <2>1. UNCHANGED <<turns, row, payload, memory, sent, replaced>>
    BY <1>15 DEF vars, clientVars, historyVars
  <2> QED BY <1>1, <2>1
<1> HIDE DEF Goal
<1>16. Goal
  BY <1>2, <1>3, <1>4, <1>5, <1>6, <1>7, <1>8, <1>9, <1>10, <1>11, <1>12, <1>13, <1>14, <1>15 DEF Next
<1> QED BY <1>0, <1>16 DEF IInv, Goal

LEMMA Initially == Init => IInv
<1> SUFFICES ASSUME Init PROVE IInv
  OBVIOUS
<1>1. TypeOK
  BY NoRowTyped DEF Init, TypeOK, NoPayload, Payloads
<1>2. OneTurn /\ TurnsHaveRows /\ PromptsKept
  BY DEF Init, OneTurn, TurnsHaveRows, PromptsKept
<1>3. UnusedJobs /\ PayloadAvailable
  BY NoRowTyped DEF Init, UnusedJobs, PayloadAvailable, Active
<1> QED BY <1>1, <1>2, <1>3 DEF IInv

-----------------------------------------------------------------------------
LEMMA Inductive == Spec => []IInv
  BY Initially, TurnsKept, PTL DEF Spec

(***************************************************************************)
(* Every reachable state is typed; in particular the runner is never given *)
(* a marker for a prompt.                                                  *)
(***************************************************************************)
THEOREM TurnsTyped == Spec => []TypeOK
<1>1. IInv => TypeOK
  BY DEF IInv
<1> QED BY <1>1, Inductive, PTL

(***************************************************************************)
(* One turn per request reference and per bundle, however many starts wait *)
(* for their routes at the same time.                                      *)
(***************************************************************************)
THEOREM TurnsApart == Spec => []OneTurn
<1>1. IInv => OneTurn
  BY DEF IInv
<1> QED BY <1>1, Inductive, PTL

(***************************************************************************)
(* The prompt behind a marker can always be read while the job lives.      *)
(***************************************************************************)
THEOREM PayloadsStay == Spec => []PayloadAvailable
<1>1. IInv => PayloadAvailable
  BY DEF IInv
<1> QED BY <1>1, Inductive, PTL

(***************************************************************************)
(* A provider is sent the prompt the turn was accepted with, or none,      *)
(* unless a refused start replaced it.                                     *)
(***************************************************************************)
THEOREM PromptsSent == Spec => []AcceptedPromptSent
<1>1. IInv => AcceptedPromptSent
  BY DEF IInv, PromptsKept, AcceptedPromptSent
<1> QED BY <1>1, Inductive, PTL

-----------------------------------------------------------------------------
(* Attachments and answers.  A bundle without a job has attachments of one *)
(* lifetime, all of them readable; so a start that passes its checks has   *)
(* the lifetime of its bundle, and what a refused start left in the map of *)
(* an ephemeral bundle is never found by a turn that is not ephemeral.     *)

\* An attachment belongs to one bundle.
Filed == \A s, u \in staged \union uploads : s.file = u.file => s.bundle = u.bundle

\* The attachments of a bundle without a job have one lifetime.
OneLifetime ==
    \A s, u \in staged \union uploads :
        s.bundle = u.bundle /\ row[s.bundle] = NoRow => s.ephemeral = u.ephemeral

\* Attachments can be read before their job exists and until it is submitted or over.
Needed(b) == row[b] = NoRow \/ (row[b].status \in Active /\ ~row[b].submitted)
BytesKept == \A s \in staged : Needed(s.bundle) => s.file \in bytes

\* A start names attachments of its bundle, and has their lifetime while there is no job.
Fits(c) ==
    /\ c.files \subseteq FilesOf(c.bundle)
    /\ row[c.bundle] = NoRow =>
           \A s \in staged \union uploads : s.bundle = c.bundle => s.ephemeral = c.ephemeral
CallsFit == \A c \in calls : Fits(c)

\* Only ephemeral bundles have a payload before they have a job.
PayloadsEphemeral ==
    \A b \in Bundles : row[b] = NoRow /\ payload[b].request # Nothing =>
        \E s \in staged : s.bundle = b /\ s.ephemeral

\* A turn has a payload exactly if it is ephemeral, and then a marker until it moves.
TurnsSettled ==
    \A t \in turns :
        /\ t.files \subseteq FilesOf(t.bundle)
        /\ t.bundle \notin replaced =>
               /\ t.ephemeral => /\ payload[t.bundle].request # Nothing
                                 /\ t.bundle \notin moved => row[t.bundle].text = Marker
               /\ ~t.ephemeral => payload[t.bundle].request = Nothing /\ row[t.bundle].text # Marker

\* A submission has a prompt.
SubmittedSent == \A b \in Bundles : row[b].submitted => sent[b] \in Requests

\* The job of an ephemeral turn has a payload while it lives, and none of it in its row.
SecretsKept ==
    \A b \in secret :
        /\ row[b] # NoRow
        /\ row[b].status \in Active => payload[b].request # Nothing
        /\ row[b].result \notin Requests
        /\ row[b].text \in Requests => b \in moved

Settlement ==
    /\ Filed /\ OneLifetime /\ BytesKept /\ CallsFit /\ PayloadsEphemeral
    /\ TurnsSettled /\ SubmittedSent /\ AnswerReadable /\ SecretsKept

FInv == IInv /\ Settlement

\* The file references of a step that moves attachments along.
LEMMA FilesOfMember ==
    ASSUME NEW b
    PROVE  \A f : f \in FilesOf(b) <=> \E s \in staged : s.bundle = b /\ s.file = f
  BY DEF FilesOf

\* A start that passes the checks fits its bundle.
LEMMA CheckedFits ==
    ASSUME FInv, NEW c \in Calls, Checked(c)
    PROVE  Fits(c)
<1> USE DEF FInv, Settlement
<1>1. c.files \subseteq FilesOf(c.bundle) /\ c.files # {} /\ Held(c.bundle) = c.ephemeral
  BY DEF Checked
<1>2. PICK f \in c.files : TRUE
  BY <1>1
<1>3. PICK s \in staged : s.bundle = c.bundle /\ s.file = f
  BY <1>1, FilesOfMember
<1>4. ASSUME row[c.bundle] = NoRow, NEW u \in staged \union uploads, u.bundle = c.bundle
      PROVE  u.ephemeral = c.ephemeral
  <2>1. s.file \in bytes /\ \A w \in staged : w.bundle = c.bundle => w.ephemeral = s.ephemeral
    BY <1>3, <1>4 DEF BytesKept, Needed, OneLifetime
  <2>2. s.ephemeral \in BOOLEAN /\ c.ephemeral \in BOOLEAN
    BY CallTypes DEF IInv, TypeOK, Attachments
  <2>3. s.ephemeral = c.ephemeral
    BY <1>1, <1>3, <2>1, <2>2 DEF Held
  <2> QED BY <1>3, <1>4, <2>3 DEF OneLifetime
<1> QED BY <1>1, <1>4 DEF Fits

\* Staging.
LEMMA StageKeeps ==
    ASSUME FInv, NEW f \in Files, NEW b \in Bundles, NEW e \in BOOLEAN, StageBegins(f, b, e)
    PROVE  Settlement'
<1> USE DEF FInv, Settlement
<1> DEFINE new == [file |-> f, bundle |-> b, ephemeral |-> e, turn |-> Nothing]
<1>1. /\ uploads' = uploads \union {new}
      /\ UNCHANGED <<staged, calls, turns, bytes, row, payload, memory, sent, replaced, secret, moved>>
  BY DEF StageBegins, historyVars
<1>2. \A s \in staged \union uploads : s.file # f
  BY DEF StageBegins, FreshFiles
<1>3. ASSUME NEW s \in staged \union uploads, s.bundle = b, row[b] = NoRow
      PROVE  s.ephemeral = e
  <2>1. b \notin FreshBundles
    BY <1>3 DEF FreshBundles
  <2>2. PICK u \in staged : u.bundle = b /\ Held(b) = e
    BY <2>1 DEF StageBegins
  <2>3. u.file \in bytes /\ \A w \in staged \union uploads : w.bundle = b => w.ephemeral = u.ephemeral
    BY <1>3, <2>2 DEF BytesKept, Needed, OneLifetime
  <2>4. u.ephemeral \in BOOLEAN
    BY DEF IInv, TypeOK, Attachments
  <2>5. Held(b) = u.ephemeral
    BY <2>2, <2>3, <2>4 DEF Held
  <2> QED BY <1>3, <2>2, <2>3, <2>5
<1>4. Filed' /\ OneLifetime'
  BY <1>1, <1>2, <1>3 DEF Filed, OneLifetime
<1>5. CallsFit'
  <2> SUFFICES ASSUME NEW c \in calls
               PROVE  Fits(c)'
    BY <1>1 DEF CallsFit
  <2>1. Fits(c) /\ c.files # {}
    BY DEF CallsFit, IInv, TypeOK, Calls
  <2>2. PICK s \in staged : s.bundle = c.bundle
    BY <2>1, FilesOfMember DEF Fits
  <2>3. FilesOf(c.bundle)' = FilesOf(c.bundle)
    BY <1>1 DEF FilesOf
  <2>4. row[c.bundle] = NoRow /\ c.bundle = b => c.ephemeral = e
    BY <1>3, <2>1, <2>2 DEF Fits
  <2> QED BY <1>1, <2>1, <2>3, <2>4 DEF Fits
<1>6. (BytesKept /\ PayloadsEphemeral /\ TurnsSettled /\ SubmittedSent /\ AnswerReadable /\ SecretsKept)'
  BY <1>1 DEF BytesKept, Needed, PayloadsEphemeral, TurnsSettled, FilesOf, SubmittedSent, AnswerReadable,
              Completed, Answer, SecretsKept
<1> QED BY <1>4, <1>5, <1>6

LEMMA StageEndKeeps ==
    ASSUME FInv, NEW u \in uploads, StageEnds(u) \/ StageFails(u)
    PROVE  Settlement'
<1> USE DEF FInv, Settlement
<1>1. /\ staged \subseteq staged' /\ staged' \union uploads' \subseteq staged \union uploads
      /\ bytes \subseteq bytes' /\ \A s \in staged' \ staged : s.file \in bytes'
      /\ UNCHANGED <<calls, turns, row, payload, memory, sent, replaced, secret, moved>>
  BY DEF StageEnds, StageFails, historyVars
<1>2. \A b : FilesOf(b) \subseteq FilesOf(b)'
  BY <1>1 DEF FilesOf
<1>3. Filed' /\ OneLifetime' /\ BytesKept'
  BY <1>1 DEF Filed, OneLifetime, BytesKept, Needed
<1>4. CallsFit'
  BY <1>1, <1>2 DEF CallsFit, Fits
<1>5. TurnsSettled'
  BY <1>1, <1>2 DEF TurnsSettled
<1>6. (PayloadsEphemeral /\ SubmittedSent /\ AnswerReadable /\ SecretsKept)'
  BY <1>1 DEF PayloadsEphemeral, SubmittedSent, AnswerReadable, Completed, Answer, SecretsKept
<1> QED BY <1>3, <1>4, <1>5, <1>6

\* A start that fits its bundle and is accepted.
LEMMA AcceptKeeps ==
    ASSUME FInv, NEW c \in Calls, NEW plan \in BOOLEAN, Accept(c, plan), Fits(c), calls' \subseteq calls
    PROVE  Settlement'
<1> USE DEF FInv, Settlement
<1> DEFINE b == c.bundle
<1>1. b \in Bundles /\ row[b] = NoRow
  BY CallTypes DEF Accept, Accepted
<1>2. \A t \in turns : t.bundle \in Bundles /\ t.bundle # b
  BY <1>1, CallTypes, NoRowTyped DEF IInv, TypeOK, TurnsHaveRows
<1>3. /\ row'[b].status = "queued" /\ ~row'[b].submitted /\ row'[b].result = Nothing
      /\ row'[b].text = IF c.ephemeral THEN Marker ELSE c.request
      /\ \A d \in Bundles : d # b => row'[d] = row[d] /\ payload'[d] = payload[d]
  BY <1>1, CallTypes DEF IInv, TypeOK, Accept, Remember, NoRow
<1>4. /\ uploads' = uploads /\ bytes' = bytes /\ turns' = turns \union {c} /\ memory' = memory
      /\ sent' = sent /\ moved' = moved /\ replaced' = replaced \ {b}
      /\ secret' = IF c.ephemeral THEN secret \union {b} ELSE secret
  BY DEF Accept
<1>5. /\ \A s \in staged' : \E u \in staged : s.file = u.file /\ s.bundle = u.bundle /\ s.ephemeral = u.ephemeral
      /\ \A u \in staged : \E s \in staged' : s.file = u.file /\ s.bundle = u.bundle /\ s.ephemeral = u.ephemeral
  <2>1. staged' = {IF s.file \in c.files THEN [s EXCEPT !.turn = c.request] ELSE s : s \in staged}
    BY DEF Accept
  <2>2. \A s \in staged : /\ [s EXCEPT !.turn = c.request].file = s.file
                          /\ [s EXCEPT !.turn = c.request].bundle = s.bundle
                          /\ [s EXCEPT !.turn = c.request].ephemeral = s.ephemeral
    BY DEF IInv, TypeOK, Attachments
  <2> QED BY <2>1, <2>2
<1>6. \A d : FilesOf(d)' = FilesOf(d)
  BY <1>5 DEF FilesOf
<1>7. row'[b] # NoRow
  BY <1>3, NoRowTyped
<1>8. IF c.ephemeral THEN payload'[b].request = c.request ELSE payload'[b].request = Nothing
  <2>1. CASE c.ephemeral
    BY <1>1, <2>1 DEF IInv, TypeOK, Accept, Remember
  <2>2. CASE ~c.ephemeral
    <3>1. payload' = payload
      BY <2>2 DEF Accept, Remember
    <3>2. payload[b].request = Nothing
      BY <1>1, <2>2 DEF PayloadsEphemeral, Fits
    <3> QED BY <2>2, <3>1, <3>2
  <2> QED BY <2>1, <2>2
<1>9. c.request \in Requests /\ c.request # Nothing /\ c.request # Marker
  BY CallTypes, TextsDiffer
<1>10. \A s \in staged \union uploads : s.bundle \in Bundles
  BY DEF IInv, TypeOK, Attachments
<1>11. Filed'
  BY <1>4, <1>5 DEF Filed
<1>12. OneLifetime'
  BY <1>3, <1>4, <1>5, <1>7, <1>10 DEF OneLifetime
<1>13. BytesKept'
  <2> SUFFICES ASSUME NEW s \in staged', Needed(s.bundle)'
               PROVE  s.file \in bytes
    BY <1>4 DEF BytesKept
  <2>1. PICK u \in staged : u.file = s.file /\ u.bundle = s.bundle
    BY <1>5
  <2>2. Needed(u.bundle)
    <3>1. CASE u.bundle = b
      BY <1>1, <3>1 DEF Needed
    <3>2. CASE u.bundle # b
      BY <1>3, <1>10, <2>1, <3>2 DEF Needed
    <3> QED BY <3>1, <3>2
  <2> QED BY <2>1, <2>2 DEF BytesKept
<1>14. CallsFit'
  <2> SUFFICES ASSUME NEW d \in calls
               PROVE  Fits(d)'
    BY DEF CallsFit
  <2>1. Fits(d) /\ d.bundle \in Bundles
    BY CallTypes DEF CallsFit, IInv, TypeOK
  <2> QED BY <1>3, <1>4, <1>5, <1>6, <1>7, <2>1 DEF Fits
<1>15. PayloadsEphemeral'
  BY <1>3, <1>5, <1>7 DEF PayloadsEphemeral
<1>16. TurnsSettled'
  <2>1. ASSUME NEW t \in turns
        PROVE  /\ t.files \subseteq FilesOf(t.bundle)'
               /\ t.bundle \notin replaced' =>
                      /\ t.ephemeral => /\ payload'[t.bundle].request # Nothing
                                        /\ t.bundle \notin moved' => row'[t.bundle].text = Marker
                      /\ ~t.ephemeral => payload'[t.bundle].request = Nothing /\ row'[t.bundle].text # Marker
    BY <1>2, <1>3, <1>4, <1>6 DEF TurnsSettled
  <2>2. c.files \subseteq FilesOf(b)'
    BY <1>6 DEF Fits
  <2> QED BY <1>3, <1>4, <1>8, <1>9, <2>1, <2>2 DEF TurnsSettled
<1>17. SubmittedSent'
  BY <1>3, <1>4 DEF SubmittedSent
<1>18. AnswerReadable'
  BY <1>2, <1>3, <1>4 DEF AnswerReadable, Completed, Answer
<1>19. SecretsKept'
  <2> SUFFICES ASSUME NEW d \in secret'
               PROVE  /\ row'[d] # NoRow
                      /\ row'[d].status \in Active => payload'[d].request # Nothing
                      /\ row'[d].result \notin Requests
                      /\ row'[d].text \in Requests => d \in moved'
    BY DEF SecretsKept
  <2>1. CASE d = b
    <3>1. c.ephemeral
      BY <1>1, <1>4, <2>1 DEF SecretsKept
    <3> QED BY <1>3, <1>7, <1>8, <1>9, <2>1, <3>1, TextsDiffer
  <2>2. CASE d # b
    <3>1. d \in secret /\ d \in Bundles
      BY <1>4, <2>2 DEF IInv, TypeOK
    <3> QED BY <1>3, <1>4, <2>2, <3>1 DEF SecretsKept
  <2> QED BY <2>1, <2>2
<1> QED BY <1>11, <1>12, <1>13, <1>14, <1>15, <1>16, <1>17, <1>18, <1>19

\* A start that fits its bundle and is refused, or ends before that.
LEMMA RefuseKeeps ==
    ASSUME FInv, NEW c \in Calls, Refuse(c), Fits(c), calls' \subseteq calls
    PROVE  Settlement'
<1> USE DEF FInv, Settlement
<1> DEFINE b == c.bundle
<1>1. UNCHANGED <<uploads, staged, turns, bytes, row, memory, sent, secret, moved>>
  BY DEF Refuse
<1>2. b \in Bundles /\ c.files # {} /\ c.request # Nothing
  BY CallTypes, TextsDiffer DEF Calls
<1>3. \/ payload' = payload /\ replaced' = replaced
      \/ /\ c.ephemeral /\ replaced' = replaced \union {b} /\ payload'[b].request # Nothing
         /\ \A d \in Bundles : d # b => payload'[d] = payload[d]
  BY <1>2 DEF IInv, TypeOK, Refuse, Remember
<1>4. (Filed /\ OneLifetime /\ BytesKept /\ SubmittedSent)'
  BY <1>1 DEF Filed, OneLifetime, BytesKept, Needed, SubmittedSent
<1>5. CallsFit'
  BY <1>1 DEF CallsFit, Fits, FilesOf
<1>6. PayloadsEphemeral'
  <2> SUFFICES ASSUME NEW d \in Bundles, row[d] = NoRow, payload'[d].request # Nothing
               PROVE  \E s \in staged : s.bundle = d /\ s.ephemeral
    BY <1>1 DEF PayloadsEphemeral
  <2>1. CASE payload'[d] = payload[d]
    BY <2>1 DEF PayloadsEphemeral
  <2>2. CASE payload'[d] # payload[d]
    <3>1. d = b /\ c.ephemeral
      BY <1>3, <2>2
    <3>2. PICK s \in staged : s.bundle = b
      BY <1>2, FilesOfMember DEF Fits
    <3>3. s.ephemeral = c.ephemeral
      BY <3>1, <3>2 DEF Fits
    <3> QED BY <3>1, <3>2, <3>3
  <2> QED BY <2>1, <2>2
<1>7. TurnsSettled'
  <2> SUFFICES ASSUME NEW t \in turns
               PROVE  /\ t.files \subseteq FilesOf(t.bundle)'
                      /\ t.bundle \notin replaced' =>
                             /\ t.ephemeral => /\ payload'[t.bundle].request # Nothing
                                               /\ t.bundle \notin moved' => row'[t.bundle].text = Marker
                             /\ ~t.ephemeral => payload'[t.bundle].request = Nothing /\ row'[t.bundle].text # Marker
    BY <1>1 DEF TurnsSettled
  <2>1. t.bundle \in Bundles /\ FilesOf(t.bundle)' = FilesOf(t.bundle)
    BY <1>1, CallTypes DEF IInv, TypeOK, FilesOf
  <2>2. t.bundle \notin replaced' => t.bundle \notin replaced /\ payload'[t.bundle] = payload[t.bundle]
    BY <1>3, <2>1
  <2> QED BY <1>1, <2>1, <2>2 DEF TurnsSettled
<1>8. AnswerReadable'
  <2>1. \A t \in turns : t.bundle \notin replaced' => t.bundle \notin replaced /\ payload'[t.bundle] = payload[t.bundle]
    BY <1>3, CallTypes DEF IInv, TypeOK
  <2> QED BY <1>1, <2>1 DEF AnswerReadable, Completed, Answer
<1>9. SecretsKept'
  <2>1. secret \subseteq Bundles
    BY DEF IInv, TypeOK
  <2> QED BY <1>1, <1>3, <2>1 DEF SecretsKept
<1> QED BY <1>4, <1>5, <1>6, <1>7, <1>8, <1>9

\* What a step may do to the one job it is about: bytes go only when no longer needed, the
\* prompt of the row is replaced only by moving, and a success leaves its answer somewhere.
LEMMA JobKeeps ==
    ASSUME FInv, UNCHANGED <<uploads, staged, calls, turns, replaced, secret>>, NEW b \in Bundles,
           row[b].status # "absent", row'[b].status # "absent",
           \A d \in Bundles : d # b => row'[d] = row[d] /\ payload'[d] = payload[d] /\ sent'[d] = sent[d],
           moved \subseteq moved',
           bytes \ FilesOf(b) \subseteq bytes',
           Needed(b)' => Needed(b) /\ bytes' = bytes,
           row'[b].status \in Active => row[b].status \in Active,
           payload'[b].request = payload[b].request,
           \/ row'[b].text = row[b].text
           \/ row'[b].text = memory[b] /\ memory[b] # Nothing /\ b \in moved',
           row'[b].submitted => sent'[b] \in Requests,
           \/ row'[b].result = row[b].result
           \/ row[b].status \in Active /\ row'[b].result = Redacted
           \/ row[b].status \in Active /\ payload[b].request = Nothing,
           row'[b].status = "succeeded" =>
               \/ row'[b] = row[b] /\ payload'[b] = payload[b]
               \/ payload[b].request = Nothing /\ row'[b].text # Marker /\ row'[b].result \in Requests
               \/ payload[b].request = Nothing /\ row'[b].text = Marker /\ row[b].status \in Active
               \/ payload[b].request # Nothing /\ row'[b].text = row[b].text /\ payload'[b].result \in Requests
    PROVE  Settlement'
<1> USE DEF FInv, Settlement
<1>1. row[b] # NoRow /\ row'[b] # NoRow
  BY NoRowTyped
<1>2. memory[b] \in Requests \union {Nothing} /\ Marker \notin Requests
  BY TextsDiffer DEF IInv, TypeOK
<1>3. \A d : FilesOf(d)' = FilesOf(d)
  BY DEF FilesOf
<1>4. Filed'
  BY DEF Filed
<1>5. \A s \in staged \union uploads : s.bundle \in Bundles
  BY DEF IInv, TypeOK, Attachments
<1>6. OneLifetime'
  BY <1>1, <1>5 DEF OneLifetime
<1>7. BytesKept'
  <2> SUFFICES ASSUME NEW s \in staged, Needed(s.bundle)'
               PROVE  s.file \in bytes'
    BY DEF BytesKept
  <2>1. CASE s.bundle = b
    BY <2>1 DEF BytesKept
  <2>2. CASE s.bundle # b
    <3>1. Needed(s.bundle)
      BY <1>5, <2>2 DEF Needed
    <3>2. s.file \in bytes /\ s.file \notin FilesOf(b)
      BY <2>2, <3>1, FilesOfMember DEF BytesKept, Filed
    <3> QED BY <3>2
  <2> QED BY <2>1, <2>2
<1>8. CallsFit'
  <2>1. \A c \in calls : c.bundle \in Bundles
    BY CallTypes DEF IInv, TypeOK
  <2> QED BY <1>1, <1>3, <2>1 DEF CallsFit, Fits
<1>9. PayloadsEphemeral'
  BY <1>1 DEF PayloadsEphemeral
<1>10. \A t \in turns : t.bundle \in Bundles
  BY CallTypes DEF IInv, TypeOK
<1>11. TurnsSettled'
  <2> SUFFICES ASSUME NEW t \in turns, t.bundle \notin replaced
               PROVE  /\ t.ephemeral => /\ payload'[t.bundle].request # Nothing
                                        /\ t.bundle \notin moved' => row'[t.bundle].text = Marker
                      /\ ~t.ephemeral => payload'[t.bundle].request = Nothing /\ row'[t.bundle].text # Marker
    BY <1>3 DEF TurnsSettled
  <2> QED BY <1>2, <1>10 DEF TurnsSettled
<1>12. SubmittedSent'
  BY DEF SubmittedSent
<1>13. AnswerReadable'
  <2> SUFFICES ASSUME NEW t \in turns, row'[t.bundle].status = "succeeded", t.bundle \notin replaced,
                      ~(t.ephemeral /\ t.bundle \in moved')
               PROVE  Completed(t)'
    BY DEF AnswerReadable
  <2>1. CASE t.bundle # b \/ (row'[b] = row[b] /\ payload'[b] = payload[b])
    BY <1>10, <2>1 DEF AnswerReadable, Completed, Answer
  <2>2. CASE t.bundle = b /\ payload[b].request = Nothing
    <3>1. ~t.ephemeral /\ row[b].text # Marker /\ row'[b].text # Marker
      BY <1>2, <2>2 DEF TurnsSettled
    <3>2. CASE row'[b].result \in Requests
      BY <2>2, <3>1, <3>2 DEF Completed, Answer
    <3> QED BY <2>1, <2>2, <3>1, <3>2
  <2>3. CASE t.bundle = b /\ payload[b].request # Nothing /\ payload'[b].result \in Requests /\ row'[b].text = row[b].text
    <3>1. t.ephemeral /\ row'[b].text = Marker /\ payload'[b].result # Nothing
      BY <2>3, TextsDiffer DEF TurnsSettled
    <3> QED BY <2>3, <3>1 DEF Completed, Answer
  <2> QED BY <2>1, <2>2, <2>3
<1>14. SecretsKept'
  <2> SUFFICES ASSUME NEW d \in secret
               PROVE  /\ row'[d] # NoRow
                      /\ row'[d].status \in Active => payload'[d].request # Nothing
                      /\ row'[d].result \notin Requests
                      /\ row'[d].text \in Requests => d \in moved'
    BY DEF SecretsKept
  <2>1. d \in Bundles
    BY DEF IInv, TypeOK
  <2>2. Redacted \notin Requests
    BY NothingAssumption
  <2> QED BY <1>1, <2>1, <2>2 DEF SecretsKept
<1> QED BY <1>4, <1>6, <1>7, <1>8, <1>9, <1>11, <1>12, <1>13, <1>14

\* FInv is inductive.
LEMMA SettlementKept ==
    ASSUME FInv, [Next]_vars
    PROVE  FInv'
<1> DEFINE Goal == Settlement'
<1> USE TextsDiffer
<1>0. IInv'
  BY TurnsKept DEF FInv
<1>a. /\ \A b \in Bundles : row[b] \in Rows /\ payload[b] \in Payloads /\ sent[b] \in Requests \union {Nothing}
      /\ \A b \in Bundles : memory[b] \in Requests \union {Nothing}
      /\ \A b \in Bundles : row[b].status = "absent" => memory[b] = Nothing
      /\ \A b \in Bundles : row[b].submitted => sent[b] \in Requests
      /\ row \in [Bundles -> Rows] /\ payload \in [Bundles -> Payloads]
      /\ sent \in [Bundles -> Requests \union {Nothing}]
  BY DEF FInv, Settlement, IInv, TypeOK, UnusedJobs, SubmittedSent
<1>1. ASSUME UNCHANGED <<uploads, staged, turns, bytes, row, payload, memory, sent, replaced, secret, moved>>,
             \A c \in calls' : Fits(c)
      PROVE  Goal
  BY <1>1 DEF FInv, Settlement, Filed, OneLifetime, BytesKept, Needed, CallsFit, Fits, FilesOf, PayloadsEphemeral,
              TurnsSettled, SubmittedSent, AnswerReadable, Completed, Answer, SecretsKept
<1>2. ASSUME NEW f \in Files, NEW b \in Bundles, NEW e \in BOOLEAN, StageBegins(f, b, e) PROVE Goal
  BY <1>2, StageKeeps
<1>3. ASSUME NEW u \in uploads, StageEnds(u) \/ StageFails(u) PROVE Goal
  BY <1>3, StageEndKeeps
<1>4. ASSUME NEW c \in Calls, Start(c) PROVE Goal
  <2>1. Fits(c) /\ calls' = calls
    BY <1>4, CheckedFits DEF Start
  <2> QED BY <1>4, <2>1, AcceptKeeps, RefuseKeeps DEF Start
<1>5. ASSUME NEW c \in Calls, StartBegins(c) PROVE Goal
  <2>1. Fits(c) /\ \A d \in calls : Fits(d)
    BY <1>5, CheckedFits DEF StartBegins, FInv, Settlement, CallsFit
  <2> QED BY <1>1, <1>5, <2>1 DEF StartBegins, historyVars
<1>6. ASSUME NEW c \in calls, StartEnds(c) PROVE Goal
  <2>1. c \in Calls /\ calls' \subseteq calls /\ \A d \in calls : Fits(d)
    BY <1>6 DEF StartEnds, FInv, Settlement, CallsFit, IInv, TypeOK
  <2> QED BY <1>1, <1>6, <2>1, AcceptKeeps, RefuseKeeps DEF StartEnds, historyVars
<1>7. ASSUME NEW b \in Bundles, Take(b) PROVE Goal
  <2>1. /\ row'[b].status = "running" /\ row'[b].text = row[b].text
        /\ row'[b].submitted = row[b].submitted /\ row'[b].result = row[b].result
        /\ \A d \in Bundles : d # b => row'[d] = row[d]
    BY <1>a, <1>7 DEF Take, Rows
  <2>2. /\ UNCHANGED <<uploads, staged, calls, turns, replaced, secret, moved, sent>>
        /\ payload' = payload /\ bytes' = bytes /\ row[b].status = "queued"
    BY <1>a, <1>7 DEF Take, clientVars, historyVars
  <2>3. Needed(b)' => Needed(b)
    BY <2>1, <2>2, NoRowTyped DEF Needed, Active
  <2> QED BY <1>a, <2>1, <2>2, <2>3, JobKeeps DEF Active
<1>8. ASSUME NEW b \in Bundles, Fallback(b) PROVE Goal
  BY <1>a, <1>8, JobKeeps DEF Fallback, Executing, Rows, Active, Needed, clientVars
<1>9. ASSUME NEW b \in Bundles, Submit(b) PROVE Goal
  BY <1>a, <1>9, JobKeeps DEF Submit, Executing, Rows, Active, Needed, clientVars
<1>10. ASSUME NEW b \in Bundles, Succeed(b) PROVE Goal
  <2> DEFINE kept == IF payload[b].request = Nothing THEN sent[b] ELSE Redacted
  <2>1. /\ row'[b].status = "succeeded" /\ row'[b].text = row[b].text
        /\ row'[b].submitted = row[b].submitted /\ row'[b].result = kept
        /\ \A d \in Bundles : d # b => row'[d] = row[d]
    BY <1>a, <1>10 DEF Succeed, Rows
  <2>2. /\ UNCHANGED <<uploads, staged, calls, turns, replaced, secret, moved, sent>>
        /\ bytes' = bytes \ FilesOf(b) /\ row[b].status = "running" /\ sent[b] \in Requests
    BY <1>a, <1>10 DEF Succeed, clientVars, historyVars
  <2>3. /\ payload'[b].request = payload[b].request
        /\ payload[b].request # Nothing => payload'[b].result = sent[b]
        /\ \A d \in Bundles : d # b => payload'[d] = payload[d]
    BY <1>a, <1>10 DEF Succeed, Payloads
  <2>4. ~Needed(b)'
    BY <2>1, NoRowTyped DEF Needed, Active
  <2> QED BY <1>a, <2>1, <2>2, <2>3, <2>4, JobKeeps DEF Active
<1>11. ASSUME NEW b \in Bundles, Fail(b) PROVE Goal
  <2>1. /\ row'[b].status = "failed" /\ row'[b].text = row[b].text
        /\ row'[b].submitted = row[b].submitted /\ row'[b].result = row[b].result
        /\ \A d \in Bundles : d # b => row'[d] = row[d]
    BY <1>a, <1>11 DEF Fail, Rows
  <2>2. /\ UNCHANGED <<uploads, staged, calls, turns, replaced, secret, moved, sent>>
        /\ payload' = payload /\ bytes \ FilesOf(b) \subseteq bytes' /\ row[b].status = "running"
    BY <1>a, <1>11 DEF Fail, clientVars, historyVars
  <2>3. Needed(b)' => FALSE
    BY <2>1, <2>2, NoRowTyped DEF Needed, Active
  <2> QED BY <1>a, <2>1, <2>2, <2>3, JobKeeps DEF Active
<1>12. ASSUME NEW b \in Bundles, GiveUp(b) PROVE Goal
  <2>1. /\ UNCHANGED <<uploads, staged, calls, turns, replaced, secret, moved, sent, row>>
        /\ row[b].status = "canceled" /\ PlainFilesOf(b) \subseteq FilesOf(b)
    BY <1>12 DEF GiveUp, clientVars, historyVars, FilesOf, PlainFilesOf
  <2>2. bytes \ FilesOf(b) \subseteq bytes'
    BY <1>12, <2>1 DEF GiveUp
  <2>3. /\ payload'[b].request = payload[b].request
        /\ \A d \in Bundles : d # b => payload'[d] = payload[d]
    BY <1>a, <1>12 DEF GiveUp, Payloads
  <2>4. ~Needed(b)'
    BY <2>1, NoRowTyped DEF Needed, Active
  <2> QED BY <1>a, <2>1, <2>2, <2>3, <2>4, JobKeeps DEF Active
<1>13. ASSUME NEW b \in Bundles, CancelJob(b) PROVE Goal
  <2>1. /\ row'[b].status = "canceled" /\ row'[b].text = row[b].text
        /\ row'[b].submitted = row[b].submitted /\ row'[b].result = row[b].result
        /\ \A d \in Bundles : d # b => row'[d] = row[d]
    BY <1>a, <1>13 DEF CancelJob, Rows
  <2>2. /\ UNCHANGED <<uploads, staged, calls, turns, replaced, secret, moved, sent>>
        /\ payload' = payload /\ bytes' = bytes /\ row[b].status \in Active
    BY <1>a, <1>13 DEF CancelJob, clientVars, historyVars
  <2>3. Needed(b)' => FALSE
    BY <2>1, <2>2, NoRowTyped DEF Needed, Active
  <2> QED BY <1>a, <2>1, <2>2, <2>3, JobKeeps DEF Active
<1>14. ASSUME NEW t \in turns, Cancel(t) PROVE Goal
  <2> DEFINE b == t.bundle
  <2>1. b \in Bundles
    BY CallTypes DEF FInv, IInv, TypeOK
  <2> HIDE DEF b
  <2>2. /\ row'[b].status = "canceled" /\ row'[b].text = row[b].text
        /\ row'[b].submitted = row[b].submitted /\ row'[b].result = row[b].result
        /\ \A d \in Bundles : d # b => row'[d] = row[d]
    BY <1>a, <1>14, <2>1 DEF Cancel, Rows, b
  <2>3. /\ UNCHANGED <<uploads, staged, calls, turns, replaced, secret, moved, sent, payload>>
        /\ row[b].status # "absent" /\ bytes \ FilesOf(b) \subseteq bytes'
    BY <1>14 DEF Cancel, clientVars, historyVars, Active, b
  <2>4. ~Needed(b)'
    BY <2>2, NoRowTyped DEF Needed, Active
  <2> QED BY <1>a, <2>1, <2>2, <2>3, <2>4, JobKeeps DEF Active
<1>15. ASSUME Restart PROVE Goal
  <2>1. /\ staged' = {} /\ uploads' = {} /\ calls' = {} /\ turns' = {}
        /\ UNCHANGED <<sent, secret, moved>> /\ \A b \in Bundles : payload'[b].request = Nothing
    BY <1>15 DEF Restart, NoPayload
  <2>2. \A b \in Bundles : /\ row'[b].status = IF row[b].status \in Active THEN "failed" ELSE row[b].status
                           /\ row'[b].text = row[b].text /\ row'[b].submitted = row[b].submitted
                           /\ row'[b].result = row[b].result
    <3>1. \A b \in Bundles : row'[b] = IF row[b].status \in Active THEN [row[b] EXCEPT !.status = "failed"]
                                       ELSE row[b]
      BY <1>15 DEF Restart
    <3> QED BY <1>a, <3>1 DEF Rows
  <2>3. (Filed /\ OneLifetime /\ BytesKept /\ CallsFit /\ TurnsSettled /\ AnswerReadable)'
    BY <2>1 DEF Filed, OneLifetime, BytesKept, CallsFit, TurnsSettled, AnswerReadable
  <2>4. (PayloadsEphemeral /\ SubmittedSent)'
    BY <1>a, <2>1, <2>2 DEF PayloadsEphemeral, SubmittedSent
  <2>5. SecretsKept'
    <3> SUFFICES ASSUME NEW b \in secret
                 PROVE  /\ row'[b] # NoRow
                        /\ row'[b].status \notin Active
                        /\ row'[b].result \notin Requests
                        /\ row'[b].text \in Requests => b \in moved
      BY <2>1 DEF SecretsKept
    <3>1. /\ b \in Bundles /\ row[b] # NoRow /\ row[b].result \notin Requests
          /\ row[b].text \in Requests => b \in moved
      BY DEF FInv, Settlement, SecretsKept, IInv, TypeOK
    <3>2. row'[b] = row[b] \/ row'[b].status = "failed"
      BY <1>15, <2>2, <3>1 DEF Restart
    <3> QED BY <2>2, <3>1, <3>2, NoRowTyped DEF Active, NoRow
  <2> QED BY <2>3, <2>4, <2>5 DEF Settlement
<1>16. ASSUME UNCHANGED vars PROVE Goal
  BY <1>1, <1>16 DEF vars, clientVars, historyVars, FInv, Settlement, CallsFit
<1> HIDE DEF Goal
<1>17. Goal
  BY <1>2, <1>3, <1>4, <1>5, <1>6, <1>7, <1>8, <1>9, <1>10, <1>11, <1>12, <1>13, <1>14, <1>15, <1>16 DEF Next
<1> QED BY <1>0, <1>17 DEF FInv, Goal

LEMMA SettlementInitial == Init => FInv
<1> SUFFICES ASSUME Init PROVE FInv
  OBVIOUS
<1>1. IInv
  BY Initially
<1>2. Settlement
  BY DEF Init, Settlement, Filed, OneLifetime, BytesKept, CallsFit, PayloadsEphemeral, TurnsSettled, SubmittedSent,
         AnswerReadable, SecretsKept, NoRow, NoPayload
<1> QED BY <1>1, <1>2 DEF FInv

LEMMA SettlementInductive == Spec => []FInv
  BY SettlementInitial, SettlementKept, PTL DEF Spec

(***************************************************************************)
(* The runner can upload the attachments of a turn until its job is        *)
(* submitted or over, whatever is staged, refused or canceled meanwhile.   *)
(***************************************************************************)
THEOREM FilesStay == Spec => []FilesWhileNeeded
<1>1. FInv => FilesWhileNeeded
  BY FilesOfMember DEF FInv, Settlement, TurnsSettled, BytesKept, Needed, FilesWhileNeeded
<1> QED BY <1>1, SettlementInductive, PTL

(***************************************************************************)
(* The client of a turn that succeeded can read its answer, unless a       *)
(* refused start replaced it, or the ephemeral turn moved.                 *)
(***************************************************************************)
THEOREM AnswersRead == Spec => []AnswerReadable
<1>1. FInv => AnswerReadable
  BY DEF FInv, Settlement
<1> QED BY <1>1, SettlementInductive, PTL

(***************************************************************************)
(* The row of an ephemeral turn never holds its answer, and its prompt     *)
(* only after it moved to another provider.                                *)
(***************************************************************************)
THEOREM SecretsStayOff == Spec => []SecretsOffRecord
<1>1. FInv => SecretsOffRecord
  BY DEF FInv, Settlement, SecretsKept, SecretsOffRecord
<1> QED BY <1>1, SettlementInductive, PTL

=============================================================================
