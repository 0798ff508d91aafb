------------------------------ MODULE ProviderTurns ------------------------------
(***************************************************************************)
(* The private provider-turn protocol: a client stages attachments into a  *)
(* bundle, starts a turn with a prompt of its own, and reads or cancels    *)
(* it.  The bundle's id becomes the id of the turn's job.  A turn may be   *)
(* declared ephemeral: its prompt, its result and its attachments are then *)
(* kept in maps of the daemon process, and the job's row holds a marker in *)
(* their place, which is exchanged for the prompt whenever the row is read *)
(* by the runner or by the client.                                         *)
(*                                                                         *)
(* A request stands for its requestRef and for the prompt it carries.      *)
(***************************************************************************)
EXTENDS Integers, FiniteSets

CONSTANTS
    Requests,   \* request references, each with its prompt
    Bundles,    \* attachment bundles; a bundle id is a fresh UUID and names a job
    Files,      \* attachment references, fresh as well
    MaxCalls    \* bound: starts that wait for their routes at the same time

Nothing == "nothing"
Marker == "marker"
Redacted == "redacted"
ASSUME NothingAssumption == Requests \intersect {Nothing, Marker, Redacted} = {} /\ Nothing \notin Bundles
ASSUME FilesAssumption == IsFiniteSet(Files) /\ MaxCalls \in Nat

VARIABLES
    uploads,    \* stage calls that read their stream: file, bundle and lifetime
    staged,     \* registered attachments: file, bundle, lifetime, and the turn that consumed it
    bytes,      \* attachments whose bytes can be read, from the map or from disk
    calls,      \* start calls that wait for the routes of an auto binding
    turns,      \* the turns of this daemon: the starts it accepted
    row,        \* the jobs table
    payload,    \* the ephemeral jobs map
    memory,     \* the prompt an execution was given (Nothing: no execution)
    sent,       \* history: the prompt a provider accepted for the job
    replaced,   \* history: bundles whose payload a refused start has replaced
    secret,     \* history: bundles whose job was created from an ephemeral turn
    moved       \* history: jobs that restarted on another provider

clientVars == <<uploads, staged, calls, turns>>
historyVars == <<sent, replaced, secret, moved>>
vars == <<clientVars, bytes, row, payload, memory, historyVars>>

-----------------------------------------------------------------------------
Active == {"queued", "running"}   \* no handoff: these jobs are created with userHandoff: false
NoRow == [status |-> "absent", text |-> Nothing, plan |-> FALSE, submitted |-> FALSE,
          result |-> Nothing]
NoPayload == [request |-> Nothing, result |-> Nothing]

Statuses == {"absent", "succeeded", "failed", "canceled"} \union Active
Rows == [status : Statuses, text : Requests \union {Nothing, Marker}, plan : BOOLEAN,
         submitted : BOOLEAN, result : Requests \union {Nothing, Redacted}]
Payloads == [request : Requests \union {Nothing}, result : Requests \union {Nothing}]
Attachments == [file : Files, bundle : Bundles, ephemeral : BOOLEAN, turn : Requests \union {Nothing}]

FilesOf(b) == {s.file : s \in {t \in staged : t.bundle = b}}
PlainFilesOf(b) == {s.file : s \in {t \in staged : t.bundle = b /\ ~t.ephemeral}}

\* hasEphemeralProviderBundle.
Held(b) == \E s \in staged : s.bundle = b /\ s.ephemeral /\ s.file \in bytes

\* Files and bundles that have not been used for anything.
FreshFiles == Files \ ({s.file : s \in staged} \union {u.file : u \in uploads})
FreshBundles ==
    {b \in Bundles : row[b] = NoRow /\ \A s \in staged \union uploads : s.bundle # b}

Init ==
    /\ uploads = {}
    /\ staged = {}
    /\ bytes = {}
    /\ calls = {}
    /\ turns = {}
    /\ row = [b \in Bundles |-> NoRow]
    /\ payload = [b \in Bundles |-> NoPayload]
    /\ memory = [b \in Bundles |-> Nothing]
    /\ sent = [b \in Bundles |-> Nothing]
    /\ replaced = {}
    /\ secret = {}
    /\ moved = {}

-----------------------------------------------------------------------------
(* Staging.                                                                *)

\* stage up to its first await; a bundle may be extended while it is not consumed.
StageBegins(f, b, ephemeral) ==
    /\ f \in FreshFiles
    /\ \/ b \in FreshBundles
       \/ /\ \E s \in staged : s.bundle = b /\ s.turn = Nothing
          /\ Held(b) = ephemeral
    /\ uploads' = uploads \union {[file |-> f, bundle |-> b, ephemeral |-> ephemeral, turn |-> Nothing]}
    /\ UNCHANGED <<staged, calls, turns, bytes, row, payload, memory, historyVars>>

\* The stream has ended: the bytes are kept and the attachment registered, unchecked.
StageEnds(u) ==
    /\ uploads' = uploads \ {u}
    /\ staged' = staged \union {u}
    /\ bytes' = bytes \union {u.file}
    /\ UNCHANGED <<calls, turns, row, payload, memory, historyVars>>

\* The stream broke or was too long.
StageFails(u) ==
    /\ uploads' = uploads \ {u}
    /\ UNCHANGED <<staged, calls, turns, bytes, row, payload, memory, historyVars>>

-----------------------------------------------------------------------------
(* Starting a turn.                                                        *)

\* What start demands before it resolves the provider.
Checked(c) ==
    /\ \A t \in turns : t.request # c.request
    /\ c.files # {}
    /\ c.files \subseteq FilesOf(c.bundle)
    /\ Held(c.bundle) = c.ephemeral

Unconsumed(c) == \A s \in staged : s.file \in c.files => s.turn = Nothing

\* Mutant of Accepted: the request reference is not looked up again.
AcceptedAnyRequest(c) == Unconsumed(c) /\ row[c.bundle] = NoRow

\* createWebAiTurn does not throw: it looks up the request reference again, the
\* attachments must be unconsumed, and the bundle's id must be new as a job id.
Accepted(c) ==
    /\ \A t \in turns : t.request # c.request
    /\ Unconsumed(c)
    /\ row[c.bundle] = NoRow

\* registerEphemeralProviderJob: the prompt is put into the map, any result is forgotten.
Remember(c) ==
    payload' = IF c.ephemeral
               THEN [payload EXCEPT ![c.bundle] = [request |-> c.request, result |-> Nothing]]
               ELSE payload

\* Mutant of Accept: the job is inserted over the one that has the bundle's id.
AcceptOverwriting(c, plan) ==
    /\ Unconsumed(c)
    /\ Remember(c)
    /\ row' = [row EXCEPT ![c.bundle] =
           [NoRow EXCEPT !.status = "queued", !.plan = plan,
                         !.text = IF c.ephemeral THEN Marker ELSE c.request]]
    /\ staged' = {IF s.file \in c.files THEN [s EXCEPT !.turn = c.request] ELSE s : s \in staged}
    /\ turns' = turns \union {c}
    /\ secret' = IF c.ephemeral THEN secret \union {c.bundle} ELSE secret
    /\ replaced' = replaced \ {c.bundle}
    /\ UNCHANGED <<uploads, bytes, memory, sent, moved>>

\* registerEphemeralProviderJob and createWebAiTurn, in one turn of the event loop.
Accept(c, plan) ==
    /\ Accepted(c)
    /\ Remember(c)
    /\ row' = [row EXCEPT ![c.bundle] =
           [NoRow EXCEPT !.status = "queued", !.plan = plan,
                         !.text = IF c.ephemeral THEN Marker ELSE c.request]]
    /\ staged' = {IF s.file \in c.files THEN [s EXCEPT !.turn = c.request] ELSE s : s \in staged}
    /\ turns' = turns \union {c}
    /\ secret' = IF c.ephemeral THEN secret \union {c.bundle} ELSE secret
    /\ replaced' = replaced \ {c.bundle}
    /\ UNCHANGED <<uploads, bytes, memory, sent, moved>>

\* Mutant of Refuse: the payload of the refused start is removed again.
RefuseForgetting(c) ==
    /\ ~Accepted(c)
    /\ payload' = IF c.ephemeral THEN [payload EXCEPT ![c.bundle] = NoPayload] ELSE payload
    /\ replaced' = IF c.ephemeral THEN replaced \union {c.bundle} ELSE replaced
    /\ UNCHANGED <<uploads, staged, turns, bytes, row, memory, sent, secret, moved>>

\* createWebAiTurn throws: what registerEphemeralProviderJob did before it stays.
Refuse(c) ==
    /\ ~Accepted(c)
    /\ Remember(c)
    /\ replaced' = IF c.ephemeral THEN replaced \union {c.bundle} ELSE replaced
    /\ UNCHANGED <<uploads, staged, turns, bytes, row, memory, sent, secret, moved>>

\* start with an explicit provider: no await after the checks, and no fallback plan.
Start(c) ==
    /\ Checked(c)
    /\ Accept(c, FALSE) \/ Refuse(c)
    /\ UNCHANGED calls

\* start with an auto binding: it awaits the routes after the checks.
StartBegins(c) ==
    /\ Checked(c)
    /\ Cardinality(calls) < MaxCalls
    /\ calls' = calls \union {c}
    /\ UNCHANGED <<uploads, staged, turns, bytes, row, payload, memory, historyVars>>

StartEnds(c) ==
    /\ calls' = calls \ {c}
    /\ \/ \E plan \in BOOLEAN : Accept(c, plan)
       \/ Refuse(c)
       \/ UNCHANGED <<uploads, staged, turns, bytes, row, payload, memory, historyVars>>

-----------------------------------------------------------------------------
(* The runner.                                                             *)

\* takeNextJob, and the view of the row the runner gets.
Take(b) ==
    /\ row[b].status = "queued"
    /\ row' = [row EXCEPT ![b].status = "running"]
    /\ memory' = [memory EXCEPT ![b] = IF row[b].text = Marker THEN payload[b].request ELSE row[b].text]
    /\ UNCHANGED <<clientVars, bytes, payload, historyVars>>

Executing(b) == memory[b] # Nothing

\* Mutant of Fallback: the attachments go with the provider that is left.
FallbackCleaning(b) ==
    /\ Executing(b)
    /\ row[b].status = "running"
    /\ row[b].plan
    /\ ~row[b].submitted
    /\ \E more \in BOOLEAN : row' = [row EXCEPT ![b].text = memory[b], ![b].plan = more]
    /\ bytes' = bytes \ FilesOf(b)
    /\ moved' = moved \union {b}
    /\ UNCHANGED <<clientVars, payload, memory, sent, replaced, secret>>

\* Before a submission the job may restart on another provider: the request the
\* runner holds, prompt included, is written to the row and read back from it.
\* After one the store refuses it, since auto requests carry exclusions.
Fallback(b) ==
    /\ Executing(b)
    /\ row[b].status = "running"
    /\ row[b].plan
    /\ ~row[b].submitted
    /\ \E more \in BOOLEAN : row' = [row EXCEPT ![b].text = memory[b], ![b].plan = more]
    /\ moved' = moved \union {b}
    /\ UNCHANGED <<clientVars, bytes, payload, memory, sent, replaced, secret>>

\* The attachments are uploaded, the prompt is accepted and the submission recorded.
Submit(b) ==
    /\ Executing(b)
    /\ row[b].status = "running"
    /\ ~row[b].submitted
    /\ \A t \in turns : t.bundle = b => t.files \subseteq bytes
    /\ row' = [row EXCEPT ![b].submitted = TRUE]
    /\ sent' = [sent EXCEPT ![b] = memory[b]]
    /\ UNCHANGED <<clientVars, bytes, payload, memory, replaced, secret, moved>>

\* Mutant of Succeed: the map entry of a finished job is deleted.
SucceedForgetting(b) ==
    /\ Executing(b)
    /\ row[b].submitted
    /\ row[b].status = "running"
    /\ payload' = [payload EXCEPT ![b] = NoPayload]
    /\ row' = [row EXCEPT ![b].status = "succeeded",
                          ![b].result = IF payload[b].request = Nothing THEN sent[b] ELSE Redacted]
    /\ bytes' = bytes \ FilesOf(b)
    /\ memory' = [memory EXCEPT ![b] = Nothing]
    /\ UNCHANGED <<clientVars, historyVars>>

\* Mutant of Succeed: the result is redacted if the request still is.
SucceedByMarker(b) ==
    /\ Executing(b)
    /\ row[b].submitted
    /\ row[b].status = "running"
    /\ payload' = IF row[b].text = Marker THEN [payload EXCEPT ![b].result = sent[b]] ELSE payload
    /\ row' = [row EXCEPT ![b].status = "succeeded",
                          ![b].result = IF row[b].text = Marker THEN Redacted ELSE sent[b]]
    /\ bytes' = bytes \ FilesOf(b)
    /\ memory' = [memory EXCEPT ![b] = Nothing]
    /\ UNCHANGED <<clientVars, historyVars>>

\* completeJob with a result, which stands for the prompt it answers.  A job with a
\* payload keeps its result there; the attachments are dropped.
Succeed(b) ==
    /\ Executing(b)
    /\ row[b].submitted
    /\ row[b].status = "running"
    /\ payload' = IF payload[b].request = Nothing THEN payload
                  ELSE [payload EXCEPT ![b].result = sent[b]]
    /\ row' = [row EXCEPT ![b].status = "succeeded",
                          ![b].result = IF payload[b].request = Nothing THEN sent[b] ELSE Redacted]
    /\ bytes' = bytes \ FilesOf(b)
    /\ memory' = [memory EXCEPT ![b] = Nothing]
    /\ UNCHANGED <<clientVars, historyVars>>

\* The finally of executeJob removes the files on disk, if it had got to know them.
Fail(b) ==
    /\ Executing(b)
    /\ row[b].status = "running"
    /\ row' = [row EXCEPT ![b].status = "failed"]
    /\ \E left \in {{}, PlainFilesOf(b)} : bytes' = bytes \ (FilesOf(b) \ left)
    /\ memory' = [memory EXCEPT ![b] = Nothing]
    /\ UNCHANGED <<clientVars, payload, historyVars>>

\* The execution of a canceled job ends: it saw the cancellation, or the store refuses
\* its result, which is in the map by then.  A quiesce, left out here, removes the files of an execution
\* it aborts in the same way, although the row stays running; nobody executes that job again.
GiveUp(b) ==
    /\ Executing(b)
    /\ row[b].status = "canceled"
    /\ \/ UNCHANGED payload
       \/ /\ row[b].submitted
          /\ payload[b].request # Nothing
          /\ payload' = [payload EXCEPT ![b].result = sent[b]]
    /\ \E gone \in {{}, PlainFilesOf(b)} : bytes' = bytes \ gone
    /\ memory' = [memory EXCEPT ![b] = Nothing]
    /\ UNCHANGED <<clientVars, row, historyVars>>

-----------------------------------------------------------------------------
(* Cancellation and restart.                                               *)

\* cancel and cancelRequest: before a submission the attachments are dropped too.
Cancel(t) ==
    LET b == t.bundle IN
    /\ \/ /\ row[b].status \in Active
          /\ row' = [row EXCEPT ![b].status = "canceled"]
       \/ row[b].status = "canceled" /\ UNCHANGED row
    /\ bytes' = IF row[b].submitted THEN bytes ELSE bytes \ FilesOf(b)
    /\ UNCHANGED <<clientVars, payload, memory, historyVars>>

\* The job of a turn is canceled as a job: nothing is dropped.
CancelJob(b) ==
    /\ row[b].status \in Active
    /\ row' = [row EXCEPT ![b].status = "canceled"]
    /\ UNCHANGED <<clientVars, bytes, payload, memory, historyVars>>

\* Another daemon opens the database; the maps of this one are gone.
Restart ==
    /\ row' = [b \in Bundles |-> IF row[b].status \in Active THEN [row[b] EXCEPT !.status = "failed"]
                                 ELSE row[b]]
    /\ uploads' = {} /\ staged' = {} /\ calls' = {} /\ turns' = {} /\ bytes' = {}
    /\ payload' = [b \in Bundles |-> NoPayload]
    /\ memory' = [b \in Bundles |-> Nothing]
    /\ replaced' = {}
    /\ UNCHANGED <<sent, secret, moved>>

-----------------------------------------------------------------------------
Calls == [request : Requests, bundle : Bundles, files : (SUBSET Files) \ {{}}, ephemeral : BOOLEAN]

Next ==
    \/ \E f \in Files, b \in Bundles, e \in BOOLEAN : StageBegins(f, b, e)
    \/ \E u \in uploads : StageEnds(u) \/ StageFails(u)
    \/ \E c \in Calls : Start(c) \/ StartBegins(c)
    \/ \E c \in calls : StartEnds(c)
    \/ \E b \in Bundles :
           \/ Take(b) \/ Fallback(b) \/ Submit(b) \/ Succeed(b) \/ Fail(b) \/ GiveUp(b)
           \/ CancelJob(b)
    \/ \E t \in turns : Cancel(t)
    \/ Restart

Spec == Init /\ [][Next]_vars

-----------------------------------------------------------------------------
\* The types; an execution is given a prompt, never the marker that stands for one.
TypeOK ==
    /\ uploads \subseteq Attachments
    /\ staged \subseteq Attachments
    /\ bytes \subseteq Files
    /\ calls \subseteq Calls
    /\ turns \subseteq Calls
    /\ row \in [Bundles -> Rows]
    /\ payload \in [Bundles -> Payloads]
    /\ memory \in [Bundles -> Requests \union {Nothing}]
    /\ sent \in [Bundles -> Requests \union {Nothing}]
    /\ replaced \subseteq Bundles
    /\ secret \subseteq Bundles
    /\ moved \subseteq Bundles

(***************************************************************************)
(* Starts of one request, or of one bundle, that pass their first checks   *)
(* together still create one turn: a request reference stays unique in     *)
(* the daemon, and no two turns share a job or its attachments.            *)
(***************************************************************************)
OneTurn ==
    \A t, u \in turns : t.request = u.request \/ t.bundle = u.bundle => t = u

(***************************************************************************)
(* A job whose row holds a marker can be read: while it is not over, its   *)
(* prompt is in the map, whatever was refused, canceled or restarted.      *)
(***************************************************************************)
PayloadAvailable ==
    \A b \in Bundles : row[b].status \in Active /\ row[b].text = Marker => payload[b].request # Nothing

(***************************************************************************)
(* The attachments of a turn can be read until its job is submitted or     *)
(* over: the runner uploads them after every restart on another provider.  *)
(***************************************************************************)
FilesWhileNeeded ==
    \A t \in turns :
        row[t.bundle].status \in Active /\ ~row[t.bundle].submitted => t.files \subseteq bytes

\* What a provider is sent for a turn is the prompt the turn was accepted with, unless
\* a start that was refused has replaced it in the map.
AcceptedPromptSent ==
    \A t \in turns : t.bundle \notin replaced => sent[t.bundle] \in {Nothing, t.request}

\* hydrateEphemeralProviderJob and successfulResult: the answer a client reads.
Answer(b) ==
    IF row[b].text = Marker /\ payload[b].result # Nothing THEN payload[b].result ELSE row[b].result
Completed(t) == row[t.bundle].status = "succeeded" /\ Answer(t.bundle) \in Requests

(***************************************************************************)
(* The answer of a job that succeeded can be read by the turn's client.    *)
(* The exceptions: a refused start replaced the payload, or an ephemeral   *)
(* job moved to another provider.                                          *)
(***************************************************************************)
AnswerReadable ==
    \A t \in turns :
        /\ row[t.bundle].status = "succeeded"
        /\ t.bundle \notin replaced
        /\ ~(t.ephemeral /\ t.bundle \in moved)
        => Completed(t)

(***************************************************************************)
(* The database never holds the answer of an ephemeral turn, and its       *)
(* prompt only if the job moved to another provider: the runner's request  *)
(* for the next provider is written into the row with the prompt in it.    *)
(***************************************************************************)
SecretsOffRecord ==
    \A b \in secret :
        /\ row[b].result \notin Requests
        /\ row[b].text \in Requests => b \in moved

=============================================================================
