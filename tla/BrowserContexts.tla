---------------------------- MODULE BrowserContexts ----------------------------
(***************************************************************************)
(* PersistentContextManager (browser/browser/context-manager.ts): how the  *)
(* daemon finds, starts, shares, leaves and ends the resident browser of   *)
(* each managed profile.  A browser outlives the daemon; what a later      *)
(* daemon knows of it are two files in the profile's directory: the        *)
(* endpoint, DevToolsActivePort, which the browser writes, and the session *)
(* file, which says how it was launched.  The tabs inside are PageLeases.  *)
(*                                                                         *)
(* A browser's `recorded` is history: whoever launched it got to write its *)
(* session file.                                                           *)
(*                                                                         *)
(* A setting stands for the runtime, proxy and colour of a profile.  A     *)
(* profile has one directory, and a second process started on it hands     *)
(* over to the first and exits.  A process told to end does end, by        *)
(* SIGKILL at the latest.  Native profiles, which only connect and         *)
(* disconnect, are left out.                                               *)
(***************************************************************************)
EXTENDS Integers, FiniteSets, Sequences

CONSTANTS
    Profiles,
    Settings,      \* the settings a profile may be given
    Visibilities,  \* what callers ask of it: some of "auto", "headed", "headless"
    Callers,       \* calls of ensureContext that can be under way at once
    MaxContexts,   \* MAX_ACTIVE_BROWSER_PROFILES
    Lively         \* bound: only these are swept, recoloured, and lose their browser

ASSUME ContextAssumption ==
    /\ IsFiniteSet(Profiles) /\ MaxContexts \in Nat \ {0}
    /\ \A p \in Profiles : Visibilities[p] \subseteq {"auto", "headed", "headless"}

VARIABLES
    wanted,    \* the configured setting of each profile
    browser,   \* the process that runs on the profile's directory
    endpoint,  \* there is a DevToolsActivePort, of this browser or of one that ended
    session,   \* the session file
    ctx,       \* this.contexts
    call,      \* the calls of ensureContext and what their callers do around it
    lane,      \* creationLane: the calls that wait for it, the head has it
    mode       \* "off", "serving", or the shutdown under way: "closing", "detaching"

vars == <<wanted, browser, endpoint, session, ctx, call, lane, mode>>
world == <<wanted, browser, endpoint, session>>

NoBrowser == [state |-> "none"]
NoSession == [settings |-> "none"]
NoContext == [state |-> "none"]
NoCall == [at |-> "none"]

Effective(v) == IF v = "headed" THEN "headed" ELSE "headless"
Signature(b) == [settings |-> b.settings, vis |-> b.vis]
\* "auto" takes a browser of either visibility; another request takes its own.
Fits(x, r) == x.settings = r.settings /\ (r.vis = "auto" \/ x.vis = Effective(r.vis))

Running(p) == browser[p] # NoBrowser
Ready(p) == Running(p) /\ browser[p].state = "ready"
Attached(p) == ctx[p] # NoContext
Open(p) == Attached(p) /\ ctx[p].state = "open"
Closing(p) == Attached(p) /\ ctx[p].state = "closing"
Usable(p) == Open(p) /\ ctx[p].connected
Contexts == {p \in Profiles : Attached(p)}

Init ==
    /\ wanted \in {w \in [Profiles -> UNION {Settings[p] : p \in Profiles}] :
                      \A p \in Profiles : w[p] \in Settings[p]}
    /\ browser = [p \in Profiles |-> NoBrowser]
    /\ endpoint = [p \in Profiles |-> FALSE]
    /\ session = [p \in Profiles |-> NoSession]
    /\ ctx = [p \in Profiles |-> NoContext]
    /\ call = [c \in Callers |-> NoCall]
    /\ lane = <<>>
    /\ mode = "off"

-----------------------------------------------------------------------------
(* Closing.  closeActiveContext tells the browser to end, waits for its    *)
(* process where it knows one, removes both files, and forgets the context.*)

Leaving(p) == [browser EXCEPT ![p] = [state |-> "leaving"]]
\* What is told to end: a browser one is connected to, or whose process one knows.
Told(p, x) == IF Running(p) /\ (x.connected \/ x.pid) THEN Leaving(p) ELSE browser

ClosingContext(x) == [state |-> "closing", pid |-> x.pid]

BeginClose(p) ==
    IF Open(p)
    THEN /\ ctx' = [ctx EXCEPT ![p] = ClosingContext(@)]
         /\ browser' = Told(p, ctx[p])
    ELSE UNCHANGED <<ctx, browser>>

RemoveFiles(p) ==
    /\ endpoint' = [endpoint EXCEPT ![p] = FALSE]
    /\ session' = [session EXCEPT ![p] = NoSession]

EndClose(p) ==
    /\ Closing(p)
    /\ ctx[p].pid => ~Running(p)
    /\ RemoveFiles(p)
    /\ ctx' = [ctx EXCEPT ![p] = NoContext]
    /\ call' = [c \in Callers |->
                   IF call[c].at = "ending" /\ call[c].profile = p
                   THEN [call[c] EXCEPT !.at = "saving"] ELSE call[c]]
    /\ UNCHANGED <<wanted, browser, lane, mode>>

\* The context's close event; nobody listens if it came before the context was ready.
CloseHeard(p) ==
    /\ Open(p) /\ ctx[p].listening /\ ~ctx[p].connected
    /\ BeginClose(p)
    /\ UNCHANGED <<wanted, endpoint, session, call, lane, mode>>

-----------------------------------------------------------------------------
(* Calls.  A job uses a profile; the sweep attaches to whatever runs; a    *)
(* change of colour closes the profile and then saves the setting.         *)

NewCall(c, p, kind, v) ==
    call' = [call EXCEPT ![c] = [at |-> "resolving", profile |-> p, kind |-> kind, vis |-> v,
                                 settings |-> wanted[p]]]

Use(c, p, v) ==
    /\ mode = "serving" /\ call[c] = NoCall
    /\ NewCall(c, p, "use", v)
    /\ UNCHANGED <<world, ctx, lane, mode>>

Sweep(c, p) ==
    /\ p \in Lively
    /\ mode = "serving" /\ call[c] = NoCall /\ ~Attached(p)
    /\ \A d \in Callers : call[d] # NoCall => call[d].kind # "sweep"
    /\ NewCall(c, p, "sweep", "auto")
    /\ UNCHANGED <<world, ctx, lane, mode>>

Recolour(c, p) ==
    /\ p \in Lively
    /\ mode = "serving" /\ call[c] = NoCall
    /\ \A d \in Callers : call[d] # NoCall /\ call[d].profile = p => call[d].kind = "sweep"
    /\ NewCall(c, p, "recolour", "auto")
    /\ UNCHANGED <<world, ctx, lane, mode>>

\* How a call goes on once it has its context.
Handed(c) ==
    LET at == [use |-> "using", recolour |-> "closing"]
    IN [call EXCEPT ![c] = IF @.kind = "sweep" THEN NoCall
                           ELSE [at |-> at[@.kind], kind |-> @.kind, profile |-> @.profile]]

\* Mutant of Ensure: whatever context is open will do.
EnsureAny(c) ==
    /\ call[c].at = "resolving"
    /\ IF Usable(call[c].profile)
       THEN call' = Handed(c) /\ UNCHANGED lane
       ELSE /\ call' = [call EXCEPT ![c].at = "queued"]
            /\ lane' = Append(lane, c)
    /\ UNCHANGED <<world, ctx, mode>>

\* The resolver has answered: take the context that fits, or queue for the lane.
Ensure(c) ==
    /\ call[c].at = "resolving"
    /\ LET p == call[c].profile
       IN IF Usable(p) /\ Fits(ctx[p], call[c])
          THEN call' = Handed(c) /\ UNCHANGED lane
          ELSE /\ call' = [call EXCEPT ![c].at = "queued"]
               /\ lane' = Append(lane, c)
    /\ UNCHANGED <<world, ctx, mode>>

Has(c, at) == lane # <<>> /\ Head(lane) = c /\ call[c].at = at
Goto(c, at) == call' = [call EXCEPT ![c].at = at] /\ UNCHANGED lane
Finish(c) == call' = [call EXCEPT ![c] = NoCall] /\ lane' = Tail(lane)
Hand(c) == call' = Handed(c) /\ lane' = Tail(lane)

StartConnecting(c) ==
    IF call[c].kind = "use" /\ Cardinality(Contexts) >= MaxContexts
    THEN Finish(c)
    ELSE Goto(c, "connecting")

\* Mutant of Begin: a browser that does not fit is closed to be started anew.
BeginRestarting(c) ==
    /\ Has(c, "queued")
    /\ LET p == call[c].profile
       IN \/ mode # "serving" /\ Finish(c) /\ UNCHANGED <<ctx, browser>>
          \/ /\ mode = "serving" /\ Usable(p) /\ Fits(ctx[p], call[c])
             /\ Hand(c)
             /\ UNCHANGED <<ctx, browser>>
          \/ /\ mode = "serving" /\ Attached(p) /\ ~(Usable(p) /\ Fits(ctx[p], call[c]))
             /\ BeginClose(p)
             /\ Goto(c, "awaiting")
          \/ /\ mode = "serving" /\ ~Attached(p)
             /\ StartConnecting(c)
             /\ UNCHANGED <<ctx, browser>>
    /\ UNCHANGED <<wanted, endpoint, session, mode>>

Begin(c) ==
    /\ Has(c, "queued")
    /\ LET p == call[c].profile
       IN \/ mode # "serving" /\ Finish(c) /\ UNCHANGED <<ctx, browser>>
          \/ /\ mode = "serving" /\ Usable(p)
             /\ IF Fits(ctx[p], call[c]) THEN Hand(c) ELSE Finish(c)
             /\ UNCHANGED <<ctx, browser>>
          \/ /\ mode = "serving" /\ Attached(p) /\ ~Usable(p)
             /\ BeginClose(p)
             /\ Goto(c, "awaiting")
          \/ /\ mode = "serving" /\ ~Attached(p)
             /\ StartConnecting(c)
             /\ UNCHANGED <<ctx, browser>>
    /\ UNCHANGED <<wanted, endpoint, session, mode>>

Awaited(c) ==
    /\ Has(c, "awaiting") /\ ~Attached(call[c].profile)
    /\ StartConnecting(c)
    /\ UNCHANGED <<world, ctx, mode>>

-----------------------------------------------------------------------------
(* Finding or starting the browser                                         *)

Context(c, vis, pid) ==
    [settings |-> call[c].settings, vis |-> vis, pid |-> pid,
     by |-> IF call[c].kind = "use" THEN "request" ELSE "sweep",
     connected |-> TRUE, listening |-> TRUE, state |-> "open"]

Aborting(c, pid) ==
    [at |-> "aborting", profile |-> call[c].profile, kind |-> call[c].kind, pid |-> pid]

\* After the launch the manager looks again whether it is being shut down.
Got(c, x) ==
    /\ call' = [call EXCEPT ![c] = IF mode = "serving"
                                   THEN [at |-> "restoring", profile |-> @.profile,
                                         kind |-> @.kind, vis |-> @.vis,
                                         settings |-> @.settings, got |-> x]
                                   ELSE Aborting(c, x.pid)]
    /\ UNCHANGED lane

\* connectResidentForSupervision: the endpoint is all it asks for.
ConnectResident(c) ==
    /\ Has(c, "connecting") /\ call[c].kind # "use"
    /\ LET p == call[c].profile
           x == Context(c, IF session[p] = NoSession THEN "headed" ELSE session[p].vis,
                        session[p] # NoSession)
       IN \/ /\ ~endpoint[p]
             /\ IF call[c].kind = "recolour" THEN Hand(c) ELSE Finish(c)
             /\ UNCHANGED browser
          \/ /\ endpoint[p]
             /\ Finish(c)
             /\ UNCHANGED browser
          \/ /\ endpoint[p] /\ Ready(p)
             /\ Got(c, x)
             /\ browser' = IF mode = "serving" THEN browser ELSE Told(p, x)
    /\ UNCHANGED <<wanted, endpoint, session, ctx, mode>>

\* connectExistingCdpManagedContext
ConnectExisting(c) ==
    /\ Has(c, "connecting") /\ call[c].kind = "use"
    /\ LET p == call[c].profile
           x == Context(c, IF session[p] = NoSession THEN browser[p].vis ELSE session[p].vis, TRUE)
       IN \/ ~endpoint[p] /\ Goto(c, "spawning") /\ UNCHANGED <<browser, session>>
          \/ endpoint[p] /\ Finish(c) /\ UNCHANGED <<browser, session>>
          \/ /\ endpoint[p] /\ Ready(p)
             /\ session[p] # NoSession /\ ~Fits(session[p], call[c])
             /\ browser' = Leaving(p)
             /\ Goto(c, "replacing")
             /\ UNCHANGED session
          \/ /\ endpoint[p] /\ Ready(p)
             /\ IF session[p] = NoSession
                THEN \* verifiedLegacyResidentSession, by the command line of the process
                     /\ Fits(browser[p], call[c])
                     /\ session' = [session EXCEPT ![p] = Signature(browser[p])]
                ELSE Fits(session[p], call[c]) /\ UNCHANGED session
             /\ Got(c, x)
             /\ browser' = IF mode = "serving" THEN browser ELSE Leaving(p)
    /\ UNCHANGED <<wanted, endpoint, ctx, mode>>

Replace(c) ==
    /\ Has(c, "replacing") /\ ~Running(call[c].profile)
    /\ RemoveFiles(call[c].profile)
    /\ Goto(c, "spawning")
    /\ UNCHANGED <<wanted, browser, ctx, mode>>

\* On a directory in use the new process exits; `own` is whether it stays.
Spawn(c) ==
    /\ Has(c, "spawning")
    /\ LET p == call[c].profile
       IN /\ endpoint' = [endpoint EXCEPT ![p] = FALSE]
          /\ browser' = IF Running(p) THEN browser
                        ELSE [browser EXCEPT ![p] =
                                  [settings |-> call[c].settings, vis |-> Effective(call[c].vis),
                                   state |-> "starting", recorded |-> FALSE]]
          /\ call' = [call EXCEPT ![c] = [at |-> "launching", own |-> ~Running(p), profile |-> p,
                                          kind |-> @.kind, vis |-> @.vis, settings |-> @.settings]]
    /\ UNCHANGED <<wanted, session, ctx, lane, mode>>

Launched(c) ==
    /\ Has(c, "launching")
    /\ LET p == call[c].profile
           own == call[c].own
       IN /\ endpoint[p] /\ Ready(p)
          /\ session' = [session EXCEPT ![p] =
                             [settings |-> call[c].settings, vis |-> Effective(call[c].vis)]]
          /\ Got(c, Context(c, Effective(call[c].vis), own))
          /\ browser' = IF mode = "serving"
                         THEN [browser EXCEPT ![p] = [@ EXCEPT !.recorded = own]]
                         ELSE Leaving(p)
    /\ UNCHANGED <<wanted, endpoint, ctx, mode>>

\* The process exits, its endpoint does not come in time, or connecting to it fails.
LaunchBreaks(c) ==
    /\ Has(c, "launching")
    /\ LET p == call[c].profile
       IN /\ call' = [call EXCEPT ![c] = Aborting(c, @.own)]
          /\ browser' = IF call[c].own /\ Running(p) THEN Leaving(p) ELSE browser
    /\ UNCHANGED <<wanted, endpoint, session, ctx, lane, mode>>

Aborted(c) ==
    /\ Has(c, "aborting")
    /\ call[c].pid => ~Running(call[c].profile)
    /\ RemoveFiles(call[c].profile)
    /\ Finish(c)
    /\ UNCHANGED <<wanted, browser, ctx, mode>>

\* restorePages, then the context is in service.
Opened(c) ==
    /\ Has(c, "restoring")
    /\ LET p == call[c].profile
       IN ctx' = [ctx EXCEPT ![p] = [call[c].got EXCEPT !.connected = Running(p),
                                                         !.listening = Running(p)]]
    /\ Hand(c)
    /\ UNCHANGED <<world, mode>>

\* Mutant of RestoreFails: the files go as after a launch that failed.
RestoreFailsCleaned(c) ==
    /\ Has(c, "restoring")
    /\ Finish(c)
    /\ RemoveFiles(call[c].profile)
    /\ UNCHANGED <<wanted, browser, ctx, mode>>

RestoreFails(c) ==
    /\ Has(c, "restoring")
    /\ Finish(c)
    /\ UNCHANGED <<world, ctx, mode>>

-----------------------------------------------------------------------------
(* What callers do with a context                                          *)

Done(c) ==
    /\ call[c].at = "using"
    /\ call' = [call EXCEPT ![c] = NoCall]
    /\ UNCHANGED <<world, ctx, lane, mode>>

\* runWithProfile sees its operation fail because the browser is gone.
UseBreaks(c) ==
    /\ call[c].at = "using"
    /\ Attached(call[c].profile) /\ ~Usable(call[c].profile)
    /\ BeginClose(call[c].profile)
    /\ call' = [call EXCEPT ![c] = NoCall]
    /\ UNCHANGED <<wanted, endpoint, session, lane, mode>>

CloseProfile(c) ==
    /\ call[c].at = "closing"
    /\ BeginClose(call[c].profile)
    /\ call' = [call EXCEPT ![c].at = IF Attached(call[c].profile) THEN "ending" ELSE "saving"]
    /\ UNCHANGED <<wanted, endpoint, session, lane, mode>>

SaveColour(c) ==
    /\ call[c].at = "saving"
    /\ \E s \in Settings[call[c].profile] : wanted' = [wanted EXCEPT ![call[c].profile] = s]
    /\ call' = [call EXCEPT ![c] = NoCall]
    /\ UNCHANGED <<browser, endpoint, session, ctx, lane, mode>>

\* The proxy is changed in the configuration alone.
ChangeProxy(p) ==
    /\ \E s \in Settings[p] : wanted' = [wanted EXCEPT ![p] = s]
    /\ UNCHANGED <<browser, endpoint, session, ctx, call, lane, mode>>

-----------------------------------------------------------------------------
(* The daemon.  quiesce and shutdown of the controller wait for its other  *)
(* operations; the manager then waits for its lane.                        *)

Start ==
    /\ mode = "off"
    /\ mode' = "serving"
    /\ UNCHANGED <<world, ctx, call, lane>>

Stop(how) ==
    /\ mode = "serving"
    /\ \A c \in Callers : call[c] # NoCall /\ call[c].kind = "recolour" => call[c].at = "saving"
    /\ mode' = how
    /\ UNCHANGED <<world, ctx, call, lane>>

\* shutdown: every context is closed at once.
CloseAll ==
    /\ mode = "closing" /\ lane = <<>>
    /\ \E p \in Profiles : Open(p)
    /\ ctx' = [p \in Profiles |-> IF Open(p) THEN ClosingContext(ctx[p]) ELSE ctx[p]]
    /\ browser' = [p \in Profiles |-> IF Open(p) THEN Told(p, ctx[p])[p] ELSE browser[p]]
    /\ UNCHANGED <<wanted, endpoint, session, call, lane, mode>>

Quiesced ==
    /\ mode = "closing" /\ lane = <<>> /\ Contexts = {}
    /\ \A c \in Callers : call[c] = NoCall
    /\ mode' = "off"
    /\ UNCHANGED <<world, ctx, call, lane>>

\* What a daemon that goes away leaves: its memory is gone, files and browsers stay.
Gone ==
    /\ ctx' = [p \in Profiles |-> NoContext]
    /\ call' = [c \in Callers |-> NoCall]
    /\ lane' = <<>>
    /\ mode' = "off"
    /\ UNCHANGED world

Detach == mode = "detaching" /\ lane = <<>> /\ Gone
Crash == mode # "off" /\ Gone

-----------------------------------------------------------------------------
(* The browsers, and the people who use them                               *)

BrowserReady(p) ==
    /\ Running(p) /\ browser[p].state = "starting"
    /\ browser' = [browser EXCEPT ![p] = [@ EXCEPT !.state = "ready"]]
    /\ endpoint' = [endpoint EXCEPT ![p] = TRUE]
    /\ UNCHANGED <<wanted, session, ctx, call, lane, mode>>

Disconnected(p) ==
    IF Open(p) THEN [ctx EXCEPT ![p].connected = FALSE] ELSE ctx

\* A browser leaves its files behind when it ends.
Ends(p) ==
    /\ browser' = [browser EXCEPT ![p] = NoBrowser]
    /\ ctx' = Disconnected(p)
    /\ UNCHANGED <<wanted, endpoint, session, call, lane, mode>>

BrowserExits(p) == Running(p) /\ browser[p].state = "leaving" /\ Ends(p)
BrowserEnds(p) == p \in Lively /\ Running(p) /\ browser[p].state # "leaving" /\ Ends(p)

ConnectionLost(p) ==
    /\ p \in Lively /\ Usable(p)
    /\ ctx' = Disconnected(p)
    /\ UNCHANGED <<world, call, lane, mode>>

Proceed(c) ==
    \/ Ensure(c) \/ Begin(c) \/ Awaited(c)
    \/ ConnectResident(c) \/ ConnectExisting(c) \/ Replace(c) \/ Spawn(c)
    \/ Launched(c) \/ LaunchBreaks(c) \/ Aborted(c) \/ Opened(c) \/ RestoreFails(c)
    \/ Done(c) \/ UseBreaks(c) \/ CloseProfile(c) \/ SaveColour(c)

Next ==
    \/ \E c \in Callers, p \in Profiles :
          (\E v \in Visibilities[p] : Use(c, p, v)) \/ Sweep(c, p) \/ Recolour(c, p)
    \/ \E c \in Callers : Proceed(c)
    \/ \E p \in Profiles :
          EndClose(p) \/ CloseHeard(p) \/ ChangeProxy(p) \/ BrowserReady(p) \/ BrowserExits(p)
             \/ BrowserEnds(p) \/ ConnectionLost(p)
    \/ Start \/ Stop("closing") \/ Stop("detaching") \/ CloseAll \/ Quiesced \/ Detach \/ Crash

Spec == Init /\ [][Next]_vars

-----------------------------------------------------------------------------
(***************************************************************************)
(* A browser that was launched and recorded can be found again for as long *)
(* as it runs and nobody told it to end, by whichever daemon comes next:   *)
(* its endpoint is there and its session file says what it is.             *)
(***************************************************************************)
BrowsersReachable ==
    \A p \in Profiles : Ready(p) /\ browser[p].recorded =>
        endpoint[p] /\ session[p] = Signature(browser[p])

\* The request takes a browser as it is.
Suits(b, r) == b.settings = r.settings /\ r.vis \in {"auto", b.vis}

(***************************************************************************)
(* A request gets a browser of the setting and visibility it asked for; if *)
(* its context is new, it is one of at most MaxContexts.  The exceptions   *)
(* are a context the sweep attached, which takes the setting of the day    *)
(* for that of the browser, and a browser whose launcher died before it    *)
(* wrote the session file.                                                 *)
(***************************************************************************)
HandedAsAsked ==
    [][\A c \in Callers : call[c].at # "using" /\ call'[c].at = "using" =>
          LET p == call[c].profile
          IN /\ Attached(p)'
             /\ ctx'[p].by = "request" /\ Ready(p)' /\ browser'[p].recorded =>
                    Suits(browser'[p], call[c])
             /\ ~Attached(p) => Cardinality(Contexts') <= MaxContexts]_vars

(***************************************************************************)
(* The daemon tells a browser to end only when it quiesces, when the       *)
(* profile is recoloured, when it lost the connection it had, or, nobody   *)
(* being attached, when the browser is not what the request at the head of *)
(* the lane needs, its launch failed, or the daemon was stopped meanwhile. *)
(* A request that does not fit never ends the browser others work in.      *)
(***************************************************************************)
ToldToEnd(p) == Ready(p) /\ Running(p)' /\ browser'[p].state = "leaving"
BrowsersPreserved ==
    [][\A p \in Profiles : ToldToEnd(p) =>
          /\ Usable(p) => \/ mode = "closing"
                          \/ \E c \in Callers : call[c].at = "closing" /\ call[c].profile = p
          /\ ~Attached(p) =>
                \E c \in Callers :
                    /\ call[c].at \in {"connecting", "launching"} /\ call[c].profile = p
                    /\ mode = "serving" /\ browser[p].recorded =>
                          call[c].at = "connecting" /\ ~Suits(browser[p], call[c])]_vars
=============================================================================
