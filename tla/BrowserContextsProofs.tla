------------------------- MODULE BrowserContextsProofs -------------------------
(***************************************************************************)
(* Proofs about BrowserContexts, for any profiles, settings, callers and   *)
(* limit: a recorded browser stays reachable, a request is handed the      *)
(* browser it asked for, and no browser is told to end for another's sake. *)
(***************************************************************************)
EXTENDS BrowserContexts, FiniteSetTheorems, TLAPS

(* What a call can look like at each await.                                *)

Vis == {"auto", "headed", "headless"}
Shown == {"headed", "headless"}
AllSettings == UNION {Settings[p] : p \in Profiles}
Kinds == {"use", "sweep", "recolour"}

Browsers == [settings : AllSettings, vis : Shown, state : {"starting", "ready"},
             recorded : BOOLEAN]
Sessions == [settings : AllSettings, vis : Shown]
OpenContexts == [settings : AllSettings, vis : Shown, pid : BOOLEAN, by : {"request", "sweep"},
                 connected : BOOLEAN, listening : BOOLEAN, state : {"open"}]
ClosingContexts == [state : {"closing"}, pid : BOOLEAN]

Asking == [at : {"resolving", "queued", "awaiting", "connecting", "replacing", "spawning"},
           profile : Profiles, kind : Kinds, vis : Vis, settings : AllSettings]
Launches == [at : {"launching"}, own : BOOLEAN, profile : Profiles, kind : {"use"}, vis : Vis,
             settings : AllSettings]
Abortions == [at : {"aborting"}, profile : Profiles, kind : Kinds, pid : BOOLEAN]
Restorations == [at : {"restoring"}, profile : Profiles, kind : Kinds, vis : Vis,
                 settings : AllSettings, got : OpenContexts]
Holding == [at : {"using", "closing", "ending", "saving"}, kind : {"use", "recolour"},
            profile : Profiles]

TypeOK ==
    /\ wanted \in [Profiles -> AllSettings]
    /\ browser \in [Profiles -> {NoBrowser, [state |-> "leaving"]} \union Browsers]
    /\ endpoint \in [Profiles -> BOOLEAN]
    /\ session \in [Profiles -> {NoSession} \union Sessions]
    /\ ctx \in [Profiles -> {NoContext} \union OpenContexts \union ClosingContexts]
    /\ call \in [Callers -> {NoCall} \union Asking \union Launches \union Abortions
                                \union Restorations \union Holding]
    /\ lane \in Seq(Callers)
    /\ mode \in {"off", "serving", "closing", "detaching"}

-----------------------------------------------------------------------------
(* The inductive invariant                                                 *)

\* Stages that only the head of the lane is in; in all but the first its profile has no context.
Working == {"connecting", "replacing", "spawning", "launching", "aborting", "restoring"}
Busy == {"awaiting"} \union Working

LaneSound ==
    /\ \A i, k \in 1..Len(lane) : lane[i] = lane[k] => i = k
    /\ \A i \in 1..Len(lane) : call[lane[i]].at = "queued" \/ (i = 1 /\ call[lane[i]].at \in Busy)
    /\ \A c \in Callers : call[c].at \in Busy => Len(lane) > 0 /\ lane[1] = c

\* Nobody could find the browser again, because its launcher did not get to record it.
Hidden(p) == Ready(p) => ~browser[p].recorded
Matches(x, p) ==
    x.by = "request" /\ Ready(p) /\ browser[p].recorded => Signature(browser[p]) = Signature(x)

BrowserSound(p) ==
    /\ Running(p) /\ browser[p].state = "starting" => ~browser[p].recorded
    /\ Ready(p) /\ browser[p].recorded => endpoint[p] /\ session[p] = Signature(browser[p])

ContextSound(p) ==
    /\ Attached(p) /\ ~ctx[p].pid => Hidden(p)
    /\ Open(p) => Matches(ctx[p], p)

CallSound(c) ==
    LET p == call[c].profile
    IN /\ call[c].at \in Working => ctx[p] = NoContext
       /\ call[c].at \in {"spawning", "launching", "aborting"} => Hidden(p)
       /\ call[c].at \in {"replacing", "spawning"} => call[c].kind = "use"
       /\ call[c].at = "launching" /\ call[c].own /\ Running(p) /\ browser[p].state # "leaving" =>
             /\ browser[p].settings = call[c].settings
             /\ browser[p].vis = Effective(call[c].vis)
       /\ call[c].at = "restoring" =>
             /\ ~call[c].got.pid => Hidden(p)
             /\ Matches(call[c].got, p)
             /\ call[c].kind = "use" => Fits(call[c].got, call[c])
       /\ call[c].at \in Working \ {"aborting"} /\ call[c].kind = "use" =>
             Cardinality(Contexts) < MaxContexts
       /\ call[c].at = "using" => call[c].kind = "use"

IInv ==
    /\ TypeOK /\ LaneSound
    /\ \A p \in Profiles : BrowserSound(p) /\ ContextSound(p)
    /\ \A c \in Callers : CallSound(c)

CallSet == {NoCall} \union Asking \union Launches \union Abortions \union Restorations \union Holding
ContextSet == {NoContext} \union OpenContexts \union ClosingContexts
BrowserSet == {NoBrowser, [state |-> "leaving"]} \union Browsers

\* What the stage of a call says of its record.
LEMMA ShapeOf ==
    ASSUME TypeOK, NEW c \in Callers
    PROVE  /\ call[c].at \in {"resolving", "queued", "awaiting", "connecting", "replacing",
                              "spawning"} => call[c] \in Asking
           /\ call[c].at = "launching" => call[c] \in Launches
           /\ call[c].at = "aborting" => call[c] \in Abortions
           /\ call[c].at = "restoring" => call[c] \in Restorations
           /\ call[c].at \in {"using", "closing", "ending", "saving"} => call[c] \in Holding
           /\ call[c].at \in Busy \union {"queued"} => call[c].profile \in Profiles
  BY DEF TypeOK, NoCall, Asking, Launches, Abortions, Restorations, Holding, Busy, Working

\* What the state of a context says of its record.
LEMMA ContextShape ==
    ASSUME TypeOK, NEW p \in Profiles
    PROVE  /\ Open(p) => ctx[p] \in OpenContexts
           /\ Closing(p) => ctx[p] \in ClosingContexts
           /\ Attached(p) => Open(p) \/ Closing(p)
  BY DEF TypeOK, Open, Closing, Attached, NoContext, OpenContexts, ClosingContexts

LEMMA BrowserShape ==
    ASSUME TypeOK, NEW p \in Profiles
    PROVE  /\ Ready(p) => browser[p] \in Browsers
           /\ Running(p) /\ browser[p].state # "leaving" => browser[p] \in Browsers
  BY DEF TypeOK, Ready, Running, NoBrowser, Browsers

LEMMA SessionShape ==
    ASSUME NEW b \in Browsers
    PROVE  Signature(b) # NoSession /\ Signature(b) \in Sessions
  BY DEF Signature, NoSession, Browsers, Sessions

-----------------------------------------------------------------------------
(* The lane                                                                *)

InLane == Busy \union {"queued"}

\* The head of the lane is the only call beyond waiting.
LEMMA OnlyHead ==
    ASSUME TypeOK, LaneSound, lane # <<>>, NEW d \in Callers, d # Head(lane)
    PROVE  call[d].at \notin Busy
  BY DEF TypeOK, LaneSound

LEMMA LaneStays ==
    ASSUME TypeOK, LaneSound, lane' = lane,
           \A d \in Callers : \/ call'[d].at = call[d].at
                              \/ call[d].at \notin InLane /\ call'[d].at \notin InLane
    PROVE  LaneSound'
  BY DEF TypeOK, LaneSound, InLane

LEMMA HeadMoves ==
    ASSUME TypeOK, LaneSound, NEW c \in Callers, lane # <<>>, Head(lane) = c, lane' = lane,
           call'[c].at \in InLane, \A d \in Callers \ {c} : call'[d] = call[d]
    PROVE  LaneSound'
  <1>1. \A i \in 1..Len(lane) : lane[i] \in Callers /\ (lane[i] = c => i = 1)
    BY DEF TypeOK, LaneSound
  <1>2. \A d \in Callers \ {c} : call[d].at \notin Busy
    BY OnlyHead
  <1> QED
    BY <1>1, <1>2 DEF TypeOK, LaneSound, InLane

LEMMA HeadLeaves ==
    ASSUME TypeOK, LaneSound, NEW c \in Callers, lane # <<>>, Head(lane) = c, lane' = Tail(lane),
           call'[c].at \notin InLane, \A d \in Callers \ {c} : call'[d] = call[d]
    PROVE  LaneSound'
  <1>1. /\ Len(lane') = Len(lane) - 1
        /\ \A i \in 1..Len(lane') : lane'[i] = lane[i + 1] /\ i + 1 \in 1..Len(lane)
    BY DEF TypeOK
  <1>2. \A i \in 1..Len(lane) : lane[i] \in Callers /\ (lane[i] = c => i = 1)
    BY DEF TypeOK, LaneSound
  <1>3. \A d \in Callers : call'[d].at \notin Busy
    BY OnlyHead DEF InLane
  <1>4. \A i \in 1..Len(lane') : call'[lane'[i]].at = "queued"
    BY <1>1, <1>2 DEF LaneSound
  <1>5. \A i, k \in 1..Len(lane') : lane'[i] = lane'[k] => i = k
    BY <1>1 DEF LaneSound, TypeOK
  <1> QED
    BY <1>3, <1>4, <1>5 DEF LaneSound

LEMMA CallQueues ==
    ASSUME TypeOK, LaneSound, NEW c \in Callers, lane' = Append(lane, c),
           call[c].at \notin InLane, call'[c].at = "queued",
           \A d \in Callers \ {c} : call'[d] = call[d]
    PROVE  LaneSound'
  <1>1. /\ Len(lane') = Len(lane) + 1 /\ lane'[Len(lane) + 1] = c
        /\ \A i \in 1..Len(lane) : lane'[i] = lane[i]
    BY DEF TypeOK
  <1>2. \A i \in 1..Len(lane) : lane[i] \in Callers \ {c}
    BY DEF TypeOK, LaneSound, InLane
  <1>3. \A i \in 1..Len(lane') : call'[lane'[i]].at = "queued" \/ (i = 1 /\ call'[lane'[i]].at \in Busy)
    BY <1>1, <1>2 DEF LaneSound, TypeOK
  <1>4. \A i, k \in 1..Len(lane') : lane'[i] = lane'[k] => i = k
    BY <1>1, <1>2 DEF LaneSound, TypeOK
  <1>5. ASSUME NEW d \in Callers, call'[d].at \in Busy PROVE Len(lane') > 0 /\ lane'[1] = d
    <2>1. call[d].at \in Busy
      BY <1>5 DEF Busy, Working
    <2>2. Len(lane) \in Nat /\ Len(lane) > 0 /\ lane[1] = d
      BY <2>1 DEF LaneSound, TypeOK
    <2> QED
      BY <1>1, <2>2
  <1> QED
    BY <1>3, <1>4, <1>5 DEF LaneSound

-----------------------------------------------------------------------------
(* What a step leaves alone                                                *)

\* The browser stays, gets ready, is told to end, or ends.
BrowserKept(p) ==
    \/ browser'[p] = browser[p]
    \/ browser'[p] \in {NoBrowser, [state |-> "leaving"]}
    \/ /\ Running(p) /\ browser[p].state = "starting"
       /\ browser'[p] = [browser[p] EXCEPT !.state = "ready"]

FilesKept(p) == endpoint'[p] = endpoint[p] /\ session'[p] = session[p]

\* The context stays, loses its connection, is closed, or goes.
ContextKept(p) ==
    \/ ctx'[p] \in {ctx[p], NoContext}
    \/ Open(p) /\ ctx'[p] \in {[ctx[p] EXCEPT !.connected = FALSE], ClosingContext(ctx[p])}

ProfileKept(p) == BrowserKept(p) /\ (FilesKept(p) \/ Hidden(p)) /\ ContextKept(p)

LEMMA HiddenKept ==
    ASSUME TypeOK, NEW p \in Profiles, BrowserSound(p), BrowserKept(p), Hidden(p)
    PROVE  Hidden(p)'
  BY BrowserShape DEF BrowserKept, Hidden, BrowserSound, Ready, Running, NoBrowser, Browsers

LEMMA RecordedKept ==
    ASSUME TypeOK, NEW p \in Profiles, BrowserSound(p), BrowserKept(p)
    PROVE  Ready(p)' /\ browser'[p].recorded => Ready(p) /\ browser'[p] = browser[p]
  BY BrowserShape DEF BrowserKept, BrowserSound, Ready, Running, NoBrowser, Browsers

LEMMA ProfileSoundKept ==
    ASSUME TypeOK, NEW p \in Profiles, BrowserSound(p), ContextSound(p), ProfileKept(p)
    PROVE  BrowserSound(p)' /\ ContextSound(p)'
  <1>1. BrowserSound(p)'
    <2>1. Running(p)' /\ browser'[p].state = "starting" => browser'[p] = browser[p]
      BY BrowserShape DEF ProfileKept, BrowserKept, Running, NoBrowser, Browsers
    <2>2. Ready(p)' /\ browser'[p].recorded => browser'[p] = browser[p] /\ ~Hidden(p)
      BY BrowserShape DEF ProfileKept, BrowserKept, BrowserSound, Ready, Running, NoBrowser,
                          Browsers, Hidden
    <2> QED
      BY <2>1, <2>2 DEF ProfileKept, FilesKept, BrowserSound, Signature, Ready, Running
  <1>2. ContextSound(p)'
    <2>1. Attached(p)' /\ ~ctx'[p].pid => Attached(p) /\ ~ctx[p].pid
      BY ContextShape DEF ProfileKept, ContextKept, Attached, Open, Closing, ClosingContext,
                          OpenContexts, ClosingContexts, NoContext
    <2>2. Open(p)' => /\ Open(p) /\ ctx'[p].by = ctx[p].by
                      /\ ctx'[p].settings = ctx[p].settings /\ ctx'[p].vis = ctx[p].vis
      BY ContextShape DEF ProfileKept, ContextKept, Attached, Open, Closing, ClosingContext,
                          OpenContexts, NoContext
    <2>3. Open(p)' => Matches(ctx[p], p)
      BY <2>2 DEF ContextSound
    <2>4. Open(p)' => Matches(ctx[p], p)'
      BY <2>2, <2>3, RecordedKept DEF ProfileKept, Matches, Signature
    <2> QED
      BY <2>1, <2>4, HiddenKept DEF ProfileKept, ContextSound
  <1> QED
    BY <1>1, <1>2

LEMMA ContextsKept ==
    ASSUME ContextAssumption, \A p \in Profiles : ContextKept(p)
    PROVE  /\ Contexts' \subseteq Contexts
           /\ Cardinality(Contexts) \in Nat /\ Cardinality(Contexts') \in Nat
           /\ Cardinality(Contexts') <= Cardinality(Contexts)
  <1>1. Contexts' \subseteq Contexts
    BY DEF ContextKept, Contexts, Attached, Open, NoContext
  <1>2. IsFiniteSet(Contexts)
    BY FS_Subset DEF ContextAssumption, Contexts
  <1> QED
    BY <1>1, <1>2, FS_Subset, FS_CardinalityType

LEMMA CallSoundKept ==
    ASSUME TypeOK, ContextAssumption, NEW c \in Callers, CallSound(c), call'[c] = call[c],
           \A p \in Profiles : BrowserSound(p) /\ ProfileKept(p)
    PROVE  CallSound(c)'
  <1>0. MaxContexts \in Nat
    BY DEF ContextAssumption
  <1>1. CASE call[c].at \notin Working
    BY <1>1 DEF CallSound, Working
  <1>2. CASE call[c].at \in Working
    <2> DEFINE p == call[c].profile
    <2>1. p \in Profiles
      BY <1>2, ShapeOf DEF Busy
    <2>2. ctx'[p] = NoContext
      BY <1>2, <2>1 DEF CallSound, ProfileKept, ContextKept, Open, Attached
    <2>3. Hidden(p) => Hidden(p)'
      BY <2>1, HiddenKept DEF ProfileKept
    <2>4. Ready(p)' /\ browser'[p].recorded => Ready(p) /\ browser'[p] = browser[p]
      BY <2>1, RecordedKept DEF ProfileKept
    <2>5. Running(p)' /\ browser'[p].state # "leaving" =>
             /\ Running(p) /\ browser[p].state # "leaving"
             /\ browser'[p].settings = browser[p].settings /\ browser'[p].vis = browser[p].vis
      <3>1. CASE /\ Running(p) /\ browser[p].state = "starting"
                 /\ browser'[p] = [browser[p] EXCEPT !.state = "ready"]
        <4>1. browser[p] \in Browsers
          BY <2>1, <3>1, BrowserShape
        <4> QED
          BY <3>1, <4>1 DEF Browsers
      <3>2. CASE browser'[p] \in {NoBrowser, [state |-> "leaving"], browser[p]}
        BY <3>2 DEF Running
      <3> QED
        BY <2>1, <3>1, <3>2 DEF ProfileKept, BrowserKept
    <2>6. /\ Cardinality(Contexts) \in Nat /\ Cardinality(Contexts') \in Nat
          /\ Cardinality(Contexts') <= Cardinality(Contexts)
      BY ContextsKept DEF ProfileKept
    <2>7. call[c].at = "restoring" => Matches(call[c].got, p)'
      BY <2>4 DEF CallSound, Matches, Signature
    <2>8. call[c].at \in Working \ {"aborting"} /\ call[c].kind = "use" =>
             Cardinality(Contexts') < MaxContexts
      BY <1>0, <2>6 DEF CallSound
    <2> QED
      BY <2>2, <2>3, <2>5, <2>7, <2>8 DEF CallSound
  <1> QED
    BY <1>1, <1>2

\* A step that leaves the profiles as they are, but for what may always happen to them.
LEMMA QuietStep ==
    ASSUME IInv, ContextAssumption, TypeOK', LaneSound',
           \A p \in Profiles : ProfileKept(p),
           \A d \in Callers : call'[d] = call[d] \/ CallSound(d)'
    PROVE  IInv'
  <1>1. \A p \in Profiles : BrowserSound(p)' /\ ContextSound(p)'
    BY ProfileSoundKept DEF IInv
  <1>2. \A d \in Callers : CallSound(d)'
    BY CallSoundKept DEF IInv
  <1> QED
    BY <1>1, <1>2 DEF IInv

\* A step of the head of the lane: the other calls wait, or are not about a launch.
LEMMA HeadStep ==
    ASSUME IInv, ContextAssumption, TypeOK', LaneSound',
           NEW c \in Callers, lane # <<>>, c = Head(lane),
           \A d \in Callers \ {c} : call'[d] = call[d],
           NEW p \in Profiles,
           \A q \in Profiles \ {p} : ProfileKept(q),
           BrowserSound(p)', ContextSound(p)', CallSound(c)'
    PROVE  IInv'
  <1>1. \A q \in Profiles \ {p} : BrowserSound(q)' /\ ContextSound(q)'
    BY ProfileSoundKept DEF IInv
  <1>2. ASSUME NEW d \in Callers \ {c} PROVE CallSound(d)'
    <2>1. call[d].at \notin Busy /\ call'[d] = call[d]
      BY OnlyHead DEF IInv
    <2> QED
      BY <2>1 DEF IInv, CallSound, Busy, Working
  <1> QED
    BY <1>1, <1>2 DEF IInv

-----------------------------------------------------------------------------
(* Each action                                                             *)

LEMMA AskTyped ==
    ASSUME TypeOK, ContextAssumption, NEW c \in Callers, NEW p \in Profiles, NEW kind \in Kinds,
           NEW v \in Vis, NewCall(c, p, kind, v)
    PROVE  /\ call' \in [Callers -> CallSet]
           /\ call'[c].at = "resolving"
           /\ \A d \in Callers \ {c} : call'[d] = call[d]
  <1>1. wanted[p] \in AllSettings
    BY DEF TypeOK
  <1>2. [at |-> "resolving", profile |-> p, kind |-> kind, vis |-> v, settings |-> wanted[p]]
           \in Asking
    BY <1>1 DEF Asking
  <1> QED
    BY <1>2 DEF TypeOK, NewCall, CallSet

LEMMA NewCallSound ==
    ASSUME IInv, ContextAssumption, NEW c \in Callers, NEW p \in Profiles, NEW kind \in Kinds,
           NEW v \in Vis, NewCall(c, p, kind, v), call[c] = NoCall,
           UNCHANGED <<world, ctx, lane, mode>>
    PROVE  IInv'
  <1>1. /\ call' \in [Callers -> CallSet]
        /\ call'[c].at = "resolving"
        /\ \A d \in Callers \ {c} : call'[d] = call[d]
    BY AskTyped DEF IInv
  <1>2. TypeOK'
    BY <1>1 DEF IInv, TypeOK, world, CallSet
  <1>3. LaneSound'
    BY <1>1, LaneStays DEF IInv, InLane, Busy, Working, NoCall
  <1>4. \A q \in Profiles : ProfileKept(q)
    BY DEF world, ProfileKept, BrowserKept, FilesKept, ContextKept
  <1>5. CallSound(c)'
    BY <1>1 DEF CallSound, Working
  <1> QED
    BY <1>1, <1>2, <1>3, <1>4, <1>5, QuietStep

LEMMA Unmoved ==
    ASSUME NEW p \in Profiles, UNCHANGED <<browser, endpoint, session, ctx>>
    PROVE  ProfileKept(p)
  BY DEF ProfileKept, BrowserKept, FilesKept, ContextKept

\* A call that is handed its context, or needs none any more.
LEMMA HandedSound ==
    ASSUME TypeOK, NEW c \in Callers, call[c] \in Asking \union Restorations, call' = Handed(c)
    PROVE  /\ call' \in [Callers -> CallSet]
           /\ call'[c].at \in {"none", "using", "closing"}
           /\ call'[c].at = "using" => call[c].kind = "use"
           /\ \A d \in Callers \ {c} : call'[d] = call[d]
           /\ CallSound(c)'
  <1> DEFINE at == [use |-> "using", recolour |-> "closing"]
  <1>1. call[c].kind \in Kinds /\ call[c].profile \in Profiles
    BY DEF Asking, Restorations
  <1>2. /\ call'[c] = IF call[c].kind = "sweep" THEN NoCall
                      ELSE [at |-> at[call[c].kind], kind |-> call[c].kind,
                            profile |-> call[c].profile]
        /\ call' \in [Callers -> CallSet \union {call'[c]}]
        /\ \A d \in Callers \ {c} : call'[d] = call[d]
    BY DEF Handed, TypeOK, CallSet
  <1>3. CASE call[c].kind = "sweep"
    BY <1>2, <1>3 DEF NoCall, CallSet, CallSound, Working
  <1>4. CASE call[c].kind = "use"
    <2>1. call'[c] = [at |-> "using", kind |-> "use", profile |-> call[c].profile]
      BY <1>2, <1>4
    <2>2. call'[c] \in Holding
      BY <1>1, <2>1 DEF Holding
    <2> QED
      BY <1>2, <1>4, <2>1, <2>2 DEF CallSet, CallSound, Working
  <1>5. CASE call[c].kind = "recolour"
    <2>1. call'[c] = [at |-> "closing", kind |-> "recolour", profile |-> call[c].profile]
      BY <1>2, <1>5
    <2>2. call'[c] \in Holding
      BY <1>1, <2>1 DEF Holding
    <2> QED
      BY <1>2, <1>5, <2>1, <2>2 DEF CallSet, CallSound, Working
  <1> QED
    BY <1>1, <1>3, <1>4, <1>5 DEF Kinds

\* A call that is over.
LEMMA OverSound ==
    ASSUME TypeOK, NEW c \in Callers, call' = [call EXCEPT ![c] = NoCall]
    PROVE  /\ call' \in [Callers -> CallSet]
           /\ call'[c].at = "none"
           /\ \A d \in Callers \ {c} : call'[d] = call[d]
           /\ CallSound(c)'
  BY DEF TypeOK, CallSet, NoCall, CallSound, Working

LEMMA GotoTyped ==
    ASSUME TypeOK, NEW c \in Callers, call[c] \in Asking,
           NEW at \in {"queued", "awaiting", "connecting", "replacing", "spawning"}, Goto(c, at)
    PROVE  /\ call' \in [Callers -> CallSet]
           /\ call'[c].at = at /\ call'[c].profile = call[c].profile
           /\ call'[c].kind = call[c].kind
           /\ \A d \in Callers \ {c} : call'[d] = call[d]
           /\ lane' = lane
  <1>1. [call[c] EXCEPT !.at = at] \in Asking
    BY DEF Asking
  <1> QED
    BY <1>1 DEF TypeOK, CallSet, Goto, Asking

LEMMA EnsureSound ==
    ASSUME IInv, ContextAssumption, NEW c \in Callers, Ensure(c)
    PROVE  IInv'
  <1>0. TypeOK /\ LaneSound /\ call[c] \in Asking /\ call[c].at = "resolving"
    BY ShapeOf DEF IInv, Ensure
  <1>1. \A p \in Profiles : ProfileKept(p)
    BY Unmoved DEF Ensure, world
  <1>2. CASE call' = Handed(c) /\ UNCHANGED lane
    <2>1. /\ call' \in [Callers -> CallSet] /\ CallSound(c)'
          /\ call'[c].at \notin InLane /\ call[c].at \notin InLane
          /\ \A d \in Callers \ {c} : call'[d] = call[d]
      BY <1>0, <1>2, HandedSound DEF InLane, Busy, Working
    <2>2. LaneSound'
      BY <1>0, <1>2, <2>1, LaneStays
    <2>3. TypeOK'
      BY <1>0, <1>2, <2>1 DEF Ensure, TypeOK, world, CallSet
    <2> QED
      BY <1>1, <2>1, <2>2, <2>3, QuietStep
  <1>3. CASE call' = [call EXCEPT ![c].at = "queued"] /\ lane' = Append(lane, c)
    <2>1. [call[c] EXCEPT !.at = "queued"] \in Asking
      BY <1>0 DEF Asking
    <2>2. /\ call' \in [Callers -> CallSet] /\ call'[c].at = "queued"
          /\ \A d \in Callers \ {c} : call'[d] = call[d]
      BY <1>0, <1>3, <2>1 DEF TypeOK, CallSet, Asking
    <2>3. LaneSound'
      BY <1>0, <1>3, <2>2, CallQueues DEF InLane, Busy, Working
    <2>4. TypeOK'
      BY <1>0, <1>3, <2>2 DEF Ensure, TypeOK, world, CallSet
    <2>5. CallSound(c)'
      BY <2>2 DEF CallSound, Working
    <2> QED
      BY <1>1, <2>2, <2>3, <2>4, <2>5, QuietStep
  <1> QED
    BY <1>2, <1>3 DEF Ensure

LEMMA BeginCloseKeeps ==
    ASSUME TypeOK, NEW p \in Profiles, BeginClose(p)
    PROVE  /\ ctx' \in [Profiles -> ContextSet] /\ browser' \in [Profiles -> BrowserSet]
           /\ \A q \in Profiles : BrowserKept(q) /\ ContextKept(q)
  <1>1. CASE ~Open(p)
    BY <1>1 DEF BeginClose, BrowserKept, ContextKept, TypeOK, ContextSet, BrowserSet
  <1>2. CASE Open(p)
    <2>1. ctx[p] \in OpenContexts
      BY <1>2, ContextShape
    <2>2. ClosingContext(ctx[p]) \in ClosingContexts
      BY <2>1 DEF ClosingContext, OpenContexts, ClosingContexts
    <2>3. ctx' = [ctx EXCEPT ![p] = ClosingContext(@)]
      BY <1>2 DEF BeginClose
    <2>4. browser' = browser \/ browser' = [browser EXCEPT ![p] = [state |-> "leaving"]]
      BY <1>2 DEF BeginClose, Told, Leaving
    <2>5. ctx' \in [Profiles -> ContextSet]
      BY <2>2, <2>3 DEF TypeOK, ContextSet
    <2>6. browser' \in [Profiles -> BrowserSet]
      BY <2>4 DEF TypeOK, BrowserSet
    <2>7. ASSUME NEW q \in Profiles PROVE BrowserKept(q) /\ ContextKept(q)
      BY <1>2, <2>3, <2>4 DEF BrowserKept, ContextKept, TypeOK
    <2> QED
      BY <2>5, <2>6, <2>7
  <1> QED
    BY <1>1, <1>2

\* The head of the lane has found no context of its profile.
LEMMA StartConnectingSound ==
    ASSUME IInv, ContextAssumption, NEW c \in Callers, call[c] \in Asking, ~Attached(call[c].profile),
           lane # <<>>, c = Head(lane), StartConnecting(c), UNCHANGED <<world, ctx, mode>>
    PROVE  IInv'
  <1>0. TypeOK /\ LaneSound
    BY DEF IInv
  <1>1. \A p \in Profiles : ProfileKept(p)
    BY Unmoved DEF world
  <1>2. CASE call[c].kind = "use" /\ Cardinality(Contexts) >= MaxContexts
    <2>1. Finish(c)
      BY <1>2 DEF StartConnecting
    <2>2. /\ call' \in [Callers -> CallSet] /\ CallSound(c)' /\ call'[c].at = "none"
          /\ \A d \in Callers \ {c} : call'[d] = call[d]
      BY <1>0, <2>1, OverSound DEF Finish
    <2>3. LaneSound'
      BY <1>0, <2>1, <2>2, HeadLeaves DEF Finish, InLane, Busy, Working
    <2>4. TypeOK'
      BY <1>0, <2>1, <2>2 DEF TypeOK, Finish, world, CallSet
    <2> QED
      BY <1>1, <2>2, <2>3, <2>4, QuietStep
  <1>3. CASE ~(call[c].kind = "use" /\ Cardinality(Contexts) >= MaxContexts)
    <2>1. /\ call' \in [Callers -> CallSet] /\ call'[c].at = "connecting"
          /\ call'[c].profile = call[c].profile /\ call'[c].kind = call[c].kind
          /\ \A d \in Callers \ {c} : call'[d] = call[d]
          /\ lane' = lane
      BY <1>0, <1>3, GotoTyped DEF StartConnecting
    <2>2. LaneSound'
      BY <1>0, <2>1, HeadMoves DEF InLane, Busy, Working
    <2>3. TypeOK'
      BY <1>0, <2>1 DEF TypeOK, world, CallSet
    <2>4. Contexts' = Contexts
      BY DEF Contexts, Attached
    <2>5. call[c].kind = "use" => Cardinality(Contexts) < MaxContexts
      <3>1. Cardinality(Contexts) \in Nat /\ MaxContexts \in Nat
        BY <1>1, ContextsKept DEF ContextAssumption, ProfileKept
      <3> QED
        BY <1>3, <3>1
    <2>6. CallSound(c)'
      BY <2>1, <2>4, <2>5 DEF CallSound, Working, Attached
    <2> QED
      BY <1>1, <2>1, <2>2, <2>3, <2>6, QuietStep
  <1> QED
    BY <1>2, <1>3

LEMMA BeginSound ==
    ASSUME IInv, ContextAssumption, NEW c \in Callers, Begin(c)
    PROVE  IInv'
  <1> DEFINE p == call[c].profile
  <1>0. /\ TypeOK /\ LaneSound /\ call[c] \in Asking /\ call[c].at = "queued"
        /\ lane # <<>> /\ Head(lane) = c /\ p \in Profiles
    BY ShapeOf DEF IInv, Begin, Has
  <1>1. CASE Finish(c) /\ UNCHANGED <<ctx, browser>>
    <2>1. /\ call' \in [Callers -> CallSet] /\ CallSound(c)' /\ call'[c].at = "none"
          /\ \A d \in Callers \ {c} : call'[d] = call[d]
      BY <1>0, <1>1, OverSound DEF Finish
    <2>2. LaneSound'
      BY <1>0, <1>1, <2>1, HeadLeaves DEF Finish, InLane, Busy, Working
    <2>3. TypeOK'
      BY <1>0, <1>1, <2>1 DEF Begin, TypeOK, Finish, CallSet
    <2>4. \A q \in Profiles : ProfileKept(q)
      BY <1>1, Unmoved DEF Begin
    <2> QED
      BY <2>1, <2>2, <2>3, <2>4, QuietStep
  <1>2. CASE Hand(c) /\ UNCHANGED <<ctx, browser>>
    <2>1. /\ call' \in [Callers -> CallSet] /\ CallSound(c)'
          /\ call'[c].at \in {"none", "using", "closing"}
          /\ \A d \in Callers \ {c} : call'[d] = call[d]
      BY <1>0, <1>2, HandedSound DEF Hand
    <2>2. LaneSound'
      BY <1>0, <1>2, <2>1, HeadLeaves DEF Hand, InLane, Busy, Working
    <2>3. TypeOK'
      BY <1>0, <1>2, <2>1 DEF Begin, TypeOK, Hand, CallSet
    <2>4. \A q \in Profiles : ProfileKept(q)
      BY <1>2, Unmoved DEF Begin
    <2> QED
      BY <2>1, <2>2, <2>3, <2>4, QuietStep
  <1>3. CASE BeginClose(p) /\ Goto(c, "awaiting")
    <2>1. /\ call' \in [Callers -> CallSet] /\ call'[c].at = "awaiting"
          /\ \A d \in Callers \ {c} : call'[d] = call[d]
          /\ lane' = lane
      BY <1>0, <1>3, GotoTyped
    <2>2. LaneSound'
      BY <1>0, <2>1, HeadMoves DEF InLane, Busy, Working
    <2>3. /\ ctx' \in [Profiles -> ContextSet] /\ browser' \in [Profiles -> BrowserSet]
          /\ \A q \in Profiles : BrowserKept(q) /\ ContextKept(q)
      BY <1>0, <1>3, BeginCloseKeeps
    <2>4. TypeOK'
      BY <1>0, <2>1, <2>3 DEF Begin, TypeOK, CallSet, ContextSet, BrowserSet
    <2>5. \A q \in Profiles : ProfileKept(q)
      BY <2>3 DEF Begin, ProfileKept, FilesKept
    <2>6. CallSound(c)'
      BY <2>1 DEF CallSound, Working
    <2> QED
      BY <2>1, <2>2, <2>4, <2>5, <2>6, QuietStep
  <1>4. CASE ~Attached(p) /\ StartConnecting(c) /\ UNCHANGED <<ctx, browser>>
    BY <1>0, <1>4, StartConnectingSound DEF Begin, world
  <1> QED
    BY <1>1, <1>2, <1>3, <1>4 DEF Begin

LEMMA AwaitedSound ==
    ASSUME IInv, ContextAssumption, NEW c \in Callers, Awaited(c)
    PROVE  IInv'
  <1>1. TypeOK /\ call[c] \in Asking
    BY ShapeOf DEF IInv, Awaited, Has
  <1> QED
    BY <1>1, StartConnectingSound DEF Awaited, Has

-----------------------------------------------------------------------------
(* Connecting, launching                                                   *)

\* What the head of the lane is when it has got a browser, or lost it to a shutdown.
LEMMA GotTyped ==
    ASSUME TypeOK, NEW c \in Callers, call[c] \in Asking \union Launches, NEW x \in OpenContexts,
           Got(c, x)
    PROVE  /\ call' \in [Callers -> CallSet] /\ lane' = lane
           /\ \A d \in Callers \ {c} : call'[d] = call[d]
           /\ call'[c].profile = call[c].profile /\ call'[c].kind = call[c].kind
           /\ mode = "serving" =>
                 /\ call'[c].at = "restoring" /\ call'[c].got = x
                 /\ call'[c].vis = call[c].vis /\ call'[c].settings = call[c].settings
           /\ mode # "serving" => call'[c].at = "aborting" /\ call'[c].pid = x.pid
  <1>1. CASE mode = "serving"
    <2> DEFINE r == [at |-> "restoring", profile |-> call[c].profile, kind |-> call[c].kind,
                     vis |-> call[c].vis, settings |-> call[c].settings, got |-> x]
    <2>1. r \in Restorations
      BY DEF Asking, Launches, Restorations, Kinds
    <2>2. call' = [call EXCEPT ![c] = r] /\ lane' = lane
      BY <1>1 DEF Got
    <2> HIDE DEF r
    <2>3. call' \in [Callers -> CallSet] /\ call'[c] = r
      BY <2>1, <2>2 DEF TypeOK, CallSet
    <2> QED
      BY <1>1, <2>2, <2>3 DEF r, TypeOK
  <1>2. CASE mode # "serving"
    <2>1. Aborting(c, x.pid) \in Abortions
      BY DEF Aborting, Asking, Launches, Abortions, Kinds, OpenContexts
    <2>2. call' = [call EXCEPT ![c] = Aborting(c, x.pid)] /\ lane' = lane
      BY <1>2 DEF Got
    <2>3. call' \in [Callers -> CallSet] /\ call'[c] = Aborting(c, x.pid)
      BY <2>1, <2>2 DEF TypeOK, CallSet
    <2> QED
      BY <1>2, <2>2, <2>3 DEF Aborting, TypeOK
  <1> QED
    BY <1>1, <1>2

LEMMA ContextTyped ==
    ASSUME NEW c \in Callers, call[c] \in Asking \union Launches, NEW vis \in Shown,
           NEW pid \in BOOLEAN
    PROVE  Context(c, vis, pid) \in OpenContexts
  BY DEF Context, OpenContexts, Asking, Launches

LEMMA LeavingKeeps ==
    ASSUME TypeOK, NEW p \in Profiles, browser' = Leaving(p)
    PROVE  /\ browser' \in [Profiles -> BrowserSet]
           /\ \A q \in Profiles : BrowserKept(q)
           /\ ~Ready(p)'
  BY DEF TypeOK, Leaving, BrowserSet, BrowserKept, Ready, Running

LEMMA BrowserSame ==
    ASSUME TypeOK, UNCHANGED browser
    PROVE  browser' \in [Profiles -> BrowserSet] /\ \A q \in Profiles : BrowserKept(q)
  BY DEF TypeOK, BrowserSet, BrowserKept

LEMMA ConnectResidentSound ==
    ASSUME IInv, ContextAssumption, NEW c \in Callers, ConnectResident(c),
           NEW p \in Profiles, p = call[c].profile
    PROVE  IInv'
  <1> DEFINE x == Context(c, IF session[p] = NoSession THEN "headed" ELSE session[p].vis,
                          session[p] # NoSession)
  <1>a. /\ Has(c, "connecting") /\ call[c].kind # "use"
        /\ UNCHANGED <<wanted, endpoint, session, ctx, mode>>
    BY DEF ConnectResident
  <1>0. /\ TypeOK /\ LaneSound /\ call[c] \in Asking /\ call[c].at = "connecting"
        /\ lane # <<>> /\ Head(lane) = c /\ call[c].kind # "use"
        /\ UNCHANGED <<wanted, endpoint, session, ctx, mode>>
    BY <1>a, ShapeOf DEF IInv, Has
  <1>1. CASE Hand(c) /\ UNCHANGED browser
    <2>1. /\ call' \in [Callers -> CallSet] /\ CallSound(c)'
          /\ call'[c].at \in {"none", "using", "closing"}
          /\ \A d \in Callers \ {c} : call'[d] = call[d]
      BY <1>0, <1>1, HandedSound DEF Hand
    <2>2. LaneSound'
      BY <1>0, <1>1, <2>1, HeadLeaves DEF Hand, InLane, Busy, Working
    <2>3. TypeOK'
      BY <1>0, <1>1, <2>1 DEF TypeOK, Hand, CallSet
    <2>4. \A q \in Profiles : ProfileKept(q)
      BY <1>0, <1>1, Unmoved
    <2> QED
      BY <2>1, <2>2, <2>3, <2>4, QuietStep
  <1>2. CASE Finish(c) /\ UNCHANGED browser
    <2>1. /\ call' \in [Callers -> CallSet] /\ CallSound(c)' /\ call'[c].at = "none"
          /\ \A d \in Callers \ {c} : call'[d] = call[d]
      BY <1>0, <1>2, OverSound DEF Finish
    <2>2. LaneSound'
      BY <1>0, <1>2, <2>1, HeadLeaves DEF Finish, InLane, Busy, Working
    <2>3. TypeOK'
      BY <1>0, <1>2, <2>1 DEF TypeOK, Finish, CallSet
    <2>4. \A q \in Profiles : ProfileKept(q)
      BY <1>0, <1>2, Unmoved
    <2> QED
      BY <2>1, <2>2, <2>3, <2>4, QuietStep
  <1>3. CASE /\ endpoint[p] /\ Ready(p) /\ Got(c, x)
             /\ browser' = IF mode = "serving" THEN browser ELSE Told(p, x)
    <2>1. /\ x \in OpenContexts /\ x.pid = (session[p] # NoSession) /\ x.by = "sweep" /\ x.connected
      BY <1>0, ContextTyped DEF TypeOK, Sessions, Shown, Context
    <2>2. browser' = IF mode = "serving" THEN browser ELSE Leaving(p)
      BY <1>3, <2>1 DEF Told, Ready
    <2>3. /\ browser' \in [Profiles -> BrowserSet]
          /\ \A q \in Profiles : BrowserKept(q)
          /\ mode # "serving" => ~Ready(p)'
      BY <1>0, <2>2, LeavingKeeps, BrowserSame
    <2> HIDE DEF x
    <2>4. /\ call' \in [Callers -> CallSet] /\ lane' = lane
          /\ \A d \in Callers \ {c} : call'[d] = call[d]
          /\ call'[c].profile = p /\ call'[c].kind = call[c].kind
          /\ mode = "serving" => call'[c].at = "restoring" /\ call'[c].got = x
          /\ mode # "serving" => call'[c].at = "aborting" /\ call'[c].pid = x.pid
      BY <1>0, <1>3, <2>1, GotTyped
    <2>5. LaneSound'
      BY <1>0, <2>4, HeadMoves DEF InLane, Busy, Working
    <2>6. TypeOK'
      BY <1>0, <2>3, <2>4 DEF TypeOK, CallSet, BrowserSet
    <2>7. \A q \in Profiles : ProfileKept(q)
      BY <1>0, <2>3 DEF ProfileKept, FilesKept, ContextKept
    <2>8. session[p] = NoSession => Hidden(p)
      BY <1>0, SessionShape, BrowserShape DEF IInv, BrowserSound, Hidden
    <2>9. ctx'[p] = NoContext
      BY <1>0 DEF IInv, CallSound, Working
    <2>10. CASE mode = "serving"
      <3>1. Hidden(p) => Hidden(p)'
        BY <2>2, <2>10 DEF Hidden, Ready, Running
      <3>2. CallSound(c)'
        BY <1>0, <2>1, <2>4, <2>8, <2>9, <2>10, <3>1 DEF CallSound, Working, Matches
      <3> QED
        BY <2>4, <2>5, <2>6, <2>7, <3>2, QuietStep
    <2>11. CASE mode # "serving"
      <3>1. CallSound(c)'
        BY <2>3, <2>4, <2>9, <2>11 DEF CallSound, Working, Hidden
      <3> QED
        BY <2>4, <2>5, <2>6, <2>7, <3>1, QuietStep
    <2> QED
      BY <2>10, <2>11
  <1> QED
    BY <1>1, <1>2, <1>3 DEF ConnectResident

LEMMA ConnectExistingSound ==
    ASSUME IInv, ContextAssumption, NEW c \in Callers, ConnectExisting(c),
           NEW p \in Profiles, p = call[c].profile
    PROVE  IInv'
  <1> DEFINE x == Context(c, IF session[p] = NoSession THEN browser[p].vis ELSE session[p].vis, TRUE)
  <1>a. /\ Has(c, "connecting") /\ call[c].kind = "use"
        /\ UNCHANGED <<wanted, endpoint, ctx, mode>>
    BY DEF ConnectExisting
  <1>0. /\ TypeOK /\ LaneSound /\ call[c] \in Asking /\ call[c].at = "connecting"
        /\ lane # <<>> /\ Head(lane) = c /\ BrowserSound(p)
    BY <1>a, ShapeOf DEF IInv, Has
  <1>b. ctx'[p] = NoContext /\ \A q \in Profiles : ContextKept(q)
    BY <1>a, <1>0 DEF IInv, CallSound, Working, ContextKept
  <1>c. Cardinality(Contexts) < MaxContexts /\ Contexts' = Contexts
    BY <1>a, <1>0 DEF IInv, CallSound, Working, Contexts, Attached
  <1>1. CASE ~endpoint[p] /\ Goto(c, "spawning") /\ UNCHANGED <<browser, session>>
    <2>1. /\ call' \in [Callers -> CallSet] /\ call'[c].at = "spawning"
          /\ call'[c].profile = p /\ call'[c].kind = "use"
          /\ \A d \in Callers \ {c} : call'[d] = call[d]
          /\ lane' = lane
      BY <1>a, <1>0, <1>1, GotoTyped
    <2>2. LaneSound'
      BY <1>0, <2>1, HeadMoves DEF InLane, Busy, Working
    <2>3. TypeOK'
      BY <1>a, <1>0, <1>1, <2>1 DEF TypeOK, CallSet
    <2>4. \A q \in Profiles : ProfileKept(q)
      BY <1>a, <1>1, Unmoved
    <2>5. Hidden(p)'
      BY <1>0, <1>1 DEF BrowserSound, Hidden, Ready, Running
    <2>6. CallSound(c)'
      BY <1>b, <1>c, <2>1, <2>5 DEF CallSound, Working
    <2> QED
      BY <2>1, <2>2, <2>3, <2>4, <2>6, QuietStep
  <1>2. CASE endpoint[p] /\ Finish(c) /\ UNCHANGED <<browser, session>>
    <2>1. /\ call' \in [Callers -> CallSet] /\ CallSound(c)' /\ call'[c].at = "none"
          /\ \A d \in Callers \ {c} : call'[d] = call[d]
      BY <1>0, <1>2, OverSound DEF Finish
    <2>2. LaneSound'
      BY <1>0, <1>2, <2>1, HeadLeaves DEF Finish, InLane, Busy, Working
    <2>3. TypeOK'
      BY <1>a, <1>0, <1>2, <2>1 DEF TypeOK, Finish, CallSet
    <2>4. \A q \in Profiles : ProfileKept(q)
      BY <1>a, <1>2, Unmoved
    <2> QED
      BY <2>1, <2>2, <2>3, <2>4, QuietStep
  <1>3. CASE /\ endpoint[p] /\ Ready(p)
             /\ session[p] # NoSession /\ ~Fits(session[p], call[c])
             /\ browser' = Leaving(p)
             /\ Goto(c, "replacing")
             /\ UNCHANGED session
    <2>1. /\ call' \in [Callers -> CallSet] /\ call'[c].at = "replacing"
          /\ call'[c].profile = p /\ call'[c].kind = "use"
          /\ \A d \in Callers \ {c} : call'[d] = call[d]
          /\ lane' = lane
      BY <1>a, <1>0, <1>3, GotoTyped
    <2>2. LaneSound'
      BY <1>0, <2>1, HeadMoves DEF InLane, Busy, Working
    <2>3. browser' \in [Profiles -> BrowserSet] /\ \A q \in Profiles : BrowserKept(q)
      BY <1>0, <1>3, LeavingKeeps
    <2>4. TypeOK'
      BY <1>a, <1>0, <1>3, <2>1, <2>3 DEF TypeOK, CallSet, BrowserSet
    <2>5. \A q \in Profiles : ProfileKept(q)
      BY <1>a, <1>b, <1>3, <2>3 DEF ProfileKept, FilesKept
    <2>6. CallSound(c)'
      BY <1>b, <1>c, <2>1 DEF CallSound, Working
    <2> QED
      BY <2>1, <2>2, <2>4, <2>5, <2>6, QuietStep
  <1>4. CASE /\ endpoint[p] /\ Ready(p)
             /\ IF session[p] = NoSession
                THEN /\ Fits(browser[p], call[c])
                     /\ session' = [session EXCEPT ![p] = Signature(browser[p])]
                ELSE Fits(session[p], call[c]) /\ UNCHANGED session
             /\ Got(c, x)
             /\ browser' = IF mode = "serving" THEN browser ELSE Leaving(p)
    <2>0. browser[p] \in Browsers /\ Signature(browser[p]) \in Sessions
      BY <1>0, <1>4, BrowserShape, SessionShape
    <2>1. /\ x \in OpenContexts /\ x.pid = TRUE /\ x.settings = call[c].settings
          /\ x.vis = IF session[p] = NoSession THEN browser[p].vis ELSE session[p].vis
      <3>1. session[p] # NoSession => session[p].vis \in Shown
        BY <1>0 DEF TypeOK, Sessions
      <3>2. (IF session[p] = NoSession THEN browser[p].vis ELSE session[p].vis) \in Shown
        BY <2>0, <3>1 DEF Browsers
      <3> QED
        BY <1>0, <3>2, ContextTyped DEF Context
    <2>2. Matches(x, p)
      <3>1. ASSUME browser[p].recorded PROVE Signature(browser[p]) = Signature(x)
        <4>1. session[p] = Signature(browser[p]) /\ session[p] # NoSession
          BY <1>0, <1>4, <2>0, <3>1, SessionShape DEF BrowserSound
        <4>2. Fits(session[p], call[c])
          BY <1>4, <4>1
        <4>3. session[p].settings = call[c].settings
          BY <4>2 DEF Fits
        <4>4. /\ session[p].settings = browser[p].settings
              /\ session[p].vis = browser[p].vis
          BY <4>1 DEF Signature
        <4>5. x.vis = browser[p].vis /\ x.settings = browser[p].settings
          BY <2>1, <4>1, <4>3, <4>4
        <4> QED
          BY <4>5 DEF Signature
      <3> QED
        BY <3>1 DEF Matches
    <2>a. Fits(x, call[c])
      BY <1>4, <2>1 DEF Fits
    <2> HIDE DEF x
    <2>3. /\ browser' \in [Profiles -> BrowserSet]
          /\ \A q \in Profiles : BrowserKept(q)
          /\ mode # "serving" => ~Ready(p)'
      BY <1>0, <1>4, LeavingKeeps, BrowserSame
    <2>4. /\ call' \in [Callers -> CallSet] /\ lane' = lane
          /\ \A d \in Callers \ {c} : call'[d] = call[d]
          /\ call'[c].profile = p /\ call'[c].kind = "use"
          /\ mode = "serving" =>
                /\ call'[c].at = "restoring" /\ call'[c].got = x
                /\ call'[c].vis = call[c].vis /\ call'[c].settings = call[c].settings
          /\ mode # "serving" => call'[c].at = "aborting" /\ call'[c].pid = x.pid
      BY <1>a, <1>0, <1>4, <2>1, GotTyped
    <2>5. LaneSound'
      BY <1>0, <2>4, HeadMoves DEF InLane, Busy, Working
    <2>6. session' \in [Profiles -> {NoSession} \union Sessions]
      BY <1>0, <1>4, <2>0 DEF TypeOK
    <2>7. TypeOK'
      BY <1>a, <1>0, <2>3, <2>4, <2>6 DEF TypeOK, CallSet, BrowserSet
    <2>8. session[p] = NoSession => Hidden(p)
      BY <1>0, <2>0, SessionShape DEF BrowserSound, Hidden
    <2>9. \A q \in Profiles : FilesKept(q) \/ Hidden(q)
      BY <1>a, <1>0, <1>4, <2>8 DEF FilesKept, TypeOK
    <2>10. \A q \in Profiles : ProfileKept(q)
      BY <1>b, <2>3, <2>9 DEF ProfileKept
    <2>11. CASE mode = "serving"
      <3>1. Matches(call[c].got, p)'
        BY <1>4, <2>2, <2>4, <2>11 DEF Matches, Signature, Ready, Running
      <3>2. Fits(call[c].got, call[c])'
        BY <2>a, <2>4, <2>11 DEF Fits
      <3>3. CallSound(c)'
        BY <1>a, <1>b, <1>c, <2>1, <2>4, <2>11, <3>1, <3>2 DEF CallSound, Working
      <3> QED
        BY <2>4, <2>5, <2>7, <2>10, <3>3, QuietStep
    <2>12. CASE mode # "serving"
      <3>1. CallSound(c)'
        BY <1>b, <2>3, <2>4, <2>12 DEF CallSound, Working, Hidden
      <3> QED
        BY <2>4, <2>5, <2>7, <2>10, <3>1, QuietStep
    <2> QED
      BY <2>11, <2>12
  <1> QED
    BY <1>1, <1>2, <1>3, <1>4 DEF ConnectExisting

LEMMA FilesRemoved ==
    ASSUME TypeOK, NEW p \in Profiles, RemoveFiles(p)
    PROVE  /\ endpoint' \in [Profiles -> BOOLEAN]
           /\ session' \in [Profiles -> {NoSession} \union Sessions]
           /\ \A q \in Profiles \ {p} : FilesKept(q)
  BY DEF TypeOK, RemoveFiles, FilesKept

LEMMA ReplaceSound ==
    ASSUME IInv, ContextAssumption, NEW c \in Callers, Replace(c),
           NEW p \in Profiles, p = call[c].profile
    PROVE  IInv'
  <1>0. /\ TypeOK /\ LaneSound /\ call[c] \in Asking /\ call[c].at = "replacing"
        /\ lane # <<>> /\ Head(lane) = c /\ CallSound(c)
        /\ ~Running(p) /\ RemoveFiles(p) /\ Goto(c, "spawning")
        /\ UNCHANGED <<wanted, browser, ctx, mode>>
    BY ShapeOf DEF IInv, Replace, Has
  <1>1. /\ call' \in [Callers -> CallSet] /\ call'[c].at = "spawning"
        /\ call'[c].profile = p /\ call'[c].kind = call[c].kind
        /\ \A d \in Callers \ {c} : call'[d] = call[d]
        /\ lane' = lane
    BY <1>0, GotoTyped
  <1>2. LaneSound'
    BY <1>0, <1>1, HeadMoves DEF InLane, Busy, Working
  <1>3. TypeOK'
    BY <1>0, <1>1, FilesRemoved DEF TypeOK, CallSet
  <1>4. Hidden(p) /\ Hidden(p)'
    BY <1>0 DEF Hidden, Ready, Running
  <1>5. \A q \in Profiles : ProfileKept(q)
    BY <1>0, <1>4, FilesRemoved DEF ProfileKept, BrowserKept, ContextKept
  <1>6. CallSound(c)'
    BY <1>0, <1>1, <1>4 DEF CallSound, Working, Contexts, Attached
  <1> QED
    BY <1>1, <1>2, <1>3, <1>5, <1>6, QuietStep

LEMMA SpawnSound ==
    ASSUME IInv, ContextAssumption, NEW c \in Callers, Spawn(c),
           NEW p \in Profiles, p = call[c].profile
    PROVE  IInv'
  <1> DEFINE new == [settings |-> call[c].settings, vis |-> Effective(call[c].vis),
                     state |-> "starting", recorded |-> FALSE]
             launch == [at |-> "launching", own |-> ~Running(p), profile |-> p,
                        kind |-> call[c].kind, vis |-> call[c].vis, settings |-> call[c].settings]
  <1>0. /\ TypeOK /\ LaneSound /\ call[c] \in Asking /\ call[c].at = "spawning"
        /\ lane # <<>> /\ Head(lane) = c /\ CallSound(c) /\ call[c].kind = "use"
        /\ BrowserSound(p) /\ Hidden(p) /\ ctx[p] = NoContext
    BY ShapeOf DEF IInv, Spawn, Has, CallSound, Working
  <1>1. /\ endpoint' = [endpoint EXCEPT ![p] = FALSE]
        /\ browser' = IF Running(p) THEN browser ELSE [browser EXCEPT ![p] = new]
        /\ call' = [call EXCEPT ![c] = launch]
        /\ UNCHANGED <<wanted, session, ctx, lane, mode>>
    BY DEF Spawn
  <1>2. new \in Browsers /\ launch \in Launches
    BY <1>0 DEF Browsers, Launches, Asking, Effective, Shown
  <1>3. /\ call' \in [Callers -> CallSet] /\ call'[c] = launch
        /\ \A d \in Callers \ {c} : call'[d] = call[d]
    BY <1>0, <1>1, <1>2 DEF TypeOK, CallSet
  <1>4. LaneSound'
    BY <1>0, <1>1, <1>3, HeadMoves DEF InLane, Busy, Working
  <1>5. browser' \in [Profiles -> BrowserSet]
    BY <1>0, <1>1, <1>2 DEF TypeOK, BrowserSet
  <1>6. TypeOK'
    BY <1>0, <1>1, <1>3, <1>5 DEF TypeOK, CallSet, BrowserSet
  <1>7. \A q \in Profiles \ {p} : ProfileKept(q)
    BY <1>0, <1>1 DEF TypeOK, ProfileKept, BrowserKept, FilesKept, ContextKept
  <1>8. /\ Hidden(p)'
        /\ ~Running(p) => browser'[p] = new
        /\ Running(p) => browser'[p] = browser[p]
    BY <1>0, <1>1 DEF TypeOK, Hidden, Ready, Running
  <1>9. BrowserSound(p)' /\ ContextSound(p)'
    BY <1>0, <1>1, <1>8 DEF BrowserSound, ContextSound, Hidden, Ready, Running, Attached, Open
  <1>10. CallSound(c)'
    <2>1. Contexts' = Contexts /\ ctx'[p] = NoContext
      BY <1>0, <1>1 DEF Contexts, Attached
    <2>2. Cardinality(Contexts) < MaxContexts
      BY <1>0 DEF CallSound, Working
    <2>3. /\ call'[c].at = "launching" /\ call'[c].profile = p /\ call'[c].kind = "use"
          /\ call'[c].settings = call[c].settings /\ call'[c].vis = call[c].vis
          /\ call'[c].own = ~Running(p)
      BY <1>0, <1>3
    <2>4. ~Running(p) => /\ browser'[p].settings = call[c].settings
                         /\ browser'[p].vis = Effective(call[c].vis)
      BY <1>8
    <2> HIDE DEF launch, new
    <2>5. call'[c].own => /\ browser'[p].settings = call'[c].settings
                          /\ browser'[p].vis = Effective(call'[c].vis)
      BY <2>3, <2>4
    <2> QED
      BY <1>8, <2>1, <2>2, <2>3, <2>5 DEF CallSound, Working
  <1> QED
    BY <1>0, <1>3, <1>4, <1>6, <1>7, <1>9, <1>10, HeadStep

LEMMA LaunchedSound ==
    ASSUME IInv, ContextAssumption, NEW c \in Callers, Launched(c),
           NEW p \in Profiles, p = call[c].profile
    PROVE  IInv'
  <1> DEFINE vis == Effective(call[c].vis)
             x == Context(c, vis, call[c].own)
  <1>0. /\ TypeOK /\ LaneSound /\ call[c] \in Launches /\ call[c].at = "launching"
        /\ lane # <<>> /\ Head(lane) = c /\ CallSound(c) /\ call[c].kind = "use"
        /\ BrowserSound(p) /\ Hidden(p) /\ ctx[p] = NoContext
    BY ShapeOf DEF IInv, Launched, Has, CallSound, Working, Launches
  <1>1. /\ endpoint[p] /\ Ready(p)
        /\ session' = [session EXCEPT ![p] = [settings |-> call[c].settings, vis |-> vis]]
        /\ Got(c, x)
        /\ browser' = IF mode = "serving"
                      THEN [browser EXCEPT ![p] = [@ EXCEPT !.recorded = call[c].own]]
                      ELSE Leaving(p)
        /\ UNCHANGED <<wanted, endpoint, ctx, mode>>
    BY DEF Launched
  <1>2. /\ vis \in Shown /\ x \in OpenContexts /\ x.pid = call[c].own
        /\ x.settings = call[c].settings /\ x.vis = vis
        /\ Fits(x, call[c])
    BY <1>0, ContextTyped DEF Effective, Shown, Launches, Context, Fits
  <1>3. /\ browser[p] \in Browsers /\ browser[p].state = "ready" /\ ~browser[p].recorded
        /\ call[c].own => browser[p].settings = call[c].settings /\ browser[p].vis = vis
    BY <1>0, <1>1, BrowserShape DEF Hidden, Ready, CallSound
  <1> HIDE DEF x, vis
  <1>4. /\ call' \in [Callers -> CallSet] /\ lane' = lane
        /\ \A d \in Callers \ {c} : call'[d] = call[d]
        /\ call'[c].profile = p /\ call'[c].kind = "use"
        /\ mode = "serving" =>
              /\ call'[c].at = "restoring" /\ call'[c].got = x
              /\ call'[c].vis = call[c].vis /\ call'[c].settings = call[c].settings
        /\ mode # "serving" => call'[c].at = "aborting" /\ call'[c].pid = x.pid
    BY <1>0, <1>1, <1>2, GotTyped
  <1>5. LaneSound'
    BY <1>0, <1>4, HeadMoves DEF InLane, Busy, Working
  <1>6. [browser[p] EXCEPT !.recorded = call[c].own] \in Browsers
    BY <1>0, <1>3 DEF Browsers, Launches
  <1>7. browser' \in [Profiles -> BrowserSet]
    BY <1>0, <1>1, <1>6 DEF TypeOK, BrowserSet, Leaving
  <1>8. session' \in [Profiles -> {NoSession} \union Sessions]
    BY <1>0, <1>1, <1>2 DEF TypeOK, Sessions, Launches
  <1>9. TypeOK'
    BY <1>0, <1>1, <1>4, <1>7, <1>8 DEF TypeOK, CallSet, BrowserSet
  <1>10. \A q \in Profiles \ {p} : ProfileKept(q)
    BY <1>0, <1>1 DEF TypeOK, ProfileKept, BrowserKept, FilesKept, ContextKept, Leaving
  <1>11. /\ ctx'[p] = NoContext /\ endpoint'[p]
         /\ session'[p] = [settings |-> call[c].settings, vis |-> vis]
         /\ Contexts' = Contexts /\ Cardinality(Contexts) < MaxContexts
    BY <1>0, <1>1 DEF TypeOK, CallSound, Working, Contexts, Attached
  <1>12. CASE mode = "serving"
    <2>1. browser'[p] = [browser[p] EXCEPT !.recorded = call[c].own]
      BY <1>0, <1>1, <1>12 DEF TypeOK
    <2>2. /\ browser'[p].state = "ready" /\ browser'[p].recorded = call[c].own
          /\ call[c].own => browser'[p].settings = call[c].settings /\ browser'[p].vis = vis
      BY <1>3, <2>1 DEF Browsers
    <2>3. call[c].own => /\ Signature(browser[p])' = session'[p]
                         /\ Signature(browser[p])' = Signature(x)
      BY <1>2, <1>11, <2>2 DEF Signature
    <2>4. BrowserSound(p)'
      BY <1>11, <2>2, <2>3 DEF BrowserSound, Ready, Running
    <2>5. ContextSound(p)'
      BY <1>11 DEF ContextSound, Attached, Open
    <2>a. Fits(call[c].got, call[c])'
      BY <1>2, <1>4, <1>12 DEF Fits
    <2>6. CallSound(c)'
      BY <1>2, <1>4, <1>11, <1>12, <2>2, <2>3, <2>a
      DEF CallSound, Working, Hidden, Ready, Matches
    <2> QED
      BY <1>0, <1>4, <1>5, <1>9, <1>10, <2>4, <2>5, <2>6, HeadStep
  <1>13. CASE mode # "serving"
    <2>1. browser'[p] = [state |-> "leaving"]
      BY <1>0, <1>1, <1>13 DEF TypeOK, Leaving
    <2>2. BrowserSound(p)' /\ ContextSound(p)' /\ Hidden(p)'
      BY <1>11, <2>1 DEF BrowserSound, ContextSound, Attached, Open, Ready, Running, Hidden
    <2>3. CallSound(c)'
      BY <1>4, <1>11, <1>13, <2>2 DEF CallSound, Working
    <2> QED
      BY <1>0, <1>4, <1>5, <1>9, <1>10, <2>2, <2>3, HeadStep
  <1> QED
    BY <1>12, <1>13

LEMMA LaunchBreaksSound ==
    ASSUME IInv, ContextAssumption, NEW c \in Callers, LaunchBreaks(c),
           NEW p \in Profiles, p = call[c].profile
    PROVE  IInv'
  <1>0. /\ TypeOK /\ LaneSound /\ call[c] \in Launches /\ call[c].at = "launching"
        /\ lane # <<>> /\ Head(lane) = c
        /\ BrowserSound(p) /\ Hidden(p) /\ ctx[p] = NoContext
    BY ShapeOf DEF IInv, LaunchBreaks, Has, CallSound, Working
  <1>1. /\ call' = [call EXCEPT ![c] = Aborting(c, call[c].own)]
        /\ browser' = (IF call[c].own /\ Running(p) THEN Leaving(p) ELSE browser)
        /\ UNCHANGED <<wanted, endpoint, session, ctx, lane, mode>>
    BY DEF LaunchBreaks
  <1>2. Aborting(c, call[c].own) \in Abortions
    BY <1>0 DEF Launches, Abortions, Aborting, Kinds
  <1>3. /\ call' \in [Callers -> CallSet] /\ call'[c] = Aborting(c, call[c].own)
        /\ \A d \in Callers \ {c} : call'[d] = call[d]
    BY <1>0, <1>1, <1>2 DEF TypeOK, CallSet
  <1>4. call'[c].at = "aborting" /\ call'[c].profile = p
    BY <1>3 DEF Aborting
  <1>5. LaneSound'
    BY <1>0, <1>1, <1>3, <1>4, HeadMoves DEF InLane, Busy, Working
  <1>6. browser' \in [Profiles -> BrowserSet] /\ \A q \in Profiles : BrowserKept(q)
    BY <1>0, <1>1, LeavingKeeps, BrowserSame
  <1>7. TypeOK'
    BY <1>0, <1>1, <1>3, <1>6 DEF TypeOK, CallSet, BrowserSet
  <1>8. \A q \in Profiles : ProfileKept(q)
    BY <1>1, <1>6 DEF ProfileKept, FilesKept, ContextKept
  <1>9. Hidden(p)' /\ ctx'[p] = NoContext
    BY <1>0, <1>1, <1>6, HiddenKept
  <1>10. CallSound(c)'
    BY <1>4, <1>9 DEF CallSound, Working
  <1> QED
    BY <1>3, <1>5, <1>7, <1>8, <1>10, QuietStep

LEMMA AbortedSound ==
    ASSUME IInv, ContextAssumption, NEW c \in Callers, Aborted(c),
           NEW p \in Profiles, p = call[c].profile
    PROVE  IInv'
  <1>0. /\ TypeOK /\ LaneSound /\ lane # <<>> /\ Head(lane) = c /\ Hidden(p)
        /\ RemoveFiles(p) /\ Finish(c) /\ UNCHANGED <<wanted, browser, ctx, mode>>
    BY DEF IInv, Aborted, Has, CallSound
  <1>1. /\ call' \in [Callers -> CallSet] /\ CallSound(c)' /\ call'[c].at = "none"
        /\ \A d \in Callers \ {c} : call'[d] = call[d]
    BY <1>0, OverSound DEF Finish
  <1>2. LaneSound'
    BY <1>0, <1>1, HeadLeaves DEF Finish, InLane, Busy, Working
  <1>3. TypeOK'
    BY <1>0, <1>1, FilesRemoved DEF TypeOK, Finish, CallSet
  <1>4. \A q \in Profiles : ProfileKept(q)
    BY <1>0, FilesRemoved DEF ProfileKept, BrowserKept, ContextKept
  <1> QED
    BY <1>1, <1>2, <1>3, <1>4, QuietStep

LEMMA OpenedSound ==
    ASSUME IInv, ContextAssumption, NEW c \in Callers, Opened(c),
           NEW p \in Profiles, p = call[c].profile
    PROVE  IInv'
  <1> DEFINE x == call[c].got
             y == [x EXCEPT !.connected = Running(p), !.listening = Running(p)]
  <1>0. /\ TypeOK /\ LaneSound /\ call[c] \in Restorations /\ call[c].at = "restoring"
        /\ lane # <<>> /\ Head(lane) = c /\ BrowserSound(p)
        /\ (~x.pid => Hidden(p)) /\ Matches(x, p)
    BY ShapeOf DEF IInv, Opened, Has, CallSound
  <1>1. /\ ctx' = [ctx EXCEPT ![p] = y] /\ Hand(c)
        /\ UNCHANGED <<wanted, browser, endpoint, session, mode>>
    BY DEF Opened, world
  <1>2. /\ x \in OpenContexts /\ y \in OpenContexts
        /\ y.pid = x.pid /\ y.by = x.by /\ y.settings = x.settings /\ y.vis = x.vis
    BY <1>0 DEF Restorations, OpenContexts, Running
  <1> HIDE DEF x, y
  <1>3. /\ call' \in [Callers -> CallSet] /\ CallSound(c)'
        /\ call'[c].at \in {"none", "using", "closing"}
        /\ \A d \in Callers \ {c} : call'[d] = call[d]
    BY <1>0, <1>1, HandedSound DEF Hand
  <1>4. LaneSound'
    BY <1>0, <1>1, <1>3, HeadLeaves DEF Hand, InLane, Busy, Working
  <1>5. ctx' \in [Profiles -> ContextSet] /\ ctx'[p] = y
    BY <1>0, <1>1, <1>2 DEF TypeOK, ContextSet
  <1>6. TypeOK'
    BY <1>0, <1>1, <1>3, <1>5 DEF TypeOK, Hand, CallSet, ContextSet
  <1>7. \A q \in Profiles \ {p} : ProfileKept(q)
    BY <1>0, <1>1 DEF TypeOK, ProfileKept, BrowserKept, FilesKept, ContextKept
  <1>8. BrowserSound(p)' /\ (Hidden(p) => Hidden(p)')
    BY <1>0, <1>1 DEF BrowserSound, Hidden, Ready, Running
  <1>9. Matches(ctx[p], p)'
    BY <1>0, <1>1, <1>2, <1>5 DEF Matches, Signature, Ready, Running
  <1>10. ContextSound(p)'
    BY <1>0, <1>2, <1>5, <1>8, <1>9 DEF ContextSound
  <1> QED
    BY <1>0, <1>3, <1>4, <1>6, <1>7, <1>8, <1>10, HeadStep

LEMMA RestoreFailsSound ==
    ASSUME IInv, ContextAssumption, NEW c \in Callers, RestoreFails(c)
    PROVE  IInv'
  <1>0. /\ TypeOK /\ LaneSound /\ lane # <<>> /\ Head(lane) = c /\ Finish(c)
        /\ UNCHANGED <<wanted, browser, endpoint, session, ctx, mode>>
    BY DEF IInv, RestoreFails, Has, world
  <1>1. /\ call' \in [Callers -> CallSet] /\ CallSound(c)' /\ call'[c].at = "none"
        /\ \A d \in Callers \ {c} : call'[d] = call[d]
    BY <1>0, OverSound DEF Finish
  <1>2. LaneSound'
    BY <1>0, <1>1, HeadLeaves DEF Finish, InLane, Busy, Working
  <1>3. TypeOK'
    BY <1>0, <1>1 DEF TypeOK, Finish, CallSet
  <1>4. \A q \in Profiles : ProfileKept(q)
    BY <1>0, Unmoved
  <1> QED
    BY <1>1, <1>2, <1>3, <1>4, QuietStep

-----------------------------------------------------------------------------
(* Callers, closing, the daemon and the browsers                           *)

\* A call outside the lane ends.
LEMMA DoneSound ==
    ASSUME IInv, ContextAssumption, NEW c \in Callers, Done(c) \/ SaveColour(c)
    PROVE  IInv'
  <1>0. /\ TypeOK /\ LaneSound /\ call[c] \in Holding
        /\ call[c].at \in {"using", "saving"} /\ call' = [call EXCEPT ![c] = NoCall]
        /\ UNCHANGED <<browser, endpoint, session, ctx, lane, mode>>
    BY ShapeOf DEF IInv, Done, SaveColour, world
  <1>1. /\ call' \in [Callers -> CallSet] /\ CallSound(c)' /\ call'[c].at = "none"
        /\ \A d \in Callers \ {c} : call'[d] = call[d]
    BY <1>0, OverSound
  <1>2. LaneSound'
    BY <1>0, <1>1, LaneStays DEF InLane, Busy, Working
  <1>3. wanted' \in [Profiles -> AllSettings]
    BY <1>0 DEF TypeOK, Done, SaveColour, world, Holding, AllSettings
  <1>4. TypeOK'
    BY <1>0, <1>1, <1>3 DEF TypeOK, CallSet
  <1>5. \A q \in Profiles : ProfileKept(q)
    BY <1>0, Unmoved
  <1> QED
    BY <1>1, <1>2, <1>4, <1>5, QuietStep

LEMMA UseBreaksSound ==
    ASSUME IInv, ContextAssumption, NEW c \in Callers, UseBreaks(c)
    PROVE  IInv'
  <1>0. /\ TypeOK /\ LaneSound /\ call[c] \in Holding /\ call[c].profile \in Profiles
        /\ call[c].at = "using" /\ call' = [call EXCEPT ![c] = NoCall]
        /\ BeginClose(call[c].profile)
        /\ UNCHANGED <<wanted, endpoint, session, lane, mode>>
    BY ShapeOf DEF IInv, UseBreaks, Holding
  <1>1. /\ call' \in [Callers -> CallSet] /\ CallSound(c)' /\ call'[c].at = "none"
        /\ \A d \in Callers \ {c} : call'[d] = call[d]
    BY <1>0, OverSound
  <1>2. LaneSound'
    BY <1>0, <1>1, LaneStays DEF InLane, Busy, Working
  <1>3. /\ ctx' \in [Profiles -> ContextSet] /\ browser' \in [Profiles -> BrowserSet]
        /\ \A q \in Profiles : BrowserKept(q) /\ ContextKept(q)
    BY <1>0, BeginCloseKeeps
  <1>4. TypeOK'
    BY <1>0, <1>1, <1>3 DEF TypeOK, CallSet, ContextSet, BrowserSet
  <1>5. \A q \in Profiles : ProfileKept(q)
    BY <1>0, <1>3 DEF ProfileKept, FilesKept
  <1> QED
    BY <1>1, <1>2, <1>4, <1>5, QuietStep

LEMMA CloseProfileSound ==
    ASSUME IInv, ContextAssumption, NEW c \in Callers, CloseProfile(c)
    PROVE  IInv'
  <1>0. /\ TypeOK /\ LaneSound /\ call[c] \in Holding /\ call[c].profile \in Profiles
        /\ call[c].at = "closing" /\ BeginClose(call[c].profile)
        /\ UNCHANGED <<wanted, endpoint, session, lane, mode>>
    BY ShapeOf DEF IInv, CloseProfile, Holding
  <1>1. PICK at \in {"ending", "saving"} : call' = [call EXCEPT ![c].at = at]
    BY DEF CloseProfile
  <1>2. [call[c] EXCEPT !.at = at] \in Holding
    BY <1>0 DEF Holding
  <1>3. /\ call' \in [Callers -> CallSet] /\ call'[c].at = at
        /\ \A d \in Callers \ {c} : call'[d] = call[d]
    BY <1>0, <1>1, <1>2 DEF TypeOK, CallSet, Holding
  <1>4. CallSound(c)'
    BY <1>3 DEF CallSound, Working
  <1>5. LaneSound'
    BY <1>0, <1>3, LaneStays DEF InLane, Busy, Working
  <1>6. /\ ctx' \in [Profiles -> ContextSet] /\ browser' \in [Profiles -> BrowserSet]
        /\ \A q \in Profiles : BrowserKept(q) /\ ContextKept(q)
    BY <1>0, BeginCloseKeeps
  <1>7. TypeOK'
    BY <1>0, <1>3, <1>6 DEF TypeOK, CallSet, ContextSet, BrowserSet
  <1>8. \A q \in Profiles : ProfileKept(q)
    BY <1>0, <1>6 DEF ProfileKept, FilesKept
  <1> QED
    BY <1>3, <1>4, <1>5, <1>7, <1>8, QuietStep

LEMMA EndCloseSound ==
    ASSUME IInv, ContextAssumption, NEW p \in Profiles, EndClose(p)
    PROVE  IInv'
  <1>0. /\ TypeOK /\ LaneSound /\ Closing(p) /\ RemoveFiles(p) /\ Hidden(p)
        /\ ctx' = [ctx EXCEPT ![p] = NoContext]
        /\ UNCHANGED <<wanted, browser, lane, mode>>
    BY DEF IInv, EndClose, ContextSound, Hidden, Ready, Closing
  <1>1. \A c \in Callers :
           \/ call'[c] = call[c]
           \/ call[c] \in Holding /\ call'[c] = [call[c] EXCEPT !.at = "saving"]
    BY <1>0, ShapeOf DEF EndClose
  <1>2. ASSUME NEW c \in Callers
        PROVE  /\ call'[c] \in CallSet
               /\ \/ call'[c] = call[c]
                  \/ call[c].at \notin InLane /\ call'[c].at = "saving"
    <2>1. CASE call'[c] = call[c]
      BY <1>0, <2>1 DEF TypeOK, CallSet
    <2>2. CASE call[c] \in Holding /\ call'[c] = [call[c] EXCEPT !.at = "saving"]
      BY <2>2 DEF CallSet, Holding, InLane, Busy, Working
    <2> QED
      BY <1>1, <2>1, <2>2
  <1>3. call' \in [Callers -> CallSet]
    BY <1>2 DEF EndClose
  <1>4. LaneSound'
    BY <1>0, <1>2, LaneStays DEF InLane, Busy, Working
  <1>5. TypeOK'
    BY <1>0, <1>3, FilesRemoved DEF TypeOK, CallSet
  <1>6. \A q \in Profiles : ProfileKept(q)
    BY <1>0, FilesRemoved DEF TypeOK, ProfileKept, BrowserKept, ContextKept
  <1>7. \A c \in Callers : call'[c] = call[c] \/ CallSound(c)'
    BY <1>2 DEF CallSound, Working
  <1> QED
    BY <1>4, <1>5, <1>6, <1>7, QuietStep

\* Steps that no call takes.
LEMMA Uncalled ==
    ASSUME IInv, ContextAssumption, UNCHANGED <<call, lane>>,
           wanted' \in [Profiles -> AllSettings], mode' \in {"off", "serving", "closing", "detaching"},
           browser' \in [Profiles -> BrowserSet], ctx' \in [Profiles -> ContextSet],
           endpoint' \in [Profiles -> BOOLEAN], UNCHANGED session,
           \A q \in Profiles : ProfileKept(q)
    PROVE  IInv'
  <1>1. TypeOK'
    BY DEF IInv, TypeOK, BrowserSet, ContextSet
  <1>2. LaneSound'
    BY LaneStays DEF IInv
  <1> QED
    BY <1>1, <1>2, QuietStep

LEMMA CloseHeardSound ==
    ASSUME IInv, ContextAssumption, NEW p \in Profiles, CloseHeard(p)
    PROVE  IInv'
  <1>1. TypeOK /\ BeginClose(p) /\ UNCHANGED <<wanted, endpoint, session, call, lane, mode>>
    BY DEF IInv, CloseHeard
  <1>2. /\ ctx' \in [Profiles -> ContextSet] /\ browser' \in [Profiles -> BrowserSet]
        /\ \A q \in Profiles : BrowserKept(q) /\ ContextKept(q)
    BY <1>1, BeginCloseKeeps
  <1> QED
    BY <1>1, <1>2, Uncalled DEF TypeOK, ProfileKept, FilesKept

LEMMA DisconnectedKeeps ==
    ASSUME TypeOK, NEW p \in Profiles, ctx' = Disconnected(p)
    PROVE  ctx' \in [Profiles -> ContextSet] /\ \A q \in Profiles : ContextKept(q)
  <1>1. CASE Open(p)
    <2>1. ctx[p] \in OpenContexts
      BY <1>1, ContextShape
    <2>2. [ctx[p] EXCEPT !.connected = FALSE] \in OpenContexts
      BY <2>1 DEF OpenContexts
    <2> QED
      BY <1>1, <2>2 DEF TypeOK, Disconnected, ContextSet, ContextKept
  <1>2. CASE ~Open(p)
    BY <1>2 DEF TypeOK, Disconnected, ContextSet, ContextKept
  <1> QED
    BY <1>1, <1>2

LEMMA EndsSound ==
    ASSUME IInv, ContextAssumption, NEW p \in Profiles, Ends(p)
    PROVE  IInv'
  <1>1. /\ TypeOK /\ browser' = [browser EXCEPT ![p] = NoBrowser] /\ ctx' = Disconnected(p)
        /\ UNCHANGED <<wanted, endpoint, session, call, lane, mode>>
    BY DEF IInv, Ends
  <1>2. ctx' \in [Profiles -> ContextSet] /\ \A q \in Profiles : ContextKept(q)
    BY <1>1, DisconnectedKeeps
  <1>3. browser' \in [Profiles -> BrowserSet] /\ \A q \in Profiles : BrowserKept(q)
    BY <1>1 DEF TypeOK, BrowserSet, BrowserKept
  <1> QED
    BY <1>1, <1>2, <1>3, Uncalled DEF TypeOK, ProfileKept, FilesKept

LEMMA ConnectionLostSound ==
    ASSUME IInv, ContextAssumption, NEW p \in Profiles, ConnectionLost(p)
    PROVE  IInv'
  <1>1. /\ TypeOK /\ ctx' = Disconnected(p)
        /\ UNCHANGED <<wanted, browser, endpoint, session, call, lane, mode>>
    BY DEF IInv, ConnectionLost, world
  <1>2. ctx' \in [Profiles -> ContextSet] /\ \A q \in Profiles : ContextKept(q)
    BY <1>1, DisconnectedKeeps
  <1>3. browser' \in [Profiles -> BrowserSet] /\ \A q \in Profiles : BrowserKept(q)
    BY <1>1, BrowserSame
  <1> QED
    BY <1>1, <1>2, <1>3, Uncalled DEF TypeOK, ProfileKept, FilesKept

LEMMA BrowserReadySound ==
    ASSUME IInv, ContextAssumption, NEW p \in Profiles, BrowserReady(p)
    PROVE  IInv'
  <1>1. /\ TypeOK /\ Running(p) /\ browser[p].state = "starting" /\ browser[p] \in Browsers
        /\ browser' = [browser EXCEPT ![p] = [@ EXCEPT !.state = "ready"]]
        /\ endpoint' = [endpoint EXCEPT ![p] = TRUE]
        /\ UNCHANGED <<wanted, session, ctx, call, lane, mode>>
    BY BrowserShape DEF IInv, BrowserReady
  <1>2. [browser[p] EXCEPT !.state = "ready"] \in Browsers
    BY <1>1 DEF Browsers
  <1>3. browser' \in [Profiles -> BrowserSet] /\ \A q \in Profiles : BrowserKept(q)
    BY <1>1, <1>2 DEF TypeOK, BrowserSet, BrowserKept
  <1>4. \A q \in Profiles : FilesKept(q) \/ Hidden(q)
    BY <1>1 DEF TypeOK, FilesKept, Hidden, Ready
  <1> QED
    BY <1>1, <1>3, <1>4, Uncalled DEF TypeOK, ProfileKept, ContextKept, ContextSet

LEMMA CloseAllSound ==
    ASSUME IInv, ContextAssumption, CloseAll
    PROVE  IInv'
  <1>1. /\ TypeOK
        /\ ctx' = [p \in Profiles |-> IF Open(p) THEN ClosingContext(ctx[p]) ELSE ctx[p]]
        /\ browser' = [p \in Profiles |-> IF Open(p) THEN Told(p, ctx[p])[p] ELSE browser[p]]
        /\ UNCHANGED <<wanted, endpoint, session, call, lane, mode>>
    BY DEF IInv, CloseAll
  <1>2. ASSUME NEW p \in Profiles
        PROVE  /\ browser'[p] \in BrowserSet /\ ctx'[p] \in ContextSet
               /\ BrowserKept(p) /\ ContextKept(p)
    <2>1. CASE Open(p)
      <3>1. ctx[p] \in OpenContexts
        BY <1>1, <2>1, ContextShape
      <3>2. ctx'[p] = ClosingContext(ctx[p]) /\ ClosingContext(ctx[p]) \in ClosingContexts
        BY <1>1, <2>1, <3>1 DEF ClosingContext, OpenContexts, ClosingContexts
      <3>3. browser'[p] \in {browser[p], [state |-> "leaving"]}
        BY <1>1, <2>1 DEF TypeOK, Told, Leaving
      <3> QED
        BY <1>1, <2>1, <3>2, <3>3 DEF TypeOK, BrowserSet, ContextSet, BrowserKept, ContextKept
    <2>2. CASE ~Open(p)
      BY <1>1, <2>2 DEF TypeOK, BrowserSet, ContextSet, BrowserKept, ContextKept
    <2> QED
      BY <2>1, <2>2
  <1>3. browser' \in [Profiles -> BrowserSet] /\ ctx' \in [Profiles -> ContextSet]
    BY <1>1, <1>2
  <1> QED
    BY <1>1, <1>2, <1>3, Uncalled DEF TypeOK, ProfileKept, FilesKept

LEMMA GoneSound ==
    ASSUME IInv, ContextAssumption, Gone
    PROVE  IInv'
  <1>1. /\ TypeOK
        /\ ctx' = [p \in Profiles |-> NoContext] /\ call' = [c \in Callers |-> NoCall]
        /\ lane' = <<>> /\ mode' = "off" /\ UNCHANGED <<wanted, browser, endpoint, session>>
    BY DEF IInv, Gone, world
  <1>2. TypeOK'
    BY <1>1 DEF TypeOK
  <1>3. LaneSound'
    BY <1>1 DEF LaneSound, Busy, Working, NoCall
  <1>4. \A q \in Profiles : ProfileKept(q)
    BY <1>1 DEF ProfileKept, BrowserKept, FilesKept, ContextKept
  <1>5. \A c \in Callers : CallSound(c)'
    BY <1>1 DEF CallSound, Working, NoCall
  <1> QED
    BY <1>2, <1>3, <1>4, <1>5, QuietStep

LEMMA ManagerSound ==
    ASSUME IInv, ContextAssumption,
           Start \/ Stop("closing") \/ Stop("detaching") \/ Quiesced
             \/ \E p \in Profiles : ChangeProxy(p)
    PROVE  IInv'
  <1>1. /\ TypeOK /\ UNCHANGED <<browser, endpoint, session, ctx, call, lane>>
        /\ mode' \in {"off", "serving", "closing", "detaching"}
    BY DEF IInv, TypeOK, Start, Stop, Quiesced, ChangeProxy, world
  <1>2. wanted' \in [Profiles -> AllSettings]
    BY DEF IInv, TypeOK, Start, Stop, Quiesced, ChangeProxy, world, AllSettings
  <1>3. \A q \in Profiles : ProfileKept(q)
    BY <1>1, Unmoved
  <1> QED
    BY <1>1, <1>2, <1>3, Uncalled DEF TypeOK, BrowserSet, ContextSet

LEMMA CallingSound ==
    ASSUME IInv, ContextAssumption, NEW c \in Callers, NEW p \in Profiles,
           (\E v \in Visibilities[p] : Use(c, p, v)) \/ Sweep(c, p) \/ Recolour(c, p)
    PROVE  IInv'
  <1>1. ASSUME NEW v \in Visibilities[p], Use(c, p, v) PROVE IInv'
    <2>1. v \in Vis
      BY DEF ContextAssumption, Vis
    <2> QED
      BY <1>1, <2>1, NewCallSound DEF Use, Kinds
  <1>2. CASE Sweep(c, p)
    BY <1>2, NewCallSound DEF Sweep, Kinds, Vis
  <1>3. CASE Recolour(c, p)
    BY <1>3, NewCallSound DEF Recolour, Kinds, Vis
  <1> QED
    BY <1>1, <1>2, <1>3

LEMMA ProceedSound ==
    ASSUME IInv, ContextAssumption, NEW c \in Callers, Proceed(c)
    PROVE  IInv'
  <1>1. CASE \/ ConnectResident(c) \/ ConnectExisting(c) \/ Replace(c) \/ Spawn(c)
             \/ Launched(c) \/ LaunchBreaks(c) \/ Aborted(c) \/ Opened(c)
    <2>1. call[c].at \in Working
      BY <1>1 DEF ConnectResident, ConnectExisting, Replace, Spawn, Launched, LaunchBreaks,
                  Aborted, Opened, Has, Working
    <2>2. PICK p \in Profiles : p = call[c].profile
      BY <2>1, ShapeOf DEF IInv, Busy
    <2> QED
      BY <1>1, <2>2, ConnectResidentSound, ConnectExistingSound, ReplaceSound, SpawnSound,
         LaunchedSound, LaunchBreaksSound, AbortedSound, OpenedSound
  <1>2. CASE \/ Ensure(c) \/ Begin(c) \/ Awaited(c) \/ RestoreFails(c)
             \/ Done(c) \/ UseBreaks(c) \/ CloseProfile(c) \/ SaveColour(c)
    BY <1>2, EnsureSound, BeginSound, AwaitedSound, RestoreFailsSound, DoneSound, UseBreaksSound,
       CloseProfileSound
  <1> QED
    BY <1>1, <1>2 DEF Proceed

LEMMA StepSound ==
    ASSUME IInv, ContextAssumption, [Next]_vars
    PROVE  IInv'
  <1>1. CASE UNCHANGED vars
    BY <1>1 DEF vars, IInv, TypeOK, LaneSound, BrowserSound, ContextSound, CallSound, Matches,
                Hidden, Ready, Running, Attached, Open, Contexts
  <1>2. ASSUME NEW p \in Profiles,
               EndClose(p) \/ CloseHeard(p) \/ ChangeProxy(p) \/ BrowserReady(p)
                 \/ BrowserExits(p) \/ BrowserEnds(p) \/ ConnectionLost(p)
        PROVE  IInv'
    BY <1>2, EndCloseSound, CloseHeardSound, ManagerSound, BrowserReadySound, EndsSound,
       ConnectionLostSound DEF BrowserExits, BrowserEnds
  <1>3. CASE Start \/ Stop("closing") \/ Stop("detaching") \/ CloseAll \/ Quiesced
               \/ Detach \/ Crash
    BY <1>3, ManagerSound, CloseAllSound, GoneSound DEF Detach, Crash
  <1> QED
    BY <1>1, <1>2, <1>3, CallingSound, ProceedSound DEF Next

LEMMA InitSound ==
    ASSUME ContextAssumption, Init
    PROVE  IInv
  <1>1. TypeOK
    BY DEF Init, TypeOK, AllSettings
  <1>2. LaneSound
    BY DEF Init, LaneSound, Busy, Working, NoCall
  <1>3. \A p \in Profiles : BrowserSound(p) /\ ContextSound(p)
    BY DEF Init, BrowserSound, ContextSound, Running, Ready, Attached, Open
  <1>4. \A c \in Callers : CallSound(c)
    BY DEF Init, CallSound, Working, NoCall
  <1> QED
    BY <1>1, <1>2, <1>3, <1>4 DEF IInv

(***************************************************************************)
(* In every behaviour what the daemon remembers of its browsers, what it   *)
(* wrote down, and the stages of the calls in the lane agree.              *)
(***************************************************************************)
THEOREM ContextsSound == Spec => []IInv
  <1>1. Init => IInv
    BY InitSound, ContextAssumption
  <1>2. IInv /\ [Next]_vars => IInv'
    BY StepSound, ContextAssumption
  <1> QED
    BY <1>1, <1>2, PTL DEF Spec

(***************************************************************************)
(* A browser that was launched and recorded can be found again for as long *)
(* as it runs and nobody told it to end, whatever becomes of the daemon:   *)
(* only a call that knows the process, or that nothing recorded is there,  *)
(* removes the files of a profile.                                         *)
(***************************************************************************)
THEOREM RecordedBrowsersStayReachable == Spec => []BrowsersReachable
  <1>1. IInv => BrowsersReachable
    BY DEF IInv, BrowserSound, BrowsersReachable
  <1> QED
    BY <1>1, ContextsSound, PTL

-----------------------------------------------------------------------------
(* Who tells a browser to end                                              *)

MayEnd(p) ==
    /\ Usable(p) => \/ mode = "closing"
                    \/ \E c \in Callers : call[c].at = "closing" /\ call[c].profile = p
    /\ ~Attached(p) =>
          \E c \in Callers :
              /\ call[c].at \in {"connecting", "launching"} /\ call[c].profile = p
              /\ mode = "serving" /\ browser[p].recorded =>
                    call[c].at = "connecting" /\ ~Suits(browser[p], call[c])

\* BeginClose tells the browser of an open context alone.
LEMMA BeginCloseTells ==
    ASSUME TypeOK, NEW p \in Profiles, NEW q \in Profiles, BeginClose(q), ToldToEnd(p)
    PROVE  p = q /\ Open(p)
  <1>1. browser[p].state # "leaving"
    BY DEF ToldToEnd, Ready
  <1>2. browser'[p] # browser[p]
    BY <1>1 DEF ToldToEnd
  <1> QED
    BY <1>2 DEF BeginClose, Told, Leaving, TypeOK

LEMMA LeavingTells ==
    ASSUME TypeOK, NEW p \in Profiles, NEW q \in Profiles,
           browser' = browser \/ browser' = Leaving(q), ToldToEnd(p)
    PROVE  p = q
  BY DEF ToldToEnd, Ready, Leaving, TypeOK

\* A browser the head of the lane tells to end when it connects: it does not fit, or the daemon stops.
LEMMA ConnectingTells ==
    ASSUME IInv, NEW c \in Callers, NEW p \in Profiles, ToldToEnd(p),
           ConnectResident(c) \/ ConnectExisting(c)
    PROVE  MayEnd(p)
  <1> DEFINE q == call[c].profile
  <1>0. /\ TypeOK /\ call[c].at = "connecting" /\ call[c] \in Asking /\ q \in Profiles
        /\ ctx[q] = NoContext /\ BrowserSound(p)
    BY ShapeOf DEF IInv, ConnectResident, ConnectExisting, Has, CallSound, Working, Busy
  <1>1. browser' # browser /\ Ready(p)
    BY DEF ToldToEnd, Ready
  <1>2. /\ browser' = Leaving(q)
        /\ \/ mode # "serving"
           \/ session[q] # NoSession /\ ~Fits(session[q], call[c])
    <2>1. CASE ConnectResident(c)
      BY <1>1, <2>1 DEF ConnectResident, Told
    <2>2. CASE ConnectExisting(c)
      BY <1>1, <2>2 DEF ConnectExisting
    <2> QED
      BY <2>1, <2>2
  <1>3. p = q
    BY <1>0, <1>2, LeavingTells
  <1>4. mode = "serving" /\ browser[p].recorded => ~Suits(browser[p], call[c])
    <2>1. SUFFICES ASSUME mode = "serving", browser[p].recorded PROVE ~Suits(browser[p], call[c])
      OBVIOUS
    <2>2. session[p] = Signature(browser[p]) /\ ~Fits(session[p], call[c])
      BY <1>0, <1>1, <1>2, <1>3, <2>1 DEF BrowserSound
    <2>3. browser[p].vis \in Shown
      BY <1>0, <1>1, BrowserShape DEF Browsers
    <2> QED
      BY <2>2, <2>3 DEF Suits, Fits, Signature, Effective, Shown
  <1> QED
    BY <1>0, <1>3, <1>4 DEF MayEnd, Usable, Open, Attached

\* A browser that a launch tells to end was not recorded.
LEMMA LaunchTells ==
    ASSUME IInv, NEW c \in Callers, NEW p \in Profiles, ToldToEnd(p),
           Launched(c) \/ LaunchBreaks(c)
    PROVE  MayEnd(p)
  <1> DEFINE q == call[c].profile
  <1>0. /\ TypeOK /\ call[c].at = "launching" /\ q \in Profiles
        /\ ctx[q] = NoContext /\ Hidden(q)
    BY ShapeOf DEF IInv, Launched, LaunchBreaks, Has, CallSound, Working, Busy
  <1>1. p = q
    <2>1. CASE Launched(c)
      BY <1>0, <2>1 DEF Launched, ToldToEnd, Ready, Leaving, TypeOK
    <2>2. CASE LaunchBreaks(c)
      BY <1>0, <2>2, LeavingTells DEF LaunchBreaks
    <2> QED
      BY <2>1, <2>2
  <1> QED
    BY <1>0, <1>1 DEF MayEnd, Usable, Open, Attached, Hidden, ToldToEnd

LEMMA StepPreserves ==
    ASSUME IInv, [Next]_vars, NEW p \in Profiles, ToldToEnd(p)
    PROVE  MayEnd(p)
  <1>0. TypeOK /\ Ready(p) /\ browser'[p] # browser[p]
    BY DEF IInv, ToldToEnd, Ready
  <1>1. ASSUME NEW c \in Callers, Proceed(c) PROVE MayEnd(p)
    <2>1. CASE ConnectResident(c) \/ ConnectExisting(c)
      BY <2>1, ConnectingTells
    <2>2. CASE Launched(c) \/ LaunchBreaks(c)
      BY <2>2, LaunchTells
    <2>3. CASE Begin(c)
      <3>1. PICK q \in Profiles : q = call[c].profile
        BY <1>0, <2>3, ShapeOf DEF Begin, Has
      <3>2. BeginClose(q) /\ ~Usable(q) /\ Attached(q)
        BY <1>0, <2>3, <3>1 DEF Begin
      <3> QED
        BY <1>0, <3>2, BeginCloseTells DEF MayEnd
    <2>4. CASE UseBreaks(c)
      <3>1. PICK q \in Profiles : q = call[c].profile
        BY <1>0, <2>4, ShapeOf DEF UseBreaks, Holding
      <3> QED
        BY <1>0, <2>4, <3>1, BeginCloseTells DEF UseBreaks, MayEnd
    <2>5. CASE CloseProfile(c)
      <3>1. PICK q \in Profiles : q = call[c].profile
        BY <1>0, <2>5, ShapeOf DEF CloseProfile, Holding
      <3> QED
        BY <1>0, <2>5, <3>1, BeginCloseTells DEF CloseProfile, MayEnd, Open
    <2>6. CASE Spawn(c)
      <3>1. PICK q \in Profiles : q = call[c].profile
        BY <1>0, <2>6, ShapeOf DEF Spawn, Has, Busy, Working
      <3> QED
        BY <1>0, <2>6, <3>1 DEF Spawn, Ready, ToldToEnd, TypeOK
    <2>7. CASE \/ Ensure(c) \/ Awaited(c) \/ Replace(c) \/ Aborted(c) \/ Opened(c)
               \/ RestoreFails(c) \/ Done(c) \/ SaveColour(c)
      BY <1>0, <2>7 DEF Ensure, Awaited, Replace, Aborted, Opened, RestoreFails, Done, SaveColour,
                        world
    <2> QED
      BY <1>1, <2>1, <2>2, <2>3, <2>4, <2>5, <2>6, <2>7 DEF Proceed
  <1>2. ASSUME NEW q \in Profiles, CloseHeard(q) PROVE MayEnd(p)
    BY <1>0, <1>2, BeginCloseTells DEF CloseHeard, MayEnd, Usable, Open
  <1>3. CASE CloseAll
    BY <1>0, <1>3 DEF CloseAll, MayEnd, Open
  <1>4. ASSUME NEW q \in Profiles,
               EndClose(q) \/ ChangeProxy(q) \/ BrowserReady(q) \/ BrowserExits(q)
                 \/ BrowserEnds(q) \/ ConnectionLost(q)
        PROVE  MayEnd(p)
    BY <1>0, <1>4 DEF EndClose, ChangeProxy, BrowserReady, BrowserExits, BrowserEnds,
                      ConnectionLost, Ends, world, ToldToEnd, Ready, Running, TypeOK
  <1>5. CASE Start \/ Stop("closing") \/ Stop("detaching") \/ Quiesced \/ Detach \/ Crash
    BY <1>0, <1>5 DEF Start, Stop, Quiesced, Detach, Crash, Gone, world
  <1>6. ASSUME NEW c \in Callers, NEW q \in Profiles,
               (\E v \in Visibilities[q] : Use(c, q, v)) \/ Sweep(c, q) \/ Recolour(c, q)
        PROVE  MayEnd(p)
    BY <1>0, <1>6 DEF Use, Sweep, Recolour, world
  <1>7. CASE UNCHANGED vars
    BY <1>0, <1>7 DEF vars
  <1> QED
    BY <1>1, <1>2, <1>3, <1>4, <1>5, <1>6, <1>7 DEF Next

(***************************************************************************)
(* The daemon tells a browser in use to end only when it quiesces or when  *)
(* its profile is recoloured, and a recorded one nobody is attached to     *)
(* only for a request it does not suit, or while the daemon is stopped.    *)
(***************************************************************************)
THEOREM BrowsersEndForReasons == Spec => BrowsersPreserved
  <1> DEFINE A == \A p \in Profiles : ToldToEnd(p) => MayEnd(p)
  <1>1. IInv /\ [Next]_vars => [A]_vars
    BY StepPreserves
  <1>2. Spec => [][A]_vars
    BY <1>1, ContextsSound, PTL DEF Spec
  <1> QED
    BY <1>2 DEF BrowsersPreserved, MayEnd

-----------------------------------------------------------------------------
(* Who is handed a browser                                                 *)

HandsWell(c, p) ==
    /\ call'[c].profile = p
    /\ Attached(p)'
    /\ ctx'[p].by = "request" /\ Ready(p)' /\ browser'[p].recorded => Suits(browser'[p], call[c])
    /\ ~Attached(p) => Cardinality(Contexts') <= MaxContexts

\* What fits a request and is as its context says, suits the request.
LEMMA FittingSuits ==
    ASSUME NEW p, NEW c, NEW x, Matches(x, p), Fits(x, call[c]), call[c].vis \in Vis,
           x.by = "request", Ready(p), browser[p].recorded
    PROVE  Suits(browser[p], call[c])
  BY DEF Matches, Fits, Suits, Signature, Effective, Vis

LEMMA HandedWho ==
    ASSUME TypeOK, NEW d \in Callers, call' = Handed(d), NEW c \in Callers,
           call[c].at # "using", call'[c].at = "using"
    PROVE  /\ c = d /\ call'[c].profile = call[c].profile
           /\ call[c] \in Asking \union Restorations => call[c].kind = "use"
  <1>1. c = d
    BY DEF Handed, TypeOK
  <1>2. call'[c].profile = call[c].profile
    BY <1>1 DEF Handed, TypeOK, NoCall
  <1>3. call[c] \in Asking \union Restorations => call[c].kind = "use"
    BY <1>1, HandedSound
  <1> QED
    BY <1>1, <1>2, <1>3

\* The context that is open fits, and it is as it says.
LEMMA FoundWell ==
    ASSUME IInv, NEW c \in Callers, NEW p \in Profiles, p = call[c].profile, call[c] \in Asking,
           Usable(p), Fits(ctx[p], call[c]), UNCHANGED <<browser, ctx>>, call'[c].profile = p
    PROVE  HandsWell(c, p)
  <1>1. Attached(p) /\ Attached(p)' /\ Matches(ctx[p], p)
    BY DEF IInv, ContextSound, Usable, Open, Attached
  <1>2. call[c].vis \in Vis
    BY DEF Asking
  <1>3. (Ready(p)' <=> Ready(p)) /\ ctx'[p] = ctx[p] /\ browser'[p] = browser[p]
    BY DEF Ready, Running
  <1>4. ctx[p].by = "request" /\ Ready(p) /\ browser[p].recorded => Suits(browser[p], call[c])
    BY <1>1, <1>2, FittingSuits
  <1> QED
    BY <1>1, <1>3, <1>4 DEF HandsWell

\* A new context is what the launch or the connection got, and one more than there were.
LEMMA OpenedWell ==
    ASSUME IInv, ContextAssumption, NEW c \in Callers, NEW p \in Profiles, p = call[c].profile,
           Opened(c), call'[c].at = "using"
    PROVE  HandsWell(c, p)
  <1> DEFINE x == call[c].got
             y == [x EXCEPT !.connected = Running(p), !.listening = Running(p)]
  <1>0. /\ TypeOK /\ call[c] \in Restorations /\ call[c].at = "restoring" /\ call' = Handed(c)
    BY ShapeOf DEF IInv, Opened, Has, Hand
  <1>1. call[c].kind = "use" /\ call'[c].profile = p
    BY <1>0, HandedWho
  <1>2. /\ ctx[p] = NoContext /\ Matches(x, p) /\ Fits(x, call[c])
        /\ Cardinality(Contexts) < MaxContexts
    BY <1>0, <1>1 DEF IInv, CallSound, Working
  <1>3. ctx' = [ctx EXCEPT ![p] = y] /\ browser' = browser
    BY DEF Opened, world
  <1>4. x \in OpenContexts /\ y.by = x.by /\ y.state = "open" /\ call[c].vis \in Vis
    BY <1>0 DEF Restorations, OpenContexts
  <1> HIDE DEF x, y
  <1>5. ctx'[p] = y /\ \A q \in Profiles \ {p} : ctx'[q] = ctx[q]
    BY <1>0, <1>3 DEF TypeOK
  <1>6. y # NoContext
    BY <1>4 DEF NoContext
  <1>7. Attached(p)'
    BY <1>5, <1>6 DEF Attached
  <1>8. ctx'[p].by = "request" /\ Ready(p)' /\ browser'[p].recorded => Suits(browser'[p], call[c])
    <2>1. (Ready(p)' <=> Ready(p)) /\ browser'[p] = browser[p]
      BY <1>3 DEF Ready, Running
    <2> QED
      BY <1>2, <1>4, <1>5, <2>1, FittingSuits
  <1>9. Cardinality(Contexts') <= MaxContexts
    <2>1. Contexts' = Contexts \union {p}
      BY <1>5, <1>6 DEF Contexts, Attached
    <2>2. IsFiniteSet(Contexts)
      BY FS_Subset DEF ContextAssumption, Contexts
    <2>3. /\ Cardinality(Contexts) \in Nat
          /\ Cardinality(Contexts \union {p}) <= Cardinality(Contexts) + 1
      <3>1. Cardinality(Contexts) \in Nat
        BY <2>2, FS_CardinalityType
      <3>2. Cardinality(Contexts \union {p}) = IF p \in Contexts THEN Cardinality(Contexts)
                                               ELSE Cardinality(Contexts) + 1
        BY <2>2, FS_AddElement
      <3> QED
        BY <3>1, <3>2
    <2>4. Cardinality(Contexts \union {p}) \in Nat /\ MaxContexts \in Nat
      BY <2>2, FS_AddElement, FS_CardinalityType DEF ContextAssumption
    <2> QED
      BY <1>2, <2>1, <2>3, <2>4
  <1> QED
    BY <1>1, <1>7, <1>8, <1>9 DEF HandsWell

\* The steps of a call that hand nobody a browser.
LEMMA HandsNone ==
    ASSUME TypeOK, NEW d \in Callers, NEW c \in Callers, call[c].at # "using",
           \/ Awaited(d) \/ ConnectExisting(d) \/ Replace(d) \/ Spawn(d) \/ Launched(d)
           \/ LaunchBreaks(d) \/ Aborted(d) \/ RestoreFails(d) \/ Done(d) \/ UseBreaks(d)
           \/ CloseProfile(d) \/ SaveColour(d)
    PROVE  call'[c].at # "using"
  <1>1. CASE \/ Aborted(d) \/ RestoreFails(d) \/ Done(d) \/ UseBreaks(d) \/ SaveColour(d)
    BY <1>1 DEF Aborted, RestoreFails, Done, UseBreaks, SaveColour, Finish, NoCall, TypeOK
  <1>2. ASSUME NEW at, at # "using", NEW e \in Callers, call' = [call EXCEPT ![e].at = at]
        PROVE  call'[c].at # "using"
    <2>1. CASE c # e
      BY <1>2, <2>1 DEF TypeOK
    <2>2. CASE c = e /\ call[c] = NoCall
      BY <1>2, <2>2 DEF TypeOK, NoCall
    <2>3. CASE c = e /\ call[c] # NoCall
      BY <1>2, <2>3 DEF TypeOK, Asking, Launches, Abortions, Restorations, Holding
    <2> QED
      BY <2>1, <2>2, <2>3
  <1>a. ASSUME NEW at, at # "using", Goto(d, at) PROVE call'[c].at # "using"
    BY <1>2, <1>a DEF Goto
  <1>b. ASSUME Finish(d) PROVE call'[c].at # "using"
    BY <1>b DEF Finish, NoCall, TypeOK
  <1>c. CASE CloseProfile(d)
    <2>1. PICK at \in {"ending", "saving"} : call' = [call EXCEPT ![d].at = at]
      BY <1>c DEF CloseProfile
    <2> QED
      BY <1>2, <2>1
  <1>3. CASE Awaited(d) \/ Replace(d) \/ CloseProfile(d)
    BY <1>a, <1>b, <1>c, <1>3 DEF Awaited, Replace, StartConnecting
  <1>4. ASSUME NEW x, Got(d, x) PROVE call'[c].at # "using"
    BY <1>4 DEF Got, Aborting, TypeOK
  <1>5. CASE ConnectExisting(d) \/ Launched(d)
    BY <1>a, <1>b, <1>4, <1>5 DEF ConnectExisting, Launched
  <1>6. CASE Spawn(d) \/ LaunchBreaks(d)
    BY <1>6 DEF Spawn, LaunchBreaks, Aborting, TypeOK
  <1> QED
    BY <1>1, <1>3, <1>5, <1>6

LEMMA ProceedHands ==
    ASSUME IInv, ContextAssumption, NEW d \in Callers, Proceed(d), NEW c \in Callers,
           call[c].at # "using", call'[c].at = "using", NEW p \in Profiles, p = call[c].profile
    PROVE  HandsWell(c, p)
  <1>0. TypeOK
    BY DEF IInv
  <1>1. CASE Ensure(d)
    <2>1. call' = Handed(d) \/ call' = [call EXCEPT ![d].at = "queued"]
      BY <1>1 DEF Ensure
    <2>2. CASE call' = [call EXCEPT ![d].at = "queued"]
      <3>1. call[d] \in Asking
        BY <1>0, <1>1, ShapeOf DEF Ensure
      <3> QED
        BY <1>0, <2>2, <3>1 DEF TypeOK, Asking
    <2>3. CASE call' # [call EXCEPT ![d].at = "queued"]
      <3>1. c = d /\ call'[c].profile = p
        BY <1>0, <2>1, <2>3, HandedWho
      <3>2. Usable(p) /\ Fits(ctx[p], call[c]) /\ UNCHANGED <<browser, ctx>> /\ call[c] \in Asking
        BY <1>0, <1>1, <2>3, <3>1, ShapeOf DEF Ensure, world
      <3> QED
        BY <3>1, <3>2, FoundWell
    <2> QED
      BY <2>2, <2>3
  <1>2. CASE Begin(d)
    <2>0. call[d] \in Asking
      BY <1>0, <1>2, ShapeOf DEF Begin, Has
    <2>1. ~Finish(d) /\ \A at \in {"awaiting", "connecting"} : ~Goto(d, at)
      BY <1>0, <2>0 DEF Finish, Goto, NoCall, TypeOK, Asking
    <2>2. Hand(d) /\ Usable(call[d].profile) /\ Fits(ctx[call[d].profile], call[d])
          /\ UNCHANGED <<browser, ctx>>
      BY <1>2, <2>1 DEF Begin, StartConnecting
    <2>3. c = d /\ call'[c].profile = p
      BY <1>0, <2>2, HandedWho DEF Hand
    <2> QED
      BY <2>0, <2>2, <2>3, FoundWell
  <1>3. CASE Opened(d)
    <2>1. c = d
      BY <1>0, <1>3, HandedWho DEF Opened, Hand
    <2> QED
      BY <1>3, <2>1, OpenedWell
  <1>4. CASE ConnectResident(d)
    <2>1. /\ call[d] \in Asking /\ call[d].kind # "use"
      BY <1>0, <1>4, ShapeOf DEF ConnectResident, Has
    <2>2. ASSUME NEW x, Got(d, x) PROVE FALSE
      BY <1>0, <2>2 DEF Got, Aborting, TypeOK
    <2>3. call' = Handed(d) \/ call' = [call EXCEPT ![d] = NoCall]
      BY <1>4, <2>2 DEF ConnectResident, Hand, Finish
    <2>4. CASE call' = Handed(d)
      BY <1>0, <2>1, <2>4, HandedWho
    <2>5. CASE call' = [call EXCEPT ![d] = NoCall]
      BY <1>0, <2>5 DEF TypeOK, NoCall
    <2> QED
      BY <2>3, <2>4, <2>5
  <1> QED
    BY <1>0, <1>1, <1>2, <1>3, <1>4, HandsNone DEF Proceed

LEMMA StepHands ==
    ASSUME IInv, ContextAssumption, [Next]_vars, NEW c \in Callers,
           call[c].at # "using", call'[c].at = "using"
    PROVE  \E p \in Profiles : p = call[c].profile /\ HandsWell(c, p)
  <1>0. TypeOK
    BY DEF IInv
  <1>1. ASSUME NEW d \in Callers, Proceed(d)
        PROVE  \E p \in Profiles : p = call[c].profile /\ HandsWell(c, p)
    <2>0. call[d].at # "none"
      BY <1>1 DEF Proceed, Ensure, Begin, Awaited, ConnectResident, ConnectExisting, Replace,
                  Spawn, Launched, LaunchBreaks, Aborted, Opened, RestoreFails, Done, UseBreaks,
                  CloseProfile, SaveColour, Has
    <2>1. call[c] # NoCall
      <3>1. CASE call' = Handed(d)
        <4>1. c = d
          BY <1>0, <3>1, HandedWho
        <4> QED
          BY <2>0, <4>1 DEF NoCall
      <3>2. CASE call[c] = NoCall /\ call' # Handed(d)
        <4>1. c # d
          BY <2>0, <3>2 DEF NoCall
        <4>2. call'[c] = call[c]
          BY <1>0, <1>1, <3>2, <4>1
          DEF Proceed, Ensure, Begin, Awaited, ConnectResident, ConnectExisting, Replace, Spawn,
              Launched, LaunchBreaks, Aborted, Opened, RestoreFails, Done, UseBreaks,
              CloseProfile, SaveColour, Finish, Goto, Hand, Got, StartConnecting, TypeOK
        <4> QED
          BY <3>2, <4>2
      <3> QED
        BY <3>1, <3>2
    <2>2. call[c].profile \in Profiles
      BY <1>0, <2>1 DEF TypeOK, Asking, Launches, Abortions, Restorations, Holding
    <2> QED
      BY <1>1, <2>2, ProceedHands
  <1>2. CASE call' = call
    BY <1>2
  <1>3. ASSUME NEW p \in Profiles, EndClose(p) PROVE FALSE
    BY <1>0, <1>3 DEF EndClose, TypeOK, Holding
  <1>4. ASSUME NEW d \in Callers, NEW p \in Profiles,
               (\E v \in Visibilities[p] : Use(d, p, v)) \/ Sweep(d, p) \/ Recolour(d, p)
        PROVE  FALSE
    BY <1>0, <1>4 DEF Use, Sweep, Recolour, NewCall, TypeOK
  <1>5. CASE Gone
    BY <1>5 DEF Gone, NoCall
  <1>6. ASSUME NEW p \in Profiles,
               CloseHeard(p) \/ ChangeProxy(p) \/ BrowserReady(p) \/ BrowserExits(p)
                 \/ BrowserEnds(p) \/ ConnectionLost(p)
        PROVE  call' = call
    BY <1>6 DEF CloseHeard, ChangeProxy, BrowserReady, BrowserExits, BrowserEnds, ConnectionLost, Ends
  <1>7. CASE Start \/ Stop("closing") \/ Stop("detaching") \/ CloseAll \/ Quiesced \/ UNCHANGED vars
    BY <1>2, <1>7 DEF Start, Stop, CloseAll, Quiesced, vars
  <1> QED
    BY <1>1, <1>2, <1>3, <1>4, <1>5, <1>6, <1>7 DEF Next, Detach, Crash

(***************************************************************************)
(* A request that is handed a browser that was started for a request and   *)
(* recorded gets the setting and visibility it asked for, also when it had *)
(* to wait for the lane or took the browser of an earlier daemon; and a    *)
(* context it adds is one of at most MaxContexts.                          *)
(***************************************************************************)
THEOREM RequestsGetWhatTheyAsked == Spec => HandedAsAsked
  <1> DEFINE A == \A c \in Callers : call[c].at # "using" /\ call'[c].at = "using" =>
                     \E p \in Profiles : p = call[c].profile /\ HandsWell(c, p)
             B == \A c \in Callers : call[c].at # "using" /\ call'[c].at = "using" =>
                     LET p == call[c].profile
                     IN /\ Attached(p)'
                        /\ ctx'[p].by = "request" /\ Ready(p)' /\ browser'[p].recorded =>
                               Suits(browser'[p], call[c])
                        /\ ~Attached(p) => Cardinality(Contexts') <= MaxContexts
  <1>1. IInv /\ ContextAssumption /\ [Next]_vars => A
    BY StepHands
  <1>2. A => B
    BY DEF HandsWell, Attached, Ready, Running
  <1>3. IInv /\ [Next]_vars => [B]_vars
    BY <1>1, <1>2, ContextAssumption
  <1>4. Spec => [][B]_vars
    BY <1>3, ContextsSound, PTL DEF Spec
  <1> QED
    BY <1>4 DEF HandedAsAsked
=============================================================================
