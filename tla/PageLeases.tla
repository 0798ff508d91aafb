------------------------------- MODULE PageLeases -------------------------------
(***************************************************************************)
(* The tabs of one managed browser and the daemon that shares it with the  *)
(* user: context-manager.ts with its callers in runner-service.ts.  A job  *)
(* leases the work tab of its page reference, a check of a sign-in works   *)
(* in a temporary tab, the user opens provider tabs that are kept, and a   *)
(* sweep adopts tabs an earlier daemon left and closes work tabs that are  *)
(* idle.  Allocation and collection take turns in the context's lane; the  *)
(* end of a lease, of a temporary tab or of the whole browser does not,    *)
(* and neither does what the user does.  `lane' names the await the        *)
(* operation in the lane stands at.  The name of a tab may be used again   *)
(* once the tab is closed and nothing refers to it.                        *)
(***************************************************************************)
CONSTANTS
    Clients,    \* jobs, calls that open provider tabs, sign-in checks
    Refs,       \* page references; each also stands for the URL of its saved conversation
    Pages,      \* bound: tabs open at a time; each also stands for its `resident:<target id>'
    Watched,    \* bound: the tabs whose reclamation is followed; all tabs are alike
    None        \* no reference, no client, no tab

ASSUME RefsAssumption == Refs \intersect (Pages \union {None, "blank", "home"}) = {}
ASSUME NoneAssumption == None \notin Clients \union Refs \union Pages

VARIABLES
    phase,      \* of the context: serving, attaching to a browser that runs, detached, down
    closing,    \* ActiveContext.closing: no, by a close of the browser, or by a detach
    open, url,  \* the browser's tabs and what they show: blank, home, or a conversation
    saved,      \* what the file tokenless-browser-tabs.json says of tabs that are open
    owned, crashed,         \* ownedPages, unavailablePages
    bind,       \* providerPages and providerPagesByRef
    lease,      \* the tab a client works in (None), and the reference it asked for
    temp,       \* temporaryPages, with the client that closes each
    lane,       \* the operation that holds pageAllocation
    chosen,     \* history: tabs that were registered as opened for the user
    lone        \* history: no tab but the collected one closed since the keeper was considered

browserVars == <<open, url>>
memory == <<owned, crashed, bind, lease, temp>>
vars == <<phase, closing, browserVars, saved, memory, lane, chosen, lone>>

-----------------------------------------------------------------------------
Purposes == {"work", "user"}
RefKeys == Refs \union Pages
Bindings == [ref : RefKeys, purpose : Purposes, held : BOOLEAN, idle : {"no", "fresh", "due"},
             pinned : BOOLEAN]
Unbound == [ref |-> None, purpose |-> "work", held |-> FALSE, idle |-> "no", pinned |-> FALSE]
NewBinding(r, purpose) == [Unbound EXCEPT !.ref = r, !.purpose = purpose]

Free == [op |-> "none", client |-> None, ref |-> None, purpose |-> "work", page |-> None,
         todo |-> {}, changed |-> FALSE]
Ops == {"none", "probe", "create", "save", "temp", "restore", "saveRestored", "observe",
        "recheck", "keep", "close", "saveCollected"}
Lanes == [op : Ops, client : Clients \union {None}, ref : Refs \union {None}, purpose : Purposes,
          page : Pages \union {None}, todo : SUBSET Pages, changed : BOOLEAN]
NoLease == [page |-> None, ref |-> None]

Bound == {p \in Pages : bind[p] # Unbound}
Temporary == {temp[c] : c \in Clients} \ {None}
Claimed(p) == bind[p] # Unbound      \* managedPageClaimed; keyed and reserved tabs stay blank
InUse(p) == bind[p].pinned \/ \E c \in Clients : lease[c].page = p      \* users > 0

\* isIdlePage.
IsIdle(p, b) == /\ closing = "no" /\ p \in open \intersect owned /\ p \notin crashed
                /\ b.ref # None /\ b.purpose = "work" /\ ~b.held /\ b.idle # "no" /\ ~InUse(p)

\* bindProviderPage: the reference and the page lose what they were bound to.
BindPage(p, b) == [q \in Pages |-> IF q = p THEN b ELSE IF bind[q].ref = b.ref THEN Unbound
                                                   ELSE bind[q]]

\* What the close of a tab does to the maps, by the listeners of createOwnedBackgroundPage and
\* observeProviderPageLifecycle.
ClosePage(p) ==
    /\ open' = open \ {p}
    /\ owned' = owned \ {p} /\ crashed' = crashed \ {p}
    /\ bind' = [bind EXCEPT ![p] = Unbound]
    /\ url' = [url EXCEPT ![p] = "blank"] /\ chosen' = chosen \ {p}
    /\ saved' = {e \in saved : e.page # p}       \* its target id never comes back
    /\ lease' = [c \in Clients |-> IF lease[c].page = p THEN NoLease ELSE lease[c]]
    /\ temp' = [c \in Clients |-> IF temp[c] = p THEN None ELSE temp[c]]

\* createBackgroundPage: a blank tab.
MakePage(p) ==
    /\ p \in Pages \ (open \union {lane.page} \union lane.todo)
    /\ open' = open \union {p}

\* Mutant of Registered: every tab is registered as a work tab.
RegisteredAsWork == {[page |-> p, ref |-> bind[p].ref, purpose |-> "work"] : p \in Bound \intersect open}

\* savePages writes what is bound at the time.  Its filter for pages without a target id drops none that is
\* bound here: every way to bind a page awaits its target id before the file is written.
Registered == {[page |-> p, ref |-> bind[p].ref, purpose |-> bind[p].purpose] : p \in Bound \intersect open}

\* What a daemon forgets with the context.
Forget ==
    /\ owned' = {} /\ crashed' = {}
    /\ bind' = [p \in Pages |-> Unbound]
    /\ lease' = [c \in Clients |-> NoLease] /\ temp' = [c \in Clients |-> None]
    /\ lane' = Free /\ closing' = "no" /\ lone' = TRUE

-----------------------------------------------------------------------------
(* Who may use the context: allocation asserts that it is open.            *)
Serving == phase = "serving"
Begin == Serving /\ lane = Free /\ closing = "no"
Waiting(c) == lease[c] = NoLease /\ temp[c] = None
Step(op) == lane.op = op

\* The pages a request may take over.
Candidate(p, purpose) == /\ p \in open /\ p \notin crashed /\ ~Claimed(p) /\ url[p] # "blank"
                         /\ purpose = "user" \/ p \in owned
Search(request, todo) ==
    LET found == {p \in todo : Candidate(p, request.purpose)} IN
    lane' \in IF found = {}
               THEN {[request EXCEPT !.op = "create", !.page = None, !.todo = {}]}
               ELSE {[request EXCEPT !.op = "probe", !.page = p, !.todo = found \ {p}] : p \in found}

\* useProviderPage.  A call that opens provider tabs ends without a release.
Lend(c, p, r, purpose, to) ==
    /\ bind' = [bind EXCEPT ![p].held = IF InUse(p) THEN @ ELSE FALSE, ![p].idle = "no",
                            ![p].pinned = @ \/ to = "user"]
    /\ lease' = IF to = "user" THEN lease ELSE [lease EXCEPT ![c] = [page |-> p, ref |-> r]]

\* Mutant of Reuse: a bound tab is lent without waiting for the lane.
ReuseAtOnce(c, r, purpose) ==
    /\ Serving /\ closing = "no" /\ Waiting(c)
    /\ \E p \in Bound \ crashed : bind[p].ref = r /\ Lend(c, p, r, purpose, purpose)
    /\ UNCHANGED <<phase, closing, browserVars, saved, owned, crashed, temp, lane, chosen, lone>>

\* acquireProviderPage: a bound tab is shared.
Reuse(c, r, purpose) ==
    /\ Begin /\ Waiting(c)
    /\ \E p \in Bound \ crashed : bind[p].ref = r /\ Lend(c, p, r, purpose, purpose)
    /\ UNCHANGED <<phase, closing, browserVars, saved, owned, crashed, temp, lane, chosen, lone>>

\* acquireProviderPage with policy replace.
Replace(c, r) ==
    /\ Begin /\ Waiting(c)
    /\ \E p \in Bound \ crashed :
          /\ bind[p].ref = r /\ ~InUse(p) /\ ~bind[p].held
          /\ LET request == [Free EXCEPT !.client = c, !.ref = r] IN
             IF p \in owned
               THEN /\ lane' = [request EXCEPT !.op = IF open = {p} THEN "keep" ELSE "close", !.page = p]
                    /\ bind' = bind
               ELSE /\ lane' = [request EXCEPT !.op = "create"]
                    /\ bind' = [bind EXCEPT ![p] = Unbound]
    /\ UNCHANGED <<phase, closing, browserVars, saved, owned, crashed, lease, temp, chosen, lone>>

\* acquireProviderPage: no tab is bound to the reference.
Acquire(c, r, purpose) ==
    /\ Begin /\ Waiting(c)
    /\ \A p \in Pages : bind[p].ref # r
    /\ Search([Free EXCEPT !.client = c, !.ref = r, !.purpose = purpose], open)
    /\ UNCHANGED <<phase, closing, browserVars, saved, memory, chosen, lone>>

\* isAvailablePage: the candidate generates, or is gone.
ProbeBusy ==
    /\ Step("probe") /\ Search(lane, lane.todo)
    /\ UNCHANGED <<phase, closing, browserVars, saved, memory, chosen, lone>>

ProbeFree ==
    /\ Step("probe") /\ lane.page \in open
    /\ IF closing # "no"
         THEN lane' = Free /\ bind' = bind
         ELSE /\ bind' = BindPage(lane.page, NewBinding(lane.ref, lane.purpose))
              /\ lane' = [lane EXCEPT !.op = "save", !.todo = {}]
    /\ UNCHANGED <<phase, closing, browserVars, saved, owned, crashed, lease, temp, chosen, lone>>

CreateEnds ==
    /\ Step("create")
    /\ \E p \in Pages :
          /\ MakePage(p)
          /\ owned' = owned \union {p}
          /\ IF closing # "no"
               THEN lane' = Free /\ bind' = bind
               ELSE /\ bind' = BindPage(p, NewBinding(lane.ref, lane.purpose))
                    /\ lane' = [lane EXCEPT !.op = "save", !.page = p]
    /\ UNCHANGED <<phase, closing, url, saved, crashed, lease, temp, chosen, lone>>

\* rememberPage, then the lease.
SaveEnds ==
    /\ Step("save") /\ lane.page \in open
    /\ saved' = Registered
    /\ Lend(lane.client, lane.page, lane.ref, lane.purpose, lane.purpose)
    /\ lane' = Free
    /\ chosen' = IF lane.purpose = "user" THEN chosen \union {lane.page} ELSE chosen
    /\ UNCHANGED <<phase, closing, browserVars, owned, crashed, temp, lone>>

TempBegins(c) ==
    /\ Begin /\ Waiting(c)
    /\ lane' = [Free EXCEPT !.op = "temp", !.client = c]
    /\ UNCHANGED <<phase, closing, browserVars, saved, memory, chosen, lone>>

TempEnds ==
    /\ Step("temp")
    /\ \E p \in Pages : /\ MakePage(p)
                        /\ owned' = owned \union {p}
                        /\ temp' = [temp EXCEPT ![lane.client] = p]
    /\ lane' = Free
    /\ UNCHANGED <<phase, closing, url, saved, crashed, bind, lease, chosen, lone>>

\* A tab cannot be made or saved: the request is refused; a binding that was made stays.
AllocationFails ==
    /\ lane.op \in {"create", "save", "temp"}
    /\ lane' = Free
    /\ UNCHANGED <<phase, closing, browserVars, saved, memory, chosen, lone>>

-----------------------------------------------------------------------------
(* What does not wait for the lane.                                        *)
\* Mutant of Release: the clock starts though others still lease the tab.
ReleaseWhileShared(c) ==
    /\ lease[c] # NoLease
    /\ lease' = [lease EXCEPT ![c] = NoLease]
    /\ LET p == lease[c].page IN
       bind' = IF p \in Bound \intersect owned /\ bind[p].purpose = "work" /\ ~bind[p].held /\ ~bind[p].pinned
                 THEN [bind EXCEPT ![p].idle = "fresh"] ELSE bind
    /\ UNCHANGED <<phase, closing, browserVars, saved, owned, crashed, temp, lane, chosen, lone>>

\* release.
Release(c) ==
    /\ lease[c] # NoLease
    /\ lease' = [lease EXCEPT ![c] = NoLease]
    /\ LET p == lease[c].page
           last == /\ p \in Bound \intersect owned /\ bind[p].purpose = "work" /\ ~bind[p].held
                   /\ ~bind[p].pinned /\ \A d \in Clients \ {c} : lease[d].page # p IN
       bind' = IF last THEN [bind EXCEPT ![p].idle = "fresh"] ELSE bind
    /\ UNCHANGED <<phase, closing, browserVars, saved, owned, crashed, temp, lane, chosen, lone>>

\* The job or the check navigates its tab.
Navigate(c) ==
    /\ Serving
    /\ \E p \in open \intersect {lease[c].page, temp[c]} :
          /\ url[p] = "blank" \/ lease[c].page = p
          /\ url' = [url EXCEPT ![p] = IF @ = "blank" \/ p = temp[c] THEN "home" ELSE lease[c].ref]
    /\ UNCHANGED <<phase, closing, open, saved, memory, lane, chosen, lone>>

Reclaiming == lane.op \in {"keep", "close"}

\* The end of a sign-in check closes its tab.
TempClose(c) ==
    /\ temp[c] # None
    /\ ClosePage(temp[c]) /\ lone' = ~Reclaiming
    /\ UNCHANGED <<phase, closing, lane>>

-----------------------------------------------------------------------------
(* The user and the pages.                                                 *)
UserOpens ==
    /\ phase # "down"
    /\ \E p \in Pages, u \in Refs \union {"home"} : MakePage(p) /\ url' = [url EXCEPT ![p] = u]
    /\ UNCHANGED <<phase, closing, saved, memory, lane, chosen, lone>>

UserCloses(p) ==
    /\ p \in open
    /\ ClosePage(p) /\ lone' = ~Reclaiming
    /\ UNCHANGED <<phase, closing, lane>>

\* onCrash.
PageCrashes(p) ==
    /\ p \in (Bound \intersect open) \ crashed
    /\ crashed' = crashed \union {p}
    /\ bind' = [bind EXCEPT ![p].held = TRUE, ![p].idle = "no"]
    /\ UNCHANGED <<phase, closing, browserVars, saved, owned, lease, temp, lane, chosen, lone>>

\* The idle timeout passes.
Timeout(p) ==
    /\ bind[p].idle = "fresh"
    /\ bind' = [bind EXCEPT ![p].idle = "due"]
    /\ UNCHANGED <<phase, closing, browserVars, saved, owned, crashed, lease, temp, lane, chosen, lone>>

-----------------------------------------------------------------------------
(* collectIdlePages, in the lane: restorePages, then the bound tabs.       *)
Collecting(todo) ==
    LET found == {p \in todo \intersect open : bind[p] # Unbound /\ bind[p].purpose = "work" /\ ~InUse(p)} IN
    IF closing # "no" \/ found = {}
      THEN {Free}
      ELSE {[Free EXCEPT !.op = "observe", !.page = p, !.todo = todo \ {p}] : p \in found}

\* The tabs restorePages asks about: nobody's.
Restoring(todo, changed) ==
    LET found == {p \in todo \intersect open : ~Claimed(p) /\ p \notin Temporary} IN
    IF found # {}
      THEN {[Free EXCEPT !.op = "restore", !.page = p, !.changed = changed, !.todo = found \ {p}] : p \in found}
      ELSE IF changed THEN {[Free EXCEPT !.op = "saveRestored"]}
      ELSE IF phase = "attaching" THEN {Free} ELSE Collecting(Bound)

SweepBegins ==
    /\ Begin
    /\ lane' \in Restoring(open, FALSE) \ {Free}
    /\ UNCHANGED <<phase, closing, browserVars, saved, memory, chosen, lone>>

\* One tab of restorePages: what the file says of it, or else its conversation.
Restore ==
    LET p == lane.page
        entries == {e \in saved : e.page = p}
        known == {[ref |-> e.ref, purpose |-> e.purpose] : e \in entries}
                 \union (IF entries = {} /\ url[p] \in Refs
                           THEN {[ref |-> url[p], purpose |-> "work"]} ELSE {})
    IN /\ Step("restore") /\ p \in open
       /\ \/ \E k \in known :
                /\ LET taken == \E q \in Pages : bind[q].ref = k.ref IN
                   bind' = BindPage(p, [NewBinding(IF taken THEN p ELSE k.ref, k.purpose)
                                          EXCEPT !.idle = "fresh"])
                /\ owned' = owned \union {p}
                /\ lane' \in Restoring(lane.todo, TRUE)
          \/ /\ known = {}
             /\ lane' \in Restoring(lane.todo, lane.changed)
             /\ UNCHANGED <<bind, owned>>
       /\ phase' = IF phase = "attaching" /\ lane' = Free THEN "serving" ELSE phase
       /\ UNCHANGED <<closing, browserVars, saved, crashed, lease, temp, chosen, lone>>

\* The tab is gone: the sweep of this context ends, or the attachment fails.
RestoreFails ==
    /\ lane.op \in {"restore", "saveRestored"}
    /\ lane.op = "restore" => lane.page \notin open
    /\ IF phase = "attaching"
         THEN /\ phase' = "detached" /\ Forget
         ELSE /\ lane' = Free
              /\ UNCHANGED <<phase, closing, memory, lone>>
    /\ UNCHANGED <<browserVars, saved, chosen>>

SaveRestored ==
    /\ Step("saveRestored")
    /\ saved' = Registered
    /\ IF phase = "attaching"
         THEN phase' = "serving" /\ lane' = Free
         ELSE phase' = phase /\ lane' \in Collecting(Bound)
    /\ UNCHANGED <<closing, browserVars, memory, chosen, lone>>

\* Mutant of Observed: a tab that was held stays held.
ObservedHeld(p, touched) == [bind[p] EXCEPT !.idle = IF @ = "no" \/ touched THEN "fresh" ELSE @]

\* refreshActivity: a tab that is not in use is held no longer; activity of the user that the page
\* reports since its last observation restarts the clock.
Observed(p, touched) ==
    [bind[p] EXCEPT !.held = FALSE, !.idle = IF @ = "no" \/ touched THEN "fresh" ELSE @]

\* An observation inside the sweep (observe) and the one collectPage makes before it closes.
Observe(touched) ==
    LET p == lane.page
        b == Observed(p, touched) IN
    /\ lane.op \in {"observe", "recheck"}
    /\ IF p \notin open
         THEN lane' \in Collecting(lane.todo) /\ bind' = bind
         ELSE /\ bind' = [bind EXCEPT ![p] = b]
              /\ IF IsIdle(p, b) /\ b.idle = "due"
                   THEN lane' = IF lane.op = "observe" THEN [lane EXCEPT !.op = "recheck"]
                                ELSE [lane EXCEPT !.op = IF open = {p} THEN "keep" ELSE "close"]
                   ELSE lane' \in Collecting(lane.todo)
    /\ UNCHANGED <<phase, closing, browserVars, saved, owned, crashed, lease, temp, chosen, lone>>

\* preserveResidentBrowser: the collected tab is the last one.
KeepEnds ==
    /\ Step("keep")
    /\ \E p \in Pages : /\ MakePage(p)
                        /\ owned' = owned \union {p}
    /\ lane' = [lane EXCEPT !.op = "close"]
    /\ UNCHANGED <<phase, closing, url, saved, crashed, bind, lease, temp, chosen, lone>>

\* The tab of an idle binding, or of a replaced one, is closed.
CloseEnds ==
    /\ Step("close")
    /\ IF lane.page \in open THEN ClosePage(lane.page)
         ELSE UNCHANGED <<browserVars, saved, memory, chosen>>
    /\ lane' = [lane EXCEPT !.op = IF lane.client = None THEN "saveCollected" ELSE "create", !.page = None]
    /\ lone' = TRUE
    /\ UNCHANGED <<phase, closing>>

CloseFails ==
    /\ Reclaiming
    /\ bind' = IF bind[lane.page] = Unbound THEN bind
               ELSE [bind EXCEPT ![lane.page].held = TRUE, ![lane.page].idle = "no"]
    /\ IF lane.client = None THEN lane' \in Collecting(lane.todo) ELSE lane' = Free
    /\ lone' = TRUE
    /\ UNCHANGED <<phase, closing, browserVars, saved, owned, crashed, lease, temp, chosen>>

SaveCollected ==
    /\ Step("saveCollected")
    /\ saved' = Registered
    /\ lane' \in Collecting(lane.todo)
    /\ UNCHANGED <<phase, closing, browserVars, memory, chosen, lone>>

-----------------------------------------------------------------------------
(* The life of the context.                                                *)
\* closeProfile and shutdown.
CloseBegins ==
    /\ Serving /\ closing = "no"
    /\ closing' = "close"
    /\ UNCHANGED <<phase, browserVars, saved, memory, lane, chosen, lone>>

\* The browser ends: it was closed, or it ended by itself.
BrowserEnds ==
    /\ phase # "down"
    /\ phase' = "down"
    /\ Forget
    /\ open' = {} /\ url' = [p \in Pages |-> "blank"]
    /\ chosen' = {}
    /\ saved' = {}       \* no target of this browser comes back

BrowserCloseFails ==
    /\ closing = "close"
    /\ closing' = "no"
    /\ UNCHANGED <<phase, browserVars, saved, memory, lane, chosen, lone>>

\* detach runs next to the jobs that end.
DetachBegins ==
    /\ Serving /\ closing = "no"
    /\ closing' = "detach"
    /\ UNCHANGED <<phase, browserVars, saved, memory, lane, chosen, lone>>

DetachEnds ==
    /\ closing = "detach" /\ lane = Free
    /\ phase' = "detached" /\ Forget
    /\ UNCHANGED <<browserVars, saved, chosen>>

\* The daemon dies; the resident browser does not.
Kill ==
    /\ phase \in {"serving", "attaching"}
    /\ phase' = "detached" /\ Forget
    /\ UNCHANGED <<browserVars, saved, chosen>>

\* ensureContext of a later daemon: it restores before it serves.
Attach ==
    /\ phase = "detached"
    /\ IF open = {} THEN phase' = "serving" /\ lane' = Free
                    ELSE phase' = "attaching" /\ lane' \in Restoring(open, FALSE)
    /\ UNCHANGED <<closing, browserVars, saved, memory, chosen, lone>>

\* ensureContext when no browser runs: a new one with a blank tab.
Launch ==
    /\ phase = "down"
    /\ phase' = "serving"
    /\ \E p \in Pages : open' = {p}
    /\ UNCHANGED <<closing, url, saved, memory, lane, chosen, lone>>

\* openProfile asks for a tab of its own when the browser shows none.
OpenProfile ==
    /\ Serving /\ open = {}
    /\ \E p \in Pages : /\ MakePage(p)
                        /\ owned' = owned \union {p}
    /\ UNCHANGED <<phase, closing, url, saved, crashed, bind, lease, temp, lane, chosen, lone>>

-----------------------------------------------------------------------------
Init ==
    /\ phase = "down" /\ closing = "no" /\ open = {} /\ url = [p \in Pages |-> "blank"]
    /\ saved = {} /\ owned = {} /\ crashed = {} /\ bind = [p \in Pages |-> Unbound]
    /\ lease = [c \in Clients |-> NoLease] /\ temp = [c \in Clients |-> None] /\ lane = Free
    /\ chosen = {} /\ lone = TRUE

Allocation ==
    \/ \E c \in Clients, r \in Refs : Replace(c, r) \/ \E u \in Purposes : Reuse(c, r, u) \/ Acquire(c, r, u)
    \/ ProbeBusy \/ ProbeFree \/ CreateEnds \/ SaveEnds \/ TempEnds \/ AllocationFails
Use == \E c \in Clients : TempBegins(c) \/ Release(c) \/ Navigate(c) \/ TempClose(c)
Browsing == UserOpens \/ \E p \in Pages : UserCloses(p) \/ PageCrashes(p) \/ Timeout(p)
Answers == \E touched \in BOOLEAN : Observe(touched)
Closing == KeepEnds \/ CloseEnds
Sweep == SweepBegins \/ Restore \/ RestoreFails \/ SaveRestored \/ Answers \/ Closing \/ CloseFails
         \/ SaveCollected
Lifecycle == CloseBegins \/ BrowserEnds \/ BrowserCloseFails \/ DetachBegins \/ DetachEnds \/ Kill
             \/ Attach \/ Launch \/ OpenProfile

Next == Allocation \/ Use \/ Browsing \/ Sweep \/ Lifecycle
Spec == Init /\ [][Next]_vars

(***************************************************************************)
(* Fairness.  The operation in the lane gets over its awaits (pages        *)
(* answer, tabs are made or not, files are written or not), time passes,   *)
(* and the timer starts sweeps, which the lane serves in the order of      *)
(* their arrival (SF).  A close that is tried again and again succeeds in  *)
(* the end.  Nobody has to end a lease, the user has to do nothing.        *)
(***************************************************************************)
LaneStep ==
    /\ lane # Free
    /\ \/ ProbeBusy \/ ProbeFree \/ AllocationFails \/ CreateEnds \/ SaveEnds \/ TempEnds
       \/ Restore \/ RestoreFails \/ SaveRestored \/ Answers \/ Closing \/ CloseFails \/ SaveCollected
FairSpec ==
    /\ Spec
    /\ WF_vars(LaneStep) /\ SF_vars(Closing) /\ SF_vars(SweepBegins)
    /\ \A p \in Watched : WF_vars(Timeout(p))

-----------------------------------------------------------------------------
TypeOK ==
    /\ phase \in {"serving", "attaching", "detached", "down"} /\ closing \in {"no", "close", "detach"}
    /\ open \in SUBSET Pages /\ url \in [Pages -> Refs \union {"blank", "home"}]
    /\ saved \in SUBSET [page : Pages, ref : RefKeys, purpose : Purposes]
    /\ owned \in SUBSET Pages /\ crashed \in SUBSET Pages
    /\ bind \in [Pages -> Bindings \union {Unbound}]
    /\ lease \in [Clients -> [page : Pages, ref : Refs] \union {NoLease}]
    /\ temp \in [Clients -> Pages \union {None}] /\ lane \in Lanes
    /\ chosen \in SUBSET Pages /\ lone \in BOOLEAN

\* What leases rely on: the two maps stay inverse to each other, so no tab serves two references;
\* a tab a client works in stays bound to the reference it asked for as long as it is open; work
\* tabs are Tokenless's own; and no idle clock runs on a tab that is leased or held.
LeasesConsistent ==
    /\ TypeOK
    /\ \A p \in Bound : /\ p \in open
                        /\ \A q \in Bound : bind[p].ref = bind[q].ref => p = q
                        /\ bind[p].purpose = "work" => p \in owned
                        /\ bind[p].idle # "no" => ~InUse(p) /\ ~bind[p].held
    /\ \A c \in Clients : lease[c].page \in open => bind[lease[c].page].ref = lease[c].ref

\* What the collector, or a replacement, closes: never a tab somebody works in; the collector only
\* an own work tab whose clock ran out; and never the last tab of the browser, unless another tab
\* was closed since it looked.
CollectionIsSafe ==
    [][CloseEnds =>
         \A p \in open \ open' :
            /\ ~InUse(p)
            /\ lane.client = None => /\ p \in owned /\ bind[p].purpose = "work"
                                     /\ bind[p].idle = "due" \/ p \in crashed
            /\ open' # {} \/ ~lone]_vars

\* Across restarts: a daemon that attaches binds every open tab the ownership file names, for the
\* same purpose and, unless an earlier tab of the browser took its reference, under the same one;
\* and a tab registered as the user's is never taken for a work tab.
TabsSurviveRestart ==
    [][/\ phase = "attaching" /\ phase' = "serving" =>
             \A e \in saved : /\ bind'[e.page].purpose = e.purpose
                              /\ bind'[e.page].ref \in {e.ref, e.page}
       /\ \A p \in chosen' : bind'[p] # Unbound => bind'[p].purpose = "user"]_vars

\* A released work tab is collected, unless it is used again, crashes, or the context ends; or sweep
\* after sweep the user touches it, or closes some tab while restorePages asks about it, which ends
\* the sweep.  No failed close and no other tab keeps it for good.
Reclaimable(p) == /\ Serving /\ closing = "no" /\ p \in open \ crashed
                  /\ bind[p] # Unbound /\ bind[p].purpose = "work" /\ ~InUse(p)
Disturbed(p) == RestoreFails \/ (lane.page = p /\ Observe(TRUE))
WorkTabReclaimed ==
    \A p \in Watched : []<><<Disturbed(p)>>_vars \/ (Reclaimable(p) ~> ~Reclaimable(p))

\* "Active tasks and user pages remain protected" (packages/cli/CHANGELOG.md:91): a job never works
\* in the temporary tab of a sign-in check, whose end closes that tab.
TemporaryNotShared == \A c, d \in Clients : temp[d] # None => lease[c].page # temp[d]
=============================================================================
