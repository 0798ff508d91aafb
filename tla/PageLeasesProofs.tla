--------------------------- MODULE PageLeasesProofs ---------------------------
(***************************************************************************)
(* Proofs that leases of browser tabs are kept, that the collector is      *)
(* careful, and that a restart finds the tabs of the user again, for any   *)
(* number of clients, references and tabs.                                 *)
(*                                                                         *)
(* Between its awaits the operation in the lane relies on what it saw      *)
(* before.  It may, since only the lane binds tabs and lends them: what is *)
(* unbound or not in use when the operation looks stays so until it ends,  *)
(* as long as the tab is open; and the name of a tab that closes is not    *)
(* used again before.                                                      *)
(***************************************************************************)
EXTENDS PageLeases, TLAPS

\* What the operation in the lane works with.
LaneTyped ==
    /\ lane.op \in {"probe", "create", "save", "temp"} => lane.client \in Clients
    /\ lane.op \in {"probe", "create", "save"} => lane.ref \in Refs
    /\ lane.op \in {"keep", "close"} => lane.client = None \/ lane.ref \in Refs
    /\ lane.op \in {"probe", "save", "restore", "observe", "recheck", "keep", "close"} => lane.page \in Pages
    /\ lane.op \in {"restore", "observe", "recheck"} => lane.client = None
    /\ lane.op = "restore" => lane.page \notin lane.todo

\* A reference is given a tab only while it has none, and only a tab that serves no other.
Allocating ==
    /\ lane.op \in {"probe", "create"} => \A p \in Pages : bind[p].ref # lane.ref
    /\ lane.op \in {"probe", "restore"} => bind[lane.page] = Unbound
    /\ lane.op = "probe" /\ lane.purpose = "work" /\ lane.page \in open => lane.page \in owned
    /\ lane.op = "save" /\ lane.page \in open => bind[lane.page].ref = lane.ref

\* A tab the lane observes or closes is in nobody's use.
Watching ==
    lane.op \in {"observe", "recheck", "keep", "close"} =>
        ~InUse(lane.page) /\ (lane.page \in open => bind[lane.page] # Unbound)
Observing ==
    lane.op \in {"observe", "recheck"} /\ lane.page \in open => bind[lane.page].purpose = "work"
Reclaims ==
    lane.op \in {"keep", "close"} =>
        /\ lane.client # None => \A q \in Pages : q # lane.page => bind[q].ref # lane.ref
        /\ lane.client = None /\ lane.page \in open =>
               /\ lane.page \in owned /\ bind[lane.page].purpose = "work"
               /\ bind[lane.page].idle = "due" \/ lane.page \in crashed
Keeper == lane.op = "close" /\ lone => \E q \in open : q # lane.page
LaneSound == LaneTyped /\ Allocating /\ Watching /\ Observing /\ Reclaims /\ Keeper

\* The lane is free while no daemon serves; a lease is of an open tab.
Quiet == (phase \in {"down", "detached"} => lane = Free) /\ (phase = "down" => open = {})
LeasesOpen == \A c \in Clients : lease[c] # NoLease => lease[c].page \in open

\* LeasesConsistent without the types.
BindingsSound ==
    \A p \in Bound : /\ p \in open
                     /\ \A q \in Bound : bind[p].ref = bind[q].ref => p = q
                     /\ bind[p].purpose = "work" => p \in owned
                     /\ bind[p].idle # "no" => ~InUse(p) /\ ~bind[p].held
LeasesBound == \A c \in Clients : lease[c] # NoLease => bind[lease[c].page].ref = lease[c].ref

IInv == TypeOK /\ BindingsSound /\ LeasesBound /\ LeasesOpen /\ LaneSound /\ Quiet

-----------------------------------------------------------------------------
LEMMA Names ==
    /\ None \notin Clients /\ None \notin Refs /\ None \notin Pages /\ None \notin RefKeys
    /\ "blank" \notin Refs /\ "home" \notin Refs /\ Refs \intersect Pages = {}
  BY RefsAssumption, NoneAssumption DEF RefKeys

\* A binding is bound exactly if it has a reference.
LEMMA BoundRef ==
    ASSUME TypeOK, NEW p \in Pages
    PROVE  /\ bind[p] # Unbound <=> bind[p] \in Bindings
           /\ bind[p] # Unbound <=> bind[p].ref \in RefKeys
           /\ bind[p] = Unbound <=> bind[p].ref = None
           /\ bind[p] # Unbound <=> p \in Bound
<1>1. bind[p] \in Bindings \union {Unbound}
  BY DEF TypeOK
<1>2. Unbound.ref = None
  BY DEF Unbound
<1>3. \A b \in Bindings : b.ref \in RefKeys
  BY DEF Bindings
<1> QED BY <1>1, <1>2, <1>3, Names DEF Bound

LEMMA LeaseTypes ==
    ASSUME TypeOK, NEW c \in Clients
    PROVE  /\ lease[c] # NoLease => lease[c].page \in Pages /\ lease[c].ref \in Refs
           /\ lease[c].page \in Pages => lease[c] # NoLease
           /\ NoLease.page = None /\ NoLease.ref = None
           /\ temp[c] \in Pages \union {None}
  BY Names DEF TypeOK, NoLease

\* Every binding the code makes is typed.
LEMMA BindingTyped ==
    /\ \A r \in RefKeys, u \in Purposes : NewBinding(r, u) \in Bindings
    /\ \A r \in RefKeys, u \in Purposes : [NewBinding(r, u) EXCEPT !.idle = "fresh"] \in Bindings
  BY DEF NewBinding, Bindings, Unbound, Purposes

LEMMA BindPageTyped ==
    ASSUME TypeOK, NEW p \in Pages, NEW b \in Bindings, bind' = BindPage(p, b)
    PROVE  bind' \in [Pages -> Bindings \union {Unbound}]
  BY DEF TypeOK, BindPage

LEMMA CloseTyped ==
    ASSUME TypeOK, NEW p \in Pages, ClosePage(p), phase' = phase, closing' = closing, lane' \in Lanes, lone' \in BOOLEAN
    PROVE  TypeOK'
<1>1. saved' \in SUBSET [page : Pages, ref : RefKeys, purpose : Purposes]
  BY DEF TypeOK, ClosePage
<1>2. url' \in [Pages -> Refs \union {"blank", "home"}] /\ bind' \in [Pages -> Bindings \union {Unbound}]
  BY DEF TypeOK, ClosePage
<1>3. lease' \in [Clients -> [page : Pages, ref : Refs] \union {NoLease}]
  BY DEF TypeOK, ClosePage
<1>4. temp' \in [Clients -> Pages \union {None}]
  BY DEF TypeOK, ClosePage
<1> QED BY <1>1, <1>2, <1>3, <1>4 DEF TypeOK, ClosePage

LEMMA ForgetTyped ==
    ASSUME TypeOK, Forget, phase' \in {"serving", "attaching", "detached", "down"},
           open' \in SUBSET Pages, url' \in [Pages -> Refs \union {"blank", "home"}],
           saved' \in SUBSET saved, chosen' \in SUBSET chosen
    PROVE  TypeOK'
<1>1. Free \in Lanes
  BY DEF Free, Lanes, Ops, Purposes
<1> QED BY <1>1 DEF TypeOK, Forget

LEMMA RegisteredTyped ==
    ASSUME TypeOK
    PROVE  Registered \in SUBSET [page : Pages, ref : RefKeys, purpose : Purposes]
<1>1. \A p \in Bound : p \in Pages /\ bind[p].ref \in RefKeys /\ bind[p].purpose \in Purposes
  BY DEF TypeOK, Bound, Bindings
<1> QED BY <1>1 DEF Registered

\* Lending a bound tab.
LEMMA LendTyped ==
    ASSUME TypeOK, NEW c \in Clients, NEW p \in Pages, NEW r \in Refs, NEW purpose \in Purposes,
           NEW to \in Purposes, bind[p] # Unbound, Lend(c, p, r, purpose, to)
    PROVE  /\ bind' \in [Pages -> Bindings \union {Unbound}]
           /\ lease' \in [Clients -> [page : Pages, ref : Refs] \union {NoLease}]
<1>1. bind[p] \in Bindings
  BY DEF TypeOK
<1> DEFINE b == [bind[p] EXCEPT !.held = IF InUse(p) THEN @ ELSE FALSE, !.idle = "no",
                                !.pinned = @ \/ to = "user"]
<1>2. b \in Bindings
  BY <1>1 DEF Bindings
<1>3. bind' = [bind EXCEPT ![p] = b]
  BY DEF Lend
<1>4. lease' \in [Clients -> [page : Pages, ref : Refs] \union {NoLease}]
  BY DEF TypeOK, Lend
<1> QED BY <1>2, <1>3, <1>4 DEF TypeOK

-----------------------------------------------------------------------------
(* What the lane goes on with.                                             *)

LEMMA LaneTypes ==
    ASSUME TypeOK
    PROVE  /\ lane.op \in Ops /\ lane.client \in Clients \union {None} /\ lane.ref \in Refs \union {None}
           /\ lane.purpose \in Purposes /\ lane.page \in Pages \union {None} /\ lane.todo \subseteq Pages
           /\ lane.changed \in BOOLEAN
  BY DEF TypeOK, Lanes

LEMMA FreeTyped ==
    /\ Free \in Lanes /\ Free.op = "none" /\ Free.client = None /\ Free.page = None /\ Free.ref = None
    /\ Free.purpose = "work"
  BY DEF Free, Lanes, Ops, Purposes

LEMMA SearchGives ==
    ASSUME TypeOK, NEW request \in Lanes, NEW todo \in SUBSET Pages, Search(request, todo)
    PROVE  /\ lane' \in Lanes
           /\ lane'.client = request.client /\ lane'.ref = request.ref /\ lane'.purpose = request.purpose
           /\ \/ lane'.op = "create"
              \/ lane'.op = "probe" /\ lane'.page \in Pages /\ Candidate(lane'.page, request.purpose)
<1> DEFINE found == {p \in todo : Candidate(p, request.purpose)}
<1>1. CASE found = {}
  <2>1. lane' = [request EXCEPT !.op = "create", !.page = None, !.todo = {}]
    BY <1>1 DEF Search
  <2> QED BY <2>1 DEF Lanes, Ops
<1>2. CASE found # {}
  <2>1. PICK p \in found : lane' = [request EXCEPT !.op = "probe", !.page = p, !.todo = found \ {p}]
    BY <1>2 DEF Search
  <2>2. p \in Pages /\ Candidate(p, request.purpose) /\ found \ {p} \in SUBSET Pages
    OBVIOUS
  <2> QED BY <2>1, <2>2 DEF Lanes, Ops
<1> QED BY <1>1, <1>2

LEMMA CollectingGives ==
    ASSUME TypeOK, NEW todo \in SUBSET Pages, NEW l \in Collecting(todo)
    PROVE  /\ l \in Lanes /\ l.client = None
           /\ \/ l = Free
              \/ /\ l.op = "observe" /\ l.page \in Pages /\ l.page \in open
                 /\ bind[l.page] # Unbound /\ bind[l.page].purpose = "work" /\ ~InUse(l.page)
<1>1. CASE l = Free
  BY <1>1, FreeTyped
<1>2. CASE l # Free
  <2>1. PICK p \in {q \in todo \intersect open : bind[q] # Unbound /\ bind[q].purpose = "work" /\ ~InUse(q)} :
            l = [Free EXCEPT !.op = "observe", !.page = p, !.todo = todo \ {p}]
    BY <1>2 DEF Collecting
  <2> QED BY <2>1, FreeTyped DEF Free, Lanes, Ops
<1> QED BY <1>1, <1>2

LEMMA RestoringGives ==
    ASSUME TypeOK, NEW todo \in SUBSET Pages, NEW changed \in BOOLEAN, NEW l \in Restoring(todo, changed)
    PROVE  /\ l \in Lanes /\ l.client = None
           /\ \/ l = Free /\ ~changed
              \/ l.op = "saveRestored" /\ changed
              \/ /\ l.op = "restore" /\ l.page \in todo /\ l.page \in open /\ bind[l.page] = Unbound
                 /\ l.page \notin l.todo
              \/ /\ ~changed /\ l.op = "observe" /\ l.page \in Pages /\ l.page \in open
                 /\ bind[l.page] # Unbound /\ bind[l.page].purpose = "work" /\ ~InUse(l.page)
<1> DEFINE found == {p \in todo \intersect open : ~Claimed(p) /\ p \notin Temporary}
<1>1. CASE found # {}
  <2>1. PICK p \in found : l = [Free EXCEPT !.op = "restore", !.page = p, !.changed = changed, !.todo = found \ {p}]
    BY <1>1 DEF Restoring
  <2> QED BY <2>1, FreeTyped DEF Free, Lanes, Ops, Claimed
<1>2. CASE found = {} /\ changed
  <2>1. l = [Free EXCEPT !.op = "saveRestored"]
    BY <1>2 DEF Restoring
  <2> QED BY <1>2, <2>1, FreeTyped DEF Free, Lanes, Ops
<1>3. CASE found = {} /\ ~changed
  <2>1. l = Free \/ l \in Collecting(Bound)
    BY <1>3 DEF Restoring
  <2>2. Bound \in SUBSET Pages
    BY DEF Bound
  <2> QED BY <1>3, <2>1, <2>2, FreeTyped, CollectingGives
<1> QED BY <1>1, <1>2, <1>3

-----------------------------------------------------------------------------
(* The types.                                                              *)

\* A step that only moves the lane along.
LEMMA LaneTypedStep ==
    ASSUME TypeOK, lane' \in Lanes, phase' \in {"serving", "attaching", "detached", "down"},
           UNCHANGED <<closing, browserVars, memory, chosen, lone>>,
           saved' = saved \/ saved' = Registered
    PROVE  TypeOK'
  BY RegisteredTyped DEF TypeOK, browserVars, memory

LEMMA TypesKept ==
    ASSUME TypeOK, LaneTyped, Allocating, Watching, [Next]_vars
    PROVE  TypeOK'
<1> USE DEF browserVars, memory
<1>a. Pages \intersect open \in SUBSET Pages /\ open \subseteq Pages
  BY DEF TypeOK
<1>1. ASSUME NEW c \in Clients, NEW r \in Refs, Replace(c, r) PROVE TypeOK'
  <2>1. lane' \in Lanes
    BY <1>1 DEF Replace, Free, Lanes, Ops, Purposes, Bound
  <2> QED BY <1>1, <2>1 DEF Replace, TypeOK
<1>2. ASSUME NEW c \in Clients, NEW r \in Refs, NEW u \in Purposes, Reuse(c, r, u) PROVE TypeOK'
  <2>1. PICK p \in Bound : Lend(c, p, r, u, u)
    BY <1>2 DEF Reuse
  <2>2. p \in Pages /\ bind[p] # Unbound
    BY <2>1 DEF Bound
  <2>3. /\ bind' \in [Pages -> Bindings \union {Unbound}]
        /\ lease' \in [Clients -> [page : Pages, ref : Refs] \union {NoLease}]
    BY <2>1, <2>2, LendTyped
  <2> QED BY <1>2, <2>3 DEF Reuse, TypeOK
<1>3. ASSUME NEW c \in Clients, NEW r \in Refs, NEW u \in Purposes, Acquire(c, r, u) PROVE TypeOK'
  <2> DEFINE request == [Free EXCEPT !.client = c, !.ref = r, !.purpose = u]
  <2>1. request \in Lanes
    BY FreeTyped DEF Lanes
  <2>2. lane' \in Lanes
    BY <1>3, <1>a, <2>1, SearchGives DEF Acquire
  <2> QED BY <1>3, <2>2, LaneTypedStep DEF Acquire, TypeOK
<1>4. CASE ProbeBusy
  <2>1. lane' \in Lanes
    BY <1>4, LaneTypes, SearchGives DEF ProbeBusy, TypeOK
  <2> QED BY <1>4, <2>1, LaneTypedStep DEF ProbeBusy, TypeOK
<1>5. CASE ProbeFree
  <2>1. lane.page \in Pages /\ lane.ref \in RefKeys /\ lane.purpose \in Purposes
    BY <1>5, LaneTypes DEF ProbeFree, Step, LaneTyped, RefKeys
  <2>2. lane' \in Lanes
    <3>1. lane' = Free \/ lane' = [lane EXCEPT !.op = "save", !.todo = {}]
      BY <1>5 DEF ProbeFree
    <3>2. [lane EXCEPT !.op = "save", !.todo = {}] \in Lanes
      BY DEF TypeOK, Lanes, Ops
    <3> QED BY <3>1, <3>2, FreeTyped
  <2>3. bind' \in [Pages -> Bindings \union {Unbound}]
    BY <1>5, <2>1, BindingTyped, BindPageTyped DEF ProbeFree, TypeOK
  <2> QED BY <1>5, <2>2, <2>3 DEF ProbeFree, TypeOK
<1>6. CASE CreateEnds
  <2>1. lane.ref \in RefKeys /\ lane.purpose \in Purposes
    BY <1>6, LaneTypes DEF CreateEnds, Step, LaneTyped, RefKeys
  <2>2. PICK p \in Pages : /\ MakePage(p) /\ owned' = owned \union {p}
                           /\ IF closing # "no"
                                THEN lane' = Free /\ bind' = bind
                                ELSE /\ bind' = BindPage(p, NewBinding(lane.ref, lane.purpose))
                                     /\ lane' = [lane EXCEPT !.op = "save", !.page = p]
    BY <1>6 DEF CreateEnds
  <2>3. lane' \in Lanes
    <3>1. [lane EXCEPT !.op = "save", !.page = p] \in Lanes
      BY DEF TypeOK, Lanes, Ops
    <3> QED BY <2>2, <3>1, FreeTyped
  <2>4. bind' \in [Pages -> Bindings \union {Unbound}]
    BY <2>1, <2>2, BindingTyped, BindPageTyped DEF TypeOK
  <2> QED BY <1>6, <2>2, <2>3, <2>4 DEF CreateEnds, TypeOK, MakePage
<1>7. CASE SaveEnds
  <2>1. lane.client \in Clients /\ lane.page \in Pages /\ lane.ref \in Refs /\ lane.purpose \in Purposes
    BY <1>7, LaneTypes DEF SaveEnds, Step, LaneTyped
  <2>2. bind[lane.page] # Unbound
    BY <1>7, <2>1, BoundRef DEF SaveEnds, Step, Allocating, RefKeys
  <2>3. /\ bind' \in [Pages -> Bindings \union {Unbound}]
        /\ lease' \in [Clients -> [page : Pages, ref : Refs] \union {NoLease}]
    BY <1>7, <2>1, <2>2, LendTyped DEF SaveEnds
  <2> QED BY <1>7, <2>1, <2>3, FreeTyped, RegisteredTyped DEF SaveEnds, TypeOK
<1>8. ASSUME NEW c \in Clients, TempBegins(c) PROVE TypeOK'
  <2>1. lane' \in Lanes
    BY <1>8 DEF TempBegins, Free, Lanes, Ops, Purposes
  <2> QED BY <1>8, <2>1, LaneTypedStep DEF TempBegins, TypeOK
<1>9. CASE TempEnds
  <2>1. lane.client \in Clients
    BY <1>9 DEF TempEnds, Step, LaneTyped
  <2>2. PICK p \in Pages : MakePage(p) /\ owned' = owned \union {p} /\ temp' = [temp EXCEPT ![lane.client] = p]
    BY <1>9 DEF TempEnds
  <2> QED BY <1>9, <2>1, <2>2, FreeTyped DEF TempEnds, TypeOK, MakePage
<1>10. CASE AllocationFails
  BY <1>10, LaneTypedStep, FreeTyped DEF AllocationFails, TypeOK
<1>11. ASSUME NEW c \in Clients, Release(c) PROVE TypeOK'
  <2>1. lease' \in [Clients -> [page : Pages, ref : Refs] \union {NoLease}]
    BY <1>11 DEF TypeOK, Release
  <2>2. bind' \in [Pages -> Bindings \union {Unbound}]
    <3> DEFINE p == lease[c].page
    <3>1. bind' = bind \/ (p \in Bound /\ bind' = [bind EXCEPT ![p].idle = "fresh"])
      BY <1>11 DEF Release
    <3>2. CASE p \in Bound /\ bind' = [bind EXCEPT ![p].idle = "fresh"]
      <4>1. p \in Pages /\ bind[p] \in Bindings
        BY <3>2 DEF TypeOK, Bound
      <4>2. [bind[p] EXCEPT !.idle = "fresh"] \in Bindings
        BY <4>1 DEF Bindings
      <4> QED BY <3>2, <4>1, <4>2 DEF TypeOK
    <3> QED BY <3>1, <3>2 DEF TypeOK
  <2> QED BY <1>11, <2>1, <2>2 DEF TypeOK, Release
<1>12. ASSUME NEW c \in Clients, Navigate(c) PROVE TypeOK'
  <2>1. PICK p \in open \intersect {lease[c].page, temp[c]} :
            /\ url[p] = "blank" \/ lease[c].page = p
            /\ url' = [url EXCEPT ![p] = IF @ = "blank" \/ p = temp[c] THEN "home" ELSE lease[c].ref]
    BY <1>12 DEF Navigate
  <2>2. p = temp[c] \/ lease[c].ref \in Refs
    BY <1>a, <2>1, LeaseTypes
  <2>3. url' \in [Pages -> Refs \union {"blank", "home"}]
    BY <1>a, <2>1, <2>2 DEF TypeOK
  <2> QED BY <1>12, <2>3 DEF Navigate, TypeOK
<1>13. ASSUME NEW c \in Clients, TempClose(c) PROVE TypeOK'
  <2>1. temp[c] \in Pages
    BY <1>13, LeaseTypes DEF TempClose
  <2> QED BY <1>13, <2>1, CloseTyped DEF TempClose, Reclaiming, TypeOK
<1>14. CASE UserOpens
  <2>1. PICK p \in Pages, u \in Refs \union {"home"} : MakePage(p) /\ url' = [url EXCEPT ![p] = u]
    BY <1>14 DEF UserOpens
  <2> QED BY <1>14, <2>1 DEF UserOpens, TypeOK, MakePage
<1>15. ASSUME NEW p \in Pages, UserCloses(p) PROVE TypeOK'
  BY <1>15, CloseTyped DEF UserCloses, Reclaiming, TypeOK
<1>16. ASSUME NEW p \in Pages, PageCrashes(p) PROVE TypeOK'
  <2>1. bind[p] \in Bindings
    BY <1>16 DEF PageCrashes, Bound, TypeOK
  <2>2. [bind[p] EXCEPT !.held = TRUE, !.idle = "no"] \in Bindings
    BY <2>1 DEF Bindings
  <2>3. bind' = [bind EXCEPT ![p] = [bind[p] EXCEPT !.held = TRUE, !.idle = "no"]]
    BY <1>16, <2>1 DEF PageCrashes, TypeOK
  <2> QED BY <1>16, <2>2, <2>3 DEF PageCrashes, TypeOK
<1>17. ASSUME NEW p \in Pages, Timeout(p) PROVE TypeOK'
  <2>1. bind[p] \in Bindings
    BY <1>17 DEF Timeout, TypeOK, Unbound
  <2>2. [bind[p] EXCEPT !.idle = "due"] \in Bindings
    BY <2>1 DEF Bindings
  <2> QED BY <1>17, <2>2 DEF Timeout, TypeOK
<1>18. CASE SweepBegins
  <2>1. lane' \in Lanes
    BY <1>18, <1>a, RestoringGives DEF SweepBegins
  <2> QED BY <1>18, <2>1, LaneTypedStep DEF SweepBegins, TypeOK
<1>19. CASE Restore
  <2>1. lane' \in Lanes /\ lane.page \in Pages
    BY <1>19, LaneTypes, RestoringGives DEF Restore, Step, LaneTyped
  <2>2. /\ bind' \in [Pages -> Bindings \union {Unbound}]
        /\ owned' \in SUBSET Pages
    <3> DEFINE p == lane.page
               entries == {e \in saved : e.page = p}
               known == {[ref |-> e.ref, purpose |-> e.purpose] : e \in entries}
                        \union (IF entries = {} /\ url[p] \in Refs
                                  THEN {[ref |-> url[p], purpose |-> "work"]} ELSE {})
    <3>1. CASE UNCHANGED <<bind, owned>>
      BY <3>1 DEF TypeOK
    <3>2. CASE \E k \in known : /\ LET taken == \E q \in Pages : bind[q].ref = k.ref IN
                                   bind' = BindPage(p, [NewBinding(IF taken THEN p ELSE k.ref, k.purpose)
                                                          EXCEPT !.idle = "fresh"])
                                /\ owned' = owned \union {p}
      <4>1. PICK k \in known : /\ \E r \in {p, k.ref} : bind' = BindPage(p, [NewBinding(r, k.purpose) EXCEPT !.idle = "fresh"])
                               /\ owned' = owned \union {p}
        BY <3>2
      <4>2. k.ref \in RefKeys /\ k.purpose \in Purposes
        BY DEF TypeOK, RefKeys, Purposes
      <4> HIDE DEF known
      <4>3. PICK r \in RefKeys : bind' = BindPage(p, [NewBinding(r, k.purpose) EXCEPT !.idle = "fresh"])
        BY <2>1, <4>1, <4>2 DEF RefKeys
      <4>4. [NewBinding(r, k.purpose) EXCEPT !.idle = "fresh"] \in Bindings
        BY <4>2, BindingTyped
      <4>5. bind' \in [Pages -> Bindings \union {Unbound}]
        BY <2>1, <4>3, <4>4, BindPageTyped
      <4> QED BY <2>1, <4>1, <4>5 DEF TypeOK
    <3> QED BY <1>19, <3>1, <3>2 DEF Restore
  <2> QED BY <1>19, <2>1, <2>2 DEF Restore, TypeOK
<1>20. CASE RestoreFails
  <2>1. CASE phase = "attaching"
    BY <1>20, <2>1, ForgetTyped DEF RestoreFails, TypeOK
  <2>2. CASE phase # "attaching"
    BY <1>20, <2>2, LaneTypedStep, FreeTyped DEF RestoreFails, TypeOK
  <2> QED BY <2>1, <2>2
<1>21. CASE SaveRestored
  <2>1. lane' \in Lanes
    BY <1>21, FreeTyped, CollectingGives DEF SaveRestored, Bound
  <2> QED BY <1>21, <2>1, LaneTypedStep DEF SaveRestored, TypeOK
<1>22. ASSUME NEW touched \in BOOLEAN, Observe(touched) PROVE TypeOK'
  <2> DEFINE p == lane.page
  <2>1. p \in Pages
    BY <1>22 DEF Observe, LaneTyped
  <2>2. CASE p \notin open
    BY <1>22, <2>2, LaneTypes, CollectingGives, LaneTypedStep DEF Observe, TypeOK
  <2>3. CASE p \in open
    <3>1. bind[p] \in Bindings
      BY <1>22, <2>1, <2>3 DEF Observe, Watching, TypeOK
    <3>2. Observed(p, touched) \in Bindings
      BY <3>1 DEF Observed, Bindings
    <3>3. bind' = [bind EXCEPT ![p] = Observed(p, touched)]
      BY <1>22, <2>3 DEF Observe
    <3>4. lane' \in Lanes
      <4>1. \A l \in Collecting(lane.todo) : l \in Lanes
        BY LaneTypes, CollectingGives
      <4>2. /\ [lane EXCEPT !.op = "recheck"] \in Lanes
            /\ [lane EXCEPT !.op = IF open = {p} THEN "keep" ELSE "close"] \in Lanes
        BY DEF TypeOK, Lanes, Ops
      <4> QED BY <1>22, <2>3, <4>1, <4>2 DEF Observe
    <3> QED BY <1>22, <2>1, <3>2, <3>3, <3>4 DEF Observe, TypeOK
  <2> QED BY <2>2, <2>3
<1>23. CASE KeepEnds
  <2>1. PICK p \in Pages : MakePage(p) /\ owned' = owned \union {p}
    BY <1>23 DEF KeepEnds
  <2>2. lane' \in Lanes
    BY <1>23 DEF KeepEnds, TypeOK, Lanes, Ops
  <2> QED BY <1>23, <2>1, <2>2 DEF KeepEnds, TypeOK, MakePage
<1>24. CASE CloseEnds
  <2>1. lane' \in Lanes
    BY <1>24 DEF CloseEnds, TypeOK, Lanes, Ops
  <2>2. CASE lane.page \in open
    BY <1>24, <1>a, <2>1, <2>2, CloseTyped DEF CloseEnds
  <2>3. CASE lane.page \notin open
    BY <1>24, <2>1, <2>3 DEF CloseEnds, TypeOK
  <2> QED BY <2>2, <2>3
<1>25. CASE CloseFails
  <2>1. lane' \in Lanes /\ lane.page \in Pages
    BY <1>25, FreeTyped, LaneTypes, CollectingGives DEF CloseFails, Reclaiming, LaneTyped
  <2>2. bind' \in [Pages -> Bindings \union {Unbound}]
    <3>1. CASE bind[lane.page] = Unbound
      BY <1>25, <3>1 DEF CloseFails, TypeOK
    <3>2. CASE bind[lane.page] # Unbound
      <4>1. bind[lane.page] \in Bindings
        BY <2>1, <3>2 DEF TypeOK
      <4>2. [bind[lane.page] EXCEPT !.held = TRUE, !.idle = "no"] \in Bindings
        BY <4>1 DEF Bindings
      <4>3. bind' = [bind EXCEPT ![lane.page] = [bind[lane.page] EXCEPT !.held = TRUE, !.idle = "no"]]
        BY <1>25, <2>1, <3>2 DEF CloseFails, TypeOK
      <4> QED BY <4>2, <4>3 DEF TypeOK
    <3> QED BY <3>1, <3>2
  <2> QED BY <1>25, <2>1, <2>2 DEF CloseFails, TypeOK
<1>26. CASE SaveCollected
  <2>1. lane' \in Lanes
    BY <1>26, LaneTypes, CollectingGives DEF SaveCollected
  <2> QED BY <1>26, <2>1, LaneTypedStep DEF SaveCollected, TypeOK
<1>27. CASE CloseBegins \/ BrowserCloseFails \/ DetachBegins
  BY <1>27 DEF CloseBegins, BrowserCloseFails, DetachBegins, TypeOK
<1>28. CASE BrowserEnds \/ DetachEnds \/ Kill
  BY <1>28, ForgetTyped DEF BrowserEnds, DetachEnds, Kill, TypeOK
<1>29. CASE Attach
  <2>1. lane' \in Lanes
    BY <1>29, <1>a, FreeTyped, RestoringGives DEF Attach
  <2> QED BY <1>29, <2>1, LaneTypedStep DEF Attach, TypeOK
<1>30. CASE Launch
  BY <1>30 DEF Launch, TypeOK
<1>31. CASE OpenProfile
  BY <1>31 DEF OpenProfile, TypeOK, MakePage
<1>32. CASE UNCHANGED vars
  BY <1>32 DEF vars, TypeOK
<1> QED
  BY <1>1, <1>2, <1>3, <1>4, <1>5, <1>6, <1>7, <1>8, <1>9, <1>10, <1>11, <1>12, <1>13, <1>14, <1>15, <1>16, <1>17,
     <1>18, <1>19, <1>20, <1>21, <1>22, <1>23, <1>24, <1>25, <1>26, <1>27, <1>28, <1>29, <1>30, <1>31, <1>32
     DEF Next, Allocation, Use, Browsing, Sweep, Answers, Closing, Lifecycle

-----------------------------------------------------------------------------
(* The inductive step: first what many actions share.                      *)

Rest == BindingsSound /\ LeasesBound /\ LeasesOpen /\ LaneSound /\ Quiet

\* A tab somebody works in is bound, to a reference of a client, and open.
LEMMA LeasedBound ==
    ASSUME IInv, NEW c \in Clients, lease[c] # NoLease
    PROVE  /\ lease[c].page \in Pages /\ lease[c].page \in open
           /\ bind[lease[c].page] # Unbound /\ bind[lease[c].page].ref \in Refs
<1>1. lease[c].page \in Pages /\ lease[c].ref \in Refs /\ bind[lease[c].page].ref = lease[c].ref
  BY LeaseTypes DEF IInv, LeasesBound
<1> QED BY <1>1, BoundRef DEF IInv, LeasesOpen, RefKeys

LEMMA UnboundUnused ==
    ASSUME IInv, NEW p \in Pages, bind[p] = Unbound
    PROVE  ~InUse(p)
<1>1. bind[p].pinned = FALSE
  BY DEF Unbound
<1>2. ASSUME NEW c \in Clients, lease[c].page = p PROVE FALSE
  BY <1>2, LeasedBound, LeaseTypes DEF IInv
<1> QED BY <1>1, <1>2 DEF InUse

\* Tabs appear, or what a step changes does not concern the bindings.
LEMMA FrameKeeps ==
    ASSUME IInv, TypeOK', UNCHANGED <<bind, lease, lane, crashed, lone>>, open \subseteq open', owned \subseteq owned',
           lane.page \notin open' \ open,
           phase' \in {"down", "detached"} => phase' = phase,
           phase' = "down" => open' = open
    PROVE  Rest'
<1> USE DEF IInv, LaneSound
<1>1. BindingsSound' /\ LeasesBound' /\ LeasesOpen'
  BY DEF BindingsSound, LeasesBound, LeasesOpen, Bound, InUse
<1>2. LaneSound'
  BY DEF LaneTyped, Allocating, Watching, Observing, Reclaims, Keeper, InUse
<1>3. Quiet'
  BY DEF Quiet
<1> QED BY <1>1, <1>2, <1>3 DEF Rest

\* A tab is closed, whoever does it: what was bound to it is gone.
LEMMA CloseBindings ==
    ASSUME IInv, NEW p \in Pages, ClosePage(p)
    PROVE  /\ BindingsSound' /\ LeasesBound' /\ LeasesOpen'
           /\ bind'[p] = Unbound /\ \A q \in Pages : q # p => bind'[q] = bind[q]
           /\ \A q \in Pages : InUse(q)' => InUse(q) /\ q # p
<1> USE DEF IInv
<1>1. /\ open' = open \ {p} /\ owned' = owned \ {p}
      /\ bind'[p] = Unbound /\ \A q \in Pages : q # p => bind'[q] = bind[q]
      /\ \A c \in Clients : lease'[c] = IF lease[c].page = p THEN NoLease ELSE lease[c]
  BY DEF ClosePage, TypeOK
<1>2. Unbound.pinned = FALSE /\ NoLease.page = None /\ None \notin Pages
  BY Names DEF Unbound, NoLease
<1>3. \A q \in Pages : InUse(q)' => InUse(q) /\ q # p
  BY <1>1, <1>2 DEF InUse
<1>4. BindingsSound'
  <2>1. \A q \in Bound' : q \in Bound /\ q # p /\ bind'[q] = bind[q]
    BY <1>1 DEF Bound
  <2> QED BY <1>1, <1>3, <2>1 DEF BindingsSound, Bound
<1>5. LeasesBound' /\ LeasesOpen'
  <2> SUFFICES ASSUME NEW c \in Clients, lease'[c] # NoLease
               PROVE  bind'[lease'[c].page].ref = lease'[c].ref /\ lease'[c].page \in open'
    BY DEF LeasesBound, LeasesOpen
  <2>1. lease'[c] = lease[c] /\ lease[c].page # p /\ lease[c].page \in Pages
    BY <1>1, LeaseTypes
  <2> QED BY <1>1, <2>1 DEF LeasesBound, LeasesOpen
<1> QED BY <1>1, <1>3, <1>4, <1>5

\* A tab is closed, by the user or by the end of a check, whatever the lane does.
LEMMA CloseKeeps ==
    ASSUME IInv, NEW p \in Pages, ClosePage(p), phase' = phase, lane' = lane, lone' = ~Reclaiming
    PROVE  Rest'
<1> USE DEF IInv, LaneSound
<1>1. open' = open \ {p} /\ owned' = owned \ {p} /\ crashed' = crashed \ {p}
  BY DEF ClosePage
<1>2. Unbound.ref = None /\ None \notin Refs
  BY Names DEF Unbound
<1>3. LaneTyped'
  BY DEF LaneTyped
<1>4. Allocating'
  BY <1>1, <1>2, CloseBindings DEF Allocating, LaneTyped
<1>5. Watching' /\ Observing'
  BY <1>1, CloseBindings DEF Watching, Observing, LaneTyped
<1>6. Reclaims'
  BY <1>1, <1>2, CloseBindings DEF Reclaims, LaneTyped
<1>7. Keeper'
  BY DEF Keeper, Reclaiming
<1>8. Quiet'
  BY <1>1 DEF Quiet
<1> QED BY CloseBindings, <1>3, <1>4, <1>5, <1>6, <1>7, <1>8 DEF Rest

LEMMA ForgetKeeps ==
    ASSUME Forget, phase' = "down" => open' = {}
    PROVE  Rest'
<1>1. /\ lane' = Free /\ \A p \in Pages : bind'[p] = Unbound
      /\ \A c \in Clients : lease'[c] = NoLease
  BY DEF Forget
<1>2. BindingsSound' /\ LeasesBound' /\ LeasesOpen'
  BY <1>1 DEF BindingsSound, LeasesBound, LeasesOpen, Bound
<1>3. LaneSound'
  BY <1>1, FreeTyped DEF LaneSound, LaneTyped, Allocating, Watching, Observing, Reclaims, Keeper
<1> QED BY <1>1, <1>2, <1>3 DEF Rest, Quiet

\* The lane is free, or at an await about no tab.
LEMMA RestingLane ==
    ASSUME lane'.op \in {"none", "saveRestored", "saveCollected"} \/ (lane'.op = "temp" /\ lane'.client \in Clients)
    PROVE  LaneSound'
  BY DEF LaneSound, LaneTyped, Allocating, Watching, Observing, Reclaims, Keeper

\* Nothing but the lane changes.
LEMMA LaneKeeps ==
    ASSUME IInv, UNCHANGED <<bind, lease, open, owned>>, LaneSound',
           phase' \in {"down", "detached"} => lane' = Free,
           phase' = "down" => phase = "down"
    PROVE  Rest'
<1>1. BindingsSound' /\ LeasesBound' /\ LeasesOpen'
  BY DEF IInv, BindingsSound, LeasesBound, LeasesOpen, Bound, InUse
<1>2. Quiet'
  BY DEF IInv, Quiet
<1> QED BY <1>1, <1>2 DEF Rest

\* The sweep goes on to its next tab; the bindings keep what it looks at.
LEMMA SweepsOn ==
    ASSUME IInv, NEW todo \in SUBSET Pages, lane' \in Collecting(todo), lease' = lease, open' = open,
           \A q \in Pages : bind[q] # Unbound => bind'[q] # Unbound,
           \A q \in Pages : bind'[q].purpose = bind[q].purpose /\ bind'[q].pinned = bind[q].pinned
    PROVE  LaneSound'
<1>1. \/ lane' = Free
      \/ /\ lane'.op = "observe" /\ lane'.page \in Pages /\ lane'.client = None
         /\ bind[lane'.page] # Unbound /\ bind[lane'.page].purpose = "work" /\ ~InUse(lane'.page)
  BY CollectingGives DEF IInv
<1>2. CASE lane' = Free
  BY <1>2, FreeTyped, RestingLane
<1>3. CASE lane' # Free
  <2>1. bind'[lane'.page] # Unbound /\ bind'[lane'.page].purpose = "work"
    BY <1>1, <1>3
  <2>2. ~(bind'[lane'.page].pinned \/ \E c \in Clients : lease'[c].page = lane'.page)
    BY <1>1, <1>3 DEF InUse
  <2>3. ~InUse(lane.page)'
    BY <2>2 DEF InUse
  <2> QED BY <1>1, <1>3, <2>1, <2>3 DEF LaneSound, LaneTyped, Allocating, Watching, Observing, Reclaims, Keeper
<1> QED BY <1>2, <1>3

\* restorePages goes on to its next tab, with the bindings as they are.
LEMMA RestoresOn ==
    ASSUME IInv, NEW todo \in SUBSET Pages, NEW changed \in BOOLEAN, lane' \in Restoring(todo, changed),
           UNCHANGED <<lease, open, bind>>
    PROVE  LaneSound'
<1>1. \/ lane' = Free \/ lane'.op = "saveRestored"
      \/ lane'.op = "restore" /\ lane'.page \in todo /\ bind[lane'.page] = Unbound /\ lane'.page \notin lane'.todo
      \/ /\ lane'.op = "observe" /\ lane'.page \in Pages
         /\ bind[lane'.page] # Unbound /\ bind[lane'.page].purpose = "work" /\ ~InUse(lane'.page)
  BY RestoringGives DEF IInv
<1>c. lane'.client = None
  BY RestoringGives DEF IInv
<1>2. CASE lane' = Free \/ lane'.op = "saveRestored"
  BY <1>2, FreeTyped, RestingLane
<1>3. CASE lane'.op = "restore"
  BY <1>1, <1>c, <1>3, FreeTyped DEF LaneSound, LaneTyped, Allocating, Watching, Observing, Reclaims, Keeper
<1>4. CASE lane'.op = "observe"
  <2>1. lane'.page \in Pages /\ bind[lane'.page] # Unbound /\ bind[lane'.page].purpose = "work" /\ ~InUse(lane'.page)
    BY <1>1, <1>4, FreeTyped
  <2>2. ~(bind[lane'.page].pinned \/ \E c \in Clients : lease[c].page = lane'.page)
    BY <2>1 DEF InUse
  <2>3. ~InUse(lane.page)'
    BY <2>2 DEF InUse
  <2> QED BY <1>c, <1>4, <2>1, <2>3 DEF LaneSound, LaneTyped, Allocating, Watching, Observing, Reclaims, Keeper
<1> QED BY <1>1, <1>2, <1>3, <1>4

\* A tab is lent, and the lane is free then.
LEMMA LendKeeps ==
    ASSUME IInv, TypeOK', NEW c \in Clients, NEW p \in Pages, NEW r \in Refs, NEW purpose \in Purposes,
           NEW to \in Purposes, Lend(c, p, r, purpose, to), p \in open, bind[p].ref = r, lane' = Free,
           UNCHANGED <<phase, open, owned>>
    PROVE  Rest'
<1> USE DEF IInv
<1>1. bind[p] # Unbound /\ bind[p] \in Bindings
  BY BoundRef DEF RefKeys
<1>2. /\ bind'[p].ref = r /\ bind'[p].purpose = bind[p].purpose /\ bind'[p].idle = "no"
      /\ \A q \in Pages : q # p => bind'[q] = bind[q]
  BY <1>1 DEF TypeOK, Lend, Bindings
<1>3. \A d \in Clients : lease'[d] = lease[d] \/ (lease'[d].page = p /\ lease'[d].ref = r)
  BY DEF TypeOK, Lend
<1>4. \A q \in Pages : q # p /\ InUse(q)' => InUse(q)
  BY <1>2, <1>3 DEF InUse
<1>5. Bound' = Bound /\ p \in Bound
  <2>1. bind'[p] # Unbound
    BY <1>2, Names DEF Unbound, RefKeys
  <2> QED BY <1>1, <1>2, <2>1 DEF Bound
<1>6. BindingsSound'
  <2> SUFFICES ASSUME NEW q \in Bound
               PROVE  /\ q \in open
                      /\ \A w \in Bound : bind'[q].ref = bind'[w].ref => q = w
                      /\ bind'[q].purpose = "work" => q \in owned
                      /\ bind'[q].idle # "no" => ~InUse(q)' /\ ~bind'[q].held
    BY <1>5 DEF BindingsSound
  <2>1. \A w \in Bound : w \in Pages /\ bind'[w].ref = bind[w].ref /\ bind'[w].purpose = bind[w].purpose
    BY <1>2 DEF Bound
  <2>2. /\ q \in open /\ (\A w \in Bound : bind[q].ref = bind[w].ref => q = w)
        /\ bind[q].purpose = "work" => q \in owned
        /\ bind[q].idle # "no" => ~InUse(q) /\ ~bind[q].held
    BY DEF BindingsSound
  <2> QED BY <1>2, <1>4, <2>1, <2>2
<1>7. LeasesBound' /\ LeasesOpen'
  <2> SUFFICES ASSUME NEW d \in Clients, lease'[d] # NoLease
               PROVE  bind'[lease'[d].page].ref = lease'[d].ref /\ lease'[d].page \in open
    BY DEF LeasesBound, LeasesOpen
  <2>1. CASE lease'[d] = lease[d]
    <3>1. lease[d].page \in Pages /\ lease[d].page \in open /\ bind[lease[d].page].ref = lease[d].ref
      BY <2>1, LeasedBound DEF LeasesBound
    <3> QED BY <1>2, <2>1, <3>1
  <2> QED BY <1>2, <1>3, <2>1
<1>8. LaneSound'
  BY FreeTyped, RestingLane
<1>9. Quiet'
  BY DEF Quiet
<1> QED BY <1>6, <1>7, <1>8, <1>9 DEF Rest

\* An unbound tab is bound to a reference nobody works with.
LEMMA BindKeeps ==
    ASSUME IInv, NEW p \in Pages, NEW b \in Bindings, bind' = BindPage(p, b), bind[p] = Unbound, p \in open',
           open \subseteq open', owned \subseteq owned', lease' = lease,
           b.purpose = "work" => p \in owned', ~b.held, ~b.pinned,
           \A q \in Pages : bind[q].ref = b.ref => \A c \in Clients : lease[c].page # q
    PROVE  BindingsSound' /\ LeasesBound' /\ LeasesOpen'
<1> USE DEF IInv
<1>1. bind'[p] = b /\ \A q \in Pages : q # p => bind'[q] = IF bind[q].ref = b.ref THEN Unbound ELSE bind[q]
  BY DEF BindPage
<1>2. b # Unbound /\ b.ref # None
  BY Names DEF Bindings, Unbound
<1>3. ~InUse(p)'
  <2>1. \A c \in Clients : lease[c].page # p
    BY UnboundUnused DEF InUse
  <2> QED BY <1>1, <2>1 DEF InUse
<1>4. \A q \in Bound' : q = p \/ (q \in Bound /\ bind'[q] = bind[q] /\ bind[q].ref # b.ref)
  BY <1>1 DEF Bound
<1>5. \A q \in Pages : q # p /\ InUse(q)' => InUse(q)
  BY <1>1 DEF InUse, Unbound
<1>6. BindingsSound'
  <2> SUFFICES ASSUME NEW q \in Bound'
               PROVE  /\ q \in open'
                      /\ \A w \in Bound' : bind'[q].ref = bind'[w].ref => q = w
                      /\ bind'[q].purpose = "work" => q \in owned'
                      /\ bind'[q].idle # "no" => ~InUse(q)' /\ ~bind'[q].held
    BY DEF BindingsSound
  <2>1. CASE q = p
    BY <1>1, <1>3, <1>4, <2>1
  <2>2. CASE q # p
    <3>1. /\ q \in Bound /\ q \in Pages /\ bind'[q] = bind[q] /\ bind[q].ref # b.ref
          /\ q \in open /\ (\A w \in Bound : bind[q].ref = bind[w].ref => q = w)
          /\ bind[q].purpose = "work" => q \in owned
          /\ bind[q].idle # "no" => ~InUse(q) /\ ~bind[q].held
      BY <1>4, <2>2 DEF BindingsSound, Bound
    <3> QED BY <1>1, <1>4, <1>5, <2>2, <3>1
  <2> QED BY <2>1, <2>2
<1>7. LeasesBound' /\ LeasesOpen'
  <2> SUFFICES ASSUME NEW c \in Clients, lease[c] # NoLease
               PROVE  bind'[lease[c].page].ref = lease[c].ref /\ lease[c].page \in open'
    BY DEF LeasesBound, LeasesOpen
  <2>1. lease[c].page \in Pages /\ lease[c].page \in open /\ bind[lease[c].page].ref = lease[c].ref /\ lease[c].page # p
    BY LeasedBound DEF LeasesBound
  <2> QED BY <1>1, <2>1
<1> QED BY <1>6, <1>7

\* The search for a tab to take over goes on.
LEMMA SearchKeeps ==
    ASSUME IInv, NEW request \in Lanes, NEW todo \in SUBSET Pages, Search(request, todo),
           request.client \in Clients, request.ref \in Refs, \A p \in Pages : bind[p].ref # request.ref,
           UNCHANGED <<bind, lease, open, owned, phase>>, Serving
    PROVE  Rest'
<1>1. /\ lane'.client = request.client /\ lane'.ref = request.ref /\ lane'.purpose = request.purpose
      /\ \/ lane'.op = "create"
         \/ lane'.op = "probe" /\ lane'.page \in Pages /\ Candidate(lane'.page, request.purpose)
  BY SearchGives DEF IInv
<1>2. LaneSound'
  BY <1>1 DEF LaneSound, LaneTyped, Allocating, Watching, Observing, Reclaims, Keeper, Candidate, Claimed
<1> QED BY <1>2, LaneKeeps DEF Serving

\* Allocation in the lane.
LEMMA AllocationKeeps ==
    ASSUME IInv, TypeOK', Allocation
    PROVE  Rest'
<1> USE DEF IInv, memory, browserVars
<1>a. phase \in {"down", "detached"} => lane = Free
  BY DEF Quiet
<1>b. open \in SUBSET Pages /\ lane.todo \in SUBSET Pages /\ lane.purpose \in Purposes
  BY LaneTypes DEF TypeOK
<1>1. ASSUME NEW c \in Clients, NEW r \in Refs, Replace(c, r) PROVE Rest'
  <2>1. PICK p \in Bound \ crashed :
            /\ bind[p].ref = r /\ ~InUse(p) /\ ~bind[p].held
            /\ LET request == [Free EXCEPT !.client = c, !.ref = r] IN
               IF p \in owned
                 THEN /\ lane' = [request EXCEPT !.op = IF open = {p} THEN "keep" ELSE "close", !.page = p]
                      /\ bind' = bind
                 ELSE /\ lane' = [request EXCEPT !.op = "create"]
                      /\ bind' = [bind EXCEPT ![p] = Unbound]
    BY <1>1 DEF Replace
  <2>2. p \in Pages /\ p \in open /\ bind[p] # Unbound /\ \A q \in Pages : q # p => bind[q].ref # r
    <3>1. p \in Pages /\ bind[p] # Unbound /\ p \in open
      BY DEF Bound, BindingsSound
    <3>2. \A q \in Pages : bind[q].ref = r => q \in Bound
      BY BoundRef DEF RefKeys
    <3> QED BY <2>1, <3>1, <3>2 DEF BindingsSound
  <2>3. c # None /\ r # None /\ UNCHANGED <<phase, open, owned, crashed, lease>> /\ phase = "serving"
    BY <1>1, Names DEF Replace, Begin, Serving
  <2>4. CASE p \in owned
    <3>1. /\ bind' = bind /\ lane'.client = c /\ lane'.ref = r /\ lane'.page = p
          /\ lane'.op = IF open = {p} THEN "keep" ELSE "close"
      BY <2>1, <2>4 DEF Free
    <3>2. ~InUse(lane.page)'
      BY <2>1, <2>3, <3>1 DEF InUse
    <3>3. LaneSound'
      BY <2>2, <2>3, <3>1, <3>2 DEF LaneSound, LaneTyped, Allocating, Watching, Observing, Reclaims, Keeper
    <3> QED BY <2>3, <3>1, <3>3, LaneKeeps
  <2>5. CASE p \notin owned
    <3>1. /\ bind'[p] = Unbound /\ \A q \in Pages : q # p => bind'[q] = bind[q]
      BY <2>1, <2>2, <2>5 DEF TypeOK
    <3>2. lane'.op = "create" /\ lane'.client = c /\ lane'.ref = r
      BY <2>1, <2>5 DEF Free
    <3>3. \A q \in Pages : bind'[q].ref # r
      BY <2>2, <2>3, <3>1 DEF Unbound
    <3>4. LaneSound'
      BY <3>2, <3>3 DEF LaneSound, LaneTyped, Allocating, Watching, Observing, Reclaims, Keeper
    <3>5. \A q \in Bound' : q \in Bound /\ q # p /\ bind'[q] = bind[q]
      BY <3>1 DEF Bound
    <3>6. \A q \in Pages : InUse(q)' => InUse(q)
      BY <2>3, <3>1 DEF InUse, Unbound
    <3>7. BindingsSound'
      BY <2>3, <3>5, <3>6 DEF BindingsSound, Bound
    <3>8. LeasesBound' /\ LeasesOpen'
      <4>1. \A d \in Clients : lease[d].page # p
        BY <2>1 DEF InUse
      <4>2. \A d \in Clients : lease[d] # NoLease => lease[d].page \in Pages
        BY LeaseTypes
      <4> QED BY <2>3, <3>1, <4>1, <4>2 DEF LeasesBound, LeasesOpen
    <3> QED BY <2>3, <3>4, <3>7, <3>8 DEF Rest, Quiet
  <2> QED BY <2>4, <2>5
<1>2. ASSUME NEW c \in Clients, NEW r \in Refs, NEW u \in Purposes, Reuse(c, r, u) PROVE Rest'
  <2>1. PICK p \in Bound : bind[p].ref = r /\ Lend(c, p, r, u, u)
    BY <1>2 DEF Reuse
  <2>2. p \in Pages /\ p \in open
    BY DEF BindingsSound, Bound
  <2>3. lane' = Free /\ UNCHANGED <<phase, open, owned>>
    BY <1>2 DEF Reuse, Begin
  <2> QED BY <2>1, <2>2, <2>3, LendKeeps
<1>3. ASSUME NEW c \in Clients, NEW r \in Refs, NEW u \in Purposes, Acquire(c, r, u) PROVE Rest'
  <2> DEFINE request == [Free EXCEPT !.client = c, !.ref = r, !.purpose = u]
  <2>1. request \in Lanes /\ request.client = c /\ request.ref = r
    BY FreeTyped DEF Lanes
  <2> HIDE DEF request
  <2>2. Search(request, open) /\ Serving /\ UNCHANGED <<bind, lease, open, owned, phase>>
        /\ \A p \in Pages : bind[p].ref # r
    BY <1>3 DEF Acquire, Begin, request
  <2> QED BY <1>b, <2>1, <2>2, SearchKeeps
<1>4. CASE ProbeBusy \/ ProbeFree \/ CreateEnds \/ SaveEnds \/ TempEnds \/ AllocationFails
  <2>0. phase \notin {"down", "detached"}
    BY <1>4, <1>a, FreeTyped DEF ProbeBusy, ProbeFree, CreateEnds, SaveEnds, TempEnds, AllocationFails, Step
  <2>1. CASE ProbeBusy
    <3>1. lane \in Lanes /\ lane.client \in Clients /\ lane.ref \in Refs /\ \A p \in Pages : bind[p].ref # lane.ref
      BY <2>1 DEF ProbeBusy, Step, LaneSound, LaneTyped, Allocating, TypeOK
    <3>2. lane'.op \in {"create", "probe"}
      BY <1>b, <2>1, <3>1, SearchGives DEF ProbeBusy
    <3>3. /\ lane'.client = lane.client /\ lane'.ref = lane.ref /\ lane'.purpose = lane.purpose
          /\ \/ lane'.op = "create"
             \/ lane'.op = "probe" /\ lane'.page \in Pages /\ Candidate(lane'.page, lane.purpose)
      BY <1>b, <2>1, <3>1, SearchGives DEF ProbeBusy
    <3>4. UNCHANGED <<bind, lease, open, owned, phase>>
      BY <2>1 DEF ProbeBusy
    <3>5. LaneSound'
      BY <3>1, <3>3, <3>4 DEF LaneSound, LaneTyped, Allocating, Watching, Observing, Reclaims, Keeper, Candidate, Claimed
    <3> QED BY <2>0, <3>4, <3>5, LaneKeeps
  <2>2. CASE ProbeFree
    <3> DEFINE p == lane.page
               b == NewBinding(lane.ref, lane.purpose)
    <3>1. /\ p \in Pages /\ p \in open /\ lane.ref \in Refs /\ bind[p] = Unbound
          /\ \A q \in Pages : bind[q].ref # lane.ref
          /\ lane.purpose = "work" => p \in owned
          /\ UNCHANGED <<phase, open, owned, lease>>
      BY <2>2 DEF ProbeFree, Step, LaneSound, LaneTyped, Allocating
    <3>2. CASE closing # "no"
      <4>1. lane' = Free /\ bind' = bind
        BY <2>2, <3>2 DEF ProbeFree
      <4>2. LaneSound'
        BY <4>1, FreeTyped, RestingLane
      <4> QED BY <2>0, <3>1, <4>1, <4>2, LaneKeeps
    <3>3. CASE closing = "no"
      <4>1. bind' = BindPage(p, b) /\ lane' = [lane EXCEPT !.op = "save", !.todo = {}]
        BY <2>2, <3>3 DEF ProbeFree
      <4>2. b \in Bindings /\ b.ref = lane.ref /\ b.purpose = lane.purpose /\ ~b.held /\ ~b.pinned
        BY <1>b, <3>1, BindingTyped DEF NewBinding, Unbound, RefKeys
      <4> HIDE DEF b
      <4>3. bind'[p].ref = lane.ref
        BY <3>1, <4>1, <4>2 DEF BindPage
      <4> HIDE DEF p
      <4>4. BindingsSound' /\ LeasesBound' /\ LeasesOpen'
        BY <3>1, <4>1, <4>2, BindKeeps
      <4>5. lane'.op = "save" /\ lane'.page = p /\ lane'.ref = lane.ref /\ lane'.client = lane.client /\ lane.client \in Clients
        BY <2>2, <4>1 DEF ProbeFree, Step, LaneSound, LaneTyped, TypeOK, Lanes, p
      <4>6. LaneSound'
        BY <3>1, <4>3, <4>5 DEF LaneSound, LaneTyped, Allocating, Watching, Observing, Reclaims, Keeper
      <4> QED BY <2>0, <3>1, <4>4, <4>6 DEF Rest, Quiet
    <3> QED BY <3>2, <3>3
  <2>3. CASE CreateEnds
    <3> DEFINE b == NewBinding(lane.ref, lane.purpose)
    <3>1. /\ lane.ref \in Refs /\ lane.client \in Clients /\ \A q \in Pages : bind[q].ref # lane.ref
          /\ UNCHANGED <<phase, lease, crashed, lone>>
      BY <2>3 DEF CreateEnds, Step, LaneSound, LaneTyped, Allocating
    <3>2. PICK p \in Pages : /\ MakePage(p) /\ owned' = owned \union {p}
                             /\ IF closing # "no"
                                  THEN lane' = Free /\ bind' = bind
                                  ELSE bind' = BindPage(p, b) /\ lane' = [lane EXCEPT !.op = "save", !.page = p]
      BY <2>3 DEF CreateEnds
    <3>3. p \notin open /\ open' = open \union {p} /\ bind[p] = Unbound
      <4>1. p \notin open /\ open' = open \union {p}
        BY <3>2 DEF MakePage
      <4> QED BY <4>1 DEF BindingsSound, Bound
    <3>4. CASE closing # "no"
      <4>1. lane' = Free /\ bind' = bind
        BY <3>2, <3>4
      <4>2. LaneSound'
        BY <4>1, FreeTyped, RestingLane
      <4>3. BindingsSound' /\ LeasesBound' /\ LeasesOpen'
        BY <3>1, <3>2, <3>3, <4>1 DEF BindingsSound, LeasesBound, LeasesOpen, Bound, InUse
      <4> QED BY <2>0, <3>1, <4>2, <4>3 DEF Rest, Quiet
    <3>5. CASE closing = "no"
      <4>1. bind' = BindPage(p, b) /\ lane' = [lane EXCEPT !.op = "save", !.page = p]
        BY <3>2, <3>5
      <4>2. b \in Bindings /\ b.ref = lane.ref /\ b.purpose = lane.purpose /\ ~b.held /\ ~b.pinned
        BY <1>b, <3>1, BindingTyped DEF NewBinding, Unbound, RefKeys
      <4> HIDE DEF b
      <4>3. bind'[p].ref = lane.ref
        BY <4>1, <4>2 DEF BindPage
      <4>4. BindingsSound' /\ LeasesBound' /\ LeasesOpen'
        BY <3>1, <3>2, <3>3, <4>1, <4>2, BindKeeps
      <4>5. lane'.op = "save" /\ lane'.page = p /\ lane'.ref = lane.ref /\ lane'.client = lane.client
        BY <4>1 DEF TypeOK, Lanes
      <4>6. LaneSound'
        BY <3>1, <4>3, <4>5 DEF LaneSound, LaneTyped, Allocating, Watching, Observing, Reclaims, Keeper
      <4> QED BY <2>0, <3>1, <4>4, <4>6 DEF Rest, Quiet
    <3> QED BY <3>4, <3>5
  <2>4. CASE SaveEnds
    <3>1. /\ lane.client \in Clients /\ lane.page \in Pages /\ lane.ref \in Refs
          /\ lane.page \in open /\ bind[lane.page].ref = lane.ref
      BY <2>4 DEF SaveEnds, Step, LaneSound, LaneTyped, Allocating
    <3>2. /\ Lend(lane.client, lane.page, lane.ref, lane.purpose, lane.purpose)
          /\ lane' = Free /\ UNCHANGED <<phase, open, owned>>
      BY <2>4 DEF SaveEnds
    <3> QED BY <1>b, <3>1, <3>2, LendKeeps
  <2>5. CASE TempEnds
    <3>1. /\ UNCHANGED <<phase, lease, bind>> /\ lane' = Free
          /\ open \subseteq open' /\ owned \subseteq owned'
      BY <2>5 DEF TempEnds, MakePage
    <3>2. LaneSound'
      BY <3>1, FreeTyped, RestingLane
    <3>3. BindingsSound' /\ LeasesBound' /\ LeasesOpen'
      BY <3>1 DEF BindingsSound, LeasesBound, LeasesOpen, Bound, InUse
    <3> QED BY <2>0, <3>1, <3>2, <3>3 DEF Rest, Quiet
  <2>6. CASE AllocationFails
    <3>1. UNCHANGED <<bind, lease, open, owned, phase>> /\ lane' = Free
      BY <2>6 DEF AllocationFails
    <3> QED BY <3>1, FreeTyped, RestingLane, LaneKeeps
  <2> QED BY <1>4, <2>1, <2>2, <2>3, <2>4, <2>5, <2>6
<1> QED BY <1>1, <1>2, <1>3, <1>4 DEF Allocation

\* What clients, the user and the pages do while the lane waits.
LEMMA OutsideKeeps ==
    ASSUME IInv, TypeOK', Use \/ Browsing
    PROVE  Rest'
<1> USE DEF IInv, memory, browserVars
<1>1. ASSUME NEW c \in Clients, TempBegins(c) PROVE Rest'
  <2>1. /\ lane'.op = "temp" /\ lane'.client = c /\ UNCHANGED <<bind, lease, open, owned, phase>>
        /\ phase = "serving"
    BY <1>1 DEF TempBegins, Free, Begin, Serving
  <2> QED BY <2>1, RestingLane, LaneKeeps
<1>2. ASSUME NEW c \in Clients, Release(c) PROVE Rest'
  <2>0. PICK p : p = lease[c].page
    OBVIOUS
  <2>1. p \in Pages /\ InUse(p) /\ p \in Bound
    BY <1>2, <2>0, LeasedBound DEF Release, InUse, Bound
  <2>2. /\ UNCHANGED <<phase, open, owned, crashed, lane, lone>>
        /\ \A d \in Clients : lease'[d] = IF d = c THEN NoLease ELSE lease[d]
    BY <1>2 DEF Release, TypeOK
  <2>3. \/ bind' = bind
        \/ /\ bind' = [bind EXCEPT ![p].idle = "fresh"]
           /\ p \in owned /\ ~bind[p].held /\ ~bind[p].pinned /\ \A d \in Clients \ {c} : lease[d].page # p
    BY <1>2, <2>0 DEF Release
  <2>4. /\ \A q \in Pages : q # p => bind'[q] = bind[q]
        /\ /\ bind'[p].ref = bind[p].ref /\ bind'[p].purpose = bind[p].purpose
           /\ bind'[p].held = bind[p].held /\ bind'[p].pinned = bind[p].pinned
    <3>1. bind[p] \in Bindings
      BY <2>1 DEF Bound, TypeOK
    <3> QED BY <2>1, <2>3, <3>1 DEF TypeOK, Bindings
  <2>5. \A q \in Pages : (bind'[q] # Unbound <=> bind[q] # Unbound) /\ bind'[q].ref = bind[q].ref
    <3>1. bind'[p].ref # None
      BY <2>1, <2>4, BoundRef
    <3> QED BY <2>1, <2>4, <3>1 DEF Unbound, Bound
  <2>6. \A q \in Pages : InUse(q)' => InUse(q)
    BY <2>0, <2>2, <2>4, Names DEF InUse, NoLease
  <2>7. bind' = bind \/ (~InUse(p)' /\ ~bind'[p].held)
    <3> SUFFICES ASSUME bind' # bind
                 PROVE  ~InUse(p)' /\ ~bind'[p].held
      OBVIOUS
    <3>1. ~bind[p].held /\ ~bind[p].pinned /\ \A d \in Clients \ {c} : lease[d].page # p
      BY <2>3
    <3>2. NoLease.page # p
      BY <2>1, Names DEF NoLease
    <3>3. ~bind'[p].held /\ ~bind'[p].pinned
      BY <2>4, <3>1
    <3>4. \A d \in Clients : lease'[d].page # p
      BY <2>0, <2>2, <3>1, <3>2
    <3> QED BY <3>3, <3>4 DEF InUse
  <2>8. BindingsSound'
    <3> SUFFICES ASSUME NEW q \in Bound
                 PROVE  /\ q \in open
                        /\ \A w \in Bound : bind'[q].ref = bind'[w].ref => q = w
                        /\ bind'[q].purpose = "work" => q \in owned
                        /\ bind'[q].idle # "no" => ~InUse(q)' /\ ~bind'[q].held
      BY <2>2, <2>5 DEF BindingsSound, Bound
    <3>1. q \in Pages /\ \A w \in Bound : w \in Pages
      BY DEF Bound
    <3>2. /\ q \in open /\ bind'[q].purpose = bind[q].purpose
          /\ \A w \in Bound : bind'[q].ref = bind'[w].ref => q = w
          /\ bind[q].purpose = "work" => q \in owned
          /\ bind[q].idle # "no" => ~InUse(q) /\ ~bind[q].held
      BY <2>4, <2>5, <3>1 DEF BindingsSound
    <3>3. CASE bind'[q] = bind[q]
      BY <2>6, <3>1, <3>2, <3>3
    <3>4. CASE bind'[q] # bind[q]
      <4>1. q = p /\ bind' # bind
        BY <2>4, <3>1, <3>4
      <4> QED BY <2>7, <3>2, <4>1
    <3> QED BY <3>3, <3>4
  <2>9. LeasesBound' /\ LeasesOpen'
    <3>1. \A d \in Clients : lease[d] # NoLease => lease[d].page \in Pages
      BY LeaseTypes
    <3> QED BY <2>2, <2>5, <3>1 DEF LeasesBound, LeasesOpen
  <2>10. LaneTyped'
    BY <2>2 DEF LaneSound, LaneTyped
  <2>11. Allocating' /\ Watching'
    BY <2>2, <2>5, <2>6 DEF LaneSound, LaneTyped, Allocating, Watching
  <2>12. Observing' /\ Reclaims' /\ Keeper'
    <3>1. lane.op \in {"observe", "recheck", "keep", "close"} => lane.page # p /\ lane.page \in Pages
      BY <2>1 DEF LaneSound, LaneTyped, Watching
    <3> QED BY <2>2, <2>4, <2>5, <3>1 DEF LaneSound, Observing, Reclaims, Keeper
  <2> QED BY <2>2, <2>8, <2>9, <2>10, <2>11, <2>12 DEF Rest, LaneSound, Quiet
<1>3. ASSUME NEW c \in Clients, Navigate(c) PROVE Rest'
  BY <1>3, FrameKeeps DEF Navigate
<1>4. ASSUME NEW c \in Clients, TempClose(c) PROVE Rest'
  <2>1. temp[c] \in Pages
    BY <1>4, LeaseTypes DEF TempClose
  <2> QED BY <1>4, <2>1, CloseKeeps DEF TempClose
<1>5. CASE UserOpens
  <2>1. \E p \in Pages : p # lane.page /\ open' = open \union {p}
    BY <1>5 DEF UserOpens, MakePage
  <2>2. UNCHANGED <<phase, owned, crashed, bind, lease, lane, lone>> /\ phase # "down"
    BY <1>5 DEF UserOpens
  <2> QED BY <2>1, <2>2, FrameKeeps
<1>6. ASSUME NEW p \in Pages, UserCloses(p) PROVE Rest'
  BY <1>6, CloseKeeps DEF UserCloses
<1>7. ASSUME NEW p \in Pages, PageCrashes(p) \/ Timeout(p) PROVE Rest'
  <2>1. /\ UNCHANGED <<phase, open, owned, lease, lane, lone>>
        /\ crashed \subseteq crashed' /\ bind[p] # Unbound
    BY <1>7 DEF PageCrashes, Timeout, Bound, Unbound
  <2>2. bind[p] \in Bindings
    BY <2>1 DEF TypeOK
  <2>3. /\ \A q \in Pages : q # p => bind'[q] = bind[q]
        /\ bind'[p].ref = bind[p].ref /\ bind'[p].purpose = bind[p].purpose /\ bind'[p].pinned = bind[p].pinned
        /\ bind'[p].idle # "no" => bind'[p].held = bind[p].held /\ bind[p].idle # "no"
        /\ bind'[p].idle = bind[p].idle \/ bind'[p].idle = "due" \/ p \in crashed'
    BY <1>7, <2>2 DEF PageCrashes, Timeout, TypeOK, Bindings
  <2>4. \A q \in Pages : (bind'[q] # Unbound <=> bind[q] # Unbound) /\ bind'[q].ref = bind[q].ref
    <3>1. bind'[p].ref # None
      BY <2>1, <2>3, BoundRef
    <3> QED BY <2>1, <2>3, <3>1 DEF Unbound
  <2>5. \A q \in Pages : InUse(q)' <=> InUse(q)
    BY <2>1, <2>3 DEF InUse
  <2>6. BindingsSound'
    <3> SUFFICES ASSUME NEW q \in Bound
                 PROVE  /\ q \in open
                        /\ \A w \in Bound : bind'[q].ref = bind'[w].ref => q = w
                        /\ bind'[q].purpose = "work" => q \in owned
                        /\ bind'[q].idle # "no" => ~InUse(q)' /\ ~bind'[q].held
      BY <2>1, <2>4 DEF BindingsSound, Bound
    <3>1. q \in Pages /\ \A w \in Bound : w \in Pages
      BY DEF Bound
    <3> QED BY <2>3, <2>4, <2>5, <3>1 DEF BindingsSound
  <2>7. LeasesBound' /\ LeasesOpen'
    <3>1. \A d \in Clients : lease[d] # NoLease => lease[d].page \in Pages
      BY LeaseTypes
    <3> QED BY <2>1, <2>4, <3>1 DEF LeasesBound, LeasesOpen
  <2>8. LaneTyped' /\ Allocating' /\ Watching' /\ Keeper'
    BY <2>1, <2>4, <2>5 DEF LaneSound, LaneTyped, Allocating, Watching, Keeper
  <2>9. Observing' /\ Reclaims'
    BY <2>1, <2>3, <2>4 DEF LaneSound, LaneTyped, Observing, Reclaims
  <2> QED BY <2>1, <2>6, <2>7, <2>8, <2>9 DEF Rest, LaneSound, Quiet
<1> QED BY <1>1, <1>2, <1>3, <1>4, <1>5, <1>6, <1>7 DEF Use, Browsing

\* restorePages binds the tab it asked about, and goes on to the next.
LEMMA RestoreKeeps ==
    ASSUME IInv, TypeOK', Restore
    PROVE  Rest'
<1> USE DEF IInv, browserVars
<1>0. PICK p : p = lane.page
  OBVIOUS
<1>1. /\ p \in Pages /\ p \in open /\ bind[p] = Unbound /\ lane.op = "restore" /\ p \notin lane.todo
      /\ lane.todo \in SUBSET Pages /\ lane.changed \in BOOLEAN
  BY <1>0, LaneTypes DEF Restore, Step, LaneSound, LaneTyped, Allocating
<1>2. UNCHANGED <<open, lease, crashed>> /\ phase \notin {"down", "detached"}
  BY <1>1, FreeTyped DEF Restore, Quiet
<1>3. phase' \notin {"down", "detached"}
  BY <1>2 DEF Restore
<1>4. CASE UNCHANGED <<bind, owned>> /\ lane' \in Restoring(lane.todo, lane.changed)
  <2>1. LaneSound'
    BY <1>1, <1>2, <1>4, RestoresOn
  <2> QED BY <1>2, <1>3, <1>4, <2>1, LaneKeeps
<1>5. CASE ~(UNCHANGED <<bind, owned>> /\ lane' \in Restoring(lane.todo, lane.changed))
  <2> DEFINE entries == {e \in saved : e.page = p}
             known == {[ref |-> e.ref, purpose |-> e.purpose] : e \in entries}
                      \union (IF entries = {} /\ url[p] \in Refs
                                THEN {[ref |-> url[p], purpose |-> "work"]} ELSE {})
  <2>1. PICK k \in known :
            /\ LET taken == \E q \in Pages : bind[q].ref = k.ref IN
               bind' = BindPage(p, [NewBinding(IF taken THEN p ELSE k.ref, k.purpose) EXCEPT !.idle = "fresh"])
            /\ owned' = owned \union {p} /\ lane' \in Restoring(lane.todo, TRUE)
    BY <1>0, <1>5 DEF Restore
  <2>2. k.ref \in RefKeys /\ k.purpose \in Purposes
    BY DEF TypeOK, RefKeys, Purposes
  <2> HIDE DEF known
  <2>3. PICK r \in RefKeys : /\ bind' = BindPage(p, [NewBinding(r, k.purpose) EXCEPT !.idle = "fresh"])
                             /\ r = p \/ \A q \in Pages : bind[q].ref # r
    BY <1>1, <2>1, <2>2 DEF RefKeys
  <2> DEFINE b == [NewBinding(r, k.purpose) EXCEPT !.idle = "fresh"]
  <2>4. b \in Bindings /\ b.ref = r /\ ~b.held /\ ~b.pinned
    BY <2>2, BindingTyped DEF NewBinding, Unbound
  <2>5. \A q \in Pages : bind[q].ref = b.ref => \A c \in Clients : lease[c].page # q
    <3> SUFFICES ASSUME NEW q \in Pages, bind[q].ref = r, NEW c \in Clients, lease[c].page = q
                 PROVE  FALSE
      BY <2>4
    <3>1. lease[c] # NoLease /\ bind[q].ref \in Refs
      BY LeaseTypes, LeasedBound
    <3> QED BY <1>1, <2>3, <3>1, Names
  <2>6. bind' = BindPage(p, b)
    BY <2>3
  <2> HIDE DEF b
  <2>7. BindingsSound' /\ LeasesBound' /\ LeasesOpen'
    <3>1. p \in owned' /\ owned \subseteq owned' /\ p \in open' /\ open \subseteq open' /\ lease' = lease
      BY <1>1, <1>2, <2>1
    <3> QED BY <1>1, <2>4, <2>5, <2>6, <3>1, BindKeeps
  <2>8. LaneSound'
    <3>0. lane' \in Restoring(lane.todo, TRUE) /\ TRUE \in BOOLEAN /\ lane.todo \in SUBSET Pages
      BY <1>1, <2>1
    <3>1. /\ lane'.client = None
          /\ \/ lane'.op = "saveRestored"
             \/ /\ lane'.op = "restore" /\ lane'.page \in lane.todo /\ bind[lane'.page] = Unbound
                /\ lane'.page \notin lane'.todo
      BY ONLY TypeOK, <3>0, RestoringGives
    <3>2. CASE lane'.op = "saveRestored"
      BY <3>2, RestingLane
    <3>3. CASE lane'.op = "restore"
      <4>1. lane'.page \in Pages /\ lane'.page # p /\ bind[lane'.page] = Unbound
        BY <1>1, <3>1, <3>3
      <4>2. bind'[lane'.page] = Unbound
        BY <2>6, <4>1 DEF BindPage
      <4> QED BY <3>1, <3>3, <4>1, <4>2 DEF LaneSound, LaneTyped, Allocating, Watching, Observing, Reclaims, Keeper
    <3> QED BY <3>1, <3>2, <3>3
  <2> QED BY <1>3, <2>7, <2>8 DEF Rest, Quiet
<1> QED BY <1>4, <1>5

\* The observation of a tab, and what it decides.
LEMMA ObserveKeeps ==
    ASSUME IInv, TypeOK', NEW touched \in BOOLEAN, Observe(touched)
    PROVE  Rest'
<1> USE DEF IInv, browserVars
<1>0. PICK p : p = lane.page
  OBVIOUS
<1>1. /\ p \in Pages /\ ~InUse(p) /\ lane.client = None /\ lane.op \in {"observe", "recheck"}
      /\ p \in open => bind[p] # Unbound /\ bind[p].purpose = "work"
      /\ lane.todo \in SUBSET Pages
  BY <1>0, LaneTypes DEF Observe, LaneSound, LaneTyped, Watching, Observing
<1>2. UNCHANGED <<phase, open, owned, crashed, lease>> /\ phase \notin {"down", "detached"}
  BY <1>1, FreeTyped DEF Observe, Quiet
<1>3. CASE p \notin open
  <2>1. bind' = bind /\ lane' \in Collecting(lane.todo)
    BY <1>0, <1>3 DEF Observe
  <2>2. LaneSound'
    BY <1>1, <1>2, <2>1, SweepsOn
  <2> QED BY <1>2, <2>1, <2>2, LaneKeeps
<1>4. CASE p \in open
  <2> DEFINE b == Observed(p, touched)
  <2>1. /\ bind' = [bind EXCEPT ![p] = b]
        /\ IF IsIdle(p, b) /\ b.idle = "due"
             THEN lane' = IF lane.op = "observe" THEN [lane EXCEPT !.op = "recheck"]
                          ELSE [lane EXCEPT !.op = IF open = {p} THEN "keep" ELSE "close"]
             ELSE lane' \in Collecting(lane.todo)
    BY <1>0, <1>4 DEF Observe
  <2>2. /\ b.ref = bind[p].ref /\ b.purpose = bind[p].purpose /\ b.pinned = bind[p].pinned /\ ~b.held
        /\ b # Unbound
    <3>1. bind[p] \in Bindings
      BY <1>1, <1>4 DEF TypeOK
    <3>2. b.ref = bind[p].ref /\ b.purpose = bind[p].purpose /\ b.pinned = bind[p].pinned /\ ~b.held
      BY <3>1 DEF Observed, Bindings
    <3>3. bind[p].ref \in RefKeys
      BY <3>1 DEF Bindings
    <3> QED BY <3>2, <3>3, Names DEF Unbound
  <2>3. bind'[p] = b /\ \A q \in Pages : q # p => bind'[q] = bind[q]
    BY <1>1, <2>1 DEF TypeOK
  <2> HIDE DEF b
  <2>4. \A q \in Pages : /\ bind'[q].ref = bind[q].ref /\ bind'[q].purpose = bind[q].purpose
                         /\ bind'[q].pinned = bind[q].pinned /\ (bind'[q] # Unbound <=> bind[q] # Unbound)
    BY <1>1, <1>4, <2>2, <2>3
  <2>5. \A q \in Pages : InUse(q)' <=> InUse(q)
    BY <1>2, <2>4 DEF InUse
  <2>6. BindingsSound'
    <3> SUFFICES ASSUME NEW q \in Bound
                 PROVE  /\ q \in open
                        /\ \A w \in Bound : bind'[q].ref = bind'[w].ref => q = w
                        /\ bind'[q].purpose = "work" => q \in owned
                        /\ bind'[q].idle # "no" => ~InUse(q)' /\ ~bind'[q].held
      BY <1>2, <2>4 DEF BindingsSound, Bound
    <3>1. q \in Pages /\ \A w \in Bound : w \in Pages
      BY DEF Bound
    <3>2. /\ q \in open /\ (\A w \in Bound : bind[q].ref = bind[w].ref => q = w)
          /\ bind[q].purpose = "work" => q \in owned
          /\ bind[q].idle # "no" => ~InUse(q) /\ ~bind[q].held
      BY DEF BindingsSound
    <3>3. CASE q = p
      BY <1>1, <2>2, <2>3, <2>4, <2>5, <3>1, <3>2, <3>3
    <3>4. CASE q # p
      BY <2>3, <2>4, <2>5, <3>1, <3>2, <3>4
    <3> QED BY <3>3, <3>4
  <2>7. LeasesBound' /\ LeasesOpen'
    <3>1. \A d \in Clients : lease[d] # NoLease => lease[d].page \in Pages
      BY LeaseTypes
    <3> QED BY <1>2, <2>4, <3>1 DEF LeasesBound, LeasesOpen
  <2>8. LaneSound'
    <3>1. CASE lane' \in Collecting(lane.todo)
      BY <1>1, <1>2, <2>4, <3>1, SweepsOn
    <3>2. CASE IsIdle(p, b) /\ b.idle = "due"
      <4>1. /\ lane'.page = p /\ lane'.client = None
            /\ lane'.op = IF lane.op = "observe" THEN "recheck" ELSE IF open = {p} THEN "keep" ELSE "close"
        BY <1>0, <1>1, <2>1, <3>2 DEF TypeOK, Lanes
      <4>2. ~InUse(lane.page)'
        BY <1>1, <1>2, <2>3, <2>4, <4>1 DEF InUse
      <4>3. p \in owned /\ b.purpose = "work"
        BY <1>1, <1>4, <2>2, <3>2 DEF IsIdle
      <4>4. LaneTyped' /\ Allocating' /\ Watching' /\ Observing'
        BY <1>1, <1>2, <2>2, <2>3, <4>1, <4>2, <4>3 DEF LaneTyped, Allocating, Watching, Observing
      <4>5. Reclaims'
        BY <1>2, <2>3, <3>2, <4>1, <4>3 DEF Reclaims
      <4>6. Keeper'
        BY <1>2, <1>4, <4>1 DEF Keeper
      <4> QED BY <4>4, <4>5, <4>6 DEF LaneSound
    <3> QED BY <2>1, <3>1, <3>2
  <2> QED BY <1>2, <2>6, <2>7, <2>8 DEF Rest, Quiet
<1> QED BY <1>3, <1>4

\* A tab is collected, or replaced.
LEMMA CloseEndKeeps ==
    ASSUME IInv, TypeOK', CloseEnds
    PROVE  Rest'
<1> USE DEF IInv, browserVars, memory
<1>0. PICK p : p = lane.page
  OBVIOUS
<1>1. /\ lane.op = "close" /\ p \in Pages
      /\ lane.client # None => /\ lane.client \in Clients /\ lane.ref \in Refs
                               /\ \A q \in Pages : q # p => bind[q].ref # lane.ref
  BY <1>0, LaneTypes DEF CloseEnds, Step, LaneSound, LaneTyped, Reclaims
<1>2. /\ lane' = [lane EXCEPT !.op = IF lane.client = None THEN "saveCollected" ELSE "create", !.page = None]
      /\ phase' = phase
  BY <1>1 DEF CloseEnds
<1>3. /\ lane'.op = IF lane.client = None THEN "saveCollected" ELSE "create"
      /\ lane'.client = lane.client /\ lane'.ref = lane.ref
  BY <1>2 DEF TypeOK, Lanes
<1>4. phase \notin {"down", "detached"}
  BY <1>1, FreeTyped DEF Quiet
<1>5. /\ BindingsSound' /\ LeasesBound' /\ LeasesOpen'
      /\ bind'[p] = Unbound /\ \A q \in Pages : q # p => bind'[q] = bind[q]
  <2>1. CASE p \in open
    BY <1>0, <1>1, <2>1, CloseBindings DEF CloseEnds
  <2>2. CASE p \notin open
    <3>1. UNCHANGED <<open, owned, bind, lease>>
      BY <1>0, <2>2 DEF CloseEnds
    <3>2. bind[p] = Unbound
      BY <1>1, <2>2 DEF BindingsSound, Bound
    <3> QED BY <3>1, <3>2 DEF BindingsSound, LeasesBound, LeasesOpen, Bound, InUse
  <2> QED BY <2>1, <2>2
<1>6. LaneSound'
  <2>1. CASE lane.client = None
    BY <1>3, <2>1, RestingLane
  <2>2. CASE lane.client # None
    <3>1. \A q \in Pages : bind'[q].ref # lane.ref
      BY <1>1, <1>5, <2>2, Names DEF Unbound
    <3> QED BY <1>1, <1>3, <2>2, <3>1 DEF LaneSound, LaneTyped, Allocating, Watching, Observing, Reclaims, Keeper
  <2> QED BY <2>1, <2>2
<1> QED BY <1>2, <1>4, <1>5, <1>6 DEF Rest, Quiet

LEMMA CloseFailureKeeps ==
    ASSUME IInv, TypeOK', CloseFails
    PROVE  Rest'
<1> USE DEF IInv, browserVars, memory
<1>0. PICK p : p = lane.page
  OBVIOUS
<1>1. /\ lane.op \in {"keep", "close"} /\ p \in Pages /\ lane.todo \in SUBSET Pages
      /\ UNCHANGED <<phase, open, owned, lease>>
  BY <1>0, LaneTypes DEF CloseFails, Reclaiming, LaneSound, LaneTyped
<1>2. phase \notin {"down", "detached"}
  BY <1>1, FreeTyped DEF Quiet
<1>3. /\ \A q \in Pages : q # p => bind'[q] = bind[q]
      /\ bind[p] = Unbound => bind' = bind
      /\ bind[p] # Unbound => /\ bind'[p].ref = bind[p].ref /\ bind'[p].purpose = bind[p].purpose
                              /\ bind'[p].pinned = bind[p].pinned /\ bind'[p].idle = "no"
  <2>1. CASE bind[p] = Unbound
    BY <1>0, <2>1 DEF CloseFails
  <2>2. CASE bind[p] # Unbound
    <3>1. bind' = [bind EXCEPT ![p].held = TRUE, ![p].idle = "no"] /\ bind[p] \in Bindings
      BY <1>0, <1>1, <2>2 DEF CloseFails, TypeOK
    <3> QED BY <1>1, <2>2, <3>1 DEF TypeOK, Bindings
  <2> QED BY <2>1, <2>2
<1>4. \A q \in Pages : /\ bind'[q].ref = bind[q].ref /\ bind'[q].purpose = bind[q].purpose
                       /\ bind'[q].pinned = bind[q].pinned /\ (bind'[q] # Unbound <=> bind[q] # Unbound)
  <2>1. bind[p] # Unbound => bind'[p] # Unbound
    <3> SUFFICES ASSUME bind[p] # Unbound PROVE bind'[p] # Unbound
      OBVIOUS
    <3>1. bind[p].ref # None
      BY <1>1, BoundRef
    <3>2. bind'[p].ref # None
      BY <1>3, <3>1
    <3> QED BY <3>2 DEF Unbound
  <2> QED BY <1>1, <1>3, <2>1
<1>5. \A q \in Pages : InUse(q)' <=> InUse(q)
  BY <1>1, <1>4 DEF InUse
<1>6. BindingsSound'
  <2> SUFFICES ASSUME NEW q \in Bound
               PROVE  /\ q \in open
                      /\ \A w \in Bound : bind'[q].ref = bind'[w].ref => q = w
                      /\ bind'[q].purpose = "work" => q \in owned
                      /\ bind'[q].idle # "no" => ~InUse(q)' /\ ~bind'[q].held
    BY <1>1, <1>4 DEF BindingsSound, Bound
  <2>1. q \in Pages /\ bind[q] # Unbound /\ \A w \in Bound : w \in Pages
    BY DEF Bound
  <2>2. /\ q \in open /\ (\A w \in Bound : bind[q].ref = bind[w].ref => q = w)
        /\ bind[q].purpose = "work" => q \in owned
        /\ bind[q].idle # "no" => ~InUse(q) /\ ~bind[q].held
    BY DEF BindingsSound
  <2>3. q = p => bind'[q].idle = "no"
    BY <1>3, <2>1
  <2>4. q # p => bind'[q] = bind[q]
    BY <1>3, <2>1
  <2> QED BY <1>4, <1>5, <2>1, <2>2, <2>3, <2>4
<1>7. LeasesBound' /\ LeasesOpen'
  <2>1. \A d \in Clients : lease[d] # NoLease => lease[d].page \in Pages
    BY LeaseTypes
  <2> QED BY <1>1, <1>4, <2>1 DEF LeasesBound, LeasesOpen
<1>8. LaneSound'
  <2>1. CASE lane' = Free
    BY <2>1, FreeTyped, RestingLane
  <2>2. CASE lane' \in Collecting(lane.todo)
    BY <1>1, <1>4, <2>2, SweepsOn
  <2> QED BY <2>1, <2>2 DEF CloseFails
<1> QED BY <1>1, <1>2, <1>6, <1>7, <1>8 DEF Rest, Quiet

\* The sweep in the lane.
LEMMA SweepKeeps ==
    ASSUME IInv, TypeOK', Sweep
    PROVE  Rest'
<1> USE DEF IInv, browserVars, memory
<1>a. phase \in {"down", "detached"} => lane = Free
  BY DEF Quiet
<1>b. open \in SUBSET Pages /\ lane.todo \in SUBSET Pages /\ Bound \in SUBSET Pages
  BY LaneTypes DEF TypeOK, Bound
<1>1. CASE SweepBegins
  <2>1. /\ lane' \in Restoring(open, FALSE) /\ UNCHANGED <<bind, lease, open, owned, phase>> /\ phase = "serving"
    BY <1>1 DEF SweepBegins, Begin, Serving
  <2>2. LaneSound'
    BY <1>b, <2>1, RestoresOn
  <2> QED BY <2>1, <2>2, LaneKeeps
<1>2. CASE Restore
  BY <1>2, RestoreKeeps
<1>3. CASE RestoreFails
  <2>1. CASE phase = "attaching"
    <3>1. Forget /\ phase' = "detached"
      BY <1>3, <2>1 DEF RestoreFails
    <3> QED BY <3>1, ForgetKeeps
  <2>2. CASE phase # "attaching"
    <3>1. lane' = Free /\ UNCHANGED <<phase, bind, lease, open, owned>>
      BY <1>3, <2>2 DEF RestoreFails
    <3> QED BY <3>1, FreeTyped, RestingLane, LaneKeeps
  <2> QED BY <2>1, <2>2
<1>4. CASE SaveRestored
  <2>1. /\ lane' = Free \/ lane' \in Collecting(Bound)
        /\ UNCHANGED <<bind, lease, open, owned>>
        /\ phase' = "serving" \/ phase' = phase
        /\ lane # Free
    BY <1>4, FreeTyped DEF SaveRestored, Step
  <2>2. LaneSound'
    <3>1. CASE lane' = Free
      BY <3>1, FreeTyped, RestingLane
    <3>2. CASE lane' \in Collecting(Bound)
      BY <1>b, <2>1, <3>2, SweepsOn
    <3> QED BY <2>1, <3>1, <3>2
  <2> QED BY <1>a, <2>1, <2>2, LaneKeeps
<1>5. CASE Answers
  BY <1>5, ObserveKeeps DEF Answers
<1>6. CASE KeepEnds
  <2>1. PICK q \in Pages : MakePage(q) /\ owned' = owned \union {q}
    BY <1>6 DEF KeepEnds
  <2>2. q # lane.page /\ q \notin open /\ open' = open \union {q}
    BY <2>1 DEF MakePage
  <2>3. /\ lane.op = "keep" /\ lane' = [lane EXCEPT !.op = "close"]
        /\ UNCHANGED <<phase, bind, lease, crashed, lone>>
    BY <1>6 DEF KeepEnds, Step
  <2>4. lane'.op = "close" /\ lane'.page = lane.page /\ lane'.client = lane.client /\ lane'.ref = lane.ref
    BY <2>3 DEF TypeOK, Lanes
  <2>5. BindingsSound' /\ LeasesBound' /\ LeasesOpen'
    BY <2>1, <2>2, <2>3 DEF BindingsSound, LeasesBound, LeasesOpen, Bound, InUse
  <2>6. ~InUse(lane.page)'
    BY <2>3, <2>4 DEF LaneSound, Watching, InUse
  <2>7. LaneTyped' /\ Allocating' /\ Observing' /\ Keeper'
    BY <2>2, <2>3, <2>4 DEF LaneSound, LaneTyped, Allocating, Observing, Keeper
  <2>8. Watching' /\ Reclaims'
    BY <2>1, <2>2, <2>3, <2>4, <2>6 DEF LaneSound, Watching, Reclaims
  <2>9. phase \notin {"down", "detached"}
    BY <1>a, <2>3, FreeTyped
  <2> QED BY <2>3, <2>5, <2>7, <2>8, <2>9 DEF Rest, LaneSound, Quiet
<1>7. CASE CloseEnds
  BY <1>7, CloseEndKeeps
<1>8. CASE CloseFails
  BY <1>8, CloseFailureKeeps
<1>9. CASE SaveCollected
  <2>1. lane' \in Collecting(lane.todo) /\ UNCHANGED <<phase, bind, lease, open, owned>> /\ lane # Free
    BY <1>9, FreeTyped DEF SaveCollected, Step
  <2>2. LaneSound'
    BY <1>b, <2>1, SweepsOn
  <2> QED BY <1>a, <2>1, <2>2, LaneKeeps
<1> QED BY <1>1, <1>2, <1>3, <1>4, <1>5, <1>6, <1>7, <1>8, <1>9 DEF Sweep, Closing

\* The life of the context.
LEMMA LifecycleKeeps ==
    ASSUME IInv, TypeOK', Lifecycle
    PROVE  Rest'
<1> USE DEF IInv, browserVars, memory
<1>1. CASE CloseBegins \/ BrowserCloseFails \/ DetachBegins
  BY <1>1, FrameKeeps DEF CloseBegins, BrowserCloseFails, DetachBegins
<1>2. CASE BrowserEnds \/ DetachEnds \/ Kill
  BY <1>2, ForgetKeeps DEF BrowserEnds, DetachEnds, Kill
<1>3. CASE Attach
  <2>1. UNCHANGED <<bind, lease, open, owned>> /\ phase' \in {"serving", "attaching"}
    BY <1>3 DEF Attach
  <2>2. LaneSound'
    <3>1. CASE lane' = Free
      BY <3>1, FreeTyped, RestingLane
    <3>2. CASE lane' \in Restoring(open, FALSE)
      <4>1. open \in SUBSET Pages
        BY DEF TypeOK
      <4> QED BY <2>1, <3>2, <4>1, RestoresOn
    <3> QED BY <1>3, <3>1, <3>2 DEF Attach
  <2> QED BY <2>1, <2>2, LaneKeeps
<1>4. CASE Launch
  <2>1. open = {} /\ lane = Free
    BY <1>4 DEF Launch, Quiet
  <2>2. \E p \in Pages : open' = {p}
    BY <1>4 DEF Launch
  <2>3. lane.page \notin open'
    BY <2>1, <2>2, FreeTyped, Names
  <2> QED BY <1>4, <2>1, <2>3, FrameKeeps DEF Launch
<1>5. CASE OpenProfile
  <2>1. PICK p \in Pages : MakePage(p) /\ owned' = owned \union {p}
    BY <1>5 DEF OpenProfile
  <2>2. open' = open \union {p} /\ p # lane.page
    BY <2>1 DEF MakePage
  <2> QED BY <1>5, <2>1, <2>2, FrameKeeps DEF OpenProfile, Serving
<1> QED BY <1>1, <1>2, <1>3, <1>4, <1>5 DEF Lifecycle

-----------------------------------------------------------------------------
LEMMA Initially == Init => IInv
<1> SUFFICES ASSUME Init PROVE IInv
  OBVIOUS
<1>1. TypeOK
  BY FreeTyped DEF Init, TypeOK
<1>2. BindingsSound /\ LeasesBound /\ LeasesOpen /\ Quiet
  BY DEF Init, BindingsSound, LeasesBound, LeasesOpen, Bound, Quiet
<1>3. LaneSound
  BY FreeTyped DEF Init, LaneSound, LaneTyped, Allocating, Watching, Observing, Reclaims, Keeper
<1> QED BY <1>1, <1>2, <1>3 DEF IInv

LEMMA Inductive ==
    ASSUME IInv, [Next]_vars
    PROVE  IInv'
<1>1. TypeOK'
  BY TypesKept DEF IInv, LaneSound
<1>2. CASE Next
  BY <1>1, <1>2, AllocationKeeps, OutsideKeeps, SweepKeeps, LifecycleKeeps DEF Next, Rest, IInv
<1>3. CASE UNCHANGED vars
  <2>1. Rest'
    BY <1>1, <1>3, FrameKeeps DEF vars, browserVars, memory
  <2> QED BY <1>1, <2>1 DEF Rest, IInv
<1> QED BY <1>2, <1>3

LEMMA Kept == Spec => []IInv
  BY Initially, Inductive, PTL DEF Spec

(***************************************************************************)
(* Leases are sound: a tab serves one reference, a tab somebody works in   *)
(* stays bound to the reference that was asked for, work tabs are the      *)
(* daemon's own, and no idle clock runs on a tab in use; whatever is       *)
(* closed, crashes, restarts or is opened while an operation waits.        *)
(***************************************************************************)
THEOREM LeasesStayConsistent == Spec => []LeasesConsistent
<1>1. IInv => LeasesConsistent
  <2> SUFFICES ASSUME IInv PROVE LeasesConsistent
    OBVIOUS
  <2>1. \A c \in Clients : lease[c].page \in open => lease[c] # NoLease
    BY LeaseTypes DEF IInv, TypeOK
  <2> QED BY <2>1 DEF IInv, LeasesConsistent, BindingsSound, LeasesBound
<1> QED BY <1>1, Kept, PTL

(***************************************************************************)
(* Neither the collector nor a replacement closes a tab somebody works in; *)
(* the collector closes only idle work tabs of the daemon; and neither     *)
(* closes the last tab, unless another was closed since it looked.         *)
(***************************************************************************)
THEOREM CollectsSafely == Spec => CollectionIsSafe
<1> DEFINE Safe == CloseEnds =>
                      \A p \in open \ open' :
                         /\ ~InUse(p)
                         /\ lane.client = None => /\ p \in owned /\ bind[p].purpose = "work"
                                                  /\ bind[p].idle = "due" \/ p \in crashed
                         /\ open' # {} \/ ~lone
<1>1. ASSUME IInv, [Next]_vars
      PROVE  [Safe]_vars
  <2> SUFFICES ASSUME CloseEnds, NEW p \in open, p \notin open'
               PROVE  /\ ~InUse(p)
                      /\ lane.client = None => /\ p \in owned /\ bind[p].purpose = "work"
                                               /\ bind[p].idle = "due" \/ p \in crashed
                      /\ open' # {} \/ ~lone
    OBVIOUS
  <2>1. p = lane.page /\ lane.op = "close" /\ open' = open \ {p}
    BY DEF CloseEnds, Step, ClosePage, browserVars
  <2>2. ~InUse(p)
    BY <1>1, <2>1 DEF IInv, LaneSound, Watching
  <2>3. lane.client = None => /\ p \in owned /\ bind[p].purpose = "work"
                              /\ bind[p].idle = "due" \/ p \in crashed
    BY <1>1, <2>1 DEF IInv, LaneSound, Reclaims
  <2>4. open' # {} \/ ~lone
    BY <1>1, <2>1 DEF IInv, LaneSound, Keeper
  <2> QED BY <2>2, <2>3, <2>4
<1>2. IInv /\ [Next]_vars => IInv'
  BY Inductive
<1> QED BY <1>1, <1>2, Initially, PTL DEF Spec, CollectionIsSafe

-----------------------------------------------------------------------------
(* What a restart relies on.                                               *)

\* The ownership file names open tabs, each once.
SavedSound ==
    \A e \in saved : /\ e.page \in open /\ e.ref \in Refs \union {e.page}
                     /\ \A d \in saved : d.page = e.page => d = e

\* A tab is bound to a conversation or to the reference of its own target.
OwnKeys == \A p \in Bound : bind[p].ref \in Refs \union {p}

\* A daemon that does not serve yet knows of no binding but those it restores, and of no check.
Forgotten ==
    /\ phase # "serving" => \A c \in Clients : temp[c] = None
    /\ phase \in {"down", "detached"} => Bound = {}

\* An attaching daemon has restored an entry of the file, or will ask about its tab.
Restored(e) ==
    bind[e.page] # Unbound /\ bind[e.page].purpose = e.purpose /\ bind[e.page].ref \in {e.ref, e.page}
Awaited(e) == lane.op = "restore" /\ bind[e.page] = Unbound /\ e.page \in {lane.page} \union lane.todo
Attaching ==
    phase = "attaching" =>
        /\ lane.op \in {"restore", "saveRestored"} /\ Bound \subseteq owned
        /\ \A e \in saved : Restored(e) \/ Awaited(e)

\* A tab of the user stays registered as one, and bound while a daemon serves.
KeptForUser(p) ==
    /\ \E e \in saved : e.page = p /\ e.purpose = "user"
    /\ bind[p] # Unbound => bind[p].purpose = "user"
    /\ phase = "serving" => bind[p] # Unbound /\ (bind[p].pinned \/ p \in owned)
ChosenKept == \A p \in chosen : KeptForUser(p)
Saves == lane.op = "save" /\ lane.page \in open => bind[lane.page].purpose = lane.purpose

RestartSound == SavedSound /\ OwnKeys /\ Forgotten /\ Attaching /\ ChosenKept /\ Saves

-----------------------------------------------------------------------------
\* What a step leaves of the binding of a tab.
Steady(p) == /\ bind'[p].ref = bind[p].ref /\ bind'[p].purpose = bind[p].purpose
             /\ bind[p].pinned => bind'[p].pinned

LEMMA RefTells ==
    ASSUME TypeOK, TypeOK', NEW p \in Pages
    PROVE  /\ (bind[p] = Unbound <=> bind[p].ref = None) /\ (bind'[p] = Unbound <=> bind'[p].ref = None)
           /\ (p \in Bound <=> bind[p] # Unbound) /\ (p \in Bound' <=> bind'[p] # Unbound)
<1>1. bind[p] \in Bindings \union {Unbound} /\ bind'[p] \in Bindings \union {Unbound}
  BY DEF TypeOK
<1>2. Unbound.ref = None /\ \A b \in Bindings : b.ref # None
  BY Names DEF Unbound, Bindings
<1> QED BY <1>1, <1>2 DEF Bound

\* A tab gets another state under the same reference.
LEMMA BindingMoves ==
    ASSUME TypeOK, NEW p \in Pages, NEW b, bind' = [bind EXCEPT ![p] = b], b.ref = bind[p].ref,
           b.purpose = bind[p].purpose, bind[p].pinned => b.pinned
    PROVE  \A q \in Pages : Steady(q)
<1>1. bind'[p] = b /\ \A q \in Pages : q # p => bind'[q] = bind[q]
  BY DEF TypeOK
<1> QED BY <1>1 DEF Steady

\* A reference nobody has is given to a tab that has none.
LEMMA BindingAdded ==
    ASSUME TypeOK, NEW p \in Pages, NEW b \in Bindings, bind' = BindPage(p, b), \A q \in Pages : bind[q].ref # b.ref
    PROVE  bind'[p] = b /\ \A q \in Pages : q # p => bind'[q] = bind[q]
  BY DEF BindPage

\* What is registered while a daemon serves.
LEMMA RegisteredSound ==
    ASSUME IInv, OwnKeys
    PROVE  /\ \A e \in Registered : /\ e.page \in Bound /\ e.page \in open /\ e.ref = bind[e.page].ref
                                    /\ e.purpose = bind[e.page].purpose
                                    /\ e.ref \in Refs \union {e.page}
           /\ \A d, e \in Registered : d.page = e.page => d = e
           /\ \A p \in Bound : \E e \in Registered : e.page = p /\ e.purpose = bind[p].purpose
<1>1. \A p \in Bound : p \in open
  BY DEF IInv, BindingsSound
<1>2. \A p \in Bound \intersect open :
         [page |-> p, ref |-> bind[p].ref, purpose |-> bind[p].purpose] \in Registered
  BY DEF Registered
<1>3. ASSUME NEW e \in Registered
      PROVE  \E p \in Bound \intersect open :
                e = [page |-> p, ref |-> bind[p].ref, purpose |-> bind[p].purpose]
  BY DEF Registered
<1>4. \A e \in Registered : /\ e.page \in Bound /\ e.page \in open /\ e.ref = bind[e.page].ref
                            /\ e.purpose = bind[e.page].purpose /\ e.ref \in Refs \union {e.page}
  BY <1>3 DEF OwnKeys
<1>5. \A d, e \in Registered : d.page = e.page => d = e
  BY <1>3
<1> QED BY <1>1, <1>2, <1>4, <1>5

\* A step that leaves the bindings alone, up to their clocks, and closes no tab.
LEMMA SteadyKeeps ==
    ASSUME IInv, TypeOK', RestartSound, phase' = phase, chosen' = chosen,
           \A p \in Pages : Steady(p), open \subseteq open', owned \subseteq owned',
           saved' = saved \/ (phase = "serving" /\ saved' = Registered),
           phase # "serving" => lane' = lane /\ temp' = temp,
           lane'.op = "save" => lane' = lane /\ lane.page \notin open' \ open
    PROVE  RestartSound'
<1>0. TypeOK /\ chosen \subseteq Pages /\ saved \in SUBSET [page : Pages, ref : RefKeys, purpose : Purposes]
  BY DEF IInv, TypeOK
<1>1. \A p \in Pages : bind'[p] = Unbound <=> bind[p] = Unbound
  BY <1>0, RefTells DEF Steady
<1>2. Bound' = Bound
  BY <1>0, <1>1 DEF Bound
<1>3. SavedSound'
  BY <1>0, RegisteredSound DEF RestartSound, SavedSound
<1>4. OwnKeys'
  <2>1. \A p \in Bound : p \in Pages
    BY DEF Bound
  <2> QED BY <1>2, <2>1 DEF RestartSound, OwnKeys, Steady
<1>5. Forgotten'
  BY <1>2 DEF RestartSound, Forgotten
<1>6. Attaching'
  <2> SUFFICES ASSUME phase = "attaching"
               PROVE  /\ lane.op \in {"restore", "saveRestored"} /\ Bound \subseteq owned'
                      /\ \A e \in saved : Restored(e)' \/ Awaited(e)'
    BY <1>2 DEF Attaching
  <2>1. \A e \in saved : Restored(e) \/ Awaited(e)
    BY DEF RestartSound, Attaching
  <2>2. lane' = lane
    OBVIOUS
  <2>3. \A e \in saved : e.page \in Pages
    BY <1>0
  <2>4. \A e \in saved : (Restored(e) => Restored(e)') /\ (Awaited(e) => Awaited(e)')
    BY <1>1, <2>2, <2>3 DEF Restored, Awaited, Steady
  <2> QED BY <2>1, <2>4 DEF RestartSound, Attaching
<1>7. ChosenKept'
  <2> SUFFICES ASSUME NEW p \in chosen PROVE KeptForUser(p)'
    BY DEF ChosenKept
  <2>1. p \in Pages /\ KeptForUser(p)
    BY <1>0 DEF RestartSound, ChosenKept
  <2>2. \E e \in saved' : e.page = p /\ e.purpose = "user"
    <3>1. CASE saved' = saved
      BY <2>1, <3>1 DEF KeptForUser
    <3>2. CASE phase = "serving" /\ saved' = Registered
      <4>1. p \in Bound /\ bind[p].purpose = "user"
        BY <2>1, <3>2 DEF KeptForUser, Bound
      <4> QED BY <3>2, <4>1, RegisteredSound DEF RestartSound
    <3> QED BY <3>1, <3>2
  <2> QED BY <1>1, <2>1, <2>2 DEF KeptForUser, Steady
<1>8. Saves'
  BY <1>0, LaneTypes DEF RestartSound, Saves, Steady, IInv, LaneSound, LaneTyped
<1> QED BY <1>3, <1>4, <1>5, <1>6, <1>7, <1>8 DEF RestartSound

\* A tab without a binding gets one while a daemon serves.
LEMMA BindingKeeps ==
    ASSUME IInv, TypeOK', RestartSound, phase = "serving", UNCHANGED <<phase, saved, chosen>>,
           NEW p \in Pages, NEW b \in Bindings, bind' = BindPage(p, b), \A q \in Pages : bind[q].ref # b.ref,
           bind[p] = Unbound, b.ref \in Refs \union {p},
           open \subseteq open', owned \subseteq owned',
           lane'.op = "save" => lane'.page = p /\ lane'.purpose = b.purpose
    PROVE  RestartSound'
<1>0. TypeOK /\ chosen \subseteq Pages
  BY DEF IInv, TypeOK
<1>1. bind'[p] = b /\ \A q \in Pages : q # p => bind'[q] = bind[q]
  BY <1>0, BindingAdded
<1>2. SavedSound' /\ Forgotten' /\ Attaching'
  BY DEF RestartSound, SavedSound, Forgotten, Attaching
<1>3. OwnKeys'
  BY <1>1 DEF RestartSound, OwnKeys, Bound
<1>4. \A q \in chosen : q # p
  BY DEF RestartSound, ChosenKept, KeptForUser
<1>5. ChosenKept'
  BY <1>0, <1>1, <1>4 DEF RestartSound, ChosenKept, KeptForUser
<1>6. Saves'
  BY <1>1 DEF Saves
<1> QED BY <1>2, <1>3, <1>5, <1>6 DEF RestartSound

\* A tab is closed.
LEMMA ClosingKeeps ==
    ASSUME IInv, TypeOK', RestartSound, NEW p \in Pages, ClosePage(p), phase' = phase,
           phase # "serving" => lane' = lane,
           lane'.op = "save" => lane' = lane
    PROVE  RestartSound'
<1>0. TypeOK /\ chosen \subseteq Pages /\ saved \in SUBSET [page : Pages, ref : RefKeys, purpose : Purposes]
  BY DEF IInv, TypeOK
<1>1. /\ bind'[p] = Unbound /\ \A q \in Pages : q # p => bind'[q] = bind[q]
      /\ open' = open \ {p} /\ owned' = owned \ {p} /\ chosen' = chosen \ {p}
      /\ saved' = {e \in saved : e.page # p}
      /\ \A c \in Clients : temp[c] = None => temp'[c] = None
  BY <1>0 DEF ClosePage, TypeOK
<1>2. Bound' = Bound \ {p}
  BY <1>1 DEF Bound
<1>3. SavedSound'
  BY <1>1 DEF RestartSound, SavedSound
<1>4. OwnKeys'
  BY <1>1, <1>2 DEF RestartSound, OwnKeys, Bound
<1>5. Forgotten'
  BY <1>1, <1>2 DEF RestartSound, Forgotten
<1>6. Attaching'
  <2> SUFFICES ASSUME phase = "attaching"
               PROVE  /\ lane.op \in {"restore", "saveRestored"} /\ Bound' \subseteq owned'
                      /\ \A e \in saved' : Restored(e)' \/ Awaited(e)'
    BY DEF Attaching
  <2>1. \A e \in saved' : e \in saved /\ e.page \in Pages /\ e.page # p
    BY <1>0, <1>1
  <2>2. \A e \in saved' : (Restored(e) => Restored(e)') /\ (Awaited(e) => Awaited(e)')
    BY <1>1, <2>1 DEF Restored, Awaited
  <2> QED BY <1>1, <1>2, <2>1, <2>2 DEF RestartSound, Attaching
<1>7. ChosenKept'
  <2> SUFFICES ASSUME NEW q \in chosen, q # p PROVE KeptForUser(q)'
    BY <1>1 DEF ChosenKept
  <2>1. KeptForUser(q) /\ bind'[q] = bind[q] /\ (q \in owned => q \in owned')
    BY <1>0, <1>1 DEF RestartSound, ChosenKept
  <2>2. \E e \in saved' : e.page = q /\ e.purpose = "user"
    BY <1>1, <2>1 DEF KeptForUser
  <2> QED BY <2>1, <2>2 DEF KeptForUser
<1>8. Saves'
  BY <1>0, <1>1, LaneTypes DEF RestartSound, Saves, IInv, LaneSound, LaneTyped
<1> QED BY <1>3, <1>4, <1>5, <1>6, <1>7, <1>8 DEF RestartSound

\* The daemon forgets the context; the browser lives on, or is gone with its tabs.
LEMMA ForgettingKeeps ==
    ASSUME IInv, RestartSound, Forget, phase' \in {"down", "detached"},
           \/ UNCHANGED <<open, saved, chosen>>
           \/ saved' = {} /\ chosen' = {}
    PROVE  RestartSound'
<1>1. lane'.op = "none" /\ (\A c \in Clients : temp'[c] = None) /\ \A p \in Pages : bind'[p] = Unbound
  BY FreeTyped DEF Forget
<1>2. Bound' = {}
  BY <1>1 DEF Bound
<1>3. SavedSound' /\ OwnKeys' /\ Forgotten' /\ Attaching' /\ Saves'
  BY <1>1, <1>2 DEF RestartSound, SavedSound, OwnKeys, Forgotten, Attaching, Saves
<1>4. chosen \subseteq Pages
  BY DEF IInv, TypeOK
<1>5. ChosenKept'
  BY <1>1, <1>4 DEF RestartSound, ChosenKept, KeptForUser
<1> QED BY <1>3, <1>5 DEF RestartSound

\* Restoring asks about every open tab that is not bound.
LEMMA AllAwaited ==
    ASSUME TypeOK, NEW todo \in SUBSET Pages, NEW changed \in BOOLEAN, lane' \in Restoring(todo, changed),
           phase = "attaching", \A c \in Clients : temp[c] = None
    PROVE  /\ \/ lane'.op = "restore" \/ lane'.op = "saveRestored" \/ lane' = Free
           /\ \A q \in todo \intersect open : bind[q] = Unbound =>
                 lane'.op = "restore" /\ q \in {lane'.page} \union lane'.todo
<1> DEFINE found == {q \in todo \intersect open : ~Claimed(q) /\ q \notin Temporary}
<1>1. \A q \in todo \intersect open : bind[q] = Unbound => q \in found
  BY Names DEF Claimed, Temporary
<1>2. CASE found # {}
  <2>1. PICK p \in found : lane' = [Free EXCEPT !.op = "restore", !.page = p, !.changed = changed, !.todo = found \ {p}]
    BY <1>2 DEF Restoring
  <2>2. lane'.op = "restore" /\ lane'.page = p /\ lane'.todo = found \ {p}
    BY <2>1 DEF Free
  <2> QED BY <1>1, <2>2
<1>3. CASE found = {}
  <2>1. lane' = Free \/ lane' = [Free EXCEPT !.op = "saveRestored"]
    BY <1>3 DEF Restoring
  <2>2. lane' = Free \/ lane'.op = "saveRestored"
    BY <2>1 DEF Free
  <2> QED BY <1>1, <1>3, <2>2
<1> QED BY <1>2, <1>3

\* A tab is lent.
LEMMA LendSteady ==
    ASSUME TypeOK, NEW c, NEW p \in Pages, NEW r, NEW purpose, NEW to, bind[p] # Unbound,
           Lend(c, p, r, purpose, to)
    PROVE  (\A q \in Pages : Steady(q)) /\ (to = "user" => bind'[p].pinned)
<1> DEFINE b == [bind[p] EXCEPT !.held = IF InUse(p) THEN @ ELSE FALSE, !.idle = "no",
                                !.pinned = @ \/ to = "user"]
<1>1. bind[p] \in Bindings
  BY DEF TypeOK
<1>2. /\ b.ref = bind[p].ref /\ b.purpose = bind[p].purpose
      /\ bind[p].pinned => b.pinned
      /\ to = "user" => b.pinned
  BY <1>1 DEF Bindings
<1>3. bind' = [bind EXCEPT ![p] = b]
  BY DEF Lend
<1> HIDE DEF b
<1>4. bind'[p] = b
  BY <1>3 DEF TypeOK
<1> QED BY <1>2, <1>3, <1>4, BindingMoves

\* The file is written and the tab lent: a tab for the user is registered as one.
LEMMA SavingRestarts ==
    ASSUME IInv, TypeOK', RestartSound, phase = "serving", SaveEnds
    PROVE  RestartSound'
<1>1. PICK p : p = lane.page
  OBVIOUS
<1>2. /\ p \in Pages /\ p \in open /\ lane.ref \in Refs /\ bind[p].ref = lane.ref
      /\ bind[p].purpose = lane.purpose
  BY <1>1 DEF SaveEnds, Step, IInv, LaneSound, LaneTyped, Allocating, RestartSound, Saves
<1>3. bind[p] # Unbound /\ p \in Bound
  BY <1>2, Names DEF Unbound, Bound
<1>4. /\ saved' = Registered /\ lane' = Free /\ UNCHANGED <<phase, open, owned, temp>>
      /\ chosen' = IF lane.purpose = "user" THEN chosen \union {p} ELSE chosen
      /\ Lend(lane.client, p, lane.ref, lane.purpose, lane.purpose)
  BY <1>1 DEF SaveEnds, browserVars
<1>5. (\A q \in Pages : Steady(q)) /\ (lane.purpose = "user" => bind'[p].pinned)
  BY <1>2, <1>3, <1>4, LendSteady DEF IInv
<1>6. TypeOK /\ chosen \subseteq Pages /\ \A q \in Pages : bind'[q] = Unbound <=> bind[q] = Unbound
  BY <1>5, RefTells DEF IInv, TypeOK, Steady
<1>7. Bound' = Bound
  BY <1>6 DEF Bound
<1>8. SavedSound' /\ OwnKeys'
  <2>1. \A q \in Bound : q \in Pages
    BY DEF Bound
  <2> QED BY <1>4, <1>5, <1>7, <2>1, RegisteredSound DEF RestartSound, SavedSound, OwnKeys, Steady
<1>9. Forgotten' /\ Attaching' /\ Saves'
  BY <1>4, FreeTyped DEF Forgotten, Attaching, Saves
<1>10. ChosenKept'
  <2> SUFFICES ASSUME NEW q \in chosen' PROVE KeptForUser(q)'
    BY DEF ChosenKept
  <2>1. q \in Pages /\ bind[q] # Unbound /\ bind[q].purpose = "user" /\ (bind'[q].pinned \/ q \in owned)
    <3>1. CASE q \in chosen
      BY <1>5, <1>6, <3>1 DEF RestartSound, ChosenKept, KeptForUser, Steady
    <3>2. CASE q = p /\ lane.purpose = "user"
      BY <1>2, <1>3, <1>5, <3>2
    <3> QED BY <1>4, <3>1, <3>2
  <2>2. \E e \in saved' : e.page = q /\ e.purpose = "user"
    BY <1>4, <2>1, RegisteredSound DEF RestartSound, Bound
  <2> QED BY <1>4, <1>5, <1>6, <2>1, <2>2 DEF KeptForUser, Steady
<1> QED BY <1>8, <1>9, <1>10 DEF RestartSound

\* Allocation, which takes place while a daemon serves.
LEMMA AllocationRestarts ==
    ASSUME IInv, TypeOK', RestartSound, Allocation
    PROVE  RestartSound'
<1> USE DEF memory, browserVars
<1>0. TypeOK /\ lane \in Lanes /\ open \in SUBSET Pages /\ lane.todo \in SUBSET Pages /\ lane.purpose \in Purposes
  BY LaneTypes DEF IInv, TypeOK
<1>1. ASSUME NEW c \in Clients, NEW r \in Refs, Replace(c, r) PROVE RestartSound'
  <2>1. PICK p \in Bound \ crashed :
            /\ bind[p].ref = r /\ ~InUse(p)
            /\ LET request == [Free EXCEPT !.client = c, !.ref = r] IN
               IF p \in owned
                 THEN /\ lane' = [request EXCEPT !.op = IF open = {p} THEN "keep" ELSE "close", !.page = p]
                      /\ bind' = bind
                 ELSE /\ lane' = [request EXCEPT !.op = "create"]
                      /\ bind' = [bind EXCEPT ![p] = Unbound]
    BY <1>1 DEF Replace
  <2>2. phase = "serving" /\ UNCHANGED <<phase, chosen, saved, open, owned, temp>>
    BY <1>1 DEF Replace, Begin, Serving
  <2>3. lane'.op \in {"keep", "close", "create"}
    BY <2>1 DEF Free
  <2>4. CASE bind' = bind
    BY <2>2, <2>3, <2>4, SteadyKeeps DEF Steady
  <2>5. CASE p \notin owned /\ bind' = [bind EXCEPT ![p] = Unbound]
    <3>1. p \in Pages /\ bind'[p] = Unbound /\ \A q \in Pages : q # p => bind'[q] = bind[q]
      BY <1>0, <2>5 DEF Bound, TypeOK
    <3>2. p \notin chosen
      BY <2>1, <2>2, <2>5 DEF RestartSound, ChosenKept, KeptForUser, InUse
    <3>3. chosen \subseteq Pages
      BY <1>0 DEF TypeOK
    <3>4. ChosenKept'
      BY <2>2, <3>1, <3>2, <3>3 DEF RestartSound, ChosenKept, KeptForUser
    <3>5. OwnKeys'
      BY <3>1 DEF RestartSound, OwnKeys, Bound
    <3> QED BY <2>2, <2>3, <3>4, <3>5 DEF RestartSound, SavedSound, Forgotten, Attaching, Saves
  <2> QED BY <2>1, <2>4, <2>5
<1>2. ASSUME NEW c \in Clients, NEW r \in Refs, NEW u \in Purposes, Reuse(c, r, u) PROVE RestartSound'
  <2>1. PICK p \in Bound : Lend(c, p, r, u, u)
    BY <1>2 DEF Reuse
  <2>2. \A q \in Pages : Steady(q)
    BY <1>0, <2>1, LendSteady DEF Bound
  <2>3. lane' = Free /\ UNCHANGED <<phase, open, owned, chosen, saved>> /\ phase = "serving"
    BY <1>2 DEF Reuse, Begin, Serving
  <2> QED BY <2>2, <2>3, FreeTyped, SteadyKeeps
<1>3. ASSUME NEW c \in Clients, NEW r \in Refs, NEW u \in Purposes, Acquire(c, r, u) PROVE RestartSound'
  <2> DEFINE request == [Free EXCEPT !.client = c, !.ref = r, !.purpose = u]
  <2>1. request \in Lanes
    BY FreeTyped DEF Lanes
  <2>2. Search(request, open)
    BY <1>3 DEF Acquire
  <2> HIDE DEF request
  <2>3. lane'.op \in {"create", "probe"}
    BY <1>0, <2>1, <2>2, SearchGives
  <2>4. phase = "serving" /\ UNCHANGED <<phase, bind, open, owned, chosen, saved>>
    BY <1>3 DEF Acquire, Begin, Serving
  <2> QED BY <2>3, <2>4, SteadyKeeps DEF Steady
<1>4. CASE ProbeBusy \/ ProbeFree \/ CreateEnds \/ SaveEnds \/ TempEnds \/ AllocationFails
  <2>0. phase = "serving" /\ lane.op \in {"probe", "create", "save", "temp"}
    <3>1. lane.op \in {"probe", "create", "save", "temp"}
      BY <1>4 DEF ProbeBusy, ProbeFree, CreateEnds, SaveEnds, TempEnds, AllocationFails, Step
    <3> QED BY <1>0, <3>1, FreeTyped DEF IInv, Quiet, RestartSound, Attaching, TypeOK
  <2>1. CASE ProbeBusy
    <3>1. lane'.op \in {"create", "probe"}
      BY <1>0, <2>1, SearchGives DEF ProbeBusy
    <3>2. UNCHANGED <<phase, bind, open, owned, chosen, saved>>
      BY <2>1 DEF ProbeBusy
    <3> QED BY <2>0, <3>1, <3>2, SteadyKeeps DEF Steady
  <2>2. CASE ProbeFree \/ CreateEnds
    <3> DEFINE b == NewBinding(lane.ref, lane.purpose)
    <3>1. lane.ref \in Refs /\ \A q \in Pages : bind[q].ref # lane.ref
      BY <2>2 DEF ProbeFree, CreateEnds, Step, IInv, LaneSound, LaneTyped, Allocating
    <3>2. UNCHANGED <<phase, saved, chosen>> /\ open \subseteq open' /\ owned \subseteq owned'
      BY <2>2 DEF ProbeFree, CreateEnds, MakePage
    <3>3. CASE lane' = Free /\ bind' = bind
      BY <2>0, <3>2, <3>3, FreeTyped, SteadyKeeps DEF Steady
    <3>4. CASE ~(lane' = Free /\ bind' = bind)
      <4>1. PICK p \in Pages : /\ bind' = BindPage(p, b) /\ bind[p] = Unbound
                               /\ \/ lane' = [lane EXCEPT !.op = "save", !.todo = {}] /\ p = lane.page
                                  \/ lane' = [lane EXCEPT !.op = "save", !.page = p]
        <5>1. CASE ProbeFree
          BY <3>4, <5>1 DEF ProbeFree, Step, IInv, LaneSound, LaneTyped, Allocating
        <5>2. CASE CreateEnds
          <6>1. PICK p \in Pages : /\ MakePage(p) /\ bind' = BindPage(p, b)
                                   /\ lane' = [lane EXCEPT !.op = "save", !.page = p]
            BY <3>4, <5>2 DEF CreateEnds
          <6>2. bind[p] = Unbound
            BY <6>1 DEF MakePage, IInv, BindingsSound, Bound
          <6> QED BY <6>1, <6>2
        <5> QED BY <2>2, <5>1, <5>2
      <4>2. b \in Bindings /\ b.ref = lane.ref /\ b.purpose = lane.purpose
        BY <1>0, <3>1, BindingTyped DEF NewBinding, Unbound, RefKeys
      <4>3. lane'.page = p /\ lane'.purpose = lane.purpose
        BY <1>0, <4>1 DEF Lanes
      <4> HIDE DEF b
      <4> QED BY <2>0, <3>1, <3>2, <4>1, <4>2, <4>3, BindingKeeps
    <3> QED BY <3>3, <3>4
  <2>3. CASE SaveEnds
    BY <2>0, <2>3, SavingRestarts
  <2>4. CASE TempEnds \/ AllocationFails
    <3>1. lane' = Free /\ UNCHANGED <<phase, bind, chosen, saved>> /\ open \subseteq open' /\ owned \subseteq owned'
      BY <2>4 DEF TempEnds, AllocationFails, MakePage
    <3> QED BY <2>0, <3>1, FreeTyped, SteadyKeeps DEF Steady
  <2> QED BY <1>4, <2>1, <2>2, <2>3, <2>4
<1> QED BY <1>1, <1>2, <1>3, <1>4 DEF Allocation

\* What clients, the user and the pages do.
LEMMA OutsideRestarts ==
    ASSUME IInv, TypeOK', RestartSound, Use \/ Browsing
    PROVE  RestartSound'
<1> USE DEF memory, browserVars
<1>0. TypeOK
  BY DEF IInv
<1>1. ASSUME NEW c \in Clients, TempBegins(c) PROVE RestartSound'
  <2>1. /\ lane'.op = "temp" /\ UNCHANGED <<phase, bind, open, owned, chosen, saved>>
        /\ phase = "serving"
    BY <1>1 DEF TempBegins, Free, Begin, Serving
  <2> QED BY <2>1, SteadyKeeps DEF Steady
<1>2. ASSUME NEW c \in Clients, Release(c) PROVE RestartSound'
  <2>1. PICK p : p = lease[c].page
    OBVIOUS
  <2>2. UNCHANGED <<phase, open, owned, chosen, saved, temp, lane>>
    BY <1>2 DEF Release
  <2>3. bind' = bind \/ (bind' = [bind EXCEPT ![p].idle = "fresh"] /\ p \in Pages /\ bind[p] # Unbound)
    BY <1>2, <2>1 DEF Release, Bound
  <2>4. \A q \in Pages : Steady(q)
    <3>1. CASE bind' = [bind EXCEPT ![p].idle = "fresh"] /\ p \in Pages /\ bind[p] # Unbound
      <4>1. bind[p] \in Bindings
        BY <1>0, <3>1 DEF TypeOK
      <4> QED BY <1>0, <3>1, <4>1 DEF TypeOK, Bindings, Steady
    <3> QED BY <2>3, <3>1 DEF Steady
  <2> QED BY <2>2, <2>4, SteadyKeeps
<1>3. ASSUME NEW c \in Clients, Navigate(c) PROVE RestartSound'
  <2>1. UNCHANGED <<phase, bind, open, owned, chosen, saved, temp, lane>>
    BY <1>3 DEF Navigate
  <2> QED BY <2>1, SteadyKeeps DEF Steady
<1>4. ASSUME NEW c \in Clients, TempClose(c) PROVE RestartSound'
  <2>1. temp[c] \in Pages
    BY <1>0, <1>4, LeaseTypes DEF TempClose
  <2> QED BY <1>4, <2>1, ClosingKeeps DEF TempClose
<1>5. CASE UserOpens
  <2>1. /\ open \subseteq open' /\ lane.page \notin open' \ open
        /\ UNCHANGED <<phase, bind, owned, chosen, saved, temp, lane>>
    BY <1>5 DEF UserOpens, MakePage
  <2> QED BY <2>1, SteadyKeeps DEF Steady
<1>6. ASSUME NEW p \in Pages, UserCloses(p) PROVE RestartSound'
  BY <1>6, ClosingKeeps DEF UserCloses
<1>7. ASSUME NEW p \in Pages, PageCrashes(p) \/ Timeout(p) PROVE RestartSound'
  <2>1. UNCHANGED <<phase, open, owned, chosen, saved, temp, lane>> /\ bind[p] # Unbound
    BY <1>7 DEF PageCrashes, Timeout, Bound, Unbound
  <2>2. bind[p] \in Bindings
    BY <1>0, <2>1 DEF TypeOK
  <2>3. \A q \in Pages : Steady(q)
    BY <1>0, <1>7, <2>2 DEF PageCrashes, Timeout, TypeOK, Bindings, Steady
  <2> QED BY <2>1, <2>3, SteadyKeeps
<1> QED BY <1>1, <1>2, <1>3, <1>4, <1>5, <1>6, <1>7 DEF Use, Browsing

\* A tab restorePages asks about, and what the attaching daemon has left to ask about then.
LEMMA RestoringRestarts ==
    ASSUME IInv, TypeOK', RestartSound, Restore
    PROVE  /\ RestartSound'
           /\ phase = "attaching" /\ phase' = "serving" => \A e \in saved : Restored(e)'
<1> USE DEF browserVars
<1>1. PICK p : p = lane.page
  OBVIOUS
<1>0. /\ TypeOK /\ p \in Pages /\ p \in open /\ bind[p] = Unbound /\ lane.op = "restore" /\ p \notin lane.todo
      /\ lane.todo \in SUBSET Pages /\ lane.changed \in BOOLEAN
      /\ chosen \subseteq Pages /\ saved \in SUBSET [page : Pages, ref : RefKeys, purpose : Purposes]
  BY <1>1, LaneTypes DEF Restore, Step, IInv, LaneSound, LaneTyped, Allocating, TypeOK
<1>2. /\ UNCHANGED <<open, saved, chosen, lease, temp>>
      /\ phase' = IF phase = "attaching" /\ lane' = Free THEN "serving" ELSE phase
      /\ phase \in {"serving", "attaching"}
  BY <1>0, FreeTyped DEF Restore, IInv, Quiet, TypeOK
<1> DEFINE entries == {e \in saved : e.page = p}
           known == {[ref |-> e.ref, purpose |-> e.purpose] : e \in entries}
                    \union (IF entries = {} /\ url[p] \in Refs
                              THEN {[ref |-> url[p], purpose |-> "work"]} ELSE {})
<1>3. PICK changed \in BOOLEAN : lane' \in Restoring(lane.todo, changed)
  BY <1>0 DEF Restore
<1>4. /\ lane'.op # "save"
      /\ \A e \in entries : \E k \in known : k.ref = e.ref /\ k.purpose = e.purpose
  <2>1. lane'.op # "save"
    BY <1>0, <1>3, RestoringGives, FreeTyped
  <2>2. \A e \in entries : [ref |-> e.ref, purpose |-> e.purpose] \in known
    OBVIOUS
  <2> QED BY <2>1, <2>2
\* What becomes of the binding of p.
<1>5. /\ \A q \in Pages : q # p => bind'[q] = bind[q]
      /\ \/ UNCHANGED <<bind, owned>> /\ entries = {}
         \/ /\ owned' = owned \union {p} /\ bind'[p] # Unbound /\ bind'[p].ref \in Refs \union {p}
            /\ \A e \in entries : bind'[p].purpose = e.purpose /\ bind'[p].ref \in {e.ref, p}
  <2>1. CASE known = {} /\ UNCHANGED <<bind, owned>>
    BY <1>4, <2>1
  <2>2. CASE ~(known = {} /\ UNCHANGED <<bind, owned>>)
    <3>1. PICK k \in known :
              /\ LET taken == \E q \in Pages : bind[q].ref = k.ref IN
                 bind' = BindPage(p, [NewBinding(IF taken THEN p ELSE k.ref, k.purpose) EXCEPT !.idle = "fresh"])
              /\ owned' = owned \union {p}
      BY <1>1, <2>2 DEF Restore
    <3>2. k.ref \in Refs \union {p} /\ k.purpose \in Purposes
      BY <1>0 DEF RestartSound, SavedSound, Purposes
    <3>3. \A e \in entries : k.ref = e.ref /\ k.purpose = e.purpose
      <4> SUFFICES ASSUME NEW e \in entries PROVE k.ref = e.ref /\ k.purpose = e.purpose
        OBVIOUS
      <4>1. PICK d \in entries : k.ref = d.ref /\ k.purpose = d.purpose
        OBVIOUS
      <4> QED BY <4>1 DEF RestartSound, SavedSound
    <3> HIDE DEF known
    <3>4. PICK r \in {p, k.ref} :
             /\ bind' = BindPage(p, [NewBinding(r, k.purpose) EXCEPT !.idle = "fresh"])
             /\ r = p \/ \A q \in Pages : bind[q].ref # r
      BY <3>1
    <3>5. \A q \in Pages : bind[q].ref # p
      <4> SUFFICES ASSUME NEW q \in Pages, bind[q].ref = p PROVE FALSE
        OBVIOUS
      <4>1. q \in Bound /\ q # p
        BY <1>0, Names DEF Bound, Unbound
      <4> QED BY <1>0, <4>1, Names DEF RestartSound, OwnKeys
    <3> DEFINE b == [NewBinding(r, k.purpose) EXCEPT !.idle = "fresh"]
    <3>6. b \in Bindings /\ b.ref = r /\ b.purpose = k.purpose
      BY <1>0, <3>2, BindingTyped DEF NewBinding, Unbound, RefKeys
    <3>7. bind' = BindPage(p, b)
      BY <3>4
    <3> HIDE DEF b
    <3>8. bind'[p] = b /\ \A q \in Pages : q # p => bind'[q] = bind[q]
      <4>1. \A q \in Pages : bind[q].ref # b.ref
        BY <3>4, <3>5, <3>6
      <4> QED BY <1>0, <3>6, <3>7, <4>1, BindingAdded
    <3>9. b # Unbound /\ b.ref \in Refs \union {p}
      BY <1>0, <3>2, <3>4, <3>6, Names DEF Unbound, Bindings, RefKeys
    <3> QED BY <3>1, <3>3, <3>4, <3>6, <3>8, <3>9
  <2> QED BY <2>1, <2>2
<1> HIDE DEF known
<1>6. SavedSound'
  BY <1>2 DEF RestartSound, SavedSound
<1>7. OwnKeys'
  BY <1>5 DEF RestartSound, OwnKeys, Bound
<1>8. Forgotten' /\ Saves'
  BY <1>2, <1>4 DEF RestartSound, Forgotten, Saves
\* What is not bound yet will be asked about.
<1>9. ASSUME phase = "attaching", NEW e \in saved
      PROVE  \/ Restored(e)'
             \/ lane'.op = "restore" /\ bind'[e.page] = Unbound /\ e.page \in {lane'.page} \union lane'.todo
  <2>1. e.page \in Pages /\ e.page \in open /\ (Restored(e) \/ Awaited(e))
    BY <1>0, <1>9 DEF RestartSound, SavedSound, Attaching
  <2>2. CASE e.page = p
    <3>1. e \in entries
      BY <2>2
    <3> QED BY <1>5, <2>2, <3>1 DEF Restored
  <2>3. CASE e.page # p
    <3>1. bind'[e.page] = bind[e.page]
      BY <1>5, <2>1, <2>3
    <3>2. CASE Restored(e)
      BY <3>1, <3>2 DEF Restored
    <3>3. CASE Awaited(e)
      <4>1. e.page \in lane.todo \intersect open /\ bind[e.page] = Unbound
        BY <1>1, <2>1, <2>3, <3>3 DEF Awaited
      <4>2. \A c \in Clients : temp[c] = None
        BY <1>9 DEF RestartSound, Forgotten
      <4> QED BY <1>0, <1>3, <1>9, <3>1, <4>1, <4>2, AllAwaited
    <3> QED BY <2>1, <3>2, <3>3
  <2> QED BY <2>2, <2>3
<1>10. Attaching'
  <2> SUFFICES ASSUME phase' = "attaching"
               PROVE  /\ lane'.op \in {"restore", "saveRestored"} /\ Bound' \subseteq owned'
                      /\ \A e \in saved : Restored(e)' \/ Awaited(e)'
    BY <1>2 DEF Attaching
  <2>1. phase = "attaching" /\ lane' # Free
    BY <1>2
  <2>2. lane'.op \in {"restore", "saveRestored"}
    <3>1. \A c \in Clients : temp[c] = None
      BY <2>1 DEF RestartSound, Forgotten
    <3> QED BY <1>0, <1>3, <2>1, <3>1, AllAwaited
  <2>3. Bound' \subseteq owned'
    BY <1>5, <2>1 DEF RestartSound, Attaching, Bound
  <2> QED BY <1>9, <2>1, <2>2, <2>3 DEF Awaited
<1>11. phase = "attaching" /\ phase' = "serving" => \A e \in saved : Restored(e)'
  BY <1>2, <1>9, FreeTyped
<1>12. ChosenKept'
  <2> SUFFICES ASSUME NEW q \in chosen PROVE KeptForUser(q)'
    BY <1>2 DEF ChosenKept
  <2>1. q \in Pages /\ KeptForUser(q)
    BY <1>0 DEF RestartSound, ChosenKept
  <2>2. PICK e \in saved : e.page = q /\ e.purpose = "user"
    BY <2>1 DEF KeptForUser
  <2>3. CASE phase = "serving"
    <3>1. q # p /\ bind'[q] = bind[q] /\ (q \in owned => q \in owned')
      BY <1>0, <1>5, <2>1, <2>3 DEF KeptForUser
    <3> QED BY <1>2, <2>1, <2>3, <3>1 DEF KeptForUser
  <2>4. CASE phase = "attaching"
    <3>1. bind'[q] # Unbound => bind'[q].purpose = "user" /\ q \in owned'
      <4>1. CASE q = p
        BY <1>0, <1>5, <2>2, <4>1
      <4>2. CASE q # p
        BY <1>5, <2>1, <2>4, <4>2 DEF KeptForUser, RestartSound, Attaching, Bound
      <4> QED BY <4>1, <4>2
    <3>2. phase' = "serving" => bind'[q] # Unbound
      BY <1>11, <2>2, <2>4 DEF Restored
    <3> QED BY <1>2, <2>2, <3>1, <3>2 DEF KeptForUser
  <2> QED BY <1>2, <2>3, <2>4
<1> QED BY <1>6, <1>7, <1>8, <1>10, <1>11, <1>12 DEF RestartSound

\* The attachment is over when the file is written again, from what was restored.
LEMMA AttachedRestarts ==
    ASSUME IInv, TypeOK', RestartSound, phase = "attaching", SaveRestored
    PROVE  RestartSound' /\ phase' = "serving" /\ \A e \in saved : Restored(e)'
<1>1. /\ saved' = Registered /\ phase' = "serving" /\ lane' = Free
      /\ UNCHANGED <<open, owned, bind, chosen, temp>> /\ lane.op = "saveRestored"
  BY DEF SaveRestored, Step, browserVars, memory
<1>2. /\ Bound \subseteq owned /\ chosen \subseteq Pages
      /\ \A e \in saved : Restored(e)
  BY <1>1 DEF RestartSound, Attaching, Awaited, IInv, TypeOK
<1>3. SavedSound' /\ OwnKeys'
  BY <1>1, RegisteredSound DEF RestartSound, SavedSound, OwnKeys, Bound
<1>4. ChosenKept'
  <2> SUFFICES ASSUME NEW p \in chosen PROVE KeptForUser(p)'
    BY <1>1 DEF ChosenKept
  <2>1. PICK e \in saved : e.page = p /\ e.purpose = "user"
    BY DEF RestartSound, ChosenKept, KeptForUser
  <2>2. p \in Bound /\ bind[p].purpose = "user"
    BY <1>2, <2>1 DEF Restored, Bound
  <2>3. \E d \in saved' : d.page = p /\ d.purpose = "user"
    BY <1>1, <2>2, RegisteredSound DEF RestartSound
  <2> QED BY <1>1, <1>2, <2>2, <2>3 DEF KeptForUser, Bound
<1>5. Forgotten' /\ Attaching' /\ Saves'
  BY <1>1, FreeTyped DEF Forgotten, Attaching, Saves
<1>6. \A e \in saved : Restored(e)'
  BY <1>1, <1>2 DEF Restored
<1> QED BY <1>1, <1>3, <1>4, <1>5, <1>6 DEF RestartSound

\* The sweep.
LEMMA SweepRestarts ==
    ASSUME IInv, TypeOK', RestartSound, Sweep
    PROVE  RestartSound'
<1> USE DEF memory, browserVars
<1>0. TypeOK /\ open \in SUBSET Pages /\ lane.todo \in SUBSET Pages /\ Bound \in SUBSET Pages
      /\ (lane.op \notin {"none", "restore", "saveRestored"} => phase = "serving")
  BY LaneTypes, FreeTyped DEF IInv, Quiet, RestartSound, Attaching, TypeOK, Bound
<1>1. CASE SweepBegins
  <2>1. /\ lane' \in Restoring(open, FALSE) /\ phase = "serving"
        /\ UNCHANGED <<phase, bind, open, owned, chosen, saved>>
    BY <1>1 DEF SweepBegins, Begin, Serving
  <2>2. lane'.op # "save"
    BY <1>0, <2>1, RestoringGives, FreeTyped
  <2> QED BY <2>1, <2>2, SteadyKeeps DEF Steady
<1>2. CASE Restore
  BY <1>2, RestoringRestarts
<1>3. CASE RestoreFails
  <2>1. CASE phase = "attaching"
    BY <1>3, <2>1, ForgettingKeeps DEF RestoreFails
  <2>2. CASE phase # "attaching"
    <3>1. lane.op \in {"restore", "saveRestored"} /\ phase = "serving"
      BY <1>3, <2>2, FreeTyped DEF RestoreFails, IInv, Quiet, TypeOK
    <3>2. lane' = Free /\ UNCHANGED <<phase, bind, open, owned, chosen, saved>>
      BY <1>3, <2>2 DEF RestoreFails
    <3> QED BY <3>1, <3>2, FreeTyped, SteadyKeeps DEF Steady
  <2> QED BY <2>1, <2>2
<1>4. CASE SaveRestored
  <2>1. CASE phase = "attaching"
    BY <1>4, <2>1, AttachedRestarts
  <2>2. CASE phase # "attaching"
    <3>1. phase = "serving"
      BY <1>4, <2>2, FreeTyped DEF SaveRestored, Step, IInv, Quiet, TypeOK
    <3>2. /\ saved' = Registered /\ lane' \in Collecting(Bound)
          /\ UNCHANGED <<phase, bind, open, owned, chosen>>
      BY <1>4, <2>2 DEF SaveRestored
    <3>3. lane'.op # "save"
      BY <1>0, <3>2, CollectingGives, FreeTyped
    <3> QED BY <3>1, <3>2, <3>3, SteadyKeeps DEF Steady
  <2> QED BY <2>1, <2>2
<1>5. ASSUME NEW touched \in BOOLEAN, Observe(touched) PROVE RestartSound'
  <2>1. PICK p : p = lane.page
    OBVIOUS
  <2>2. /\ lane.op \in {"observe", "recheck"} /\ phase = "serving" /\ p \in Pages
        /\ p \in open => bind[p] # Unbound
        /\ UNCHANGED <<phase, open, owned, chosen, saved>>
    BY <1>0, <1>5, <2>1 DEF Observe, IInv, LaneSound, LaneTyped, Watching
  <2>3. lane'.op # "save"
    <3>1. CASE lane' \in Collecting(lane.todo)
      BY <1>0, <3>1, CollectingGives, FreeTyped
    <3>2. CASE lane' \notin Collecting(lane.todo)
      <4>1. lane' \in {[lane EXCEPT !.op = "recheck"], [lane EXCEPT !.op = "keep"], [lane EXCEPT !.op = "close"]}
        BY <1>5, <3>2 DEF Observe
      <4> QED BY <1>0, <4>1 DEF TypeOK, Lanes
    <3> QED BY <3>1, <3>2
  <2>4. \A q \in Pages : Steady(q)
    <3>1. CASE p \in open
      <4>1. bind' = [bind EXCEPT ![p] = Observed(p, touched)]
        BY <1>5, <2>1, <3>1 DEF Observe
      <4>2. bind[p] \in Bindings
        BY <1>0, <2>2, <3>1 DEF TypeOK
      <4>3. /\ Observed(p, touched).ref = bind[p].ref /\ Observed(p, touched).purpose = bind[p].purpose
            /\ Observed(p, touched).pinned = bind[p].pinned
        BY <4>2 DEF Observed, Bindings
      <4> QED BY <1>0, <2>2, <4>1, <4>3, BindingMoves
    <3>2. CASE p \notin open
      BY <1>5, <2>1, <3>2 DEF Observe, Steady
    <3> QED BY <3>1, <3>2
  <2> QED BY <2>2, <2>3, <2>4, SteadyKeeps
<1>6. CASE KeepEnds
  <2>1. /\ lane.op = "keep" /\ UNCHANGED <<phase, bind, chosen, saved>> /\ lane' = [lane EXCEPT !.op = "close"]
        /\ open \subseteq open' /\ owned \subseteq owned'
    BY <1>6 DEF KeepEnds, Step, MakePage
  <2>2. lane'.op = "close"
    BY <1>0, <2>1 DEF TypeOK, Lanes
  <2> QED BY <1>0, <2>1, <2>2, SteadyKeeps DEF Steady
<1>7. CASE CloseEnds
  <2>1. /\ lane.op = "close" /\ phase' = phase
        /\ lane' = [lane EXCEPT !.op = IF lane.client = None THEN "saveCollected" ELSE "create", !.page = None]
        /\ IF lane.page \in open THEN ClosePage(lane.page) ELSE UNCHANGED <<browserVars, saved, memory, chosen>>
    BY <1>7 DEF CloseEnds, Step
  <2>2. lane'.op # "save" /\ lane.page \in Pages
    BY <1>0, <2>1 DEF TypeOK, Lanes, IInv, LaneSound, LaneTyped
  <2>3. CASE lane.page \in open
    BY <1>0, <2>1, <2>2, <2>3, ClosingKeeps
  <2>4. CASE lane.page \notin open
    BY <1>0, <2>1, <2>2, <2>4, SteadyKeeps DEF Steady
  <2> QED BY <2>3, <2>4
<1>8. CASE CloseFails
  <2>1. PICK p : p = lane.page
    OBVIOUS
  <2>2. /\ lane.op \in {"keep", "close"} /\ UNCHANGED <<phase, open, owned, chosen, saved>> /\ p \in Pages
    BY <1>8, <2>1 DEF CloseFails, Reclaiming, IInv, LaneSound, LaneTyped
  <2>3. \A q \in Pages : Steady(q)
    <3>1. CASE bind[p] # Unbound
      <4>1. bind[p] \in Bindings /\ bind' = [bind EXCEPT ![p].held = TRUE, ![p].idle = "no"]
        BY <1>0, <1>8, <2>1, <2>2, <3>1 DEF CloseFails, TypeOK
      <4> QED BY <1>0, <4>1 DEF TypeOK, Bindings, Steady
    <3>2. CASE bind[p] = Unbound
      BY <1>8, <2>1, <3>2 DEF CloseFails, Steady
    <3> QED BY <3>1, <3>2
  <2>4. lane'.op # "save"
    BY <1>0, <1>8, CollectingGives, FreeTyped DEF CloseFails
  <2> QED BY <1>0, <2>2, <2>3, <2>4, SteadyKeeps
<1>9. CASE SaveCollected
  <2>1. /\ lane.op = "saveCollected" /\ saved' = Registered /\ lane' \in Collecting(lane.todo)
        /\ UNCHANGED <<phase, bind, open, owned, chosen>>
    BY <1>9 DEF SaveCollected, Step
  <2>2. lane'.op # "save"
    BY <1>0, <2>1, CollectingGives, FreeTyped
  <2> QED BY <1>0, <2>1, <2>2, SteadyKeeps DEF Steady
<1> QED BY <1>1, <1>2, <1>3, <1>4, <1>5, <1>6, <1>7, <1>8, <1>9 DEF Sweep, Answers, Closing

\* The life of the context.
LEMMA LifecycleRestarts ==
    ASSUME IInv, TypeOK', RestartSound, Lifecycle
    PROVE  RestartSound'
<1> USE DEF memory, browserVars
<1>1. CASE CloseBegins \/ BrowserCloseFails \/ DetachBegins
  <2>1. UNCHANGED <<phase, bind, open, owned, chosen, saved, temp, lane>>
    BY <1>1 DEF CloseBegins, BrowserCloseFails, DetachBegins
  <2> QED BY <2>1, SteadyKeeps DEF Steady
<1>2. CASE BrowserEnds \/ DetachEnds \/ Kill
  BY <1>2, ForgettingKeeps DEF BrowserEnds, DetachEnds, Kill
<1>3. CASE Attach
  <2>1. /\ UNCHANGED <<bind, open, owned, chosen, saved, temp>> /\ phase = "detached" /\ Bound = {}
        /\ \A c \in Clients : temp[c] = None
    BY <1>3 DEF Attach, RestartSound, Forgotten
  <2>2. \A p \in Pages : bind[p] = Unbound
    BY <2>1 DEF Bound
  <2>3. CASE open = {}
    <3>1. phase' = "serving" /\ lane' = Free /\ saved = {} /\ chosen = {}
      BY <1>3, <2>3 DEF Attach, RestartSound, SavedSound, ChosenKept, KeptForUser
    <3> QED BY <2>1, <3>1, FreeTyped
        DEF RestartSound, SavedSound, OwnKeys, Forgotten, Attaching, ChosenKept, Saves, Bound
  <2>4. CASE open # {}
    <3>1. phase' = "attaching" /\ lane' \in Restoring(open, FALSE)
      BY <1>3, <2>4 DEF Attach
    <3>2. lane'.op = "restore" /\ \A q \in open : q \in {lane'.page} \union lane'.todo
      <4> DEFINE found == {q \in open \intersect open : ~Claimed(q) /\ q \notin Temporary}
      <4>1. found = open
        BY <2>1, <2>2, Names DEF Claimed, Temporary, IInv, TypeOK
      <4>2. PICK p \in found :
               lane' = [Free EXCEPT !.op = "restore", !.page = p, !.changed = FALSE, !.todo = found \ {p}]
        BY <2>4, <3>1, <4>1 DEF Restoring
      <4>3. lane'.op = "restore" /\ lane'.page = p /\ lane'.todo = found \ {p}
        BY <4>2 DEF Free
      <4> QED BY <4>1, <4>3
    <3>3. Attaching'
      <4>1. \A e \in saved : e.page \in open /\ e.page \in Pages
        BY DEF RestartSound, SavedSound, IInv, TypeOK
      <4> QED BY <2>1, <2>2, <3>1, <3>2, <4>1 DEF Attaching, Awaited, Bound
    <3>4. ChosenKept'
      BY <2>1, <2>2, <3>1 DEF RestartSound, ChosenKept, KeptForUser, IInv, TypeOK
    <3> QED BY <2>1, <3>1, <3>2, <3>3, <3>4
        DEF RestartSound, SavedSound, OwnKeys, Forgotten, Saves, Bound
  <2> QED BY <2>3, <2>4
<1>4. CASE Launch
  <2>1. /\ phase = "down" /\ phase' = "serving" /\ UNCHANGED <<bind, owned, chosen, saved, temp, lane>>
        /\ open = {} /\ lane = Free
    BY <1>4 DEF Launch, IInv, Quiet
  <2>2. saved = {} /\ chosen = {}
    BY <2>1 DEF RestartSound, SavedSound, ChosenKept, KeptForUser
  <2> QED BY <2>1, <2>2, FreeTyped
      DEF RestartSound, SavedSound, OwnKeys, Forgotten, Attaching, ChosenKept, Saves, Bound
<1>5. CASE OpenProfile
  <2>1. /\ open \subseteq open' /\ owned \subseteq owned' /\ lane.page \notin open' \ open
        /\ UNCHANGED <<phase, bind, chosen, saved, temp, lane>>
    BY <1>5 DEF OpenProfile, MakePage
  <2> QED BY <2>1, SteadyKeeps DEF Steady
<1> QED BY <1>1, <1>2, <1>3, <1>4, <1>5 DEF Lifecycle

LEMMA RestartInductive ==
    ASSUME IInv, RestartSound, [Next]_vars
    PROVE  RestartSound'
<1>1. TypeOK'
  BY Inductive DEF IInv
<1>2. CASE Next
  BY <1>1, <1>2, AllocationRestarts, OutsideRestarts, SweepRestarts, LifecycleRestarts DEF Next
<1>3. CASE UNCHANGED vars
  BY <1>1, <1>3, SteadyKeeps DEF vars, browserVars, memory, Steady
<1> QED BY <1>2, <1>3

LEMMA RestartInitially == Init => RestartSound
  BY FreeTyped DEF Init, RestartSound, SavedSound, OwnKeys, Forgotten, Attaching, ChosenKept, Saves, Bound

(***************************************************************************)
(* TabsSurviveRestart: whatever crashes, closes or detaches, a daemon that *)
(* attaches ends by binding every open tab the ownership file names, for   *)
(* its purpose and under its reference or its own key; and no tab that was *)
(* registered as the user's ever becomes a work tab.                       *)
(***************************************************************************)
THEOREM RestartsKeepTabs == Spec => TabsSurviveRestart
<1> DEFINE Survive ==
              /\ phase = "attaching" /\ phase' = "serving" =>
                    \A e \in saved : /\ bind'[e.page].purpose = e.purpose
                                     /\ bind'[e.page].ref \in {e.ref, e.page}
              /\ \A p \in chosen' : bind'[p] # Unbound => bind'[p].purpose = "user"
<1>1. ASSUME IInv, RestartSound, [Next]_vars
      PROVE  [Survive]_vars
  <2>1. \A p \in chosen' : bind'[p] # Unbound => bind'[p].purpose = "user"
    BY <1>1, RestartInductive DEF RestartSound, ChosenKept, KeptForUser
  <2>2. ASSUME Next, phase = "attaching", phase' = "serving"
        PROVE  \A e \in saved : Restored(e)'
    <3>1. TypeOK'
      BY <1>1, Inductive DEF IInv
    <3>2. Restore \/ SaveRestored
      <4>1. lane.op \in {"restore", "saveRestored"}
        BY <1>1, <2>2 DEF RestartSound, Attaching
      <4> QED BY <2>2, <4>1
          DEF Next, Allocation, Use, Browsing, Sweep, Answers, Closing, Lifecycle, Replace, Reuse, Acquire,
              ProbeBusy, ProbeFree, CreateEnds, SaveEnds, TempEnds, AllocationFails, TempBegins, Release,
              Navigate, TempClose, UserOpens, UserCloses, PageCrashes, Timeout, SweepBegins, RestoreFails,
              Observe, KeepEnds, CloseEnds, CloseFails, SaveCollected, CloseBegins, BrowserEnds,
              BrowserCloseFails, DetachBegins, DetachEnds, Kill, Attach, Launch, OpenProfile
    <3> QED BY <1>1, <2>2, <3>1, <3>2, RestoringRestarts, AttachedRestarts
  <2>3. CASE UNCHANGED vars
    BY <2>3
  <2>4. CASE Next
    BY <2>1, <2>2, <2>4 DEF Restored
  <2> QED BY <1>1, <2>3, <2>4
<1>2. IInv /\ RestartSound /\ [Next]_vars => IInv' /\ RestartSound'
  BY Inductive, RestartInductive
<1> QED BY <1>1, <1>2, Initially, RestartInitially, PTL DEF Spec, TabsSurviveRestart
=============================================================================
