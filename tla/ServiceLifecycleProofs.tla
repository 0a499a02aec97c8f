----------------------- MODULE ServiceLifecycleProofs -----------------------
(* The life cycle of a service's load balancer: ServiceController keeps its *)
(* invariant LifecycleInv and implements ServiceELB.                        *)
EXTENDS ServiceControllerProofs

-----------------------------------------------------------------------------
(* Steps that leave the ELBs, finalizers and addresses alone.              *)

Untouched == UNCHANGED <<lbs, fin, ingress>> /\ nextId' \in Nat /\ nextId' >= nextId

\* What a request of the sync worker has to establish.
MayGoto(s, c, v) ==
    /\ c \in EnsurePCs => fin[s]
    /\ c \in {"lbPost", "eipCleanup", "deleted"} => LBsNamed(NameOf[s]) = {}
    /\ c \in HoldingPCs => \E l \in lbs : l.name = NameOf[s] /\ l.id = v.lb

\* A step that leaves the ELBs, finalizers and addresses alone keeps the parts of
\* LifecycleInv that speak only of them.
LEMMA UntouchedKeeps ==
    ASSUME TypeOK, LifecycleInv, Untouched
    PROVE  UniqueIds' /\ NoDuplicateELB' /\ NoLeakedELB' /\ PublishedIsProtected'
<1> USE DEF LifecycleInv, Untouched
<1>1. UniqueIds' BY DEF UniqueIds, TypeOK, CloudTypeOK
<1>2. NoDuplicateELB' BY DEF NoDuplicateELB
<1>3. NoLeakedELB' BY DEF NoLeakedELB
<1>4. PublishedIsProtected' BY DEF PublishedIsProtected
<1> QED BY <1>1, <1>2, <1>3, <1>4

\* What another service's worker knows survives such a step.
LEMMA KnowsKept ==
    ASSUME LifecycleInv, Untouched, NEW t \in Services,
           pc'[<<t, "sync">>] = pc[<<t, "sync">>],
           loc'[<<t, "sync">>] = loc[<<t, "sync">>]
    PROVE  WorkerKnows(t)'
BY DEF LifecycleInv, Untouched, WorkerKnows, LBsNamed

\* Only the goroutine p moves.
OnlyMoves(p) == \A q \in Procs : q # p => pc'[q] = pc[q] /\ loc'[q] = loc[q]

\* Goto sets the goroutine's place and locals and moves no other.
LEMMA GotoMoves ==
    ASSUME WorkerTypeOK, NEW p \in Procs, NEW c, NEW v, Goto(p, c, v)
    PROVE  pc'[p] = c /\ loc'[p] = v /\ OnlyMoves(p)
BY DEF Goto, WorkerTypeOK, OnlyMoves

\* A sync worker may go where its service's finalizer and its ELB allow.
LEMMA SyncMove ==
    ASSUME TypeOK, LifecycleInv, Untouched, NEW s \in Services,
           OnlyMoves(<<s, "sync">>),
           MayGoto(s, pc'[<<s, "sync">>], loc'[<<s, "sync">>])
    PROVE  LifecycleInv'
<1>1. WorkerKnows(s)' BY DEF MayGoto, WorkerKnows, LBsNamed, Untouched
<1>2. \A t \in Services : t # s => WorkerKnows(t)'
  <2> SUFFICES ASSUME NEW t \in Services, t # s PROVE WorkerKnows(t)' OBVIOUS
  <2>1. <<t, "sync">> # <<s, "sync">> /\ <<t, "sync">> \in Procs BY DEF Procs, Workers
  <2> QED BY <2>1, KnowsKept DEF OnlyMoves
<1> QED BY <1>1, <1>2, UntouchedKeeps DEF LifecycleInv

\* The node worker may go anywhere: LifecycleInv says nothing of its place.
LEMMA NodeMove ==
    ASSUME TypeOK, LifecycleInv, Untouched, NEW s \in Services,
           OnlyMoves(<<s, "node">>)
    PROVE  LifecycleInv'
<1>1. \A t \in Services : WorkerKnows(t)'
  <2> SUFFICES ASSUME NEW t \in Services PROVE WorkerKnows(t)' OBVIOUS
  <2>1. <<t, "sync">> # <<s, "node">> /\ <<t, "sync">> \in Procs BY DEF Procs, Workers
  <2> QED BY <2>1, KnowsKept DEF OnlyMoves
<1> QED BY <1>1, UntouchedKeeps DEF LifecycleInv

\* A step in which no goroutine moves and no ELB changes keeps LifecycleInv.
LEMMA WorkersIdle ==
    ASSUME TypeOK, LifecycleInv, Untouched, UNCHANGED procVars
    PROVE  LifecycleInv'
<1>1. \A t \in Services : WorkerKnows(t)' BY KnowsKept DEF procVars
<1> QED BY <1>1, UntouchedKeeps DEF LifecycleInv

-----------------------------------------------------------------------------
(* ensureListeners works on the ELB it was given.                          *)

\* One request of ensureListeners: it fails, ends, or goes on with the same ELB.
ListenersStep(p) ==
    /\ UNCHANGED lbs /\ nextId' \in Nat /\ nextId' >= nextId
    /\ pc[p] \in EnsurePCs \cap HoldingPCs
    /\ OnlyMoves(p)
    /\ \/ pc'[p] = "failed"
       \/ pc'[p] = "updated" /\ p[2] # "sync"
       \/ pc'[p] \in EnsurePCs \cap HoldingPCs /\ loc'[p].lb = loc[p].lb

\* Every request of ensureListeners is a ListenersStep of the goroutine making it.
LEMMA ensureListenersMoves ==
    ASSUME TypeOK, NEW p \in Procs, ensureListeners(p)
    PROVE  ListenersStep(p)
<1>0. loc[p] \in LocType /\ WorkerTypeOK /\ nextId \in Nat
      BY DEF TypeOK, WorkerTypeOK, CloudTypeOK
<1>1. {"poolPost", "memList", "memAdd", "memDel", "lisGet", "lisPost", "hm", "poolGet",
       "sg"} \subseteq EnsurePCs \cap HoldingPCs
      BY DEF EnsurePCs, HoldingPCs
<1>2. \A a, d : NextMember(a, d) \in EnsurePCs \cap HoldingPCs BY <1>1 DEF NextMember
<1>3. ASSUME UNCHANGED cloudVars PROVE UNCHANGED lbs /\ nextId' \in Nat /\ nextId' >= nextId
      BY <1>0, <1>3 DEF cloudVars
<1>4. CASE PoolGet(p)
  <2>1. PICK port \in loc[p].todo : \E r \in Outcomes : PoolGet(p)!2!(port, r)
        BY <1>4 DEF PoolGet
  <2> DEFINE u == [loc[p] EXCEPT !.cur = port]
             v == [u EXCEPT !.todo = loc[p].todo \ {port}]
  <2>2. u \in LocType /\ u.lb = loc[p].lb
    <3>1. port \in ServicePorts BY <1>0, LocGet
    <3> QED BY <1>0, <3>1 DEF LocType
  <2>3. v \in LocType /\ v.lb = loc[p].lb
    <3>1. loc[p].todo \ {port} \in SUBSET ServicePorts BY <1>0, LocGet
    <3> HIDE DEF u
    <3> QED BY <2>2, <3>1 DEF LocType
  <2>4. \/ Goto(p, "poolPost", v)
        \/ \E q : Goto(p, "memList", [v EXCEPT !.pool = q.id])
        BY <2>1
  <2> HIDE DEF u, v
  <2>5. OnlyMoves(p) /\ pc'[p] \in {"memList", "poolPost"} /\ loc'[p].lb = loc[p].lb
    <3>1. CASE Goto(p, "poolPost", v) BY <1>0, <2>3, <3>1, GotoMoves
    <3>2. ASSUME NEW q, Goto(p, "memList", [v EXCEPT !.pool = q.id])
          PROVE  OnlyMoves(p) /\ pc'[p] = "memList" /\ loc'[p].lb = loc[p].lb
      <4>1. [v EXCEPT !.pool = q.id].lb = v.lb BY <2>3 DEF LocType
      <4>2. OnlyMoves(p) /\ pc'[p] = "memList" /\ loc'[p] = [v EXCEPT !.pool = q.id]
            BY <1>0, <3>2, GotoMoves
      <4> QED BY <2>3, <4>1, <4>2
    <3> QED BY <2>4, <3>1, <3>2
  <2> QED BY <1>1, <1>3, <1>4, <2>5 DEF PoolGet, ListenersStep
<1>5. CASE PoolPost(p)
  <2>1. \/ Goto(p, "memList", [loc[p] EXCEPT !.pool = nextId])
        \/ Goto(p, "failed", NoLoc)
        BY <1>5 DEF PoolPost, Fail
  <2>2. \/ OnlyMoves(p) /\ pc'[p] = "memList" /\ loc'[p].lb = loc[p].lb
        \/ OnlyMoves(p) /\ pc'[p] = "failed"
        BY <1>0, <2>1, GotoMoves DEF LocType
  <2>3. UNCHANGED lbs /\ nextId' \in Nat /\ nextId' >= nextId
        BY <1>0, <1>3, <1>5 DEF PoolPost, CloudCreatePool
  <2> QED BY <1>1, <1>5, <2>2, <2>3 DEF PoolPost, ListenersStep
<1>6. CASE MemList(p)
  <2>1. \/ \E c \in EnsurePCs \cap HoldingPCs : \E a, d :
             Goto(p, c, [loc[p] EXCEPT !.adds = a, !.dels = d])
        \/ Goto(p, "failed", NoLoc)
        BY <1>2, <1>6 DEF MemList, Fail
  <2>2. \A a, d : [loc[p] EXCEPT !.adds = a, !.dels = d].lb = loc[p].lb
        BY <1>0 DEF LocType
  <2>3. \A c, w : Goto(p, c, w) => OnlyMoves(p) /\ pc'[p] = c /\ loc'[p] = w
        BY <1>0, GotoMoves
  <2>4. \/ OnlyMoves(p) /\ pc'[p] \in EnsurePCs \cap HoldingPCs /\ loc'[p].lb = loc[p].lb
        \/ OnlyMoves(p) /\ pc'[p] = "failed"
    <3>1. CASE Goto(p, "failed", NoLoc) BY <2>3, <3>1
    <3>2. ASSUME NEW c \in EnsurePCs \cap HoldingPCs, NEW a, NEW d,
                 Goto(p, c, [loc[p] EXCEPT !.adds = a, !.dels = d])
          PROVE  OnlyMoves(p) /\ pc'[p] = c /\ loc'[p].lb = loc[p].lb
      <4>1. loc'[p] = [loc[p] EXCEPT !.adds = a, !.dels = d] BY <2>3, <3>2
      <4> QED BY <2>2, <2>3, <3>2, <4>1
    <3> QED BY <2>1, <3>1, <3>2
  <2> QED BY <1>1, <1>3, <1>6, <2>4 DEF MemList, ListenersStep
<1>7. CASE MemAdd(p)
  <2>1. \E a, d, x : Goto(p, NextMember(a, d), [loc[p] EXCEPT !.adds = x])
        BY <1>7 DEF MemAdd
  <2>2. OnlyMoves(p) /\ pc'[p] \in EnsurePCs \cap HoldingPCs /\ loc'[p].lb = loc[p].lb
        BY <1>0, <1>2, <2>1, GotoMoves DEF LocType
  <2>3. UNCHANGED lbs /\ nextId' \in Nat /\ nextId' >= nextId
        BY <1>0, <1>3, <1>7 DEF MemAdd, CloudSetMembers
  <2> QED BY <1>1, <1>7, <2>2, <2>3 DEF MemAdd, ListenersStep
<1>8. CASE MemDel(p)
  <2>1. \E a, d, x : Goto(p, NextMember(a, d), [loc[p] EXCEPT !.dels = x])
        BY <1>8 DEF MemDel
  <2>2. OnlyMoves(p) /\ pc'[p] \in EnsurePCs \cap HoldingPCs /\ loc'[p].lb = loc[p].lb
        BY <1>0, <1>2, <2>1, GotoMoves DEF LocType
  <2>3. UNCHANGED lbs /\ nextId' \in Nat /\ nextId' >= nextId
        BY <1>0, <1>3, <1>8 DEF MemDel, CloudSetMembers
  <2> QED BY <1>1, <1>8, <2>2, <2>3 DEF MemDel, ListenersStep
<1>9. CASE LisGet(p)
  <2>1. OnlyMoves(p) /\ pc'[p] \in {"hm", "lisPost"} /\ loc'[p].lb = loc[p].lb
        BY <1>0, <1>9, GotoMoves DEF LisGet
  <2> QED BY <1>1, <1>3, <1>9, <2>1 DEF LisGet, ListenersStep
<1>10. CASE LisPost(p)
  <2>1. Goto(p, "hm", loc[p]) \/ Goto(p, "failed", NoLoc) BY <1>10 DEF LisPost, Fail
  <2>2. \/ OnlyMoves(p) /\ pc'[p] = "hm" /\ loc'[p].lb = loc[p].lb
        \/ OnlyMoves(p) /\ pc'[p] = "failed"
        BY <1>0, <2>1, GotoMoves
  <2>3. UNCHANGED lbs /\ nextId' \in Nat /\ nextId' >= nextId
        BY <1>0, <1>3, <1>10 DEF LisPost, CloudCreateListener
  <2> QED BY <1>1, <1>10, <2>2, <2>3 DEF LisPost, ListenersStep
<1>11. CASE EnsureHealthMonitor(p)
  <2>1. \/ NextPort(p[2], loc[p].todo) \in {"poolGet", "sg"}
        \/ NextPort(p[2], loc[p].todo) = "updated" /\ p[2] # "sync"
        BY DEF NextPort
  <2>2. /\ OnlyMoves(p) /\ pc'[p] = NextPort(p[2], loc[p].todo)
        /\ loc'[p].lb = loc[p].lb
    <3>1. /\ OnlyMoves(p) /\ pc'[p] = NextPort(p[2], loc[p].todo)
          /\ loc'[p] = [loc[p] EXCEPT !.cur = NoPort, !.pool = 0]
          BY <1>0, <1>11, GotoMoves DEF EnsureHealthMonitor
    <3>2. [loc[p] EXCEPT !.cur = NoPort, !.pool = 0].lb = loc[p].lb BY <1>0 DEF LocType
    <3> QED BY <3>1, <3>2
  <2>3. UNCHANGED lbs /\ nextId' \in Nat /\ nextId' >= nextId
        BY <1>0, <1>11 DEF EnsureHealthMonitor
  <2>4. pc[p] \in EnsurePCs \cap HoldingPCs BY <1>1, <1>11 DEF EnsureHealthMonitor
  <2> QED BY <1>1, <2>1, <2>2, <2>3, <2>4 DEF ListenersStep
<1> QED BY <1>4, <1>5, <1>6, <1>7, <1>8, <1>9, <1>10, <1>11 DEF ensureListeners

\* ensureListeners, called by EnsureLoadBalancer, keeps LifecycleInv.
LEMMA SyncListenersStep ==
    ASSUME TypeOK, LifecycleInv, UNCHANGED <<fin, ingress>>,
           NEW s \in Services, ensureListeners(<<s, "sync">>)
    PROVE  LifecycleInv' /\ Untouched
<1> DEFINE p == <<s, "sync">>
<1>1. p \in Procs BY DEF Procs, Workers
<1>2. ListenersStep(p) BY <1>1, ensureListenersMoves
<1>3. Untouched BY <1>2 DEF ListenersStep, Untouched
<1>4. fin[s] /\ \E l \in lbs : l.name = NameOf[s] /\ l.id = loc[p].lb
      BY <1>2 DEF ListenersStep, LifecycleInv, WorkerKnows
<1>5. MayGoto(s, pc'[p], loc'[p])
  <2>1. pc'[p] # "failed" =>
           pc'[p] \in EnsurePCs \cap HoldingPCs /\ loc'[p].lb = loc[p].lb
        BY <1>2 DEF ListenersStep
  <2> QED BY <1>4, <2>1 DEF MayGoto, EnsurePCs, HoldingPCs
<1> QED BY <1>2, <1>3, <1>5, SyncMove DEF ListenersStep

\* ensureListeners, called by UpdateLoadBalancer, keeps LifecycleInv.
LEMMA NodeListenersStep ==
    ASSUME TypeOK, LifecycleInv, UNCHANGED <<fin, ingress>>,
           NEW s \in Services, ensureListeners(<<s, "node">>)
    PROVE  LifecycleInv' /\ Untouched
<1>1. <<s, "node">> \in Procs BY DEF Procs, Workers
<1>2. ListenersStep(<<s, "node">>) BY <1>1, ensureListenersMoves
<1>3. Untouched BY <1>2 DEF ListenersStep, Untouched
<1> QED BY <1>2, <1>3, NodeMove DEF ListenersStep

-----------------------------------------------------------------------------
(* The other requests of the workers that leave the ELBs alone.            *)

\* A call without effect in the cloud leaves the ELBs alone.
LEMMA CloudStutterUntouched ==
    ASSUME TypeOK, UNCHANGED cloudVars, UNCHANGED <<fin, ingress>>
    PROVE  Untouched
BY DEF Untouched, cloudVars, TypeOK, CloudTypeOK

\* UpdateLoadBalancer's requests keep LifecycleInv and touch no ELB.
LEMMA UpdateStep ==
    ASSUME TypeOK, LifecycleInv, UNCHANGED <<fin, ingress>>,
           NEW s \in Services, UpdateLoadBalancer(s)
    PROVE  LifecycleInv' /\ Untouched
<1> DEFINE p == <<s, "node">>
<1>0. WorkerTypeOK /\ p \in Procs BY ProcTypes DEF TypeOK
<1>1. CASE UpdateGet(s)
  <2>1. Untouched BY <1>1, CloudStutterUntouched DEF UpdateGet
  <2>2. \E c, v : Goto(p, c, v) BY <1>1 DEF UpdateGet, Fail
  <2> QED BY <1>0, <2>1, <2>2, GotoMoves, NodeMove
<1>2. CASE SyncList(s)
  <2>1. Untouched BY <1>2, CloudStutterUntouched DEF SyncList
  <2>2. \E c, v : Goto(p, c, v) BY <1>2 DEF SyncList
  <2> QED BY <1>0, <2>1, <2>2, GotoMoves, NodeMove
<1>3. CASE OrphanListener(s)
  <2>1. Untouched BY <1>3
        DEF OrphanListener, CloudDeleteListener, Untouched, cloudVars, TypeOK, CloudTypeOK
  <2>2. \E c, v : Goto(p, c, v) BY <1>3 DEF OrphanListener
  <2> QED BY <1>0, <2>1, <2>2, GotoMoves, NodeMove
<1>4. CASE OrphanPool(s)
  <2>1. Untouched BY <1>4
        DEF OrphanPool, CloudDeletePool, Untouched, TypeOK, CloudTypeOK
  <2>2. \E c, v : Goto(p, c, v) BY <1>4 DEF OrphanPool
  <2> QED BY <1>0, <2>1, <2>2, GotoMoves, NodeMove
<1>5. CASE ensureListeners(p) BY <1>5, NodeListenersStep
<1> QED BY <1>1, <1>2, <1>3, <1>4, <1>5 DEF UpdateLoadBalancer

\* A sync worker may fail at any request.
LEMMA FailMoves ==
    ASSUME TypeOK, LifecycleInv, Untouched, NEW s \in Services, Fail(<<s, "sync">>)
    PROVE  LifecycleInv'
<1>1. pc'[<<s, "sync">>] = "failed" /\ OnlyMoves(<<s, "sync">>)
      BY ProcTypes, GotoMoves DEF Fail, TypeOK
<1>2. MayGoto(s, "failed", loc'[<<s, "sync">>]) BY DEF MayGoto, EnsurePCs, HoldingPCs
<1> QED BY <1>1, <1>2, SyncMove

\* EnsureLoadBalancer's lookup by name keeps LifecycleInv.
LEMMA EnsureGetStep ==
    ASSUME TypeOK, LifecycleInv, UNCHANGED <<fin, ingress>>,
           NEW s \in Services, EnsureGet(s)
    PROVE  LifecycleInv' /\ Untouched
<1> DEFINE p == <<s, "sync">>
<1>0. WorkerTypeOK /\ p \in Procs /\ loc[p] \in LocType BY ProcTypes DEF TypeOK
<1>1. Untouched BY CloudStutterUntouched DEF EnsureGet
<1>2. fin[s] BY DEF EnsureGet, LifecycleInv, WorkerKnows, EnsurePCs
<1>3. CASE Fail(p) BY <1>1, <1>3, FailMoves
<1>4. CASE LBsNamed(NameOf[s]) = {} /\ Goto(p, "lbPost", loc[p])
  <2>1. pc'[p] = "lbPost" /\ OnlyMoves(p) BY <1>0, <1>4, GotoMoves
  <2>2. MayGoto(s, "lbPost", loc'[p]) BY <1>2, <1>4 DEF MayGoto, HoldingPCs
  <2> QED BY <1>1, <2>1, <2>2, SyncMove
<1>5. ASSUME NEW l \in LBsNamed(NameOf[s]), Configure(p, l.id, EIPsOf(l.id))
      PROVE  LifecycleInv'
  <2> DEFINE v == [loc[p] EXCEPT !.lb = l.id, !.eip = {e.id : e \in EIPsOf(l.id)}]
  <2>1. Goto(p, NextPort("sync", loc[p].todo), v) BY <1>5 DEF Configure
  <2>2. v.lb = l.id BY <1>0 DEF LocType
  <2>3. /\ OnlyMoves(p) /\ pc'[p] = NextPort("sync", loc[p].todo) /\ loc'[p] = v
        BY <1>0, <2>1, GotoMoves
  <2>4. loc'[p].lb = l.id BY <2>2, <2>3
  <2>5. pc'[p] \in {"poolGet", "sg"} BY <2>3 DEF NextPort
  <2>6. l \in lbs /\ l.name = NameOf[s] BY <1>5 DEF LBsNamed
  <2>7. MayGoto(s, pc'[p], loc'[p]) BY <1>2, <2>4, <2>5, <2>6 DEF MayGoto
  <2> QED BY <1>1, <2>3, <2>7, SyncMove
<1> QED BY <1>1, <1>3, <1>4, <1>5 DEF EnsureGet

\* A request of EnsureLoadBalancerDeleted that goes on with the ELB it holds.
LEMMA HoldMove ==
    ASSUME TypeOK, LifecycleInv, Untouched, NEW s \in Services,
           pc[<<s, "sync">>] \in HoldingPCs, OnlyMoves(<<s, "sync">>),
           pc'[<<s, "sync">>] \in HoldingPCs \ EnsurePCs,
           loc'[<<s, "sync">>].lb = loc[<<s, "sync">>].lb
    PROVE  LifecycleInv'
<1>1. MayGoto(s, pc'[<<s, "sync">>], loc'[<<s, "sync">>])
      BY DEF MayGoto, LifecycleInv, WorkerKnows, HoldingPCs, EnsurePCs
<1> QED BY <1>1, SyncMove

\* The security-group step of EnsureLoadBalancer keeps LifecycleInv.
LEMMA EnsureELBSecurityGroupStep ==
    ASSUME TypeOK, LifecycleInv, UNCHANGED <<fin, ingress>>,
           NEW s \in Services, EnsureELBSecurityGroup(s)
    PROVE  LifecycleInv' /\ Untouched
<1> DEFINE p == <<s, "sync">>
<1>0. WorkerTypeOK /\ p \in Procs BY ProcTypes DEF TypeOK
<1>1. Untouched BY DEF EnsureELBSecurityGroup, Untouched, TypeOK, CloudTypeOK
<1>2. OnlyMoves(p) /\ pc'[p] = "ensured" /\ loc'[p] = loc[p]
      BY <1>0, GotoMoves DEF EnsureELBSecurityGroup
<1>3. pc[p] = "sg" BY DEF EnsureELBSecurityGroup
<1>4. MayGoto(s, pc'[p], loc'[p])
      BY <1>2, <1>3 DEF MayGoto, LifecycleInv, WorkerKnows, EnsurePCs, HoldingPCs
<1> QED BY <1>1, <1>2, <1>4, SyncMove

\* The lookups that begin a deletion keep LifecycleInv: the worker goes on with an
\* ELB of its service, or there is none.
LEMMA DeleteGetStep ==
    ASSUME TypeOK, LifecycleInv, UNCHANGED <<fin, ingress>>,
           NEW s \in Services, GetLoadBalancer(s) \/ DeleteGet(s)
    PROVE  LifecycleInv' /\ Untouched
<1> DEFINE p == <<s, "sync">>
<1>0. WorkerTypeOK /\ p \in Procs /\ loc[p] \in LocType BY ProcTypes DEF TypeOK
<1>1. Untouched BY CloudStutterUntouched DEF GetLoadBalancer, DeleteGet
<1>2. CASE Fail(p) BY <1>1, <1>2, FailMoves
<1>3. CASE \E v : \/ LBsNamed(NameOf[s]) = {} /\ Goto(p, "deleted", v)
                  \/ Goto(p, "delGet", v)
  <2>1. /\ OnlyMoves(p)
        /\ \/ pc'[p] = "deleted" /\ LBsNamed(NameOf[s]) = {}
           \/ pc'[p] = "delGet"
        BY <1>0, <1>3, GotoMoves
  <2>2. MayGoto(s, pc'[p], loc'[p]) BY <2>1 DEF MayGoto, EnsurePCs, HoldingPCs
  <2> QED BY <1>1, <2>1, <2>2, SyncMove
<1>4. ASSUME NEW l \in LBsNamed(NameOf[s]),
             Goto(p, "eipFind", [loc[p] EXCEPT !.lb = l.id,
                                               !.eip = {e.id : e \in EIPsOf(l.id)}])
      PROVE  LifecycleInv'
  <2> DEFINE v == [loc[p] EXCEPT !.lb = l.id, !.eip = {e.id : e \in EIPsOf(l.id)}]
  <2>1. v.lb = l.id BY <1>0 DEF LocType
  <2>2. OnlyMoves(p) /\ pc'[p] = "eipFind" /\ loc'[p] = v BY <1>0, <1>4, GotoMoves
  <2>3. loc'[p].lb = l.id BY <2>1, <2>2
  <2>4. l \in lbs /\ l.name = NameOf[s] BY <1>4 DEF LBsNamed
  <2>5. MayGoto(s, pc'[p], loc'[p]) BY <2>2, <2>3, <2>4 DEF MayGoto, EnsurePCs
  <2> QED BY <1>1, <2>2, <2>5, SyncMove
<1>5. CASE GetLoadBalancer(s)
  <2>1. Fail(p) \/ \E v : \/ LBsNamed(NameOf[s]) = {} /\ Goto(p, "deleted", v)
                          \/ Goto(p, "delGet", v)
        BY <1>5 DEF GetLoadBalancer
  <2> QED BY <1>1, <1>2, <1>3, <2>1
<1>6. CASE DeleteGet(s)
  <2>1. \/ Fail(p)
        \/ LBsNamed(NameOf[s]) = {} /\ Goto(p, "deleted", NoLoc)
        \/ \E l \in LBsNamed(NameOf[s]) :
              Goto(p, "eipFind", [loc[p] EXCEPT !.lb = l.id,
                                                !.eip = {e.id : e \in EIPsOf(l.id)}])
        BY <1>6 DEF DeleteGet
  <2> QED BY <1>1, <1>2, <1>3, <1>4, <2>1
<1> QED BY <1>5, <1>6

DeletingPCs == HoldingPCs \ EnsurePCs

\* Each of these requests fails or goes on with the deletion of the same ELB.
LEMMA DeletionMoves ==
    ASSUME TypeOK, NEW s \in Services,
           \/ FindEIP(s) \/ ReleaseBoundEIP(s) \/ ListListeners(s)
           \/ DeleteListener(s) \/ ListPools(s) \/ DeletePool(s)
    PROVE  LET p == <<s, "sync">>
           IN  \/ Fail(p)
               \/ \E c \in DeletingPCs : \E v :
                    v.lb = loc[p].lb /\ Goto(p, c, v)
<1> DEFINE p == <<s, "sync">>
           Done == Fail(p) \/ \E c \in DeletingPCs : \E v : v.lb = loc[p].lb /\ Goto(p, c, v)
<1>0. loc[p] \in LocType BY ProcTypes DEF TypeOK
<1>1. {"eipRelease", "delListeners", "delListener", "delPools", "delPool", "delLB"}
         \subseteq DeletingPCs
      BY DEF DeletingPCs, HoldingPCs, EnsurePCs
<1>2. ASSUME NEW c \in DeletingPCs, NEW x, Goto(p, c, [loc[p] EXCEPT !.pool = x])
      PROVE  Done
  <2>1. [loc[p] EXCEPT !.pool = x].lb = loc[p].lb BY <1>0 DEF LocType
  <2> QED BY <1>2, <2>1
<1>3. ASSUME NEW c \in DeletingPCs, NEW x, Goto(p, c, [loc[p] EXCEPT !.doomed = x])
      PROVE  Done
  <2>1. [loc[p] EXCEPT !.doomed = x].lb = loc[p].lb BY <1>0 DEF LocType
  <2> QED BY <1>3, <2>1
<1>4. CASE Fail(p) BY <1>4
<1>5. CASE FindEIP(s)
  <2>1. \/ \E x : Goto(p, "eipRelease", [loc[p] EXCEPT !.pool = x])
        \/ Goto(p, "delListeners", loc[p])
        BY <1>5 DEF FindEIP
  <2> QED BY <1>1, <1>2, <2>1
<1>6. CASE ReleaseBoundEIP(s)
  <2>1. Goto(p, "delListeners", [loc[p] EXCEPT !.pool = 0])
        BY <1>6 DEF ReleaseBoundEIP
  <2> QED BY <1>1, <1>2, <2>1
<1>7. CASE ListListeners(s)
  <2>1. \/ Fail(p)
        \/ \E x : \/ Goto(p, "delListener", [loc[p] EXCEPT !.doomed = x])
                  \/ Goto(p, "delPools", [loc[p] EXCEPT !.doomed = x])
        BY <1>7 DEF ListListeners
  <2> QED BY <1>1, <1>3, <1>4, <2>1
<1>8. CASE DeleteListener(s)
  <2>1. \/ Fail(p)
        \/ \E x : \/ Goto(p, "delListener", [loc[p] EXCEPT !.doomed = x])
                  \/ Goto(p, "delPools", [loc[p] EXCEPT !.doomed = x])
        BY <1>8 DEF DeleteListener
  <2> QED BY <1>1, <1>3, <1>4, <2>1
<1>9. CASE ListPools(s)
  <2>1. \/ Fail(p)
        \/ \E x : \/ Goto(p, "delPool", [loc[p] EXCEPT !.doomed = x])
                  \/ Goto(p, "delLB", [loc[p] EXCEPT !.doomed = x])
        BY <1>9 DEF ListPools
  <2> QED BY <1>1, <1>3, <1>4, <2>1
<1>10. CASE DeletePool(s)
  <2>1. \/ Fail(p)
        \/ \E x : \/ Goto(p, "delPool", [loc[p] EXCEPT !.doomed = x])
                  \/ Goto(p, "delLB", [loc[p] EXCEPT !.doomed = x])
        BY <1>10 DEF DeletePool
  <2> QED BY <1>1, <1>3, <1>4, <2>1
<1> QED BY <1>5, <1>6, <1>7, <1>8, <1>9, <1>10

\* The requests between the lookup and the DELETE of the ELB keep LifecycleInv.
LEMMA DeletionStep ==
    ASSUME TypeOK, LifecycleInv, UNCHANGED <<fin, ingress>>, NEW s \in Services,
           \/ FindEIP(s) \/ ReleaseBoundEIP(s) \/ ListListeners(s)
           \/ DeleteListener(s) \/ ListPools(s) \/ DeletePool(s)
    PROVE  LifecycleInv' /\ Untouched
<1> DEFINE p == <<s, "sync">>
<1>0. WorkerTypeOK /\ p \in Procs /\ nextId \in Nat
      BY ProcTypes DEF TypeOK, CloudTypeOK
<1>1. UNCHANGED lbs /\ (nextId' = nextId)
  <2>1. CASE FindEIP(s) BY <2>1 DEF FindEIP, cloudVars
  <2>2. CASE ReleaseBoundEIP(s)
        BY <2>2 DEF ReleaseBoundEIP, CloudReleaseEIP, cloudVars
  <2>3. CASE ListListeners(s) BY <2>3 DEF ListListeners, cloudVars
  <2>4. CASE DeleteListener(s)
        BY <2>4 DEF DeleteListener, CloudDeleteListener, cloudVars
  <2>5. CASE ListPools(s) BY <2>5 DEF ListPools, cloudVars
  <2>6. CASE DeletePool(s) BY <2>6 DEF DeletePool, CloudDeletePool
  <2> QED BY <2>1, <2>2, <2>3, <2>4, <2>5, <2>6
<1>2. Untouched BY <1>0, <1>1 DEF Untouched
<1>3. pc[p] \in HoldingPCs
  <2>1. pc[p] \in {"eipFind", "eipRelease", "delListeners", "delListener", "delPools",
                   "delPool"}
        BY DEF FindEIP, ReleaseBoundEIP, ListListeners, DeleteListener, ListPools,
               DeletePool
  <2> QED BY <2>1 DEF HoldingPCs
<1>4. ASSUME NEW c \in DeletingPCs, NEW v, v.lb = loc[p].lb, Goto(p, c, v)
      PROVE  LifecycleInv'
  <2>1. OnlyMoves(p) /\ pc'[p] = c /\ loc'[p] = v BY <1>0, <1>4, GotoMoves
  <2> QED BY <1>2, <1>3, <1>4, <2>1, HoldMove DEF DeletingPCs
<1>5. CASE Fail(p) BY <1>2, <1>5, FailMoves
<1> QED BY <1>2, <1>4, <1>5, DeletionMoves

\* Releasing the addresses left behind keeps LifecycleInv.
LEMMA ReleaseOrphanedEIPStep ==
    ASSUME TypeOK, LifecycleInv, UNCHANGED <<fin, ingress>>,
           NEW s \in Services, ReleaseOrphanedEIP(s)
    PROVE  LifecycleInv' /\ Untouched
<1> DEFINE p == <<s, "sync">>
<1>0. WorkerTypeOK /\ p \in Procs BY ProcTypes DEF TypeOK
<1>1. Untouched
      BY CloudStutterUntouched DEF ReleaseOrphanedEIP, CloudReleaseEIP, Untouched, TypeOK, CloudTypeOK
<1>2. LBsNamed(NameOf[s]) = {} BY DEF ReleaseOrphanedEIP, LifecycleInv, WorkerKnows
<1>3. OnlyMoves(p) /\ pc'[p] \in {"eipCleanup", "deleted"}
      BY <1>0, GotoMoves DEF ReleaseOrphanedEIP
<1>4. MayGoto(s, pc'[p], loc'[p]) BY <1>2, <1>3 DEF MayGoto, EnsurePCs, HoldingPCs
<1> QED BY <1>1, <1>3, <1>4, SyncMove
-----------------------------------------------------------------------------
(* The requests that create and delete an ELB.                             *)

\* The ELBs and finalizers of services other than s, and their workers, are as
\* they were, and the ELB ids are in order.
LEMMA OthersKnow ==
    ASSUME TypeOK, LifecycleInv, NEW s \in Services, OnlyMoves(<<s, "sync">>),
           \A t \in Services \ {s} : fin'[t] = fin[t],
           \A t \in Services \ {s} : LBsNamed(NameOf[t])' = LBsNamed(NameOf[t])
    PROVE  \A t \in Services \ {s} : WorkerKnows(t)'
<1> SUFFICES ASSUME NEW t \in Services, t # s PROVE WorkerKnows(t)' OBVIOUS
<1>1. <<t, "sync">> # <<s, "sync">> /\ <<t, "sync">> \in Procs BY DEF Procs, Workers
<1>2. /\ pc'[<<t, "sync">>] = pc[<<t, "sync">>]
      /\ loc'[<<t, "sync">>] = loc[<<t, "sync">>] BY <1>1 DEF OnlyMoves
<1>3. WorkerKnows(t) BY DEF LifecycleInv
<1>4. ASSUME NEW i
      PROVE  (\E l \in lbs : l.name = NameOf[t] /\ l.id = i) =>
             (\E l \in lbs' : l.name = NameOf[t] /\ l.id = i)
      BY DEF LBsNamed
<1> QED BY <1>2, <1>3, <1>4 DEF WorkerKnows

\* An ELB created when the service had none, its id known or lost with the answer,
\* keeps LifecycleInv and is ServiceELB's creation.
LEMMA CreationStep ==
    ASSUME NamesDistinct, TypeOK, LifecycleInv, NEW s \in Services,
           OnlyMoves(<<s, "sync">>), UNCHANGED <<fin, ingress>>,
           pc[<<s, "sync">>] = "lbPost",
           CloudCreateLB(NameOf[s], s \in EIPServices),
           \/ pc'[<<s, "sync">>] = "failed"
           \/ /\ pc'[<<s, "sync">>] \in {"poolGet", "sg"}
              /\ loc'[<<s, "sync">>].lb = nextId
    PROVE  LifecycleInv' /\ Lifecycle!Next
<1> DEFINE p == <<s, "sync">>
           new == [id |-> nextId, name |-> NameOf[s]]
<1>1. /\ lbs' = lbs \cup {new} /\ nextId' = nextId + 2
      /\ new.id = nextId /\ new.name = NameOf[s] /\ nextId \in Nat
      BY DEF CloudCreateLB, TypeOK, CloudTypeOK
<1> HIDE DEF new
<1>2. fin[s] /\ LBsNamed(NameOf[s]) = {}
      BY DEF LifecycleInv, WorkerKnows, EnsurePCs
<1>3. UniqueIds'
  <2>1. \A l \in lbs : l.id \in Nat BY DEF TypeOK, CloudTypeOK
  <2> QED BY <1>1, <2>1 DEF UniqueIds, LifecycleInv
<1>4. NoDuplicateELB' BY <1>1, <1>2 DEF NoDuplicateELB, LifecycleInv, LBsNamed
<1>5. NoLeakedELB' BY <1>1, <1>2 DEF NoLeakedELB, LifecycleInv
<1>6. PublishedIsProtected' BY DEF PublishedIsProtected, LifecycleInv
<1>7. LBsNamed(NameOf[s])' = {new} BY <1>1, <1>2 DEF LBsNamed
<1>8. \A t \in Services \ {s} : LBsNamed(NameOf[t])' = LBsNamed(NameOf[t])
      BY <1>1 DEF NamesDistinct, LBsNamed
<1>9. \A t \in Services \ {s} : WorkerKnows(t)' BY <1>8, OthersKnow
<1>10. WorkerKnows(s)'
  <2>1. new \in lbs' BY <1>1
  <2>2. CASE pc'[p] = "failed" BY <2>2 DEF WorkerKnows, EnsurePCs, HoldingPCs
  <2>3. CASE pc'[p] \in {"poolGet", "sg"} /\ loc'[p].lb = nextId
        BY <1>1, <1>2, <2>1, <2>3 DEF WorkerKnows
  <2> QED BY <2>2, <2>3
<1>11. LifecycleInv' BY <1>3, <1>4, <1>5, <1>6, <1>9, <1>10 DEF LifecycleInv
<1>12. Lifecycle!Provision(s)
  <2>1. ELBsOf[s] = {} BY <1>2 DEF ELBsOf
  <2>2. ELBsOf'[s] = {nextId} BY <1>1, <1>7 DEF ELBsOf
  <2>3. \A t \in Services \ {s} : ELBsOf'[t] = ELBsOf[t] BY <1>8 DEF ELBsOf
  <2>4. ELBsOf' = [ELBsOf EXCEPT ![s] = {nextId}] BY <2>2, <2>3 DEF ELBsOf
  <2>5. UNCHANGED <<fin, Published>> BY DEF Published
  <2> QED BY <1>2, <2>1, <2>2, <2>4, <2>5 DEF Lifecycle!Provision
<1> QED BY <1>11, <1>12 DEF Lifecycle!Next

\* Deleting the service's only ELB keeps LifecycleInv and is ServiceELB's deletion.
LEMMA DeprovisionStep ==
    ASSUME NamesDistinct, TypeOK, LifecycleInv, NEW s \in Services,
           OnlyMoves(<<s, "sync">>), UNCHANGED <<fin, ingress>>,
           pc[<<s, "sync">>] = "delLB",
           CloudDeleteLB(loc[<<s, "sync">>].lb),
           pc'[<<s, "sync">>] \in {"failed", "eipCleanup", "deleted"}
    PROVE  LifecycleInv' /\ Lifecycle!Next
<1> DEFINE p == <<s, "sync">>
<1>1. PICK old \in lbs : old.name = NameOf[s] /\ old.id = loc[p].lb
      BY DEF LifecycleInv, WorkerKnows, HoldingPCs, EnsurePCs
<1>2. lbs' = lbs \ {old} /\ nextId' = nextId
      BY <1>1 DEF CloudDeleteLB, LifecycleInv, UniqueIds
<1>3. UniqueIds' BY <1>2 DEF UniqueIds, LifecycleInv
<1>4. NoDuplicateELB' BY <1>2 DEF NoDuplicateELB, LifecycleInv
<1>5. NoLeakedELB' BY <1>2 DEF NoLeakedELB, LifecycleInv
<1>6. PublishedIsProtected' BY DEF PublishedIsProtected, LifecycleInv
<1>7. LBsNamed(NameOf[s])' = {}
      BY <1>1, <1>2 DEF LBsNamed, LifecycleInv, NoDuplicateELB
<1>8. \A t \in Services \ {s} : LBsNamed(NameOf[t])' = LBsNamed(NameOf[t])
      BY <1>1, <1>2 DEF NamesDistinct, LBsNamed
<1>9. \A t \in Services \ {s} : WorkerKnows(t)' BY <1>8, OthersKnow
<1>10. WorkerKnows(s)' BY <1>7 DEF WorkerKnows, EnsurePCs, HoldingPCs
<1>11. LifecycleInv' BY <1>3, <1>4, <1>5, <1>6, <1>9, <1>10 DEF LifecycleInv
<1>12. Lifecycle!Deprovision(s)
  <2>1. ELBsOf[s] # {} BY <1>1 DEF ELBsOf, LBsNamed
  <2>2. ELBsOf'[s] = {} BY <1>7 DEF ELBsOf
  <2>3. \A t \in Services \ {s} : ELBsOf'[t] = ELBsOf[t] BY <1>8 DEF ELBsOf
  <2>4. ELBsOf' = [ELBsOf EXCEPT ![s] = {}] BY <2>2, <2>3 DEF ELBsOf
  <2>5. UNCHANGED <<fin, Published>> BY DEF Published
  <2> QED BY <2>1, <2>4, <2>5 DEF Lifecycle!Deprovision
<1> QED BY <1>11, <1>12 DEF Lifecycle!Next

\* What a step is in ServiceELB.
AbstractStep == Lifecycle!Next \/ UNCHANGED <<fin, ELBsOf, Published>>

\* Such a step is invisible in ServiceELB.
LEMMA UntouchedStutters ==
    ASSUME Untouched
    PROVE  AbstractStep
BY DEF Untouched, AbstractStep, ELBsOf, Published, LBsNamed

\* Each outcome of the POST of an ELB is a creation or a stutter.
LEMMA CreateLoadBalancerStep ==
    ASSUME NamesDistinct, TypeOK, LifecycleInv, UNCHANGED <<fin, ingress>>,
           NEW s \in Services, CreateLoadBalancer(s)
    PROVE  LifecycleInv' /\ AbstractStep
<1> DEFINE p == <<s, "sync">>
<1>0. WorkerTypeOK /\ p \in Procs /\ loc[p] \in LocType BY ProcTypes DEF TypeOK
<1>1. PICK r \in Outcomes :
        /\ IF Applied(r) THEN CloudCreateLB(NameOf[s], s \in EIPServices)
                         ELSE UNCHANGED cloudVars
        /\ IF r = "ok" THEN Configure(p, nextId, {e \in eips' : e.lb = nextId})
                       ELSE Fail(p)
      BY DEF CreateLoadBalancer
<1>2. pc[p] = "lbPost" BY DEF CreateLoadBalancer
<1>3. \/ OnlyMoves(p) /\ pc'[p] = "failed"
      \/ /\ OnlyMoves(p) /\ pc'[p] \in {"poolGet", "sg"} /\ loc'[p].lb = nextId
         /\ Applied(r)
  <2>1. CASE r = "ok"
    <3> DEFINE v == [loc[p] EXCEPT !.lb = nextId,
                                   !.eip = {e.id : e \in {e \in eips' : e.lb = nextId}}]
    <3>1. Goto(p, NextPort("sync", loc[p].todo), v) BY <1>1, <2>1 DEF Configure
    <3>2. v.lb = nextId BY <1>0 DEF LocType
    <3>3. OnlyMoves(p) /\ pc'[p] = NextPort("sync", loc[p].todo) /\ loc'[p] = v
          BY <1>0, <3>1, GotoMoves
    <3>4. loc'[p].lb = nextId BY <3>2, <3>3
    <3> QED BY <2>1, <3>3, <3>4 DEF NextPort, Applied
  <2>2. CASE r # "ok"
        BY <1>0, <1>1, <2>2, GotoMoves DEF Fail
  <2> QED BY <2>1, <2>2
<1>4. CASE Applied(r)
  <2>1. CloudCreateLB(NameOf[s], s \in EIPServices) BY <1>1, <1>4
  <2> QED BY <1>2, <1>3, <2>1, CreationStep DEF AbstractStep
<1>5. CASE ~Applied(r)
  <2>1. Untouched BY <1>1, <1>5, CloudStutterUntouched
  <2>2. Fail(p) BY <1>1, <1>5 DEF Applied
  <2> QED BY <2>1, <2>2, FailMoves, UntouchedStutters
<1> QED BY <1>4, <1>5

\* Each outcome of the DELETE of an ELB is a deletion or a stutter.
LEMMA DeleteLoadBalancerStep ==
    ASSUME NamesDistinct, TypeOK, LifecycleInv, UNCHANGED <<fin, ingress>>,
           NEW s \in Services, DeleteLoadBalancer(s)
    PROVE  LifecycleInv' /\ AbstractStep
<1> DEFINE p == <<s, "sync">>
           conflict == LBExists(loc[p].lb) /\ HasChildren(loc[p].lb)
<1>0. WorkerTypeOK /\ p \in Procs /\ loc[p] \in LocType BY ProcTypes DEF TypeOK
<1>1. pc[p] = "delLB" BY DEF DeleteLoadBalancer
<1>2. PICK r \in Outcomes :
        /\ IF Applied(r) /\ ~conflict THEN CloudDeleteLB(loc[p].lb)
                                      ELSE UNCHANGED cloudVars
        /\ \/ /\ r = "ok" /\ ~conflict
              /\ Goto(p, IF loc[p].eip # {} THEN "eipCleanup" ELSE "deleted", loc[p])
           \/ /\ r = "ok" /\ conflict
              /\ Goto(p, "delLB", [loc[p] EXCEPT !.tries = @ + 1])
           \/ /\ ~(r = "ok" /\ ~conflict)
              /\ Fail(p)
      BY DEF DeleteLoadBalancer
<1>3. CASE Applied(r) /\ ~conflict
  <2>1. CloudDeleteLB(loc[p].lb) BY <1>2, <1>3
  <2>2. \/ Goto(p, "eipCleanup", loc[p]) \/ Goto(p, "deleted", loc[p])
        \/ Goto(p, "failed", NoLoc)
        BY <1>2, <1>3 DEF Fail
  <2>3. OnlyMoves(p) /\ pc'[p] \in {"failed", "eipCleanup", "deleted"}
        BY <1>0, <2>2, GotoMoves
  <2> QED BY <1>1, <2>1, <2>3, DeprovisionStep DEF AbstractStep
<1>4. CASE ~(Applied(r) /\ ~conflict)
  <2>1. UNCHANGED cloudVars BY <1>2, <1>4
  <2>2. Untouched BY <2>1, CloudStutterUntouched
  <2>3. Fail(p) \/ Goto(p, "delLB", [loc[p] EXCEPT !.tries = @ + 1])
        BY <1>2, <1>4 DEF Applied
  <2>4. CASE Fail(p) BY <2>2, <2>4, FailMoves, UntouchedStutters
  <2>5. CASE Goto(p, "delLB", [loc[p] EXCEPT !.tries = @ + 1])
    <3>1. [loc[p] EXCEPT !.tries = @ + 1].lb = loc[p].lb BY <1>0 DEF LocType
    <3>2. /\ OnlyMoves(p) /\ pc'[p] = "delLB"
          /\ loc'[p] = [loc[p] EXCEPT !.tries = @ + 1]
          BY <1>0, <2>5, GotoMoves
    <3>3. "delLB" \in HoldingPCs \ EnsurePCs BY DEF HoldingPCs, EnsurePCs
    <3>4. loc'[p].lb = loc[p].lb BY <3>1, <3>2
    <3> QED BY <1>1, <2>2, <3>2, <3>3, <3>4, HoldMove, UntouchedStutters
  <2> QED BY <2>3, <2>4, <2>5
<1> QED BY <1>3, <1>4

-----------------------------------------------------------------------------
(* The steps of the controller.                                            *)

\* Taking a service from the queue adds its finalizer or starts its deletion.
LEMMA SyncServiceStep ==
    ASSUME TypeOK, LifecycleInv, NEW s \in Services, SyncService(s)
    PROVE  LifecycleInv' /\ AbstractStep
<1> DEFINE p == <<s, "sync">>
<1>0. WorkerTypeOK /\ p \in Procs BY ProcTypes DEF TypeOK
<1>1. UNCHANGED <<lbs, nextId, ingress>> BY DEF SyncService, cloudVars
<1>2. fin' = [fin EXCEPT ![s] = want[s] \/ fin[s]] BY DEF SyncService
<1>3. fin \in [Services -> BOOLEAN] /\ want[s] \in BOOLEAN
      BY DEF TypeOK, ControllerTypeOK
<1>4. /\ \A t \in Services \ {s} : fin'[t] = fin[t]
      /\ fin'[s] = (want[s] \/ fin[s])
      BY <1>2, <1>3
<1>5. /\ OnlyMoves(p)
      /\ \/ pc'[p] = "delCheck"
         \/ want[s] /\ pc'[p] = "ensGet"
  <2>1. \/ want[s] /\ Goto(p, "ensGet", Call(ports[s], nodes))
        \/ Goto(p, "delCheck", NoLoc)
        BY DEF SyncService
  <2>2. CASE want[s] /\ Goto(p, "ensGet", Call(ports[s], nodes))
    <3>1. OnlyMoves(p) /\ pc'[p] = "ensGet" BY <1>0, <2>2, GotoMoves
    <3> QED BY <2>2, <3>1, Zenon
  <2>3. CASE Goto(p, "delCheck", NoLoc) BY <1>0, <2>3, GotoMoves
  <2> QED BY <2>1, <2>2, <2>3
<1>6. UniqueIds' /\ NoDuplicateELB'
      BY <1>1 DEF LifecycleInv, UniqueIds, NoDuplicateELB
<1>7. NoLeakedELB' BY <1>1, <1>4 DEF LifecycleInv, NoLeakedELB
<1>8. PublishedIsProtected' BY <1>1, <1>4 DEF LifecycleInv, PublishedIsProtected
<1>9. WorkerKnows(s)' BY <1>4, <1>5 DEF WorkerKnows, EnsurePCs, HoldingPCs
<1>10. \A t \in Services \ {s} : WorkerKnows(t)'
  <2>1. \A t \in Services \ {s} : LBsNamed(NameOf[t])' = LBsNamed(NameOf[t])
        BY <1>1 DEF LBsNamed
  <2> QED BY <1>4, <1>5, <2>1, OthersKnow
<1>11. LifecycleInv' BY <1>6, <1>7, <1>8, <1>9, <1>10 DEF LifecycleInv
<1>12. AbstractStep
  <2>1. UNCHANGED <<ELBsOf, Published>> BY <1>1 DEF ELBsOf, Published, LBsNamed
  <2>2. CASE want[s]
    <3>1. fin' = [fin EXCEPT ![s] = TRUE] BY <1>2, <2>2
    <3> QED BY <2>1, <3>1 DEF AbstractStep, Lifecycle!Next, Lifecycle!Protect
  <2>3. CASE ~want[s]
    <3>1. fin' = fin BY <1>2, <1>3, <2>3
    <3> QED BY <2>1, <3>1 DEF AbstractStep
  <2> QED BY <1>3, <2>2, <2>3
<1> QED BY <1>11, <1>12

\* Publishing the address at the end of EnsureLoadBalancer.
LEMMA PublishStatusStep ==
    ASSUME TypeOK, LifecycleInv, NEW s \in Services, PublishStatus(s)
    PROVE  LifecycleInv' /\ AbstractStep
<1> DEFINE p == <<s, "sync">>
<1>0. WorkerTypeOK /\ p \in Procs BY ProcTypes DEF TypeOK
<1>1. UNCHANGED <<lbs, nextId, fin>> BY DEF PublishStatus, cloudVars
<1>2. OnlyMoves(p) /\ pc'[p] = "idle" BY <1>0, GotoMoves DEF PublishStatus
<1>3. fin[s] /\ LBsNamed(NameOf[s]) # {}
  <2>1. "ensured" \in EnsurePCs \cap HoldingPCs BY DEF EnsurePCs, HoldingPCs
  <2> QED BY <2>1 DEF PublishStatus, LifecycleInv, WorkerKnows, LBsNamed
<1>4. ingress \in [Services -> SUBSET Nat] BY DEF TypeOK, ControllerTypeOK
<1>5. /\ \A t \in Services \ {s} : ingress'[t] = ingress[t]
      /\ ingress'[s] # {} /\ ingress' = [t \in Services |-> ingress'[t]]
      BY <1>4 DEF PublishStatus
<1>6. UniqueIds' /\ NoDuplicateELB' /\ NoLeakedELB'
      BY <1>1 DEF LifecycleInv, UniqueIds, NoDuplicateELB, NoLeakedELB
<1>7. PublishedIsProtected' BY <1>1, <1>3, <1>5 DEF LifecycleInv, PublishedIsProtected
<1>8. WorkerKnows(s)' BY <1>2 DEF WorkerKnows, EnsurePCs, HoldingPCs
<1>9. \A t \in Services \ {s} : WorkerKnows(t)'
  <2>1. \A t \in Services \ {s} : LBsNamed(NameOf[t])' = LBsNamed(NameOf[t])
        BY <1>1 DEF LBsNamed
  <2> QED BY <1>1, <1>2, <2>1, OthersKnow
<1>10. LifecycleInv' BY <1>6, <1>7, <1>8, <1>9 DEF LifecycleInv
<1>11. Lifecycle!Publish(s)
  <2>1. UNCHANGED ELBsOf /\ ELBsOf[s] # {} BY <1>1, <1>3 DEF ELBsOf, LBsNamed
  <2>2. Published' = [Published EXCEPT ![s] = TRUE] BY <1>5 DEF Published
  <2> QED BY <1>1, <1>3, <2>1, <2>2 DEF Lifecycle!Publish
<1> QED BY <1>10, <1>11 DEF AbstractStep, Lifecycle!Next

\* The finalizer goes when the deletion has succeeded, and no ELB is left then.
LEMMA RemoveFinalizerStep ==
    ASSUME TypeOK, LifecycleInv, NEW s \in Services, RemoveFinalizer(s)
    PROVE  LifecycleInv' /\ AbstractStep
<1> DEFINE p == <<s, "sync">>
<1>0. WorkerTypeOK /\ p \in Procs BY ProcTypes DEF TypeOK
<1>1. UNCHANGED <<lbs, nextId>> BY DEF RemoveFinalizer, cloudVars
<1>2. OnlyMoves(p) /\ pc'[p] = "idle" BY <1>0, GotoMoves DEF RemoveFinalizer
<1>3. LBsNamed(NameOf[s]) = {} BY DEF RemoveFinalizer, LifecycleInv, WorkerKnows
<1>4. fin \in [Services -> BOOLEAN] /\ ingress \in [Services -> SUBSET Nat]
      BY DEF TypeOK, ControllerTypeOK
<1>5. /\ fin' = [fin EXCEPT ![s] = FALSE] /\ ingress' = [ingress EXCEPT ![s] = {}]
      /\ \A t \in Services \ {s} : fin'[t] = fin[t] /\ ingress'[t] = ingress[t]
      /\ ingress'[s] = {}
      BY <1>4 DEF RemoveFinalizer
<1>6. UniqueIds' /\ NoDuplicateELB'
      BY <1>1 DEF LifecycleInv, UniqueIds, NoDuplicateELB
<1>7. NoLeakedELB' BY <1>1, <1>3, <1>5 DEF LifecycleInv, NoLeakedELB, LBsNamed
<1>8. PublishedIsProtected' BY <1>5 DEF LifecycleInv, PublishedIsProtected
<1>9. WorkerKnows(s)' BY <1>2 DEF WorkerKnows, EnsurePCs, HoldingPCs
<1>10. \A t \in Services \ {s} : WorkerKnows(t)'
  <2>1. \A t \in Services \ {s} : LBsNamed(NameOf[t])' = LBsNamed(NameOf[t])
        BY <1>1 DEF LBsNamed
  <2> QED BY <1>2, <1>5, <2>1, OthersKnow
<1>11. LifecycleInv' BY <1>6, <1>7, <1>8, <1>9, <1>10 DEF LifecycleInv
<1>12. Lifecycle!Release(s)
  <2>1. UNCHANGED ELBsOf /\ ELBsOf[s] = {} BY <1>1, <1>3 DEF ELBsOf, LBsNamed
  <2>2. Published' = [Published EXCEPT ![s] = FALSE] BY <1>5 DEF Published
  <2> QED BY <1>5, <2>1, <2>2 DEF Lifecycle!Release
<1> QED BY <1>11, <1>12 DEF AbstractStep, Lifecycle!Next

\* Requeue and the three steps of the node worker's controller half.
LEMMA RetryStep ==
    ASSUME TypeOK, LifecycleInv, NEW s \in Services,
           \/ Requeue(s) \/ SyncNodes(s) \/ NodesSynced(s) \/ RetryNodes(s)
    PROVE  LifecycleInv' /\ AbstractStep
<1>0. WorkerTypeOK /\ <<s, "sync">> \in Procs /\ <<s, "node">> \in Procs
      BY ProcTypes DEF TypeOK
<1>1. UNCHANGED cloudVars /\ UNCHANGED k8sVars
      BY DEF Requeue, SyncNodes, NodesSynced, RetryNodes
<1>2. Untouched BY <1>1, CloudStutterUntouched DEF k8sVars
<1>3. CASE Requeue(s)
  <2>1. OnlyMoves(<<s, "sync">>) /\ pc'[<<s, "sync">>] = "idle"
        BY <1>0, <1>3, GotoMoves DEF Requeue
  <2>2. MayGoto(s, pc'[<<s, "sync">>], loc'[<<s, "sync">>])
        BY <2>1 DEF MayGoto, EnsurePCs, HoldingPCs
  <2> QED BY <1>2, <2>1, <2>2, SyncMove, UntouchedStutters
<1>4. CASE UNCHANGED procVars BY <1>2, <1>4, WorkersIdle, UntouchedStutters
<1>5. CASE \E c, v : Goto(<<s, "node">>, c, v)
      BY <1>0, <1>2, <1>5, GotoMoves, NodeMove, UntouchedStutters
<1>6. CASE SyncNodes(s) BY <1>4, <1>5, <1>6 DEF SyncNodes
<1>7. CASE NodesSynced(s) BY <1>5, <1>7 DEF NodesSynced
<1>8. CASE RetryNodes(s) BY <1>5, <1>8 DEF RetryNodes
<1> QED BY <1>2, <1>3, <1>6, <1>7, <1>8, UntouchedStutters

\* Users, nodes, crashes, and the cloud finishing deletions.
LEMMA EnvironmentStep ==
    ASSUME TypeOK, LifecycleInv,
           \/ \E s \in Services : ApplyService(s) \/ RemoveService(s)
           \/ ChangeNodes \/ Crash \/ Cloud
    PROVE  LifecycleInv' /\ AbstractStep
<1>0. nextId \in Nat BY DEF TypeOK, CloudTypeOK
<1>1. UNCHANGED <<lbs, nextId, fin, ingress>>
  <2>1. CASE \E s \in Services : ApplyService(s) \/ RemoveService(s)
        BY <2>1 DEF ApplyService, RemoveService, cloudVars
  <2>2. CASE ChangeNodes BY <2>2 DEF ChangeNodes, cloudVars
  <2>3. CASE Crash BY <2>3 DEF Crash, cloudVars, k8sVars
  <2>4. CASE Cloud BY <2>4 DEF Cloud, ReapListener, ReapPool, k8sVars
  <2> QED BY <2>1, <2>2, <2>3, <2>4
<1>2. Untouched BY <1>0, <1>1 DEF Untouched
<1>3. CASE UNCHANGED procVars BY <1>2, <1>3, WorkersIdle, UntouchedStutters
<1>4. CASE Crash
  <2>1. \A t \in Services : pc'[<<t, "sync">>] = "idle"
        BY <1>4 DEF Crash, Procs, Workers
  <2>2. \A t \in Services : WorkerKnows(t)'
        BY <2>1 DEF WorkerKnows, EnsurePCs, HoldingPCs
  <2> QED BY <1>2, <2>2, UntouchedKeeps, UntouchedStutters DEF LifecycleInv
<1>5. UNCHANGED procVars \/ Crash
      BY DEF ApplyService, RemoveService, ChangeNodes, Cloud
<1> QED BY <1>2, <1>3, <1>4, <1>5, UntouchedStutters

-----------------------------------------------------------------------------
(* The theorems.                                                           *)

\* Every step keeps LifecycleInv and is a step of ServiceELB or invisible there.
LEMMA LifecycleStep ==
    ASSUME NamesDistinct, TypeOK, LifecycleInv, [Next]_vars
    PROVE  LifecycleInv' /\ AbstractStep
<1>1. CASE UNCHANGED vars
  <2>1. UNCHANGED cloudVars /\ UNCHANGED procVars /\ UNCHANGED k8sVars
        BY <1>1 DEF vars
  <2>2. Untouched BY <2>1, CloudStutterUntouched DEF k8sVars
  <2> QED BY <2>1, <2>2, WorkersIdle, UntouchedStutters
<1>2. ASSUME NEW s \in Services, SyncWorker(s)
      PROVE  LifecycleInv' /\ AbstractStep
  <2>1. CASE SyncService(s) BY <2>1, SyncServiceStep
  <2>2. CASE PublishStatus(s) BY <2>2, PublishStatusStep
  <2>3. CASE RemoveFinalizer(s) BY <2>3, RemoveFinalizerStep
  <2>4. CASE Requeue(s) BY <2>4, RetryStep
  <2>5. CASE /\ EnsureLoadBalancer(s) \/ GetLoadBalancer(s)
                \/ EnsureLoadBalancerDeleted(s)
             /\ UNCHANGED <<k8sVars, ctlVars>>
    <3>1. UNCHANGED <<fin, ingress>> BY <2>5 DEF k8sVars
    <3>2. CASE EnsureLoadBalancer(s)
          BY <3>1, <3>2, EnsureGetStep, CreateLoadBalancerStep, SyncListenersStep,
             EnsureELBSecurityGroupStep, UntouchedStutters DEF EnsureLoadBalancer
    <3>3. CASE GetLoadBalancer(s) BY <3>1, <3>3, DeleteGetStep, UntouchedStutters
    <3>4. CASE EnsureLoadBalancerDeleted(s)
          BY <3>1, <3>4, DeleteGetStep, DeletionStep, DeleteLoadBalancerStep,
             ReleaseOrphanedEIPStep, UntouchedStutters DEF EnsureLoadBalancerDeleted
    <3> QED BY <2>5, <3>2, <3>3, <3>4
  <2> QED BY <1>2, <2>1, <2>2, <2>3, <2>4, <2>5 DEF SyncWorker
<1>3. ASSUME NEW s \in Services, NodeWorker(s)
      PROVE  LifecycleInv' /\ AbstractStep
  <2>1. CASE SyncNodes(s) \/ NodesSynced(s) \/ RetryNodes(s) BY <2>1, RetryStep
  <2>2. CASE UpdateLoadBalancer(s) /\ UNCHANGED <<k8sVars, ctlVars>>
    <3>1. UNCHANGED <<fin, ingress>> BY <2>2 DEF k8sVars
    <3> QED BY <2>2, <3>1, UpdateStep, UntouchedStutters
  <2> QED BY <1>3, <2>1, <2>2 DEF NodeWorker
<1>4. CASE \/ \E s \in Services : ApplyService(s) \/ RemoveService(s)
           \/ ChangeNodes \/ Crash \/ Cloud
      BY <1>4, EnvironmentStep
<1> QED BY <1>1, <1>2, <1>3, <1>4 DEF Next

\* The initial states have the invariant and are initial in ServiceELB.
LEMMA LifecycleInit ==
    ASSUME Init
    PROVE  LifecycleInv /\ Lifecycle!Init
<1>1. LifecycleInv
  <2>1. \A s \in Services : <<s, "sync">> \in Procs BY DEF Procs, Workers
  <2>2. \A s \in Services : pc[<<s, "sync">>] = "idle" BY <2>1 DEF Init
  <2>3. \A s \in Services : WorkerKnows(s)
        BY <2>2 DEF WorkerKnows, EnsurePCs, HoldingPCs
  <2> QED BY <2>3 DEF Init, CloudInit, LifecycleInv, UniqueIds, NoDuplicateELB,
                      NoLeakedELB, PublishedIsProtected
<1>2. Lifecycle!Init
  <2>1. ELBsOf = [s \in Services |-> {}]
        BY DEF Init, CloudInit, ELBsOf, LBsNamed
  <2>2. Published = [s \in Services |-> FALSE] BY DEF Init, Published
  <2> QED BY <2>1, <2>2 DEF Init, Lifecycle!Init
<1> QED BY <1>1, <1>2

\* LifecycleInv is inductive: when the ELB names of the services are distinct,
\* every reachable state of the controller, the provider and the cloud has it.
THEOREM LifecycleInvariant ==
    ASSUME NamesDistinct
    PROVE  Spec => []LifecycleInv
<1>1. Init => LifecycleInv BY LifecycleInit
<1>2. TypeOK /\ LifecycleInv /\ [Next]_vars => LifecycleInv' BY LifecycleStep
<1> QED BY <1>1, <1>2, TypeCorrect, PTL DEF Spec

\* However creations fail, are retried, or lose their answer, and however the
\* controller crashes between get and create, no two load balancers have one name.
THEOREM NoDuplicates ==
    ASSUME NamesDistinct
    PROVE  Spec => []NoDuplicateELB
<1>1. LifecycleInv => NoDuplicateELB BY DEF LifecycleInv
<1> QED BY <1>1, LifecycleInvariant, PTL

\* Whatever fails in EnsureLoadBalancerDeleted, the finalizer stays on a service
\* until its load balancer is gone.
THEOREM NoLeaks ==
    ASSUME NamesDistinct
    PROVE  Spec => []NoLeakedELB
<1>1. LifecycleInv => NoLeakedELB BY DEF LifecycleInv
<1> QED BY <1>1, LifecycleInvariant, PTL

\* The controller, the provider and the cloud implement ServiceELB.
THEOREM Refinement ==
    ASSUME NamesDistinct
    PROVE  Spec => ImplementsServiceELB
<1>1. Init => Lifecycle!Init BY LifecycleInit
<1>2. TypeOK /\ LifecycleInv /\ [Next]_vars => [Lifecycle!Next]_(Lifecycle!vars)
      BY LifecycleStep DEF AbstractStep, Lifecycle!vars
<1> QED BY <1>1, <1>2, TypeCorrect, LifecycleInvariant, PTL
        DEF Spec, ImplementsServiceELB, Lifecycle!Spec
=============================================================================
