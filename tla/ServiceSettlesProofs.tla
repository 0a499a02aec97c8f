------------------------ MODULE ServiceSettlesProofs ------------------------
(* What the two workers leave behind: no finalizer, address or ELB of a    *)
(* service that is not wanted (SettledIsGone), and every node that stays   *)
(* (StableMembersKept).                                                    *)
EXTENDS ServiceLifecycleProofs

-----------------------------------------------------------------------------
(* The requests of a worker move that worker only.                         *)

\* A worker moves, and no other does.
Moves(p) == \E c, v : Goto(p, c, v)

\* A step that moves a worker leaves the others where they are.
LEMMA MovesAlone ==
    ASSUME WorkerTypeOK, NEW p \in Procs, Moves(p)
    PROVE  OnlyMoves(p)
BY GotoMoves DEF Moves

\* A request of ensureListeners moves its worker.
LEMMA ensureListenersMovesOne ==
    ASSUME NEW p \in Procs, ensureListeners(p)
    PROVE  Moves(p)
<1>1. CASE PoolGet(p) BY <1>1 DEF PoolGet, Moves
<1>2. CASE PoolPost(p) BY <1>2 DEF PoolPost, Fail, Moves
<1>3. CASE MemList(p) BY <1>3 DEF MemList, Fail, Moves
<1>4. CASE MemAdd(p) BY <1>4 DEF MemAdd, Moves
<1>5. CASE MemDel(p) BY <1>5 DEF MemDel, Moves
<1>6. CASE LisGet(p) BY <1>6 DEF LisGet, Moves
<1>7. CASE LisPost(p) BY <1>7 DEF LisPost, Fail, Moves
<1>8. CASE EnsureHealthMonitor(p) BY <1>8 DEF EnsureHealthMonitor, Moves
<1> QED BY <1>1, <1>2, <1>3, <1>4, <1>5, <1>6, <1>7, <1>8 DEF ensureListeners

\* UpdateLoadBalancer moves the node worker of its service.
LEMMA UpdateMovesOne ==
    ASSUME TypeOK, NEW s \in Services, UpdateLoadBalancer(s)
    PROVE  Moves(<<s, "node">>)
<1>1. CASE UpdateGet(s) BY <1>1 DEF UpdateGet, Fail, Moves
<1>2. CASE SyncList(s) BY <1>2 DEF SyncList, Moves
<1>3. CASE OrphanListener(s) BY <1>3 DEF OrphanListener, Moves
<1>4. CASE OrphanPool(s) BY <1>4 DEF OrphanPool, Moves
<1>5. CASE ensureListeners(<<s, "node">>)
      BY <1>5, ProcTypes, ensureListenersMovesOne DEF TypeOK
<1> QED BY <1>1, <1>2, <1>3, <1>4, <1>5 DEF UpdateLoadBalancer

-----------------------------------------------------------------------------
(* A service that is not wanted.                                           *)

\* Where a sync that deletes is, the error it may end with included.
DeletePCs == {"failed", "delCheck", "delGet", "eipFind", "eipRelease", "delListeners",
              "delListener", "delPools", "delPool", "delLB", "eipCleanup", "deleted"}

\* Nothing of the service is left, and nobody is at work on it.
Clean(s) ==
    /\ pc[<<s, "sync">>] = "idle"
    /\ ~fin[s] /\ ~Published[s] /\ ELBsOf[s] = {}

\* A service that is neither wanted nor queued is being deleted, or is gone.
GoneInv ==
    \A s \in Services : ~want[s] /\ ~queued[s] =>
        pc[<<s, "sync">>] \in DeletePCs \/ Clean(s)

\* EnsureLoadBalancer starts where GoneInv allows only a wanted or queued service.
LEMMA EnsureIsNoDeletion ==
    ASSUME TypeOK, NEW s \in Services, EnsureLoadBalancer(s)
    PROVE  pc[<<s, "sync">>] \in EnsurePCs /\ Moves(<<s, "sync">>)
<1>1. CASE EnsureGet(s) BY <1>1 DEF EnsureGet, Fail, Configure, Moves, EnsurePCs
<1>2. CASE CreateLoadBalancer(s)
      BY <1>2 DEF CreateLoadBalancer, Fail, Configure, Moves, EnsurePCs
<1>3. CASE EnsureELBSecurityGroup(s)
      BY <1>3 DEF EnsureELBSecurityGroup, Moves, EnsurePCs
<1>4. CASE ensureListeners(<<s, "sync">>)
      BY <1>4, ProcTypes, ensureListenersMovesOne, ensureListenersMoves
      DEF TypeOK, ListenersStep
<1> QED BY <1>1, <1>2, <1>3, <1>4 DEF EnsureLoadBalancer

\* A deletion goes on, ends or fails.
LEMMA DeletionGoesOn ==
    ASSUME TypeOK, NEW s \in Services, GetLoadBalancer(s) \/ EnsureLoadBalancerDeleted(s)
    PROVE  /\ pc[<<s, "sync">>] \in DeletePCs /\ pc'[<<s, "sync">>] \in DeletePCs
           /\ OnlyMoves(<<s, "sync">>)
<1> DEFINE p == <<s, "sync">>
<1>0. WorkerTypeOK /\ p \in Procs BY ProcTypes DEF TypeOK
<1>1. pc[p] \in DeletePCs
      BY DEF GetLoadBalancer, EnsureLoadBalancerDeleted, DeleteGet, FindEIP,
             ReleaseBoundEIP, ListListeners, DeleteListener, ListPools, DeletePool,
             DeleteLoadBalancer, ReleaseOrphanedEIP, DeletePCs
<1>2. \E c \in DeletePCs : \E v : Goto(p, c, v)
  <2>1. CASE GetLoadBalancer(s) BY <2>1 DEF GetLoadBalancer, Fail, DeletePCs
  <2>2. CASE DeleteGet(s) BY <2>2 DEF DeleteGet, Fail, DeletePCs
  <2>3. CASE FindEIP(s) \/ ReleaseBoundEIP(s) \/ ListListeners(s)
             \/ DeleteListener(s) \/ ListPools(s) \/ DeletePool(s)
        BY <2>3, DeletionMoves DEF Fail, DeletingPCs, HoldingPCs, EnsurePCs, DeletePCs
  <2>4. CASE DeleteLoadBalancer(s) BY <2>4 DEF DeleteLoadBalancer, Fail, DeletePCs
  <2>5. CASE ReleaseOrphanedEIP(s) BY <2>5 DEF ReleaseOrphanedEIP, DeletePCs
  <2> QED BY <2>1, <2>2, <2>3, <2>4, <2>5 DEF EnsureLoadBalancerDeleted
<1>3. PICK c \in DeletePCs : \E v : Goto(p, c, v) BY <1>2
<1> QED BY <1>0, <1>1, <1>3, GotoMoves

\* A service whose worker a step leaves alone: not taken from the queue, its finalizer
\* neither added nor removed.
Spectator(t) ==
    /\ pc'[<<t, "sync">>] = pc[<<t, "sync">>]
    /\ fin'[t] = fin[t]
    /\ ~want'[t] /\ ~queued'[t] => ~want[t] /\ ~queued[t]

\* What is gone stays gone, seen from a service whose worker does not move: only a
\* finalizer lets ServiceELB provision or publish.
LEMMA SpectatorKeeps ==
    ASSUME TypeOK, GoneInv, AbstractStep, NEW t \in Services, Spectator(t),
           ~want'[t], ~queued'[t]
    PROVE  pc'[<<t, "sync">>] \in DeletePCs \/ Clean(t)'
<1>1. CASE pc[<<t, "sync">>] \in DeletePCs BY <1>1 DEF Spectator
<1>2. CASE Clean(t)
  <2>1. ~fin[t] /\ ~fin'[t] /\ ~Published[t] /\ ELBsOf[t] = {}
        BY <1>2 DEF Clean, Spectator
  <2>2. ~Published'[t] /\ ELBsOf'[t] = {}
    <3>1. CASE UNCHANGED <<fin, ELBsOf, Published>> BY <2>1, <3>1
    <3>2. ASSUME NEW u \in Services, Lifecycle!Protect(u)
          PROVE  ~Published'[t] /\ ELBsOf'[t] = {}
          BY <2>1, <3>2 DEF Lifecycle!Protect
    <3>3. ASSUME NEW u \in Services, Lifecycle!Provision(u)
          PROVE  ~Published'[t] /\ ELBsOf'[t] = {}
      <4>1. u # t BY <2>1, <3>3 DEF Lifecycle!Provision
      <4>2. PICK id : ELBsOf' = [ELBsOf EXCEPT ![u] = {id}]
            BY <3>3 DEF Lifecycle!Provision
      <4>3. ELBsOf'[t] = ELBsOf[t] BY <4>1, <4>2 DEF ELBsOf
      <4> QED BY <2>1, <3>3, <4>3 DEF Lifecycle!Provision
    <3>4. ASSUME NEW u \in Services, Lifecycle!Publish(u)
          PROVE  ~Published'[t] /\ ELBsOf'[t] = {}
      <4>1. u # t BY <2>1, <3>4 DEF Lifecycle!Publish
      <4>2. Published' = [Published EXCEPT ![u] = TRUE] BY <3>4 DEF Lifecycle!Publish
      <4>3. Published'[t] = Published[t] BY <4>1, <4>2 DEF Published
      <4> QED BY <2>1, <3>4, <4>3 DEF Lifecycle!Publish
    <3>5. ASSUME NEW u \in Services, Lifecycle!Deprovision(u)
          PROVE  ~Published'[t] /\ ELBsOf'[t] = {}
      <4>1. ELBsOf' = [ELBsOf EXCEPT ![u] = {}] BY <3>5 DEF Lifecycle!Deprovision
      <4>2. ELBsOf'[t] = {} BY <2>1, <4>1 DEF ELBsOf
      <4> QED BY <2>1, <3>5, <4>2 DEF Lifecycle!Deprovision
    <3>6. ASSUME NEW u \in Services, Lifecycle!Release(u)
          PROVE  ~Published'[t] /\ ELBsOf'[t] = {}
      <4>1. Published' = [Published EXCEPT ![u] = FALSE] BY <3>6 DEF Lifecycle!Release
      <4>2. ~Published'[t] BY <2>1, <4>1 DEF Published
      <4> QED BY <2>1, <3>6, <4>2 DEF Lifecycle!Release
    <3> QED BY <3>1, <3>2, <3>3, <3>4, <3>5, <3>6 DEF AbstractStep, Lifecycle!Next
  <2> QED BY <1>2, <2>1, <2>2 DEF Clean, Spectator
<1> QED BY <1>1, <1>2 DEF GoneInv, Spectator

\* What a step of a worker of service s does to a service: to another one nothing, to
\* its own what a deletion or EnsureLoadBalancer does.
SeenBy(t) ==
    \/ Spectator(t)
    \/ SyncService(t) \/ RemoveFinalizer(t)
    \/ queued'[t]
    \/ /\ pc[<<t, "sync">>] \in EnsurePCs
       /\ want'[t] = want[t] /\ queued'[t] = queued[t]
    \/ pc'[<<t, "sync">>] \in DeletePCs

\* A step of a goroutine other than t's sync worker that leaves k8s and queues alone.
LEMMA OthersSpectate ==
    ASSUME NEW p, OnlyMoves(p), NEW t \in Services, p # <<t, "sync">>,
           fin'[t] = fin[t], want'[t] = want[t], queued'[t] = queued[t]
    PROVE  Spectator(t)
BY DEF OnlyMoves, Spectator, Procs, Workers

\* Every step is seen by a service in one of the ways of SeenBy.
LEMMA EveryStepSeen ==
    ASSUME TypeOK, [Next]_vars, NEW t \in Services
    PROVE  SeenBy(t)
<1>0. WorkerTypeOK /\ ControllerTypeOK BY DEF TypeOK
<1>1. CASE UNCHANGED vars
      BY <1>1 DEF vars, procVars, k8sVars, ctlVars, SeenBy, Spectator
<1>2. CASE ChangeNodes \/ Cloud
      BY <1>2 DEF ChangeNodes, Cloud, procVars, k8sVars, ctlVars, SeenBy, Spectator
<1>3. CASE Crash BY <1>3 DEF Crash, SeenBy
<1>4. ASSUME NEW s \in Services, ApplyService(s) PROVE SeenBy(t)
      BY <1>0, <1>4 DEF ApplyService, procVars, SeenBy, Spectator, ControllerTypeOK
<1>5. ASSUME NEW s \in Services, RemoveService(s) PROVE SeenBy(t)
      BY <1>0, <1>5 DEF RemoveService, procVars, SeenBy, Spectator, ControllerTypeOK
<1>6. ASSUME NEW s \in Services, NodeWorker(s) PROVE SeenBy(t)
  <2> DEFINE p == <<s, "node">>
  <2>0. p \in Procs /\ p # <<t, "sync">> BY <1>0, ProcTypes
  <2>1. UNCHANGED <<fin, want>>
        BY <1>6 DEF NodeWorker, SyncNodes, NodesSynced, RetryNodes, k8sVars
  <2>2. CASE UNCHANGED procVars /\ SyncNodes(s)
        BY <2>1, <2>2 DEF SyncNodes, procVars, SeenBy, Spectator
  <2>3. CASE Moves(p) /\ UNCHANGED queued
        BY <1>0, <2>0, <2>1, <2>3, MovesAlone, OthersSpectate DEF SeenBy
  <2>4. CASE RetryNodes(s)
    <3>1. OnlyMoves(p) BY <1>0, <2>0, <2>4, GotoMoves DEF RetryNodes
    <3>2. pc'[<<t, "sync">>] = pc[<<t, "sync">>]
          BY <2>0, <3>1 DEF OnlyMoves, Procs, Workers
    <3>3. queued'[t] \/ queued'[t] = queued[t]
          BY <1>0, <2>4 DEF RetryNodes, ControllerTypeOK
    <3> QED BY <2>1, <3>2, <3>3 DEF SeenBy, Spectator
  <2>5. CASE SyncNodes(s) BY <2>2, <2>3, <2>5 DEF SyncNodes, Moves
  <2>6. CASE NodesSynced(s) BY <2>3, <2>6 DEF NodesSynced, ctlVars, Moves
  <2>7. CASE UpdateLoadBalancer(s) /\ UNCHANGED <<k8sVars, ctlVars>>
        BY <2>3, <2>7, UpdateMovesOne DEF ctlVars
  <2> QED BY <1>6, <2>4, <2>5, <2>6, <2>7 DEF NodeWorker
<1>7. ASSUME NEW s \in Services, SyncWorker(s), s # t PROVE SeenBy(t)
  <2> DEFINE p == <<s, "sync">>
  <2>0. p \in Procs /\ p # <<t, "sync">> BY <1>0, <1>7, ProcTypes
  <2>1. fin'[t] = fin[t] /\ want'[t] = want[t] /\ queued'[t] = queued[t]
        BY <1>0, <1>7 DEF SyncWorker, SyncService, PublishStatus, RemoveFinalizer,
                          Requeue, k8sVars, ctlVars, ControllerTypeOK
  <2>2. OnlyMoves(p)
    <3>1. CASE SyncService(s) \/ PublishStatus(s) \/ RemoveFinalizer(s) \/ Requeue(s)
          BY <1>0, <2>0, <3>1, MovesAlone
          DEF SyncService, PublishStatus, RemoveFinalizer, Requeue, Moves
    <3>2. CASE EnsureLoadBalancer(s)
          BY <1>0, <2>0, <3>2, EnsureIsNoDeletion, MovesAlone
    <3>3. CASE GetLoadBalancer(s) \/ EnsureLoadBalancerDeleted(s)
          BY <3>3, DeletionGoesOn
    <3> QED BY <1>7, <3>1, <3>2, <3>3 DEF SyncWorker
  <2> QED BY <2>0, <2>1, <2>2, OthersSpectate DEF SeenBy
<1>8. ASSUME SyncWorker(t) PROVE SeenBy(t)
  <2>1. CASE SyncService(t) \/ RemoveFinalizer(t) BY <2>1 DEF SeenBy
  <2>2. CASE PublishStatus(t)
        BY <2>2 DEF PublishStatus, ctlVars, SeenBy, EnsurePCs
  <2>3. CASE Requeue(t) BY <1>0, <2>3 DEF Requeue, SeenBy, ControllerTypeOK
  <2>4. CASE EnsureLoadBalancer(t) /\ UNCHANGED <<k8sVars, ctlVars>>
        BY <2>4, EnsureIsNoDeletion DEF k8sVars, ctlVars, SeenBy
  <2>5. CASE GetLoadBalancer(t) \/ EnsureLoadBalancerDeleted(t)
        BY <2>5, DeletionGoesOn DEF SeenBy
  <2> QED BY <1>8, <2>1, <2>2, <2>3, <2>4, <2>5 DEF SyncWorker
<1> QED BY <1>1, <1>2, <1>3, <1>4, <1>5, <1>6, <1>7, <1>8 DEF Next

\* GoneInv is inductive under LifecycleInv.
LEMMA GoneStep ==
    ASSUME NamesDistinct, TypeOK, LifecycleInv, GoneInv, [Next]_vars
    PROVE  GoneInv'
<1> SUFFICES ASSUME NEW t \in Services, ~want'[t], ~queued'[t]
             PROVE  pc'[<<t, "sync">>] \in DeletePCs \/ Clean(t)'
    BY DEF GoneInv
<1>0. WorkerTypeOK /\ <<t, "sync">> \in Procs BY ProcTypes DEF TypeOK
<1>1. CASE Spectator(t) BY <1>1, LifecycleStep, SpectatorKeeps
<1>2. CASE SyncService(t)
  <2>1. ~want[t] BY <1>2 DEF SyncService
  <2>2. Goto(<<t, "sync">>, "delCheck", NoLoc) BY <1>2, <2>1 DEF SyncService
  <2> QED BY <1>0, <2>2, GotoMoves DEF DeletePCs
<1>3. CASE RemoveFinalizer(t)
  <2>1. pc'[<<t, "sync">>] = "idle" BY <1>0, <1>3, GotoMoves DEF RemoveFinalizer
  <2>2. ~fin'[t] /\ ingress'[t] = {}
        BY <1>3 DEF RemoveFinalizer, TypeOK, ControllerTypeOK
  <2>3. LBsNamed(NameOf[t]) = {} /\ lbs' = lbs
        BY <1>3 DEF RemoveFinalizer, LifecycleInv, WorkerKnows, cloudVars
  <2>4. LBsNamed(NameOf[t])' = {} BY <2>3 DEF LBsNamed
  <2> QED BY <2>1, <2>2, <2>4 DEF Clean, Published, ELBsOf
<1>4. CASE /\ pc[<<t, "sync">>] \in EnsurePCs
           /\ want'[t] = want[t] /\ queued'[t] = queued[t]
      BY <1>4 DEF GoneInv, EnsurePCs, DeletePCs, Clean
<1> QED BY <1>1, <1>2, <1>3, <1>4, EveryStepSeen DEF SeenBy

\* When the ELB names are distinct, whatever fails and whenever the manager crashes,
\* the controller is not done with a service that is not wanted before its ELB, its
\* address and its finalizer are gone.
THEOREM UnwantedIsGone ==
    ASSUME NamesDistinct
    PROVE  Spec => []SettledIsGone
<1>1. Init => GoneInv
  <2> SUFFICES ASSUME Init, NEW s \in Services PROVE Clean(s) BY DEF GoneInv
  <2>1. <<s, "sync">> \in Procs BY DEF Procs, Workers
  <2> QED BY <2>1 DEF Init, CloudInit, Clean, Published, ELBsOf, LBsNamed
<1>2. TypeOK /\ LifecycleInv /\ GoneInv /\ [Next]_vars => GoneInv' BY GoneStep
<1>3. GoneInv => SettledIsGone
  <2> SUFFICES ASSUME GoneInv, NEW s \in Services, ~want[s], Settled(s)
               PROVE  ~fin[s] /\ ingress[s] = {} /\ LBsNamed(NameOf[s]) = {}
      BY DEF SettledIsGone
  <2>1. Clean(s) BY DEF GoneInv, Settled, DeletePCs
  <2> QED BY <2>1 DEF Clean, Published, ELBsOf
<1> QED BY <1>1, <1>2, <1>3, TypeCorrect, LifecycleInvariant, PTL DEF Spec

-----------------------------------------------------------------------------
(* The members of a node that stays in the cluster.                        *)

\* Where a worker works for the nodes it was called with.
CallPCs == EnsurePCs \cup {"updGet", "lisList", "orphanListener", "orphanPool"}

\* A worker was called with every node that stays, plans to add only nodes with an
\* address and to remove none that stays.
Plan(c, v) ==
    /\ c \in CallPCs => StableNodes \subseteq v.nodes
    /\ v.adds \subseteq NodesWithIP
    /\ \A m \in v.dels : m.addr \notin StableNodes

\* The inductive invariant behind StableMembersKept.
MembersInv ==
    /\ StableNodes \subseteq nodes
    /\ \A m \in members : m.addr \in NodesWithIP
    /\ \A p \in Procs : Plan(pc[p], loc[p])

\* A step that moves one worker by a sound plan and creates no member of a node
\* without an address.
LEMMA PlanMove ==
    ASSUME WorkerTypeOK, MembersInv, NEW p \in Procs, NEW c, NEW v, Goto(p, c, v),
           Plan(c, v), UNCHANGED nodes, \A m \in members' : m.addr \in NodesWithIP
    PROVE  MembersInv'
<1>1. pc'[p] = c /\ loc'[p] = v /\ OnlyMoves(p) BY GotoMoves
<1>2. StableNodes' = StableNodes BY DEF StableNodes
<1>3. \A q \in Procs : Plan(pc'[q], loc'[q]) BY <1>1 DEF MembersInv, OnlyMoves
<1>4. \A q \in Procs : Plan(pc[q], loc[q])' BY <1>2, <1>3 DEF Plan
<1> QED BY <1>2, <1>4 DEF MembersInv

\* The worker gives up, or goes on with its nodes and the members it has planned for.
GoesOn(p, c, v) ==
    \/ v = NoLoc /\ c \notin CallPCs
    \/ /\ c \in CallPCs => pc[p] \in CallPCs
       /\ v.nodes = loc[p].nodes /\ v.adds = loc[p].adds /\ v.dels = loc[p].dels

\* A worker that goes on, or gives up, still has a sound plan.
LEMMA PlanGoesOn ==
    ASSUME MembersInv, NEW p \in Procs, NEW c, NEW v, GoesOn(p, c, v)
    PROVE  Plan(c, v)
BY DEF GoesOn, MembersInv, Plan, NoLoc

\* Its step keeps MembersInv, unless it adds a member of a node without an address.
LEMMA PlanKept ==
    ASSUME WorkerTypeOK, MembersInv, NEW p \in Procs,
           \E c, v : Goto(p, c, v) /\ GoesOn(p, c, v),
           UNCHANGED nodes, \A m \in members' : m.addr \in NodesWithIP
    PROVE  MembersInv'
BY PlanGoesOn, PlanMove

\* Every update of the locals but those of adds and dels goes on.
LEMMA LocGoesOn ==
    ASSUME NEW v \in LocType
    PROVE  LET Same(w) == w.nodes = v.nodes /\ w.adds = v.adds /\ w.dels = v.dels
           IN  /\ \A x : /\ Same([v EXCEPT !.pool = x]) /\ Same([v EXCEPT !.lb = x])
                         /\ Same([v EXCEPT !.doomed = x]) /\ Same([v EXCEPT !.tries = x])
                         /\ Same([v EXCEPT !.eip = x])
               /\ \A x, y : /\ Same([v EXCEPT !.cur = x, !.todo = y])
                            /\ Same([v EXCEPT !.cur = x, !.pool = y])
                            /\ Same([v EXCEPT !.lb = x, !.eip = y])
                            /\ Same([v EXCEPT !.doomed = x, !.pool = y])
               /\ \A x, y, z : Same([v EXCEPT !.cur = x, !.todo = y, !.pool = z])
BY DEF LocType

\* A worker that fails gives up.
LEMMA FailGoesOn ==
    ASSUME NEW p \in Procs, Fail(p)
    PROVE  \E c, v : Goto(p, c, v) /\ GoesOn(p, c, v)
BY DEF Fail, GoesOn, CallPCs, EnsurePCs

\* The members a request adds or takes away.
LEMMA CloudKeepsAddresses ==
    ASSUME MembersInv
    PROVE  /\ UNCHANGED cloudVars => \A m \in members' : m.addr \in NodesWithIP
           /\ \A id, gone, hm, del : CloudDeletePool(id, gone, hm, del) =>
                 \A m \in members' : m.addr \in NodesWithIP
           /\ UNCHANGED members => \A m \in members' : m.addr \in NodesWithIP
BY DEF MembersInv, cloudVars, CloudDeletePool

\* A request of ensureListeners keeps MembersInv, and it removes members only at
\* memDel, by plan.
LEMMA ensureListenersPlan ==
    ASSUME TypeOK, MembersInv, UNCHANGED nodes, NEW p \in Procs, ensureListeners(p)
    PROVE  MembersInv' /\ \A m \in members \ members' : m.addr \notin StableNodes
<1> DEFINE Kept == \A m \in members \ members' : m.addr \notin StableNodes
           Addressed == \A m \in members' : m.addr \in NodesWithIP
           On == \E c, v : Goto(p, c, v) /\ GoesOn(p, c, v)
<1>0. WorkerTypeOK /\ loc[p] \in LocType BY DEF TypeOK, WorkerTypeOK
<1>1. ASSUME UNCHANGED members PROVE Kept /\ Addressed
      BY <1>1, CloudKeepsAddresses
<1>2. {"poolGet", "poolPost", "memList", "memAdd", "memDel", "lisGet", "lisPost", "hm",
       "sg"} \subseteq CallPCs
      BY DEF CallPCs, EnsurePCs
<1>3. CASE PoolGet(p)
  <2>1. \/ \E x, y : Goto(p, "poolPost", [loc[p] EXCEPT !.cur = x, !.todo = y])
        \/ \E x, y, z : Goto(p, "memList", [loc[p] EXCEPT !.cur = x, !.todo = y, !.pool = z])
    <3>1. PICK port \in loc[p].todo : \E r \in Outcomes : PoolGet(p)!2!(port, r)
          BY <1>3 DEF PoolGet
    <3> DEFINE u == [loc[p] EXCEPT !.cur = port]
               v == [u EXCEPT !.todo = loc[p].todo \ {port}]
    <3>2. \/ Goto(p, "poolPost", v)
          \/ \E q : Goto(p, "memList", [v EXCEPT !.pool = q.id])
          BY <3>1
    <3> QED BY <3>2
  <2>2. pc[p] \in CallPCs BY <1>2, <1>3 DEF PoolGet
  <2>3. \A c, x, y : GoesOn(p, c, [loc[p] EXCEPT !.cur = x, !.todo = y])
        BY <1>0, <2>2, LocGoesOn DEF GoesOn
  <2>4. \A c, x, y, z : GoesOn(p, c, [loc[p] EXCEPT !.cur = x, !.todo = y, !.pool = z])
        BY <1>0, <2>2, LocGoesOn DEF GoesOn
  <2>5. On BY <2>1, <2>3, <2>4
  <2> QED BY <1>0, <1>1, <1>3, <2>5, PlanKept DEF PoolGet, cloudVars
<1>4. CASE PoolPost(p)
  <2>1. (\E x : Goto(p, "memList", [loc[p] EXCEPT !.pool = x])) \/ Fail(p)
        BY <1>4 DEF PoolPost
  <2>2. pc[p] \in CallPCs BY <1>2, <1>4 DEF PoolPost
  <2>3. \A c, x : GoesOn(p, c, [loc[p] EXCEPT !.pool = x])
        BY <1>0, <2>2, LocGoesOn DEF GoesOn
  <2>4. On BY <2>1, <2>3, FailGoesOn
  <2>5. UNCHANGED members BY <1>4 DEF PoolPost, CloudCreatePool, cloudVars
  <2> QED BY <1>0, <1>1, <2>4, <2>5, PlanKept
<1>5. CASE MemList(p)
  <2>1. UNCHANGED members BY <1>5 DEF MemList, cloudVars
  <2>2. CASE Fail(p) BY <1>0, <1>1, <2>1, <2>2, FailGoesOn, PlanKept
  <2>3. CASE ~Fail(p)
    <3>1. PICK existing \in SUBSET members :
            LET ips == NodeIPs(loc[p].nodes)
                adds == ips \ {m.addr : m \in existing}
                dels == {m \in existing : m.addr \notin ips}
            IN  Goto(p, NextMember(adds, dels),
                     [loc[p] EXCEPT !.adds = adds, !.dels = dels])
      <4>1. \A x : \A e \in ByAddress(IF x THEN MembersOf(loc[p].pool) ELSE {}) :
               e \subseteq members
            BY DEF ByAddress, MembersOf
      <4> QED BY <1>5, <2>3, <4>1 DEF MemList
    <3> DEFINE ips == NodeIPs(loc[p].nodes)
               adds == ips \ {m.addr : m \in existing}
               dels == {m \in existing : m.addr \notin ips}
               v == [loc[p] EXCEPT !.adds = adds, !.dels = dels]
    <3>2. v.nodes = loc[p].nodes /\ v.adds = adds /\ v.dels = dels
          BY <1>0 DEF LocType
    <3>3. pc[p] \in CallPCs BY <1>2, <1>5 DEF MemList
    <3>4. StableNodes \subseteq loc[p].nodes BY <3>3 DEF MembersInv, Plan
    <3>5. adds \subseteq NodesWithIP BY DEF NodeIPs
    <3>6. \A m \in dels : m.addr \notin StableNodes BY <3>4 DEF NodeIPs, MembersInv
    <3>7. Plan(NextMember(adds, dels), v) BY <3>2, <3>4, <3>5, <3>6 DEF Plan
    <3>8. Goto(p, NextMember(adds, dels), v) BY <3>1
    <3> HIDE DEF v, adds, dels
    <3> QED BY <1>0, <1>1, <2>1, <3>7, <3>8, PlanMove
  <2> QED BY <2>2, <2>3
<1>6. CASE MemAdd(p)
  <2>1. PICK a \in loc[p].adds : \E r \in Outcomes : MemAdd(p)!2!(a, r) BY <1>6 DEF MemAdd
  <2> DEFINE adds == loc[p].adds \ {a}
             v == [loc[p] EXCEPT !.adds = adds]
             m == [pool |-> loc[p].pool, addr |-> a, nodePort |-> loc[p].cur.nodePort]
  <2>2. Goto(p, NextMember(adds, loc[p].dels), v) BY <2>1
  <2>3. members' = members \cup {m} \/ members' = members
        BY <2>1 DEF CloudSetMembers, cloudVars
  <2>4. v.nodes = loc[p].nodes /\ v.adds = adds /\ v.dels = loc[p].dels
        BY <1>0 DEF LocType
  <2>5. Plan(pc[p], loc[p]) /\ pc[p] \in CallPCs
        BY <1>2, <1>6 DEF MembersInv, MemAdd
  <2>6. m.addr \in NodesWithIP BY <2>5 DEF Plan
  <2>7. Plan(NextMember(adds, loc[p].dels), v) BY <2>4, <2>5 DEF Plan
  <2>8. Kept /\ Addressed
    <3> HIDE DEF m
    <3> QED BY <2>3, <2>6 DEF MembersInv
  <2> HIDE DEF v, adds
  <2> QED BY <1>0, <2>2, <2>7, <2>8, PlanMove
<1>7. CASE MemDel(p)
  <2>1. PICK m \in loc[p].dels : \E r \in Outcomes : MemDel(p)!2!(m, r) BY <1>7 DEF MemDel
  <2> DEFINE dels == loc[p].dels \ {m}
             v == [loc[p] EXCEPT !.dels = dels]
  <2>2. Goto(p, NextMember({}, dels), v) BY <2>1
  <2>3. members' = members \ {m} \/ members' = members
        BY <2>1 DEF CloudSetMembers, cloudVars
  <2>4. v.nodes = loc[p].nodes /\ v.adds = loc[p].adds /\ v.dels = dels
        BY <1>0 DEF LocType
  <2>5. Plan(pc[p], loc[p]) /\ pc[p] \in CallPCs
        BY <1>2, <1>7 DEF MembersInv, MemDel
  <2>6. Plan(NextMember({}, dels), v) BY <2>4, <2>5 DEF Plan
  <2>7. Kept /\ Addressed BY <2>3, <2>5 DEF Plan, MembersInv
  <2> HIDE DEF v, dels
  <2> QED BY <1>0, <2>2, <2>6, <2>7, PlanMove
<1>8. CASE LisGet(p)
  <2>1. On BY <1>0, <1>2, <1>8 DEF GoesOn, LisGet
  <2> QED BY <1>0, <1>1, <1>8, <2>1, PlanKept DEF LisGet, cloudVars
<1>9. CASE LisPost(p)
  <2>1. Goto(p, "hm", loc[p]) \/ Fail(p) BY <1>9 DEF LisPost
  <2>2. On BY <1>0, <1>2, <1>9, <2>1, FailGoesOn DEF GoesOn, LisPost
  <2>3. UNCHANGED members BY <1>9 DEF LisPost, CloudCreateListener, cloudVars
  <2> QED BY <1>0, <1>1, <2>2, <2>3, PlanKept
<1>10. CASE EnsureHealthMonitor(p)
  <2>1. \E c : Goto(p, c, [loc[p] EXCEPT !.cur = NoPort, !.pool = 0])
        BY <1>10 DEF EnsureHealthMonitor
  <2>2. pc[p] \in CallPCs BY <1>2, <1>10 DEF EnsureHealthMonitor
  <2>3. \A c : GoesOn(p, c, [loc[p] EXCEPT !.cur = NoPort, !.pool = 0])
        BY <1>0, <2>2, LocGoesOn DEF GoesOn
  <2>4. On BY <2>1, <2>3
  <2> QED BY <1>0, <1>1, <1>10, <2>4, PlanKept DEF EnsureHealthMonitor
<1> QED BY <1>3, <1>4, <1>5, <1>6, <1>7, <1>8, <1>9, <1>10 DEF ensureListeners

\* No member of a node that stays is taken away, but with its whole pool.
MembersKept ==
    \A m \in members \ members' :
        m.addr \in StableNodes => \E s \in Services : RemovesPool(s, m.pool)

\* A request that takes no member away, by a worker that goes on.
LEMMA NoMemberGone ==
    ASSUME TypeOK, MembersInv, UNCHANGED <<nodes, members>>, NEW p \in Procs,
           \E c, v : Goto(p, c, v) /\ GoesOn(p, c, v)
    PROVE  MembersInv' /\ MembersKept
<1>1. WorkerTypeOK BY DEF TypeOK
<1>2. \A m \in members' : m.addr \in NodesWithIP BY CloudKeepsAddresses
<1> QED BY <1>1, <1>2, PlanKept DEF MembersKept

\* The deletion of a pool takes members of that pool only.
LEMMA PoolTakesItsMembers ==
    ASSUME NEW id, NEW gone \in SUBSET MembersOf(id), NEW hm, NEW del,
           CloudDeletePool(id, gone, hm, del)
    PROVE  \A m \in members \ members' : m.pool = id
BY DEF CloudDeletePool, MembersOf

\* EnsureLoadBalancer keeps MembersInv.
LEMMA EnsurePlan ==
    ASSUME TypeOK, MembersInv, UNCHANGED nodes, NEW s \in Services, EnsureLoadBalancer(s)
    PROVE  MembersInv' /\ MembersKept
<1> DEFINE p == <<s, "sync">>
           On == \E c, v : Goto(p, c, v) /\ GoesOn(p, c, v)
<1>0. p \in Procs /\ loc[p] \in LocType BY ProcTypes DEF TypeOK
<1>1. CASE ensureListeners(p) BY <1>0, <1>1, ensureListenersPlan DEF MembersKept
<1>2. ASSUME pc[p] \in CallPCs, NEW lb, NEW es, Configure(p, lb, es) PROVE On
  <2>1. \E c, x : Goto(p, c, [loc[p] EXCEPT !.lb = lb, !.eip = x])
        BY <1>2 DEF Configure
  <2>2. \A c, x : GoesOn(p, c, [loc[p] EXCEPT !.lb = lb, !.eip = x])
        BY <1>0, <1>2, LocGoesOn DEF GoesOn
  <2> QED BY <2>1, <2>2
<1>3. {"ensGet", "lbPost", "sg"} \subseteq CallPCs BY DEF CallPCs, EnsurePCs
<1>4. CASE EnsureGet(s)
  <2>1. pc[p] \in CallPCs BY <1>3, <1>4 DEF EnsureGet
  <2>2. GoesOn(p, "lbPost", loc[p]) BY <2>1 DEF GoesOn
  <2>3. \/ Fail(p) \/ Goto(p, "lbPost", loc[p]) \/ \E lb, es : Configure(p, lb, es)
        BY <1>4 DEF EnsureGet
  <2>4. On BY <1>0, <1>2, <2>1, <2>2, <2>3, FailGoesOn
  <2> QED BY <1>0, <1>4, <2>4, NoMemberGone DEF EnsureGet, cloudVars
<1>5. CASE CreateLoadBalancer(s)
  <2>1. pc[p] \in CallPCs BY <1>3, <1>5 DEF CreateLoadBalancer
  <2>2. Fail(p) \/ \E lb, es : Configure(p, lb, es) BY <1>5 DEF CreateLoadBalancer
  <2>3. On BY <1>0, <1>2, <2>1, <2>2, FailGoesOn
  <2>4. UNCHANGED members BY <1>5 DEF CreateLoadBalancer, CloudCreateLB, cloudVars
  <2> QED BY <1>0, <2>3, <2>4, NoMemberGone
<1>6. CASE EnsureELBSecurityGroup(s)
  <2>1. On BY <1>3, <1>6 DEF EnsureELBSecurityGroup, GoesOn
  <2> QED BY <1>0, <1>6, <2>1, NoMemberGone DEF EnsureELBSecurityGroup
<1> QED BY <1>1, <1>4, <1>5, <1>6 DEF EnsureLoadBalancer

\* The deletion of a load balancer keeps MembersInv.
LEMMA DeletionPlan ==
    ASSUME TypeOK, MembersInv, UNCHANGED nodes, NEW s \in Services,
           GetLoadBalancer(s) \/ EnsureLoadBalancerDeleted(s)
    PROVE  MembersInv' /\ MembersKept
<1> DEFINE p == <<s, "sync">>
           On == \E c, v : Goto(p, c, v) /\ GoesOn(p, c, v)
<1>0. WorkerTypeOK /\ p \in Procs /\ loc[p] \in LocType BY ProcTypes DEF TypeOK
<1>1. DeletePCs \cap CallPCs = {} BY DEF DeletePCs, CallPCs, EnsurePCs
<1>2. \A c \in DeletePCs : \A x, y :
        /\ GoesOn(p, c, loc[p]) /\ GoesOn(p, c, NoLoc)
        /\ GoesOn(p, c, [loc[p] EXCEPT !.pool = x])
        /\ GoesOn(p, c, [loc[p] EXCEPT !.doomed = x])
        /\ GoesOn(p, c, [loc[p] EXCEPT !.tries = x])
        /\ GoesOn(p, c, [loc[p] EXCEPT !.eip = x])
        /\ GoesOn(p, c, [loc[p] EXCEPT !.lb = x, !.eip = y])
      BY <1>0, <1>1, LocGoesOn DEF GoesOn
<1>3. CASE GetLoadBalancer(s)
  <2>1. Fail(p) \/ \E c \in DeletePCs : Goto(p, c, loc[p])
        BY <1>3 DEF GetLoadBalancer, DeletePCs
  <2>2. On BY <1>0, <1>2, <2>1, FailGoesOn
  <2> QED BY <1>0, <1>3, <2>2, NoMemberGone DEF GetLoadBalancer, cloudVars
<1>4. CASE DeleteGet(s)
  <2>1. \/ Fail(p)
        \/ \E c \in DeletePCs : \/ Goto(p, c, NoLoc)
                                \/ \E x, y : Goto(p, c, [loc[p] EXCEPT !.lb = x, !.eip = y])
        BY <1>4 DEF DeleteGet, DeletePCs
  <2>2. On BY <1>0, <1>2, <2>1, FailGoesOn
  <2> QED BY <1>0, <1>4, <2>2, NoMemberGone DEF DeleteGet, cloudVars
<1>5. CASE FindEIP(s) \/ ReleaseBoundEIP(s)
  <2>1. \E c \in DeletePCs : \/ Goto(p, c, loc[p])
                             \/ \E x : Goto(p, c, [loc[p] EXCEPT !.pool = x])
        BY <1>5 DEF FindEIP, ReleaseBoundEIP, DeletePCs
  <2>2. On BY <1>2, <2>1
  <2>3. UNCHANGED members
        BY <1>5 DEF FindEIP, ReleaseBoundEIP, CloudReleaseEIP, cloudVars
  <2> QED BY <1>0, <2>2, <2>3, NoMemberGone
<1>6. CASE ListListeners(s) \/ DeleteListener(s) \/ ListPools(s)
  <2>1. Fail(p) \/ \E c \in DeletePCs : \E x : Goto(p, c, [loc[p] EXCEPT !.doomed = x])
        BY <1>6 DEF ListListeners, DeleteListener, ListPools, DeletePCs
  <2>2. On BY <1>0, <1>2, <2>1, FailGoesOn
  <2>3. UNCHANGED members
        BY <1>6 DEF ListListeners, DeleteListener, ListPools, CloudDeleteListener, cloudVars
  <2> QED BY <1>0, <2>2, <2>3, NoMemberGone
<1>7. CASE DeletePool(s)
  <2>1. Fail(p) \/ \E c \in DeletePCs : \E x : Goto(p, c, [loc[p] EXCEPT !.doomed = x])
        BY <1>7 DEF DeletePool, DeletePCs
  <2>2. On BY <1>0, <1>2, <2>1, FailGoesOn
  <2>3. \A m \in members' : m.addr \in NodesWithIP
        BY <1>7, CloudKeepsAddresses DEF DeletePool
  <2>4. pc[p] = "delPool" BY <1>7 DEF DeletePool
  <2>5. PICK d \in loc[p].doomed : \E r \in Outcomes, hm \in BOOLEAN :
          \E gone \in SUBSET MembersOf(d.id) :
             /\ CloudDeletePool(d.id, gone, hm, Applied(r))
             /\ IF r \in {"neterr", "lost"} THEN Fail(p)
                ELSE Goto(p, IF loc[p].doomed # {d} THEN "delPool" ELSE "delLB",
                          [loc[p] EXCEPT !.doomed = @ \ {d}])
        BY <1>7 DEF DeletePool
  <2>6. \A m \in members \ members' : m.pool = d.id BY <2>5, PoolTakesItsMembers
  <2>7. d \notin loc'[p].doomed
    <3>1. d \notin NoLoc.doomed BY DEF NoLoc
    <3>2. d \notin [loc[p] EXCEPT !.doomed = @ \ {d}].doomed BY <1>0 DEF LocType
    <3>3. \E c, v : Goto(p, c, v) /\ d \notin v.doomed BY <2>5, <3>1, <3>2 DEF Fail
    <3> QED BY <1>0, <3>3, GotoMoves
  <2>8. RemovesPool(s, d.id) BY <2>4, <2>7 DEF RemovesPool
  <2> QED BY <1>0, <2>2, <2>3, <2>6, <2>8, PlanKept DEF MembersKept
<1>8. CASE DeleteLoadBalancer(s)
  <2>1. \/ Fail(p)
        \/ \E c \in DeletePCs : \/ Goto(p, c, loc[p])
                                \/ \E x : Goto(p, c, [loc[p] EXCEPT !.tries = x])
        BY <1>8 DEF DeleteLoadBalancer, DeletePCs
  <2>2. On BY <1>0, <1>2, <2>1, FailGoesOn
  <2>3. UNCHANGED members BY <1>8 DEF DeleteLoadBalancer, CloudDeleteLB, cloudVars
  <2> QED BY <1>0, <2>2, <2>3, NoMemberGone
<1>9. CASE ReleaseOrphanedEIP(s)
  <2>1. \E c \in DeletePCs : \E x : Goto(p, c, [loc[p] EXCEPT !.eip = x])
        BY <1>9 DEF ReleaseOrphanedEIP, DeletePCs
  <2>2. On BY <1>2, <2>1
  <2>3. UNCHANGED members BY <1>9 DEF ReleaseOrphanedEIP, CloudReleaseEIP, cloudVars
  <2> QED BY <1>0, <2>2, <2>3, NoMemberGone
<1> QED BY <1>3, <1>4, <1>5, <1>6, <1>7, <1>8, <1>9 DEF EnsureLoadBalancerDeleted

\* UpdateLoadBalancer keeps MembersInv.
LEMMA UpdatePlan ==
    ASSUME TypeOK, MembersInv, UNCHANGED nodes, NEW s \in Services, UpdateLoadBalancer(s)
    PROVE  MembersInv' /\ MembersKept
<1> DEFINE p == <<s, "node">>
           On == \E c, v : Goto(p, c, v) /\ GoesOn(p, c, v)
<1>0. WorkerTypeOK /\ p \in Procs /\ loc[p] \in LocType BY ProcTypes DEF TypeOK
<1>1. CASE ensureListeners(p) BY <1>0, <1>1, ensureListenersPlan DEF MembersKept
<1>2. ASSUME pc[p] \in CallPCs
      PROVE  \A c, x, y : /\ GoesOn(p, c, [loc[p] EXCEPT !.lb = x])
                          /\ GoesOn(p, c, [loc[p] EXCEPT !.pool = x])
                          /\ GoesOn(p, c, [loc[p] EXCEPT !.doomed = x])
                          /\ GoesOn(p, c, [loc[p] EXCEPT !.doomed = x, !.pool = y])
      BY <1>0, <1>2, LocGoesOn DEF GoesOn
<1>3. {"updGet", "lisList", "orphanListener", "orphanPool"} \subseteq CallPCs BY DEF CallPCs
<1>4. CASE UpdateGet(s)
  <2>1. Fail(p) \/ \E c, x : Goto(p, c, [loc[p] EXCEPT !.lb = x]) BY <1>4 DEF UpdateGet
  <2>2. pc[p] \in CallPCs BY <1>3, <1>4 DEF UpdateGet
  <2>3. On BY <1>0, <1>2, <2>1, <2>2, FailGoesOn
  <2> QED BY <1>0, <1>4, <2>3, NoMemberGone DEF UpdateGet, cloudVars
<1>5. CASE SyncList(s)
  <2>1. \E c, x : Goto(p, c, [loc[p] EXCEPT !.doomed = x]) BY <1>5 DEF SyncList
  <2>2. pc[p] \in CallPCs BY <1>3, <1>5 DEF SyncList
  <2>3. On BY <1>2, <2>1, <2>2
  <2> QED BY <1>0, <1>5, <2>3, NoMemberGone DEF SyncList, cloudVars
<1>6. CASE OrphanListener(s)
  <2>1. \E c, x, y : Goto(p, c, [loc[p] EXCEPT !.doomed = x, !.pool = y])
        BY <1>6 DEF OrphanListener
  <2>2. pc[p] \in CallPCs BY <1>3, <1>6 DEF OrphanListener
  <2>3. On BY <1>2, <2>1, <2>2
  <2>4. UNCHANGED members BY <1>6 DEF OrphanListener, CloudDeleteListener, cloudVars
  <2> QED BY <1>0, <2>3, <2>4, NoMemberGone
<1>7. CASE OrphanPool(s)
  <2>1. \E c, x : Goto(p, c, [loc[p] EXCEPT !.pool = x]) BY <1>7 DEF OrphanPool
  <2>2. pc[p] = "orphanPool" BY <1>7 DEF OrphanPool
  <2>3. On BY <1>2, <1>3, <2>1, <2>2
  <2>4. \A m \in members' : m.addr \in NodesWithIP
        BY <1>7, CloudKeepsAddresses DEF OrphanPool
  <2>5. \A m \in members \ members' : m.pool = loc[p].pool
        BY <1>7, PoolTakesItsMembers DEF OrphanPool
  <2>6. pc'[p] # "orphanPool"
    <3>1. NextOrphan(loc[p].doomed, loc[p]) # "orphanPool" BY DEF NextOrphan, NextPort
    <3> QED BY <1>0, <1>7, <3>1, GotoMoves DEF OrphanPool
  <2>7. RemovesPool(s, loc[p].pool) BY <2>2, <2>6 DEF RemovesPool
  <2> QED BY <1>0, <2>3, <2>4, <2>5, <2>7, PlanKept DEF MembersKept
<1> QED BY <1>1, <1>4, <1>5, <1>6, <1>7 DEF UpdateLoadBalancer

\* A call with the nodes of the cluster is a sound plan, and so is none.
LEMMA CallPlan ==
    ASSUME MembersInv
    PROVE  /\ \A c, ps : Plan(c, Call(ps, nodes))
           /\ \A c : c \notin CallPCs => Plan(c, NoLoc)
BY DEF MembersInv, Plan, Call, NoLoc

\* The steps of the controller keep MembersInv and take no member away.
LEMMA ControllerPlan ==
    ASSUME TypeOK, MembersInv, NEW s \in Services,
           \/ SyncService(s) \/ PublishStatus(s) \/ RemoveFinalizer(s) \/ Requeue(s)
           \/ SyncNodes(s) \/ NodesSynced(s) \/ RetryNodes(s)
    PROVE  MembersInv' /\ MembersKept
<1>0. WorkerTypeOK /\ <<s, "sync">> \in Procs /\ <<s, "node">> \in Procs
      BY ProcTypes DEF TypeOK
<1>1. UNCHANGED <<nodes, members>>
      BY DEF SyncService, PublishStatus, RemoveFinalizer, Requeue, SyncNodes, NodesSynced,
             RetryNodes, cloudVars, k8sVars
<1>2. \A m \in members' : m.addr \in NodesWithIP BY <1>1, CloudKeepsAddresses
<1>3. "idle" \notin CallPCs /\ "delCheck" \notin CallPCs BY DEF CallPCs, EnsurePCs
<1>4. \/ UNCHANGED procVars
      \/ \E p \in Procs : \E c :
            \/ \E ps : Goto(p, c, Call(ps, nodes))
            \/ c \in {"idle", "delCheck"} /\ Goto(p, c, NoLoc)
      BY <1>0 DEF SyncService, PublishStatus, RemoveFinalizer, Requeue, SyncNodes,
                  NodesSynced, RetryNodes
<1>5. CASE UNCHANGED procVars
      BY <1>1, <1>2, <1>5 DEF procVars, MembersInv, Plan, StableNodes, MembersKept
<1>6. ASSUME NEW p \in Procs, NEW c, NEW ps, Goto(p, c, Call(ps, nodes))
      PROVE  MembersInv' /\ MembersKept
  <2>1. Plan(c, Call(ps, nodes)) BY CallPlan
  <2> QED BY <1>0, <1>1, <1>2, <1>6, <2>1, PlanMove DEF MembersKept
<1>7. ASSUME NEW p \in Procs, NEW c \in {"idle", "delCheck"}, Goto(p, c, NoLoc)
      PROVE  MembersInv' /\ MembersKept
  <2>1. Plan(c, NoLoc) BY <1>3, CallPlan
  <2> QED BY <1>0, <1>1, <1>2, <1>7, <2>1, PlanMove DEF MembersKept
<1> QED BY <1>4, <1>5, <1>6, <1>7

\* Users, nodes, crashes and the cloud keep MembersInv and take no member away.
LEMMA EnvironmentPlan ==
    ASSUME TypeOK, MembersInv,
           \/ \E s \in Services : ApplyService(s) \/ RemoveService(s)
           \/ ChangeNodes \/ Crash \/ Cloud \/ UNCHANGED vars
    PROVE  MembersInv' /\ MembersKept
<1>1. UNCHANGED members
      BY DEF ApplyService, RemoveService, ChangeNodes, Crash, Cloud, ReapListener, ReapPool,
             cloudVars, vars
<1>2. MembersKept BY <1>1 DEF MembersKept
<1>3. StableNodes' = StableNodes BY DEF StableNodes
<1>4. StableNodes \subseteq nodes'
  <2>1. CASE ChangeNodes BY <2>1 DEF ChangeNodes, StableNodes
  <2>2. CASE ~ChangeNodes
        BY <2>2 DEF ApplyService, RemoveService, Crash, Cloud, k8sVars, vars, MembersInv
  <2> QED BY <2>1, <2>2
<1>5. \A p \in Procs : Plan(pc'[p], loc'[p])
  <2>1. CASE Crash
    <3>1. "idle" \notin CallPCs BY DEF CallPCs, EnsurePCs
    <3> QED BY <2>1, <3>1, CallPlan DEF Crash
  <2>2. CASE ~Crash
        BY <2>2 DEF ApplyService, RemoveService, ChangeNodes, Cloud, vars, procVars,
                    MembersInv
  <2> QED BY <2>1, <2>2
<1>6. \A p \in Procs : Plan(pc[p], loc[p])' BY <1>3, <1>5 DEF Plan
<1> QED BY <1>1, <1>2, <1>3, <1>4, <1>6 DEF MembersInv

\* Every step keeps MembersInv and the members of the nodes that stay.
LEMMA MembersStep ==
    ASSUME TypeOK, MembersInv, [Next]_vars
    PROVE  MembersInv' /\ MembersKept
<1>1. ASSUME NEW s \in Services, SyncWorker(s) PROVE MembersInv' /\ MembersKept
      BY <1>1, ControllerPlan, EnsurePlan, DeletionPlan DEF SyncWorker, k8sVars
<1>2. ASSUME NEW s \in Services, NodeWorker(s) PROVE MembersInv' /\ MembersKept
      BY <1>2, ControllerPlan, UpdatePlan DEF NodeWorker, k8sVars
<1>3. CASE \/ \E s \in Services : ApplyService(s) \/ RemoveService(s)
           \/ ChangeNodes \/ Crash \/ Cloud \/ UNCHANGED vars
      BY <1>3, EnvironmentPlan
<1> QED BY <1>1, <1>2, <1>3 DEF Next

\* Whatever node lists the two workers of a service hold, however their requests
\* interleave and whatever fails, a node that is in the cluster all the time leaves a
\* pool only in a step that removes this pool.
THEOREM MembersStay == Spec => StableMembersKept
<1>1. Init => MembersInv
      BY DEF Init, CloudInit, MembersInv, StableNodes, Plan, NoLoc, CallPCs, EnsurePCs
<1>2. TypeOK /\ MembersInv /\ [Next]_vars => MembersInv' BY MembersStep
<1>3. TypeOK /\ MembersInv /\ [Next]_vars => [MembersKept]_vars BY MembersStep
<1> QED BY <1>1, <1>2, <1>3, TypeCorrect, PTL DEF Spec, StableMembersKept, MembersKept
=============================================================================
