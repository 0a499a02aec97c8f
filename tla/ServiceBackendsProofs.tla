------------------------ MODULE ServiceBackendsProofs ------------------------
(* How a settled Service is balanced.  First the nodePorts of the members,  *)
(* whatever fails (OnNodePorts); then every port balanced to exactly the    *)
(* nodes, with a health monitor and a security group rule, as long as no    *)
(* call has failed and the nodes have not changed (FaultFreeBackends): only *)
(* the sync worker of a Service works on its ELB then, and what it has done *)
(* for a port stays until it deletes the load balancer (BackendsInv).  Last *)
(* whose address a Service publishes (ClaimsInv).                           *)
EXTENDS ServiceServedProofs

-----------------------------------------------------------------------------
(* The nodePorts of members, whatever fails.                               *)

\* A port number stands for one port: no edit changes its protocol or its nodePort.
PortsFixed ==
    \A q1, q2 \in UNION PortSets : q1.port = q2.port => q1 = q2

\* The members of a pool are on the nodePort of the pool's port.
OnNodePorts ==
    \A m \in members :
        /\ m.pool < nextId
        /\ \A q \in pools, r \in UNION PortSets :
             q.id = m.pool /\ q.port = r.port => m.nodePort = r.nodePort

\* No member is added, and no pool for another port takes a place,
MembersAge ==
    /\ members' \subseteq members
    /\ nextId' \in Nat /\ nextId' >= nextId
    /\ \A q \in pools' : \/ q.id >= nextId
                         \/ \E x \in pools : x.id = q.id /\ x.port = q.port
\* or a worker adds a member to its pool.
MemberAdded(p) ==
    LET v == loc[p]
    IN  /\ pc[p] = "memAdd"
        /\ \E a \in v.adds :
             CloudSetMembers(members \cup {[pool |-> v.pool, addr |-> a,
                                            nodePort |-> v.cur.nodePort]})

\* What the calls do to the members.
LEMMA MembersLeft ==
    ASSUME TypeOK, UNCHANGED <<members, pools, nextId>>
    PROVE  MembersAge
BY CloudTypes DEF MembersAge

LEMMA PoolTaken ==
    ASSUME TypeOK, NEW i, NEW gone, NEW hm, NEW del, CloudDeletePool(i, gone, hm, del)
    PROVE  MembersAge
<1>1. /\ pools' = {IF (del /\ ~PoolInUse(i)) /\ q.id = i
                   THEN [q EXCEPT !.dying = TRUE] ELSE q : q \in pools}
      /\ members' \subseteq members /\ nextId' = nextId
      BY DEF CloudDeletePool
<1>2. \A x \in pools : x \in [id : Nat, lb : Nat, port : Nat, proto : {"TCP", "UDP"},
                              dying : BOOLEAN]
      BY DEF TypeOK, CloudTypeOK
<1>3. \A q \in pools' : \E x \in pools : q = x \/ q = [x EXCEPT !.dying = TRUE]
      BY <1>1
<1>4. \A q \in pools' : \E x \in pools : x.id = q.id /\ x.port = q.port
      BY <1>2, <1>3
<1> QED BY <1>1, <1>4, CloudTypes DEF MembersAge

LEMMA EnsureMembersEffect ==
    ASSUME TypeOK, NEW p, ensureListeners(p)
    PROVE  MembersAge \/ MemberAdded(p)
<1>1. nextId \in Nat BY CloudTypes
<1>2. UNCHANGED cloudVars => MembersAge BY MembersLeft DEF cloudVars
<1>3. CASE PoolGet(p) \/ MemList(p) \/ LisGet(p)
      BY <1>2, <1>3 DEF PoolGet, MemList, LisGet
<1>4. CASE PoolPost(p)
  <2> DEFINE v == loc[p]
             new == [id |-> nextId, lb |-> v.lb, port |-> v.cur.port,
                     proto |-> Protocol(v.cur), dying |-> FALSE]
  <2>1. \/ UNCHANGED cloudVars
        \/ pools' = pools \cup {new} /\ members' = members /\ nextId' = nextId + 1
        BY <1>4 DEF PoolPost, CloudCreatePool
  <2>2. new.id = nextId OBVIOUS
  <2> HIDE DEF new
  <2> QED BY <1>1, <1>2, <2>1, <2>2 DEF MembersAge
<1>5. CASE MemAdd(p) BY <1>2, <1>5 DEF MemAdd, MemberAdded
<1>6. CASE MemDel(p)
  <2>1. UNCHANGED cloudVars \/ \E m : CloudSetMembers(members \ {m})
        BY <1>6 DEF MemDel
  <2> QED BY <1>1, <1>2, <2>1 DEF CloudSetMembers, MembersAge
<1>7. CASE LisPost(p)
  <2>1. \/ UNCHANGED cloudVars
        \/ UNCHANGED <<members, pools>> /\ nextId' = nextId + 1
        BY <1>7 DEF LisPost, CloudCreateListener
  <2> QED BY <1>1, <1>2, <2>1 DEF MembersAge
<1>8. CASE EnsureHealthMonitor(p)
      BY <1>8, MembersLeft DEF EnsureHealthMonitor
<1> QED BY <1>3, <1>4, <1>5, <1>6, <1>7, <1>8 DEF ensureListeners

LEMMA DeletionEffect ==
    ASSUME TypeOK, NEW s \in Services, EnsureLoadBalancerDeleted(s)
    PROVE  MembersAge
<1>1. CASE DeletePool(s)
  <2>1. \E i, gone, hm, del : CloudDeletePool(i, gone, hm, del)
        BY <1>1 DEF DeletePool
  <2> QED BY <2>1, PoolTaken
<1>2. CASE ~DeletePool(s)
  <2>1. UNCHANGED <<members, pools, nextId>>
        BY <1>2 DEF EnsureLoadBalancerDeleted, DeleteGet, FindEIP, ReleaseBoundEIP,
           ListListeners, DeleteListener, ListPools, DeleteLoadBalancer,
           ReleaseOrphanedEIP, CloudReleaseEIP, CloudDeleteListener, CloudDeleteLB,
           cloudVars
  <2> QED BY <2>1, MembersLeft
<1> QED BY <1>1, <1>2

LEMMA MembersEffect ==
    ASSUME TypeOK, [Next]_vars
    PROVE  MembersAge \/ \E p \in Procs : MemberAdded(p)
<1>0. UNCHANGED cloudVars => MembersAge BY MembersLeft DEF cloudVars
<1>1. CASE UNCHANGED vars \/ ChangeNodes \/ Crash
      BY <1>0, <1>1 DEF vars, ChangeNodes, Crash
<1>2. CASE Cloud
      BY <1>2, CloudTypes DEF Cloud, ReapListener, ReapPool, MembersAge
<1>3. ASSUME NEW s \in Services, ApplyService(s) \/ RemoveService(s) PROVE MembersAge
      BY <1>0, <1>3 DEF ApplyService, RemoveService
<1>4. ASSUME NEW s \in Services, SyncWorker(s)
      PROVE  MembersAge \/ MemberAdded(<<s, "sync">>)
  <2>1. CASE SyncService(s) \/ PublishStatus(s) \/ RemoveFinalizer(s) \/ Requeue(s)
        BY <1>0, <2>1 DEF SyncService, PublishStatus, RemoveFinalizer, Requeue
  <2>2. CASE EnsureLoadBalancer(s)
    <3>1. CASE ensureListeners(<<s, "sync">>) BY <3>1, EnsureMembersEffect
    <3>2. CASE EnsureGet(s) BY <1>0, <3>2 DEF EnsureGet
    <3>3. CASE CreateLoadBalancer(s)
      <4>1. \/ UNCHANGED cloudVars
            \/ UNCHANGED <<members, pools>> /\ nextId' = nextId + 2
            BY <3>3 DEF CreateLoadBalancer, CloudCreateLB
      <4> QED BY <1>0, <4>1, CloudTypes DEF MembersAge
    <3>4. CASE EnsureELBSecurityGroup(s)
          BY <3>4, MembersLeft DEF EnsureELBSecurityGroup
    <3> QED BY <2>2, <3>1, <3>2, <3>3, <3>4 DEF EnsureLoadBalancer
  <2>3. CASE GetLoadBalancer(s) BY <1>0, <2>3 DEF GetLoadBalancer
  <2>4. CASE EnsureLoadBalancerDeleted(s) BY <2>4, DeletionEffect
  <2> QED BY <1>4, <2>1, <2>2, <2>3, <2>4 DEF SyncWorker
<1>5. ASSUME NEW s \in Services, NodeWorker(s)
      PROVE  MembersAge \/ MemberAdded(<<s, "node">>)
  <2>1. CASE SyncNodes(s) \/ NodesSynced(s) \/ RetryNodes(s)
        BY <1>0, <2>1 DEF SyncNodes, NodesSynced, RetryNodes
  <2>2. CASE ensureListeners(<<s, "node">>) BY <2>2, EnsureMembersEffect
  <2>3. CASE UpdateGet(s) \/ SyncList(s) BY <1>0, <2>3 DEF UpdateGet, SyncList
  <2>4. CASE OrphanListener(s)
        BY <1>0, <2>4, MembersLeft DEF OrphanListener, CloudDeleteListener
  <2>5. CASE OrphanPool(s)
    <3>1. \E i, gone, hm, del : CloudDeletePool(i, gone, hm, del)
          BY <2>5 DEF OrphanPool
    <3> QED BY <3>1, PoolTaken
  <2> QED BY <1>5, <2>1, <2>2, <2>3, <2>4, <2>5 DEF NodeWorker, UpdateLoadBalancer
<1>6. \A s \in Services : <<s, "sync">> \in Procs /\ <<s, "node">> \in Procs
      BY DEF Procs, Workers
<1> QED BY <1>1, <1>2, <1>3, <1>4, <1>5, <1>6 DEF Next

\* A worker adds members to its own pool only, which is for the port it works on.
LEMMA OnNodePortsStep ==
    ASSUME PortsFixed, TypeOK, OwnInv, OnNodePorts, [Next]_vars
    PROVE  OnNodePorts'
<1>1. nextId \in Nat /\ \A m \in members : m.pool \in Nat
      BY CloudTypes DEF TypeOK, CloudTypeOK, MemberType
<1>2. CASE MembersAge
  <2> SUFFICES ASSUME NEW m \in members'
               PROVE  /\ m.pool < nextId'
                      /\ \A q \in pools', r \in UNION PortSets :
                           q.id = m.pool /\ q.port = r.port => m.nodePort = r.nodePort
      BY DEF OnNodePorts
  <2>1. m \in members /\ m.pool < nextId /\ m.pool < nextId'
        BY <1>1, <1>2 DEF MembersAge, OnNodePorts
  <2>2. ASSUME NEW q \in pools', NEW r \in UNION PortSets, q.id = m.pool, q.port = r.port
        PROVE  m.nodePort = r.nodePort
    <3>1. PICK x \in pools : x.id = q.id /\ x.port = q.port
          BY <1>1, <1>2, <2>1, <2>2 DEF MembersAge
    <3> QED BY <2>1, <2>2, <3>1 DEF OnNodePorts
  <2> QED BY <2>1, <2>2
<1>3. ASSUME NEW p \in Procs, MemberAdded(p) PROVE OnNodePorts'
  <2>1. PICK w : w = loc[p] OBVIOUS
  <2>2. PICK a \in w.adds :
          CloudSetMembers(members \cup {[pool |-> w.pool, addr |-> a,
                                         nodePort |-> w.cur.nodePort]})
        BY <1>3, <2>1 DEF MemberAdded
  <2> DEFINE new == [pool |-> w.pool, addr |-> a, nodePort |-> w.cur.nodePort]
  <2>3. members' = members \cup {new} /\ UNCHANGED <<pools, nextId>>
        BY <2>2 DEF CloudSetMembers
  <2>4. new.pool = w.pool /\ new.nodePort = w.cur.nodePort OBVIOUS
  <2>5. Owns(p, "memAdd", w) BY <1>3, <2>1, WorkerOwns DEF MemberAdded
  <2>6. OwnPool(w) /\ w.cur \in UNION PortSets
        BY <2>5 DEF Owns, OwnPorts, PoolPCs, PortPCs, CallPCs, EnsurePCs
  <2> HIDE DEF new
  <2>7. /\ new.pool < nextId
        /\ \A q \in pools, r \in UNION PortSets :
             q.id = new.pool /\ q.port = r.port => new.nodePort = r.nodePort
        BY <2>4, <2>6 DEF OwnPool, PortsFixed
  <2> QED BY <2>3, <2>7 DEF OnNodePorts
<1> QED BY <1>2, <1>3, MembersEffect

\* When the ELB names are distinct and no edit changes the nodePort of a port, every
\* member of a settled Service's pools is on the nodePort of its current spec, whatever
\* fails, however old the specs and nodes of the two workers are, and whenever the
\* manager crashes: only the edit of a nodePort (the run node_port) goes unnoticed.
THEOREM FixedNodePorts ==
    ASSUME NamesDistinct, PortsFixed
    PROVE  Spec => []MembersOnNodePort
<1>1. Init => OnNodePorts BY DEF Init, CloudInit, OnNodePorts
<1>2. TypeOK /\ OwnInv /\ OnNodePorts /\ [Next]_vars => OnNodePorts'
      BY OnNodePortsStep
<1>3. OwnInv /\ OnNodePorts => MembersOnNodePort
  <2> SUFFICES ASSUME OwnInv, OnNodePorts, NEW s \in Services, want[s],
                      NEW lb \in LBsNamed(NameOf[s]), NEW q \in ports[s],
                      NEW l \in ListenersNamed(lb.id, q.port), NEW m \in MembersOf(l.pool)
               PROVE  m.nodePort = q.nodePort
      BY DEF MembersOnNodePort
  <2>1. PICK x \in pools : x.id = l.pool /\ x.port = l.port
        BY DEF OwnInv, CloudInv, ListenersHavePools, ListenersNamed, LiveListeners
  <2>2. q \in UNION PortSets BY DEF OwnInv, SpecsInv
  <2> QED BY <2>1, <2>2 DEF OnNodePorts, ListenersNamed, MembersOf
<1> QED BY <1>1, <1>2, <1>3, TypeCorrect, OwnInvariant, PTL DEF Spec

-----------------------------------------------------------------------------
(* What EnsureLoadBalancer has done so far.                                *)

\* The API takes the health monitors of all services.
MonitorsAccepted ==
    \A s \in Services, q \in UNION PortSets :
        MonitorAccepted(getHealthMonitorConfig(HealthChecks[s], Protocol(q)))

\* No call has failed, the manager has not crashed, and the nodes are the first ones.
Undisrupted == faults = 0 /\ nodeChanges = 0

\* An ELB has one pool for a port, besides those that are being deleted.
OnePoolPerPort ==
    \A q1, q2 \in pools :
        ~q1.dying /\ ~q2.dying /\ q1.lb = q2.lb /\ q1.port = q2.port => q1 = q2

\* The members of a pool are nodes, on the nodePort of the pool's port.
MembersRight ==
    OnNodePorts /\ \A m \in members : m.addr \in NodeIPs(InitNodes)

\* The pool has a member on the node a.
HasMember(pool, a) == \E m \in members : m.pool = pool /\ m.addr = a
Filled(pool) == \A a \in NodeIPs(InitNodes) : HasMember(pool, a)

\* The port has a pool with all nodes and a health monitor,
Backed(lb, q) ==
    \E x \in PoolsNamed(lb, q.port) : Filled(x.id) /\ x.id \in monitors
\* and passes the security group.
Passes(q) == RuleFor(q) \in rules

\* What EnsureLoadBalancer has done when it sends the request c.
Backing(c, v) ==
    /\ c # "memDel"
    /\ c \in EnsurePCs => v.nodes = InitNodes
    /\ c = "poolPost" => PoolsNamed(v.lb, v.cur.port) = {}
    /\ c \in PoolPCs => PoolLive(v.pool)
    /\ c = "memAdd" => /\ v.dels = {} /\ v.adds \subseteq NodeIPs(InitNodes)
                       /\ \A a \in NodeIPs(InitNodes) \ v.adds : HasMember(v.pool, a)
    /\ c \in {"lisGet", "lisPost", "hm"} => Filled(v.pool)
    /\ c \in EnsurePCs \cap HoldingPCs =>
         \A q \in v.ports : q \in v.todo \/ (c \in PortPCs /\ q = v.cur) \/ Backed(v.lb, q)
    /\ c = "ensured" => \A q \in v.ports : Passes(q)

Backs(s) == Backing(pc[<<s, "sync">>], loc[<<s, "sync">>])

\* A wanted service with nothing to do for the sync worker has all its ports backed.
AllBacked(s) ==
    want[s] /\ ~queued[s] /\ pc[<<s, "sync">>] = "idle" =>
        \E l \in LBsNamed(NameOf[s]) : \A q \in ports[s] : Backed(l.id, q) /\ Passes(q)

\* The inductive invariant behind FaultFreeBackends.
BackendsInv ==
    Undisrupted =>
        /\ nodes = InitNodes /\ crashes = 0
        /\ OnePoolPerPort /\ MembersRight
        /\ \A s \in Services : Backs(s) /\ AllBacked(s)

-----------------------------------------------------------------------------
(* What is left alone.                                                     *)

\* A step while nothing disrupts the controller.
Serene ==
    /\ NamesDistinct /\ PortsFixed /\ MonitorsAccepted
    /\ TypeOK /\ LifecycleInv /\ OwnInv /\ SteadyInv /\ ServedInv /\ BackendsInv
    /\ [Next]_vars /\ Undisrupted'

\* It is no crash and no change of the nodes, and a call it makes succeeds.
LEMMA SereneMeans ==
    ASSUME Serene
    PROVE  /\ Undisrupted /\ ~Crash /\ faults \in Nat
           /\ UNCHANGED <<faults, nodes, crashes>>
           /\ nodes = InitNodes /\ crashes = 0 /\ NodesQuiet /\ Steady /\ NoOrphans
           /\ OnePoolPerPort /\ MembersRight
           /\ \A s \in Services : Backs(s) /\ AllBacked(s) /\ Configured(s) /\ UpToDate(s)
<1>1. /\ TypeOK /\ SteadyInv /\ ServedInv /\ BackendsInv /\ [Next]_vars /\ Undisrupted'
      BY DEF Serene
<1>2. faults \in Nat /\ nodeChanges \in Nat
      BY <1>1, FaultsNat DEF TypeOK, ControllerTypeOK
<1>3. faults = 0 /\ faults' = faults /\ ~Crash
  <2>1. Grows /\ (Crash => faults' # faults) BY <1>1, StepGrows
  <2> QED BY <1>1, <1>2, <2>1 DEF Grows, Undisrupted
<1>4. UNCHANGED <<nodes, nodeChanges, crashes>>
  <2>1. ~ChangeNodes BY <1>1, <1>2 DEF ChangeNodes, Undisrupted
  <2>2. CASE UNCHANGED vars \/ Cloud BY <2>2 DEF vars, k8sVars, ctlVars, Cloud
  <2>3. ASSUME NEW s \in Services,
               ApplyService(s) \/ RemoveService(s) \/ SyncWorker(s) \/ NodeWorker(s)
        PROVE  UNCHANGED <<nodes, nodeChanges, crashes>>
        BY <2>3 DEF ApplyService, RemoveService, SyncWorker, NodeWorker, SyncService,
           PublishStatus, RemoveFinalizer, Requeue, SyncNodes, NodesSynced, RetryNodes,
           k8sVars, ctlVars
  <2> QED BY <1>1, <1>3, <2>1, <2>2, <2>3 DEF Next
<1>5. Undisrupted BY <1>1, <1>3, <1>4 DEF Undisrupted
<1>6. /\ nodes = InitNodes /\ crashes = 0 /\ OnePoolPerPort /\ MembersRight
      /\ \A s \in Services : Backs(s) /\ AllBacked(s)
      BY <1>1, <1>5 DEF BackendsInv
<1>7. NodesQuiet /\ Steady BY <1>1, <1>5, <1>6 DEF SteadyInv, Steady, Undisrupted
<1>8. NoOrphans BY <1>1, <1>7, SteadyMeans
<1>9. \A s \in Services : Configured(s) /\ UpToDate(s) BY <1>1, <1>7 DEF ServedInv
<1> QED BY <1>2, <1>3, <1>4, <1>5, <1>6, <1>7, <1>8, <1>9

\* A node worker without anything to do takes no step.
LEMMA NoNodeStep ==
    ASSUME NodesQuiet, NEW s \in Services
    PROVE  ~NodeWorker(s)
<1>1. pc[<<s, "node">>] = "idle" /\ ~nodeQueued[s] BY DEF NodesQuiet
<1>2. ~ensureListeners(<<s, "node">>)
      BY <1>1 DEF ensureListeners, PoolGet, PoolPost, MemList, MemAdd, MemDel, LisGet,
         LisPost, EnsureHealthMonitor
<1> QED BY <1>1, <1>2 DEF NodeWorker, SyncNodes, NodesSynced, RetryNodes,
           UpdateLoadBalancer, UpdateGet, SyncList, OrphanListener, OrphanPool

\* What a step does to the pools: nothing but to finish a deletion,
LeavesPools ==
    /\ pools' \subseteq pools /\ \A q \in pools : ~q.dying => q \in pools'
    /\ members' = members /\ monitors \subseteq monitors'
    /\ nextId' \in Nat /\ nextId' >= nextId
\* or to add one,
Creates(s) ==
    LET v == loc[<<s, "sync">>]
    IN  /\ PoolPost(<<s, "sync">>)
        /\ CloudCreatePool(v.lb, v.cur.port, Protocol(v.cur))
\* or a member,
Adds(s) ==
    LET v == loc[<<s, "sync">>]
    IN  /\ pc[<<s, "sync">>] = "memAdd"
        /\ \E a \in v.adds :
             CloudSetMembers(members \cup {[pool |-> v.pool, addr |-> a,
                                            nodePort |-> v.cur.nodePort]})
\* or to delete one.
Destroys(s) ==
    /\ pc[<<s, "sync">>] = "delPool" /\ EnsureLoadBalancerDeleted(s)
    /\ \E d \in loc[<<s, "sync">>].doomed, hm \in BOOLEAN, del \in BOOLEAN :
         \E gone \in SUBSET MembersOf(d.id) : CloudDeletePool(d.id, gone, hm, del)

\* Every step is one of these, and no rule is ever removed.
LEMMA PoolEffect ==
    ASSUME Serene
    PROVE  /\ rules \subseteq rules'
           /\ \/ LeavesPools
              \/ \E s \in Services : Creates(s) \/ Adds(s) \/ Destroys(s)
<1> DEFINE Harmless == LeavesPools /\ rules \subseteq rules'
           Effect(s) == /\ Creates(s) \/ Adds(s) \/ Destroys(s)
                        /\ rules \subseteq rules'
<1>0. TypeOK /\ [Next]_vars BY DEF Serene
<1>1. nextId \in Nat BY <1>0, CloudTypes
<1>2. ASSUME UNCHANGED cloudVars PROVE Harmless
      BY <1>1, <1>2 DEF cloudVars, LeavesPools
<1>2a. ASSUME UNCHANGED <<pools, members, monitors, rules, nextId>> PROVE Harmless
      BY <1>1, <1>2a DEF LeavesPools
<1>3. CASE UNCHANGED vars BY <1>2, <1>3 DEF vars
<1>4. CASE ChangeNodes \/ Crash BY <1>2, <1>4 DEF ChangeNodes, Crash
<1>5. CASE Cloud BY <1>1, <1>5 DEF Cloud, ReapListener, ReapPool, LeavesPools
<1>6. ASSUME NEW s \in Services, ApplyService(s) \/ RemoveService(s) PROVE Harmless
      BY <1>2, <1>6 DEF ApplyService, RemoveService
<1>7. ASSUME NEW s \in Services PROVE ~NodeWorker(s)
      BY SereneMeans, NoNodeStep
<1>8. ASSUME NEW s \in Services, SyncWorker(s) PROVE Harmless \/ Effect(s)
  <2> DEFINE p == <<s, "sync">>
  <2>1. CASE SyncService(s) \/ PublishStatus(s) \/ RemoveFinalizer(s) \/ Requeue(s)
        BY <1>2, <2>1 DEF SyncService, PublishStatus, RemoveFinalizer, Requeue
  <2>2. CASE EnsureLoadBalancer(s)
    <3>1. CASE EnsureGet(s) BY <1>2, <3>1 DEF EnsureGet
    <3>2. CASE CreateLoadBalancer(s)
          BY <1>1, <1>2, <3>2 DEF CreateLoadBalancer, CloudCreateLB, LeavesPools
    <3>3. CASE EnsureELBSecurityGroup(s)
          BY <1>1, <3>3 DEF EnsureELBSecurityGroup, LeavesPools
    <3>4. CASE PoolGet(p) BY <1>2, <3>4 DEF PoolGet
    <3>5. CASE PoolPost(p)
          BY <1>2, <3>5 DEF PoolPost, Creates, CloudCreatePool
    <3>6. CASE MemList(p) BY <1>2, <3>6 DEF MemList
    <3>7. CASE MemAdd(p) BY <1>2, <3>7 DEF MemAdd, Adds, CloudSetMembers
    <3>8. CASE MemDel(p) BY <3>8, SereneMeans DEF MemDel, Backs, Backing
    <3>9. CASE LisGet(p) BY <1>2, <3>9 DEF LisGet
    <3>10. CASE LisPost(p)
           BY <1>1, <1>2, <3>10 DEF LisPost, CloudCreateListener, LeavesPools
    <3>11. CASE EnsureHealthMonitor(p)
           BY <1>1, <3>11 DEF EnsureHealthMonitor, LeavesPools
    <3> QED BY <2>2, <3>1, <3>2, <3>3, <3>4, <3>5, <3>6, <3>7, <3>8, <3>9, <3>10, <3>11
            DEF EnsureLoadBalancer, ensureListeners
  <2>3. CASE GetLoadBalancer(s) BY <1>2, <2>3 DEF GetLoadBalancer
  <2>4. CASE EnsureLoadBalancerDeleted(s)
    <3>1. CASE DeleteGet(s) \/ FindEIP(s) \/ ListListeners(s) \/ ListPools(s)
          BY <1>2, <3>1 DEF DeleteGet, FindEIP, ListListeners, ListPools
    <3>2. CASE ReleaseBoundEIP(s) \/ ReleaseOrphanedEIP(s)
      <4>1. UNCHANGED cloudVars \/ \E i : CloudReleaseEIP(i)
            BY <3>2 DEF ReleaseBoundEIP, ReleaseOrphanedEIP
      <4> QED BY <1>2, <1>2a, <4>1 DEF CloudReleaseEIP
    <3>3. CASE DeleteListener(s)
          BY <1>1, <1>2, <3>3 DEF DeleteListener, CloudDeleteListener, LeavesPools
    <3>4. CASE DeleteLoadBalancer(s)
      <4>1. UNCHANGED cloudVars \/ \E i : CloudDeleteLB(i) BY <3>4 DEF DeleteLoadBalancer
      <4> QED BY <1>2, <1>2a, <4>1 DEF CloudDeleteLB
    <3>5. CASE DeletePool(s)
      <4>1. PICK d \in loc[p].doomed, r \in Outcomes, hm \in BOOLEAN :
              \E gone \in SUBSET MembersOf(d.id) : CloudDeletePool(d.id, gone, hm, Applied(r))
            BY <3>5 DEF DeletePool
      <4>2. Applied(r) \in BOOLEAN BY DEF Applied
      <4>3. Destroys(s) BY <2>4, <3>5, <4>1, <4>2 DEF Destroys, DeletePool
      <4>4. rules' = rules BY <4>1 DEF CloudDeletePool
      <4> QED BY <4>3, <4>4
    <3> QED BY <2>4, <3>1, <3>2, <3>3, <3>4, <3>5 DEF EnsureLoadBalancerDeleted
  <2> QED BY <1>8, <2>1, <2>2, <2>3, <2>4 DEF SyncWorker
<1> QED BY <1>0, <1>3, <1>4, <1>5, <1>6, <1>7, <1>8 DEF Next

\* The ELB keeps its pools, and they keep their members and monitors.
PoolsStand(l) ==
    /\ rules \subseteq rules'
    /\ \A q \in LivePools(l.id) :
         /\ q \in pools' /\ (q.id \in monitors => q.id \in monitors')
         /\ \A m \in members : m.pool = q.id => m \in members'

\* Pools whose deletion is asked for have been there,
LEMMA DestroysMeans ==
    ASSUME TypeOK, NEW s \in Services, Destroys(s)
    PROVE  \A q \in pools' : \E x \in pools : /\ x.id = q.id /\ x.lb = q.lb
                                              /\ x.port = q.port
                                              /\ ~q.dying => x = q
<1>0. PICK d, del, gone, hm : CloudDeletePool(d.id, gone, hm, del) BY DEF Destroys
<1>1. pools' = {IF (del /\ ~PoolInUse(d.id)) /\ q.id = d.id
                THEN [q EXCEPT !.dying = TRUE] ELSE q : q \in pools}
      BY <1>0 DEF CloudDeletePool
<1>2. \A x \in pools : x \in [id : Nat, lb : Nat, port : Nat, proto : {"TCP", "UDP"},
                              dying : BOOLEAN]
      BY DEF TypeOK, CloudTypeOK
<1> SUFFICES ASSUME NEW q \in pools'
             PROVE  \E x \in pools : /\ x.id = q.id /\ x.lb = q.lb /\ x.port = q.port
                                     /\ ~q.dying => x = q
    OBVIOUS
<1>3. PICK x \in pools : q = x \/ q = [x EXCEPT !.dying = TRUE] BY <1>1
<1> QED BY <1>2, <1>3

\* and only the service's own sync makes or deletes pools of its ELB.
LEMMA PoolsUndisturbed ==
    ASSUME Serene, NEW t \in Services, NEW l \in lbs, l.name = NameOf[t],
           ~EnsureLoadBalancerDeleted(t)
    PROVE  /\ PoolsStand(l)
           /\ ~PoolPost(<<t, "sync">>) => \A q \in LivePools(l.id)' : q \in pools
<1>0. NamesDistinct /\ TypeOK /\ LifecycleInv /\ OwnInv BY DEF Serene
<1>1. ASSUME NEW s \in Services, s # t, pc[<<s, "sync">>] \in HoldingPCs
      PROVE  loc[<<s, "sync">>].lb # l.id
  <2>1. NameOf[s] # NameOf[t] BY <1>0, <1>1 DEF NamesDistinct
  <2> QED BY <1>0, <1>1, <2>1 DEF LifecycleInv, WorkerKnows, UniqueIds
<1>2. rules \subseteq rules' BY PoolEffect
<1>3. CASE LeavesPools BY <1>2, <1>3 DEF LeavesPools, PoolsStand, LivePools
<1>4. ASSUME NEW s \in Services, Adds(s)
      PROVE  PoolsStand(l) /\ \A q \in LivePools(l.id)' : q \in pools
      BY <1>2, <1>4 DEF Adds, CloudSetMembers, PoolsStand, LivePools
<1>5. ASSUME NEW s \in Services, Creates(s)
      PROVE  /\ PoolsStand(l)
             /\ s # t => \A q \in LivePools(l.id)' : q \in pools
  <2> DEFINE v == loc[<<s, "sync">>]
             new == [id |-> nextId, lb |-> v.lb, port |-> v.cur.port,
                     proto |-> Protocol(v.cur), dying |-> FALSE]
  <2>1. pools' = pools \cup {new} /\ UNCHANGED <<members, monitors>>
        BY <1>5 DEF Creates, CloudCreatePool
  <2>2. new.lb = v.lb OBVIOUS
  <2> HIDE DEF new
  <2>3. s # t => v.lb # l.id
        BY <1>1, <1>5 DEF Creates, PoolPost, HoldingPCs, EnsurePCs
  <2> QED BY <1>2, <2>1, <2>2, <2>3 DEF PoolsStand, LivePools
<1>6. ASSUME NEW s \in Services, Destroys(s)
      PROVE  PoolsStand(l) /\ \A q \in LivePools(l.id)' : q \in pools
  <2> DEFINE v == loc[<<s, "sync">>]
  <2>1. s # t BY <1>6 DEF Destroys
  <2>2. v.lb # l.id BY <1>1, <1>6, <2>1 DEF Destroys, HoldingPCs
  <2>3. PICK d \in v.doomed, hm \in BOOLEAN, del \in BOOLEAN :
          \E gone \in SUBSET MembersOf(d.id) : CloudDeletePool(d.id, gone, hm, del)
        BY <1>6 DEF Destroys
  <2>4. <<s, "sync">> \in Procs BY DEF Procs, Workers
  <2>5. OwnDoomed(pools, v) BY <1>0, <1>6, <2>4, WorkerOwns DEF Owns, Destroys
  <2>6. \A q \in LivePools(l.id) : q.id # d.id
        BY <2>2, <2>3, <2>5 DEF OwnDoomed, LivePools
  <2>7. /\ \A m \in members : m.pool # d.id => m \in members'
        /\ \A i \in monitors : i # d.id => i \in monitors'
        /\ \A q \in pools : q.id # d.id => q \in pools'
        BY <2>3 DEF CloudDeletePool, MembersOf
  <2>8. PoolsStand(l) BY <1>2, <2>6, <2>7 DEF PoolsStand, LivePools
  <2>9. \A q \in LivePools(l.id)' : q \in pools
        BY <1>0, <1>6, DestroysMeans DEF LivePools
  <2> QED BY <2>8, <2>9
<1>7. \A s \in Services : Creates(s) => PoolPost(<<s, "sync">>) BY DEF Creates
<1>8. LeavesPools => \A q \in LivePools(l.id)' : q \in pools
      BY DEF LeavesPools, LivePools
<1> QED BY <1>3, <1>4, <1>5, <1>6, <1>7, <1>8, PoolEffect

-----------------------------------------------------------------------------
(* What EnsureLoadBalancer has done is kept.                               *)

\* A pool left alone keeps its nodes, and a port its pool.
LEMMA PoolsStandFilled ==
    ASSUME NEW l, PoolsStand(l), NEW x \in LivePools(l.id)
    PROVE  /\ x \in LivePools(l.id)'
           /\ \A a : HasMember(x.id, a) => HasMember(x.id, a)'
           /\ Filled(x.id) => Filled(x.id)'
           /\ x.id \in monitors => x.id \in monitors'
<1>1. /\ x \in pools' /\ (x.id \in monitors => x.id \in monitors')
      /\ \A m \in members : m.pool = x.id => m \in members'
      BY DEF PoolsStand
<1>2. x.lb = l.id /\ ~x.dying BY DEF LivePools
<1>3. x \in LivePools(l.id)' BY <1>1, <1>2 DEF LivePools
<1>4. \A a : HasMember(x.id, a) => HasMember(x.id, a)' BY <1>1 DEF HasMember
<1> QED BY <1>1, <1>3, <1>4 DEF Filled

\* So a port that is backed stays so.
LEMMA PoolsStandBacked ==
    ASSUME NEW l, PoolsStand(l), NEW q, Backed(l.id, q)
    PROVE  Backed(l.id, q)'
<1>1. PICK x \in PoolsNamed(l.id, q.port) : Filled(x.id) /\ x.id \in monitors
      BY DEF Backed
<1>2. x \in LivePools(l.id) /\ x.port = q.port BY DEF PoolsNamed
<1>3. x \in LivePools(l.id)' /\ Filled(x.id)' /\ x.id \in monitors'
      BY <1>1, <1>2, PoolsStandFilled
<1>4. x \in PoolsNamed(l.id, q.port)' BY <1>2, <1>3 DEF PoolsNamed
<1> QED BY <1>3, <1>4 DEF Backed

\* A worker that does not move, on an ELB that is left alone, has done what it had.
LEMMA BackingKept ==
    ASSUME NEW l, PoolsStand(l), \A q \in LivePools(l.id)' : q \in pools,
           NEW c, NEW v, Backing(c, v),
           c \in EnsurePCs \cap HoldingPCs => v.lb = l.id,
           c \in PoolPCs => OwnPool(v)
    PROVE  Backing(c, v)'
<1>0. PoolPCs \subseteq EnsurePCs \cap HoldingPCs
      BY DEF PoolPCs, PortPCs, EnsurePCs, HoldingPCs
<1>1. c = "poolPost" => PoolsNamed(v.lb, v.cur.port)' = {}
  <2> SUFFICES ASSUME c = "poolPost", NEW q \in PoolsNamed(v.lb, v.cur.port)' PROVE FALSE
      OBVIOUS
  <2>1. v.lb = l.id BY DEF EnsurePCs, HoldingPCs
  <2>2. q \in LivePools(l.id)' /\ q.port = v.cur.port BY <2>1 DEF PoolsNamed
  <2>3. q \in PoolsNamed(v.lb, v.cur.port) BY <2>1, <2>2 DEF PoolsNamed, LivePools
  <2> QED BY <2>3 DEF Backing
<1>2. ASSUME c \in PoolPCs
      PROVE  /\ PoolLive(v.pool)'
             /\ \A a : HasMember(v.pool, a) => HasMember(v.pool, a)'
             /\ Filled(v.pool) => Filled(v.pool)'
  <2>1. PICK x \in pools : x.id = v.pool /\ ~x.dying BY <1>2 DEF Backing, PoolLive
  <2>2. x \in LivePools(l.id) BY <1>0, <1>2, <2>1 DEF OwnPool, LivePools
  <2>3. /\ x \in LivePools(l.id)'
        /\ \A a : HasMember(x.id, a) => HasMember(x.id, a)'
        /\ Filled(x.id) => Filled(x.id)'
        BY <2>2, PoolsStandFilled
  <2>4. PICK i : i = v.pool OBVIOUS
  <2> QED BY <2>1, <2>3, <2>4 DEF PoolLive, LivePools
<1>3. ASSUME c \in EnsurePCs \cap HoldingPCs, NEW q, Backed(v.lb, q)
      PROVE  Backed(v.lb, q)'
  <2>1. v.lb = l.id BY <1>3
  <2>2. Backed(l.id, q)' BY <1>3, <2>1, PoolsStandBacked
  <2> QED BY <2>1, <2>2
<1>4. \A q : Passes(q) => Passes(q)' BY DEF PoolsStand, Passes
<1>5. {"memAdd", "lisGet", "lisPost", "hm"} \subseteq PoolPCs BY DEF PoolPCs, PortPCs
<1>6. \A q \in v.ports : c \in EnsurePCs \cap HoldingPCs =>
        q \in v.todo \/ (c \in PortPCs /\ q = v.cur) \/ Backed(v.lb, q)'
      BY <1>3 DEF Backing
<1> QED BY <1>1, <1>2, <1>4, <1>5, <1>6 DEF Backing

\* A call without effect on the pools changes nothing of it.
LEMMA BackingQuiet ==
    ASSUME UNCHANGED <<pools, members, monitors, rules>>, NEW c, NEW v, Backing(c, v)
    PROVE  Backing(c, v)'
BY DEF Backing, PoolsNamed, LivePools, PoolLive, HasMember, Filled, Backed, Passes

\* Nor does one that adds to what is there.
LEMMA BackedGrows ==
    ASSUME pools' = pools, members \subseteq members', monitors \subseteq monitors',
           NEW lb, NEW q, Backed(lb, q)
    PROVE  Backed(lb, q)'
BY DEF Backed, PoolsNamed, LivePools, Filled, HasMember

\* The worker goes where what it should have done is done.
LEMMA BacksMove ==
    ASSUME TypeOK, NEW t \in Services, NEW c, NEW v,
           Goto(<<t, "sync">>, c, v), Backing(c, v)'
    PROVE  Backs(t)'
<1>1. pc'[<<t, "sync">>] = c /\ loc'[<<t, "sync">>] = v
      BY ProcTypes, GotoMoves DEF TypeOK
<1> QED BY <1>1 DEF Backs, Backing, PoolsNamed, LivePools, PoolLive, HasMember, Filled,
               Backed, Passes

\* Whoever ensures nothing has nothing to have done.
LEMMA NothingBacked ==
    ASSUME NEW c, c \notin EnsurePCs, NEW v
    PROVE  Backing(c, v)'
BY DEF Backing, EnsurePCs, PoolPCs, PortPCs

-----------------------------------------------------------------------------
(* The requests of EnsureLoadBalancer.                                     *)

\* Where the worker goes without a change of the pools, what it should have done is done.
LEMMA BacksQuiet ==
    ASSUME TypeOK, UNCHANGED <<pools, members, monitors, rules>>,
           NEW t \in Services, NEW c, NEW v, Goto(<<t, "sync">>, c, v), Backing(c, v)
    PROVE  Backs(t)'
BY BackingQuiet, BacksMove

\* A worker that gives up has nothing to have done.
LEMMA BacksFail ==
    ASSUME TypeOK, NEW t \in Services, Fail(<<t, "sync">>)
    PROVE  Backs(t)'
<1>1. Backing("failed", NoLoc)' BY NothingBacked DEF EnsurePCs
<1> QED BY <1>1, BacksMove DEF Fail

\* What is known of a worker before its request.
LEMMA WorkerSerene ==
    ASSUME Serene, NEW t \in Services
    PROVE  /\ TypeOK /\ <<t, "sync">> \in Procs /\ CloudInv
           /\ \E c, v : /\ c = pc[<<t, "sync">>] /\ v = loc[<<t, "sync">>]
                        /\ v \in LocType /\ Owns(<<t, "sync">>, c, v)
                        /\ Backing(c, v) /\ Progress(c, v)
<1>0. TypeOK /\ OwnInv BY DEF Serene
<1>1. <<t, "sync">> \in Procs BY DEF Procs, Workers
<1>2. PICK c, v : c = pc[<<t, "sync">>] /\ v = loc[<<t, "sync">>] OBVIOUS
<1>3. Backs(t) /\ Configured(t) BY SereneMeans
<1> QED BY <1>0, <1>1, <1>2, <1>3, WorkerOwns DEF Backs, Configured

\* EnsurePool finds the pool of the port, or that there is none,
LEMMA PoolGetBacks ==
    ASSUME Serene, NEW t \in Services, PoolGet(<<t, "sync">>)
    PROVE  Backs(t)'
<1> DEFINE p == <<t, "sync">>
<1>1. PICK w : /\ w = loc[p] /\ w \in LocType /\ Backing("poolGet", w)
               /\ TypeOK /\ UNCHANGED <<pools, members, monitors, rules>>
      BY WorkerSerene DEF PoolGet, cloudVars
<1>2. PICK port \in w.todo : \E r \in Outcomes :
        LET found == PoolsNamed(w.lb, port.port)
            v == [w EXCEPT !.cur = port, !.todo = @ \ {port}]
        IN  /\ Charge(r)
            /\ IF r = "ok" /\ found # {}
               THEN \E q \in found : Goto(p, "memList", [v EXCEPT !.pool = q.id])
               ELSE Goto(p, "poolPost", v)
      BY <1>1 DEF PoolGet
<1> DEFINE v == [w EXCEPT !.cur = port, !.todo = @ \ {port}]
<1>3. \/ Goto(p, "poolPost", v) /\ PoolsNamed(w.lb, port.port) = {}
      \/ \E q \in PoolsNamed(w.lb, port.port) :
           Goto(p, "memList", [v EXCEPT !.pool = q.id])
      BY <1>2, SereneMeans, NoFault
<1>4. \A x \in w.ports : x \in w.todo \/ Backed(w.lb, x)
      BY <1>1 DEF Backing, EnsurePCs, HoldingPCs, PortPCs
<1>5. w.nodes = InitNodes BY <1>1 DEF Backing, EnsurePCs
<1>6. ASSUME Goto(p, "poolPost", v), PoolsNamed(w.lb, port.port) = {} PROVE Backs(t)'
  <2>1. /\ v.ports = w.ports /\ v.todo = w.todo \ {port} /\ v.cur = port
        /\ v.nodes = w.nodes /\ v.lb = w.lb
        BY <1>1 DEF LocType
  <2> HIDE DEF v
  <2>2. \A x \in v.ports : x \in v.todo \/ x = v.cur \/ Backed(v.lb, x)
        BY <1>4, <2>1
  <2>3. Backing("poolPost", v)
        BY <1>5, <1>6, <2>1, <2>2 DEF Backing, PoolPCs, PortPCs
  <2> QED BY <1>1, <1>6, <2>3, BacksQuiet
<1>7. ASSUME NEW q \in PoolsNamed(w.lb, port.port),
             Goto(p, "memList", [v EXCEPT !.pool = q.id])
      PROVE  Backs(t)'
  <2> DEFINE u == [v EXCEPT !.pool = q.id]
  <2>1. /\ u.ports = w.ports /\ u.todo = w.todo \ {port} /\ u.cur = port
        /\ u.nodes = w.nodes /\ u.lb = w.lb /\ u.pool = q.id
        BY <1>1 DEF LocType
  <2> HIDE DEF u
  <2>2. \A x \in u.ports : x \in u.todo \/ x = u.cur \/ Backed(u.lb, x)
        BY <1>4, <2>1
  <2>3. PoolLive(u.pool) BY <2>1 DEF PoolLive, PoolsNamed, LivePools
  <2>4. Backing("memList", u)
        BY <1>5, <2>1, <2>2, <2>3 DEF Backing, PortPCs
  <2> QED BY <1>1, <1>7, <2>4, BacksQuiet DEF u
<1> QED BY <1>3, <1>6, <1>7

\* and creates it.
LEMMA PoolPostBacks ==
    ASSUME Serene, NEW t \in Services, PoolPost(<<t, "sync">>)
    PROVE  Backs(t)'
<1> DEFINE p == <<t, "sync">>
<1>1. PICK w : /\ w = loc[p] /\ w \in LocType /\ Backing("poolPost", w) /\ TypeOK
      BY WorkerSerene DEF PoolPost
<1>2. PICK i : i = nextId OBVIOUS
<1> DEFINE u == [w EXCEPT !.pool = i]
           new == [id |-> i, lb |-> w.lb, port |-> w.cur.port,
                   proto |-> Protocol(w.cur), dying |-> FALSE]
<1>3. \/ Fail(p)
      \/ /\ CloudCreatePool(w.lb, w.cur.port, Protocol(w.cur))
         /\ Goto(p, "memList", u)
      BY <1>1, <1>2 DEF PoolPost
<1>4. CASE Fail(p) BY <1>1, <1>4, BacksFail
<1>5. ASSUME CloudCreatePool(w.lb, w.cur.port, Protocol(w.cur)), Goto(p, "memList", u)
      PROVE  Backs(t)'
  <2>1. pools' = pools \cup {new} /\ UNCHANGED <<members, monitors>>
        BY <1>2, <1>5 DEF CloudCreatePool
  <2>2. new.id = i /\ ~new.dying OBVIOUS
  <2>3. /\ u.ports = w.ports /\ u.todo = w.todo /\ u.cur = w.cur
        /\ u.nodes = w.nodes /\ u.lb = w.lb /\ u.pool = i
        BY <1>1 DEF LocType
  <2> HIDE DEF u, new
  <2>4. PoolLive(u.pool)' BY <2>1, <2>2, <2>3 DEF PoolLive
  <2>5. \A x : Backed(w.lb, x) => Backed(w.lb, x)'
        BY <2>1 DEF Backed, PoolsNamed, LivePools, Filled, HasMember
  <2>6. \A x \in u.ports : x \in u.todo \/ x = u.cur \/ Backed(u.lb, x)'
        BY <1>1, <2>3, <2>5 DEF Backing, EnsurePCs, HoldingPCs, PortPCs
  <2>7. u.nodes = InitNodes BY <1>1, <2>3 DEF Backing, EnsurePCs
  <2>8. Backing("memList", u)' BY <2>4, <2>6, <2>7 DEF Backing, PortPCs
  <2> QED BY <1>1, <1>5, <2>8, BacksMove
<1> QED BY <1>3, <1>4, <1>5

\* EnsureMembers finds no member to remove,
LEMMA MemListBacks ==
    ASSUME Serene, NEW t \in Services, MemList(<<t, "sync">>)
    PROVE  Backs(t)'
<1> DEFINE p == <<t, "sync">>
           ips == NodeIPs(InitNodes)
<1>1. PICK w : /\ w = loc[p] /\ w \in LocType /\ Backing("memList", w)
               /\ TypeOK /\ UNCHANGED <<pools, members, monitors, rules>>
      BY WorkerSerene DEF MemList, cloudVars
<1>2. w.nodes = InitNodes BY <1>1 DEF Backing, EnsurePCs
<1>3. PICK existing \in ByAddress(MembersOf(w.pool)) :
        LET adds == ips \ {m.addr : m \in existing}
            dels == {m \in existing : m.addr \notin ips}
        IN  Goto(p, NextMember(adds, dels), [w EXCEPT !.adds = adds, !.dels = dels])
      BY <1>1, <1>2, SereneMeans, NoFault DEF MemList
<1>4. existing \subseteq MembersOf(w.pool) BY DEF ByAddress
<1>5. PICK adds : adds = ips \ {m.addr : m \in existing} OBVIOUS
<1>6. {m \in existing : m.addr \notin ips} = {}
      BY <1>4, SereneMeans DEF MembersRight, MembersOf
<1> DEFINE u == [w EXCEPT !.adds = adds, !.dels = {}]
           c == IF adds # {} THEN "memAdd" ELSE "lisGet"
<1>7. Goto(p, c, u) BY <1>3, <1>5, <1>6 DEF NextMember
<1>8. /\ u.ports = w.ports /\ u.todo = w.todo /\ u.cur = w.cur /\ u.nodes = w.nodes
      /\ u.lb = w.lb /\ u.pool = w.pool /\ u.adds = adds /\ u.dels = {}
      BY <1>1 DEF LocType
<1>9. \A a \in ips \ adds : HasMember(w.pool, a)
      BY <1>4, <1>5 DEF HasMember, MembersOf
<1>10. adds \subseteq ips BY <1>5
<1>11. c = "lisGet" => Filled(w.pool) BY <1>9 DEF Filled
<1>12. c \in {"memAdd", "lisGet"} OBVIOUS
<1> HIDE DEF u, c, ips
<1>13. /\ PoolLive(u.pool)
       /\ \A x \in u.ports : x \in u.todo \/ x = u.cur \/ Backed(u.lb, x)
       BY <1>1, <1>8 DEF Backing, PoolPCs, PortPCs, EnsurePCs, HoldingPCs
<1>14. Backing(c, u)
       BY <1>2, <1>8, <1>9, <1>10, <1>11, <1>12, <1>13 DEF Backing, PortPCs, ips
<1> QED BY <1>1, <1>7, <1>14, BacksQuiet

\* and adds one for each node,
LEMMA MemAddBacks ==
    ASSUME Serene, NEW t \in Services, MemAdd(<<t, "sync">>)
    PROVE  Backs(t)'
<1> DEFINE p == <<t, "sync">>
           ips == NodeIPs(InitNodes)
<1>1. PICK w : /\ w = loc[p] /\ w \in LocType /\ Backing("memAdd", w) /\ TypeOK
      BY WorkerSerene DEF MemAdd
<1>2. /\ PoolLive(w.pool) /\ w.dels = {} /\ w.adds \subseteq ips /\ w.nodes = InitNodes
      /\ \A a \in ips \ w.adds : HasMember(w.pool, a)
      /\ \A x \in w.ports : x \in w.todo \/ x = w.cur \/ Backed(w.lb, x)
      BY <1>1 DEF Backing, PoolPCs, PortPCs, EnsurePCs, HoldingPCs
<1>3. PICK a \in w.adds :
        LET adds == w.adds \ {a}
            m == [pool |-> w.pool, addr |-> a, nodePort |-> w.cur.nodePort]
        IN  /\ CloudSetMembers(members \cup {m})
            /\ Goto(p, NextMember(adds, w.dels), [w EXCEPT !.adds = adds])
      BY <1>1, <1>2, SereneMeans, NoFault DEF MemAdd, Applied
<1> DEFINE m == [pool |-> w.pool, addr |-> a, nodePort |-> w.cur.nodePort]
<1>4. PICK adds : adds = w.adds \ {a} OBVIOUS
<1> DEFINE u == [w EXCEPT !.adds = adds]
           c == IF adds # {} THEN "memAdd" ELSE "lisGet"
<1>5. Goto(p, c, u) BY <1>2, <1>3, <1>4 DEF NextMember
<1>6. members' = members \cup {m} /\ UNCHANGED <<pools, monitors, rules>>
      BY <1>3 DEF CloudSetMembers
<1>7. m.pool = w.pool /\ m.addr = a OBVIOUS
<1>8. /\ u.ports = w.ports /\ u.todo = w.todo /\ u.cur = w.cur /\ u.nodes = w.nodes
      /\ u.lb = w.lb /\ u.pool = w.pool /\ u.adds = adds /\ u.dels = {}
      BY <1>1, <1>2 DEF LocType
<1> HIDE DEF m
<1>9. \A n \in ips \ adds : HasMember(w.pool, n)'
      BY <1>2, <1>4, <1>6, <1>7 DEF HasMember
<1>10. adds \subseteq ips BY <1>2, <1>4
<1>11. c = "lisGet" => Filled(w.pool)' BY <1>9 DEF Filled
<1>12. c \in {"memAdd", "lisGet"} OBVIOUS
<1> HIDE DEF u, c, ips
<1>13. PoolLive(u.pool)' BY <1>2, <1>6, <1>8 DEF PoolLive
<1>14. \A x \in u.ports : x \in u.todo \/ x = u.cur \/ Backed(u.lb, x)'
       BY <1>2, <1>6, <1>8, BackedGrows
<1>15. Backing(c, u)'
       BY <1>2, <1>8, <1>9, <1>10, <1>11, <1>12, <1>13, <1>14 DEF Backing, PortPCs, ips
<1> QED BY <1>1, <1>5, <1>15, BacksMove

\* which EnsureListener leaves alone.
LEMMA ListenerBacks ==
    ASSUME Serene, NEW t \in Services, LisGet(<<t, "sync">>) \/ LisPost(<<t, "sync">>)
    PROVE  Backs(t)'
<1> DEFINE p == <<t, "sync">>
<1>1. PICK c, w : /\ c = pc[p] /\ w = loc[p] /\ Backing(c, w) /\ TypeOK
      BY WorkerSerene
<1>2. c \in {"lisGet", "lisPost"} BY <1>1 DEF LisGet, LisPost
<1>3. UNCHANGED <<pools, members, monitors, rules>>
      BY DEF LisGet, LisPost, cloudVars, CloudCreateListener
<1>4. Fail(p) \/ \E d \in {"lisPost", "hm"} : Goto(p, d, w)
      BY <1>1 DEF LisGet, LisPost
<1>5. CASE Fail(p) BY <1>1, <1>5, BacksFail
<1>6. ASSUME NEW d \in {"lisPost", "hm"}, Goto(p, d, w) PROVE Backs(t)'
  <2>1. Backing(d, w)
        BY <1>1, <1>2 DEF Backing, PoolPCs, PortPCs, EnsurePCs, HoldingPCs
  <2> QED BY <1>1, <1>3, <1>6, <2>1, BacksQuiet
<1> QED BY <1>4, <1>5, <1>6

\* With its health monitor the port is backed.
LEMMA EnsureHealthMonitorBacks ==
    ASSUME Serene, NEW t \in Services, EnsureHealthMonitor(<<t, "sync">>)
    PROVE  Backs(t)'
<1> DEFINE p == <<t, "sync">>
<1>1. PICK w : /\ w = loc[p] /\ w \in LocType /\ Owns(p, "hm", w) /\ Backing("hm", w)
               /\ TypeOK
      BY WorkerSerene DEF EnsureHealthMonitor
<1>2. /\ PoolLive(w.pool) /\ Filled(w.pool) /\ w.nodes = InitNodes
      /\ \A x \in w.ports : x \in w.todo \/ x = w.cur \/ Backed(w.lb, x)
      BY <1>1 DEF Backing, PoolPCs, PortPCs, EnsurePCs, HoldingPCs
<1>3. OwnPool(w) /\ w.cur \in UNION PortSets
      BY <1>1 DEF Owns, OwnPorts, PoolPCs, PortPCs, CallPCs, EnsurePCs
<1>4. MonitorAccepted(getHealthMonitorConfig(HealthChecks[t], Protocol(w.cur)))
      BY <1>3 DEF Serene, MonitorsAccepted
<1>5. monitors' = monitors \cup {w.pool} /\ UNCHANGED <<pools, members, rules>>
      BY <1>1, <1>2, <1>4, SereneMeans, NoFault DEF EnsureHealthMonitor, Applied
<1> DEFINE u == [w EXCEPT !.cur = NoPort, !.pool = 0]
           c == NextPort("sync", w.todo)
<1>6. Goto(p, c, u) BY <1>1 DEF EnsureHealthMonitor
<1>7. u.ports = w.ports /\ u.todo = w.todo /\ u.nodes = w.nodes /\ u.lb = w.lb
      BY <1>1 DEF LocType
<1>8. c \in {"poolGet", "sg"} BY DEF NextPort
<1> HIDE DEF u, c
<1>9. Backed(w.lb, w.cur)'
  <2>1. PICK x \in pools : x.id = w.pool /\ ~x.dying BY <1>2 DEF PoolLive
  <2>2. x.lb = w.lb /\ x.port = w.cur.port BY <1>3, <2>1 DEF OwnPool
  <2>3. x \in PoolsNamed(w.lb, w.cur.port)'
        BY <1>5, <2>1, <2>2 DEF PoolsNamed, LivePools
  <2>4. Filled(x.id)' BY <1>2, <1>5, <2>1 DEF Filled, HasMember
  <2> QED BY <1>5, <2>1, <2>3, <2>4 DEF Backed
<1>10. \A x \in u.ports : x \in u.todo \/ Backed(u.lb, x)'
       BY <1>2, <1>5, <1>7, <1>9, BackedGrows
<1>11. Backing(c, u)' BY <1>2, <1>7, <1>8, <1>10 DEF Backing, PoolPCs, PortPCs
<1> QED BY <1>1, <1>6, <1>11, BacksMove

\* Each request of EnsureLoadBalancer does what the next one relies on.
LEMMA EnsureBacks ==
    ASSUME Serene, NEW t \in Services, EnsureLoadBalancer(t)
    PROVE  Backs(t)'
<1> DEFINE p == <<t, "sync">>
<1>1. PICK c, w : /\ c = pc[p] /\ w = loc[p] /\ w \in LocType /\ Backing(c, w)
                  /\ Progress(c, w) /\ TypeOK
      BY WorkerSerene
<1>2. CASE Fail(p) BY <1>1, <1>2, BacksFail
<1>3. ASSUME NEW b, NEW es, Configure(p, b, es), c \in {"ensGet", "lbPost"}
      PROVE  Backs(t)'
  <2> DEFINE ids == {e.id : e \in es}
             u == [w EXCEPT !.lb = b, !.eip = ids]
             d == NextPort("sync", w.todo)
  <2>1. Goto(p, d, u) BY <1>1, <1>3 DEF Configure
  <2> HIDE DEF ids
  <2>2. u.ports = w.ports /\ u.todo = w.todo /\ u.nodes = w.nodes BY <1>1 DEF LocType
  <2>3. w.todo = w.ports BY <1>1, <1>3 DEF Progress
  <2>4. w.nodes = InitNodes BY <1>1, <1>3 DEF Backing, EnsurePCs
  <2>5. d \in {"poolGet", "sg"} BY DEF NextPort
  <2> HIDE DEF u, d
  <2>6. Backing(d, u)' BY <2>2, <2>3, <2>4, <2>5 DEF Backing, PoolPCs, PortPCs
  <2> QED BY <1>1, <2>1, <2>6, BacksMove
<1>4. CASE EnsureGet(t)
  <2>1. c = "ensGet" BY <1>1, <1>4 DEF EnsureGet
  <2>2. CASE Goto(p, "lbPost", w)
    <3>1. Backing("lbPost", w)'
          BY <1>1, <2>1 DEF Backing, EnsurePCs, HoldingPCs, PoolPCs, PortPCs
    <3> QED BY <1>1, <2>2, <3>1, BacksMove
  <2> QED BY <1>1, <1>2, <1>3, <1>4, <2>1, <2>2 DEF EnsureGet
<1>5. CASE CreateLoadBalancer(t)
  <2>1. PICK i, es : i = nextId /\ es = {e \in eips' : e.lb = nextId} OBVIOUS
  <2>2. Fail(p) \/ Configure(p, i, es) BY <1>5, <2>1 DEF CreateLoadBalancer
  <2>3. c = "lbPost" BY <1>1, <1>5 DEF CreateLoadBalancer
  <2> QED BY <1>2, <1>3, <2>2, <2>3
<1>6. CASE EnsureELBSecurityGroup(t)
  <2> DEFINE wanted == {RuleFor(q) : q \in w.ports}
  <2>1. c = "sg" /\ Goto(p, "ensured", w) BY <1>1, <1>6 DEF EnsureELBSecurityGroup
  <2>2. rules' = rules \cup wanted /\ UNCHANGED <<pools, members, monitors>>
        BY <1>1, <1>6, SereneMeans, NoFault DEF EnsureELBSecurityGroup
  <2>3. ASSUME NEW q \in w.ports PROVE Passes(q)'
    <3>1. RuleFor(q) \in wanted OBVIOUS
    <3> HIDE DEF wanted
    <3> QED BY <2>2, <3>1 DEF Passes
  <2>4. \A q \in w.ports : Backed(w.lb, q)
        BY <1>1, <2>1 DEF Backing, Progress, PortPCs, EnsurePCs, HoldingPCs
  <2>5. \A q \in w.ports : Backed(w.lb, q)' BY <2>2, <2>4, BackedGrows
  <2>6. w.nodes = InitNodes BY <1>1, <2>1 DEF Backing, EnsurePCs
  <2>7. Backing("ensured", w)' BY <2>3, <2>5, <2>6 DEF Backing, PoolPCs, PortPCs
  <2> QED BY <1>1, <2>1, <2>7, BacksMove
<1>7. CASE ensureListeners(p)
  <2>1. ~MemDel(p) BY <1>1 DEF MemDel, Backing
  <2> QED BY <1>7, <2>1, PoolGetBacks, PoolPostBacks, MemListBacks, MemAddBacks,
             ListenerBacks, EnsureHealthMonitorBacks DEF ensureListeners
<1> QED BY <1>4, <1>5, <1>6, <1>7 DEF EnsureLoadBalancer

\* Every step keeps what the services' sync workers have done.
LEMMA BacksStep ==
    ASSUME Serene, NEW t \in Services
    PROVE  Backs(t)'
<1> DEFINE p == <<t, "sync">>
<1>1. PICK c, w : /\ c = pc[p] /\ w = loc[p] /\ w \in LocType /\ Owns(p, c, w)
                  /\ Backing(c, w) /\ TypeOK /\ p \in Procs
      BY WorkerSerene
<1>2. ASSUME NEW d, d \notin EnsurePCs, NEW u, Goto(p, d, u) PROVE Backs(t)'
  <2>1. Backing(d, u)' BY <1>2, NothingBacked
  <2> QED BY <1>1, <1>2, <2>1, BacksMove
<1>3. CASE GetLoadBalancer(t) \/ EnsureLoadBalancerDeleted(t)
  <2>1. pc'[p] \notin EnsurePCs
        BY <1>1, <1>3, DeletionGoesOn DEF DeletePCs, EnsurePCs
  <2> QED BY <2>1 DEF Backs, Backing, EnsurePCs, PoolPCs, PortPCs
<1>4. CASE PublishStatus(t) \/ RemoveFinalizer(t) \/ Requeue(t)
  <2>1. Goto(p, "idle", NoLoc) BY <1>4 DEF PublishStatus, RemoveFinalizer, Requeue
  <2> QED BY <1>2, <2>1 DEF EnsurePCs
<1>5. CASE SyncService(t)
  <2>1. CASE Goto(p, "delCheck", NoLoc) BY <1>2, <2>1 DEF EnsurePCs
  <2>2. CASE Goto(p, "ensGet", Call(ports[t], nodes))
    <3>1. PICK u : u = Call(ports[t], nodes) OBVIOUS
    <3>2. u.nodes = InitNodes BY <3>1, SereneMeans DEF Call, NoLoc
    <3>3. Backing("ensGet", u)' BY <3>2 DEF Backing, HoldingPCs, PoolPCs, PortPCs
    <3> QED BY <1>1, <2>2, <3>1, <3>3, BacksMove
  <2> QED BY <1>5, <2>1, <2>2 DEF SyncService
<1>6. CASE EnsureLoadBalancer(t) BY <1>6, EnsureBacks
<1>7. CASE ~SyncWorker(t) /\ ~EnsureLoadBalancerDeleted(t)
  <2>1. pc'[p] = c /\ loc'[p] = w BY <1>1, <1>7, SereneMeans, SyncStays DEF Serene
  <2>2. Backing(c, w)'
    <3>1. CASE c \in EnsurePCs \cap HoldingPCs
      <4>1. PICK l \in lbs : l.name = NameOf[t] /\ l.id = w.lb
            BY <1>1, <3>1 DEF Serene, LifecycleInv, WorkerKnows
      <4>2. ~PoolPost(p)
        <5>1. pc'[p] = pc[p] BY <1>1, <2>1
        <5>2. WorkerTypeOK BY <1>1 DEF TypeOK
        <5> QED BY <1>1, <5>1, <5>2, GotoMoves DEF PoolPost, Fail
      <4>3. PoolsStand(l) /\ \A q \in LivePools(l.id)' : q \in pools
            BY <1>7, <4>1, <4>2, PoolsUndisturbed
      <4> QED BY <1>1, <4>1, <4>3, BackingKept DEF Owns
    <3>2. CASE c \notin EnsurePCs \cap HoldingPCs
          BY <1>1, <3>2 DEF Backing, PoolPCs, PortPCs, EnsurePCs, HoldingPCs
    <3> QED BY <3>1, <3>2
  <2> QED BY <2>1, <2>2 DEF Backs, Backing, PoolsNamed, LivePools, PoolLive, HasMember,
                           Filled, Backed, Passes
<1> QED BY <1>3, <1>4, <1>5, <1>6, <1>7 DEF SyncWorker

-----------------------------------------------------------------------------
(* What a settled Service is balanced to.                                  *)

\* A service with nothing to do stays backed, and gets there when its status is published.
LEMMA AllBackedStep ==
    ASSUME Serene, NEW t \in Services
    PROVE  AllBacked(t)'
<1> DEFINE p == <<t, "sync">>
<1> SUFFICES ASSUME want'[t], ~queued'[t], pc'[p] = "idle"
             PROVE  \E l \in LBsNamed(NameOf[t])' :
                      \A q \in ports'[t] : Backed(l.id, q)' /\ Passes(q)'
    BY DEF AllBacked
<1>1. PICK c, w : /\ c = pc[p] /\ w = loc[p] /\ Backing(c, w) /\ Progress(c, w)
                  /\ TypeOK /\ p \in Procs
      BY WorkerSerene
<1>2. WorkerTypeOK /\ ControllerTypeOK BY <1>1 DEF TypeOK
<1>3. UpToDate(t) /\ AllBacked(t) BY SereneMeans
<1>4. ~Requeue(t) BY <1>2 DEF Requeue, ControllerTypeOK
<1>5. ~SyncService(t)
  <2>1. SyncService(t) => pc'[p] # "idle" BY <1>1, <1>2, GotoMoves DEF SyncService
  <2> QED BY <2>1
<1>6. ~RemoveFinalizer(t)
      BY <1>1, <1>3 DEF RemoveFinalizer, UpToDate, EnsurePCs, ctlVars
<1>7. ~EnsureLoadBalancer(t) BY <1>1, EnsureKeepsPorts DEF EnsurePCs
<1>8. ~(GetLoadBalancer(t) \/ EnsureLoadBalancerDeleted(t))
      BY <1>1, DeletionGoesOn DEF DeletePCs
<1>9. CASE PublishStatus(t)
  <2>1. c = "ensured" /\ UNCHANGED <<want, queued, ports>> /\ UNCHANGED cloudVars
        BY <1>1, <1>9 DEF PublishStatus, ctlVars
  <2>2. w.ports = ports[t] BY <1>1, <1>3, <2>1 DEF UpToDate, EnsurePCs
  <2>3. PICK l \in lbs : l.name = NameOf[t] /\ l.id = w.lb
        BY <1>1, <2>1 DEF Serene, LifecycleInv, WorkerKnows, EnsurePCs, HoldingPCs
  <2>4. \A q \in w.ports : Backed(w.lb, q) /\ Passes(q)
        BY <1>1, <2>1 DEF Backing, Progress, PortPCs, EnsurePCs, HoldingPCs
  <2>5. UNCHANGED <<pools, members, monitors, rules, lbs>> BY <2>1 DEF cloudVars
  <2>6. \A q \in w.ports : Backed(w.lb, q)' /\ Passes(q)'
        BY <2>4, <2>5, BackedGrows DEF Passes
  <2>7. l \in LBsNamed(NameOf[t])' BY <2>3, <2>5 DEF LBsNamed
  <2> QED BY <2>1, <2>2, <2>3, <2>6, <2>7
<1>10. CASE ~SyncWorker(t)
  <2>1. /\ NamesDistinct /\ LifecycleInv /\ OwnInv /\ NoOrphans /\ [Next]_vars /\ ~Crash
        BY SereneMeans DEF Serene
  <2>2. pc[p] = "idle" BY <1>1, <1>10, <2>1, SyncStays
  <2>3. want[t] /\ ~queued[t] /\ ports'[t] = ports[t]
        BY <1>1, <1>10, <2>1, SpecKept
  <2>4. PICK l \in LBsNamed(NameOf[t]) : \A q \in ports[t] : Backed(l.id, q) /\ Passes(q)
        BY <1>3, <2>2, <2>3 DEF AllBacked
  <2>5. l \in lbs /\ l.name = NameOf[t] BY DEF LBsNamed
  <2>6. Stands(l) BY <1>1, <1>8, <2>1, <2>5, Undisturbed
  <2>7. PoolsStand(l) BY <1>8, <2>5, PoolsUndisturbed
  <2>8. \A q \in ports[t] : Backed(l.id, q)' BY <2>4, <2>7, PoolsStandBacked
  <2>9. \A q \in ports[t] : Passes(q)' BY <2>4, <2>7 DEF Passes, PoolsStand
  <2>10. l \in LBsNamed(NameOf[t])' BY <2>5, <2>6 DEF Stands, LBsNamed
  <2> QED BY <2>3, <2>8, <2>9, <2>10
<1> QED BY <1>4, <1>5, <1>6, <1>7, <1>8, <1>9, <1>10 DEF SyncWorker

\* Only a port that has no pool gets one.
LEMMA OnePoolStep ==
    ASSUME Serene
    PROVE  OnePoolPerPort'
<1>0. OnePoolPerPort /\ TypeOK BY SereneMeans DEF Serene
<1>1. ASSUME \A q \in pools' : ~q.dying => q \in pools PROVE OnePoolPerPort'
      BY <1>0, <1>1 DEF OnePoolPerPort
<1>2. CASE LeavesPools BY <1>1, <1>2 DEF LeavesPools
<1>3. ASSUME NEW s \in Services, Adds(s) PROVE OnePoolPerPort'
      BY <1>1, <1>3 DEF Adds, CloudSetMembers
<1>4. ASSUME NEW s \in Services, Destroys(s) PROVE OnePoolPerPort'
      BY <1>0, <1>1, <1>4, DestroysMeans
<1>5. ASSUME NEW s \in Services, Creates(s) PROVE OnePoolPerPort'
  <2>1. PICK w : w = loc[<<s, "sync">>] /\ Backing("poolPost", w)
        BY <1>5, WorkerSerene DEF Creates, PoolPost
  <2> DEFINE new == [id |-> nextId, lb |-> w.lb, port |-> w.cur.port,
                     proto |-> Protocol(w.cur), dying |-> FALSE]
  <2>2. pools' = pools \cup {new} BY <1>5, <2>1 DEF Creates, CloudCreatePool
  <2>3. new.lb = w.lb /\ new.port = w.cur.port OBVIOUS
  <2> HIDE DEF new
  <2>4. \A q \in pools : ~(~q.dying /\ q.lb = w.lb /\ q.port = w.cur.port)
        BY <2>1 DEF Backing, PoolsNamed, LivePools
  <2> QED BY <1>0, <2>2, <2>3, <2>4 DEF OnePoolPerPort
<1> QED BY <1>2, <1>3, <1>4, <1>5, PoolEffect

\* Only nodes become members, on the nodePort of the pool's port.
LEMMA MembersRightStep ==
    ASSUME Serene
    PROVE  MembersRight'
<1>0. MembersRight /\ TypeOK /\ OwnInv /\ PortsFixed /\ [Next]_vars
      BY SereneMeans DEF Serene
<1>1. OnNodePorts' BY <1>0, OnNodePortsStep DEF MembersRight
<1>2. CASE members' \subseteq members BY <1>0, <1>1, <1>2 DEF MembersRight
<1>3. ASSUME NEW s \in Services, Adds(s) PROVE MembersRight'
  <2>1. PICK w : w = loc[<<s, "sync">>] /\ Backing("memAdd", w)
        BY <1>3, WorkerSerene DEF Adds
  <2>2. PICK a \in w.adds :
          CloudSetMembers(members \cup {[pool |-> w.pool, addr |-> a,
                                         nodePort |-> w.cur.nodePort]})
        BY <1>3, <2>1 DEF Adds
  <2> DEFINE new == [pool |-> w.pool, addr |-> a, nodePort |-> w.cur.nodePort]
  <2>3. members' = members \cup {new} BY <2>2 DEF CloudSetMembers
  <2>4. new.addr = a /\ a \in NodeIPs(InitNodes) BY <2>1 DEF Backing
  <2> HIDE DEF new
  <2> QED BY <1>0, <1>1, <2>3, <2>4 DEF MembersRight
<1>4. members' \subseteq members \/ \E s \in Services : Adds(s)
  <2>1. CASE LeavesPools BY <2>1 DEF LeavesPools
  <2>2. ASSUME NEW s \in Services, Creates(s) PROVE members' \subseteq members
        BY <2>2 DEF Creates, CloudCreatePool
  <2>3. ASSUME NEW s \in Services, Destroys(s) PROVE members' \subseteq members
        BY <2>3 DEF Destroys, CloudDeletePool
  <2> QED BY <2>1, <2>2, <2>3, PoolEffect
<1> QED BY <1>2, <1>3, <1>4

\* BackendsInv is inductive under the invariants of the other proofs.
LEMMA BackendsStep ==
    ASSUME NamesDistinct, PortsFixed, MonitorsAccepted,
           TypeOK, LifecycleInv, OwnInv, SteadyInv, ServedInv, BackendsInv, [Next]_vars
    PROVE  BackendsInv'
<1> SUFFICES ASSUME Undisrupted'
             PROVE  /\ nodes' = InitNodes /\ crashes' = 0
                    /\ OnePoolPerPort' /\ MembersRight'
                    /\ \A s \in Services : Backs(s)' /\ AllBacked(s)'
    BY DEF BackendsInv
<1>1. Serene BY DEF Serene
<1> QED BY <1>1, SereneMeans, OnePoolStep, MembersRightStep, BacksStep, AllBackedStep

\* In the initial states there is nothing to balance.
LEMMA BackendsStart == Init => BackendsInv
<1> SUFFICES ASSUME Init PROVE BackendsInv OBVIOUS
<1>1. nodes = InitNodes /\ crashes = 0 /\ pools = {} /\ members = {}
      BY DEF Init, CloudInit
<1>2. \A s \in Services : pc[<<s, "sync">>] = "idle" /\ ~want[s]
      BY DEF Init, Procs, Workers
<1>3. \A s \in Services : Backs(s) /\ AllBacked(s)
      BY <1>2 DEF Backs, Backing, AllBacked, EnsurePCs, PoolPCs, PortPCs
<1> QED BY <1>1, <1>3 DEF BackendsInv, OnePoolPerPort, MembersRight, OnNodePorts

\* The pool of a port's listener is the one that is filled and monitored.
LEMMA BackedMeans ==
    ASSUME TypeOK, LifecycleInv, OwnInv, PortsFixed, ServedInv, Steady, BackendsInv,
           Undisrupted
    PROVE  SettledBackends
<1> SUFFICES ASSUME NEW s \in Services, want[s], Settled(s),
                    NEW lb \in LBsNamed(NameOf[s]), NEW q \in ports[s]
             PROVE  \E l \in ListenersNamed(lb.id, q.port) :
                      /\ l.proto = Protocol(q)
                      /\ MembersOf(l.pool) = {[pool |-> l.pool, addr |-> a,
                                               nodePort |-> q.nodePort] :
                                                  a \in NodeIPs(nodes)}
                      /\ l.pool \in monitors
                      /\ RuleFor(q) \in rules
    BY DEF SettledBackends
<1>1. CloudInv /\ q \in UNION PortSets BY DEF OwnInv, SpecsInv
<1>2. nodes = InitNodes /\ OnePoolPerPort /\ MembersRight /\ AllBacked(s)
      BY DEF BackendsInv
<1>3. \A l \in LBsNamed(NameOf[s]) : l = lb
      BY DEF LifecycleInv, NoDuplicateELB, LBsNamed
<1>4. ListenersNamed(lb.id, q.port) # {}
      BY <1>3 DEF ServedInv, UpToDate, Settled, Serving
<1>5. Backed(lb.id, q) /\ Passes(q) BY <1>2, <1>3 DEF AllBacked, Settled
<1>6. PICK x \in ListenersNamed(lb.id, q.port) : TRUE BY <1>4
<1>7. x \in listeners /\ x.lb = lb.id /\ x.port = q.port
      BY DEF ListenersNamed, LiveListeners
<1>8. x.proto = Protocol(q)
      BY <1>1, <1>7 DEF CloudInv, ListenerPorts, PortsFixed
<1>9. PICK y \in pools : y.id = x.pool /\ ~y.dying /\ y.lb = x.lb /\ y.port = x.port
      BY <1>1, <1>7 DEF CloudInv, ListenersHavePools
<1>10. PICK z \in PoolsNamed(lb.id, q.port) : Filled(z.id) /\ z.id \in monitors
       BY <1>5 DEF Backed
<1>11. y = z BY <1>2, <1>7, <1>9, <1>10 DEF OnePoolPerPort, PoolsNamed, LivePools
<1>12. MembersOf(x.pool) = {[pool |-> x.pool, addr |-> a, nodePort |-> q.nodePort] :
                               a \in NodeIPs(nodes)}
  <2>1. ASSUME NEW m \in members, m.pool = x.pool
        PROVE  /\ m.addr \in NodeIPs(nodes)
               /\ m = [pool |-> x.pool, addr |-> m.addr, nodePort |-> q.nodePort]
    <3>1. m.addr \in NodeIPs(nodes) /\ m.nodePort = q.nodePort
          BY <1>1, <1>2, <1>7, <1>9, <2>1 DEF MembersRight, OnNodePorts
    <3>2. m \in MemberType BY DEF TypeOK, CloudTypeOK
    <3> QED BY <2>1, <3>1, <3>2 DEF MemberType
  <2>2. ASSUME NEW a \in NodeIPs(nodes)
        PROVE  [pool |-> x.pool, addr |-> a, nodePort |-> q.nodePort] \in MembersOf(x.pool)
    <3>1. PICK m \in members : m.pool = x.pool /\ m.addr = a
          BY <1>2, <1>9, <1>10, <1>11 DEF Filled, HasMember
    <3> QED BY <2>1, <3>1 DEF MembersOf
  <2> QED BY <2>1, <2>2 DEF MembersOf
<1> QED BY <1>5, <1>6, <1>8, <1>9, <1>10, <1>11, <1>12 DEF Passes

\* The API takes the monitors of services without a timeout of their own that check no
\* less often than every ten seconds, which is the default timeout.
LEMMA UntimedMonitorsAccepted ==
    ASSUME \A s \in Services : /\ HealthChecks[s].timeout \cap 1..50 = {}
                               /\ HealthChecks[s].delay \cap 11..50 = {}
    PROVE  MonitorsAccepted
<1> SUFFICES ASSUME NEW s \in Services, NEW o
             PROVE  MonitorAccepted(getHealthMonitorConfig(HealthChecks[s], o))
    BY DEF MonitorsAccepted
<1>1. PICK a : a = HealthChecks[s] OBVIOUS
<1>2. Chosen(a.timeout, 1..50, 10) = 10 BY <1>1 DEF Chosen
<1>3. Chosen(a.delay, 1..50, 5) \in 1..10
  <2>1. CASE a.delay \cap 1..50 = {} BY <2>1 DEF Chosen
  <2>2. ASSUME NEW d \in a.delay \cap 1..50 PROVE Chosen(a.delay, 1..50, 5) \in 1..10
    <3>1. (CHOOSE v \in a.delay : v \in 1..50) \in a.delay \cap 1..50 BY <2>2
    <3>2. Chosen(a.delay, 1..50, 5) = CHOOSE v \in a.delay : v \in 1..50
          BY <2>2 DEF Chosen
    <3>3. Chosen(a.delay, 1..50, 5) \in a.delay \cap 1..50 BY <3>1, <3>2
    <3> QED BY <1>1, <3>3
  <2> QED BY <2>1, <2>2
<1>4. DefaultHealthMonitorConfig(o).timeout = 10 /\ DefaultHealthMonitorConfig(o).delay = 5
      BY DEF DefaultHealthMonitorConfig
<1>5. /\ getHealthMonitorConfig(a, o).timeout = Chosen(a.timeout, 1..50, 10)
      /\ getHealthMonitorConfig(a, o).delay = Chosen(a.delay, 1..50, 5)
      BY <1>4 DEF getHealthMonitorConfig
<1> QED BY <1>1, <1>2, <1>3, <1>5 DEF MonitorAccepted

\* When the ELB names are distinct, a port number stands for one port and the API takes
\* the health monitors, then as long as no call fails and the nodes stay the same a
\* settled Service has every port of its current spec balanced, by its protocol, to
\* exactly the nodes on its nodePort, health-checked and let through by the security
\* group, however Services are edited, deleted and created again.  (A nodePort that
\* changes, and nodes that change during the first sync, are not followed.)
THEOREM BackendsComplete ==
    ASSUME NamesDistinct, PortsFixed, MonitorsAccepted
    PROVE  Spec => [](nodeChanges = 0 => FaultFreeBackends)
<1>1. TypeOK /\ LifecycleInv /\ OwnInv /\ SteadyInv /\ ServedInv /\ BackendsInv
      /\ [Next]_vars => SteadyInv' /\ ServedInv' /\ BackendsInv'
      BY SteadyStep, ServedStep, BackendsStep
<1>2. TypeOK /\ LifecycleInv /\ OwnInv /\ ServedInv /\ BackendsInv
      => (nodeChanges = 0 => FaultFreeBackends)
  <2>1. BackendsInv /\ Undisrupted => Steady
        BY DEF BackendsInv, Undisrupted, Steady
  <2> QED BY <2>1, BackedMeans DEF FaultFreeBackends, Undisrupted
<1> QED BY <1>1, <1>2, ServedStart, BackendsStart, TypeCorrect, LifecycleInvariant,
           OwnInvariant, PTL DEF Spec

-----------------------------------------------------------------------------
(* Whose address a service publishes.                                      *)

\* The ids of the resources in the name of a service.
Ids(R, s) == {x.id : x \in {y \in R : y.name = NameOf[s]}}

\* What a service publishes, its sync worker has noted, or is in the cloud in its name.
Claims(s) == ingress[s] \cup loc[<<s, "sync">>].eip \cup Ids(lbs, s) \cup Ids(eips, s)

\* The inductive invariant behind OneELBPerService.
ClaimsInv ==
    /\ \A s \in Services : \A i \in Claims(s) : i \in Nat /\ i < nextId
    /\ \A s, t \in Services : s # t => Claims(s) \cap Claims(t) = {}

\* The ELB of a service, with its EIP, is being created.
Creating(s) == CloudCreateLB(NameOf[s], s \in EIPServices)

\* The identifiers the cloud hands out only grow.
LEMMA IdsGrow ==
    ASSUME TypeOK, [Next]_vars
    PROVE  nextId' \in Nat /\ nextId' >= nextId
BY MembersEffect, CloudTypes DEF MembersAge, MemberAdded, CloudSetMembers

\* One ELB is created at a time.
LEMMA CreatingAlone ==
    ASSUME NamesDistinct, TypeOK, LifecycleInv, NEW s \in Services, NEW t \in Services,
           Creating(s), Creating(t)
    PROVE  s = t
<1> DEFINE new(u) == [id |-> nextId, name |-> NameOf[u]]
<1>1. lbs' = lbs \cup {new(s)} /\ lbs' = lbs \cup {new(t)}
      BY DEF Creating, CloudCreateLB
<1>2. \A u : new(u).id = nextId /\ new(u).name = NameOf[u] OBVIOUS
<1> HIDE DEF new
<1>3. nextId \in Nat /\ \A l \in lbs : l.id # nextId
      BY CloudTypes DEF LifecycleInv, UniqueIds
<1>4. new(s) = new(t) BY <1>1, <1>2, <1>3
<1> QED BY <1>2, <1>4 DEF NamesDistinct

\* ELBs and EIPs come into being with new ids, in the name of the service they are for.
LEMMA NamedIds ==
    ASSUME NamesDistinct, TypeOK, [Next]_vars, NEW s \in Services,
           NEW i \in Ids(lbs, s)' \cup Ids(eips, s)', i \notin Claims(s)
    PROVE  Creating(s) /\ i >= nextId /\ i < nextId'
<1>0. i \notin Ids(lbs, s) \cup Ids(eips, s) BY DEF Claims
<1>1. PICK x \in lbs' \cup eips' : x.name = NameOf[s] /\ x.id = i BY DEF Ids
<1>2. \A y \in lbs \cup eips : y.name = NameOf[s] => y.id # i BY <1>0 DEF Ids
<1>3. CASE UNCHANGED lbs /\ eips' \subseteq eips BY <1>1, <1>2, <1>3
<1>4. ASSUME NEW u \in Services, CloudCreateLB(NameOf[u], u \in EIPServices)
      PROVE  Creating(s) /\ i >= nextId /\ i < nextId'
  <2> DEFINE new == [id |-> nextId, name |-> NameOf[u]]
             eip == [id |-> nextId + 1, name |-> NameOf[u], lb |-> nextId]
  <2>1. /\ lbs' = lbs \cup {new} /\ eips' \subseteq eips \cup {eip}
        /\ nextId' = nextId + 2 /\ nextId \in Nat
        BY <1>4, CloudTypes DEF CloudCreateLB
  <2>2. /\ new.id = nextId /\ new.name = NameOf[u]
        /\ eip.id = nextId + 1 /\ eip.name = NameOf[u]
        OBVIOUS
  <2> HIDE DEF new, eip
  <2>3. x = new \/ x = eip BY <1>1, <1>2, <2>1
  <2>4. u = s BY <1>1, <2>2, <2>3 DEF NamesDistinct
  <2> QED BY <1>1, <1>4, <2>1, <2>2, <2>3, <2>4 DEF Creating
<1>5. ASSUME NEW b, CloudDeleteLB(b) PROVE FALSE
  <2>1. /\ lbs' \subseteq lbs
        /\ eips' = {IF e.lb = b THEN [e EXCEPT !.lb = 0] ELSE e : e \in eips}
        BY <1>5 DEF CloudDeleteLB
  <2>2. \A e \in eips : e \in [id : Nat, name : STRING, lb : Nat]
        BY DEF TypeOK, CloudTypeOK
  <2>3. \A f \in eips' : \E e \in eips : f.id = e.id /\ f.name = e.name BY <2>1, <2>2
  <2> QED BY <1>1, <1>2, <2>1, <2>3
<1> QED BY <1>3, <1>4, <1>5, EIPEffect

\* The EIPs of an ELB have the name of its service.
LEMMA ELBsEIPs ==
    ASSUME TypeOK, LifecycleInv, OwnInv, NEW s \in Services, NEW l \in LBsNamed(NameOf[s])
    PROVE  {e.id : e \in EIPsOf(l.id)} \subseteq Ids(eips, s)
<1> SUFFICES ASSUME NEW e \in EIPsOf(l.id) PROVE e.name = NameOf[s] /\ e \in eips
    BY DEF Ids
<1>1. e \in eips /\ e.lb = l.id /\ l \in lbs /\ l.name = NameOf[s]
      BY DEF EIPsOf, LBsNamed
<1>2. l.id # 0 /\ \A m \in lbs : m.id = l.id => m = l
      BY <1>1 DEF OwnInv, CloudInv, LifecycleInv, UniqueIds
<1>3. Bound(e) BY <1>1, <1>2 DEF OwnInv, CloudInv
<1> QED BY <1>1, <1>2, <1>3 DEF Bound

\* A deletion notes the EIPs of its ELB and forgets those it has released.
LEMMA DeletionNotes ==
    ASSUME TypeOK, LifecycleInv, OwnInv, NEW s \in Services,
           GetLoadBalancer(s) \/ EnsureLoadBalancerDeleted(s),
           NEW i \in loc'[<<s, "sync">>].eip
    PROVE  i \in Claims(s)
<1> DEFINE p == <<s, "sync">>
           v == loc[p]
           Keeps == \E c, u : Goto(p, c, u) /\ u.eip \subseteq v.eip
<1>0. WorkerTypeOK /\ p \in Procs /\ v \in LocType BY ProcTypes DEF TypeOK, WorkerTypeOK
<1>1. ASSUME NEW c, NEW u, Goto(p, c, u) PROVE i \in u.eip
      BY <1>0, <1>1, GotoMoves
<1>2. CASE Keeps BY <1>1, <1>2 DEF Claims
<1>3. ~Fail(p) /\ ~Goto(p, "deleted", NoLoc) BY <1>1 DEF Fail, NoLoc
<1>4. /\ \A x : [v EXCEPT !.pool = x].eip = v.eip
      /\ \A x : [v EXCEPT !.tries = x].eip = v.eip
      /\ \A x : [v EXCEPT !.eip = x].eip = x
      BY <1>0 DEF LocType
<1>5. \A x : [v EXCEPT !.doomed = x].eip = v.eip BY <1>0 DEF LocType
<1>6. CASE DeleteGet(s)
  <2>1. PICK l \in LBsNamed(NameOf[s]) :
          Goto(p, "eipFind", [v EXCEPT !.lb = l.id, !.eip = {e.id : e \in EIPsOf(l.id)}])
        BY <1>3, <1>6 DEF DeleteGet
  <2> DEFINE noted == {e.id : e \in EIPsOf(l.id)}
             u == [v EXCEPT !.lb = l.id, !.eip = noted]
  <2>2. u.eip = noted BY <1>0 DEF LocType
  <2>3. Goto(p, "eipFind", u) BY <2>1
  <2>4. noted \subseteq Ids(eips, s) BY ELBsEIPs
  <2> HIDE DEF u, noted
  <2> QED BY <1>1, <2>2, <2>3, <2>4 DEF Claims
<1>7. CASE GetLoadBalancer(s) \/ ~DeleteGet(s)
  <2> HIDE DEF v
  <2>1. ASSUME NEW c, NEW x, Goto(p, c, [v EXCEPT !.pool = x]) PROVE Keeps
    <3>1. [v EXCEPT !.pool = x].eip \subseteq v.eip BY <1>4
    <3> QED BY <2>1, <3>1
  <2>2. ASSUME NEW c, NEW x, Goto(p, c, [v EXCEPT !.doomed = x]) PROVE Keeps
    <3>1. [v EXCEPT !.doomed = x].eip \subseteq v.eip BY <1>5
    <3> QED BY <2>2, <3>1
  <2>3. ASSUME NEW c, NEW x, Goto(p, c, [v EXCEPT !.tries = x]) PROVE Keeps
    <3>1. [v EXCEPT !.tries = x].eip \subseteq v.eip BY <1>4
    <3> QED BY <2>3, <3>1
  <2>4. ASSUME NEW c, NEW x, Goto(p, c, [v EXCEPT !.eip = v.eip \ {x}]) PROVE Keeps
    <3>1. [v EXCEPT !.eip = v.eip \ {x}].eip \subseteq v.eip BY <1>4
    <3> QED BY <2>4, <3>1
  <2>5. ASSUME NEW c, Goto(p, c, v) PROVE Keeps BY <2>5
  <2> HIDE DEF Keeps
  <2>6. ASSUME GetLoadBalancer(s) PROVE Keeps BY <1>3, <2>5, <2>6 DEF GetLoadBalancer, v
  <2>7. ASSUME FindEIP(s) PROVE Keeps BY <2>1, <2>5, <2>7 DEF FindEIP, v
  <2>8. ASSUME ReleaseBoundEIP(s) PROVE Keeps BY <2>1, <2>8 DEF ReleaseBoundEIP, v
  <2>9. ASSUME ListListeners(s) PROVE Keeps BY <1>3, <2>2, <2>9 DEF ListListeners, v
  <2>10. ASSUME DeleteListener(s) PROVE Keeps BY <1>3, <2>2, <2>10 DEF DeleteListener, v
  <2>11. ASSUME ListPools(s) PROVE Keeps BY <1>3, <2>2, <2>11 DEF ListPools, v
  <2>12. ASSUME DeletePool(s) PROVE Keeps BY <1>3, <2>2, <2>12 DEF DeletePool, v
  <2>13. ASSUME DeleteLoadBalancer(s) PROVE Keeps
         BY <1>3, <2>3, <2>5, <2>13 DEF DeleteLoadBalancer, v
  <2>14. ASSUME ReleaseOrphanedEIP(s) PROVE Keeps BY <2>4, <2>14 DEF ReleaseOrphanedEIP, v
  <2> QED BY <1>2, <1>7, <2>6, <2>7, <2>8, <2>9, <2>10, <2>11, <2>12, <2>13, <2>14
          DEF EnsureLoadBalancerDeleted
<1> QED BY <1>6, <1>7

\* EnsureLoadBalancer notes the EIPs of the ELB it has found or created,
LEMMA EnsureNotes ==
    ASSUME TypeOK, LifecycleInv, OwnInv, NEW s \in Services, EnsureLoadBalancer(s),
           NEW i \in loc'[<<s, "sync">>].eip
    PROVE  i \in Claims(s) \/ i \in Ids(eips, s)'
<1> DEFINE p == <<s, "sync">>
           v == loc[p]
<1>0. WorkerTypeOK /\ p \in Procs /\ v \in LocType BY ProcTypes DEF TypeOK, WorkerTypeOK
<1>1. ASSUME NEW c, NEW u, Goto(p, c, u) PROVE i \in u.eip
      BY <1>0, <1>1, GotoMoves
<1>2. ~Fail(p) BY <1>1 DEF Fail, NoLoc
<1>3. ASSUME NEW b, NEW es, Configure(p, b, es) PROVE \E e \in es : e.id = i
  <2> DEFINE ids == {e.id : e \in es}
             u == [v EXCEPT !.lb = b, !.eip = ids]
  <2>1. u.eip = ids BY <1>0 DEF LocType
  <2>2. Goto(p, NextPort(p[2], v.todo), u) BY <1>3 DEF Configure
  <2>3. i \in ids
    <3> HIDE DEF u, ids
    <3> QED BY <1>1, <2>1, <2>2
  <2> QED BY <2>3
<1>4. ASSUME NEW c, Goto(p, c, v) PROVE i \in Claims(s) BY <1>1, <1>4 DEF Claims
<1>5. CASE EnsureGet(s)
  <2>1. CASE Goto(p, "lbPost", v) BY <1>4, <2>1
  <2>2. ASSUME NEW l \in LBsNamed(NameOf[s]), Configure(p, l.id, EIPsOf(l.id))
        PROVE  i \in Claims(s)
        BY <1>3, <2>2, ELBsEIPs DEF Claims
  <2> QED BY <1>2, <1>5, <2>1, <2>2 DEF EnsureGet
<1>6. CASE CreateLoadBalancer(s)
  <2>1. PICK n : n = nextId OBVIOUS
  <2>2. PICK es : es = {e \in eips' : e.lb = n} OBVIOUS
  <2>3. Configure(p, n, es) /\ CloudCreateLB(NameOf[s], s \in EIPServices)
        BY <1>2, <1>6, <2>1, <2>2 DEF CreateLoadBalancer, Applied
  <2> DEFINE new == [id |-> n + 1, name |-> NameOf[s], lb |-> n]
  <2>4. eips' \subseteq eips \cup {new} BY <2>1, <2>3 DEF CloudCreateLB
  <2>5. new.name = NameOf[s] OBVIOUS
  <2> HIDE DEF new
  <2>6. \A e \in eips : e.lb # n
        BY <2>1, CloudTypes
        DEF OwnInv, CloudInv, Bound, LifecycleInv, UniqueIds
  <2>7. PICK e \in es : e.id = i BY <1>3, <2>3
  <2>8. e \in eips' /\ e.name = NameOf[s] BY <2>2, <2>4, <2>5, <2>6, <2>7
  <2> QED BY <2>7, <2>8 DEF Ids
<1>7. CASE ensureListeners(p)
  <2>1. ListenersGoOn(p) BY <1>0, <1>7, ensureListenersGoOn
  <2>2. loc'[p].eip \subseteq v.eip
        BY <2>1 DEF ListenersGoOn, NoLoc
  <2> QED BY <2>2 DEF Claims
<1>8. CASE EnsureELBSecurityGroup(s) BY <1>4, <1>8 DEF EnsureELBSecurityGroup
<1> QED BY <1>5, <1>6, <1>7, <1>8 DEF EnsureLoadBalancer

\* and the other steps note nothing.
LEMMA NotedIds ==
    ASSUME TypeOK, LifecycleInv, OwnInv, [Next]_vars, NEW s \in Services,
           NEW i \in loc'[<<s, "sync">>].eip
    PROVE  i \in Claims(s) \/ i \in Ids(eips, s)'
<1> DEFINE p == <<s, "sync">>
<1>0. WorkerTypeOK /\ p \in Procs BY ProcTypes DEF TypeOK
<1>1. CASE Crash BY <1>0, <1>1 DEF Crash, NoLoc
<1>2. CASE ~SyncWorker(s) /\ ~Crash BY <1>2, SyncStays DEF Claims
<1>3. CASE SyncWorker(s)
  <2>1. CASE SyncService(s) \/ PublishStatus(s) \/ RemoveFinalizer(s) \/ Requeue(s)
    <3>1. NoLoc.eip = {} /\ \A ps, ns : Call(ps, ns).eip = {} BY DEF NoLoc, Call
    <3>2. \/ \E c : Goto(p, c, NoLoc)
          \/ Goto(p, "ensGet", Call(ports[s], nodes))
          BY <2>1 DEF SyncService, PublishStatus, RemoveFinalizer, Requeue
    <3>3. loc'[p] = NoLoc \/ loc'[p] = Call(ports[s], nodes) BY <1>0, <3>2, GotoMoves
    <3> QED BY <3>1, <3>3
  <2> QED BY <1>3, <2>1, EnsureNotes, DeletionNotes DEF SyncWorker
<1> QED BY <1>1, <1>2, <1>3

\* The address published is one that the worker has noted, or that of its ELB.
LEMMA PublishedIds ==
    ASSUME TypeOK, LifecycleInv, [Next]_vars, NEW s \in Services, NEW i \in ingress'[s]
    PROVE  i \in Claims(s)
<1>1. CASE UNCHANGED ingress BY <1>1 DEF Claims
<1>2. ASSUME NEW t \in Services, RemoveFinalizer(t) PROVE i \in Claims(s)
      BY <1>2 DEF RemoveFinalizer, TypeOK, ControllerTypeOK, Claims
<1>3. ASSUME NEW t \in Services, PublishStatus(t) PROVE i \in Claims(s)
  <2>1. PICK v : v = loc[<<t, "sync">>] OBVIOUS
  <2>2. /\ pc[<<t, "sync">>] = "ensured"
        /\ ingress' = [ingress EXCEPT ![t] = IF v.eip # {} THEN v.eip ELSE {v.lb}]
        BY <1>3, <2>1 DEF PublishStatus
  <2>3. CASE s # t BY <2>2, <2>3 DEF TypeOK, ControllerTypeOK, Claims
  <2>4. CASE s = t
    <3>1. PICK l \in lbs : l.name = NameOf[s] /\ l.id = v.lb
          BY <2>1, <2>2, <2>4 DEF LifecycleInv, WorkerKnows, HoldingPCs, EnsurePCs
    <3>2. i \in v.eip \/ i = l.id
          BY <2>2, <2>4, <3>1 DEF TypeOK, ControllerTypeOK
    <3> QED BY <2>1, <2>4, <3>1, <3>2 DEF Claims, Ids
  <2> QED BY <2>3, <2>4
<1>4. \/ UNCHANGED ingress
      \/ \E t \in Services : PublishStatus(t) \/ RemoveFinalizer(t)
  <2>1. CASE UNCHANGED vars \/ ChangeNodes \/ Crash \/ Cloud
        BY <2>1 DEF vars, ChangeNodes, Crash, Cloud, k8sVars
  <2>2. ASSUME NEW t \in Services,
               \/ ApplyService(t) \/ RemoveService(t) \/ NodeWorker(t)
               \/ SyncWorker(t) /\ ~PublishStatus(t) /\ ~RemoveFinalizer(t)
        PROVE  UNCHANGED ingress
        BY <2>2 DEF ApplyService, RemoveService, NodeWorker, SyncNodes, NodesSynced,
           RetryNodes, SyncWorker, SyncService, Requeue, k8sVars
  <2> QED BY <2>1, <2>2 DEF Next
<1> QED BY <1>1, <1>2, <1>3, <1>4

\* A service claims nothing but what is new in its name.
LEMMA ClaimsStep ==
    ASSUME NamesDistinct, TypeOK, LifecycleInv, OwnInv, ClaimsInv, [Next]_vars
    PROVE  ClaimsInv'
<1>0. nextId \in Nat /\ nextId' \in Nat /\ nextId' >= nextId
      BY IdsGrow, CloudTypes
<1>1. ASSUME NEW s \in Services, NEW i \in Claims(s)', i \notin Claims(s)
      PROVE  Creating(s) /\ i >= nextId /\ i < nextId' /\ i \in Nat
  <2>1. i \in Ids(lbs, s)' \cup Ids(eips, s)'
        BY <1>1, NotedIds, PublishedIds DEF Claims
  <2>2. i \in Nat
    <3>1. TypeOK' BY NextType
    <3> QED BY <2>1, <3>1, CloudTypes DEF Ids, TypeOK, CloudTypeOK
  <2> QED BY <1>1, <2>1, <2>2, NamedIds
<1>2. ASSUME NEW s \in Services, NEW i \in Claims(s)' PROVE i \in Nat /\ i < nextId'
  <2>1. CASE i \in Claims(s) BY <1>0, <2>1 DEF ClaimsInv
  <2> QED BY <1>1, <1>2, <2>1
<1>3. ASSUME NEW s \in Services, NEW t \in Services, s # t,
             NEW i \in Claims(s)', i \in Claims(t)'
      PROVE  FALSE
  <2>1. CASE i \in Claims(s) /\ i \in Claims(t) BY <1>3, <2>1 DEF ClaimsInv
  <2>2. CASE i \in Claims(s) /\ i \notin Claims(t)
        BY <1>0, <1>1, <1>3, <2>2 DEF ClaimsInv
  <2>3. CASE i \notin Claims(s) /\ i \in Claims(t)
        BY <1>0, <1>1, <1>3, <2>3 DEF ClaimsInv
  <2>4. CASE i \notin Claims(s) /\ i \notin Claims(t)
        BY <1>1, <1>3, <2>4, CreatingAlone
  <2> QED BY <2>1, <2>2, <2>3, <2>4
<1> QED BY <1>2, <1>3 DEF ClaimsInv

\* When the ELB names are distinct, no two Services ever publish the same address,
\* whatever fails and however often their ELBs and EIPs are deleted and made anew: the
\* name is all that keeps them apart (the run shared_name shows two that share one).
THEOREM AddressesAreApart ==
    ASSUME NamesDistinct
    PROVE  Spec => []OneELBPerService
<1>1. Init => ClaimsInv
  <2> SUFFICES ASSUME Init PROVE ClaimsInv OBVIOUS
  <2>1. ASSUME NEW s \in Services PROVE Claims(s) = {}
    <3>1. <<s, "sync">> \in Procs BY DEF Procs, Workers
    <3> QED BY <3>1 DEF Init, CloudInit, Claims, Ids, NoLoc
  <2> QED BY <2>1 DEF ClaimsInv
<1>2. TypeOK /\ LifecycleInv /\ OwnInv /\ ClaimsInv /\ [Next]_vars => ClaimsInv'
      BY ClaimsStep
<1>3. ClaimsInv => OneELBPerService BY DEF ClaimsInv, Claims, OneELBPerService
<1> QED BY <1>1, <1>2, <1>3, TypeCorrect, LifecycleInvariant, OwnInvariant, PTL DEF Spec
=============================================================================
