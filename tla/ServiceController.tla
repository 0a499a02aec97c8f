-------------------------- MODULE ServiceController --------------------------
(***************************************************************************)
(* The Kubernetes service controller (k8s.io/cloud-provider, started by    *)
(* cmd/cloud-controller-manager) driving the provider of LoadBalancer      *)
(* against the cloud of ELBCloud, with the users who edit Services, the    *)
(* nodes that come and go, and crashes of the controller manager.          *)
(*                                                                         *)
(* A service is synced by one goroutine at a time (its key is in the work  *)
(* queue once); the node goroutine calls UpdateLoadBalancer for the spec   *)
(* the controller has cached, at the same time.                            *)
(***************************************************************************)
EXTENDS LoadBalancer

CONSTANTS
    PortSets,        \* the values spec.ports takes: sets of ServicePorts
    NodeSets,        \* the node sets the cluster goes through
    InitNodes,       \* the nodes at the start
    MaxEdits,        \* bound: user edits of Services
    MaxNodeChanges,  \* bound: changes of the node set
    MaxCrashes       \* bound: crashes, each also one of the MaxFaults faults

ASSUME EditsAssumption ==
    /\ PortSets \subseteq SUBSET ServicePorts
    /\ NodeSets \subseteq SUBSET Nodes /\ InitNodes \subseteq Nodes
    /\ MaxEdits \in Nat /\ MaxNodeChanges \in Nat /\ MaxCrashes \in Nat

VARIABLES
    want,         \* the Service is of type LoadBalancer and not being deleted
    ports,        \* its spec.ports
    fin,          \* it carries the load-balancer-cleanup finalizer
    ingress,      \* status.loadBalancer: the ids of the addresses published
    nodes,        \* the nodes the cluster has
    queued,       \* the service's key is in the work queue
    nodeQueued,   \* a node sync of the service is due
    cached,       \* the controller's cache: {} or {ports} of a wanted service
    edits, nodeChanges, crashes

k8sVars == <<want, ports, fin, ingress, nodes, edits, nodeChanges>>
ctlVars == <<queued, nodeQueued, cached, crashes>>
vars == <<cloudVars, faults, procVars, k8sVars, ctlVars>>

Init ==
    /\ CloudInit
    /\ pc = [p \in Procs |-> "idle"]
    /\ loc = [p \in Procs |-> NoLoc]
    /\ want = [s \in Services |-> FALSE]
    /\ ports = [s \in Services |-> {}]
    /\ fin = [s \in Services |-> FALSE]
    /\ ingress = [s \in Services |-> {}]
    /\ nodes = InitNodes
    /\ queued = [s \in Services |-> FALSE]
    /\ nodeQueued = [s \in Services |-> FALSE]
    /\ cached = [s \in Services |-> {}]
    /\ edits = 0 /\ nodeChanges = 0 /\ crashes = 0

-----------------------------------------------------------------------------
(* The environment.                                                        *)

\* A user creates the Service, turns it into a LoadBalancer or edits its ports.
ApplyService(s) ==
    /\ edits < MaxEdits
    /\ \E ps \in PortSets :
         /\ ~want[s] \/ ps # ports[s]
         /\ ports' = [ports EXCEPT ![s] = ps]
    /\ want' = [want EXCEPT ![s] = TRUE]
    /\ queued' = [queued EXCEPT ![s] = TRUE]
    /\ edits' = edits + 1
    /\ UNCHANGED <<cloudVars, faults, procVars, fin, ingress, nodes, nodeChanges,
                   nodeQueued, cached, crashes>>

\* A user deletes the Service or gives it another type.
RemoveService(s) ==
    /\ edits < MaxEdits
    /\ want[s]
    /\ want' = [want EXCEPT ![s] = FALSE]
    /\ queued' = [queued EXCEPT ![s] = TRUE]
    /\ edits' = edits + 1
    /\ UNCHANGED <<cloudVars, faults, procVars, ports, fin, ingress, nodes,
                   nodeChanges, nodeQueued, cached, crashes>>

\* Nodes join or leave: every service is due a node sync.
ChangeNodes ==
    /\ nodeChanges < MaxNodeChanges
    /\ \E ns \in NodeSets \ {nodes} : nodes' = ns
    /\ nodeQueued' = [s \in Services |-> TRUE]
    /\ nodeChanges' = nodeChanges + 1
    /\ UNCHANGED <<cloudVars, faults, procVars, want, ports, fin, ingress, edits,
                   queued, cached, crashes>>

\* The controller manager crashes and restarts: everything in memory is lost,
\* every service is queued again.
Crash ==
    /\ faults < MaxFaults /\ faults' = faults + 1
    /\ crashes < MaxCrashes /\ crashes' = crashes + 1
    /\ pc' = [p \in Procs |-> "idle"]
    /\ loc' = [p \in Procs |-> NoLoc]
    /\ queued' = [s \in Services |-> TRUE]
    /\ nodeQueued' = [s \in Services |-> TRUE]
    /\ cached' = [s \in Services |-> {}]
    /\ UNCHANGED <<cloudVars, k8sVars>>

-----------------------------------------------------------------------------
(* The service worker.                                                     *)

\* The key is taken from the queue and the spec cached, also that of a service that
\* is being deleted: it is there as long as its finalizer is.  A wanted service gets
\* its finalizer before EnsureLoadBalancer is called with the current nodes.
SyncService(s) ==
    LET p == <<s, "sync">>
    IN  /\ pc[p] = "idle" /\ queued[s]
        /\ queued' = [queued EXCEPT ![s] = FALSE]
        /\ cached' = [cached EXCEPT ![s] = IF want[s] \/ fin[s] THEN {ports[s]}
                                                                  ELSE {}]
        /\ fin' = [fin EXCEPT ![s] = want[s] \/ @]
        /\ IF want[s] THEN Goto(p, "ensGet", Call(ports[s], nodes))
                      ELSE Goto(p, "delCheck", NoLoc)
        /\ UNCHANGED <<cloudVars, faults, want, ports, ingress, nodes, edits,
                       nodeChanges, nodeQueued, crashes>>

\* EnsureLoadBalancer returned: its status is published.  The EIP if the ELB has
\* one, otherwise the VIP (named by the ELB's id).
PublishStatus(s) ==
    LET p == <<s, "sync">>
    IN  /\ pc[p] = "ensured"
        /\ ingress' = [ingress EXCEPT ![s] = IF loc[p].eip # {} THEN loc[p].eip
                                                                ELSE {loc[p].lb}]
        /\ Goto(p, "idle", NoLoc)
        /\ UNCHANGED <<cloudVars, faults, want, ports, fin, nodes, edits,
                       nodeChanges, ctlVars>>

\* The load balancer is gone: finalizer and status are removed, and the cached spec.
RemoveFinalizer(s) ==
    LET p == <<s, "sync">>
    IN  /\ pc[p] = "deleted"
        /\ fin' = [fin EXCEPT ![s] = FALSE]
        /\ ingress' = [ingress EXCEPT ![s] = {}]
        /\ cached' = [cached EXCEPT ![s] = {}]
        /\ Goto(p, "idle", NoLoc)
        /\ UNCHANGED <<cloudVars, faults, want, ports, nodes, edits, nodeChanges,
                       queued, nodeQueued, crashes>>

\* The provider returned an error: the service is queued again.
Requeue(s) ==
    LET p == <<s, "sync">>
    IN  /\ pc[p] = "failed"
        /\ queued' = [queued EXCEPT ![s] = TRUE]
        /\ Goto(p, "idle", NoLoc)
        /\ UNCHANGED <<cloudVars, faults, k8sVars, nodeQueued, cached, crashes>>

-----------------------------------------------------------------------------
(* The node worker.                                                        *)

\* UpdateLoadBalancer is called for the cached spec and the current nodes.
SyncNodes(s) ==
    LET p == <<s, "node">>
    IN  /\ pc[p] = "idle" /\ nodeQueued[s]
        /\ nodeQueued' = [nodeQueued EXCEPT ![s] = FALSE]
        /\ IF cached[s] = {} THEN UNCHANGED procVars
           ELSE \E ps \in cached[s] : Goto(p, "updGet", Call(ps, nodes))
        /\ UNCHANGED <<cloudVars, faults, k8sVars, queued, cached, crashes>>

NodesSynced(s) ==
    LET p == <<s, "node">>
    IN  /\ pc[p] = "updated"
        /\ Goto(p, "idle", NoLoc)
        /\ UNCHANGED <<cloudVars, faults, k8sVars, ctlVars>>

\* UpdateLoadBalancer failed: unless GetLoadBalancer says that there is no load
\* balancer, the service goes to the work queue.
RetryNodes(s) ==
    LET p == <<s, "node">>
    IN  /\ pc[p] = "failed"
        /\ \E r \in Outcomes :
             /\ Charge(r)
             /\ queued' = [queued EXCEPT ![s] =
                             @ \/ r # "ok" \/ LBsNamed(NameOf[s]) # {}]
        /\ Goto(p, "idle", NoLoc)
        /\ UNCHANGED <<cloudVars, k8sVars, nodeQueued, cached, crashes>>

-----------------------------------------------------------------------------
\* The steps of the two goroutines of a service.
SyncWorker(s) ==
    \/ SyncService(s) \/ PublishStatus(s) \/ RemoveFinalizer(s) \/ Requeue(s)
    \/ /\ EnsureLoadBalancer(s) \/ GetLoadBalancer(s) \/ EnsureLoadBalancerDeleted(s)
       /\ UNCHANGED <<k8sVars, ctlVars>>

NodeWorker(s) ==
    \/ SyncNodes(s) \/ NodesSynced(s) \/ RetryNodes(s)
    \/ UpdateLoadBalancer(s) /\ UNCHANGED <<k8sVars, ctlVars>>

Cloud == (ReapListener \/ ReapPool) /\ UNCHANGED <<procVars, k8sVars, ctlVars>>

Next ==
    \/ \E s \in Services :
         ApplyService(s) \/ RemoveService(s) \/ SyncWorker(s) \/ NodeWorker(s)
    \/ ChangeNodes \/ Crash \/ Cloud

Spec == Init /\ [][Next]_vars

-----------------------------------------------------------------------------
PCs == {"idle", "failed", "ensGet", "lbPost", "poolGet", "poolPost", "memList",
        "memAdd", "memDel", "lisGet", "lisPost", "hm", "sg", "ensured",
        "updGet", "lisList", "orphanListener", "orphanPool", "updated",
        "delCheck", "delGet", "eipFind", "eipRelease", "delListeners",
        "delListener", "delPools", "delPool", "delLB", "eipCleanup", "deleted"}

MemberType == [pool : Nat, addr : Nodes, nodePort : Nat]

LocType ==
    [ports : SUBSET ServicePorts, nodes : SUBSET Nodes, lb : Nat,
     eip : SUBSET Nat, todo : SUBSET ServicePorts,
     cur : ServicePorts \cup {NoPort}, pool : Nat, adds : SUBSET Nodes,
     dels : SUBSET MemberType, doomed : SUBSET [id : Nat, pool : Nat],
     tries : Nat]

CloudTypeOK ==
    /\ lbs \subseteq [id : Nat, name : STRING]
    /\ eips \subseteq [id : Nat, name : STRING, lb : Nat]
    /\ listeners \subseteq [id : Nat, lb : Nat, port : Nat,
                            proto : {"TCP", "UDP"}, pool : Nat, dying : BOOLEAN]
    /\ pools \subseteq [id : Nat, lb : Nat, port : Nat,
                        proto : {"TCP", "UDP"}, dying : BOOLEAN]
    /\ members \subseteq MemberType
    /\ monitors \subseteq Nat
    /\ rules \subseteq [port : Nat, proto : {"tcp", "udp"}]
    /\ nextId \in Nat \ {0}

WorkerTypeOK == pc \in [Procs -> PCs] /\ loc \in [Procs -> LocType]

ControllerTypeOK ==
    /\ want \in [Services -> BOOLEAN]
    /\ ports \in [Services -> SUBSET ServicePorts]
    /\ fin \in [Services -> BOOLEAN]
    /\ ingress \in [Services -> SUBSET Nat]
    /\ nodes \subseteq Nodes
    /\ queued \in [Services -> BOOLEAN]
    /\ nodeQueued \in [Services -> BOOLEAN]
    /\ cached \in [Services -> SUBSET SUBSET ServicePorts]
    /\ edits \in Nat /\ nodeChanges \in Nat /\ crashes \in Nat

\* Every variable keeps its type.
TypeOK ==
    CloudTypeOK /\ WorkerTypeOK /\ ControllerTypeOK /\ faults \in 0..MaxFaults

-----------------------------------------------------------------------------
(* Correctness properties.                                                 *)

\* There are never two load balancers of one name: the get-then-create of
\* EnsureLoadBalancer is not atomic, and a creation whose answer is lost is retried.
NoDuplicateELB == \A l1, l2 \in lbs : l1.name = l2.name => l1 = l2

\* While an ELB exists, the finalizer of its service does: the controller never
\* forgets a load balancer, whatever calls fail in EnsureLoadBalancerDeleted.
NoLeakedELB == \A l \in lbs : \E s \in Services : NameOf[s] = l.name /\ fin[s]

\* No elastic IP outlives its service: as long as an EIP exists, the service it
\* was created for still has its finalizer, so a deletion is still to come.
NoLeakedEIP == \A e \in eips : \E s \in Services : NameOf[s] = e.name /\ fin[s]

\* Nothing is left for the controller to do for the service.
Settled(s) ==
    /\ pc[<<s, "sync">>] = "idle" /\ pc[<<s, "node">>] = "idle"
    /\ ~queued[s] /\ ~nodeQueued[s]

\* The service is served on port q by one listener of the ELB, whose default
\* pool is there.
Served(lb, q) ==
    \E l \in ListenersNamed(lb, q.port) :
        ListenersNamed(lb, q.port) = {l} /\ PoolLive(l.pool)

\* When the controller is done with a wanted service, its ELB exists, every port
\* of the current spec is served, and the published address is the ELB's.
SettledIsServed ==
    \A s \in Services : want[s] /\ Settled(s) =>
        \E l \in LBsNamed(NameOf[s]) :
            /\ \A q \in ports[s] : Served(l.id, q)
            /\ ingress[s] = IF EIPsOf(l.id) # {} THEN {e.id : e \in EIPsOf(l.id)}
                                                 ELSE {l.id}

\* When the controller is done with a wanted service, every port of its spec is
\* balanced, by the protocol asked for, to exactly the nodes of the cluster on
\* the port's nodePort, is health-checked and passes the security group.
SettledBackends ==
    \A s \in Services : want[s] /\ Settled(s) =>
        \A lb \in LBsNamed(NameOf[s]), q \in ports[s] :
            \E l \in ListenersNamed(lb.id, q.port) :
                /\ l.proto = Protocol(q)
                /\ MembersOf(l.pool) = {[pool |-> l.pool, addr |-> a,
                                         nodePort |-> q.nodePort] :
                                            a \in NodeIPs(nodes)}
                /\ l.pool \in monitors
                /\ RuleFor(q) \in rules

\* The same while no call has failed: a failed one may leave a member or a monitor
\* out for good.
FaultFreeBackends == faults = 0 => SettledBackends

\* The EIPs of an ELB are released even where the cloud refuses to release one that
\* is bound: the second attempt, after the deletion, needs one call to succeed.
FaultFreeEIPs == faults = 0 => NoLeakedEIP

\* When the controller is done with an unwanted service, its finalizer, its published
\* address and its load balancer are gone, whatever calls failed.  An EIP may be left
\* where its release failed (NoLeakedEIP, FaultFreeEIPs), and the rules of its ports in
\* the security group are, since nothing removes them.
SettledIsGone ==
    \A s \in Services : ~want[s] /\ Settled(s) =>
        ~fin[s] /\ ingress[s] = {} /\ LBsNamed(NameOf[s]) = {}

\* The nodes that are in the cluster all the time.
StableNodes == {n \in InitNodes : \A ns \in NodeSets : n \in ns}

\* In this step a worker of s removes the pool id: DeletePools does, or syncListeners
\* with a listener it takes for an orphan.
RemovesPool(s, id) ==
    \/ LET p == <<s, "sync">>
       IN  /\ pc[p] = "delPool"
           /\ \E d \in loc[p].doomed \ loc'[p].doomed : d.id = id
    \/ LET p == <<s, "node">>
       IN  pc[p] = "orphanPool" /\ pc'[p] # "orphanPool" /\ loc[p].pool = id

\* EnsureMembers never takes a node out of a pool that is in the cluster all the
\* time, however stale the node lists of the two workers are and whatever calls
\* fail: such a node only goes in a step that removes this very pool.
StableMembersKept ==
    [][\A m \in members \ members' :
          m.addr \in StableNodes => \E s \in Services : RemovesPool(s, m.pool)]_vars

-----------------------------------------------------------------------------
(* The life of a load balancer, as an inductive invariant and as the       *)
(* refinement of an abstract specification.                                *)

EnsurePCs == {"ensGet", "lbPost", "poolGet", "poolPost", "memList", "memAdd",
              "memDel", "lisGet", "lisPost", "hm", "sg", "ensured"}

\* Where EnsureLoadBalancer and EnsureLoadBalancerDeleted hold an ELB.
HoldingPCs == (EnsurePCs \ {"ensGet", "lbPost"})
              \cup {"eipFind", "eipRelease", "delListeners", "delListener",
                    "delPools", "delPool", "delLB"}

\* The ids of ELBs are distinct and were handed out by the cloud.
UniqueIds ==
    /\ \A l \in lbs : l.id < nextId
    /\ \A l1, l2 \in lbs : l1.id = l2.id => l1 = l2

\* What the sync worker of service s knows about its ELB at each request: that
\* there is none when it creates one and after it deleted it, that the one it
\* holds is the service's own, and that the finalizer protects what it ensures.
WorkerKnows(s) ==
    LET c == pc[<<s, "sync">>]
    IN  /\ c \in EnsurePCs => fin[s]
        /\ c \in {"lbPost", "eipCleanup", "deleted"} => LBsNamed(NameOf[s]) = {}
        /\ c \in HoldingPCs =>
             \E l \in lbs : l.name = NameOf[s] /\ l.id = loc[<<s, "sync">>].lb

\* A published address is protected by the finalizer.
PublishedIsProtected == \A s \in Services : ingress[s] # {} => fin[s]

\* The inductive invariant behind NoDuplicateELB and NoLeakedELB.
LifecycleInv ==
    /\ UniqueIds
    /\ NoDuplicateELB
    /\ NoLeakedELB
    /\ \A s \in Services : WorkerKnows(s)
    /\ PublishedIsProtected

\* The ELBs of each service, the abstract state.
ELBsOf == [s \in Services |-> {l.id : l \in LBsNamed(NameOf[s])}]
Published == [s \in Services |-> ingress[s] # {}]

Lifecycle == INSTANCE ServiceELB WITH elb <- ELBsOf, published <- Published

\* The controller, the provider and the cloud together keep the promise of
\* ServiceELB: each step is a step of a service's life cycle or invisible there.
ImplementsServiceELB == Lifecycle!Spec

-----------------------------------------------------------------------------
(* What the repository says of the program and the code does not always    *)
(* do: each holds as long as nodePorts stay and names differ, and a run of *)
(* its own refutes it where they do not.                                   *)

\* "Add/update members (node IPs with NodePort)" (loadbalancer.go): the members
\* of a settled service's pools are on the nodePort of the spec.
MembersOnNodePort ==
    \A s \in Services : want[s] /\ Settled(s) =>
        \A lb \in LBsNamed(NameOf[s]), q \in ports[s] :
            \A l \in ListenersNamed(lb.id, q.port) : \A m \in MembersOf(l.pool) :
                m.nodePort = q.nodePort

\* "pro Service" (README.md) an ELB, for which long names "keep uniqueness"
\* (loadbalancer.go): no two services publish the same address.
OneELBPerService ==
    \A s1, s2 \in Services : s1 # s2 => ingress[s1] \cap ingress[s2] = {}

-----------------------------------------------------------------------------
(* Fairness: each of the two goroutines of a service keeps running until   *)
(* it is idle, a queued key is picked up, and the cloud finishes the       *)
(* deletions it accepted.  Users, nodes and faults are not fair.           *)

FairSpec ==
    /\ Spec
    /\ \A s \in Services : WF_vars(SyncWorker(s)) /\ WF_vars(NodeWorker(s))
    /\ WF_vars(Cloud)

\* A service that stays unwanted gets rid of its finalizer, so its object can be
\* deleted: the retries on 409 and the queue outlast failures and slow deletions.
EventuallyReleased ==
    \A s \in Services : ~want[s] ~> (~fin[s] \/ want[s])

\* Once users, nodes and faults leave it alone, the controller comes to rest: no
\* service is synced again and again for ever, although every error (a 409 for
\* what is still being deleted, a listener the other worker created) requeues it.
ComesToRest == <>[](\A s \in Services : Settled(s))
=============================================================================
