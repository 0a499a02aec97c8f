---------------------------- MODULE LoadBalancer ----------------------------
(***************************************************************************)
(* The load balancer of the cloud provider: the methods EnsureLoadBalancer,*)
(* UpdateLoadBalancer, EnsureLoadBalancerDeleted and GetLoadBalancer of    *)
(* loadbalancer.go and the client calls they make (client.go), one action  *)
(* per HTTP request whose place in an interleaving matters.                *)
(*                                                                         *)
(* Two goroutines of the service controller run these methods for a        *)
(* service s: <<s, "sync">> (EnsureLoadBalancer, EnsureLoadBalancerDeleted)*)
(* and <<s, "node">> (UpdateLoadBalancer).  The code takes no lock, so     *)
(* their requests interleave.  pc says which request a goroutine sends     *)
(* next, loc holds its local variables.                                    *)
(***************************************************************************)
EXTENDS ELBCloud, HealthMonitor

CONSTANTS
    Services,      \* Services of type LoadBalancer
    NameOf,        \* GetLoadBalancerName: the ELB name of a service
    EIPServices,   \* services annotated with a positive otc.io/eip-bandwidth
    HealthChecks,  \* the otc.io/health-check annotations of a service
    ServicePorts,  \* the entries a Service's spec.ports may hold
    Nodes,         \* nodes of the cluster
    NodesWithIP,   \* the nodes that report an InternalIP
    MaxRetries     \* maxRetries of DeleteLoadBalancer (5 in the code)

Workers == {"sync", "node"}
Procs == Services \X Workers

K8sProtocols == {"TCP", "UDP", "SCTP"}

ASSUME ServicesAssumption ==
    /\ EIPServices \subseteq Services
    /\ NameOf \in [Services -> STRING]
    /\ HealthChecks \in [Services -> HealthAnnotations]
ASSUME PortsAssumption ==
    ServicePorts \subseteq [port : Nat, proto : K8sProtocols, nodePort : Nat]
ASSUME NodesAssumption == NodesWithIP \subseteq Nodes
ASSUME RetriesAssumption == MaxRetries \in Nat

VARIABLES pc, loc

procVars == <<pc, loc>>

\* Distinct services have distinct ELB names (see LBName for when they do).
NamesDistinct ==
    \A s1, s2 \in Services : NameOf[s1] = NameOf[s2] => s1 = s2

NoPort == [port |-> 0, proto |-> "TCP", nodePort |-> 0]

\* The locals of a goroutine that is not running a method.
NoLoc == [ports |-> {}, nodes |-> {}, lb |-> 0, eip |-> {}, todo |-> {},
          cur |-> NoPort, pool |-> 0, adds |-> {}, dels |-> {},
          doomed |-> {}, tries |-> 0]

\* A method call: the service's ports and the nodes the controller passes.
Call(ports, nodes) ==
    [NoLoc EXCEPT !.ports = ports, !.nodes = nodes, !.todo = ports]

\* Variant: the lower-case protocol of the security group API is used for the ELB.
ProtocolLowerCase(port) == IF port.proto = "UDP" THEN "udp" ELSE "tcp"

\* protocol in ensureListeners: anything but UDP is balanced as TCP.
Protocol(port) == IF port.proto = "UDP" THEN "UDP" ELSE "TCP"

\* What remains of ensureListeners once the ports in todo are left to do:
\* EnsureLoadBalancer goes on to the security group, UpdateLoadBalancer returns.
NextPort(w, todo) ==
    IF todo # {} THEN "poolGet" ELSE IF w = "sync" THEN "sg" ELSE "updated"

\* The goroutine moves to request c with its locals changed to v.
Goto(p, c, v) ==
    /\ pc' = [pc EXCEPT ![p] = c]
    /\ loc' = [loc EXCEPT ![p] = v]

\* The method returns an error to the controller.
Fail(p) == Goto(p, "failed", NoLoc)

-----------------------------------------------------------------------------
(* ensureListeners: per port EnsurePool, EnsureMembers, EnsureListener,    *)
(* EnsureHealthMonitorWithConfig.                                          *)

\* Variant: the pool is looked up without its name.
PoolGetUnnamed(p) ==
    /\ pc[p] = "poolGet"
    /\ \E port \in loc[p].todo, r \in Outcomes :
         LET found == LivePools(loc[p].lb)
             v == [loc[p] EXCEPT !.cur = port, !.todo = @ \ {port}]
         IN  /\ Charge(r)
             /\ IF r = "ok" /\ found # {}
                THEN \E q \in found : Goto(p, "memList", [v EXCEPT !.pool = q.id])
                ELSE Goto(p, "poolPost", v)
    /\ UNCHANGED cloudVars

\* EnsurePool, GET pools?name=..&loadbalancer_id=..: the first pool found is
\* used; an empty answer, an error status and a failed call all lead to a POST.
PoolGet(p) ==
    /\ pc[p] = "poolGet"
    /\ \E port \in loc[p].todo, r \in Outcomes :
         LET found == PoolsNamed(loc[p].lb, port.port)
             v == [loc[p] EXCEPT !.cur = port, !.todo = @ \ {port}]
         IN  /\ Charge(r)
             /\ IF r = "ok" /\ found # {}
                THEN \E q \in found : Goto(p, "memList", [v EXCEPT !.pool = q.id])
                ELSE Goto(p, "poolPost", v)
    /\ UNCHANGED cloudVars

\* EnsurePool, POST pools.
PoolPost(p) ==
    /\ pc[p] = "poolPost"
    /\ \E r \in Outcomes :
         LET created == Applied(r) /\ LBExists(loc[p].lb)
         IN  /\ Charge(r)
             /\ IF created
                THEN CloudCreatePool(loc[p].lb, loc[p].cur.port, Protocol(loc[p].cur))
                ELSE UNCHANGED cloudVars
             /\ IF created /\ r = "ok"
                THEN Goto(p, "memList", [loc[p] EXCEPT !.pool = nextId])
                ELSE Fail(p)

\* The addresses EnsureMembers wants in the pool.
NodeIPs(nodes) == nodes \cap NodesWithIP

\* Where EnsureMembers goes next.
NextMember(adds, dels) ==
    IF adds # {} THEN "memAdd" ELSE IF dels # {} THEN "memDel" ELSE "lisGet"

\* One member per address, as in the map existingIPs (address -> member ID).
ByAddress(ms) ==
    {sel \in SUBSET ms : \A m \in ms : \E x \in sel : 
        x.addr = m.addr /\ \A y \in sel : y.addr = m.addr => y = x}

\* Variant: the members to remove are those that are not to be added.
MemListSwapped(p) ==
    /\ pc[p] = "memList"
    /\ \E r \in Outcomes :
         /\ Charge(r)
         /\ IF r # "ok" THEN Fail(p)
            ELSE LET existing == MembersOf(loc[p].pool)
                     adds == NodeIPs(loc[p].nodes) \ {m.addr : m \in existing}
                     dels == {m \in existing : m.addr \notin adds}
                 IN  Goto(p, NextMember(adds, dels),
                          [loc[p] EXCEPT !.adds = adds, !.dels = dels])
    /\ UNCHANGED cloudVars

\* EnsureMembers, GET members: an error status decodes to no members.  A node
\* is matched by its address only.
MemList(p) ==
    /\ pc[p] = "memList"
    /\ \E r \in Outcomes :
         /\ Charge(r)
         /\ IF r \in {"neterr", "lost"}
            THEN Fail(p)
            ELSE \E existing \in ByAddress(IF r = "ok" THEN MembersOf(loc[p].pool)
                                                       ELSE {}) :
                   LET ips == NodeIPs(loc[p].nodes)
                       adds == ips \ {m.addr : m \in existing}
                       dels == {m \in existing : m.addr \notin ips}
                   IN  Goto(p, NextMember(adds, dels),
                            [loc[p] EXCEPT !.adds = adds, !.dels = dels])
    /\ UNCHANGED cloudVars

\* EnsureMembers, POST members: the answer is not looked at.
MemAdd(p) ==
    /\ pc[p] = "memAdd"
    /\ \E a \in loc[p].adds, r \in Outcomes :
         LET adds == loc[p].adds \ {a}
             m == [pool |-> loc[p].pool, addr |-> a,
                   nodePort |-> loc[p].cur.nodePort]
         IN  /\ Charge(r)
             /\ IF Applied(r) /\ PoolLive(loc[p].pool)
                THEN CloudSetMembers(members \cup {m})
                ELSE UNCHANGED cloudVars
             /\ Goto(p, NextMember(adds, loc[p].dels), [loc[p] EXCEPT !.adds = adds])

\* EnsureMembers, DELETE members of the nodes that were removed: the answer is
\* not looked at.
MemDel(p) ==
    /\ pc[p] = "memDel"
    /\ \E m \in loc[p].dels, r \in Outcomes :
         LET dels == loc[p].dels \ {m}
         IN  /\ Charge(r)
             /\ IF Applied(r) THEN CloudSetMembers(members \ {m})
                              ELSE UNCHANGED cloudVars
             /\ Goto(p, NextMember({}, dels), [loc[p] EXCEPT !.dels = dels])

\* Variant: a listener whose GET failed is taken to exist.
LisGetOptimistic(p) ==
    /\ pc[p] = "lisGet"
    /\ \E r \in Outcomes :
         /\ Charge(r)
         /\ IF r # "ok" \/ ListenersNamed(loc[p].lb, loc[p].cur.port) # {}
            THEN Goto(p, "hm", loc[p])
            ELSE Goto(p, "lisPost", loc[p])
    /\ UNCHANGED cloudVars

\* Variant: the answer of the GET is ignored, a listener is always created.
LisGetIgnored(p) ==
    /\ pc[p] = "lisGet"
    /\ Goto(p, "lisPost", loc[p])
    /\ UNCHANGED <<cloudVars, faults>>

\* EnsureListener, GET listeners?name=..: found means done, whatever its
\* protocol and pool; a failed call leads to a POST.
LisGet(p) ==
    /\ pc[p] = "lisGet"
    /\ \E r \in Outcomes :
         /\ Charge(r)
         /\ IF r = "ok" /\ ListenersNamed(loc[p].lb, loc[p].cur.port) # {}
            THEN Goto(p, "hm", loc[p])
            ELSE Goto(p, "lisPost", loc[p])
    /\ UNCHANGED cloudVars

\* Variant: a listener that cannot be created is not an error.
LisPostLenient(p) ==
    /\ pc[p] = "lisPost"
    /\ \E r \in Outcomes :
         /\ Charge(r)
         /\ IF Applied(r) /\ PoolLive(loc[p].pool)
            THEN CloudCreateListener(loc[p].lb, loc[p].cur.port,
                                     Protocol(loc[p].cur), loc[p].pool)
            ELSE UNCHANGED cloudVars
         /\ Goto(p, "hm", loc[p])

\* EnsureListener, POST listeners: the cloud refuses a second listener for a
\* port and protocol of the ELB, and one for a pool that is gone.
LisPost(p) ==
    /\ pc[p] = "lisPost"
    /\ \E r \in Outcomes :
         LET taken == \E l \in listeners : /\ l.lb = loc[p].lb
                                           /\ l.port = loc[p].cur.port
                                           /\ l.proto = Protocol(loc[p].cur)
             created == /\ Applied(r) /\ ~taken
                        /\ LBExists(loc[p].lb) /\ PoolLive(loc[p].pool)
         IN  /\ Charge(r)
             /\ IF created
                THEN CloudCreateListener(loc[p].lb, loc[p].cur.port,
                                         Protocol(loc[p].cur), loc[p].pool)
                ELSE UNCHANGED cloudVars
             /\ IF created /\ r = "ok" THEN Goto(p, "hm", loc[p]) ELSE Fail(p)

\* EnsureHealthMonitorWithConfig, GET and POST healthmonitors: a monitor that
\* exists is left as it is, and neither a failure nor a refusal is fatal.
EnsureHealthMonitor(p) ==
    /\ pc[p] = "hm"
    /\ \E r \in Outcomes :
         LET cfg == getHealthMonitorConfig(HealthChecks[p[1]], Protocol(loc[p].cur))
         IN  /\ Charge(r)
             /\ IF Applied(r) /\ PoolLive(loc[p].pool) /\ MonitorAccepted(cfg)
                THEN monitors' = monitors \cup {loc[p].pool}
                ELSE UNCHANGED monitors
    /\ Goto(p, NextPort(p[2], loc[p].todo),
            [loc[p] EXCEPT !.cur = NoPort, !.pool = 0])
    /\ UNCHANGED <<lbs, eips, listeners, pools, members, rules, nextId>>

ensureListeners(p) ==
    \/ PoolGet(p) \/ PoolPost(p) \/ MemList(p) \/ MemAdd(p) \/ MemDel(p)
    \/ LisGet(p) \/ LisPost(p) \/ EnsureHealthMonitor(p)

-----------------------------------------------------------------------------
(* EnsureLoadBalancer                                                      *)

\* The ELB has been found or created: ensureListeners is next.
Configure(p, lb, es) ==
    Goto(p, NextPort(p[2], loc[p].todo),
         [loc[p] EXCEPT !.lb = lb, !.eip = {e.id : e \in es}])

\* Variant: any failure of the GET leads to a creation.
EnsureGetEager(s) ==
    LET p == <<s, "sync">>
    IN  /\ pc[p] = "ensGet"
        /\ \E r \in Outcomes :
             /\ Charge(r)
             /\ IF r # "ok" \/ LBsNamed(NameOf[s]) = {}
                THEN Goto(p, "lbPost", loc[p])
                ELSE \E l \in LBsNamed(NameOf[s]) : Configure(p, l.id, EIPsOf(l.id))
        /\ UNCHANGED cloudVars

\* GET loadbalancers?name=..; only "not found" leads to a creation.
EnsureGet(s) ==
    LET p == <<s, "sync">>
    IN  /\ pc[p] = "ensGet"
        /\ \E r \in Outcomes :
             /\ Charge(r)
             /\ IF r # "ok" THEN Fail(p)
                ELSE IF LBsNamed(NameOf[s]) = {}
                     THEN Goto(p, "lbPost", loc[p])
                     ELSE \E l \in LBsNamed(NameOf[s]) :
                            Configure(p, l.id, EIPsOf(l.id))
        /\ UNCHANGED cloudVars

\* Variant: a creation whose answer does not come is sent again at once.
CreateLoadBalancerResent(s) ==
    LET p == <<s, "sync">>
    IN  /\ pc[p] = "lbPost"
        /\ \E r \in Outcomes :
             /\ Charge(r)
             /\ IF Applied(r) THEN CloudCreateLB(NameOf[s], s \in EIPServices)
                              ELSE UNCHANGED cloudVars
             /\ IF r = "ok" THEN Configure(p, nextId, {e \in eips' : e.lb = nextId})
                            ELSE Goto(p, "lbPost", loc[p])

\* CreateLoadBalancer, POST loadbalancers.
CreateLoadBalancer(s) ==
    LET p == <<s, "sync">>
    IN  /\ pc[p] = "lbPost"
        /\ \E r \in Outcomes :
             /\ Charge(r)
             /\ IF Applied(r) THEN CloudCreateLB(NameOf[s], s \in EIPServices)
                              ELSE UNCHANGED cloudVars
             /\ IF r = "ok" THEN Configure(p, nextId, {e \in eips' : e.lb = nextId})
                            ELSE Fail(p)

\* The ingress rule that lets a port through.
RuleFor(port) ==
    [port |-> port.port, proto |-> IF port.proto = "UDP" THEN "udp" ELSE "tcp"]

\* ensureELBSecurityGroup: one rule per port, none of whose failures is fatal.
\* The rules of other ports and of deleted services are left in place.  The cloud
\* gives the VIP port of every ELB a security group (DEVELOPMENT.md).
EnsureELBSecurityGroup(s) ==
    LET p == <<s, "sync">>
        wanted == {RuleFor(q) : q \in loc[p].ports}
    IN  /\ pc[p] = "sg"
        /\ \E r \in Outcomes, added \in SUBSET wanted :
             /\ r = "ok" => added = wanted
             /\ Charge(r)
             /\ rules' = rules \cup added
        /\ Goto(p, "ensured", loc[p])
        /\ UNCHANGED <<lbs, eips, listeners, pools, members, monitors, nextId>>

-----------------------------------------------------------------------------
(* UpdateLoadBalancer                                                      *)

\* GET loadbalancers?name=..: not found is an error here.
UpdateGet(s) ==
    LET p == <<s, "node">>
    IN  /\ pc[p] = "updGet"
        /\ \E r \in Outcomes :
             /\ Charge(r)
             /\ IF r # "ok" \/ LBsNamed(NameOf[s]) = {} THEN Fail(p)
                ELSE \E l \in LBsNamed(NameOf[s]) :
                       Goto(p, "lisList", [loc[p] EXCEPT !.lb = l.id])
        /\ UNCHANGED cloudVars

Doom(ls) == {[id |-> l.id, pool |-> l.pool] : l \in ls}

\* What syncListeners does while listeners are left to remove.
NextOrphan(doomed, v) ==
    IF doomed # {} THEN "orphanListener" ELSE NextPort("node", v.todo)

\* syncListeners, GET listeners: a failed call falls back to ensure-only, an
\* error status decodes to no listeners.  Orphaned is what is not a desired name.
SyncList(s) ==
    LET p == <<s, "node">>
    IN  /\ pc[p] = "lisList"
        /\ \E r \in Outcomes :
             LET desired == {q.port : q \in loc[p].ports}
                 orphans == {l \in LiveListeners(loc[p].lb) : l.port \notin desired}
                 doomed == IF r = "ok" THEN Doom(orphans) ELSE {}
             IN  /\ Charge(r)
                 /\ Goto(p, NextOrphan(doomed, loc[p]),
                         [loc[p] EXCEPT !.doomed = doomed])
        /\ UNCHANGED cloudVars

\* DeleteListener of an orphaned listener: a failure is logged only.
OrphanListener(s) ==
    LET p == <<s, "node">>
    IN  /\ pc[p] = "orphanListener"
        /\ \E d \in loc[p].doomed, r \in Outcomes :
             /\ Charge(r)
             /\ IF Applied(r) THEN CloudDeleteListener(d.id) ELSE UNCHANGED cloudVars
             /\ Goto(p, "orphanPool",
                     [loc[p] EXCEPT !.doomed = @ \ {d}, !.pool = d.pool])

\* DeletePool of its default pool: members first; no status is looked at and a
\* failure is logged only.
OrphanPool(s) ==
    LET p == <<s, "node">>
    IN  /\ pc[p] = "orphanPool"
        /\ \E r \in Outcomes, gone \in SUBSET MembersOf(loc[p].pool) :
             /\ r = "ok" => gone = MembersOf(loc[p].pool)
             /\ Charge(r)
             /\ CloudDeletePool(loc[p].pool, gone, FALSE, Applied(r))
        /\ Goto(p, NextOrphan(loc[p].doomed, loc[p]), [loc[p] EXCEPT !.pool = 0])

-----------------------------------------------------------------------------
(* EnsureLoadBalancerDeleted, after the GetLoadBalancer by which the       *)
(* controller finds out whether there is anything to delete.               *)

\* Variant: a GET that fails is taken for "not found".
GetLoadBalancerLenient(s) ==
    LET p == <<s, "sync">>
    IN  /\ pc[p] = "delCheck"
        /\ \E r \in Outcomes :
             /\ Charge(r)
             /\ Goto(p, IF r # "ok" \/ LBsNamed(NameOf[s]) = {} THEN "deleted"
                                                               ELSE "delGet", loc[p])
        /\ UNCHANGED cloudVars

\* GetLoadBalancer.
GetLoadBalancer(s) ==
    LET p == <<s, "sync">>
    IN  /\ pc[p] = "delCheck"
        /\ \E r \in Outcomes :
             /\ Charge(r)
             /\ IF r # "ok" THEN Fail(p)
                ELSE Goto(p, IF LBsNamed(NameOf[s]) = {} THEN "deleted" ELSE "delGet",
                          loc[p])
        /\ UNCHANGED cloudVars

\* Variant: a GET that fails is taken for "not found".
DeleteGetLenient(s) ==
    LET p == <<s, "sync">>
    IN  /\ pc[p] = "delGet"
        /\ \E r \in Outcomes :
             /\ Charge(r)
             /\ IF r # "ok" \/ LBsNamed(NameOf[s]) = {} THEN Goto(p, "deleted", NoLoc)
                ELSE \E l \in LBsNamed(NameOf[s]) :
                       Goto(p, "eipFind", [loc[p] EXCEPT !.lb = l.id])
        /\ UNCHANGED cloudVars

\* Variant: the EIPs the answer lists are not remembered.
DeleteGetForgetful(s) ==
    LET p == <<s, "sync">>
    IN  /\ pc[p] = "delGet"
        /\ \E r \in Outcomes :
             /\ Charge(r)
             /\ IF r # "ok" THEN Fail(p)
                ELSE IF LBsNamed(NameOf[s]) = {} THEN Goto(p, "deleted", NoLoc)
                ELSE \E l \in LBsNamed(NameOf[s]) :
                       Goto(p, "eipFind", [loc[p] EXCEPT !.lb = l.id])
        /\ UNCHANGED cloudVars

\* GET loadbalancers?name=..: not found means deleted.  The EIPs the answer
\* lists are the ones released at the end.
DeleteGet(s) ==
    LET p == <<s, "sync">>
    IN  /\ pc[p] = "delGet"
        /\ \E r \in Outcomes :
             /\ Charge(r)
             /\ IF r # "ok" THEN Fail(p)
                ELSE IF LBsNamed(NameOf[s]) = {} THEN Goto(p, "deleted", NoLoc)
                ELSE \E l \in LBsNamed(NameOf[s]) :
                       Goto(p, "eipFind",
                            [loc[p] EXCEPT !.lb = l.id,
                                           !.eip = {e.id : e \in EIPsOf(l.id)}])
        /\ UNCHANGED cloudVars

\* FindEIPByPortID: its error is discarded.
FindEIP(s) ==
    LET p == <<s, "sync">>
    IN  /\ pc[p] = "eipFind"
        /\ \E r \in Outcomes :
             /\ Charge(r)
             /\ IF r = "ok" /\ EIPsOf(loc[p].lb) # {}
                THEN \E e \in EIPsOf(loc[p].lb) :
                       Goto(p, "eipRelease", [loc[p] EXCEPT !.pool = e.id])
                ELSE Goto(p, "delListeners", loc[p])
        /\ UNCHANGED cloudVars

\* ReleaseEIP of the bound EIP: not fatal.
ReleaseBoundEIP(s) ==
    LET p == <<s, "sync">>
    IN  /\ pc[p] = "eipRelease"
        /\ \E r \in Outcomes :
             /\ Charge(r)
             /\ IF Applied(r) THEN CloudReleaseEIP(loc[p].pool) ELSE UNCHANGED cloudVars
        /\ Goto(p, "delListeners", [loc[p] EXCEPT !.pool = 0])

\* DeleteListeners, GET listeners: an error status decodes to no listeners.
ListListeners(s) ==
    LET p == <<s, "sync">>
    IN  /\ pc[p] = "delListeners"
        /\ \E r \in Outcomes :
             LET doomed == IF r = "ok" THEN Doom(LiveListeners(loc[p].lb)) ELSE {}
             IN  /\ Charge(r)
                 /\ IF r \in {"neterr", "lost"} THEN Fail(p)
                    ELSE Goto(p, IF doomed # {} THEN "delListener" ELSE "delPools",
                              [loc[p] EXCEPT !.doomed = doomed])
        /\ UNCHANGED cloudVars

\* DeleteListeners, DELETE listeners: the status is not looked at.
DeleteListener(s) ==
    LET p == <<s, "sync">>
    IN  /\ pc[p] = "delListener"
        /\ \E d \in loc[p].doomed, r \in Outcomes :
             /\ Charge(r)
             /\ IF Applied(r) THEN CloudDeleteListener(d.id) ELSE UNCHANGED cloudVars
             /\ IF r \in {"neterr", "lost"} THEN Fail(p)
                ELSE Goto(p, IF loc[p].doomed # {d} THEN "delListener" ELSE "delPools",
                          [loc[p] EXCEPT !.doomed = @ \ {d}])

\* Variant: the pools are found through the listeners, which are gone by now.
ListPoolsOfListeners(s) ==
    LET p == <<s, "sync">>
    IN  /\ pc[p] = "delPools"
        /\ LET doomed == {[id |-> l.pool, pool |-> l.pool] : l \in LiveListeners(loc[p].lb)}
           IN  Goto(p, IF doomed # {} THEN "delPool" ELSE "delLB",
                    [loc[p] EXCEPT !.doomed = doomed])
        /\ UNCHANGED <<cloudVars, faults>>

\* DeletePools, GET pools.
ListPools(s) ==
    LET p == <<s, "sync">>
    IN  /\ pc[p] = "delPools"
        /\ \E r \in Outcomes :
             LET doomed == IF r = "ok"
                           THEN {[id |-> q.id, pool |-> q.id] : q \in LivePools(loc[p].lb)}
                           ELSE {}
             IN  /\ Charge(r)
                 /\ IF r \in {"neterr", "lost"} THEN Fail(p)
                    ELSE Goto(p, IF doomed # {} THEN "delPool" ELSE "delLB",
                              [loc[p] EXCEPT !.doomed = doomed])
        /\ UNCHANGED cloudVars

\* DeletePools, DELETE of a pool's monitor and members, whose failures are
\* ignored, and of the pool, whose status is ignored.
DeletePool(s) ==
    LET p == <<s, "sync">>
    IN  /\ pc[p] = "delPool"
        /\ \E d \in loc[p].doomed, r \in Outcomes, hm \in BOOLEAN :
           \E gone \in SUBSET MembersOf(d.id) :
             /\ r = "ok" => hm /\ gone = MembersOf(d.id)
             /\ Charge(r)
             /\ CloudDeletePool(d.id, gone, hm, Applied(r))
             /\ IF r \in {"neterr", "lost"} THEN Fail(p)
                ELSE Goto(p, IF loc[p].doomed # {d} THEN "delPool" ELSE "delLB",
                          [loc[p] EXCEPT !.doomed = @ \ {d}])

\* Variant: when the retries on 409 are used up, the ELB counts as deleted.
DeleteLoadBalancerImpatient(s) ==
    LET p == <<s, "sync">>
        v == loc[p]
    IN  /\ pc[p] = "delLB"
        /\ \E r \in Outcomes :
             LET conflict == LBExists(v.lb) /\ HasChildren(v.lb)
             IN  /\ Charge(r)
                 /\ IF Applied(r) /\ ~conflict THEN CloudDeleteLB(v.lb)
                                               ELSE UNCHANGED cloudVars
                 /\ \/ r # "ok" /\ Fail(p)
                    \/ /\ r = "ok" /\ conflict /\ v.tries < MaxRetries
                       /\ Goto(p, "delLB", [v EXCEPT !.tries = @ + 1])
                    \/ /\ r = "ok" /\ (conflict => v.tries >= MaxRetries)
                       /\ Goto(p, IF v.eip # {} THEN "eipCleanup" ELSE "deleted", v)

\* Variant: the orphaned EIPs are not released.
DeleteLoadBalancerOnly(s) ==
    LET p == <<s, "sync">>
        v == loc[p]
    IN  /\ pc[p] = "delLB"
        /\ IF LBExists(v.lb) /\ HasChildren(v.lb)
           THEN UNCHANGED cloudVars /\ Fail(p)
           ELSE CloudDeleteLB(v.lb) /\ Goto(p, "deleted", v)
        /\ UNCHANGED faults

\* DeleteLoadBalancer, DELETE loadbalancers/id: 404 counts as deleted, 409 is
\* retried MaxRetries times, anything else is an error.
DeleteLoadBalancer(s) ==
    LET p == <<s, "sync">>
        v == loc[p]
    IN  /\ pc[p] = "delLB"
        /\ \E r \in Outcomes :
             LET conflict == LBExists(v.lb) /\ HasChildren(v.lb)
             IN  /\ Charge(r)
                 /\ IF Applied(r) /\ ~conflict THEN CloudDeleteLB(v.lb)
                                               ELSE UNCHANGED cloudVars
                 /\ \/ /\ r = "ok" /\ ~conflict
                       /\ Goto(p, IF v.eip # {} THEN "eipCleanup" ELSE "deleted", v)
                    \/ /\ r = "ok" /\ conflict /\ v.tries < MaxRetries
                       /\ Goto(p, "delLB", [v EXCEPT !.tries = @ + 1])
                    \/ /\ r # "ok" \/ (conflict /\ v.tries >= MaxRetries)
                       /\ Fail(p)

\* The EIPs that OTC unbound with the ELB are released: a failure is not fatal.
ReleaseOrphanedEIP(s) ==
    LET p == <<s, "sync">>
    IN  /\ pc[p] = "eipCleanup"
        /\ \E e \in loc[p].eip, r \in Outcomes :
             /\ Charge(r)
             /\ IF Applied(r) THEN CloudReleaseEIP(e) ELSE UNCHANGED cloudVars
             /\ Goto(p, IF loc[p].eip # {e} THEN "eipCleanup" ELSE "deleted",
                     [loc[p] EXCEPT !.eip = @ \ {e}])

EnsureLoadBalancer(s) ==
    \/ EnsureGet(s) \/ CreateLoadBalancer(s)
    \/ ensureListeners(<<s, "sync">>) \/ EnsureELBSecurityGroup(s)

UpdateLoadBalancer(s) ==
    \/ UpdateGet(s) \/ SyncList(s) \/ OrphanListener(s) \/ OrphanPool(s)
    \/ ensureListeners(<<s, "node">>)

EnsureLoadBalancerDeleted(s) ==
    \/ DeleteGet(s) \/ FindEIP(s) \/ ReleaseBoundEIP(s)
    \/ ListListeners(s) \/ DeleteListener(s) \/ ListPools(s) \/ DeletePool(s)
    \/ DeleteLoadBalancer(s) \/ ReleaseOrphanedEIP(s)
=============================================================================
