----------------------- MODULE ServiceControllerProofs -----------------------
(* Theorems about ServiceController, checked by TLAPS. *)
EXTENDS ServiceController, TLAPS

-----------------------------------------------------------------------------
(* The locals of a goroutine.                                              *)

LEMMA NoLocType == NoLoc \in LocType
BY DEF NoLoc, LocType, NoPort

LEMMA LocGet ==
    ASSUME NEW v \in LocType
    PROVE  /\ v.ports \subseteq ServicePorts /\ v.todo \subseteq ServicePorts
           /\ v.nodes \subseteq Nodes /\ v.adds \subseteq Nodes
           /\ v.lb \in Nat /\ v.pool \in Nat /\ v.tries \in Nat
           /\ v.eip \subseteq Nat
           /\ v.cur \in ServicePorts \cup {NoPort}
           /\ v.dels \subseteq MemberType
           /\ v.doomed \subseteq [id : Nat, pool : Nat]
BY DEF LocType

LEMMA LocSet ==
    ASSUME NEW v \in LocType
    PROVE  /\ \A x \in SUBSET ServicePorts : [v EXCEPT !.todo = x] \in LocType
           /\ \A x \in SUBSET Nodes : [v EXCEPT !.adds = x] \in LocType
           /\ \A x \in Nat : [v EXCEPT !.lb = x] \in LocType
           /\ \A x \in Nat : [v EXCEPT !.pool = x] \in LocType
           /\ \A x \in Nat : [v EXCEPT !.tries = x] \in LocType
           /\ \A x \in SUBSET Nat : [v EXCEPT !.eip = x] \in LocType
           /\ \A x \in ServicePorts \cup {NoPort} : [v EXCEPT !.cur = x] \in LocType
           /\ \A x \in SUBSET MemberType : [v EXCEPT !.dels = x] \in LocType
           /\ \A x \in SUBSET [id : Nat, pool : Nat] :
                 [v EXCEPT !.doomed = x] \in LocType
BY DEF LocType

LEMMA GotoType ==
    ASSUME WorkerTypeOK,
           NEW p \in Procs, NEW c \in PCs, NEW v \in LocType, Goto(p, c, v)
    PROVE  WorkerTypeOK'
BY DEF Goto, WorkerTypeOK

LEMMA FailType ==
    ASSUME WorkerTypeOK, NEW p \in Procs, Fail(p)
    PROVE  WorkerTypeOK'
<1>1. "failed" \in PCs BY DEF PCs
<1> QED BY <1>1, GotoType, NoLocType DEF Fail

LEMMA ChargeType ==
    ASSUME faults \in 0..MaxFaults, NEW r, Charge(r)
    PROVE  faults' \in 0..MaxFaults
BY FaultsAssumption DEF Charge

-----------------------------------------------------------------------------
(* The cloud's resources keep their types under every effect.              *)

LEMMA CloudStutterType ==
    ASSUME CloudTypeOK, UNCHANGED cloudVars
    PROVE  CloudTypeOK'
BY DEF CloudTypeOK, cloudVars

LEMMA CloudCreateLBType ==
    ASSUME CloudTypeOK, NEW n \in STRING, NEW e \in BOOLEAN, CloudCreateLB(n, e)
    PROVE  CloudTypeOK'
<1> USE DEF CloudTypeOK, CloudCreateLB
<1>1. lbs' \subseteq [id : Nat, name : STRING] OBVIOUS
<1>2. eips' \subseteq [id : Nat, name : STRING, lb : Nat]
  <2>1. [id |-> nextId + 1, name |-> n, lb |-> nextId] \in
            [id : Nat, name : STRING, lb : Nat] OBVIOUS
  <2> QED BY <2>1
<1>3. nextId' \in Nat \ {0} OBVIOUS
<1> QED BY <1>1, <1>2, <1>3

LEMMA CloudDeleteLBType ==
    ASSUME CloudTypeOK, NEW id, CloudDeleteLB(id)
    PROVE  CloudTypeOK'
<1> USE DEF CloudTypeOK, CloudDeleteLB
<1>1. lbs' \subseteq [id : Nat, name : STRING] OBVIOUS
<1>2. eips' \subseteq [id : Nat, name : STRING, lb : Nat] OBVIOUS
<1> QED BY <1>1, <1>2

LEMMA CloudReleaseEIPType ==
    ASSUME CloudTypeOK, NEW id, CloudReleaseEIP(id)
    PROVE  CloudTypeOK'
BY DEF CloudTypeOK, CloudReleaseEIP

LEMMA CloudCreatePoolType ==
    ASSUME CloudTypeOK, NEW lb \in Nat, NEW port \in Nat,
           NEW proto \in {"TCP", "UDP"}, CloudCreatePool(lb, port, proto)
    PROVE  CloudTypeOK'
<1> USE DEF CloudTypeOK, CloudCreatePool
<1>1. [id |-> nextId, lb |-> lb, port |-> port, proto |-> proto, dying |-> FALSE] \in
          [id : Nat, lb : Nat, port : Nat, proto : {"TCP", "UDP"}, dying : BOOLEAN]
      OBVIOUS
<1>2. nextId' \in Nat \ {0} OBVIOUS
<1> QED BY <1>1, <1>2

LEMMA CloudCreateListenerType ==
    ASSUME CloudTypeOK, NEW lb \in Nat, NEW port \in Nat,
           NEW proto \in {"TCP", "UDP"}, NEW pool \in Nat,
           CloudCreateListener(lb, port, proto, pool)
    PROVE  CloudTypeOK'
<1> USE DEF CloudTypeOK, CloudCreateListener
<1>1. [id |-> nextId, lb |-> lb, port |-> port, proto |-> proto, pool |-> pool,
       dying |-> FALSE] \in
          [id : Nat, lb : Nat, port : Nat, proto : {"TCP", "UDP"}, pool : Nat,
           dying : BOOLEAN]
      OBVIOUS
<1>2. nextId' \in Nat \ {0} OBVIOUS
<1> QED BY <1>1, <1>2

LEMMA CloudDeleteListenerType ==
    ASSUME CloudTypeOK, NEW id, CloudDeleteListener(id)
    PROVE  CloudTypeOK'
<1> USE DEF CloudTypeOK, CloudDeleteListener
<1>1. \A l \in listeners :
        [l EXCEPT !.dying = TRUE] \in
            [id : Nat, lb : Nat, port : Nat, proto : {"TCP", "UDP"}, pool : Nat,
             dying : BOOLEAN] OBVIOUS
<1> QED BY <1>1

LEMMA CloudDeletePoolType ==
    ASSUME CloudTypeOK, NEW id, NEW gone, NEW hm \in BOOLEAN, NEW del \in BOOLEAN,
           CloudDeletePool(id, gone, hm, del)
    PROVE  CloudTypeOK'
<1> USE DEF CloudTypeOK, CloudDeletePool
<1>1. \A q \in pools :
        [q EXCEPT !.dying = TRUE] \in
            [id : Nat, lb : Nat, port : Nat, proto : {"TCP", "UDP"}, dying : BOOLEAN]
      OBVIOUS
<1>2. pools' \subseteq [id : Nat, lb : Nat, port : Nat, proto : {"TCP", "UDP"},
                        dying : BOOLEAN] BY <1>1
<1>3. members' \subseteq MemberType /\ monitors' \subseteq Nat OBVIOUS
<1> QED BY <1>2, <1>3

LEMMA CloudSetMembersType ==
    ASSUME CloudTypeOK, NEW ms \in SUBSET MemberType, CloudSetMembers(ms)
    PROVE  CloudTypeOK'
BY DEF CloudTypeOK, CloudSetMembers

LEMMA QueryTypes ==
    ASSUME CloudTypeOK
    PROVE  /\ \A n : \A l \in LBsNamed(n) : l.id \in Nat
           /\ \A id : EIPsOf(id) \subseteq [id : Nat, name : STRING, lb : Nat]
           /\ \A lb, port : \A q \in PoolsNamed(lb, port) : q.id \in Nat
           /\ \A lb : \A q \in LivePools(lb) : q.id \in Nat
           /\ \A lb : \A l \in LiveListeners(lb) : l.id \in Nat /\ l.pool \in Nat
           /\ \A pool : MembersOf(pool) \subseteq MemberType
BY DEF CloudTypeOK, LBsNamed, EIPsOf, PoolsNamed, LivePools, LiveListeners, MembersOf

-----------------------------------------------------------------------------
(* Type correctness of the provider's requests.                            *)

StepOK == CloudTypeOK /\ WorkerTypeOK /\ faults \in 0..MaxFaults

LEMMA PortType ==
    ASSUME NEW port \in ServicePorts \cup {NoPort}
    PROVE  /\ port.port \in Nat /\ port.nodePort \in Nat
           /\ Protocol(port) \in {"TCP", "UDP"}
BY PortsAssumption DEF NoPort, Protocol

LEMMA NextPCTypes ==
    /\ \A w, todo : NextPort(w, todo) \in PCs
    /\ \A adds, dels : NextMember(adds, dels) \in PCs
    /\ \A doomed, v : NextOrphan(doomed, v) \in PCs
BY DEF NextPort, NextMember, NextOrphan, PCs

LEMMA PoolGetType ==
    ASSUME StepOK, NEW p \in Procs, PoolGet(p)
    PROVE  StepOK'
<1> USE DEF StepOK
<1>1. loc[p] \in LocType BY DEF WorkerTypeOK
<1>2. PICK port \in loc[p].todo : \E r \in Outcomes : PoolGet(p)!2!(port, r)
      BY DEF PoolGet
<1> DEFINE v == [loc[p] EXCEPT !.cur = port, !.todo = @ \ {port}]
<1>3. v \in LocType BY <1>1, LocGet, LocSet
<1>4. \A q \in PoolsNamed(loc[p].lb, port.port) : [v EXCEPT !.pool = q.id] \in LocType
  <2> HIDE DEF v
  <2> QED BY <1>3, QueryTypes, LocSet
<1>5. {"memList", "poolPost"} \subseteq PCs BY DEF PCs
<1>6. WorkerTypeOK' BY <1>2, <1>3, <1>4, <1>5, GotoType
<1> QED BY <1>2, <1>6, CloudStutterType, ChargeType DEF PoolGet

LEMMA PoolPostType ==
    ASSUME StepOK, NEW p \in Procs, PoolPost(p)
    PROVE  StepOK'
<1> USE DEF StepOK
<1>1. loc[p] \in LocType BY DEF WorkerTypeOK
<1>2. [loc[p] EXCEPT !.pool = nextId] \in LocType BY <1>1, LocSet DEF CloudTypeOK
<1>3. "memList" \in PCs BY DEF PCs
<1>4. WorkerTypeOK' BY <1>2, <1>3, GotoType, FailType DEF PoolPost
<1>5. CloudTypeOK'
      BY <1>1, LocGet, PortType, CloudCreatePoolType, CloudStutterType DEF PoolPost
<1> QED BY <1>4, <1>5, ChargeType DEF PoolPost

LEMMA MemListType ==
    ASSUME StepOK, NEW p \in Procs, MemList(p)
    PROVE  StepOK'
<1> USE DEF StepOK
<1>1. loc[p] \in LocType BY DEF WorkerTypeOK
<1>2. \A adds \in SUBSET Nodes, dels \in SUBSET MemberType :
         [loc[p] EXCEPT !.adds = adds, !.dels = dels] \in LocType
  <2> SUFFICES ASSUME NEW adds \in SUBSET Nodes, NEW dels \in SUBSET MemberType
               PROVE  [loc[p] EXCEPT !.adds = adds, !.dels = dels] \in LocType
      OBVIOUS
  <2>1. [loc[p] EXCEPT !.adds = adds] \in LocType BY <1>1, LocSet
  <2> QED BY <2>1, LocSet
<1>3. \A r : \A existing \in ByAddress(IF r = "ok" THEN MembersOf(loc[p].pool) ELSE {}) :
         existing \subseteq MemberType
      BY QueryTypes DEF ByAddress
<1>4. NodeIPs(loc[p].nodes) \subseteq Nodes BY NodesAssumption DEF NodeIPs
<1>5. WorkerTypeOK'
      BY <1>2, <1>3, <1>4, NextPCTypes, GotoType, FailType DEF MemList
<1> QED BY <1>5, CloudStutterType, ChargeType DEF MemList

LEMMA MemAddType ==
    ASSUME StepOK, NEW p \in Procs, MemAdd(p)
    PROVE  StepOK'
<1> USE DEF StepOK
<1>1. loc[p] \in LocType BY DEF WorkerTypeOK
<1>2. PICK a \in loc[p].adds : \E r \in Outcomes : MemAdd(p)!2!(a, r) BY DEF MemAdd
<1>3. [loc[p] EXCEPT !.adds = loc[p].adds \ {a}] \in LocType BY <1>1, LocGet, LocSet
<1>4. WorkerTypeOK' BY <1>2, <1>3, NextPCTypes, GotoType
<1>5. [pool |-> loc[p].pool, addr |-> a, nodePort |-> loc[p].cur.nodePort] \in MemberType
      BY <1>1, LocGet, PortType DEF MemberType
<1>6. members \cup {[pool |-> loc[p].pool, addr |-> a,
                     nodePort |-> loc[p].cur.nodePort]} \in SUBSET MemberType
      BY <1>5 DEF CloudTypeOK
<1>7. CloudTypeOK' BY <1>2, <1>6, CloudSetMembersType, CloudStutterType
<1> QED BY <1>2, <1>4, <1>7, ChargeType

LEMMA MemDelType ==
    ASSUME StepOK, NEW p \in Procs, MemDel(p)
    PROVE  StepOK'
<1> USE DEF StepOK
<1>1. loc[p] \in LocType BY DEF WorkerTypeOK
<1>2. PICK m \in loc[p].dels : \E r \in Outcomes : MemDel(p)!2!(m, r) BY DEF MemDel
<1>3. [loc[p] EXCEPT !.dels = loc[p].dels \ {m}] \in LocType BY <1>1, LocGet, LocSet
<1>4. WorkerTypeOK' BY <1>2, <1>3, NextPCTypes, GotoType
<1>5. members \ {m} \in SUBSET MemberType BY DEF CloudTypeOK
<1>6. CloudTypeOK' BY <1>2, <1>5, CloudSetMembersType, CloudStutterType
<1> QED BY <1>2, <1>4, <1>6, ChargeType

LEMMA LisGetType ==
    ASSUME StepOK, NEW p \in Procs, LisGet(p)
    PROVE  StepOK'
<1> USE DEF StepOK
<1>1. loc[p] \in LocType BY DEF WorkerTypeOK
<1>2. {"hm", "lisPost"} \subseteq PCs BY DEF PCs
<1> QED BY <1>1, <1>2, GotoType, CloudStutterType, ChargeType DEF LisGet

LEMMA LisPostType ==
    ASSUME StepOK, NEW p \in Procs, LisPost(p)
    PROVE  StepOK'
<1> USE DEF StepOK
<1>1. loc[p] \in LocType BY DEF WorkerTypeOK
<1>2. "hm" \in PCs BY DEF PCs
<1>3. WorkerTypeOK' BY <1>1, <1>2, GotoType, FailType DEF LisPost
<1>4. CloudTypeOK'
      BY <1>1, LocGet, PortType, CloudCreateListenerType, CloudStutterType DEF LisPost
<1> QED BY <1>3, <1>4, ChargeType DEF LisPost

LEMMA EnsureHealthMonitorType ==
    ASSUME StepOK, NEW p \in Procs, EnsureHealthMonitor(p)
    PROVE  StepOK'
<1> USE DEF StepOK
<1>1. loc[p] \in LocType BY DEF WorkerTypeOK
<1>2. [loc[p] EXCEPT !.cur = NoPort] \in LocType BY <1>1, LocSet
<1>3. [loc[p] EXCEPT !.cur = NoPort, !.pool = 0] \in LocType BY <1>2, LocSet
<1>4. WorkerTypeOK' BY <1>3, NextPCTypes, GotoType DEF EnsureHealthMonitor
<1>5. CloudTypeOK' BY <1>1, LocGet DEF EnsureHealthMonitor, CloudTypeOK
<1> QED BY <1>4, <1>5, ChargeType DEF EnsureHealthMonitor

LEMMA ensureListenersType ==
    ASSUME StepOK, NEW p \in Procs, ensureListeners(p)
    PROVE  StepOK'
BY PoolGetType, PoolPostType, MemListType, MemAddType, MemDelType, LisGetType,
   LisPostType, EnsureHealthMonitorType DEF ensureListeners

LEMMA ProcTypes ==
    ASSUME WorkerTypeOK, NEW s \in Services
    PROVE  /\ <<s, "sync">> \in Procs /\ loc[<<s, "sync">>] \in LocType
           /\ <<s, "node">> \in Procs /\ loc[<<s, "node">>] \in LocType
BY DEF WorkerTypeOK, Procs, Workers

LEMMA ConfigureType ==
    ASSUME WorkerTypeOK, NEW p \in Procs, NEW lb \in Nat,
           NEW es \in SUBSET [id : Nat, name : STRING, lb : Nat],
           Configure(p, lb, es)
    PROVE  WorkerTypeOK'
<1>1. loc[p] \in LocType BY DEF WorkerTypeOK
<1>2. [loc[p] EXCEPT !.lb = lb] \in LocType BY <1>1, LocSet
<1>3. {e.id : e \in es} \in SUBSET Nat OBVIOUS
<1>4. [loc[p] EXCEPT !.lb = lb, !.eip = {e.id : e \in es}] \in LocType
      BY <1>2, <1>3, LocSet
<1> QED BY <1>4, NextPCTypes, GotoType DEF Configure

LEMMA EnsureGetType ==
    ASSUME StepOK, NEW s \in Services, EnsureGet(s)
    PROVE  StepOK'
<1> USE DEF StepOK
<1>1. "lbPost" \in PCs BY DEF PCs
<1>2. WorkerTypeOK'
      BY <1>1, ProcTypes, QueryTypes, ConfigureType, GotoType, FailType DEF EnsureGet
<1> QED BY <1>2, CloudStutterType, ChargeType DEF EnsureGet

LEMMA CreateLoadBalancerType ==
    ASSUME StepOK, NEW s \in Services, CreateLoadBalancer(s)
    PROVE  StepOK'
<1> USE DEF StepOK
<1>1. NameOf[s] \in STRING /\ (s \in EIPServices) \in BOOLEAN BY ServicesAssumption
<1>2. CloudTypeOK' BY <1>1, CloudCreateLBType, CloudStutterType DEF CreateLoadBalancer
<1>3. {e \in eips' : e.lb = nextId} \in SUBSET [id : Nat, name : STRING, lb : Nat]
      BY <1>2 DEF CloudTypeOK
<1>4. nextId \in Nat BY DEF CloudTypeOK
<1>5. WorkerTypeOK'
      BY <1>3, <1>4, ProcTypes, ConfigureType, FailType DEF CreateLoadBalancer
<1> QED BY <1>2, <1>5, ChargeType DEF CreateLoadBalancer

LEMMA EnsureELBSecurityGroupType ==
    ASSUME StepOK, NEW s \in Services, EnsureELBSecurityGroup(s)
    PROVE  StepOK'
<1> USE DEF StepOK
<1> DEFINE p == <<s, "sync">>
           wanted == {RuleFor(q) : q \in loc[p].ports}
<1>1. wanted \subseteq [port : Nat, proto : {"tcp", "udp"}]
  <2>1. loc[p].ports \subseteq ServicePorts BY ProcTypes, LocGet
  <2>2. \A q \in ServicePorts : q.port \in Nat BY PortsAssumption
  <2> QED BY <2>1, <2>2 DEF RuleFor
<1>2. PICK r \in Outcomes, added \in SUBSET wanted :
         Charge(r) /\ rules' = rules \cup added
      BY DEF EnsureELBSecurityGroup
<1>3. CloudTypeOK' BY <1>1, <1>2 DEF CloudTypeOK, EnsureELBSecurityGroup
<1>4. "ensured" \in PCs BY DEF PCs
<1>5. WorkerTypeOK' BY <1>4, ProcTypes, GotoType DEF EnsureELBSecurityGroup
<1> QED BY <1>2, <1>3, <1>5, ChargeType

LEMMA UpdateGetType ==
    ASSUME StepOK, NEW s \in Services, UpdateGet(s)
    PROVE  StepOK'
<1> USE DEF StepOK
<1>1. "lisList" \in PCs BY DEF PCs
<1>2. \A l \in LBsNamed(NameOf[s]) : [loc[<<s, "node">>] EXCEPT !.lb = l.id] \in LocType
      BY ProcTypes, QueryTypes, LocSet
<1>3. WorkerTypeOK' BY <1>1, <1>2, ProcTypes, GotoType, FailType DEF UpdateGet
<1> QED BY <1>3, CloudStutterType, ChargeType DEF UpdateGet

LEMMA DoomType ==
    ASSUME CloudTypeOK, NEW lb, NEW ls \in SUBSET LiveListeners(lb)
    PROVE  Doom(ls) \in SUBSET [id : Nat, pool : Nat]
BY QueryTypes DEF Doom

LEMMA SyncListType ==
    ASSUME StepOK, NEW s \in Services, SyncList(s)
    PROVE  StepOK'
<1> USE DEF StepOK
<1> DEFINE p == <<s, "node">>
           orphans == {l \in LiveListeners(loc[p].lb) :
                          l.port \notin {q.port : q \in loc[p].ports}}
<1>1. \A r : (IF r = "ok" THEN Doom(orphans) ELSE {}) \in SUBSET [id : Nat, pool : Nat]
  <2>1. orphans \in SUBSET LiveListeners(loc[p].lb) OBVIOUS
  <2> QED BY <2>1, DoomType
<1>2. \A r : [loc[p] EXCEPT !.doomed = IF r = "ok" THEN Doom(orphans) ELSE {}] \in LocType
      BY <1>1, ProcTypes, LocSet
<1>3. WorkerTypeOK' BY <1>2, ProcTypes, NextPCTypes, GotoType DEF SyncList
<1> QED BY <1>3, CloudStutterType, ChargeType DEF SyncList

LEMMA OrphanListenerType ==
    ASSUME StepOK, NEW s \in Services, OrphanListener(s)
    PROVE  StepOK'
<1> USE DEF StepOK
<1> DEFINE p == <<s, "node">>
<1>1. \A d \in loc[p].doomed :
         [loc[p] EXCEPT !.doomed = loc[p].doomed \ {d}, !.pool = d.pool] \in LocType
  <2> SUFFICES ASSUME NEW d \in loc[p].doomed
               PROVE  [loc[p] EXCEPT !.doomed = loc[p].doomed \ {d}, !.pool = d.pool]
                          \in LocType
      OBVIOUS
  <2>1. loc[p].doomed \in SUBSET [id : Nat, pool : Nat] BY ProcTypes, LocGet
  <2>2. [loc[p] EXCEPT !.doomed = loc[p].doomed \ {d}] \in LocType
        BY <2>1, ProcTypes, LocSet
  <2>3. d.pool \in Nat BY <2>1
  <2> QED BY <2>2, <2>3, LocSet
<1>2. "orphanPool" \in PCs BY DEF PCs
<1>3. WorkerTypeOK' BY <1>1, <1>2, ProcTypes, GotoType DEF OrphanListener
<1>4. CloudTypeOK' BY CloudDeleteListenerType, CloudStutterType DEF OrphanListener
<1> QED BY <1>3, <1>4, ChargeType DEF OrphanListener

LEMMA OrphanPoolType ==
    ASSUME StepOK, NEW s \in Services, OrphanPool(s)
    PROVE  StepOK'
<1> USE DEF StepOK
<1>1. [loc[<<s, "node">>] EXCEPT !.pool = 0] \in LocType BY ProcTypes, LocSet
<1>2. WorkerTypeOK' BY <1>1, ProcTypes, NextPCTypes, GotoType DEF OrphanPool
<1>3. \A r : Applied(r) \in BOOLEAN BY DEF Applied
<1>4. CloudTypeOK' BY <1>3, CloudDeletePoolType DEF OrphanPool
<1> QED BY <1>2, <1>4, ChargeType DEF OrphanPool

LEMMA GetLoadBalancerType ==
    ASSUME StepOK, NEW s \in Services, GetLoadBalancer(s)
    PROVE  StepOK'
<1> USE DEF StepOK
<1>1. {"deleted", "delGet"} \subseteq PCs BY DEF PCs
<1>2. WorkerTypeOK' BY <1>1, ProcTypes, GotoType, FailType DEF GetLoadBalancer
<1> QED BY <1>2, CloudStutterType, ChargeType DEF GetLoadBalancer

LEMMA DeleteGetType ==
    ASSUME StepOK, NEW s \in Services, DeleteGet(s)
    PROVE  StepOK'
<1> USE DEF StepOK
<1> DEFINE p == <<s, "sync">>
<1>1. \A l \in LBsNamed(NameOf[s]) :
         [loc[p] EXCEPT !.lb = l.id, !.eip = {e.id : e \in EIPsOf(l.id)}] \in LocType
  <2> SUFFICES ASSUME NEW l \in LBsNamed(NameOf[s])
               PROVE  [loc[p] EXCEPT !.lb = l.id, !.eip = {e.id : e \in EIPsOf(l.id)}]
                          \in LocType
      OBVIOUS
  <2>1. [loc[p] EXCEPT !.lb = l.id] \in LocType BY ProcTypes, QueryTypes, LocSet
  <2>2. {e.id : e \in EIPsOf(l.id)} \in SUBSET Nat BY QueryTypes
  <2> QED BY <2>1, <2>2, LocSet
<1>2. {"deleted", "eipFind"} \subseteq PCs BY DEF PCs
<1>3. WorkerTypeOK' BY <1>1, <1>2, ProcTypes, NoLocType, GotoType, FailType DEF DeleteGet
<1> QED BY <1>3, CloudStutterType, ChargeType DEF DeleteGet

LEMMA FindEIPType ==
    ASSUME StepOK, NEW s \in Services, FindEIP(s)
    PROVE  StepOK'
<1> USE DEF StepOK
<1> DEFINE p == <<s, "sync">>
<1>1. \A e \in EIPsOf(loc[p].lb) : [loc[p] EXCEPT !.pool = e.id] \in LocType
  <2>1. \A e \in EIPsOf(loc[p].lb) : e.id \in Nat BY QueryTypes
  <2> QED BY <2>1, ProcTypes, LocSet
<1>2. {"eipRelease", "delListeners"} \subseteq PCs BY DEF PCs
<1>3. WorkerTypeOK' BY <1>1, <1>2, ProcTypes, GotoType DEF FindEIP
<1> QED BY <1>3, CloudStutterType, ChargeType DEF FindEIP

LEMMA ReleaseBoundEIPType ==
    ASSUME StepOK, NEW s \in Services, ReleaseBoundEIP(s)
    PROVE  StepOK'
<1> USE DEF StepOK
<1>1. [loc[<<s, "sync">>] EXCEPT !.pool = 0] \in LocType BY ProcTypes, LocSet
<1>2. "delListeners" \in PCs BY DEF PCs
<1>3. WorkerTypeOK' BY <1>1, <1>2, ProcTypes, GotoType DEF ReleaseBoundEIP
<1>4. CloudTypeOK' BY CloudReleaseEIPType, CloudStutterType DEF ReleaseBoundEIP
<1> QED BY <1>3, <1>4, ChargeType DEF ReleaseBoundEIP

LEMMA ListListenersType ==
    ASSUME StepOK, NEW s \in Services, ListListeners(s)
    PROVE  StepOK'
<1> USE DEF StepOK
<1> DEFINE p == <<s, "sync">>
           doomed(r) == IF r = "ok" THEN Doom(LiveListeners(loc[p].lb)) ELSE {}
<1>1. \A r : [loc[p] EXCEPT !.doomed = doomed(r)] \in LocType
  <2>1. \A r : doomed(r) \in SUBSET [id : Nat, pool : Nat] BY DoomType
  <2> QED BY <2>1, ProcTypes, LocSet
<1>2. {"delListener", "delPools"} \subseteq PCs BY DEF PCs
<1>3. WorkerTypeOK' BY <1>1, <1>2, ProcTypes, GotoType, FailType DEF ListListeners
<1> QED BY <1>3, CloudStutterType, ChargeType DEF ListListeners

LEMMA DoomedRestType ==
    ASSUME WorkerTypeOK, NEW s \in Services, NEW d \in loc[<<s, "sync">>].doomed
    PROVE  [loc[<<s, "sync">>] EXCEPT !.doomed = loc[<<s, "sync">>].doomed \ {d}]
               \in LocType
<1>1. loc[<<s, "sync">>].doomed \in SUBSET [id : Nat, pool : Nat] BY ProcTypes, LocGet
<1> QED BY <1>1, ProcTypes, LocSet

LEMMA DeleteListenerType ==
    ASSUME StepOK, NEW s \in Services, DeleteListener(s)
    PROVE  StepOK'
<1> USE DEF StepOK
<1>1. {"delListener", "delPools"} \subseteq PCs BY DEF PCs
<1>2. WorkerTypeOK'
      BY <1>1, DoomedRestType, ProcTypes, GotoType, FailType DEF DeleteListener
<1>3. CloudTypeOK' BY CloudDeleteListenerType, CloudStutterType DEF DeleteListener
<1> QED BY <1>2, <1>3, ChargeType DEF DeleteListener

LEMMA ListPoolsType ==
    ASSUME StepOK, NEW s \in Services, ListPools(s)
    PROVE  StepOK'
<1> USE DEF StepOK
<1> DEFINE p == <<s, "sync">>
           doomed(r) == IF r = "ok"
                        THEN {[id |-> q.id, pool |-> q.id] : q \in LivePools(loc[p].lb)}
                        ELSE {}
<1>1. \A r : [loc[p] EXCEPT !.doomed = doomed(r)] \in LocType
  <2>1. \A r : doomed(r) \in SUBSET [id : Nat, pool : Nat] BY QueryTypes
  <2> QED BY <2>1, ProcTypes, LocSet
<1>2. {"delPool", "delLB"} \subseteq PCs BY DEF PCs
<1>3. WorkerTypeOK' BY <1>1, <1>2, ProcTypes, GotoType, FailType DEF ListPools
<1> QED BY <1>3, CloudStutterType, ChargeType DEF ListPools

LEMMA DeletePoolType ==
    ASSUME StepOK, NEW s \in Services, DeletePool(s)
    PROVE  StepOK'
<1> USE DEF StepOK
<1>1. {"delPool", "delLB"} \subseteq PCs BY DEF PCs
<1>2. WorkerTypeOK' BY <1>1, DoomedRestType, ProcTypes, GotoType, FailType DEF DeletePool
<1>3. \A r : Applied(r) \in BOOLEAN BY DEF Applied
<1>4. CloudTypeOK' BY <1>3, CloudDeletePoolType DEF DeletePool
<1> QED BY <1>2, <1>4, ChargeType DEF DeletePool

LEMMA DeleteLoadBalancerType ==
    ASSUME StepOK, NEW s \in Services, DeleteLoadBalancer(s)
    PROVE  StepOK'
<1> USE DEF StepOK
<1> DEFINE p == <<s, "sync">>
<1>1. {"eipCleanup", "deleted", "delLB"} \subseteq PCs BY DEF PCs
<1>2. [loc[p] EXCEPT !.tries = loc[p].tries + 1] \in LocType
  <2>1. loc[p].tries \in Nat BY ProcTypes, LocGet
  <2>2. loc[p].tries + 1 \in Nat BY <2>1
  <2> QED BY <2>2, ProcTypes, LocSet
<1>3. WorkerTypeOK' BY <1>1, <1>2, ProcTypes, GotoType, FailType DEF DeleteLoadBalancer
<1>4. CloudTypeOK' BY CloudDeleteLBType, CloudStutterType DEF DeleteLoadBalancer
<1> QED BY <1>3, <1>4, ChargeType DEF DeleteLoadBalancer

LEMMA ReleaseOrphanedEIPType ==
    ASSUME StepOK, NEW s \in Services, ReleaseOrphanedEIP(s)
    PROVE  StepOK'
<1> USE DEF StepOK
<1> DEFINE p == <<s, "sync">>
<1>1. \A e \in loc[p].eip : [loc[p] EXCEPT !.eip = loc[p].eip \ {e}] \in LocType
      BY ProcTypes, LocGet, LocSet
<1>2. {"eipCleanup", "deleted"} \subseteq PCs BY DEF PCs
<1>3. WorkerTypeOK' BY <1>1, <1>2, ProcTypes, GotoType DEF ReleaseOrphanedEIP
<1>4. CloudTypeOK' BY CloudReleaseEIPType, CloudStutterType DEF ReleaseOrphanedEIP
<1> QED BY <1>3, <1>4, ChargeType DEF ReleaseOrphanedEIP

LEMMA ProviderType ==
    ASSUME StepOK, NEW s \in Services,
           \/ EnsureLoadBalancer(s) \/ GetLoadBalancer(s)
           \/ EnsureLoadBalancerDeleted(s) \/ UpdateLoadBalancer(s)
    PROVE  StepOK'
<1>1. CASE EnsureLoadBalancer(s)
      BY <1>1, ProcTypes, EnsureGetType, CreateLoadBalancerType, ensureListenersType,
         EnsureELBSecurityGroupType DEF EnsureLoadBalancer, StepOK
<1>2. CASE GetLoadBalancer(s) BY <1>2, GetLoadBalancerType
<1>3. CASE EnsureLoadBalancerDeleted(s)
      BY <1>3, DeleteGetType, FindEIPType, ReleaseBoundEIPType, ListListenersType,
         DeleteListenerType, ListPoolsType, DeletePoolType, DeleteLoadBalancerType,
         ReleaseOrphanedEIPType DEF EnsureLoadBalancerDeleted
<1>4. CASE UpdateLoadBalancer(s)
      BY <1>4, ProcTypes, UpdateGetType, SyncListType, OrphanListenerType,
         OrphanPoolType, ensureListenersType DEF UpdateLoadBalancer, StepOK
<1> QED BY <1>1, <1>2, <1>3, <1>4

-----------------------------------------------------------------------------
(* Type correctness of the controller.                                     *)

LEMMA CallType ==
    ASSUME NEW ps \in SUBSET ServicePorts, NEW ns \in SUBSET Nodes
    PROVE  Call(ps, ns) \in LocType
BY DEF Call, NoLoc, NoPort, LocType

LEMMA InitType == Init => TypeOK
<1> SUFFICES ASSUME Init PROVE TypeOK OBVIOUS
<1>1. CloudTypeOK BY DEF Init, CloudInit, CloudTypeOK
<1>2. "idle" \in PCs BY DEF PCs
<1>3. WorkerTypeOK BY <1>2, NoLocType DEF Init, WorkerTypeOK
<1>4. ControllerTypeOK BY EditsAssumption DEF Init, ControllerTypeOK
<1>5. faults \in 0..MaxFaults BY FaultsAssumption DEF Init, CloudInit
<1> QED BY <1>1, <1>3, <1>4, <1>5 DEF TypeOK

LEMMA NextType == TypeOK /\ [Next]_vars => TypeOK'
<1> SUFFICES ASSUME TypeOK, [Next]_vars PROVE TypeOK' OBVIOUS
<1>0. StepOK /\ ControllerTypeOK BY DEF TypeOK, StepOK
<1>1. SUFFICES StepOK' /\ ControllerTypeOK' BY DEF TypeOK, StepOK
<1>2. ASSUME UNCHANGED <<k8sVars, ctlVars>> PROVE ControllerTypeOK'
      BY <1>0, <1>2 DEF ControllerTypeOK, k8sVars, ctlVars
<1>3. ASSUME UNCHANGED <<cloudVars, faults, procVars>> PROVE StepOK'
  <2>1. CloudTypeOK' BY <1>0, <1>3, CloudStutterType DEF StepOK
  <2>2. WorkerTypeOK' BY <1>0, <1>3 DEF StepOK, WorkerTypeOK, procVars
  <2> QED BY <1>0, <1>3, <2>1, <2>2 DEF StepOK
<1>4. CASE UNCHANGED vars BY <1>2, <1>3, <1>4 DEF vars
<1>5. ASSUME NEW s \in Services, ApplyService(s) PROVE StepOK' /\ ControllerTypeOK'
  <2>1. StepOK' BY <1>3, <1>5 DEF ApplyService
  <2>2. ControllerTypeOK' BY <1>0, <1>5, EditsAssumption DEF ApplyService, ControllerTypeOK
  <2> QED BY <2>1, <2>2
<1>6. ASSUME NEW s \in Services, RemoveService(s) PROVE StepOK' /\ ControllerTypeOK'
  <2>1. StepOK' BY <1>3, <1>6 DEF RemoveService
  <2>2. ControllerTypeOK' BY <1>0, <1>6 DEF RemoveService, ControllerTypeOK
  <2> QED BY <2>1, <2>2
<1>7. ASSUME ChangeNodes PROVE StepOK' /\ ControllerTypeOK'
  <2>1. StepOK' BY <1>3, <1>7 DEF ChangeNodes
  <2>2. ControllerTypeOK' BY <1>0, <1>7, EditsAssumption DEF ChangeNodes, ControllerTypeOK
  <2> QED BY <2>1, <2>2
<1>8. ASSUME Crash PROVE StepOK' /\ ControllerTypeOK'
  <2>1. CloudTypeOK' BY <1>0, <1>8, CloudStutterType DEF Crash, StepOK
  <2>2. WorkerTypeOK' BY <1>8, NoLocType DEF Crash, WorkerTypeOK, PCs
  <2>3. faults' \in 0..MaxFaults BY <1>0, <1>8, FaultsAssumption DEF Crash, StepOK
  <2>4. ControllerTypeOK' BY <1>0, <1>8 DEF Crash, ControllerTypeOK, k8sVars
  <2> QED BY <2>1, <2>2, <2>3, <2>4 DEF StepOK
<1>9. ASSUME NEW s \in Services, SyncService(s) PROVE StepOK' /\ ControllerTypeOK'
  <2>1. CloudTypeOK' BY <1>0, <1>9, CloudStutterType DEF SyncService, StepOK
  <2>2. {"ensGet", "delCheck"} \subseteq PCs BY DEF PCs
  <2>3. Call(ports[s], nodes) \in LocType BY <1>0, CallType DEF ControllerTypeOK
  <2>4. WorkerTypeOK'
        BY <1>0, <1>9, <2>2, <2>3, ProcTypes, NoLocType, GotoType DEF SyncService, StepOK
  <2>5. ControllerTypeOK' BY <1>0, <1>9 DEF SyncService, ControllerTypeOK
  <2> QED BY <1>0, <1>9, <2>1, <2>4, <2>5 DEF SyncService, StepOK
<1>10. ASSUME NEW s \in Services, PublishStatus(s) PROVE StepOK' /\ ControllerTypeOK'
  <2>1. CloudTypeOK' BY <1>0, <1>10, CloudStutterType DEF PublishStatus, StepOK
  <2>2. "idle" \in PCs BY DEF PCs
  <2>3. WorkerTypeOK'
        BY <1>0, <1>10, <2>2, ProcTypes, NoLocType, GotoType DEF PublishStatus, StepOK
  <2>4. loc[<<s, "sync">>].eip \in SUBSET Nat /\ loc[<<s, "sync">>].lb \in Nat
        BY <1>0, ProcTypes, LocGet DEF StepOK
  <2>5. ControllerTypeOK'
        BY <1>0, <1>10, <2>4 DEF PublishStatus, ControllerTypeOK, ctlVars
  <2> QED BY <1>0, <1>10, <2>1, <2>3, <2>5 DEF PublishStatus, StepOK
<1>11. ASSUME NEW s \in Services,
              \/ RemoveFinalizer(s) \/ Requeue(s) \/ NodesSynced(s) \/ RetryNodes(s)
       PROVE  StepOK' /\ ControllerTypeOK'
  <2>1. CloudTypeOK' BY <1>0, <1>11, CloudStutterType
        DEF RemoveFinalizer, Requeue, NodesSynced, RetryNodes, StepOK
  <2>2. "idle" \in PCs BY DEF PCs
  <2>3. WorkerTypeOK' BY <1>0, <1>11, <2>2, ProcTypes, NoLocType, GotoType
        DEF RemoveFinalizer, Requeue, NodesSynced, RetryNodes, StepOK
  <2>4. ControllerTypeOK' BY <1>0, <1>11
        DEF RemoveFinalizer, Requeue, NodesSynced, RetryNodes, ControllerTypeOK,
            k8sVars, ctlVars
  <2>5. faults' \in 0..MaxFaults BY <1>0, <1>11, ChargeType
        DEF RemoveFinalizer, Requeue, NodesSynced, RetryNodes, StepOK
  <2> QED BY <2>1, <2>3, <2>4, <2>5 DEF StepOK
<1>12. ASSUME NEW s \in Services, SyncNodes(s) PROVE StepOK' /\ ControllerTypeOK'
  <2>1. CloudTypeOK' BY <1>0, <1>12, CloudStutterType DEF SyncNodes, StepOK
  <2>2. "updGet" \in PCs BY DEF PCs
  <2>3. \A ps \in cached[s] : Call(ps, nodes) \in LocType
        BY <1>0, CallType DEF ControllerTypeOK
  <2>4. WorkerTypeOK'
    <3>1. CASE UNCHANGED procVars BY <1>0, <3>1 DEF StepOK, WorkerTypeOK, procVars
    <3>2. CASE \E ps \in cached[s] : Goto(<<s, "node">>, "updGet", Call(ps, nodes))
          BY <1>0, <2>2, <2>3, <3>2, ProcTypes, GotoType DEF StepOK
    <3> QED BY <1>12, <3>1, <3>2 DEF SyncNodes
  <2>5. ControllerTypeOK' BY <1>0, <1>12 DEF SyncNodes, ControllerTypeOK, k8sVars
  <2> QED BY <1>0, <1>12, <2>1, <2>4, <2>5 DEF SyncNodes, StepOK
<1>13. ASSUME NEW s \in Services, SyncWorker(s) \/ NodeWorker(s)
       PROVE  StepOK' /\ ControllerTypeOK'
       BY <1>0, <1>2, <1>9, <1>10, <1>11, <1>12, <1>13, ProviderType
       DEF SyncWorker, NodeWorker
<1>14. ASSUME Cloud PROVE StepOK' /\ ControllerTypeOK'
  <2>1. CloudTypeOK' BY <1>0, <1>14 DEF Cloud, ReapListener, ReapPool, CloudTypeOK, StepOK
  <2>2. WorkerTypeOK' BY <1>0, <1>14 DEF Cloud, procVars, WorkerTypeOK, StepOK
  <2>3. faults' = faults BY <1>14 DEF Cloud, ReapListener, ReapPool
  <2> QED BY <1>0, <1>2, <1>14, <2>1, <2>2, <2>3 DEF StepOK, Cloud
<1> QED BY <1>4, <1>5, <1>6, <1>7, <1>8, <1>13, <1>14 DEF Next

\* Every variable of the controller, the provider and the cloud keeps its type, for
\* any number of services, ports, nodes, edits, faults and crashes.
THEOREM TypeCorrect == Spec => []TypeOK
BY InitType, NextType, PTL DEF Spec
=============================================================================
