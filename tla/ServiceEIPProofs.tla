--------------------------- MODULE ServiceEIPProofs ---------------------------
(* No elastic IP outlives its service: not as long as no call fails        *)
(* (FaultFreeEIPs), since the EIPs an ELB has are noted before it is deleted *)
(* and the finalizer stays until those that were unbound are released; and *)
(* where the cloud releases bound EIPs not after one fault either.         *)
EXTENDS ServiceSettlesProofs

\* Where a deletion holds the ELB whose EIPs it has noted.
NotedPCs == {"eipFind", "eipRelease", "delListeners", "delListener", "delPools",
             "delPool", "delLB"}

\* A deletion has noted every EIP of its ELB, and what it still has to release
\* is protected by the finalizer.
NotesAll(s) ==
    LET c == pc[<<s, "sync">>]
        v == loc[<<s, "sync">>]
    IN  /\ c \in NotedPCs => \A e \in eips : e.lb = v.lb => e.id \in v.eip
        /\ c = "eipCleanup" => fin[s]

\* The EIP belongs to an ELB, with which it shares its name.
Bound(e) == \E l \in lbs : l.id = e.lb /\ l.name = e.name

\* A deletion of its service is about to release the EIP.
ToRelease(e) ==
    \E s \in Services : /\ NameOf[s] = e.name
                        /\ pc[<<s, "sync">>] = "eipCleanup"
                        /\ e.id \in loc[<<s, "sync">>].eip

\* The inductive invariant behind FaultFreeEIPs.
EIPInv ==
    /\ \A l \in lbs : l.id # 0
    /\ \A e \in eips : IF e.lb # 0 THEN Bound(e) ELSE ToRelease(e)
    /\ \A s \in Services : NotesAll(s)

FaultFreeEIPInv == faults = 0 => EIPInv

-----------------------------------------------------------------------------
(* Steps that create no EIP and delete no ELB.                             *)

\* The step leaves t's sync worker alone, or moves it with its notes in order.
Stays(t) ==
    /\ pc'[<<t, "sync">>] = pc[<<t, "sync">>]
    /\ loc'[<<t, "sync">>] = loc[<<t, "sync">>]
    /\ fin[t] => fin'[t]
Advances(t) == pc[<<t, "sync">>] # "eipCleanup" /\ NotesAll(t)'

\* Such steps keep EIPInv.
LEMMA QuietStep ==
    ASSUME EIPInv, lbs' = lbs, eips' \subseteq eips,
           \A t \in Services : Stays(t) \/ Advances(t)
    PROVE  EIPInv'
<1>1. ASSUME NEW e \in eips' PROVE IF e.lb # 0 THEN Bound(e)' ELSE ToRelease(e)'
  <2>1. CASE e.lb # 0 BY <1>1, <2>1 DEF EIPInv, Bound
  <2>2. CASE e.lb = 0
    <3>1. PICK s \in Services : /\ NameOf[s] = e.name
                                /\ pc[<<s, "sync">>] = "eipCleanup"
                                /\ e.id \in loc[<<s, "sync">>].eip
          BY <1>1, <2>2 DEF EIPInv, ToRelease
    <3> QED BY <2>2, <3>1 DEF ToRelease, Stays, Advances
  <2> QED BY <2>1, <2>2
<1>2. ASSUME NEW t \in Services PROVE NotesAll(t)'
  <2>1. CASE Stays(t) BY <2>1 DEF EIPInv, NotesAll, Stays
  <2> QED BY <2>1 DEF Advances
<1> QED BY <1>1, <1>2 DEF EIPInv

\* A step of a service's sync worker.
LEMMA SyncQuiet ==
    ASSUME EIPInv, lbs' = lbs, eips' \subseteq eips, NEW s \in Services,
           OnlyMoves(<<s, "sync">>), Advances(s),
           \A t \in Services \ {s} : fin'[t] = fin[t]
    PROVE  EIPInv'
<1>1. ASSUME NEW t \in Services, t # s PROVE Stays(t)
      BY <1>1 DEF OnlyMoves, Procs, Workers, Stays
<1> QED BY <1>1, QuietStep

\* A step of a service's node worker.
LEMMA NodeQuiet ==
    ASSUME EIPInv, UNCHANGED <<lbs, eips, fin>>, NEW s \in Services,
           OnlyMoves(<<s, "node">>)
    PROVE  EIPInv'
<1>1. ASSUME NEW t \in Services PROVE Stays(t)
      BY <1>1 DEF OnlyMoves, Procs, Workers, Stays
<1> QED BY <1>1, QuietStep

\* A sync worker that is not deleting has nothing to note.
LEMMA NothingToNote ==
    ASSUME NEW s, pc'[<<s, "sync">>] \notin NotedPCs \cup {"eipCleanup"}
    PROVE  NotesAll(s)'
BY DEF NotesAll

\* The faults are counted.
LEMMA FaultsNat == TypeOK => faults \in Nat
BY FaultsAssumption DEF TypeOK

\* A call that is charged and adds no fault has succeeded.
LEMMA NoFault ==
    ASSUME faults \in Nat, UNCHANGED faults, NEW r, Charge(r)
    PROVE  r = "ok"
BY DEF Charge

\* No request of ensureListeners touches ELBs or EIPs.
LEMMA ensureListenersQuiet ==
    ASSUME NEW p \in Procs, ensureListeners(p)
    PROVE  UNCHANGED <<lbs, eips>>
<1>1. CASE PoolGet(p) BY <1>1 DEF PoolGet, cloudVars
<1>2. CASE PoolPost(p) BY <1>2 DEF PoolPost, CloudCreatePool, cloudVars
<1>3. CASE MemList(p) BY <1>3 DEF MemList, cloudVars
<1>4. CASE MemAdd(p) BY <1>4 DEF MemAdd, CloudSetMembers, cloudVars
<1>5. CASE MemDel(p) BY <1>5 DEF MemDel, CloudSetMembers, cloudVars
<1>6. CASE LisGet(p) BY <1>6 DEF LisGet, cloudVars
<1>7. CASE LisPost(p) BY <1>7 DEF LisPost, CloudCreateListener, cloudVars
<1>8. CASE EnsureHealthMonitor(p) BY <1>8 DEF EnsureHealthMonitor
<1> QED BY <1>1, <1>2, <1>3, <1>4, <1>5, <1>6, <1>7, <1>8 DEF ensureListeners

\* Nor does one of UpdateLoadBalancer.
LEMMA UpdateQuiet ==
    ASSUME NEW s \in Services, UpdateLoadBalancer(s)
    PROVE  UNCHANGED <<lbs, eips>>
<1>1. CASE UpdateGet(s) BY <1>1 DEF UpdateGet, cloudVars
<1>2. CASE SyncList(s) BY <1>2 DEF SyncList, cloudVars
<1>3. CASE OrphanListener(s) BY <1>3 DEF OrphanListener, CloudDeleteListener, cloudVars
<1>4. CASE OrphanPool(s) BY <1>4 DEF OrphanPool, CloudDeletePool
<1>5. CASE ensureListeners(<<s, "node">>)
      BY <1>5, ensureListenersQuiet DEF Procs, Workers
<1> QED BY <1>1, <1>2, <1>3, <1>4, <1>5 DEF UpdateLoadBalancer

-----------------------------------------------------------------------------
(* The steps that create an ELB, delete it and release what it leaves.     *)

\* CreateLoadBalancer makes a bound EIP, or none.
LEMMA CreateEIP ==
    ASSUME TypeOK, LifecycleInv, EIPInv, UNCHANGED fin, NEW s \in Services,
           CreateLoadBalancer(s)
    PROVE  EIPInv'
<1> DEFINE p == <<s, "sync">>
<1>0. WorkerTypeOK /\ p \in Procs /\ nextId \in Nat \ {0}
      BY ProcTypes DEF TypeOK, CloudTypeOK
<1>1. PICK r \in Outcomes :
        /\ IF Applied(r) THEN CloudCreateLB(NameOf[s], s \in EIPServices)
                         ELSE UNCHANGED cloudVars
        /\ IF r = "ok" THEN Configure(p, nextId, {e \in eips' : e.lb = nextId})
                       ELSE Fail(p)
      BY DEF CreateLoadBalancer
<1>2. pc[p] = "lbPost" BY DEF CreateLoadBalancer
<1>3. \E c \in {"failed", "poolGet", "sg"} : \E v : Goto(p, c, v)
      BY <1>1 DEF Fail, Configure, NextPort
<1>4. OnlyMoves(p) /\ pc'[p] \in {"failed", "poolGet", "sg"} BY <1>0, <1>3, GotoMoves
<1>5. Advances(s) BY <1>2, <1>4, NothingToNote DEF Advances, NotedPCs
<1>6. CASE ~Applied(r) BY <1>1, <1>4, <1>5, <1>6, SyncQuiet DEF cloudVars
<1>7. CASE Applied(r)
  <2> DEFINE new == [id |-> nextId, name |-> NameOf[s]]
             eip == [id |-> nextId + 1, name |-> NameOf[s], lb |-> nextId]
  <2>1. lbs' = lbs \cup {new} /\ eips \subseteq eips' /\ eips' \subseteq eips \cup {eip}
        BY <1>1, <1>7 DEF CloudCreateLB
  <2>2. \A l \in lbs' : l.id # 0 BY <1>0, <2>1 DEF EIPInv
  <2>3. ASSUME NEW t \in Services, t # s PROVE Stays(t)
        BY <1>4, <2>3 DEF OnlyMoves, Procs, Workers, Stays
  <2>4. ASSUME NEW e \in eips' PROVE IF e.lb # 0 THEN Bound(e)' ELSE ToRelease(e)'
    <3>1. CASE e = eip
      <4>1. e.lb = nextId /\ e.name = NameOf[s] BY <3>1
      <4>2. new \in lbs' /\ new.id = nextId /\ new.name = NameOf[s] BY <2>1
      <4>3. Bound(e)' BY <4>1, <4>2 DEF Bound
      <4> QED BY <1>0, <4>1, <4>3
    <3>2. CASE e \in eips /\ e.lb # 0 BY <2>1, <3>2 DEF EIPInv, Bound
    <3>3. CASE e \in eips /\ e.lb = 0
      <4>1. PICK t \in Services : /\ NameOf[t] = e.name
                                  /\ pc[<<t, "sync">>] = "eipCleanup"
                                  /\ e.id \in loc[<<t, "sync">>].eip
            BY <3>3 DEF EIPInv, ToRelease
      <4> QED BY <1>2, <2>3, <3>3, <4>1 DEF ToRelease, Stays
    <3> QED BY <2>1, <3>1, <3>2, <3>3
  <2>5. ASSUME NEW t \in Services PROVE NotesAll(t)'
    <3>1. CASE t = s BY <1>5, <3>1 DEF Advances
    <3>2. CASE t # s
      <4>1. Stays(t) BY <2>3, <3>2
      <4>2. ASSUME pc[<<t, "sync">>] \in NotedPCs, NEW e \in eips',
                   e.lb = loc[<<t, "sync">>].lb
            PROVE  e.id \in loc[<<t, "sync">>].eip
        <5>1. PICK l \in lbs : l.id = loc[<<t, "sync">>].lb
              BY <4>2 DEF LifecycleInv, WorkerKnows, NotedPCs, HoldingPCs
        <5>2. l.id < nextId BY DEF LifecycleInv, UniqueIds
        <5>3. l.id \in Nat BY DEF TypeOK, CloudTypeOK
        <5>4. e # eip BY <1>0, <4>2, <5>1, <5>2, <5>3
        <5> QED BY <2>1, <4>2, <5>4 DEF EIPInv, NotesAll
      <4> QED BY <4>1, <4>2 DEF EIPInv, NotesAll, Stays
    <3> QED BY <3>1, <3>2
  <2> QED BY <2>2, <2>4, <2>5 DEF EIPInv
<1> QED BY <1>6, <1>7

\* DeleteLoadBalancer unbinds the EIPs its sync has noted, and no others.
LEMMA DeleteEIP ==
    ASSUME NamesDistinct, TypeOK, LifecycleInv, EIPInv, UNCHANGED <<fin, faults>>,
           NEW s \in Services, DeleteLoadBalancer(s)
    PROVE  EIPInv'
<1> DEFINE p == <<s, "sync">>
           v == loc[p]
           conflict == LBExists(v.lb) /\ HasChildren(v.lb)
<1>0. WorkerTypeOK /\ p \in Procs /\ v \in LocType /\ faults \in Nat
      BY ProcTypes, FaultsNat DEF TypeOK
<1>1. pc[p] = "delLB" BY DEF DeleteLoadBalancer
<1>2. PICK r \in Outcomes :
        /\ Charge(r)
        /\ IF Applied(r) /\ ~conflict THEN CloudDeleteLB(v.lb) ELSE UNCHANGED cloudVars
        /\ \/ /\ r = "ok" /\ ~conflict
              /\ Goto(p, IF v.eip # {} THEN "eipCleanup" ELSE "deleted", v)
           \/ /\ r = "ok" /\ conflict
              /\ Goto(p, "delLB", [v EXCEPT !.tries = @ + 1])
           \/ /\ ~(r = "ok" /\ ~conflict)
              /\ Fail(p)
      BY DEF DeleteLoadBalancer
<1>3. r = "ok" BY <1>0, <1>2, NoFault
<1>4. CASE conflict
  <2>1. lbs' = lbs /\ eips' \subseteq eips BY <1>2, <1>4 DEF cloudVars
  <2>2. CASE Fail(p)
    <3>1. OnlyMoves(p) /\ pc'[p] = "failed" BY <1>0, <2>2, GotoMoves DEF Fail
    <3>2. Advances(s) BY <1>1, <3>1, NothingToNote DEF Advances, NotedPCs
    <3> QED BY <2>1, <3>1, <3>2, SyncQuiet
  <2>3. CASE Goto(p, "delLB", [v EXCEPT !.tries = @ + 1])
    <3>1. OnlyMoves(p) /\ pc'[p] = "delLB" /\ loc'[p] = [v EXCEPT !.tries = @ + 1]
          BY <1>0, <2>3, GotoMoves
    <3>2. loc'[p].lb = v.lb /\ loc'[p].eip = v.eip BY <1>0, <3>1 DEF LocType
    <3>3. Advances(s) BY <1>1, <2>1, <3>1, <3>2 DEF Advances, EIPInv, NotesAll, NotedPCs
    <3> QED BY <2>1, <3>1, <3>3, SyncQuiet
  <2> QED BY <1>2, <1>4, <2>2, <2>3
<1>5. CASE ~conflict
  <2>1. CloudDeleteLB(v.lb) BY <1>2, <1>3, <1>5 DEF Applied
  <2>2. Goto(p, IF v.eip # {} THEN "eipCleanup" ELSE "deleted", v) BY <1>2, <1>3, <1>5
  <2>3. /\ OnlyMoves(p) /\ loc'[p] = v
        /\ pc'[p] = IF v.eip # {} THEN "eipCleanup" ELSE "deleted"
        BY <1>0, <2>2, GotoMoves
  <2>4. PICK l \in lbs : l.name = NameOf[s] /\ l.id = v.lb
        BY <1>1 DEF LifecycleInv, WorkerKnows, HoldingPCs
  <2>5. fin[s] BY <2>4 DEF LifecycleInv, NoLeakedELB, NamesDistinct
  <2>6. v.lb # 0 BY <2>4 DEF EIPInv
  <2>7. lbs' = {k \in lbs : k.id # v.lb} BY <2>1 DEF CloudDeleteLB
  <2>8. ASSUME NEW t \in Services, t # s PROVE Stays(t)
        BY <2>3, <2>8 DEF OnlyMoves, Procs, Workers, Stays
  <2>9. ASSUME NEW f \in eips'
        PROVE  \/ f \in eips /\ f.lb # v.lb
               \/ f.lb = 0 /\ f.name = NameOf[s] /\ f.id \in v.eip
    <3>1. PICK e \in eips : f = IF e.lb = v.lb THEN [e EXCEPT !.lb = 0] ELSE e
          BY <2>1, <2>9 DEF CloudDeleteLB
    <3>2. CASE e.lb = v.lb
      <4>1. e \in [id : Nat, name : STRING, lb : Nat] BY DEF TypeOK, CloudTypeOK
      <4>2. f.lb = 0 /\ f.name = e.name /\ f.id = e.id BY <3>1, <3>2, <4>1
      <4>3. PICK k \in lbs : k.id = e.lb /\ k.name = e.name
            BY <2>6, <3>2 DEF EIPInv, Bound
      <4>4. k = l BY <2>4, <3>2, <4>3 DEF LifecycleInv, UniqueIds
      <4>5. e.id \in v.eip BY <1>1, <3>2 DEF EIPInv, NotesAll, NotedPCs
      <4> QED BY <2>4, <4>2, <4>3, <4>4, <4>5
    <3> QED BY <3>1, <3>2
  <2>10. ASSUME NEW f \in eips' PROVE IF f.lb # 0 THEN Bound(f)' ELSE ToRelease(f)'
    <3>1. CASE f.lb = 0 /\ f.name = NameOf[s] /\ f.id \in v.eip
          BY <2>3, <3>1 DEF ToRelease
    <3>2. CASE f \in eips /\ f.lb # v.lb /\ f.lb # 0
      <4>1. PICK k \in lbs : k.id = f.lb /\ k.name = f.name BY <3>2 DEF EIPInv, Bound
      <4>2. k \in lbs' BY <2>7, <3>2, <4>1
      <4> QED BY <3>2, <4>1, <4>2 DEF Bound
    <3>3. CASE f \in eips /\ f.lb = 0
      <4>1. PICK t \in Services : /\ NameOf[t] = f.name
                                  /\ pc[<<t, "sync">>] = "eipCleanup"
                                  /\ f.id \in loc[<<t, "sync">>].eip
            BY <3>3 DEF EIPInv, ToRelease
      <4> QED BY <1>1, <2>8, <3>3, <4>1 DEF ToRelease, Stays
    <3> QED BY <2>9, <3>1, <3>2, <3>3
  <2>11. ASSUME NEW t \in Services PROVE NotesAll(t)'
    <3>1. CASE t = s BY <2>3, <2>5, <3>1 DEF NotesAll, NotedPCs
    <3>2. CASE t # s
      <4>1. Stays(t) BY <2>8, <3>2
      <4>2. ASSUME pc[<<t, "sync">>] \in NotedPCs, NEW f \in eips',
                   f.lb = loc[<<t, "sync">>].lb
            PROVE  f.id \in loc[<<t, "sync">>].eip
        <5>1. PICK k \in lbs : k.id = loc[<<t, "sync">>].lb
              BY <4>2 DEF LifecycleInv, WorkerKnows, NotedPCs, HoldingPCs
        <5>2. f.lb # 0 BY <4>2, <5>1 DEF EIPInv
        <5>3. f \in eips BY <2>9, <5>2
        <5> QED BY <4>2, <5>3 DEF EIPInv, NotesAll
      <4> QED BY <4>1, <4>2 DEF EIPInv, NotesAll, Stays
    <3> QED BY <3>1, <3>2
  <2>12. \A k \in lbs' : k.id # 0 BY <2>7 DEF EIPInv
  <2> QED BY <2>10, <2>11, <2>12 DEF EIPInv
<1> QED BY <1>4, <1>5

\* ReleaseOrphanedEIP takes off its list what it has released.
LEMMA ReleaseEIP ==
    ASSUME TypeOK, EIPInv, UNCHANGED <<fin, faults>>, NEW s \in Services,
           ReleaseOrphanedEIP(s)
    PROVE  EIPInv'
<1> DEFINE p == <<s, "sync">>
           v == loc[p]
<1>0. WorkerTypeOK /\ p \in Procs /\ v \in LocType /\ faults \in Nat
      BY ProcTypes, FaultsNat DEF TypeOK
<1>1. pc[p] = "eipCleanup" BY DEF ReleaseOrphanedEIP
<1>2. PICK i \in v.eip, r \in Outcomes :
        /\ Charge(r)
        /\ IF Applied(r) THEN CloudReleaseEIP(i) ELSE UNCHANGED cloudVars
        /\ Goto(p, IF v.eip # {i} THEN "eipCleanup" ELSE "deleted",
                [v EXCEPT !.eip = v.eip \ {i}])
      BY DEF ReleaseOrphanedEIP
<1>3. r = "ok" BY <1>0, <1>2, NoFault
<1>4. CloudReleaseEIP(i) BY <1>2, <1>3 DEF Applied
<1>5. /\ OnlyMoves(p) /\ loc'[p] = [v EXCEPT !.eip = v.eip \ {i}]
      /\ pc'[p] = IF v.eip # {i} THEN "eipCleanup" ELSE "deleted"
      BY <1>0, <1>2, GotoMoves
<1>6. loc'[p].eip = v.eip \ {i} BY <1>0, <1>5 DEF LocType
<1>7. lbs' = lbs /\ eips' \subseteq eips /\ \A e \in eips' : e.lb = 0 => e.id # i
      BY <1>4 DEF CloudReleaseEIP
<1>8. ASSUME NEW t \in Services, t # s PROVE Stays(t)
      BY <1>5, <1>8 DEF OnlyMoves, Procs, Workers, Stays
<1>9. ASSUME NEW e \in eips' PROVE IF e.lb # 0 THEN Bound(e)' ELSE ToRelease(e)'
  <2>1. CASE e.lb # 0 BY <1>7, <2>1 DEF EIPInv, Bound
  <2>2. CASE e.lb = 0
    <3>1. PICK t \in Services : /\ NameOf[t] = e.name
                                /\ pc[<<t, "sync">>] = "eipCleanup"
                                /\ e.id \in loc[<<t, "sync">>].eip
          BY <1>7, <2>2 DEF EIPInv, ToRelease
    <3>2. CASE t = s
      <4>1. e.id \in v.eip \ {i} BY <1>7, <2>2, <3>1, <3>2
      <4>2. pc'[p] = "eipCleanup" BY <1>5, <4>1
      <4> QED BY <1>6, <2>2, <3>1, <3>2, <4>1, <4>2 DEF ToRelease
    <3>3. CASE t # s BY <1>8, <2>2, <3>1, <3>3 DEF ToRelease, Stays
    <3> QED BY <3>2, <3>3
  <2> QED BY <2>1, <2>2
<1>10. ASSUME NEW t \in Services PROVE NotesAll(t)'
  <2>1. CASE t = s BY <1>1, <1>5, <2>1 DEF EIPInv, NotesAll, NotedPCs
  <2>2. CASE t # s BY <1>7, <1>8, <2>2 DEF EIPInv, NotesAll, Stays
  <2> QED BY <2>1, <2>2
<1> QED BY <1>7, <1>9, <1>10 DEF EIPInv

-----------------------------------------------------------------------------
(* The other steps of the sync worker.                                     *)

\* EnsureLoadBalancer notes nothing.
LEMMA EnsureEIP ==
    ASSUME TypeOK, LifecycleInv, EIPInv, UNCHANGED fin, NEW s \in Services,
           EnsureLoadBalancer(s)
    PROVE  EIPInv'
<1> DEFINE p == <<s, "sync">>
<1>0. WorkerTypeOK /\ p \in Procs BY ProcTypes DEF TypeOK
<1>1. pc[p] \in EnsurePCs /\ OnlyMoves(p) BY <1>0, EnsureIsNoDeletion, MovesAlone
<1>2. CASE CreateLoadBalancer(s) BY <1>2, CreateEIP
<1>3. CASE EnsureGet(s)
  <2>1. \E c \in {"failed", "lbPost", "poolGet", "sg"} : \E v : Goto(p, c, v)
        BY <1>3 DEF EnsureGet, Fail, Configure, NextPort
  <2>2. pc'[p] \in {"failed", "lbPost", "poolGet", "sg"} BY <1>0, <2>1, GotoMoves
  <2>3. Advances(s) BY <1>1, <2>2, NothingToNote DEF Advances, NotedPCs, EnsurePCs
  <2> QED BY <1>1, <1>3, <2>3, SyncQuiet DEF EnsureGet, cloudVars
<1>4. CASE ensureListeners(p)
  <2>1. ListenersStep(p) BY <1>0, <1>4, ensureListenersMoves
  <2>2. pc'[p] \notin NotedPCs \cup {"eipCleanup"}
        BY <2>1 DEF ListenersStep, NotedPCs, EnsurePCs
  <2>3. Advances(s) BY <1>1, <2>2, NothingToNote DEF Advances, EnsurePCs
  <2> QED BY <1>0, <1>1, <1>4, <2>3, ensureListenersQuiet, SyncQuiet
<1>5. CASE EnsureELBSecurityGroup(s)
  <2>1. pc'[p] = "ensured" BY <1>0, <1>5, GotoMoves DEF EnsureELBSecurityGroup
  <2>2. Advances(s) BY <1>1, <2>1, NothingToNote DEF Advances, NotedPCs, EnsurePCs
  <2> QED BY <1>1, <1>5, <2>2, SyncQuiet DEF EnsureELBSecurityGroup
<1> QED BY <1>2, <1>3, <1>4, <1>5 DEF EnsureLoadBalancer

\* The look-ups of a deletion: the second notes all the EIPs of the ELB.
LEMMA LookUpEIP ==
    ASSUME TypeOK, EIPInv, UNCHANGED fin, NEW s \in Services,
           GetLoadBalancer(s) \/ DeleteGet(s)
    PROVE  EIPInv'
<1> DEFINE p == <<s, "sync">>
<1>0. WorkerTypeOK /\ p \in Procs /\ loc[p] \in LocType BY ProcTypes DEF TypeOK
<1>1. OnlyMoves(p) BY DeletionGoesOn DEF EnsureLoadBalancerDeleted
<1>2. lbs' = lbs /\ eips' = eips BY DEF GetLoadBalancer, DeleteGet, cloudVars
<1>3. pc[p] # "eipCleanup" BY DEF GetLoadBalancer, DeleteGet
<1>4. \/ \E c \in {"failed", "deleted", "delGet"} : \E v : Goto(p, c, v)
      \/ \E l \in lbs : Goto(p, "eipFind",
              [loc[p] EXCEPT !.lb = l.id, !.eip = {e.id : e \in EIPsOf(l.id)}])
      BY DEF GetLoadBalancer, DeleteGet, Fail, LBsNamed
<1>5. CASE \E c \in {"failed", "deleted", "delGet"} : \E v : Goto(p, c, v)
  <2>1. pc'[p] \in {"failed", "deleted", "delGet"} BY <1>0, <1>5, GotoMoves
  <2>2. Advances(s) BY <1>3, <2>1, NothingToNote DEF Advances, NotedPCs
  <2> QED BY <1>1, <1>2, <2>2, SyncQuiet
<1>6. ASSUME NEW l \in lbs,
             Goto(p, "eipFind",
                  [loc[p] EXCEPT !.lb = l.id, !.eip = {e.id : e \in EIPsOf(l.id)}])
      PROVE  EIPInv'
  <2> DEFINE noted == {e.id : e \in EIPsOf(l.id)}
             v == [loc[p] EXCEPT !.lb = l.id, !.eip = noted]
  <2>1. v.lb = l.id /\ v.eip = noted BY <1>0 DEF LocType
  <2>2. pc'[p] = "eipFind" /\ loc'[p] = v BY <1>0, <1>6, GotoMoves
  <2>3. \A e \in eips : e.lb = l.id => e.id \in noted BY DEF EIPsOf
  <2>4. NotesAll(s)'
    <3> HIDE DEF v, noted
    <3> QED BY <1>2, <2>1, <2>2, <2>3 DEF NotesAll
  <2> QED BY <1>1, <1>2, <1>3, <2>4, SyncQuiet DEF Advances
<1> QED BY <1>4, <1>5, <1>6

\* The requests between the look-up and the DELETE keep the notes.
LEMMA DeletionEIP ==
    ASSUME TypeOK, EIPInv, UNCHANGED fin, NEW s \in Services,
           \/ FindEIP(s) \/ ReleaseBoundEIP(s) \/ ListListeners(s)
           \/ DeleteListener(s) \/ ListPools(s) \/ DeletePool(s)
    PROVE  EIPInv'
<1> DEFINE p == <<s, "sync">>
           v == loc[p]
           Keeps == \E c, w : Goto(p, c, w) /\ w.lb = v.lb /\ w.eip = v.eip
<1>0. WorkerTypeOK /\ p \in Procs /\ v \in LocType BY ProcTypes DEF TypeOK
<1>1. OnlyMoves(p) BY DeletionGoesOn DEF EnsureLoadBalancerDeleted
<1>2. pc[p] \in NotedPCs
      BY DEF FindEIP, ReleaseBoundEIP, ListListeners, DeleteListener, ListPools,
             DeletePool, NotedPCs
<1>3. lbs' = lbs /\ eips' \subseteq eips
  <2>1. CASE FindEIP(s) BY <2>1 DEF FindEIP, cloudVars
  <2>2. CASE ReleaseBoundEIP(s)
        BY <2>2 DEF ReleaseBoundEIP, CloudReleaseEIP, cloudVars
  <2>3. CASE ListListeners(s) BY <2>3 DEF ListListeners, cloudVars
  <2>4. CASE DeleteListener(s)
        BY <2>4 DEF DeleteListener, CloudDeleteListener, cloudVars
  <2>5. CASE ListPools(s) BY <2>5 DEF ListPools, cloudVars
  <2>6. CASE DeletePool(s) BY <2>6 DEF DeletePool, CloudDeletePool
  <2> QED BY <2>1, <2>2, <2>3, <2>4, <2>5, <2>6
<1>4. \A x : [v EXCEPT !.pool = x].lb = v.lb /\ [v EXCEPT !.pool = x].eip = v.eip
      BY <1>0 DEF LocType
<1>5. \A x : [v EXCEPT !.doomed = x].lb = v.lb /\ [v EXCEPT !.doomed = x].eip = v.eip
      BY <1>0 DEF LocType
<1>6. Fail(p) \/ Keeps
  <2> HIDE DEF v
  <2>1. ASSUME NEW c, NEW x, Goto(p, c, [v EXCEPT !.pool = x]) PROVE Keeps
        BY <1>4, <2>1
  <2>2. ASSUME NEW c, NEW x, Goto(p, c, [v EXCEPT !.doomed = x]) PROVE Keeps
        BY <1>5, <2>2
  <2>3. ASSUME NEW c, Goto(p, c, v) PROVE Keeps BY <2>3
  <2> HIDE DEF Keeps
  <2>4. CASE FindEIP(s) BY <2>1, <2>3, <2>4 DEF FindEIP, v
  <2>5. CASE ReleaseBoundEIP(s) BY <2>1, <2>5 DEF ReleaseBoundEIP, v
  <2>6. CASE ListListeners(s) BY <2>2, <2>6 DEF ListListeners, v
  <2>7. CASE DeleteListener(s) BY <2>2, <2>7 DEF DeleteListener, v
  <2>8. CASE ListPools(s) BY <2>2, <2>8 DEF ListPools, v
  <2>9. CASE DeletePool(s) BY <2>2, <2>9 DEF DeletePool, v
  <2> QED BY <2>4, <2>5, <2>6, <2>7, <2>8, <2>9
<1>7. NotesAll(s)'
  <2>1. CASE Fail(p)
    <3>1. pc'[p] = "failed" BY <1>0, <2>1, GotoMoves DEF Fail
    <3> QED BY <3>1, NothingToNote DEF NotedPCs
  <2>2. CASE Keeps
    <3>1. loc'[p].lb = v.lb /\ loc'[p].eip = v.eip BY <1>0, <2>2, GotoMoves
    <3>2. pc'[p] # "eipCleanup"
          BY <1>0, DeletionMoves, GotoMoves DEF Fail, DeletingPCs, HoldingPCs, EnsurePCs
    <3> QED BY <1>2, <1>3, <3>1, <3>2 DEF EIPInv, NotesAll
  <2> QED BY <1>6, <2>1, <2>2
<1>8. Advances(s) BY <1>2, <1>7 DEF Advances, NotedPCs
<1> QED BY <1>1, <1>3, <1>8, SyncQuiet

\* The controller's own steps start no clean-up, and end none early.
LEMMA ControllerEIP ==
    ASSUME TypeOK, EIPInv, NEW s \in Services,
           SyncService(s) \/ PublishStatus(s) \/ RemoveFinalizer(s) \/ Requeue(s)
    PROVE  EIPInv'
<1> DEFINE p == <<s, "sync">>
<1>0. WorkerTypeOK /\ p \in Procs /\ ControllerTypeOK BY ProcTypes DEF TypeOK
<1>1. lbs' = lbs /\ eips' = eips
      BY DEF SyncService, PublishStatus, RemoveFinalizer, Requeue, cloudVars
<1>2. \A t \in Services \ {s} : fin'[t] = fin[t]
      BY <1>0 DEF SyncService, PublishStatus, RemoveFinalizer, Requeue, k8sVars,
                  ControllerTypeOK
<1>3. \E c \in {"idle", "ensGet", "delCheck"} : \E v : Goto(p, c, v)
      BY DEF SyncService, PublishStatus, RemoveFinalizer, Requeue
<1>4. OnlyMoves(p) /\ pc'[p] \in {"idle", "ensGet", "delCheck"} BY <1>0, <1>3, GotoMoves
<1>5. pc[p] # "eipCleanup"
      BY DEF SyncService, PublishStatus, RemoveFinalizer, Requeue
<1>6. Advances(s) BY <1>4, <1>5, NothingToNote DEF Advances, NotedPCs
<1> QED BY <1>1, <1>2, <1>4, <1>6, SyncQuiet

\* The node worker, users, nodes and the cloud leave ELBs, EIPs and notes alone.
LEMMA EnvironmentEIP ==
    ASSUME TypeOK, EIPInv,
           \/ \E s \in Services : NodeWorker(s) \/ ApplyService(s) \/ RemoveService(s)
           \/ ChangeNodes \/ Cloud \/ UNCHANGED vars
    PROVE  EIPInv'
<1>0. WorkerTypeOK BY DEF TypeOK
<1>1. ASSUME UNCHANGED <<lbs, eips, fin, pc, loc>> PROVE EIPInv'
      BY <1>1, QuietStep DEF Stays
<1>2. ASSUME NEW s \in Services, ApplyService(s) \/ RemoveService(s) PROVE EIPInv'
      BY <1>1, <1>2 DEF ApplyService, RemoveService, cloudVars, procVars
<1>3. CASE ChangeNodes \/ UNCHANGED vars
      BY <1>1, <1>3 DEF ChangeNodes, vars, cloudVars, procVars, k8sVars
<1>4. CASE Cloud
      BY <1>1, <1>4 DEF Cloud, ReapListener, ReapPool, procVars, k8sVars
<1>5. ASSUME NEW s \in Services, NodeWorker(s) PROVE EIPInv'
  <2> DEFINE p == <<s, "node">>
  <2>0. p \in Procs BY <1>0, ProcTypes
  <2>1. UNCHANGED <<lbs, eips, fin>>
        BY <1>5, UpdateQuiet
        DEF NodeWorker, SyncNodes, NodesSynced, RetryNodes, cloudVars, k8sVars
  <2>2. UNCHANGED procVars \/ Moves(p)
        BY <1>5, UpdateMovesOne
        DEF NodeWorker, SyncNodes, NodesSynced, RetryNodes, Moves
  <2>3. CASE UNCHANGED procVars BY <1>1, <2>1, <2>3 DEF procVars
  <2>4. CASE Moves(p) BY <1>0, <2>0, <2>1, <2>4, MovesAlone, NodeQuiet
  <2> QED BY <2>2, <2>3, <2>4
<1> QED BY <1>2, <1>3, <1>4, <1>5

-----------------------------------------------------------------------------
(* The theorem.                                                            *)

\* A fault is never forgotten, and a step meets at most one.
Grows == faults' \in {faults, faults + 1}

\* A call that is charged meets at most one fault.
LEMMA ChargeGrows ==
    ASSUME faults \in Nat, NEW r, Charge(r)
    PROVE  Grows
BY DEF Charge, Grows

\* So does a request of a worker.
LEMMA ProviderGrows ==
    ASSUME faults \in Nat, NEW s \in Services,
           \/ EnsureLoadBalancer(s) \/ GetLoadBalancer(s)
           \/ EnsureLoadBalancerDeleted(s) \/ UpdateLoadBalancer(s)
    PROVE  Grows
<1>1. ASSUME NEW p, ensureListeners(p) PROVE \E r : Charge(r)
      BY <1>1 DEF ensureListeners, PoolGet, PoolPost, MemList, MemAdd, MemDel,
                  LisGet, LisPost, EnsureHealthMonitor
<1>2. CASE EnsureLoadBalancer(s)
  <2>1. CASE EnsureGet(s) BY <2>1, ChargeGrows DEF EnsureGet
  <2>2. CASE CreateLoadBalancer(s) BY <2>2, ChargeGrows DEF CreateLoadBalancer
  <2>3. CASE EnsureELBSecurityGroup(s) BY <2>3, ChargeGrows DEF EnsureELBSecurityGroup
  <2>4. CASE ensureListeners(<<s, "sync">>) BY <1>1, <2>4, ChargeGrows
  <2> QED BY <1>2, <2>1, <2>2, <2>3, <2>4 DEF EnsureLoadBalancer
<1>3. CASE UpdateLoadBalancer(s)
  <2>1. CASE UpdateGet(s) BY <2>1, ChargeGrows DEF UpdateGet
  <2>2. CASE SyncList(s) BY <2>2, ChargeGrows DEF SyncList
  <2>3. CASE OrphanListener(s) BY <2>3, ChargeGrows DEF OrphanListener
  <2>4. CASE OrphanPool(s) BY <2>4, ChargeGrows DEF OrphanPool
  <2>5. CASE ensureListeners(<<s, "node">>) BY <1>1, <2>5, ChargeGrows
  <2> QED BY <1>3, <2>1, <2>2, <2>3, <2>4, <2>5 DEF UpdateLoadBalancer
<1>4. CASE GetLoadBalancer(s) BY <1>4, ChargeGrows DEF GetLoadBalancer
<1>5. CASE EnsureLoadBalancerDeleted(s)
  <2>1. CASE DeleteGet(s) BY <2>1, ChargeGrows DEF DeleteGet
  <2>2. CASE FindEIP(s) BY <2>2, ChargeGrows DEF FindEIP
  <2>3. CASE ReleaseBoundEIP(s) BY <2>3, ChargeGrows DEF ReleaseBoundEIP
  <2>4. CASE ListListeners(s) BY <2>4, ChargeGrows DEF ListListeners
  <2>5. CASE DeleteListener(s) BY <2>5, ChargeGrows DEF DeleteListener
  <2>6. CASE ListPools(s) BY <2>6, ChargeGrows DEF ListPools
  <2>7. CASE DeletePool(s) BY <2>7, ChargeGrows DEF DeletePool
  <2>8. CASE DeleteLoadBalancer(s) BY <2>8, ChargeGrows DEF DeleteLoadBalancer
  <2>9. CASE ReleaseOrphanedEIP(s) BY <2>9, ChargeGrows DEF ReleaseOrphanedEIP
  <2> QED BY <1>5, <2>1, <2>2, <2>3, <2>4, <2>5, <2>6, <2>7, <2>8, <2>9
          DEF EnsureLoadBalancerDeleted
<1> QED BY <1>2, <1>3, <1>4, <1>5

\* So does every step, and a crash is a fault.
LEMMA StepGrows ==
    ASSUME TypeOK, [Next]_vars
    PROVE  Grows /\ (Crash => faults' # faults)
<1>0. faults \in Nat BY FaultsNat
<1>1. Crash => faults' # faults BY <1>0 DEF Crash
<1>2. CASE UNCHANGED vars BY <1>1, <1>2 DEF vars, Grows
<1>3. CASE Crash BY <1>3 DEF Crash, Grows
<1>4. CASE ChangeNodes BY <1>1, <1>4 DEF ChangeNodes, Grows
<1>5. CASE Cloud BY <1>1, <1>5 DEF Cloud, ReapListener, ReapPool, Grows
<1>6. ASSUME NEW s \in Services, ApplyService(s) \/ RemoveService(s) PROVE Grows
      BY <1>6 DEF ApplyService, RemoveService, Grows
<1>7. ASSUME NEW s \in Services, SyncWorker(s) PROVE Grows
  <2>1. CASE SyncService(s) \/ PublishStatus(s) \/ RemoveFinalizer(s) \/ Requeue(s)
        BY <2>1 DEF SyncService, PublishStatus, RemoveFinalizer, Requeue, Grows
  <2> QED BY <1>0, <1>7, <2>1, ProviderGrows DEF SyncWorker
<1>8. ASSUME NEW s \in Services, NodeWorker(s) PROVE Grows
  <2>1. CASE SyncNodes(s) \/ NodesSynced(s) BY <2>1 DEF SyncNodes, NodesSynced, Grows
  <2>2. CASE RetryNodes(s) BY <1>0, <2>2, ChargeGrows DEF RetryNodes
  <2> QED BY <1>0, <1>8, <2>1, <2>2, ProviderGrows DEF NodeWorker
<1> QED BY <1>1, <1>2, <1>3, <1>4, <1>5, <1>6, <1>7, <1>8 DEF Next

\* EIPInv is inductive under LifecycleInv, while no call fails.
LEMMA EIPStep ==
    ASSUME NamesDistinct, TypeOK, LifecycleInv, FaultFreeEIPInv, [Next]_vars
    PROVE  FaultFreeEIPInv'
<1> SUFFICES ASSUME faults' = 0 PROVE EIPInv' BY DEF FaultFreeEIPInv
<1>1. EIPInv /\ ~Crash /\ UNCHANGED faults
      BY StepGrows, FaultsNat DEF Grows, FaultFreeEIPInv
<1>2. ASSUME NEW s \in Services, SyncWorker(s) PROVE EIPInv'
  <2>1. CASE SyncService(s) \/ PublishStatus(s) \/ RemoveFinalizer(s) \/ Requeue(s)
        BY <1>1, <2>1, ControllerEIP
  <2>2. CASE EnsureLoadBalancer(s) /\ UNCHANGED fin BY <1>1, <2>2, EnsureEIP
  <2>3. CASE (GetLoadBalancer(s) \/ EnsureLoadBalancerDeleted(s)) /\ UNCHANGED fin
        BY <1>1, <2>3, LookUpEIP, DeletionEIP, DeleteEIP, ReleaseEIP
        DEF EnsureLoadBalancerDeleted
  <2> QED BY <1>2, <2>1, <2>2, <2>3 DEF SyncWorker, k8sVars
<1> QED BY <1>1, <1>2, EnvironmentEIP DEF Next

\* An EIP is protected by its ELB's finalizer, or by that of the deletion about to
\* release it.
LEMMA EIPsProtected ==
    ASSUME LifecycleInv, EIPInv
    PROVE  NoLeakedEIP
<1> SUFFICES ASSUME NEW e \in eips PROVE \E s \in Services : NameOf[s] = e.name /\ fin[s]
    BY DEF NoLeakedEIP
<1>1. CASE e.lb # 0 BY <1>1 DEF EIPInv, Bound, LifecycleInv, NoLeakedELB
<1>2. CASE e.lb = 0 BY <1>2 DEF EIPInv, ToRelease, NotesAll
<1> QED BY <1>1, <1>2

\* When the ELB names are distinct and no call fails, no EIP outlives its service,
\* also where the cloud refuses to release one that is bound: a deletion releases
\* what it noted before the finalizer goes.
THEOREM EIPsAreReleased ==
    ASSUME NamesDistinct
    PROVE  Spec => []FaultFreeEIPs
<1>1. Init => FaultFreeEIPInv
  <2> SUFFICES ASSUME Init PROVE EIPInv BY DEF FaultFreeEIPInv
  <2>1. lbs = {} /\ eips = {} BY DEF Init, CloudInit
  <2>2. ASSUME NEW s \in Services PROVE pc[<<s, "sync">>] = "idle"
        BY DEF Init, Procs, Workers
  <2> QED BY <2>1, <2>2 DEF EIPInv, NotesAll, NotedPCs
<1>2. TypeOK /\ LifecycleInv /\ FaultFreeEIPInv /\ [Next]_vars => FaultFreeEIPInv'
      BY EIPStep
<1>3. LifecycleInv /\ FaultFreeEIPInv => FaultFreeEIPs
      BY EIPsProtected DEF FaultFreeEIPInv, FaultFreeEIPs
<1> QED BY <1>1, <1>2, <1>3, TypeCorrect, LifecycleInvariant, PTL DEF Spec

-----------------------------------------------------------------------------
(* One fault.                                                              *)

\* A deletion that has met no fault has released the bound EIP of its ELB.
Released(s) ==
    LET c == pc[<<s, "sync">>]
        v == loc[<<s, "sync">>]
    IN  /\ c \in NotedPCs \ {"eipFind", "eipRelease"} => EIPsOf(v.lb) = {}
        /\ c = "eipRelease" => \A e \in EIPsOf(v.lb) : e.id = v.pool

\* An ELB has at most one EIP, the one FindEIPByPortID finds.
OneEIPPerELB == \A e1, e2 \in eips : e1.lb = e2.lb /\ e1.lb # 0 => e1 = e2

\* Before the first fault every EIP is bound, and released before its ELB is deleted.
NoneUnbound ==
    /\ \A e \in eips : e.lb # 0
    /\ \A s \in Services : Released(s)

\* The inductive invariant behind OneFaultLeaksNoEIP: what the fault leaves behind, the
\* list of the second attempt still has.
SingleFaultInv ==
    faults <= 1 => EIPInv /\ OneEIPPerELB /\ (faults = 0 => NoneUnbound)

\* A sync worker moves by a step of its own, or in a crash.
LEMMA SyncStays ==
    ASSUME TypeOK, [Next]_vars, NEW t \in Services, ~SyncWorker(t), ~Crash
    PROVE  /\ pc'[<<t, "sync">>] = pc[<<t, "sync">>]
           /\ loc'[<<t, "sync">>] = loc[<<t, "sync">>]
<1>0. WorkerTypeOK /\ <<t, "sync">> \in Procs BY ProcTypes DEF TypeOK
<1>1. CASE UNCHANGED procVars BY <1>1 DEF procVars
<1>2. ASSUME NEW p \in Procs, p # <<t, "sync">>, Moves(p)
      PROVE  /\ pc'[<<t, "sync">>] = pc[<<t, "sync">>]
             /\ loc'[<<t, "sync">>] = loc[<<t, "sync">>]
      BY <1>0, <1>2, MovesAlone DEF OnlyMoves
<1>3. UNCHANGED procVars \/ \E p \in Procs : p # <<t, "sync">> /\ Moves(p)
  <2>1. CASE UNCHANGED vars BY <2>1 DEF vars, procVars
  <2>2. CASE ChangeNodes \/ Cloud BY <2>2 DEF ChangeNodes, Cloud
  <2>3. ASSUME NEW s \in Services, ApplyService(s) \/ RemoveService(s)
        PROVE  UNCHANGED procVars
        BY <2>3 DEF ApplyService, RemoveService
  <2>4. ASSUME NEW s \in Services, NodeWorker(s)
        PROVE  UNCHANGED procVars \/ Moves(<<s, "node">>)
        BY <2>4, UpdateMovesOne
        DEF NodeWorker, SyncNodes, NodesSynced, RetryNodes, Moves
  <2>5. ASSUME NEW s \in Services, SyncWorker(s) PROVE Moves(<<s, "sync">>)
    <3>1. CASE SyncService(s) \/ PublishStatus(s) \/ RemoveFinalizer(s) \/ Requeue(s)
          BY <3>1 DEF SyncService, PublishStatus, RemoveFinalizer, Requeue, Moves
    <3>2. CASE EnsureLoadBalancer(s) BY <3>2, EnsureIsNoDeletion
    <3>3. CASE GetLoadBalancer(s) BY <3>3 DEF GetLoadBalancer, Fail, Moves
    <3>4. CASE EnsureLoadBalancerDeleted(s)
          BY <3>4 DEF EnsureLoadBalancerDeleted, DeleteGet, FindEIP, ReleaseBoundEIP,
             ListListeners, DeleteListener, ListPools, DeletePool,
             DeleteLoadBalancer, ReleaseOrphanedEIP, Fail, Moves
    <3> QED BY <2>5, <3>1, <3>2, <3>3, <3>4 DEF SyncWorker
  <2>6. ASSUME NEW s \in Services
        PROVE  /\ <<s, "node">> \in Procs /\ <<s, "node">> # <<t, "sync">>
               /\ <<s, "sync">> \in Procs /\ (s # t => <<s, "sync">> # <<t, "sync">>)
        BY <1>0, ProcTypes
  <2> QED BY <2>1, <2>2, <2>3, <2>4, <2>5, <2>6 DEF Next
<1> QED BY <1>1, <1>2, <1>3

\* Only the creation of an ELB makes an EIP, and only its deletion unbinds one.
LEMMA EIPEffect ==
    ASSUME TypeOK, [Next]_vars
    PROVE  \/ UNCHANGED lbs /\ eips' \subseteq eips
           \/ \E s \in Services : /\ pc[<<s, "sync">>] = "lbPost"
                                  /\ CloudCreateLB(NameOf[s], s \in EIPServices)
           \/ \E s \in Services : /\ pc[<<s, "sync">>] = "delLB"
                                  /\ CloudDeleteLB(loc[<<s, "sync">>].lb)
<1> DEFINE Quiet == UNCHANGED lbs /\ eips' \subseteq eips
<1>0. WorkerTypeOK BY DEF TypeOK
<1>1. CASE UNCHANGED vars BY <1>1 DEF vars, cloudVars
<1>2. CASE ChangeNodes \/ Crash \/ Cloud
      BY <1>2 DEF ChangeNodes, Crash, Cloud, ReapListener, ReapPool, cloudVars
<1>3. ASSUME NEW s \in Services, ApplyService(s) \/ RemoveService(s) PROVE Quiet
      BY <1>3 DEF ApplyService, RemoveService, cloudVars
<1>4. ASSUME NEW s \in Services, NodeWorker(s) PROVE Quiet
      BY <1>4, UpdateQuiet DEF NodeWorker, SyncNodes, NodesSynced, RetryNodes, cloudVars
<1>5. ASSUME NEW s \in Services, SyncWorker(s)
      PROVE  Quiet \/ CreateLoadBalancer(s) \/ DeleteLoadBalancer(s)
  <2>1. CASE SyncService(s) \/ PublishStatus(s) \/ RemoveFinalizer(s) \/ Requeue(s)
        BY <2>1 DEF SyncService, PublishStatus, RemoveFinalizer, Requeue, cloudVars
  <2>2. CASE EnsureLoadBalancer(s)
        BY <1>0, <2>2, ProcTypes, ensureListenersQuiet
        DEF EnsureLoadBalancer, EnsureGet, EnsureELBSecurityGroup, cloudVars
  <2>3. CASE GetLoadBalancer(s) BY <2>3 DEF GetLoadBalancer, cloudVars
  <2>4. CASE EnsureLoadBalancerDeleted(s)
        BY <2>4 DEF EnsureLoadBalancerDeleted, DeleteGet, FindEIP, ReleaseBoundEIP,
           ListListeners, DeleteListener, ListPools, DeletePool, ReleaseOrphanedEIP,
           CloudReleaseEIP, CloudDeleteListener, CloudDeletePool, cloudVars
  <2> QED BY <1>5, <2>1, <2>2, <2>3, <2>4 DEF SyncWorker
<1>6. ASSUME NEW s \in Services, CreateLoadBalancer(s)
      PROVE  Quiet \/ /\ pc[<<s, "sync">>] = "lbPost"
                      /\ CloudCreateLB(NameOf[s], s \in EIPServices)
      BY <1>6 DEF CreateLoadBalancer, cloudVars
<1>7. ASSUME NEW s \in Services, DeleteLoadBalancer(s)
      PROVE  Quiet \/ /\ pc[<<s, "sync">>] = "delLB"
                      /\ CloudDeleteLB(loc[<<s, "sync">>].lb)
      BY <1>7 DEF DeleteLoadBalancer, cloudVars
<1> QED BY <1>1, <1>2, <1>3, <1>4, <1>5, <1>6, <1>7 DEF Next

\* The EIPs of an ELB that exists become fewer only, and an ELB never gets two.
LEMMA EIPsShrink ==
    ASSUME TypeOK, LifecycleInv, EIPInv, OneEIPPerELB, [Next]_vars
    PROVE  /\ \A l \in lbs : EIPsOf(l.id)' \subseteq EIPsOf(l.id)
           /\ OneEIPPerELB'
<1>0. nextId \in Nat \ {0} /\ \A l \in lbs : l.id < nextId /\ l.id \in Nat /\ l.id # 0
      BY DEF TypeOK, CloudTypeOK, LifecycleInv, UniqueIds, EIPInv
<1>1. CASE UNCHANGED lbs /\ eips' \subseteq eips BY <1>1 DEF EIPsOf, OneEIPPerELB
<1>2. ASSUME NEW s \in Services, CloudCreateLB(NameOf[s], s \in EIPServices)
      PROVE  /\ \A l \in lbs : EIPsOf(l.id)' \subseteq EIPsOf(l.id)
             /\ OneEIPPerELB'
  <2> DEFINE eip == [id |-> nextId + 1, name |-> NameOf[s], lb |-> nextId]
  <2>1. eips' \subseteq eips \cup {eip} BY <1>2 DEF CloudCreateLB
  <2>2. eip.lb = nextId OBVIOUS
  <2>3. \A e \in eips : e.lb # 0 => \E l \in lbs : e.lb = l.id
        BY DEF EIPInv, Bound
  <2> HIDE DEF eip
  <2>4. \A e \in eips : e.lb # nextId BY <1>0, <2>3
  <2> QED BY <1>0, <2>1, <2>2, <2>4 DEF EIPsOf, OneEIPPerELB
<1>3. ASSUME NEW b, CloudDeleteLB(b)
      PROVE  /\ \A l \in lbs : EIPsOf(l.id)' \subseteq EIPsOf(l.id)
             /\ OneEIPPerELB'
  <2>1. eips' = {IF e.lb = b THEN [e EXCEPT !.lb = 0] ELSE e : e \in eips}
        BY <1>3 DEF CloudDeleteLB
  <2>2. eips \subseteq [id : Nat, name : STRING, lb : Nat] BY DEF TypeOK, CloudTypeOK
  <2>3. \A e \in eips' : e.lb # 0 => e \in eips BY <2>1, <2>2
  <2> QED BY <1>0, <2>3 DEF EIPsOf, OneEIPPerELB
<1> QED BY <1>1, <1>2, <1>3, EIPEffect

\* Where there is no EIP left to release, a deletion has released it.
LEMMA NothingToRelease ==
    ASSUME NEW s,
           \/ pc'[<<s, "sync">>] \notin NotedPCs \ {"eipFind"}
           \/ \E b : loc'[<<s, "sync">>].lb = b /\ EIPsOf(b)' = {}
    PROVE  Released(s)'
BY DEF Released, NotedPCs

\* EnsureLoadBalancer releases nothing.
LEMMA EnsureReleasesNothing ==
    ASSUME TypeOK, NEW s \in Services, EnsureLoadBalancer(s)
    PROVE  pc'[<<s, "sync">>] \notin NotedPCs
<1> DEFINE p == <<s, "sync">>
<1>0. WorkerTypeOK /\ p \in Procs BY ProcTypes DEF TypeOK
<1>1. CASE ensureListeners(p)
  <2>1. ListenersStep(p) BY <1>0, <1>1, ensureListenersMoves
  <2> QED BY <2>1 DEF ListenersStep, NotedPCs, EnsurePCs
<1>2. CASE EnsureGet(s) \/ CreateLoadBalancer(s) \/ EnsureELBSecurityGroup(s)
  <2>1. \E c \in {"failed", "lbPost", "poolGet", "sg", "ensured"} : \E v : Goto(p, c, v)
        BY <1>2 DEF EnsureGet, CreateLoadBalancer, EnsureELBSecurityGroup, Fail,
                    Configure, NextPort
  <2>2. pc'[p] \in {"failed", "lbPost", "poolGet", "sg", "ensured"}
        BY <1>0, <2>1, GotoMoves
  <2> QED BY <2>2 DEF NotedPCs
<1> QED BY <1>1, <1>2 DEF EnsureLoadBalancer

\* While no call fails, a deletion releases the bound EIP before it goes on.
LEMMA ReleasedStep ==
    ASSUME BoundEIPReleasable, TypeOK, LifecycleInv, EIPInv, OneEIPPerELB,
           NEW t \in Services, Released(t), [Next]_vars, UNCHANGED faults
    PROVE  Released(t)'
<1> DEFINE p == <<t, "sync">>
           v == loc[p]
<1>0. WorkerTypeOK /\ p \in Procs /\ v \in LocType /\ faults \in Nat
      BY ProcTypes, FaultsNat DEF TypeOK
<1> PICK b : b = v.lb OBVIOUS
<1>1. ~Crash BY <1>0 DEF Crash
<1>2. pc[p] \in NotedPCs => EIPsOf(b)' \subseteq EIPsOf(b)
      BY EIPsShrink DEF LifecycleInv, WorkerKnows, NotedPCs, HoldingPCs
<1>3. CASE ~SyncWorker(t)
  <2>1. pc'[p] = pc[p] /\ loc'[p] = v BY <1>1, <1>3, SyncStays
  <2> QED BY <1>2, <2>1 DEF Released, NotedPCs
<1>4. CASE SyncService(t) \/ PublishStatus(t) \/ RemoveFinalizer(t) \/ Requeue(t)
  <2>1. \E c \in {"idle", "ensGet", "delCheck"} : \E w : Goto(p, c, w)
        BY <1>4 DEF SyncService, PublishStatus, RemoveFinalizer, Requeue
  <2>2. pc'[p] \in {"idle", "ensGet", "delCheck"} BY <1>0, <2>1, GotoMoves
  <2> QED BY <2>2, NothingToRelease DEF NotedPCs
<1>5. CASE EnsureLoadBalancer(t) BY <1>5, EnsureReleasesNothing, NothingToRelease
<1>6. CASE GetLoadBalancer(t) \/ DeleteGet(t) \/ ReleaseOrphanedEIP(t)
  <2>1. \E c \in {"failed", "deleted", "delGet", "eipFind", "eipCleanup"} :
            \E w : Goto(p, c, w)
        BY <1>6 DEF GetLoadBalancer, DeleteGet, ReleaseOrphanedEIP, Fail
  <2>2. pc'[p] \in {"failed", "deleted", "delGet", "eipFind", "eipCleanup"}
        BY <1>0, <2>1, GotoMoves
  <2> QED BY <2>2, NothingToRelease DEF NotedPCs
<1>7. CASE FindEIP(t)
  <2>1. PICK r \in Outcomes :
          /\ Charge(r)
          /\ IF r = "ok" /\ EIPsOf(v.lb) # {}
             THEN \E e \in EIPsOf(v.lb) : Goto(p, "eipRelease", [v EXCEPT !.pool = e.id])
             ELSE Goto(p, "delListeners", v)
        BY <1>7 DEF FindEIP
  <2>2. r = "ok" BY <1>0, <2>1, NoFault
  <2>3. pc[p] \in NotedPCs BY <1>7 DEF FindEIP, NotedPCs
  <2>4. CASE EIPsOf(v.lb) = {}
    <3>1. loc'[p] = v BY <1>0, <2>1, <2>4, GotoMoves
    <3> QED BY <1>2, <2>3, <2>4, <3>1, NothingToRelease
  <2>5. CASE EIPsOf(v.lb) # {}
    <3>1. PICK e \in EIPsOf(v.lb) : Goto(p, "eipRelease", [v EXCEPT !.pool = e.id])
          BY <2>1, <2>2, <2>5
    <3>2. pc'[p] = "eipRelease" /\ loc'[p].lb = v.lb /\ loc'[p].pool = e.id
          BY <1>0, <3>1, GotoMoves DEF LocType
    <3>3. v.lb # 0
          BY <2>3 DEF LifecycleInv, WorkerKnows, NotedPCs, HoldingPCs, EIPInv
    <3>4. \A f \in EIPsOf(v.lb) : f = e BY <3>3 DEF OneEIPPerELB, EIPsOf
    <3> QED BY <1>2, <2>3, <3>2, <3>4 DEF Released, NotedPCs
  <2> QED BY <2>4, <2>5
<1>8. CASE ReleaseBoundEIP(t)
  <2>1. PICK r \in Outcomes :
          /\ Charge(r)
          /\ IF Applied(r) THEN CloudReleaseEIP(v.pool) ELSE UNCHANGED cloudVars
        BY <1>8 DEF ReleaseBoundEIP
  <2>2. CloudReleaseEIP(v.pool) BY <1>0, <2>1, NoFault DEF Applied
  <2>3. loc'[p].lb = v.lb BY <1>0, <1>8, GotoMoves DEF ReleaseBoundEIP, LocType
  <2>4. EIPsOf(b)' = {}
        BY <1>8, <2>2 DEF Released, ReleaseBoundEIP, CloudReleaseEIP, EIPsOf
  <2> QED BY <2>3, <2>4, NothingToRelease
<1>9. CASE \/ ListListeners(t) \/ DeleteListener(t) \/ ListPools(t) \/ DeletePool(t)
           \/ DeleteLoadBalancer(t)
  <2>1. pc[p] \in NotedPCs \ {"eipFind", "eipRelease"}
        BY <1>9 DEF ListListeners, DeleteListener, ListPools, DeletePool,
                    DeleteLoadBalancer, NotedPCs
  <2>2. EIPsOf(b)' = {} BY <1>2, <2>1 DEF Released
  <2>3. /\ \A x : [v EXCEPT !.doomed = x].lb = v.lb
        /\ \A x : [v EXCEPT !.tries = x].lb = v.lb
        BY <1>0 DEF LocType
  <2>4. Fail(p) \/ \E c, w : Goto(p, c, w) /\ w.lb = v.lb
    <3>1. ASSUME NEW c, NEW x, Goto(p, c, [v EXCEPT !.doomed = x])
          PROVE  \E d, w : Goto(p, d, w) /\ w.lb = v.lb
          BY <2>3, <3>1
    <3>2. ASSUME NEW c, NEW x, Goto(p, c, [v EXCEPT !.tries = x])
          PROVE  \E d, w : Goto(p, d, w) /\ w.lb = v.lb
          BY <2>3, <3>2
    <3>3. CASE ListListeners(t) BY <3>1, <3>3 DEF ListListeners
    <3>4. CASE DeleteListener(t) BY <3>1, <3>4 DEF DeleteListener
    <3>5. CASE ListPools(t) BY <3>1, <3>5 DEF ListPools
    <3>6. CASE DeletePool(t) BY <3>1, <3>6 DEF DeletePool
    <3>7. CASE DeleteLoadBalancer(t) BY <3>2, <3>7 DEF DeleteLoadBalancer
    <3> QED BY <1>9, <3>3, <3>4, <3>5, <3>6, <3>7
  <2>5. CASE Fail(p)
    <3>1. pc'[p] = "failed" BY <1>0, <2>5, GotoMoves DEF Fail
    <3> QED BY <3>1, NothingToRelease DEF NotedPCs
  <2>6. ASSUME NEW c, NEW w, Goto(p, c, w), w.lb = v.lb PROVE Released(t)'
        BY <1>0, <2>2, <2>6, GotoMoves, NothingToRelease
  <2> QED BY <2>4, <2>5, <2>6
<1> QED BY <1>3, <1>4, <1>5, <1>6, <1>7, <1>8, <1>9
        DEF SyncWorker, EnsureLoadBalancerDeleted

\* A step that leaves no EIP unbound, and moves a sync worker only where it has nothing
\* to note, keeps EIPInv.
LEMMA BoundStep ==
    ASSUME EIPInv, lbs' \subseteq lbs, eips' \subseteq eips, \A e \in eips' : e.lb # 0,
           \A e \in eips', l \in lbs : l.id = e.lb => l \in lbs',
           \A t \in Services : Stays(t) \/ NotesAll(t)'
    PROVE  EIPInv'
<1>1. ASSUME NEW e \in eips' PROVE Bound(e)' BY DEF EIPInv, Bound
<1>2. ASSUME NEW t \in Services PROVE NotesAll(t)' BY DEF EIPInv, NotesAll, Stays
<1> QED BY <1>1, <1>2 DEF EIPInv

\* The first fault strikes while every EIP is bound, or released with its ELB still
\* there: it unbinds none.
LEMMA FirstFault ==
    ASSUME TypeOK, EIPInv, NoneUnbound, faults' # faults,
           \/ Crash
           \/ \E s \in Services : /\ UNCHANGED fin
                                  /\ DeleteLoadBalancer(s) \/ ReleaseOrphanedEIP(s)
    PROVE  EIPInv'
<1>0. WorkerTypeOK BY DEF TypeOK
<1>1. CASE Crash
  <2>1. ASSUME NEW t \in Services PROVE NotesAll(t)'
    <3>1. pc'[<<t, "sync">>] = "idle" BY <1>0, <1>1, ProcTypes DEF Crash
    <3> QED BY <3>1, NothingToNote DEF NotedPCs
  <2>2. lbs' = lbs /\ eips' = eips BY <1>1 DEF Crash, cloudVars
  <2> QED BY <2>1, <2>2, BoundStep DEF NoneUnbound
<1>2. ASSUME NEW s \in Services, UNCHANGED fin, DeleteLoadBalancer(s) PROVE EIPInv'
  <2> DEFINE p == <<s, "sync">>
             v == loc[p]
  <2>0. p \in Procs BY <1>0, ProcTypes
  <2>1. Fail(p) BY <1>2 DEF DeleteLoadBalancer, Charge
  <2>2. pc'[p] = "failed" /\ OnlyMoves(p) BY <1>0, <2>0, <2>1, GotoMoves DEF Fail
  <2>3. ASSUME NEW t \in Services PROVE Stays(t) \/ NotesAll(t)'
    <3>1. CASE t = s BY <2>2, <3>1, NothingToNote DEF NotedPCs
    <3>2. CASE t # s BY <1>2, <2>2, <3>2 DEF OnlyMoves, Procs, Workers, Stays
    <3> QED BY <3>1, <3>2
  <2>4. CASE UNCHANGED cloudVars BY <2>3, <2>4, BoundStep DEF cloudVars, NoneUnbound
  <2>5. CASE CloudDeleteLB(v.lb)
    <3>1. \A e \in eips : e.lb # v.lb
          BY <1>2 DEF DeleteLoadBalancer, NoneUnbound, Released, NotedPCs, EIPsOf
    <3>2. eips' = eips /\ lbs' = {l \in lbs : l.id # v.lb}
          BY <2>5, <3>1 DEF CloudDeleteLB
    <3>3. \A e \in eips', l \in lbs : l.id = e.lb => l \in lbs' BY <3>1, <3>2
    <3> QED BY <2>3, <3>2, <3>3, BoundStep DEF NoneUnbound
  <2> QED BY <1>2, <2>4, <2>5 DEF DeleteLoadBalancer
<1>3. ASSUME NEW s \in Services, UNCHANGED fin, ReleaseOrphanedEIP(s) PROVE EIPInv'
  <2> DEFINE p == <<s, "sync">>
  <2>0. p \in Procs BY <1>0, ProcTypes
  <2>1. \E c \in {"eipCleanup", "deleted"} : \E v : Goto(p, c, v)
        BY <1>3 DEF ReleaseOrphanedEIP
  <2>2. pc'[p] \in {"eipCleanup", "deleted"} /\ OnlyMoves(p)
        BY <1>0, <2>0, <2>1, GotoMoves
  <2>3. fin'[s] BY <1>3 DEF ReleaseOrphanedEIP, EIPInv, NotesAll
  <2>4. ASSUME NEW t \in Services PROVE Stays(t) \/ NotesAll(t)'
    <3>1. CASE t = s BY <2>2, <2>3, <3>1 DEF NotesAll, NotedPCs
    <3>2. CASE t # s BY <1>3, <2>2, <3>2 DEF OnlyMoves, Procs, Workers, Stays
    <3> QED BY <3>1, <3>2
  <2>5. lbs' = lbs /\ eips' \subseteq eips
        BY <1>3 DEF ReleaseOrphanedEIP, CloudReleaseEIP, cloudVars
  <2> QED BY <2>4, <2>5, BoundStep DEF NoneUnbound
<1> QED BY <1>1, <1>2, <1>3

\* While no call fails, the deletion of an ELB unbinds no EIP.
LEMMA NoneUnboundStep ==
    ASSUME BoundEIPReleasable, TypeOK, LifecycleInv, EIPInv, OneEIPPerELB, NoneUnbound,
           [Next]_vars, UNCHANGED faults
    PROVE  NoneUnbound'
<1>1. \A t \in Services : Released(t)' BY ReleasedStep DEF NoneUnbound
<1>2. CASE eips' \subseteq eips BY <1>1, <1>2 DEF NoneUnbound
<1>3. ASSUME NEW s \in Services, CloudCreateLB(NameOf[s], s \in EIPServices)
      PROVE  NoneUnbound'
  <2> DEFINE eip == [id |-> nextId + 1, name |-> NameOf[s], lb |-> nextId]
  <2>1. eips' \subseteq eips \cup {eip} BY <1>3 DEF CloudCreateLB
  <2>2. eip.lb # 0 BY DEF TypeOK, CloudTypeOK
  <2> HIDE DEF eip
  <2> QED BY <1>1, <2>1, <2>2 DEF NoneUnbound
<1>4. ASSUME NEW s \in Services, pc[<<s, "sync">>] = "delLB",
             CloudDeleteLB(loc[<<s, "sync">>].lb)
      PROVE  NoneUnbound'
  <2>1. \A e \in eips : e.lb # loc[<<s, "sync">>].lb
        BY <1>4 DEF NoneUnbound, Released, NotedPCs, EIPsOf
  <2>2. eips' = eips BY <1>4, <2>1 DEF CloudDeleteLB
  <2> QED BY <1>1, <2>2 DEF NoneUnbound
<1> QED BY <1>2, <1>3, <1>4, EIPEffect

\* SingleFaultInv is inductive under LifecycleInv.
LEMMA SingleFaultStep ==
    ASSUME BoundEIPReleasable, NamesDistinct, TypeOK, LifecycleInv, SingleFaultInv,
           [Next]_vars
    PROVE  SingleFaultInv'
<1> SUFFICES ASSUME faults' <= 1
             PROVE  EIPInv' /\ OneEIPPerELB' /\ (faults' = 0 => NoneUnbound')
    BY DEF SingleFaultInv
<1>0. faults \in Nat BY FaultsNat
<1>1. faults' = faults \/ faults' = faults + 1 BY StepGrows DEF Grows
<1>2. EIPInv /\ OneEIPPerELB /\ (faults = 0 => NoneUnbound)
      BY <1>0, <1>1 DEF SingleFaultInv
<1>3. OneEIPPerELB' BY <1>2, EIPsShrink
<1>4. faults' = 0 => NoneUnbound' BY <1>0, <1>1, <1>2, NoneUnboundStep
<1>5. faults' # faults => NoneUnbound BY <1>0, <1>1, <1>2
<1>6. ASSUME Crash PROVE EIPInv' BY <1>0, <1>2, <1>5, <1>6, FirstFault DEF Crash
<1>7. ASSUME NEW s \in Services, SyncWorker(s) PROVE EIPInv'
  <2>1. CASE SyncService(s) \/ PublishStatus(s) \/ RemoveFinalizer(s) \/ Requeue(s)
        BY <1>2, <2>1, ControllerEIP
  <2>2. CASE EnsureLoadBalancer(s) /\ UNCHANGED fin BY <1>2, <2>2, EnsureEIP
  <2>3. CASE (DeleteLoadBalancer(s) \/ ReleaseOrphanedEIP(s)) /\ UNCHANGED fin
        BY <1>2, <1>5, <2>3, FirstFault, DeleteEIP, ReleaseEIP
  <2>4. CASE (GetLoadBalancer(s) \/ EnsureLoadBalancerDeleted(s)) /\ UNCHANGED fin
        BY <1>2, <2>3, <2>4, LookUpEIP, DeletionEIP DEF EnsureLoadBalancerDeleted
  <2> QED BY <1>7, <2>1, <2>2, <2>4 DEF SyncWorker, k8sVars
<1>8. EIPInv' BY <1>2, <1>6, <1>7, EnvironmentEIP DEF Next
<1> QED BY <1>3, <1>4, <1>8

\* When the ELB names are distinct and the cloud releases an EIP that is bound, one
\* fault, a failed call or a crash, leaks no EIP: what it keeps from being released
\* before the ELB is deleted is released after it.  Two may (run eip_leak).
THEOREM OneFaultLeaksNoEIP ==
    ASSUME NamesDistinct, BoundEIPReleasable
    PROVE  Spec => [](faults <= 1 => NoLeakedEIP)
<1>1. Init => SingleFaultInv
  <2> SUFFICES ASSUME Init PROVE EIPInv /\ OneEIPPerELB /\ NoneUnbound
      BY DEF SingleFaultInv
  <2>1. lbs = {} /\ eips = {} BY DEF Init, CloudInit
  <2>2. ASSUME NEW s \in Services PROVE pc[<<s, "sync">>] = "idle"
        BY DEF Init, Procs, Workers
  <2> QED BY <2>1, <2>2
          DEF EIPInv, NotesAll, NotedPCs, OneEIPPerELB, NoneUnbound, Released
<1>2. TypeOK /\ LifecycleInv /\ SingleFaultInv /\ [Next]_vars => SingleFaultInv'
      BY SingleFaultStep
<1>3. LifecycleInv /\ SingleFaultInv => (faults <= 1 => NoLeakedEIP)
      BY EIPsProtected DEF SingleFaultInv
<1> QED BY <1>1, <1>2, <1>3, TypeCorrect, LifecycleInvariant, PTL DEF Spec
=============================================================================
