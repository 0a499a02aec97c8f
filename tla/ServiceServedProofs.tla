-------------------------- MODULE ServiceServedProofs --------------------------
(* What a settled Service is left with (SettledIsServed): its ELB, a        *)
(* listener with a pool on every port, and the published address.  First    *)
(* what belongs to whom in the cloud, whatever the workers interleave and   *)
(* fail at (OwnInv); then, where the node worker takes no listener for an   *)
(* orphan, what EnsureLoadBalancer has done so far (ServedInv).             *)
EXTENDS ServiceEIPProofs

-----------------------------------------------------------------------------
(* What belongs to whom.                                                   *)

\* Resources have distinct identifiers, which the cloud has handed out.
HandedOut(R) ==
    /\ \A x \in R : x.id < nextId
    /\ \A x, y \in R : x.id = y.id => x = y

\* The default pool of a listener, even of a dying one, is there, on the same ELB and
\* for the same port.
ListenersHavePools ==
    \A l \in listeners : \E q \in pools :
        q.id = l.pool /\ ~q.dying /\ q.lb = l.lb /\ q.port = l.port

\* A listener is for a port that some Service once had.
ListenerPorts ==
    \A l \in listeners : \E q \in UNION PortSets :
        q.port = l.port /\ Protocol(q) = l.proto

\* No edit changes the protocol by which a port is balanced.
ProtocolsFixed ==
    \A q1, q2 \in UNION PortSets : q1.port = q2.port => Protocol(q1) = Protocol(q2)

\* An ELB has one listener for a port, those that are being deleted included.
OneListenerPerPort ==
    \A l1, l2 \in listeners : l1.lb = l2.lb /\ l1.port = l2.port => l1 = l2

\* What is true of the resources in the cloud.
CloudInv ==
    /\ HandedOut(listeners) /\ HandedOut(pools) /\ HandedOut(eips)
    /\ \A l \in lbs : l.id # 0
    /\ \A e \in eips : e.lb # 0 => Bound(e)
    /\ ListenersHavePools
    /\ ListenerPorts
    /\ ProtocolsFixed => OneListenerPerPort

\* Where ensureListeners works on a port, and where it has a pool for it.
PortPCs == {"poolPost", "memList", "memAdd", "memDel", "lisGet", "lisPost", "hm"}
PoolPCs == PortPCs \ {"poolPost"}

\* What a worker with the locals v refers to is its own: the pool is on the ELB it
\* works on and for the port it works on,
OwnPool(v) ==
    /\ v.pool < nextId
    /\ \A q \in pools : q.id = v.pool => q.lb = v.lb /\ q.port = v.cur.port

\* the listeners and the pools it deletes are those of that ELB,
OwnDoomed(R, v) ==
    \A d \in v.doomed : d.id < nextId /\ \A x \in R : x.id = d.id => x.lb = v.lb

\* the EIPs it has noted are those of the ELB's name,
OwnEIP(s, i) == i < nextId /\ \A e \in eips : e.id = i => e.name = NameOf[s]

\* and its ports are those of a spec its service had.
OwnPorts(c, v) ==
    /\ v.ports \in PortSets /\ v.todo \subseteq v.ports
    /\ c \in PortPCs => v.cur \in v.ports

\* What the worker p refers to at the request c is its own.
Owns(p, c, v) ==
    /\ c \in PoolPCs => OwnPool(v)
    /\ c = "delListener" => OwnDoomed(listeners, v)
    /\ c = "delPool" => OwnDoomed(pools, v)
    /\ c = "eipRelease" => OwnEIP(p[1], v.pool)
    /\ \A i \in v.eip : OwnEIP(p[1], i)
    /\ c \in CallPCs => OwnPorts(c, v)

\* The specs the controller passes on.
SpecsInv ==
    \A s \in Services : /\ want[s] \/ fin[s] => ports[s] \in PortSets
                        /\ cached[s] \subseteq PortSets

\* What belongs to whom, whatever fails.
OwnInv ==
    /\ CloudInv
    /\ SpecsInv
    /\ \A p \in Procs : Owns(p, pc[p], loc[p])

-----------------------------------------------------------------------------
(* The effects of the calls on the cloud.                                  *)

\* A resource of R' is new, or one of R whose owner and purpose have not changed.
Aging ==
    /\ nextId' \in Nat /\ nextId' >= nextId
    /\ \A x \in listeners' : x.id >= nextId \/ \E y \in listeners : y.id = x.id /\ y.lb = x.lb
    /\ \A x \in pools' : \/ x.id >= nextId
                         \/ \E y \in pools : y.id = x.id /\ y.lb = x.lb /\ y.port = x.port
    /\ \A x \in eips' : x.id >= nextId \/ \E y \in eips : y.id = x.id /\ y.name = x.name

\* What a worker refers to stays its own.
LEMMA OwnsAges ==
    ASSUME nextId \in Nat, Aging, NEW p, NEW c, NEW v \in LocType, Owns(p, c, v)
    PROVE  Owns(p, c, v)'
<1>0. v.pool \in Nat /\ v.eip \subseteq Nat /\ \A d \in v.doomed : d.id \in Nat
      BY DEF LocType
<1>1. ASSUME NEW i \in Nat, OwnEIP(p[1], i) PROVE OwnEIP(p[1], i)'
      BY <1>1 DEF OwnEIP, Aging
<1>2. OwnPool(v) => OwnPool(v)' BY <1>0 DEF OwnPool, Aging
<1>3. OwnDoomed(listeners, v) => OwnDoomed(listeners, v)' BY <1>0 DEF OwnDoomed, Aging
<1>4. OwnDoomed(pools, v) => OwnDoomed(pools, v)' BY <1>0 DEF OwnDoomed, Aging
<1>5. OwnPorts(c, v) => OwnPorts(c, v)' BY DEF OwnPorts
<1> QED BY <1>0, <1>1, <1>2, <1>3, <1>4, <1>5 DEF Owns

\* The types the cloud's resources have.
LEMMA CloudTypes ==
    ASSUME TypeOK
    PROVE  /\ nextId \in Nat \ {0}
           /\ \A l \in lbs : l.id \in Nat
           /\ \A l \in listeners : l.id \in Nat /\ l.lb \in Nat /\ l.pool \in Nat
           /\ \A q \in pools : q.id \in Nat /\ q.lb \in Nat
           /\ \A e \in eips : e.id \in Nat /\ e.lb \in Nat
BY DEF TypeOK, CloudTypeOK

\* Calls that touch no ELB, EIP, listener or pool.
LEMMA NothingMade ==
    ASSUME TypeOK, CloudInv, UNCHANGED <<lbs, eips, listeners, pools, nextId>>
    PROVE  CloudInv' /\ Aging
<1>1. CloudInv'
      BY DEF CloudInv, HandedOut, Bound, ListenersHavePools, ListenerPorts,
             OneListenerPerPort
<1> QED BY <1>1, CloudTypes DEF Aging

\* POST loadbalancers.
LEMMA ELBMade ==
    ASSUME TypeOK, CloudInv, NEW n, NEW w, CloudCreateLB(n, w)
    PROVE  CloudInv' /\ Aging
<1> DEFINE new == [id |-> nextId, name |-> n]
           eip == [id |-> nextId + 1, name |-> n, lb |-> nextId]
<1>0. nextId \in Nat \ {0} /\ \A e \in eips : e.id \in Nat BY CloudTypes
<1>1. /\ lbs' = lbs \cup {new} /\ eips \subseteq eips' /\ eips' \subseteq eips \cup {eip}
      /\ nextId' = nextId + 2 /\ UNCHANGED <<listeners, pools>>
      BY DEF CloudCreateLB
<1>2. HandedOut(listeners)' /\ HandedOut(pools)'
      BY <1>0, <1>1, CloudTypes DEF CloudInv, HandedOut
<1>3. HandedOut(eips)'
  <2>1. eip.id = nextId + 1 OBVIOUS
  <2> HIDE DEF eip
  <2> QED BY <1>0, <1>1, <2>1 DEF CloudInv, HandedOut
<1>4. \A l \in lbs' : l.id # 0
  <2>1. new.id # 0 BY <1>0
  <2> HIDE DEF new
  <2> QED BY <1>1, <2>1 DEF CloudInv
<1>5. ASSUME NEW e \in eips', e.lb # 0 PROVE Bound(e)'
  <2>1. CASE e = eip
    <3>1. new \in lbs' /\ new.id = e.lb /\ new.name = e.name BY <1>1, <2>1
    <3> QED BY <3>1 DEF Bound
  <2>2. CASE e \in eips BY <1>1, <1>5, <2>2 DEF CloudInv, Bound
  <2> QED BY <1>1, <2>1, <2>2
<1>6. ListenersHavePools' /\ ListenerPorts' /\ (ProtocolsFixed => OneListenerPerPort)'
      BY <1>1 DEF CloudInv, ListenersHavePools, ListenerPorts, OneListenerPerPort,
                  ProtocolsFixed
<1>7. Aging
  <2>1. eip.id >= nextId BY <1>0
  <2> HIDE DEF eip
  <2> QED BY <1>0, <1>1, <2>1 DEF Aging
<1> QED BY <1>2, <1>3, <1>4, <1>5, <1>6, <1>7 DEF CloudInv

\* DELETE loadbalancers.
LEMMA ELBDeleted ==
    ASSUME TypeOK, CloudInv, NEW b, CloudDeleteLB(b)
    PROVE  CloudInv' /\ Aging
<1>1. /\ eips' = {IF e.lb = b THEN [e EXCEPT !.lb = 0] ELSE e : e \in eips}
      /\ lbs' = {l \in lbs : l.id # b} /\ UNCHANGED <<listeners, pools, nextId>>
      BY DEF CloudDeleteLB
<1>2. \A e \in eips : e \in [id : Nat, name : STRING, lb : Nat] BY DEF TypeOK, CloudTypeOK
<1>3. \A f \in eips' : \E e \in eips :
          /\ f = IF e.lb = b THEN [e EXCEPT !.lb = 0] ELSE e
          /\ f.id = e.id /\ f.name = e.name /\ (f.lb # 0 => f = e /\ e.lb # b)
      BY <1>1, <1>2
<1>4. HandedOut(eips)' BY <1>1, <1>3 DEF CloudInv, HandedOut
<1>5. \A e \in eips' : e.lb # 0 => Bound(e)' BY <1>1, <1>3 DEF CloudInv, Bound
<1>6. /\ HandedOut(listeners)' /\ HandedOut(pools)' /\ \A l \in lbs' : l.id # 0
      /\ ListenersHavePools' /\ ListenerPorts' /\ (ProtocolsFixed => OneListenerPerPort)'
      BY <1>1 DEF CloudInv, HandedOut, ListenersHavePools, ListenerPorts,
                  OneListenerPerPort, ProtocolsFixed
<1>7. Aging BY <1>1, <1>3, CloudTypes DEF Aging
<1> QED BY <1>4, <1>5, <1>6, <1>7 DEF CloudInv

\* DELETE publicips.
LEMMA EIPReleased ==
    ASSUME TypeOK, CloudInv, NEW i, CloudReleaseEIP(i)
    PROVE  CloudInv' /\ Aging
<1>1. eips' \subseteq eips /\ UNCHANGED <<lbs, listeners, pools, nextId>>
      BY DEF CloudReleaseEIP
<1>2. CloudInv'
      BY <1>1 DEF CloudInv, HandedOut, Bound, ListenersHavePools, ListenerPorts,
                  OneListenerPerPort
<1> QED BY <1>1, <1>2, CloudTypes DEF Aging

\* POST pools.
LEMMA PoolMade ==
    ASSUME TypeOK, CloudInv, NEW b, NEW n, NEW o, CloudCreatePool(b, n, o)
    PROVE  CloudInv' /\ Aging
<1> DEFINE new == [id |-> nextId, lb |-> b, port |-> n, proto |-> o, dying |-> FALSE]
<1>0. nextId \in Nat BY CloudTypes
<1>1. /\ pools' = pools \cup {new} /\ nextId' = nextId + 1
      /\ UNCHANGED <<lbs, eips, listeners>>
      BY DEF CloudCreatePool
<1>2. new.id = nextId OBVIOUS
<1> HIDE DEF new
<1>3. HandedOut(pools)' BY <1>0, <1>1, <1>2, CloudTypes DEF CloudInv, HandedOut
<1>4. HandedOut(listeners)' /\ HandedOut(eips)'
      BY <1>0, <1>1, CloudTypes DEF CloudInv, HandedOut
<1>5. /\ \A l \in lbs' : l.id # 0
      /\ \A e \in eips' : e.lb # 0 => Bound(e)'
      /\ ListenersHavePools' /\ ListenerPorts' /\ (ProtocolsFixed => OneListenerPerPort)'
      BY <1>1 DEF CloudInv, Bound, ListenersHavePools, ListenerPorts,
                  OneListenerPerPort, ProtocolsFixed
<1>6. Aging BY <1>0, <1>1, <1>2, CloudTypes DEF Aging
<1> QED BY <1>3, <1>4, <1>5, <1>6 DEF CloudInv

\* POST listeners, for a pool of the ELB and the port, and a port of a spec.
LEMMA ListenerMade ==
    ASSUME TypeOK, CloudInv, NEW b, NEW q \in UNION PortSets, NEW d,
           CloudCreateListener(b, q.port, Protocol(q), d), PoolLive(d),
           \A x \in pools : x.id = d => x.lb = b /\ x.port = q.port,
           ~ \E l \in listeners : l.lb = b /\ l.port = q.port /\ l.proto = Protocol(q)
    PROVE  CloudInv' /\ Aging
<1> DEFINE new == [id |-> nextId, lb |-> b, port |-> q.port, proto |-> Protocol(q),
                   pool |-> d, dying |-> FALSE]
<1>0. nextId \in Nat BY CloudTypes
<1>1. /\ listeners' = listeners \cup {new} /\ nextId' = nextId + 1
      /\ UNCHANGED <<lbs, eips, pools>>
      BY DEF CloudCreateListener
<1>2. /\ new.id = nextId /\ new.lb = b /\ new.port = q.port
      /\ new.proto = Protocol(q) /\ new.pool = d OBVIOUS
<1> HIDE DEF new
<1>3. HandedOut(listeners)' BY <1>0, <1>1, <1>2, CloudTypes DEF CloudInv, HandedOut
<1>4. HandedOut(pools)' /\ HandedOut(eips)'
      BY <1>0, <1>1, CloudTypes DEF CloudInv, HandedOut
<1>5. (\A l \in lbs' : l.id # 0) /\ \A e \in eips' : e.lb # 0 => Bound(e)'
      BY <1>1 DEF CloudInv, Bound
<1>6. ListenersHavePools'
  <2>1. \E x \in pools : x.id = d /\ ~x.dying BY DEF PoolLive
  <2> QED BY <1>1, <1>2, <2>1 DEF CloudInv, ListenersHavePools
<1>7. ListenerPorts' BY <1>1, <1>2 DEF CloudInv, ListenerPorts
<1>8. ASSUME ProtocolsFixed PROVE OneListenerPerPort'
  <2>1. \A l \in listeners : ~(l.lb = b /\ l.port = q.port)
        BY <1>8 DEF CloudInv, ListenerPorts, ProtocolsFixed
  <2> QED BY <1>1, <1>2, <1>8, <2>1 DEF CloudInv, OneListenerPerPort
<1>9. Aging BY <1>0, <1>1, <1>2, CloudTypes DEF Aging
<1> QED BY <1>3, <1>4, <1>5, <1>6, <1>7, <1>8, <1>9 DEF CloudInv, ProtocolsFixed

\* DELETE listeners.
LEMMA ListenerDeleted ==
    ASSUME TypeOK, CloudInv, NEW i, CloudDeleteListener(i)
    PROVE  CloudInv' /\ Aging
<1> DEFINE Dying(l) == IF l.id = i THEN [l EXCEPT !.dying = TRUE] ELSE l
<1>1. /\ listeners' = {Dying(l) : l \in listeners}
      /\ UNCHANGED <<lbs, eips, pools, nextId>>
      BY DEF CloudDeleteListener
<1>2. \A l \in listeners : l \in [id : Nat, lb : Nat, port : Nat, proto : {"TCP", "UDP"},
                                  pool : Nat, dying : BOOLEAN]
      BY DEF TypeOK, CloudTypeOK
<1>3. \A x \in listeners' : \E l \in listeners :
          /\ x = Dying(l)
          /\ x.id = l.id /\ x.lb = l.lb /\ x.port = l.port /\ x.proto = l.proto
          /\ x.pool = l.pool
      BY <1>1, <1>2
<1> HIDE DEF Dying
<1>4. HandedOut(listeners)'
  <2>1. \A x \in listeners' : x.id < nextId' BY <1>1, <1>3 DEF CloudInv, HandedOut
  <2>2. ASSUME NEW x \in listeners', NEW y \in listeners', x.id = y.id PROVE x = y
    <3>1. PICK l1 \in listeners : x.id = l1.id /\ x = Dying(l1) BY <1>3
    <3>2. PICK l2 \in listeners : y.id = l2.id /\ y = Dying(l2) BY <1>3
    <3>3. l1 = l2 BY <2>2, <3>1, <3>2 DEF CloudInv, HandedOut
    <3> QED BY <3>1, <3>2, <3>3
  <2> QED BY <2>1, <2>2 DEF HandedOut
<1>5. /\ HandedOut(pools)' /\ HandedOut(eips)' /\ \A l \in lbs' : l.id # 0
      /\ \A e \in eips' : e.lb # 0 => Bound(e)'
      BY <1>1 DEF CloudInv, HandedOut, Bound
<1>6. ListenersHavePools' BY <1>1, <1>3 DEF CloudInv, ListenersHavePools
<1>7. ListenerPorts' BY <1>3 DEF CloudInv, ListenerPorts
<1>8. ASSUME ProtocolsFixed, NEW x \in listeners', NEW y \in listeners',
             x.lb = y.lb, x.port = y.port
      PROVE  x = y
  <2>1. PICK l1 \in listeners : x = Dying(l1) /\ x.lb = l1.lb /\ x.port = l1.port
        BY <1>3
  <2>2. PICK l2 \in listeners : y = Dying(l2) /\ y.lb = l2.lb /\ y.port = l2.port
        BY <1>3
  <2>3. l1 = l2 BY <1>8, <2>1, <2>2 DEF CloudInv, OneListenerPerPort
  <2> QED BY <2>1, <2>2, <2>3
<1>9. Aging BY <1>1, <1>3, CloudTypes DEF Aging
<1> QED BY <1>4, <1>5, <1>6, <1>7, <1>8, <1>9 DEF CloudInv, OneListenerPerPort,
                                                    ProtocolsFixed

\* DELETE of a pool with its members and its monitor.
LEMMA PoolDeleted ==
    ASSUME TypeOK, CloudInv, NEW i, NEW gone, NEW hm, NEW del,
           CloudDeletePool(i, gone, hm, del)
    PROVE  CloudInv' /\ Aging
<1> DEFINE deleted == del /\ ~PoolInUse(i)
           Dying(q) == IF deleted /\ q.id = i THEN [q EXCEPT !.dying = TRUE] ELSE q
<1>1. /\ pools' = {Dying(q) : q \in pools}
      /\ UNCHANGED <<lbs, eips, listeners, nextId>>
      BY DEF CloudDeletePool
<1>2. \A q \in pools : q \in [id : Nat, lb : Nat, port : Nat, proto : {"TCP", "UDP"},
                              dying : BOOLEAN]
      BY DEF TypeOK, CloudTypeOK
<1>3. \A x \in pools' : \E q \in pools :
          /\ x = Dying(q)
          /\ x.id = q.id /\ x.lb = q.lb /\ x.port = q.port
      BY <1>1, <1>2
<1> HIDE DEF Dying
<1>4. HandedOut(pools)'
  <2>1. \A x \in pools' : x.id < nextId' BY <1>1, <1>3 DEF CloudInv, HandedOut
  <2>2. ASSUME NEW x \in pools', NEW y \in pools', x.id = y.id PROVE x = y
    <3>1. PICK q1 \in pools : x.id = q1.id /\ x = Dying(q1) BY <1>3
    <3>2. PICK q2 \in pools : y.id = q2.id /\ y = Dying(q2) BY <1>3
    <3>3. q1 = q2 BY <2>2, <3>1, <3>2 DEF CloudInv, HandedOut
    <3> QED BY <3>1, <3>2, <3>3
  <2> QED BY <2>1, <2>2 DEF HandedOut
<1>5. /\ HandedOut(listeners)' /\ HandedOut(eips)' /\ \A l \in lbs' : l.id # 0
      /\ \A e \in eips' : e.lb # 0 => Bound(e)'
      /\ ListenerPorts' /\ (ProtocolsFixed => OneListenerPerPort)'
      BY <1>1 DEF CloudInv, HandedOut, Bound, ListenerPorts, OneListenerPerPort,
                  ProtocolsFixed
<1>6. ListenersHavePools'
  <2> SUFFICES ASSUME NEW l \in listeners
               PROVE  \E q \in pools' : /\ q.id = l.pool /\ ~q.dying
                                        /\ q.lb = l.lb /\ q.port = l.port
      BY <1>1 DEF ListenersHavePools
  <2>1. PICK q \in pools : q.id = l.pool /\ ~q.dying /\ q.lb = l.lb /\ q.port = l.port
        BY DEF CloudInv, ListenersHavePools
  <2>2. ~(deleted /\ q.id = i) BY <2>1 DEF PoolInUse
  <2>3. q \in pools' BY <1>1, <2>2 DEF Dying
  <2> QED BY <2>1, <2>3
<1>7. Aging BY <1>1, <1>3, CloudTypes DEF Aging
<1> QED BY <1>4, <1>5, <1>6, <1>7 DEF CloudInv

\* The cloud finishes a deletion.
LEMMA Reaped ==
    ASSUME TypeOK, CloudInv, ReapListener \/ ReapPool
    PROVE  CloudInv' /\ Aging
<1>1. CASE ReapListener
  <2>1. listeners' \subseteq listeners /\ UNCHANGED <<lbs, eips, pools, nextId>>
        BY <1>1 DEF ReapListener
  <2>2. CloudInv'
        BY <2>1 DEF CloudInv, HandedOut, Bound, ListenersHavePools, ListenerPorts,
                    OneListenerPerPort
  <2> QED BY <2>1, <2>2, CloudTypes DEF Aging
<1>2. CASE ReapPool
  <2>1. PICK x \in pools : x.dying /\ pools' = pools \ {x} BY <1>2 DEF ReapPool
  <2>2. UNCHANGED <<lbs, eips, listeners, nextId>> BY <1>2 DEF ReapPool
  <2>3. \A q \in pools : ~q.dying => q \in pools' BY <2>1
  <2>4. ListenersHavePools' BY <2>1, <2>2, <2>3 DEF CloudInv, ListenersHavePools
  <2>5. HandedOut(pools)' BY <2>1, <2>2 DEF CloudInv, HandedOut
  <2>6. CloudInv'
        BY <2>2, <2>4, <2>5 DEF CloudInv, HandedOut, Bound, ListenerPorts,
                                OneListenerPerPort
  <2> QED BY <2>1, <2>2, <2>6, CloudTypes DEF Aging
<1> QED BY <1>1, <1>2

-----------------------------------------------------------------------------
(* A worker's move.                                                        *)

\* What the requests of a worker have in common: the specs stay, and the cloud's
\* resources keep their owners.
Setting ==
    /\ TypeOK /\ TypeOK' /\ OwnInv
    /\ CloudInv' /\ Aging
    /\ UNCHANGED <<want, ports, cached, fin>>

\* What the other workers refer to stays their own.
LEMMA OthersOwn ==
    ASSUME Setting, NEW q \in Procs, pc'[q] = pc[q], loc'[q] = loc[q]
    PROVE  Owns(q, pc[q], loc[q])'
<1>1. PICK c : c = pc[q] OBVIOUS
<1>2. PICK v : v = loc[q] OBVIOUS
<1>3. v \in LocType BY <1>2 DEF Setting, TypeOK, WorkerTypeOK
<1>4. Owns(q, c, v) BY <1>1, <1>2 DEF Setting, OwnInv
<1>5. Owns(q, c, v)' BY <1>3, <1>4, OwnsAges, CloudTypes DEF Setting
<1>6. c = pc'[q] /\ v = loc'[q] BY <1>1, <1>2
<1> QED BY <1>5, <1>6 DEF Owns, OwnPool, OwnDoomed, OwnEIP, OwnPorts

\* A worker moves to where it owns what it refers to once the request is answered,
LEMMA MoveOwns ==
    ASSUME Setting, NEW p \in Procs, NEW c, NEW v, Goto(p, c, v), Owns(p, c, v)'
    PROVE  OwnInv'
<1>1. pc'[p] = c /\ loc'[p] = v /\ OnlyMoves(p)
      BY GotoMoves DEF Setting, TypeOK
<1>2. SpecsInv' BY DEF Setting, OwnInv, SpecsInv
<1>3. Owns(p, pc[p], loc[p])'
      BY <1>1 DEF Owns, OwnPool, OwnDoomed, OwnEIP, OwnPorts
<1>4. ASSUME NEW q \in Procs, q # p PROVE Owns(q, pc[q], loc[q])'
      BY <1>1, <1>4, OthersOwn DEF OnlyMoves
<1> QED BY <1>2, <1>3, <1>4 DEF Setting, OwnInv

\* or where it owned it before.
LEMMA MoveOwned ==
    ASSUME Setting, NEW p \in Procs, NEW c, NEW v, Goto(p, c, v), Owns(p, c, v)
    PROVE  OwnInv'
<1>1. loc'[p] = v BY GotoMoves DEF Setting, TypeOK
<1>2. v \in LocType BY <1>1 DEF Setting, TypeOK, WorkerTypeOK
<1>3. Owns(p, c, v)' BY <1>2, OwnsAges, CloudTypes DEF Setting
<1> QED BY <1>3, MoveOwns

\* Whoever runs no method refers to nothing.
LEMMA NothingOwned ==
    ASSUME NEW p, NEW c,
           c \notin CallPCs \cup {"delListener", "delPool", "eipRelease"}
    PROVE  Owns(p, c, NoLoc)
<1>1. PoolPCs \subseteq CallPCs BY DEF PoolPCs, PortPCs, CallPCs, EnsurePCs
<1> QED BY <1>1 DEF Owns, NoLoc

\* A request that fails leaves the worker with nothing.
LEMMA FailOwned ==
    ASSUME Setting, NEW p \in Procs, Fail(p)
    PROVE  OwnInv'
<1>1. "failed" \notin CallPCs \cup {"delListener", "delPool", "eipRelease"}
      BY DEF CallPCs, EnsurePCs
<1> QED BY <1>1, NothingOwned, MoveOwned DEF Fail

\* What a worker knows of what it refers to.
LEMMA WorkerOwns ==
    ASSUME TypeOK, OwnInv, NEW p \in Procs
    PROVE  loc[p] \in LocType /\ Owns(p, pc[p], loc[p]) /\ CloudInv
BY DEF TypeOK, WorkerTypeOK, OwnInv

\* Calls that change no ELB, EIP, listener or pool, and no spec.
LEMMA QuietSetting ==
    ASSUME TypeOK, TypeOK', OwnInv, UNCHANGED <<want, ports, cached, fin>>,
           UNCHANGED <<lbs, eips, listeners, pools, nextId>>
    PROVE  Setting
BY NothingMade DEF Setting, OwnInv

-----------------------------------------------------------------------------
(* The requests of ensureListeners.                                        *)

\* Where ensureListeners goes between two ports, or after the last one.
LEMMA BetweenPorts ==
    ASSUME NEW p \in Procs, NEW v
    PROVE  NextPort(p[2], v.todo) \notin PortPCs \cup {"delListener", "delPool", "eipRelease"}
BY DEF NextPort, PortPCs

\* The pool of the port is the one found by its name,
LEMMA PoolGetOwns ==
    ASSUME TypeOK, TypeOK', OwnInv, UNCHANGED <<want, ports, cached, fin>>,
           NEW p \in Procs, PoolGet(p)
    PROVE  OwnInv'
<1>1. Setting BY QuietSetting DEF PoolGet, cloudVars
<1>2. pc[p] = "poolGet" BY DEF PoolGet
<1>3. PICK w : w = loc[p] OBVIOUS
<1>4. w \in LocType /\ Owns(p, "poolGet", w) /\ CloudInv BY <1>2, <1>3, WorkerOwns
<1>5. PICK port \in w.todo : \E r \in Outcomes :
        LET found == PoolsNamed(w.lb, port.port)
            v == [w EXCEPT !.cur = port, !.todo = @ \ {port}]
        IN  IF r = "ok" /\ found # {}
            THEN \E q \in found : Goto(p, "memList", [v EXCEPT !.pool = q.id])
            ELSE Goto(p, "poolPost", v)
      BY <1>3 DEF PoolGet
<1> DEFINE v == [w EXCEPT !.cur = port, !.todo = @ \ {port}]
<1>6. OwnPorts("poolGet", w) BY <1>4 DEF Owns, CallPCs, EnsurePCs
<1>7. /\ v.ports = w.ports /\ v.todo \subseteq w.todo /\ v.cur = port
      /\ v.eip = w.eip /\ v.lb = w.lb
      BY <1>4 DEF LocType
<1>8. ASSUME NEW q \in PoolsNamed(w.lb, port.port),
             Goto(p, "memList", [v EXCEPT !.pool = q.id])
      PROVE  OwnInv'
  <2> DEFINE u == [v EXCEPT !.pool = q.id]
  <2>1. /\ u.ports = w.ports /\ u.todo \subseteq w.todo /\ u.cur = port
        /\ u.eip = w.eip /\ u.lb = w.lb /\ u.pool = q.id
        BY <1>4 DEF LocType
  <2> HIDE DEF u
  <2>2. q \in pools /\ q.lb = w.lb /\ q.port = port.port
        BY <1>8 DEF PoolsNamed, LivePools
  <2>3. OwnPool(u) BY <1>4, <2>1, <2>2 DEF OwnPool, CloudInv, HandedOut
  <2>4. OwnPorts("memList", u) BY <1>6, <2>1 DEF OwnPorts
  <2>5. Owns(p, "memList", u) BY <1>4, <2>1, <2>3, <2>4 DEF Owns
  <2> QED BY <1>1, <1>8, <2>5, MoveOwned DEF u
<1>9. ASSUME Goto(p, "poolPost", v) PROVE OwnInv'
  <2> HIDE DEF v
  <2>1. OwnPorts("poolPost", v) BY <1>6, <1>7 DEF OwnPorts
  <2>2. Owns(p, "poolPost", v) BY <1>4, <1>7, <2>1 DEF Owns, PoolPCs
  <2> QED BY <1>1, <1>9, <2>2, MoveOwned
<1> QED BY <1>5, <1>8, <1>9

\* or a new one.
LEMMA PoolPostOwns ==
    ASSUME TypeOK, TypeOK', OwnInv, UNCHANGED <<want, ports, cached, fin>>,
           NEW p \in Procs, PoolPost(p)
    PROVE  OwnInv'
<1>2. pc[p] = "poolPost" BY DEF PoolPost
<1>3. PICK w : w = loc[p] OBVIOUS
<1>4. w \in LocType /\ Owns(p, "poolPost", w) /\ CloudInv BY <1>2, <1>3, WorkerOwns
<1>5. PICK i : i = nextId OBVIOUS
<1>6. PICK r \in Outcomes :
        LET created == Applied(r) /\ LBExists(w.lb)
        IN  /\ IF created THEN CloudCreatePool(w.lb, w.cur.port, Protocol(w.cur))
                          ELSE UNCHANGED cloudVars
            /\ IF created /\ r = "ok" THEN Goto(p, "memList", [w EXCEPT !.pool = i])
                                      ELSE Fail(p)
      BY <1>3, <1>5 DEF PoolPost
<1>7. CloudInv' /\ Aging BY <1>4, <1>6, PoolMade, NothingMade DEF cloudVars
<1>8. Setting BY <1>7 DEF Setting
<1>9. CASE Fail(p) BY <1>8, <1>9, FailOwned
<1>10. ASSUME CloudCreatePool(w.lb, w.cur.port, Protocol(w.cur)),
              Goto(p, "memList", [w EXCEPT !.pool = i])
       PROVE  OwnInv'
  <2> DEFINE u == [w EXCEPT !.pool = i]
             new == [id |-> i, lb |-> w.lb, port |-> w.cur.port,
                     proto |-> Protocol(w.cur), dying |-> FALSE]
  <2>1. /\ u.ports = w.ports /\ u.todo = w.todo /\ u.cur = w.cur
        /\ u.eip = w.eip /\ u.lb = w.lb /\ u.pool = i
        BY <1>4 DEF LocType
  <2>2. new.id = i /\ new.lb = w.lb /\ new.port = w.cur.port OBVIOUS
  <2>3. /\ pools' = pools \cup {new} /\ nextId' = i + 1 /\ i \in Nat
        /\ UNCHANGED eips
        BY <1>5, <1>10, CloudTypes DEF CloudCreatePool
  <2> HIDE DEF u, new
  <2>4. \A q \in pools : q.id # i BY <1>4, <1>5, <2>3, CloudTypes DEF CloudInv, HandedOut
  <2>5. OwnPool(u)' BY <2>1, <2>2, <2>3, <2>4 DEF OwnPool
  <2>6. OwnPorts("memList", u)
        BY <1>4, <2>1 DEF Owns, OwnPorts, CallPCs, EnsurePCs, PortPCs
  <2>7. \A e \in u.eip : OwnEIP(p[1], e)'
        BY <1>4, <1>5, <2>1, <2>3 DEF Owns, OwnEIP, LocType
  <2>8. Owns(p, "memList", u)' BY <2>5, <2>6, <2>7 DEF Owns, OwnPorts
  <2> QED BY <1>8, <1>10, <2>8, MoveOwns DEF u
<1> QED BY <1>6, <1>9, <1>10

\* EnsureMembers stays with the pool,
LEMMA MembersOwn ==
    ASSUME TypeOK, TypeOK', OwnInv, UNCHANGED <<want, ports, cached, fin>>,
           NEW p \in Procs, MemList(p) \/ MemAdd(p) \/ MemDel(p) \/ LisGet(p)
    PROVE  OwnInv'
<1>1. Setting
      BY QuietSetting DEF MemList, MemAdd, MemDel, LisGet, CloudSetMembers, cloudVars
<1>2. pc[p] \in PoolPCs BY DEF MemList, MemAdd, MemDel, LisGet, PoolPCs, PortPCs
<1>3. PICK w : w = loc[p] OBVIOUS
<1>4. w \in LocType /\ Owns(p, pc[p], w) BY <1>3, WorkerOwns
<1> DEFINE Same(u) == /\ u.ports = w.ports /\ u.todo = w.todo /\ u.cur = w.cur
                      /\ u.eip = w.eip /\ u.lb = w.lb /\ u.pool = w.pool
<1>5. Fail(p) \/ \E c \in PoolPCs : \E u : Goto(p, c, u) /\ Same(u)
  <2>1. \A a, d : NextMember(a, d) \in PoolPCs BY DEF NextMember, PoolPCs, PortPCs
  <2>2. {"hm", "lisPost"} \subseteq PoolPCs BY DEF PoolPCs, PortPCs
  <2>3. /\ \A a, d : Same([w EXCEPT !.adds = a, !.dels = d])
        /\ \A a : Same([w EXCEPT !.adds = a])
        /\ \A d : Same([w EXCEPT !.dels = d])
        BY <1>4 DEF LocType
  <2> HIDE DEF Same
  <2>4. CASE MemList(p) BY <1>3, <2>1, <2>3, <2>4 DEF MemList
  <2>5. CASE MemAdd(p) BY <1>3, <2>1, <2>3, <2>5 DEF MemAdd
  <2>6. CASE MemDel(p) BY <1>3, <2>1, <2>3, <2>6 DEF MemDel
  <2>7. CASE LisGet(p)
    <3>1. PICK c \in {"hm", "lisPost"} : Goto(p, c, w) BY <1>3, <2>7 DEF LisGet
    <3>2. Same(w) BY DEF Same
    <3> QED BY <2>2, <3>1, <3>2
  <2> QED BY <2>4, <2>5, <2>6, <2>7
<1>6. CASE Fail(p) BY <1>1, <1>6, FailOwned
<1>7. ASSUME NEW c \in PoolPCs, NEW u, Goto(p, c, u), Same(u)
      PROVE  OwnInv'
  <2>1. Owns(p, c, u)
        BY <1>2, <1>4, <1>7
        DEF Owns, OwnPool, OwnPorts, PoolPCs, PortPCs, CallPCs, EnsurePCs
  <2> QED BY <1>1, <1>7, <2>1, MoveOwned
<1> QED BY <1>5, <1>6, <1>7

\* which the listener gets as its default pool.
LEMMA LisPostOwns ==
    ASSUME TypeOK, TypeOK', OwnInv, UNCHANGED <<want, ports, cached, fin>>,
           NEW p \in Procs, LisPost(p)
    PROVE  OwnInv'
<1>2. pc[p] = "lisPost" BY DEF LisPost
<1>3. PICK w : w = loc[p] OBVIOUS
<1>4. w \in LocType /\ Owns(p, "lisPost", w) /\ CloudInv BY <1>2, <1>3, WorkerOwns
<1>5. OwnPool(w) /\ w.cur \in UNION PortSets
      BY <1>4 DEF Owns, OwnPorts, PoolPCs, PortPCs, CallPCs, EnsurePCs
<1>6. PICK r \in Outcomes :
        LET taken == \E l \in listeners : /\ l.lb = w.lb /\ l.port = w.cur.port
                                          /\ l.proto = Protocol(w.cur)
            created == Applied(r) /\ ~taken /\ LBExists(w.lb) /\ PoolLive(w.pool)
        IN  /\ IF created
               THEN CloudCreateListener(w.lb, w.cur.port, Protocol(w.cur), w.pool)
               ELSE UNCHANGED cloudVars
            /\ IF created /\ r = "ok" THEN Goto(p, "hm", w) ELSE Fail(p)
      BY <1>3 DEF LisPost
<1>7. CloudInv' /\ Aging
  <2>1. CASE UNCHANGED cloudVars BY <1>4, <2>1, NothingMade DEF cloudVars
  <2>2. CASE /\ CloudCreateListener(w.lb, w.cur.port, Protocol(w.cur), w.pool)
             /\ PoolLive(w.pool)
             /\ ~ \E l \in listeners : /\ l.lb = w.lb /\ l.port = w.cur.port
                                       /\ l.proto = Protocol(w.cur)
        BY <1>4, <1>5, <2>2, ListenerMade DEF OwnPool
  <2> QED BY <1>6, <2>1, <2>2
<1>8. Setting BY <1>7 DEF Setting
<1>9. CASE Fail(p) BY <1>8, <1>9, FailOwned
<1>10. CASE Goto(p, "hm", w)
  <2>1. Owns(p, "hm", w)
        BY <1>4, <1>5 DEF Owns, OwnPorts, PoolPCs, PortPCs, CallPCs, EnsurePCs
  <2> QED BY <1>8, <1>10, <2>1, MoveOwned
<1> QED BY <1>6, <1>9, <1>10

\* After the monitor the next port begins.
LEMMA EnsureHealthMonitorOwns ==
    ASSUME TypeOK, TypeOK', OwnInv, UNCHANGED <<want, ports, cached, fin>>,
           NEW p \in Procs, EnsureHealthMonitor(p)
    PROVE  OwnInv'
<1>1. Setting BY QuietSetting DEF EnsureHealthMonitor
<1>2. pc[p] = "hm" BY DEF EnsureHealthMonitor
<1>3. PICK w : w = loc[p] OBVIOUS
<1>4. w \in LocType /\ Owns(p, "hm", w) BY <1>2, <1>3, WorkerOwns
<1> DEFINE u == [w EXCEPT !.cur = NoPort, !.pool = 0]
           c == NextPort(p[2], w.todo)
<1>5. Goto(p, c, u) BY <1>3 DEF EnsureHealthMonitor
<1>6. u.ports = w.ports /\ u.todo = w.todo /\ u.eip = w.eip BY <1>4 DEF LocType
<1>7. c \notin PortPCs \cup {"delListener", "delPool", "eipRelease"} BY BetweenPorts
<1> HIDE DEF u, c
<1>8. Owns(p, c, u)
      BY <1>4, <1>6, <1>7 DEF Owns, OwnPorts, PoolPCs, PortPCs, CallPCs, EnsurePCs
<1> QED BY <1>1, <1>5, <1>8, MoveOwned

\* The requests of ensureListeners.
LEMMA ensureListenersOwns ==
    ASSUME TypeOK, TypeOK', OwnInv, UNCHANGED <<want, ports, cached, fin>>,
           NEW p \in Procs, ensureListeners(p)
    PROVE  OwnInv'
BY PoolGetOwns, PoolPostOwns, MembersOwn, LisPostOwns, EnsureHealthMonitorOwns
   DEF ensureListeners

-----------------------------------------------------------------------------
(* The requests around ensureListeners, and those of a deletion.           *)

\* A worker that moves on without a pool to look after keeps what it owns.
LEMMA PassOwned ==
    ASSUME Setting, NEW p \in Procs, NEW c, NEW v, Goto(p, c, v),
           c \notin PortPCs \cup {"delListener", "delPool", "eipRelease"},
           v.eip \subseteq loc[p].eip,
           c \in CallPCs => /\ pc[p] \in CallPCs /\ v.ports = loc[p].ports
                            /\ v.todo \subseteq loc[p].todo
    PROVE  OwnInv'
<1>1. Owns(p, pc[p], loc[p]) BY WorkerOwns DEF Setting
<1>2. Owns(p, c, v) BY <1>1 DEF Owns, OwnPorts, PoolPCs
<1> QED BY <1>2, MoveOwned

\* The EIPs of a service's ELB are of its name.
LEMMA EIPsAreOwn ==
    ASSUME TypeOK, LifecycleInv, OwnInv, NEW s \in Services, NEW l \in lbs,
           l.name = NameOf[s], NEW e \in EIPsOf(l.id)
    PROVE  OwnEIP(s, e.id)
<1>1. e \in eips /\ e.lb = l.id BY DEF EIPsOf
<1>2. Bound(e) BY <1>1 DEF OwnInv, CloudInv
<1>3. e.name = NameOf[s] BY <1>1, <1>2 DEF Bound, LifecycleInv, UniqueIds
<1> QED BY <1>1, <1>3 DEF OwnInv, CloudInv, HandedOut, OwnEIP

\* ensureListeners begins, with the EIPs of the ELB noted.
LEMMA ConfigureOwns ==
    ASSUME Setting, NEW s \in Services, pc[<<s, "sync">>] \in {"ensGet", "lbPost"},
           NEW b, NEW es, Configure(<<s, "sync">>, b, es),
           \A e \in es : OwnEIP(s, e.id)'
    PROVE  OwnInv'
<1> DEFINE p == <<s, "sync">>
<1>1. PICK w : w = loc[p] OBVIOUS
<1>2. p \in Procs /\ p[1] = s BY DEF Procs, Workers
<1>3. w \in LocType /\ Owns(p, pc[p], w) BY <1>1, <1>2, WorkerOwns DEF Setting
<1> DEFINE ids == {e.id : e \in es}
           u == [w EXCEPT !.lb = b, !.eip = ids]
           c == NextPort(p[2], w.todo)
<1>4. Goto(p, c, u) BY <1>1 DEF Configure
<1>0. \A i \in ids : OwnEIP(s, i)' OBVIOUS
<1> HIDE DEF ids
<1>5. u.ports = w.ports /\ u.todo = w.todo /\ u.eip = ids BY <1>3 DEF LocType
<1>6. c \notin PortPCs \cup {"delListener", "delPool", "eipRelease"} 
      BY DEF NextPort, PortPCs
<1> HIDE DEF u, c, p
<1>7. OwnPorts(c, u)
      BY <1>3, <1>5, <1>6 DEF Owns, OwnPorts, CallPCs, EnsurePCs, p
<1>8. Owns(p, c, u)' BY <1>0, <1>2, <1>5, <1>6, <1>7 DEF Owns, PoolPCs, OwnPorts
<1> QED BY <1>2, <1>4, <1>8, MoveOwns

\* GET loadbalancers by EnsureLoadBalancer.
LEMMA EnsureGetOwns ==
    ASSUME TypeOK, TypeOK', LifecycleInv, OwnInv, UNCHANGED <<want, ports, cached, fin>>,
           NEW s \in Services, EnsureGet(s)
    PROVE  OwnInv'
<1> DEFINE p == <<s, "sync">>
<1>1. p \in Procs BY DEF Procs, Workers
<1>2. Setting /\ UNCHANGED <<eips, nextId>> BY QuietSetting DEF EnsureGet, cloudVars
<1>3. CASE Fail(p) BY <1>1, <1>2, <1>3, FailOwned
<1>4. CASE Goto(p, "lbPost", loc[p])
  <2>1. pc[p] \in CallPCs /\ "lbPost" \notin PortPCs
        BY DEF EnsureGet, CallPCs, EnsurePCs, PortPCs
  <2> QED BY <1>1, <1>2, <1>4, <2>1, PassOwned
<1>5. ASSUME NEW l \in LBsNamed(NameOf[s]), Configure(p, l.id, EIPsOf(l.id))
      PROVE  OwnInv'
  <2>1. PICK es : es = EIPsOf(l.id) OBVIOUS
  <2>2. \A e \in es : OwnEIP(s, e.id) BY <2>1, EIPsAreOwn DEF LBsNamed
  <2>3. \A e \in es : OwnEIP(s, e.id)' BY <1>2, <2>2 DEF OwnEIP
  <2>4. Configure(p, l.id, es) BY <1>5, <2>1
  <2> QED BY <1>2, <2>3, <2>4, ConfigureOwns DEF EnsureGet
<1> QED BY <1>3, <1>4, <1>5 DEF EnsureGet

\* POST loadbalancers: the new EIP is of the service's name.
LEMMA CreateLoadBalancerOwns ==
    ASSUME TypeOK, TypeOK', LifecycleInv, OwnInv, UNCHANGED <<want, ports, cached, fin>>,
           NEW s \in Services, CreateLoadBalancer(s)
    PROVE  OwnInv'
<1> DEFINE p == <<s, "sync">>
<1>1. p \in Procs BY DEF Procs, Workers
<1>2. PICK i : i = nextId OBVIOUS
<1>3. PICK es : es = {e \in eips' : e.lb = i} OBVIOUS
<1>4. \/ Fail(p) /\ (UNCHANGED cloudVars \/ CloudCreateLB(NameOf[s], s \in EIPServices))
      \/ Configure(p, i, es) /\ CloudCreateLB(NameOf[s], s \in EIPServices)
      BY <1>2, <1>3 DEF CreateLoadBalancer, Applied
<1>5. Setting
  <2>1. CASE UNCHANGED cloudVars BY <2>1, NothingMade DEF cloudVars, Setting, OwnInv
  <2>2. CASE CloudCreateLB(NameOf[s], s \in EIPServices)
        BY <2>2, ELBMade DEF Setting, OwnInv
  <2> QED BY <1>4, <2>1, <2>2
<1>6. CASE Fail(p) BY <1>1, <1>5, <1>6, FailOwned
<1>7. CASE Configure(p, i, es) /\ CloudCreateLB(NameOf[s], s \in EIPServices)
  <2> DEFINE new == [id |-> i + 1, name |-> NameOf[s], lb |-> i]
  <2>1. new.id = i + 1 /\ new.name = NameOf[s] OBVIOUS
  <2>2. eips' \subseteq eips \cup {new} /\ nextId' = i + 2 /\ i \in Nat
        BY <1>2, <1>7, CloudTypes DEF CloudCreateLB
  <2> HIDE DEF new
  <2>3. \A e \in eips : e.id < i /\ e.lb # i /\ e.id \in Nat
        BY <1>2, <2>2, CloudTypes
        DEF OwnInv, CloudInv, HandedOut, Bound, LifecycleInv, UniqueIds
  <2>4. ASSUME NEW e \in es PROVE OwnEIP(s, e.id)'
    <3>1. e = new BY <1>3, <2>2, <2>3
    <3> QED BY <2>1, <2>2, <2>3, <3>1 DEF OwnEIP
  <2> QED BY <1>5, <1>7, <2>4, ConfigureOwns DEF CreateLoadBalancer
<1> QED BY <1>4, <1>6, <1>7

\* The security group is the last thing ensured.
LEMMA EnsureELBSecurityGroupOwns ==
    ASSUME TypeOK, TypeOK', OwnInv, UNCHANGED <<want, ports, cached, fin>>,
           NEW s \in Services, EnsureELBSecurityGroup(s)
    PROVE  OwnInv'
<1>1. <<s, "sync">> \in Procs BY DEF Procs, Workers
<1>2. Setting BY QuietSetting DEF EnsureELBSecurityGroup
<1>3. pc[<<s, "sync">>] \in CallPCs /\ "ensured" \notin PortPCs
      BY DEF EnsureELBSecurityGroup, CallPCs, EnsurePCs, PortPCs
<1> QED BY <1>1, <1>2, <1>3, PassOwned DEF EnsureELBSecurityGroup

\* The requests of UpdateLoadBalancer.
LEMMA UpdateOwns ==
    ASSUME TypeOK, TypeOK', OwnInv, UNCHANGED <<want, ports, cached, fin>>,
           NEW s \in Services, UpdateLoadBalancer(s)
    PROVE  OwnInv'
<1> DEFINE p == <<s, "node">>
<1>1. p \in Procs BY DEF Procs, Workers
<1>2. PICK w : w = loc[p] OBVIOUS
<1>3. w \in LocType BY <1>1, <1>2, WorkerOwns
<1>4. \A d, u : /\ NextOrphan(d, u) \notin PortPCs
                /\ NextOrphan(d, u) \notin {"delListener", "delPool", "eipRelease"}
      BY DEF NextOrphan, NextPort, PortPCs
<1>5. CASE UpdateGet(s)
  <2>1. Setting BY <1>5, QuietSetting DEF UpdateGet, cloudVars
  <2>2. pc[p] \in CallPCs /\ "lisList" \notin PortPCs
        BY <1>5 DEF UpdateGet, CallPCs, PortPCs
  <2>3. CASE Fail(p) BY <1>1, <2>1, <2>3, FailOwned
  <2>4. ASSUME NEW b, Goto(p, "lisList", [w EXCEPT !.lb = b]) PROVE OwnInv'
    <3> DEFINE u == [w EXCEPT !.lb = b]
    <3>1. u.eip = w.eip /\ u.ports = w.ports /\ u.todo = w.todo BY <1>3 DEF LocType
    <3> HIDE DEF u
    <3>2. Goto(p, "lisList", u) BY <2>4 DEF u
    <3> QED BY <1>1, <1>2, <2>1, <2>2, <3>1, <3>2, PassOwned
  <2> QED BY <1>2, <1>5, <2>3, <2>4 DEF UpdateGet
<1>6. CASE SyncList(s)
  <2>1. Setting BY <1>6, QuietSetting DEF SyncList, cloudVars
  <2>2. pc[p] \in CallPCs BY <1>6 DEF SyncList, CallPCs
  <2>3. PICK d : Goto(p, NextOrphan(d, w), [w EXCEPT !.doomed = d])
        BY <1>2, <1>6 DEF SyncList
  <2> DEFINE u == [w EXCEPT !.doomed = d]
  <2>4. u.eip = w.eip /\ u.ports = w.ports /\ u.todo = w.todo BY <1>3 DEF LocType
  <2> HIDE DEF u
  <2>5. Goto(p, NextOrphan(d, w), u) BY <2>3 DEF u
  <2> QED BY <1>1, <1>2, <1>4, <2>1, <2>2, <2>4, <2>5, PassOwned
<1>7. CASE OrphanListener(s)
  <2>1. UNCHANGED cloudVars \/ \E d : CloudDeleteListener(d.id)
        BY <1>7 DEF OrphanListener
  <2>2. Setting
        BY <2>1, NothingMade, ListenerDeleted DEF Setting, OwnInv, cloudVars
  <2>3. pc[p] \in CallPCs /\ "orphanPool" \notin PortPCs
        BY <1>7 DEF OrphanListener, CallPCs, PortPCs
  <2>4. PICK d : Goto(p, "orphanPool", [w EXCEPT !.doomed = w.doomed \ {d}, !.pool = d.pool])
        BY <1>2, <1>3, <1>7 DEF OrphanListener, LocType
  <2> DEFINE u == [w EXCEPT !.doomed = w.doomed \ {d}, !.pool = d.pool]
  <2>5. u.eip = w.eip /\ u.ports = w.ports /\ u.todo = w.todo BY <1>3 DEF LocType
  <2> HIDE DEF u
  <2>6. Goto(p, "orphanPool", u) BY <2>4 DEF u
  <2> QED BY <1>1, <1>2, <2>2, <2>3, <2>5, <2>6, PassOwned
<1>8. CASE OrphanPool(s)
  <2>1. \E gone, del : CloudDeletePool(w.pool, gone, FALSE, del)
        BY <1>2, <1>8 DEF OrphanPool
  <2>2. Setting BY <2>1, PoolDeleted DEF Setting, OwnInv
  <2>3. pc[p] \in CallPCs BY <1>8 DEF OrphanPool, CallPCs
  <2> DEFINE u == [w EXCEPT !.pool = 0]
  <2>4. Goto(p, NextOrphan(w.doomed, w), u) BY <1>2, <1>8 DEF OrphanPool
  <2>5. u.eip = w.eip /\ u.ports = w.ports /\ u.todo = w.todo BY <1>3 DEF LocType
  <2> HIDE DEF u
  <2> QED BY <1>1, <1>2, <1>4, <2>2, <2>3, <2>4, <2>5, PassOwned
<1>9. CASE ensureListeners(p) BY <1>1, <1>9, ensureListenersOwns
<1> QED BY <1>5, <1>6, <1>7, <1>8, <1>9 DEF UpdateLoadBalancer

\* The lookups that begin a deletion, and the list of the ELB's EIPs.
LEMMA DeleteGetOwns ==
    ASSUME TypeOK, TypeOK', LifecycleInv, OwnInv, UNCHANGED <<want, ports, cached, fin>>,
           NEW s \in Services, GetLoadBalancer(s) \/ DeleteGet(s)
    PROVE  OwnInv'
<1> DEFINE p == <<s, "sync">>
<1>1. p \in Procs /\ p[1] = s BY DEF Procs, Workers
<1>2. Setting BY QuietSetting DEF GetLoadBalancer, DeleteGet, cloudVars
<1>3. PICK w : w = loc[p] OBVIOUS
<1>4. w \in LocType BY <1>1, <1>3, WorkerOwns
<1>5. {"deleted", "delGet", "eipFind"} \cap
          (CallPCs \cup PortPCs \cup {"delListener", "delPool", "eipRelease"}) = {}
      BY DEF CallPCs, EnsurePCs, PortPCs
<1>6. CASE Fail(p) BY <1>1, <1>2, <1>6, FailOwned
<1>7. CASE \E c \in {"deleted", "delGet"} : Goto(p, c, w)
      BY <1>1, <1>2, <1>3, <1>5, <1>7, PassOwned
<1>8. CASE Goto(p, "deleted", NoLoc)
  <2>1. Owns(p, "deleted", NoLoc) BY <1>5, NothingOwned
  <2> QED BY <1>1, <1>2, <1>8, <2>1, MoveOwned
<1>9. ASSUME NEW l \in LBsNamed(NameOf[s]),
             Goto(p, "eipFind", [w EXCEPT !.lb = l.id, !.eip = {e.id : e \in EIPsOf(l.id)}])
      PROVE  OwnInv'
  <2> DEFINE ids == {e.id : e \in EIPsOf(l.id)}
             u == [w EXCEPT !.lb = l.id, !.eip = ids]
  <2>1. \A i \in ids : OwnEIP(s, i) BY EIPsAreOwn DEF LBsNamed
  <2> HIDE DEF ids
  <2>2. u.eip = ids BY <1>4 DEF LocType
  <2> HIDE DEF u
  <2>3. Goto(p, "eipFind", u) BY <1>9 DEF u, ids
  <2>4. Owns(p, "eipFind", u) BY <1>1, <1>5, <2>1, <2>2 DEF Owns, PoolPCs
  <2> QED BY <1>1, <1>2, <2>3, <2>4, MoveOwned
<1>10. CASE GetLoadBalancer(s) BY <1>3, <1>6, <1>7, <1>10 DEF GetLoadBalancer
<1>11. CASE DeleteGet(s) BY <1>3, <1>6, <1>8, <1>9, <1>11 DEF DeleteGet
<1> QED BY <1>10, <1>11

\* The release of the EIP that the ELB's port has.
LEMMA BoundEIPOwns ==
    ASSUME TypeOK, TypeOK', LifecycleInv, OwnInv, UNCHANGED <<want, ports, cached, fin>>,
           NEW s \in Services, FindEIP(s) \/ ReleaseBoundEIP(s)
    PROVE  OwnInv'
<1> DEFINE p == <<s, "sync">>
<1>1. p \in Procs /\ p[1] = s BY DEF Procs, Workers
<1>2. PICK w : w = loc[p] OBVIOUS
<1>3. w \in LocType /\ Owns(p, pc[p], w) BY <1>1, <1>2, WorkerOwns
<1>4. "delListeners" \notin CallPCs \cup PortPCs \cup {"delListener", "delPool", "eipRelease"}
      BY DEF CallPCs, EnsurePCs, PortPCs
<1>5. "eipRelease" \notin CallPCs \cup PortPCs BY DEF CallPCs, EnsurePCs, PortPCs
<1>6. CASE FindEIP(s)
  <2>1. Setting BY <1>6, QuietSetting DEF FindEIP, cloudVars
  <2>2. CASE Goto(p, "delListeners", w) BY <1>1, <1>2, <1>4, <2>1, <2>2, PassOwned
  <2>3. ASSUME NEW e \in EIPsOf(w.lb), Goto(p, "eipRelease", [w EXCEPT !.pool = e.id])
        PROVE  OwnInv'
    <3> DEFINE u == [w EXCEPT !.pool = e.id]
    <3>1. u.eip = w.eip /\ u.pool = e.id BY <1>3 DEF LocType
    <3> HIDE DEF u
    <3>2. PICK l \in lbs : l.name = NameOf[s] /\ l.id = w.lb
          BY <1>2, <1>6 DEF FindEIP, LifecycleInv, WorkerKnows, HoldingPCs
    <3>3. OwnEIP(s, e.id) BY <2>3, <3>2, EIPsAreOwn
    <3>4. Owns(p, "eipRelease", u)
          BY <1>1, <1>3, <1>5, <3>1, <3>3 DEF Owns, PoolPCs
    <3> QED BY <1>1, <2>1, <2>3, <3>4, MoveOwned DEF u
  <2> QED BY <1>2, <1>6, <2>2, <2>3 DEF FindEIP
<1>7. CASE ReleaseBoundEIP(s)
  <2>1. UNCHANGED cloudVars \/ CloudReleaseEIP(w.pool) BY <1>2, <1>7 DEF ReleaseBoundEIP
  <2>2. Setting BY <2>1, NothingMade, EIPReleased DEF Setting, OwnInv, cloudVars
  <2> DEFINE u == [w EXCEPT !.pool = 0]
  <2>3. Goto(p, "delListeners", u) BY <1>2, <1>7 DEF ReleaseBoundEIP
  <2>4. u.eip = w.eip BY <1>3 DEF LocType
  <2> HIDE DEF u
  <2> QED BY <1>1, <1>2, <1>4, <2>2, <2>3, <2>4, PassOwned
<1> QED BY <1>6, <1>7

\* The removal of the ELB's listeners.
LEMMA DeleteListenersOwns ==
    ASSUME TypeOK, TypeOK', OwnInv, UNCHANGED <<want, ports, cached, fin>>,
           NEW s \in Services, ListListeners(s) \/ DeleteListener(s)
    PROVE  OwnInv'
<1> DEFINE p == <<s, "sync">>
<1>1. p \in Procs /\ p[1] = s BY DEF Procs, Workers
<1>2. PICK w : w = loc[p] OBVIOUS
<1>3. w \in LocType /\ Owns(p, pc[p], w) /\ CloudInv BY <1>1, <1>2, WorkerOwns
<1>4. "delPools" \notin CallPCs \cup PortPCs \cup {"delListener", "delPool", "eipRelease"}
      BY DEF CallPCs, EnsurePCs, PortPCs
<1>5. "delListener" \notin CallPCs \cup PortPCs BY DEF CallPCs, EnsurePCs, PortPCs
<1>6. \A d : [w EXCEPT !.doomed = d].eip = w.eip /\ [w EXCEPT !.doomed = d].lb = w.lb
             /\ [w EXCEPT !.doomed = d].doomed = d
      BY <1>3 DEF LocType
<1>7. ASSUME Setting, NEW d, NEW c \in {"delListener", "delPools"},
             Goto(p, c, [w EXCEPT !.doomed = d]),
             \A x \in d : x.id < nextId /\ \A l \in listeners : l.id = x.id => l.lb = w.lb
      PROVE  OwnInv'
  <2> DEFINE u == [w EXCEPT !.doomed = d]
  <2>1. u.eip = w.eip /\ u.lb = w.lb /\ u.doomed = d BY <1>6
  <2> HIDE DEF u
  <2>2. Owns(p, c, u)
        BY <1>3, <1>4, <1>5, <1>7, <2>1 DEF Owns, OwnDoomed, PoolPCs
  <2> QED BY <1>1, <1>7, <2>2, MoveOwned DEF u
<1>8. CASE ListListeners(s)
  <2>1. Setting BY <1>8, QuietSetting DEF ListListeners, cloudVars
  <2>2. CASE Fail(p) BY <1>1, <2>1, <2>2, FailOwned
  <2>3. ASSUME NEW d \in {{}, Doom(LiveListeners(w.lb))}, NEW c \in {"delListener", "delPools"},
               Goto(p, c, [w EXCEPT !.doomed = d])
        PROVE  OwnInv'
    <3>1. \A x \in d : \E l \in listeners : l.id = x.id /\ l.lb = w.lb
          BY <2>3 DEF Doom, LiveListeners
    <3>2. \A x \in d : x.id < nextId /\ \A l \in listeners : l.id = x.id => l.lb = w.lb
          BY <1>3, <3>1 DEF CloudInv, HandedOut
    <3> QED BY <1>7, <2>1, <2>3, <3>2
  <2> QED BY <1>2, <1>8, <2>2, <2>3 DEF ListListeners
<1>9. CASE DeleteListener(s)
  <2>1. UNCHANGED cloudVars \/ \E d : CloudDeleteListener(d.id)
        BY <1>9 DEF DeleteListener
  <2>2. Setting BY <2>1, NothingMade, ListenerDeleted DEF Setting, OwnInv, cloudVars
  <2>3. CASE Fail(p) BY <1>1, <2>2, <2>3, FailOwned
  <2>4. ASSUME NEW c \in {"delListener", "delPools"}, NEW x,
               Goto(p, c, [w EXCEPT !.doomed = w.doomed \ {x}])
        PROVE  OwnInv'
    <3>1. OwnDoomed(listeners, w) BY <1>2, <1>3, <1>9 DEF Owns, DeleteListener
    <3>2. \A d \in w.doomed \ {x} :
             d.id < nextId /\ \A l \in listeners : l.id = d.id => l.lb = w.lb
          BY <3>1 DEF OwnDoomed
    <3> QED BY <1>7, <2>2, <2>4, <3>2
  <2>5. \A x : [w EXCEPT !.doomed = @ \ {x}] = [w EXCEPT !.doomed = w.doomed \ {x}]
        BY <1>3 DEF LocType
  <2> QED BY <1>2, <1>9, <2>3, <2>4, <2>5 DEF DeleteListener
<1> QED BY <1>8, <1>9

\* The removal of the ELB's pools.
LEMMA DeletePoolsOwns ==
    ASSUME TypeOK, TypeOK', OwnInv, UNCHANGED <<want, ports, cached, fin>>,
           NEW s \in Services, ListPools(s) \/ DeletePool(s)
    PROVE  OwnInv'
<1> DEFINE p == <<s, "sync">>
<1>1. p \in Procs /\ p[1] = s BY DEF Procs, Workers
<1>2. PICK w : w = loc[p] OBVIOUS
<1>3. w \in LocType /\ Owns(p, pc[p], w) /\ CloudInv BY <1>1, <1>2, WorkerOwns
<1>4. "delLB" \notin CallPCs \cup PortPCs \cup {"delListener", "delPool", "eipRelease"}
      BY DEF CallPCs, EnsurePCs, PortPCs
<1>5. "delPool" \notin CallPCs \cup PortPCs BY DEF CallPCs, EnsurePCs, PortPCs
<1>6. \A d : [w EXCEPT !.doomed = d].eip = w.eip /\ [w EXCEPT !.doomed = d].lb = w.lb
             /\ [w EXCEPT !.doomed = d].doomed = d
      BY <1>3 DEF LocType
<1>7. ASSUME Setting, NEW d, NEW c \in {"delPool", "delLB"},
             Goto(p, c, [w EXCEPT !.doomed = d]),
             \A x \in d : x.id < nextId /\ \A q \in pools : q.id = x.id => q.lb = w.lb
      PROVE  OwnInv'
  <2> DEFINE u == [w EXCEPT !.doomed = d]
  <2>1. u.eip = w.eip /\ u.lb = w.lb /\ u.doomed = d BY <1>6
  <2> HIDE DEF u
  <2>2. Owns(p, c, u)
        BY <1>3, <1>4, <1>5, <1>7, <2>1 DEF Owns, OwnDoomed, PoolPCs
  <2> QED BY <1>1, <1>7, <2>2, MoveOwned DEF u
<1>8. CASE ListPools(s)
  <2> DEFINE found == {[id |-> q.id, pool |-> q.id] : q \in LivePools(w.lb)}
  <2>1. Setting BY <1>8, QuietSetting DEF ListPools, cloudVars
  <2>2. CASE Fail(p) BY <1>1, <2>1, <2>2, FailOwned
  <2>3. ASSUME NEW d \in {{}, found}, NEW c \in {"delPool", "delLB"},
               Goto(p, c, [w EXCEPT !.doomed = d])
        PROVE  OwnInv'
    <3>1. \A x \in found : \E q \in pools : q.id = x.id /\ q.lb = w.lb BY DEF LivePools
    <3> HIDE DEF found
    <3>2. \A x \in d : x.id < nextId /\ \A q \in pools : q.id = x.id => q.lb = w.lb
          BY <1>3, <2>3, <3>1 DEF CloudInv, HandedOut
    <3> QED BY <1>7, <2>1, <2>3, <3>2
  <2> QED BY <1>2, <1>8, <2>2, <2>3 DEF ListPools
<1>9. CASE DeletePool(s)
  <2>1. \E d, gone, hm, del : CloudDeletePool(d.id, gone, hm, del)
        BY <1>9 DEF DeletePool
  <2>2. Setting BY <2>1, PoolDeleted DEF Setting, OwnInv
  <2>3. CASE Fail(p) BY <1>1, <2>2, <2>3, FailOwned
  <2>4. ASSUME NEW c \in {"delPool", "delLB"}, NEW x,
               Goto(p, c, [w EXCEPT !.doomed = w.doomed \ {x}])
        PROVE  OwnInv'
    <3>1. OwnDoomed(pools, w) BY <1>2, <1>3, <1>9 DEF Owns, DeletePool
    <3>2. \A d \in w.doomed \ {x} :
             d.id < nextId /\ \A q \in pools : q.id = d.id => q.lb = w.lb
          BY <3>1 DEF OwnDoomed
    <3> QED BY <1>7, <2>2, <2>4, <3>2
  <2>5. \A x : [w EXCEPT !.doomed = @ \ {x}] = [w EXCEPT !.doomed = w.doomed \ {x}]
        BY <1>3 DEF LocType
  <2> QED BY <1>2, <1>9, <2>3, <2>4, <2>5 DEF DeletePool
<1> QED BY <1>8, <1>9

\* The removal of the ELB and of the EIPs it leaves behind.
LEMMA DeleteLoadBalancerOwns ==
    ASSUME TypeOK, TypeOK', OwnInv, UNCHANGED <<want, ports, cached, fin>>,
           NEW s \in Services, DeleteLoadBalancer(s) \/ ReleaseOrphanedEIP(s)
    PROVE  OwnInv'
<1> DEFINE p == <<s, "sync">>
<1>1. p \in Procs /\ p[1] = s BY DEF Procs, Workers
<1>2. PICK w : w = loc[p] OBVIOUS
<1>3. w \in LocType BY <1>1, <1>2, WorkerOwns
<1>4. {"delLB", "eipCleanup", "deleted"} \cap
          (CallPCs \cup PortPCs \cup {"delListener", "delPool", "eipRelease"}) = {}
      BY DEF CallPCs, EnsurePCs, PortPCs
<1>5. CASE DeleteLoadBalancer(s)
  <2>1. UNCHANGED cloudVars \/ CloudDeleteLB(w.lb) BY <1>2, <1>5 DEF DeleteLoadBalancer
  <2>2. Setting BY <2>1, NothingMade, ELBDeleted DEF Setting, OwnInv, cloudVars
  <2>3. \/ Fail(p) \/ \E c \in {"eipCleanup", "deleted"} : Goto(p, c, w)
        \/ Goto(p, "delLB", [w EXCEPT !.tries = @ + 1])
        BY <1>2, <1>5 DEF DeleteLoadBalancer
  <2>4. CASE Fail(p) BY <1>1, <2>2, <2>4, FailOwned
  <2>5. CASE \E c \in {"eipCleanup", "deleted"} : Goto(p, c, w)
        BY <1>1, <1>2, <1>4, <2>2, <2>5, PassOwned
  <2>6. CASE Goto(p, "delLB", [w EXCEPT !.tries = @ + 1])
    <3> DEFINE u == [w EXCEPT !.tries = @ + 1]
    <3>1. u.eip = w.eip BY <1>3 DEF LocType
    <3> HIDE DEF u
    <3>2. Goto(p, "delLB", u) BY <2>6 DEF u
    <3> QED BY <1>1, <1>2, <1>4, <2>2, <3>1, <3>2, PassOwned
  <2> QED BY <2>3, <2>4, <2>5, <2>6
<1>6. CASE ReleaseOrphanedEIP(s)
  <2>1. UNCHANGED cloudVars \/ \E e : CloudReleaseEIP(e) BY <1>6 DEF ReleaseOrphanedEIP
  <2>2. Setting BY <2>1, NothingMade, EIPReleased DEF Setting, OwnInv, cloudVars
  <2>3. PICK e \in w.eip : \E c \in {"eipCleanup", "deleted"} :
                            Goto(p, c, [w EXCEPT !.eip = @ \ {e}])
        BY <1>2, <1>6 DEF ReleaseOrphanedEIP
  <2> DEFINE u == [w EXCEPT !.eip = @ \ {e}]
  <2>4. u.eip \subseteq w.eip BY <1>3 DEF LocType
  <2> HIDE DEF u
  <2>5. PICK c \in {"eipCleanup", "deleted"} : Goto(p, c, u) BY <2>3 DEF u
  <2> QED BY <1>1, <1>2, <1>4, <2>2, <2>4, <2>5, PassOwned
<1> QED BY <1>5, <1>6

-----------------------------------------------------------------------------
(* The controller, the users, crashes, and the invariant.                  *)

\* A method call owns the ports of its spec, which it has all left to do.
LEMMA CallOwns ==
    ASSUME NEW p, NEW c \in {"ensGet", "updGet"}, NEW ps \in PortSets, NEW ns
    PROVE  Owns(p, c, Call(ps, ns))
<1>1. Call(ps, ns).ports = ps /\ Call(ps, ns).todo = ps /\ Call(ps, ns).eip = {}
      BY DEF Call, NoLoc
<1>2. c \notin PortPCs \cup {"delListener", "delPool", "eipRelease"} BY DEF PortPCs
<1> QED BY <1>1, <1>2 DEF Owns, OwnPorts, PoolPCs

\* The controller's own steps.
LEMMA ControllerOwns ==
    ASSUME TypeOK, TypeOK', OwnInv, NEW s \in Services,
           \/ SyncService(s) \/ PublishStatus(s) \/ RemoveFinalizer(s) \/ Requeue(s)
           \/ SyncNodes(s) \/ NodesSynced(s) \/ RetryNodes(s)
    PROVE  OwnInv'
<1>1. <<s, "sync">> \in Procs /\ <<s, "node">> \in Procs BY DEF Procs, Workers
<1>2. UNCHANGED cloudVars
      BY DEF SyncService, PublishStatus, RemoveFinalizer, Requeue, SyncNodes, NodesSynced,
             RetryNodes
<1>3. CloudInv' /\ Aging BY <1>2, NothingMade DEF OwnInv, cloudVars
<1>4. ASSUME UNCHANGED <<want, ports, cached, fin>> PROVE Setting
      BY <1>3, <1>4 DEF Setting
<1>5. \A p : \A c \in {"idle", "delCheck"} : Owns(p, c, NoLoc)
      BY NothingOwned DEF CallPCs, EnsurePCs
<1>6. CASE SyncService(s)
  <2> DEFINE p == <<s, "sync">>
  <2>1. /\ cached' = [cached EXCEPT ![s] = IF want[s] \/ fin[s] THEN {ports[s]} ELSE {}]
        /\ fin' = [fin EXCEPT ![s] = want[s] \/ @]
        /\ UNCHANGED <<want, ports>>
        BY <1>6 DEF SyncService
  <2>2. SpecsInv' BY <2>1 DEF OwnInv, SpecsInv, TypeOK, ControllerTypeOK
  <2>3. PICK c, v : /\ Goto(p, c, v)
                    /\ \/ want[s] /\ c = "ensGet" /\ v = Call(ports[s], nodes)
                       \/ c = "delCheck" /\ v = NoLoc
        BY <1>6 DEF SyncService
  <2>4. Owns(p, c, v)
    <3>1. CASE want[s] /\ c = "ensGet" /\ v = Call(ports[s], nodes)
      <4>1. PICK ps \in PortSets : ps = ports[s] BY <3>1 DEF OwnInv, SpecsInv
      <4>2. PICK ns : ns = nodes OBVIOUS
      <4> QED BY <3>1, <4>1, <4>2, CallOwns
    <3> QED BY <1>5, <2>3, <3>1
  <2>5. pc'[p] = c /\ loc'[p] = v /\ OnlyMoves(p) BY <1>1, <2>3, GotoMoves DEF TypeOK
  <2>6. \A q \in Procs : Owns(q, pc[q], loc[q])'
    <3>1. Owns(p, pc'[p], loc'[p]) BY <2>4, <2>5
    <3>2. \A q \in Procs : Owns(q, pc'[q], loc'[q])
          BY <2>5, <3>1, WorkerOwns DEF OnlyMoves
    <3> QED BY <1>2, <3>2 DEF Owns, OwnPool, OwnDoomed, OwnEIP, OwnPorts, cloudVars
  <2> QED BY <1>3, <2>2, <2>6 DEF OwnInv
<1>7. CASE PublishStatus(s) \/ Requeue(s)
  <2>1. Goto(<<s, "sync">>, "idle", NoLoc) /\ UNCHANGED <<want, ports, cached, fin>>
        BY <1>7 DEF PublishStatus, Requeue, ctlVars, k8sVars
  <2> QED BY <1>1, <1>4, <1>5, <2>1, MoveOwned
<1>8. CASE NodesSynced(s) \/ RetryNodes(s)
  <2>1. Goto(<<s, "node">>, "idle", NoLoc) /\ UNCHANGED <<want, ports, cached, fin>>
        BY <1>8 DEF NodesSynced, RetryNodes, ctlVars, k8sVars
  <2> QED BY <1>1, <1>4, <1>5, <2>1, MoveOwned
<1>9. CASE SyncNodes(s)
  <2>1. UNCHANGED <<want, ports, cached, fin>> BY <1>9 DEF SyncNodes, k8sVars
  <2>2. CASE UNCHANGED procVars
    <3>1. \A q \in Procs : Owns(q, pc[q], loc[q])'
          BY <1>2, <2>2, WorkerOwns
          DEF Owns, OwnPool, OwnDoomed, OwnEIP, OwnPorts, cloudVars, procVars
    <3> QED BY <1>3, <2>1, <3>1 DEF OwnInv, SpecsInv
  <2>3. ASSUME NEW ps \in cached[s], Goto(<<s, "node">>, "updGet", Call(ps, nodes))
        PROVE  OwnInv'
    <3>1. ps \in PortSets BY <2>3 DEF OwnInv, SpecsInv
    <3>2. PICK ns : ns = nodes OBVIOUS
    <3>3. Owns(<<s, "node">>, "updGet", Call(ps, ns)) BY <3>1, CallOwns
    <3> QED BY <1>1, <1>4, <2>1, <2>3, <3>2, <3>3, MoveOwned
  <2> QED BY <1>9, <2>2, <2>3 DEF SyncNodes
<1>10. CASE RemoveFinalizer(s)
  <2> DEFINE p == <<s, "sync">>
  <2>1. SpecsInv'
        BY <1>10 DEF RemoveFinalizer, OwnInv, SpecsInv, TypeOK, ControllerTypeOK
  <2>2. pc'[p] = "idle" /\ loc'[p] = NoLoc /\ OnlyMoves(p)
        BY <1>1, <1>10, GotoMoves DEF RemoveFinalizer, TypeOK
  <2>3. \A q \in Procs : Owns(q, pc'[q], loc'[q])
        BY <1>5, <2>2, WorkerOwns DEF OnlyMoves
  <2>4. \A q \in Procs : Owns(q, pc[q], loc[q])'
        BY <1>2, <2>3 DEF Owns, OwnPool, OwnDoomed, OwnEIP, OwnPorts, cloudVars
  <2> QED BY <1>3, <2>1, <2>4 DEF OwnInv
<1> QED BY <1>6, <1>7, <1>8, <1>9, <1>10

\* Steps in which no worker moves, and crashes.
LEMMA EnvironmentOwns ==
    ASSUME TypeOK, TypeOK', OwnInv,
           \/ \E s \in Services : ApplyService(s) \/ RemoveService(s)
           \/ ChangeNodes \/ Crash \/ Cloud \/ UNCHANGED vars
    PROVE  OwnInv'
<1>1. CloudInv' /\ Aging
  <2>1. CASE Cloud BY <2>1, Reaped DEF Cloud, OwnInv
  <2>2. CASE UNCHANGED cloudVars BY <2>2, NothingMade DEF cloudVars, OwnInv
  <2> QED BY <2>1, <2>2 DEF ApplyService, RemoveService, ChangeNodes, Crash, vars
<1>2. SpecsInv'
  <2>1. ASSUME NEW s \in Services, ApplyService(s) \/ RemoveService(s) PROVE SpecsInv'
    <3>1. PICK ps : \/ ports' = [ports EXCEPT ![s] = ps] /\ ps \in PortSets
                    \/ want' = [want EXCEPT ![s] = FALSE] /\ ports' = ports
          BY <2>1 DEF ApplyService, RemoveService
    <3>2. /\ UNCHANGED <<cached, fin>>
          /\ \A t \in Services \ {s} : want'[t] = want[t]
          BY <2>1 DEF ApplyService, RemoveService, TypeOK, ControllerTypeOK
    <3> QED BY <3>1, <3>2 DEF OwnInv, SpecsInv, TypeOK, ControllerTypeOK
  <2>2. CASE ChangeNodes \/ Cloud \/ UNCHANGED vars
        BY <2>2 DEF ChangeNodes, Cloud, vars, k8sVars, ctlVars, OwnInv, SpecsInv
  <2>3. CASE Crash BY <2>3 DEF Crash, k8sVars, OwnInv, SpecsInv
  <2> QED BY <2>1, <2>2, <2>3
<1>3. \A q \in Procs : Owns(q, pc[q], loc[q])'
  <2>1. CASE UNCHANGED procVars
    <3> SUFFICES ASSUME NEW q \in Procs PROVE Owns(q, pc[q], loc[q])' OBVIOUS
    <3>1. PICK c : c = pc[q] OBVIOUS
    <3>2. PICK v : v = loc[q] OBVIOUS
    <3>3. Owns(q, c, v)' BY <1>1, <3>1, <3>2, WorkerOwns, OwnsAges, CloudTypes
    <3>4. c = pc'[q] /\ v = loc'[q] BY <2>1, <3>1, <3>2 DEF procVars
    <3> QED BY <3>3, <3>4 DEF Owns, OwnPool, OwnDoomed, OwnEIP, OwnPorts
  <2>2. CASE Crash
    <3>1. \A q \in Procs : pc'[q] = "idle" /\ loc'[q] = NoLoc BY <2>2 DEF Crash
    <3>2. \A q \in Procs : Owns(q, "idle", NoLoc)
          BY NothingOwned DEF CallPCs, EnsurePCs
    <3>3. \A q \in Procs : Owns(q, pc'[q], loc'[q]) BY <3>1, <3>2
    <3>4. UNCHANGED cloudVars BY <2>2 DEF Crash
    <3> QED BY <3>3, <3>4 DEF Owns, OwnPool, OwnDoomed, OwnEIP, OwnPorts, cloudVars
  <2> QED BY <2>1, <2>2 DEF ApplyService, RemoveService, ChangeNodes, Cloud, vars
<1> QED BY <1>1, <1>2, <1>3 DEF OwnInv

\* Every step keeps to what is its own.
LEMMA OwnStep ==
    ASSUME TypeOK, LifecycleInv, OwnInv, [Next]_vars
    PROVE  OwnInv'
<1>1. TypeOK' BY NextType
<1>2. ASSUME NEW s \in Services, SyncWorker(s) PROVE OwnInv'
  <2>1. CASE SyncService(s) \/ PublishStatus(s) \/ RemoveFinalizer(s) \/ Requeue(s)
        BY <1>1, <2>1, ControllerOwns
  <2>2. CASE /\ EnsureLoadBalancer(s) \/ GetLoadBalancer(s) \/ EnsureLoadBalancerDeleted(s)
             /\ UNCHANGED <<k8sVars, ctlVars>>
    <3>1. UNCHANGED <<want, ports, cached, fin>> BY <2>2 DEF k8sVars, ctlVars
    <3>2. <<s, "sync">> \in Procs BY DEF Procs, Workers
    <3>3. CASE EnsureLoadBalancer(s)
          BY <1>1, <3>1, <3>2, <3>3, EnsureGetOwns, CreateLoadBalancerOwns,
             ensureListenersOwns, EnsureELBSecurityGroupOwns DEF EnsureLoadBalancer
    <3>4. CASE GetLoadBalancer(s) \/ EnsureLoadBalancerDeleted(s)
          BY <1>1, <3>1, <3>4, DeleteGetOwns, BoundEIPOwns, DeleteListenersOwns,
             DeletePoolsOwns, DeleteLoadBalancerOwns DEF EnsureLoadBalancerDeleted
    <3> QED BY <2>2, <3>3, <3>4
  <2> QED BY <1>2, <2>1, <2>2 DEF SyncWorker
<1>3. ASSUME NEW s \in Services, NodeWorker(s) PROVE OwnInv'
  <2>1. CASE SyncNodes(s) \/ NodesSynced(s) \/ RetryNodes(s)
        BY <1>1, <2>1, ControllerOwns
  <2>2. CASE UpdateLoadBalancer(s) /\ UNCHANGED <<k8sVars, ctlVars>>
        BY <1>1, <2>2, UpdateOwns DEF k8sVars, ctlVars
  <2> QED BY <1>3, <2>1, <2>2 DEF NodeWorker
<1> QED BY <1>1, <1>2, <1>3, EnvironmentOwns DEF Next

\* Initially the cloud is empty and no worker refers to anything.
LEMMA OwnStart == Init => OwnInv
<1> SUFFICES ASSUME Init PROVE OwnInv OBVIOUS
<1>1. lbs = {} /\ eips = {} /\ listeners = {} /\ pools = {} BY DEF Init, CloudInit
<1>2. CloudInv
      BY <1>1 DEF CloudInv, HandedOut, ListenersHavePools, ListenerPorts,
                  OneListenerPerPort
<1>3. SpecsInv BY DEF Init, SpecsInv
<1>4. \A p \in Procs : pc[p] = "idle" /\ loc[p] = NoLoc BY DEF Init
<1>5. \A p : Owns(p, "idle", NoLoc) BY NothingOwned DEF CallPCs, EnsurePCs
<1> QED BY <1>2, <1>3, <1>4, <1>5 DEF OwnInv

\* The workers interleave their requests for one service and for several, fail at any of
\* them and crash, and yet no listener ever lacks its pool, a worker's pool, listeners and
\* EIPs are those of the service's own ELB, and an ELB has one listener for a port.
THEOREM OwnInvariant ==
    ASSUME NamesDistinct
    PROVE  Spec => []OwnInv
BY OwnStart, OwnStep, TypeCorrect, LifecycleInvariant, PTL DEF Spec

-----------------------------------------------------------------------------
(* What is left alone.                                                     *)

\* UpdateLoadBalancer takes no listener for an orphan.
NoOrphans ==
    \A s \in Services : pc[<<s, "node">>] \notin {"orphanListener", "orphanPool"}

\* The node worker has never had anything to do.
NodesQuiet ==
    \A s \in Services : pc[<<s, "node">>] = "idle" /\ ~nodeQueued[s]

\* Edits keep the port numbers.
SamePorts ==
    \A ps1, ps2 \in PortSets : {q.port : q \in ps1} = {q.port : q \in ps2}

\* A spec the node worker was called for, however old, has the ports of the current one;
\* or the node worker was never called.
Steady == SamePorts \/ (nodeChanges = 0 /\ crashes = 0)

\* What holds while the node worker cannot mislead: it takes nothing, or does nothing.
SteadyInv ==
    /\ SamePorts => NoOrphans
    /\ nodeChanges = 0 /\ crashes = 0 => NodesQuiet

\* SteadyInv is inductive under OwnInv.
LEMMA SteadyStep ==
    ASSUME TypeOK, OwnInv, SteadyInv, [Next]_vars
    PROVE  SteadyInv'
<1>0. WorkerTypeOK /\ ControllerTypeOK BY DEF TypeOK
<1>1. nodeChanges \in Nat /\ crashes \in Nat BY <1>0 DEF ControllerTypeOK
<1> DEFINE n(s) == <<s, "node">>
<1>2. \A s \in Services : n(s) \in Procs BY <1>0, ProcTypes
<1>3. ASSUME UNCHANGED procVars, nodeChanges' = 0 /\ crashes' = 0 => nodeChanges = 0 /\ crashes = 0,
             nodeChanges' = 0 /\ crashes' = 0 => UNCHANGED nodeQueued
      PROVE  SteadyInv'
      BY <1>3 DEF SteadyInv, NoOrphans, NodesQuiet, procVars
<1>4. CASE UNCHANGED vars BY <1>3, <1>4 DEF vars, k8sVars, ctlVars
<1>5. CASE Cloud BY <1>3, <1>5 DEF Cloud, k8sVars, ctlVars
<1>6. ASSUME NEW s \in Services, ApplyService(s) \/ RemoveService(s) PROVE SteadyInv'
      BY <1>3, <1>6 DEF ApplyService, RemoveService
<1>7. CASE ChangeNodes
  <2>1. nodeChanges' # 0 BY <1>1, <1>7 DEF ChangeNodes
  <2> QED BY <1>3, <1>7, <2>1 DEF ChangeNodes
<1>8. CASE Crash
  <2>1. crashes' # 0 BY <1>1, <1>8 DEF Crash
  <2>2. \A s \in Services : pc'[n(s)] = "idle" BY <1>2, <1>8 DEF Crash
  <2> QED BY <2>1, <2>2 DEF SteadyInv, NoOrphans
<1>9. ASSUME NEW s \in Services, SyncWorker(s) PROVE SteadyInv'
  <2>1. Moves(<<s, "sync">>)
    <3>1. CASE SyncService(s) \/ PublishStatus(s) \/ RemoveFinalizer(s) \/ Requeue(s)
          BY <3>1 DEF SyncService, PublishStatus, RemoveFinalizer, Requeue, Moves
    <3>2. CASE EnsureLoadBalancer(s) BY <3>2, EnsureIsNoDeletion
    <3>3. CASE GetLoadBalancer(s) BY <3>3 DEF GetLoadBalancer, Fail, Moves
    <3>4. CASE EnsureLoadBalancerDeleted(s)
          BY <3>4 DEF EnsureLoadBalancerDeleted, DeleteGet, FindEIP, ReleaseBoundEIP,
             ListListeners, DeleteListener, ListPools, DeletePool,
             DeleteLoadBalancer, ReleaseOrphanedEIP, Fail, Moves
    <3> QED BY <1>9, <3>1, <3>2, <3>3, <3>4 DEF SyncWorker
  <2>2. UNCHANGED <<nodeChanges, crashes, nodeQueued>>
        BY <1>9 DEF SyncWorker, SyncService, PublishStatus, RemoveFinalizer, Requeue,
                    k8sVars, ctlVars
  <2>3. OnlyMoves(<<s, "sync">>) BY <1>0, <2>1, ProcTypes, MovesAlone
  <2>4. \A t \in Services : pc'[n(t)] = pc[n(t)]
        BY <1>2, <2>3 DEF OnlyMoves
  <2> QED BY <2>2, <2>4 DEF SteadyInv, NoOrphans, NodesQuiet
<1>10. ASSUME NEW s \in Services, NodeWorker(s) PROVE SteadyInv'
  <2>1. UNCHANGED <<nodeChanges, crashes>>
        BY <1>10 DEF NodeWorker, SyncNodes, NodesSynced, RetryNodes, k8sVars, ctlVars
  <2>2. ~(nodeChanges = 0 /\ crashes = 0)
    <3> SUFFICES ASSUME pc[n(s)] = "idle", ~nodeQueued[s] PROVE FALSE
        BY DEF SteadyInv, NodesQuiet
    <3>1. ~ensureListeners(n(s))
          BY DEF ensureListeners, PoolGet, PoolPost, MemList, MemAdd, MemDel, LisGet,
                 LisPost, EnsureHealthMonitor
    <3> QED BY <1>10, <3>1 DEF NodeWorker, SyncNodes, NodesSynced, RetryNodes,
                               UpdateLoadBalancer, UpdateGet, SyncList, OrphanListener,
                               OrphanPool
  <2>3. ASSUME SamePorts, NoOrphans PROVE NoOrphans'
    <3>1. \/ pc'[n(s)] \notin {"orphanListener", "orphanPool"} /\ OnlyMoves(n(s))
          \/ UNCHANGED procVars
      <4>1. ASSUME NEW c, NEW v, Goto(n(s), c, v), c \notin {"orphanListener", "orphanPool"}
            PROVE  pc'[n(s)] \notin {"orphanListener", "orphanPool"} /\ OnlyMoves(n(s))
            BY <1>0, <1>2, <4>1, GotoMoves
      <4>2. CASE SyncNodes(s) BY <4>1, <4>2 DEF SyncNodes
      <4>3. CASE NodesSynced(s) \/ RetryNodes(s) BY <4>1, <4>3 DEF NodesSynced, RetryNodes
      <4>4. CASE ensureListeners(n(s))
        <5>1. ListenersStep(n(s)) BY <1>2, <4>4, ensureListenersMoves
        <5> QED BY <5>1 DEF ListenersStep, EnsurePCs
      <4>5. CASE UpdateGet(s)
        <5>1. PICK c \in {"failed", "lisList"} : \E v : Goto(n(s), c, v)
              BY <4>5 DEF UpdateGet, Fail
        <5> QED BY <4>1, <5>1
      <4>6. CASE SyncList(s)
        <5>1. PICK w : w = loc[n(s)] OBVIOUS
        <5>2. OwnPorts("lisList", w)
              BY <1>2, <4>6, <5>1, WorkerOwns DEF SyncList, Owns, CallPCs
        <5>3. \A l \in listeners : l.port \in {q.port : q \in w.ports}
          <6> SUFFICES ASSUME NEW l \in listeners PROVE l.port \in {q.port : q \in w.ports}
              OBVIOUS
          <6>1. PICK ps \in PortSets : \E q \in ps : q.port = l.port
                BY DEF OwnInv, CloudInv, ListenerPorts
          <6>2. l.port \in {q.port : q \in ps} BY <6>1
          <6>3. {q.port : q \in ps} = {q.port : q \in w.ports}
                BY <2>3, <5>2, <6>1 DEF SamePorts, OwnPorts
          <6> QED BY <6>2, <6>3
        <5>4. Doom({l \in LiveListeners(w.lb) : l.port \notin {q.port : q \in w.ports}}) = {}
              BY <5>3 DEF Doom, LiveListeners
        <5>5. \E v : Goto(n(s), NextOrphan({}, w), v)
          <6>1. PICK d \in {{}, Doom({l \in LiveListeners(w.lb) :
                                       l.port \notin {q.port : q \in w.ports}})} :
                  Goto(n(s), NextOrphan(d, w), [w EXCEPT !.doomed = d])
                BY <4>6, <5>1 DEF SyncList
          <6> QED BY <5>4, <6>1
        <5>6. NextOrphan({}, w) \notin {"orphanListener", "orphanPool"}
              BY DEF NextOrphan, NextPort
        <5> QED BY <4>1, <5>5, <5>6
      <4>7. ~OrphanListener(s) /\ ~OrphanPool(s)
            BY <2>3 DEF NoOrphans, OrphanListener, OrphanPool
      <4> QED BY <1>10, <4>2, <4>3, <4>4, <4>5, <4>6, <4>7 DEF NodeWorker, UpdateLoadBalancer
    <3>2. CASE UNCHANGED procVars BY <2>3, <3>2 DEF NoOrphans, procVars
    <3>3. CASE pc'[n(s)] \notin {"orphanListener", "orphanPool"} /\ OnlyMoves(n(s))
      <4>1. \A t \in Services : t # s => pc'[n(t)] = pc[n(t)]
            BY <1>2, <3>3 DEF OnlyMoves
      <4> QED BY <2>3, <3>3, <4>1 DEF NoOrphans
    <3> QED BY <3>1, <3>2, <3>3
  <2> QED BY <2>1, <2>2, <2>3 DEF SteadyInv
<1> QED BY <1>4, <1>5, <1>6, <1>7, <1>8, <1>9, <1>10 DEF Next

\* As long as nothing disturbs it, UpdateLoadBalancer removes nothing.
LEMMA SteadyMeans ==
    ASSUME SteadyInv, Steady
    PROVE  NoOrphans
BY DEF SteadyInv, Steady, NodesQuiet, NoOrphans

\* A deletion removes what its service owns.
Removes(s) ==
    LET v == loc[<<s, "sync">>]
    IN  /\ EnsureLoadBalancerDeleted(s)
        /\ \/ pc[<<s, "sync">>] = "delLB" /\ CloudDeleteLB(v.lb)
           \/ \E i : OwnEIP(s, i) /\ CloudReleaseEIP(i)
           \/ /\ pc[<<s, "sync">>] = "delListener"
              /\ \E d \in v.doomed : CloudDeleteListener(d.id)

\* The step takes no ELB, no EIP and no listener that is not being deleted already.
TakesNothing ==
    /\ lbs' = lbs /\ eips' = eips
    /\ \A x \in listeners : ~x.dying => x \in listeners'

\* Where UpdateLoadBalancer takes no orphans, only deletions take anything.
LEMMA CloudEffect ==
    ASSUME TypeOK, OwnInv, NoOrphans, [Next]_vars
    PROVE  \/ TakesNothing
           \/ \E s \in Services : CloudCreateLB(NameOf[s], s \in EIPServices)
           \/ \E s \in Services : Removes(s)
<1>0. ASSUME UNCHANGED cloudVars PROVE TakesNothing
      BY <1>0 DEF cloudVars, TakesNothing
<1>1. ASSUME NEW p \in Procs, ensureListeners(p) PROVE TakesNothing
  <2>1. UNCHANGED <<lbs, eips>> BY <1>1, ensureListenersQuiet
  <2>2. listeners \subseteq listeners'
        BY <1>1 DEF ensureListeners, PoolGet, PoolPost, MemList, MemAdd, MemDel, LisGet,
           LisPost, EnsureHealthMonitor, CloudCreatePool, CloudSetMembers,
           CloudCreateListener, cloudVars
  <2> QED BY <2>1, <2>2 DEF TakesNothing
<1>2. CASE UNCHANGED vars BY <1>0, <1>2 DEF vars
<1>3. CASE ChangeNodes \/ Crash BY <1>0, <1>3 DEF ChangeNodes, Crash
<1>4. CASE Cloud BY <1>4 DEF Cloud, ReapListener, ReapPool, TakesNothing
<1>5. ASSUME NEW s \in Services, ApplyService(s) \/ RemoveService(s) PROVE TakesNothing
      BY <1>0, <1>5 DEF ApplyService, RemoveService
<1>6. ASSUME NEW s \in Services, NodeWorker(s) PROVE TakesNothing
  <2>1. <<s, "node">> \in Procs BY DEF Procs, Workers
  <2>2. ~OrphanListener(s) /\ ~OrphanPool(s)
        BY DEF NoOrphans, OrphanListener, OrphanPool
  <2> QED BY <1>0, <1>1, <1>6, <2>1, <2>2
          DEF NodeWorker, SyncNodes, NodesSynced, RetryNodes, UpdateLoadBalancer,
              UpdateGet, SyncList
<1>7. ASSUME NEW s \in Services, SyncWorker(s)
      PROVE  TakesNothing \/ CloudCreateLB(NameOf[s], s \in EIPServices) \/ Removes(s)
  <2> DEFINE p == <<s, "sync">>
  <2>1. p \in Procs /\ p[1] = s BY DEF Procs, Workers
  <2>2. CASE SyncService(s) \/ PublishStatus(s) \/ RemoveFinalizer(s) \/ Requeue(s)
        BY <1>0, <2>2 DEF SyncService, PublishStatus, RemoveFinalizer, Requeue
  <2>3. CASE EnsureLoadBalancer(s)
    <3>1. CASE EnsureGet(s) BY <1>0, <3>1 DEF EnsureGet
    <3>2. CASE CreateLoadBalancer(s) BY <1>0, <3>2 DEF CreateLoadBalancer
    <3>3. CASE EnsureELBSecurityGroup(s)
          BY <3>3 DEF EnsureELBSecurityGroup, TakesNothing
    <3> QED BY <1>1, <2>1, <2>3, <3>1, <3>2, <3>3 DEF EnsureLoadBalancer
  <2>4. CASE GetLoadBalancer(s) BY <1>0, <2>4 DEF GetLoadBalancer
  <2>5. CASE EnsureLoadBalancerDeleted(s)
    <3>1. CASE DeleteGet(s) BY <1>0, <3>1 DEF DeleteGet
    <3>2. CASE FindEIP(s) BY <1>0, <3>2 DEF FindEIP
    <3>3. CASE ReleaseBoundEIP(s)
      <4>1. Owns(p, "eipRelease", loc[p])
            BY <2>1, <3>3, WorkerOwns DEF ReleaseBoundEIP
      <4>2. OwnEIP(s, loc[p].pool) BY <2>1, <4>1 DEF Owns
      <4> QED BY <1>0, <2>5, <3>3, <4>2 DEF ReleaseBoundEIP, Removes
    <3>4. CASE ListListeners(s) BY <1>0, <3>4 DEF ListListeners
    <3>5. CASE DeleteListener(s) BY <1>0, <2>5, <3>5 DEF DeleteListener, Removes
    <3>6. CASE ListPools(s) BY <1>0, <3>6 DEF ListPools
    <3>7. CASE DeletePool(s) BY <3>7 DEF DeletePool, CloudDeletePool, TakesNothing
    <3>8. CASE DeleteLoadBalancer(s) BY <1>0, <2>5, <3>8 DEF DeleteLoadBalancer, Removes
    <3>9. CASE ReleaseOrphanedEIP(s)
      <4>1. \A i \in loc[p].eip : OwnEIP(s, i) BY <2>1, WorkerOwns DEF Owns
      <4> QED BY <1>0, <2>5, <3>9, <4>1 DEF ReleaseOrphanedEIP, Removes
    <3> QED BY <2>5, <3>1, <3>2, <3>3, <3>4, <3>5, <3>6, <3>7, <3>8, <3>9
            DEF EnsureLoadBalancerDeleted
  <2> QED BY <1>7, <2>2, <2>3, <2>4, <2>5 DEF SyncWorker
<1> QED BY <1>2, <1>3, <1>4, <1>5, <1>6, <1>7 DEF Next

\* The ELB keeps its listeners and its EIPs.
Stands(l) ==
    /\ l \in lbs'
    /\ \A x \in LiveListeners(l.id) : x \in listeners'
    /\ EIPsOf(l.id)' = EIPsOf(l.id)

\* Only the deletion of its own service takes anything from an ELB.
LEMMA Undisturbed ==
    ASSUME NamesDistinct, TypeOK, LifecycleInv, OwnInv, NoOrphans, [Next]_vars,
           NEW t \in Services, NEW l \in lbs, l.name = NameOf[t],
           ~EnsureLoadBalancerDeleted(t)
    PROVE  Stands(l)
<1>1. CASE TakesNothing BY <1>1 DEF TakesNothing, Stands, LiveListeners, EIPsOf
<1>2. ASSUME NEW s \in Services, CloudCreateLB(NameOf[s], s \in EIPServices)
      PROVE  Stands(l)
  <2> DEFINE eip == [id |-> nextId + 1, name |-> NameOf[s], lb |-> nextId]
  <2>1. /\ lbs \subseteq lbs' /\ UNCHANGED listeners
        /\ eips \subseteq eips' /\ eips' \subseteq eips \cup {eip}
        BY <1>2 DEF CloudCreateLB
  <2>2. eip.lb = nextId OBVIOUS
  <2> HIDE DEF eip
  <2>3. l.id # nextId BY CloudTypes DEF LifecycleInv, UniqueIds
  <2> QED BY <2>1, <2>2, <2>3 DEF Stands, LiveListeners, EIPsOf
<1>3. ASSUME NEW s \in Services, Removes(s) PROVE Stands(l)
  <2> DEFINE v == loc[<<s, "sync">>]
  <2>1. s # t BY <1>3 DEF Removes
  <2>2. NameOf[s] # NameOf[t] BY <2>1 DEF NamesDistinct
  <2>3. ASSUME pc[<<s, "sync">>] \in HoldingPCs PROVE v.lb # l.id
        BY <2>2, <2>3 DEF LifecycleInv, WorkerKnows, UniqueIds
  <2>4. CASE pc[<<s, "sync">>] = "delLB" /\ CloudDeleteLB(v.lb)
    <3>1. v.lb # l.id BY <2>3, <2>4 DEF HoldingPCs
    <3>2. PICK b : b = v.lb OBVIOUS
    <3>3. /\ eips' = {IF e.lb = b THEN [e EXCEPT !.lb = 0] ELSE e : e \in eips}
          /\ lbs' = {x \in lbs : x.id # b} /\ UNCHANGED listeners
          BY <2>4, <3>2 DEF CloudDeleteLB
    <3>4. eips \subseteq [id : Nat, name : STRING, lb : Nat] BY DEF TypeOK, CloudTypeOK
    <3>5. l.id # 0 BY DEF OwnInv, CloudInv
    <3>6. \A e : e.lb = l.id => (e \in eips' <=> e \in eips)
          BY <3>1, <3>2, <3>3, <3>4, <3>5
    <3> QED BY <3>1, <3>2, <3>3, <3>6 DEF Stands, LiveListeners, EIPsOf
  <2>5. ASSUME NEW i, OwnEIP(s, i), CloudReleaseEIP(i) PROVE Stands(l)
    <3>1. \A e \in EIPsOf(l.id) : e.id # i
      <4> SUFFICES ASSUME NEW e \in EIPsOf(l.id), e.id = i PROVE FALSE OBVIOUS
      <4>1. OwnEIP(t, e.id) BY EIPsAreOwn
      <4> QED BY <2>2, <2>5, <4>1 DEF OwnEIP, EIPsOf
    <3> QED BY <2>5, <3>1 DEF CloudReleaseEIP, Stands, LiveListeners, EIPsOf
  <2>6. ASSUME pc[<<s, "sync">>] = "delListener",
               NEW d \in v.doomed, CloudDeleteListener(d.id)
        PROVE  Stands(l)
    <3>1. v.lb # l.id BY <2>3, <2>6 DEF HoldingPCs
    <3>2. <<s, "sync">> \in Procs BY DEF Procs, Workers
    <3>3. OwnDoomed(listeners, v) BY <2>6, <3>2, WorkerOwns DEF Owns
    <3>4. \A x \in LiveListeners(l.id) : x.id # d.id
          BY <2>6, <3>1, <3>3 DEF OwnDoomed, LiveListeners
    <3>5. \A x \in LiveListeners(l.id) : x \in listeners'
          BY <2>6, <3>4 DEF CloudDeleteListener, LiveListeners
    <3> QED BY <2>6, <3>5 DEF CloudDeleteListener, Stands, EIPsOf
  <2> QED BY <1>3, <2>4, <2>5, <2>6 DEF Removes
<1> QED BY <1>1, <1>2, <1>3, CloudEffect

-----------------------------------------------------------------------------
(* What EnsureLoadBalancer has done so far.                                *)

\* The ports whose listener has yet to be found or created.
Pending(c, v) == v.todo \cup IF c \in PortPCs \ {"hm"} THEN {v.cur} ELSE {}

\* The other ports of the spec have their listener, and the ELB's EIPs are noted.
Progress(c, v) ==
    /\ c \in {"ensGet", "lbPost"} => v.todo = v.ports
    /\ c \in {"sg", "ensured"} => v.todo = {}
    /\ c \in EnsurePCs \cap HoldingPCs =>
         /\ \A q \in v.ports \ Pending(c, v) : ListenersNamed(v.lb, q.port) # {}
         /\ v.eip = {e.id : e \in EIPsOf(v.lb)}

\* The sync worker of s has done what the place it has reached says.
Configured(s) == Progress(pc[<<s, "sync">>], loc[<<s, "sync">>])

\* The service is served as its spec and its status say.
Serving(s) ==
    \E l \in LBsNamed(NameOf[s]) :
        /\ \A q \in ports[s] : ListenersNamed(l.id, q.port) # {}
        /\ ingress[s] = IF EIPsOf(l.id) # {} THEN {e.id : e \in EIPsOf(l.id)}
                                             ELSE {l.id}

\* A wanted service that is not queued is being ensured with its current spec, is about
\* to be queued again, or is served.
UpToDate(s) ==
    LET c == pc[<<s, "sync">>]
    IN  want[s] /\ ~queued[s] =>
            /\ c \in EnsurePCs \cup {"idle", "failed"}
            /\ c \in EnsurePCs => loc[<<s, "sync">>].ports = ports[s]
            /\ c = "idle" => Serving(s)

\* The inductive invariant behind SettledIsServed.
ServedInv == Steady => \A s \in Services : Configured(s) /\ UpToDate(s)

\* An ELB left alone keeps a listener on each port that has one.
LEMMA ListenersStand ==
    ASSUME NEW l, Stands(l), NEW n, ListenersNamed(l.id, n) # {}
    PROVE  ListenersNamed(l.id, n)' # {}
<1>1. PICK x \in LiveListeners(l.id) : x.port = n BY DEF ListenersNamed
<1>2. x \in listeners' /\ x.lb = l.id /\ ~x.dying BY <1>1 DEF Stands, LiveListeners
<1> QED BY <1>1, <1>2 DEF ListenersNamed, LiveListeners

\* One request of ensureListeners: it fails, or each port that was pending still is or has
\* a listener now.
ListenersGoOn(p) ==
    \/ pc'[p] = "failed" /\ loc'[p] = NoLoc
    \/ \E w, u : /\ w = loc[p] /\ u = loc'[p]
                 /\ u.ports = w.ports /\ u.eip = w.eip /\ u.lb = w.lb
                 /\ pc'[p] \in {"sg", "ensured"} => u.todo = {}
                 /\ \A q \in Pending(pc[p], w) :
                      \/ q \in Pending(pc'[p], u)
                      \/ ListenersNamed(w.lb, q.port)' # {}

\* Every request of ensureListeners is one.
LEMMA ensureListenersGoOn ==
    ASSUME TypeOK, NEW p \in Procs, ensureListeners(p)
    PROVE  ListenersGoOn(p)
<1>1. PICK w : w = loc[p] OBVIOUS
<1>2. WorkerTypeOK /\ w \in LocType BY <1>1 DEF TypeOK, WorkerTypeOK
<1>3. CASE Fail(p) BY <1>2, <1>3, GotoMoves DEF Fail, ListenersGoOn
<1>4. ASSUME NEW c, NEW u, Goto(p, c, u),
             u.ports = w.ports, u.eip = w.eip, u.lb = w.lb,
             c \in {"sg", "ensured"} => u.todo = {},
             \A q \in Pending(pc[p], w) :
                 q \in Pending(c, u) \/ ListenersNamed(w.lb, q.port)' # {}
      PROVE  ListenersGoOn(p)
  <2>1. pc'[p] = c /\ loc'[p] = u BY <1>2, <1>4, GotoMoves
  <2> QED BY <1>1, <1>4, <2>1 DEF ListenersGoOn
<1>5. CASE PoolGet(p)
  <2>1. PICK port \in w.todo : \E r \in Outcomes :
          LET found == PoolsNamed(w.lb, port.port)
              v == [w EXCEPT !.cur = port, !.todo = @ \ {port}]
          IN  IF r = "ok" /\ found # {}
              THEN \E q \in found : Goto(p, "memList", [v EXCEPT !.pool = q.id])
              ELSE Goto(p, "poolPost", v)
        BY <1>1, <1>5 DEF PoolGet
  <2> DEFINE v == [w EXCEPT !.cur = port, !.todo = @ \ {port}]
  <2>2. \E c \in {"memList", "poolPost"} : \E u :
          /\ Goto(p, c, u) /\ u.ports = w.ports /\ u.eip = w.eip /\ u.lb = w.lb
          /\ u.todo = w.todo \ {port} /\ u.cur = port
    <3>1. /\ v.ports = w.ports /\ v.eip = w.eip /\ v.lb = w.lb
          /\ v.todo = w.todo \ {port} /\ v.cur = port
          BY <1>2 DEF LocType
    <3>2. CASE Goto(p, "poolPost", v) BY <3>1, <3>2
    <3>3. ASSUME NEW q, Goto(p, "memList", [v EXCEPT !.pool = q.id])
          PROVE  \E u : /\ Goto(p, "memList", u)
                        /\ u.ports = w.ports /\ u.eip = w.eip /\ u.lb = w.lb
                        /\ u.todo = w.todo \ {port} /\ u.cur = port
      <4> DEFINE u == [v EXCEPT !.pool = q.id]
      <4>1. /\ u.ports = w.ports /\ u.eip = w.eip /\ u.lb = w.lb
            /\ u.todo = w.todo \ {port} /\ u.cur = port
            BY <1>2 DEF LocType
      <4> HIDE DEF u
      <4> QED BY <3>3, <4>1 DEF u
    <3> QED BY <2>1, <3>2, <3>3
  <2>3. PICK c \in {"memList", "poolPost"} : \E u :
          /\ Goto(p, c, u) /\ u.ports = w.ports /\ u.eip = w.eip /\ u.lb = w.lb
          /\ u.todo = w.todo \ {port} /\ u.cur = port
        BY <2>2
  <2>4. Pending(pc[p], w) = w.todo BY <1>5 DEF Pending, PoolGet, PortPCs
  <2> QED BY <1>4, <2>3, <2>4 DEF Pending, PortPCs
<1>6. CASE PoolPost(p)
  <2>1. PICK i : i = nextId OBVIOUS
  <2> DEFINE u == [w EXCEPT !.pool = i]
  <2>2. Fail(p) \/ Goto(p, "memList", u) BY <1>1, <1>6, <2>1 DEF PoolPost
  <2>3. /\ u.ports = w.ports /\ u.eip = w.eip /\ u.lb = w.lb
        /\ u.todo = w.todo /\ u.cur = w.cur
        BY <1>2 DEF LocType
  <2> HIDE DEF u
  <2>4. Pending(pc[p], w) = Pending("memList", u)
        BY <1>6, <2>3 DEF Pending, PoolPost, PortPCs
  <2> QED BY <1>3, <1>4, <2>2, <2>3, <2>4
<1>7. CASE MemList(p) \/ MemAdd(p) \/ MemDel(p)
  <2> DEFINE Same(u) == /\ u.ports = w.ports /\ u.todo = w.todo /\ u.cur = w.cur
                        /\ u.eip = w.eip /\ u.lb = w.lb
             Where == {"memList", "memAdd", "memDel", "lisGet"}
  <2>1. Fail(p) \/ \E c \in Where : \E u : Goto(p, c, u) /\ Same(u)
    <3>1. \A a, d : NextMember(a, d) \in Where BY DEF NextMember
    <3>2. /\ \A a, d : Same([w EXCEPT !.adds = a, !.dels = d])
          /\ \A a : Same([w EXCEPT !.adds = a])
          /\ \A d : Same([w EXCEPT !.dels = d])
          BY <1>2 DEF LocType
    <3> HIDE DEF Same, Where
    <3>3. CASE MemList(p) BY <1>1, <3>1, <3>2, <3>3 DEF MemList
    <3>4. CASE MemAdd(p) BY <1>1, <3>1, <3>2, <3>4 DEF MemAdd
    <3>5. CASE MemDel(p) BY <1>1, <3>1, <3>2, <3>5 DEF MemDel
    <3> QED BY <1>7, <3>3, <3>4, <3>5
  <2>2. ASSUME NEW c \in Where, NEW u, Goto(p, c, u), Same(u) PROVE ListenersGoOn(p)
    <3>1. pc[p] \in Where BY <1>7 DEF MemList, MemAdd, MemDel
    <3>2. Pending(pc[p], w) = Pending(c, u) BY <2>2, <3>1 DEF Pending, PortPCs
    <3> QED BY <1>4, <2>2, <3>2
  <2> QED BY <1>3, <2>1, <2>2
<1>8. CASE LisGet(p)
  <2>1. \/ Goto(p, "lisPost", w)
        \/ Goto(p, "hm", w) /\ ListenersNamed(w.lb, w.cur.port) # {}
        BY <1>1, <1>8 DEF LisGet
  <2>2. Pending(pc[p], w) = w.todo \cup {w.cur}
        BY <1>8 DEF Pending, LisGet, PortPCs
  <2>3. UNCHANGED listeners BY <1>8 DEF LisGet, cloudVars
  <2>4. CASE Goto(p, "lisPost", w) BY <1>4, <2>2, <2>4 DEF Pending, PortPCs
  <2>5. CASE Goto(p, "hm", w) /\ ListenersNamed(w.lb, w.cur.port) # {}
    <3>1. ListenersNamed(w.lb, w.cur.port)' # {}
          BY <2>3, <2>5 DEF ListenersNamed, LiveListeners
    <3> QED BY <1>4, <2>2, <2>5, <3>1 DEF Pending, PortPCs
  <2> QED BY <2>1, <2>4, <2>5
<1>9. CASE LisPost(p)
  <2>1. \/ Fail(p)
        \/ /\ Goto(p, "hm", w)
           /\ CloudCreateListener(w.lb, w.cur.port, Protocol(w.cur), w.pool)
        BY <1>1, <1>9 DEF LisPost
  <2>2. Pending(pc[p], w) = w.todo \cup {w.cur} BY <1>9 DEF Pending, LisPost, PortPCs
  <2>3. ASSUME Goto(p, "hm", w),
               CloudCreateListener(w.lb, w.cur.port, Protocol(w.cur), w.pool)
        PROVE  ListenersGoOn(p)
    <3> DEFINE new == [id |-> nextId, lb |-> w.lb, port |-> w.cur.port,
                       proto |-> Protocol(w.cur), pool |-> w.pool, dying |-> FALSE]
    <3>1. new \in listeners' BY <2>3 DEF CloudCreateListener
    <3>2. new.lb = w.lb /\ new.port = w.cur.port /\ ~new.dying OBVIOUS
    <3> HIDE DEF new
    <3>3. ListenersNamed(w.lb, w.cur.port)' # {}
          BY <3>1, <3>2 DEF ListenersNamed, LiveListeners
    <3> QED BY <1>4, <2>2, <2>3, <3>3 DEF Pending
  <2> QED BY <1>3, <2>1, <2>3
<1>10. CASE EnsureHealthMonitor(p)
  <2> DEFINE u == [w EXCEPT !.cur = NoPort, !.pool = 0]
             c == NextPort(p[2], w.todo)
  <2>1. Goto(p, c, u) BY <1>1, <1>10 DEF EnsureHealthMonitor
  <2>2. u.ports = w.ports /\ u.eip = w.eip /\ u.lb = w.lb /\ u.todo = w.todo
        BY <1>2 DEF LocType
  <2>3. c \in {"sg", "ensured"} => w.todo = {} BY DEF NextPort
  <2>4. Pending(pc[p], w) = w.todo BY <1>10 DEF Pending, EnsureHealthMonitor
  <2> HIDE DEF u, c
  <2> QED BY <1>4, <2>1, <2>2, <2>3, <2>4 DEF Pending
<1> QED BY <1>5, <1>6, <1>7, <1>8, <1>9, <1>10 DEF ensureListeners

\* What a step other than the service's deletion needs to be known.
Calm(t) ==
    /\ NamesDistinct /\ TypeOK /\ LifecycleInv /\ OwnInv /\ NoOrphans
    /\ [Next]_vars /\ ~EnsureLoadBalancerDeleted(t)

\* The progress made on an ELB that is left alone is kept.
LEMMA ProgressKept ==
    ASSUME NEW l, Stands(l), NEW c, NEW v, Progress(c, v),
           c \in EnsurePCs \cap HoldingPCs => v.lb = l.id
    PROVE  Progress(c, v)'
<1>1. ASSUME c \in EnsurePCs \cap HoldingPCs
      PROVE  /\ \A q \in v.ports \ Pending(c, v) : ListenersNamed(v.lb, q.port)' # {}
             /\ v.eip = {e.id : e \in EIPsOf(v.lb)'}
  <2>1. v.lb = l.id BY <1>1
  <2>2. \A q \in v.ports \ Pending(c, v) : ListenersNamed(l.id, q.port) # {}
        BY <1>1, <2>1 DEF Progress
  <2>3. v.eip = {e.id : e \in EIPsOf(l.id)} BY <1>1, <2>1 DEF Progress
  <2>4. EIPsOf(l.id)' = EIPsOf(l.id) BY DEF Stands
  <2>5. \A q \in v.ports \ Pending(c, v) : ListenersNamed(l.id, q.port)' # {}
        BY <2>2, ListenersStand
  <2> QED BY <2>1, <2>3, <2>4, <2>5
<1> QED BY <1>1 DEF Progress, Pending

\* A worker that does not move keeps its progress.
LEMMA ConfiguredKept ==
    ASSUME NEW t \in Services, Calm(t), Configured(t),
           pc'[<<t, "sync">>] = pc[<<t, "sync">>],
           loc'[<<t, "sync">>] = loc[<<t, "sync">>]
    PROVE  Configured(t)'
<1>1. PICK c : c = pc[<<t, "sync">>] OBVIOUS
<1>2. PICK v : v = loc[<<t, "sync">>] OBVIOUS
<1>3. Progress(c, v) BY <1>1, <1>2 DEF Configured
<1>4. Progress(c, v)'
  <2>1. CASE c \in EnsurePCs \cap HoldingPCs
    <3>1. PICK l \in lbs : l.name = NameOf[t] /\ l.id = v.lb
          BY <1>1, <1>2, <2>1 DEF Calm, LifecycleInv, WorkerKnows
    <3>2. Stands(l) BY <3>1, Undisturbed DEF Calm
    <3> QED BY <1>3, <3>1, <3>2, ProgressKept
  <2>2. CASE c \notin EnsurePCs \cap HoldingPCs BY <1>3, <2>2 DEF Progress
  <2> QED BY <2>1, <2>2
<1>5. c = pc'[<<t, "sync">>] /\ v = loc'[<<t, "sync">>] BY <1>1, <1>2
<1> QED BY <1>4, <1>5 DEF Configured, Progress, Pending

\* The worker goes where its progress is what has been done.
LEMMA ConfiguredMove ==
    ASSUME TypeOK, NEW t \in Services, NEW c, NEW v,
           Goto(<<t, "sync">>, c, v), Progress(c, v)'
    PROVE  Configured(t)'
<1>1. pc'[<<t, "sync">>] = c /\ loc'[<<t, "sync">>] = v
      BY ProcTypes, GotoMoves DEF TypeOK
<1> QED BY <1>1 DEF Configured, Progress, Pending

\* What is not being ensured has no progress to keep.
LEMMA NoProgress ==
    ASSUME NEW c, c \notin EnsurePCs, NEW v
    PROVE  Progress(c, v)'
BY DEF Progress, EnsurePCs

\* When ensureListeners begins, all ports are pending.
LEMMA ConfigureBegins ==
    ASSUME TypeOK, NEW t \in Services, pc[<<t, "sync">>] \in {"ensGet", "lbPost"},
           Configured(t), NEW b, NEW es,
           Configure(<<t, "sync">>, b, es), EIPsOf(b)' = es
    PROVE  Configured(t)'
<1> DEFINE p == <<t, "sync">>
           ids == {e.id : e \in es}
<1>1. PICK w : w = loc[p] OBVIOUS
<1>2. w \in LocType BY <1>1, ProcTypes DEF TypeOK
<1> DEFINE u == [w EXCEPT !.lb = b, !.eip = ids]
           c == NextPort(p[2], w.todo)
<1>3. Goto(p, c, u) BY <1>1 DEF Configure
<1>4. w.todo = w.ports BY <1>1 DEF Configured, Progress
<1>5. ids = {e.id : e \in EIPsOf(b)'} OBVIOUS
<1> HIDE DEF ids
<1>6. u.ports = w.ports /\ u.todo = w.todo /\ u.lb = b /\ u.eip = ids
      BY <1>2 DEF LocType
<1>7. c \in {"poolGet", "sg"} /\ (c = "sg" => w.todo = {}) BY DEF NextPort
<1> HIDE DEF u, c
<1>8. Pending(c, u) = u.todo BY <1>7 DEF Pending, PortPCs
<1>9. Progress(c, u)' 
  <2>1. Pending(c, u)' = u.todo BY <1>7 DEF Pending, PortPCs
  <2> QED BY <1>4, <1>5, <1>6, <1>7, <2>1 DEF Progress
<1> QED BY <1>3, <1>9, ConfiguredMove

\* Each request of EnsureLoadBalancer keeps the progress made.
LEMMA EnsureConfigures ==
    ASSUME NEW t \in Services, Calm(t), Configured(t), EnsureLoadBalancer(t)
    PROVE  Configured(t)'
<1> DEFINE p == <<t, "sync">>
<1>0. TypeOK /\ WorkerTypeOK /\ p \in Procs BY ProcTypes DEF Calm, TypeOK
<1>1. ASSUME Fail(p) PROVE Configured(t)'
  <2>1. Progress("failed", NoLoc)' BY NoProgress DEF EnsurePCs
  <2> QED BY <1>0, <1>1, <2>1, ConfiguredMove DEF Fail
<1>2. CASE EnsureGet(t)
  <2>1. CASE Fail(p) BY <1>1, <2>1
  <2>2. CASE Goto(p, "lbPost", loc[p])
    <3>1. PICK w : w = loc[p] OBVIOUS
    <3>2. w.todo = w.ports BY <1>2, <3>1 DEF EnsureGet, Configured, Progress
    <3>3. Progress("lbPost", w)' BY <3>2 DEF Progress, HoldingPCs
    <3> QED BY <1>0, <2>2, <3>1, <3>3, ConfiguredMove
  <2>3. ASSUME NEW l, Configure(p, l.id, EIPsOf(l.id)) PROVE Configured(t)'
    <3>1. PICK es : es = EIPsOf(l.id) OBVIOUS
    <3>2. EIPsOf(l.id)' = es BY <1>2, <3>1 DEF EnsureGet, cloudVars, EIPsOf
    <3>3. Configure(p, l.id, es) BY <2>3, <3>1
    <3> QED BY <1>0, <1>2, <3>2, <3>3, ConfigureBegins DEF EnsureGet
  <2> QED BY <1>2, <2>1, <2>2, <2>3 DEF EnsureGet
<1>3. CASE CreateLoadBalancer(t)
  <2>1. CASE Fail(p) BY <1>1, <2>1
  <2>2. PICK i : i = nextId OBVIOUS
  <2>3. PICK es : es = {e \in eips' : e.lb = i} OBVIOUS
  <2>4. EIPsOf(i)' = es BY <2>3 DEF EIPsOf
  <2>5. CASE Configure(p, i, es)
        BY <1>0, <1>3, <2>4, <2>5, ConfigureBegins DEF CreateLoadBalancer
  <2> QED BY <1>3, <2>1, <2>2, <2>3, <2>5 DEF CreateLoadBalancer
<1>4. CASE EnsureELBSecurityGroup(t)
  <2>1. PICK w : w = loc[p] OBVIOUS
  <2>2. pc[p] = "sg" /\ Goto(p, "ensured", w) BY <1>4, <2>1 DEF EnsureELBSecurityGroup
  <2>3. Progress("sg", w) BY <2>1, <2>2 DEF Configured
  <2>4. UNCHANGED <<listeners, eips>> BY <1>4 DEF EnsureELBSecurityGroup
  <2>5. /\ ListenersNamed(w.lb, 0)' = ListenersNamed(w.lb, 0)
        /\ \A n : ListenersNamed(w.lb, n)' = ListenersNamed(w.lb, n)
        /\ EIPsOf(w.lb)' = EIPsOf(w.lb)
        BY <2>4 DEF ListenersNamed, LiveListeners, EIPsOf
  <2>6. Progress("ensured", w)'
        BY <2>3, <2>5 DEF Progress, Pending, PortPCs, EnsurePCs, HoldingPCs
  <2> QED BY <1>0, <2>2, <2>6, ConfiguredMove
<1>5. CASE ensureListeners(p)
  <2>1. ListenersGoOn(p) BY <1>0, <1>5, ensureListenersGoOn
  <2>2. ListenersStep(p) BY <1>0, <1>5, ensureListenersMoves
  <2>3. CASE pc'[p] = "failed"
        BY <2>3 DEF Configured, Progress, EnsurePCs
  <2>4. ASSUME NEW w, NEW u, w = loc[p], u = loc'[p],
               u.ports = w.ports, u.eip = w.eip, u.lb = w.lb,
               pc'[p] \in {"sg", "ensured"} => u.todo = {},
               \A q \in Pending(pc[p], w) :
                   q \in Pending(pc'[p], u) \/ ListenersNamed(w.lb, q.port)' # {},
               pc'[p] # "failed"
        PROVE  Configured(t)'
    <3>1. PICK c, c2 : c = pc[p] /\ c2 = pc'[p] OBVIOUS
    <3>2. c \in EnsurePCs \cap HoldingPCs BY <2>2, <3>1 DEF ListenersStep
    <3>3. PICK l \in lbs : l.name = NameOf[t] /\ l.id = w.lb
          BY <2>4, <3>1, <3>2 DEF Calm, LifecycleInv, WorkerKnows
    <3>4. Stands(l) BY <3>3, Undisturbed DEF Calm
    <3>5. Progress(c, w) BY <2>4, <3>1 DEF Configured
    <3>6. Progress(c, w)' BY <3>3, <3>4, <3>5, ProgressKept
    <3>7. /\ \A q \in w.ports \ Pending(c, w) : ListenersNamed(w.lb, q.port)' # {}
          /\ w.eip = {e.id : e \in EIPsOf(w.lb)'}
          BY <3>2, <3>6 DEF Progress, Pending
    <3>8. \A q \in u.ports \ Pending(c2, u) : ListenersNamed(u.lb, q.port)' # {}
      <4> SUFFICES ASSUME NEW q \in u.ports, q \notin Pending(c2, u)
                   PROVE  ListenersNamed(w.lb, q.port)' # {}
          BY <2>4
      <4> QED BY <2>4, <3>1, <3>7
    <3>9. u.eip = {e.id : e \in EIPsOf(u.lb)'} BY <2>4, <3>7
    <3>10. c2 \notin {"ensGet", "lbPost"}
           BY <2>2, <2>4, <3>1 DEF ListenersStep, HoldingPCs, EnsurePCs
    <3>11. Progress(c2, u)' BY <2>4, <3>1, <3>8, <3>9, <3>10 DEF Progress, Pending
    <3> QED BY <2>4, <3>1, <3>11 DEF Configured, Progress, Pending
  <2> QED BY <2>1, <2>3, <2>4 DEF ListenersGoOn
<1> QED BY <1>2, <1>3, <1>4, <1>5 DEF EnsureLoadBalancer

\* Every step keeps the progress of the services' sync workers, or begins anew.
LEMMA ConfiguredStep ==
    ASSUME NamesDistinct, TypeOK, LifecycleInv, OwnInv, NoOrphans, [Next]_vars,
           NEW t \in Services, Configured(t)
    PROVE  Configured(t)'
<1> DEFINE p == <<t, "sync">>
<1>0. WorkerTypeOK /\ p \in Procs BY ProcTypes DEF TypeOK
<1>1. ASSUME pc'[p] \notin EnsurePCs PROVE Configured(t)'
      BY <1>1 DEF Configured, Progress, EnsurePCs
<1>2. CASE GetLoadBalancer(t) \/ EnsureLoadBalancerDeleted(t)
      BY <1>1, <1>2, DeletionGoesOn DEF DeletePCs, EnsurePCs
<1>3. CASE Crash BY <1>0, <1>1, <1>3 DEF Crash, EnsurePCs
<1>4. CASE PublishStatus(t) \/ RemoveFinalizer(t) \/ Requeue(t)
  <2>1. Goto(p, "idle", NoLoc) BY <1>4 DEF PublishStatus, RemoveFinalizer, Requeue
  <2> QED BY <1>0, <1>1, <2>1, GotoMoves DEF EnsurePCs
<1>5. CASE SyncService(t)
  <2>1. CASE Goto(p, "delCheck", NoLoc) BY <1>0, <1>1, <2>1, GotoMoves DEF EnsurePCs
  <2>2. CASE Goto(p, "ensGet", Call(ports[t], nodes))
    <3>1. PICK u : u = Call(ports[t], nodes) OBVIOUS
    <3>2. u.todo = u.ports BY <3>1 DEF Call, NoLoc
    <3>3. Progress("ensGet", u)' BY <3>2 DEF Progress, HoldingPCs
    <3> QED BY <2>2, <3>1, <3>3, ConfiguredMove
  <2> QED BY <1>5, <2>1, <2>2 DEF SyncService
<1>6. CASE EnsureLoadBalancer(t) /\ ~EnsureLoadBalancerDeleted(t)
      BY <1>6, EnsureConfigures DEF Calm
<1>7. CASE ~SyncWorker(t) /\ ~Crash /\ ~EnsureLoadBalancerDeleted(t)
      BY <1>7, SyncStays, ConfiguredKept DEF Calm
<1> QED BY <1>2, <1>3, <1>4, <1>5, <1>6, <1>7 DEF SyncWorker

\* Whoever is served stays served until the spec or the status changes.
LEMMA ServingKept ==
    ASSUME NEW t \in Services, Calm(t), Serving(t),
           ports'[t] = ports[t], ingress'[t] = ingress[t]
    PROVE  Serving(t)'
<1>1. PICK l \in LBsNamed(NameOf[t]) :
        /\ \A q \in ports[t] : ListenersNamed(l.id, q.port) # {}
        /\ ingress[t] = IF EIPsOf(l.id) # {} THEN {e.id : e \in EIPsOf(l.id)}
                                             ELSE {l.id}
      BY DEF Serving
<1>2. Stands(l) BY Undisturbed DEF Calm, LBsNamed
<1>3. l \in LBsNamed(NameOf[t])' BY <1>2 DEF Stands, LBsNamed
<1>4. \A q \in ports'[t] : ListenersNamed(l.id, q.port)' # {}
      BY <1>1, <1>2, ListenersStand
<1>5. EIPsOf(l.id)' = EIPsOf(l.id) BY <1>2 DEF Stands
<1> QED BY <1>1, <1>3, <1>4, <1>5 DEF Serving

\* A step that is not of a service's sync worker, and no crash, leaves its spec and its
\* status alone or queues it.
LEMMA SpecKept ==
    ASSUME TypeOK, [Next]_vars, NEW t \in Services, ~SyncWorker(t), ~Crash,
           want'[t], ~queued'[t]
    PROVE  want[t] /\ ~queued[t] /\ ports'[t] = ports[t] /\ ingress'[t] = ingress[t]
<1>0. ControllerTypeOK BY DEF TypeOK
<1>1. CASE UNCHANGED vars BY <1>1 DEF vars, k8sVars, ctlVars
<1>2. CASE Cloud BY <1>2 DEF Cloud, k8sVars, ctlVars
<1>3. CASE ChangeNodes BY <1>3 DEF ChangeNodes
<1>4. ASSUME NEW s \in Services, ApplyService(s)
      PROVE  want[t] /\ ~queued[t] /\ ports'[t] = ports[t] /\ ingress'[t] = ingress[t]
  <2>1. s # t BY <1>0, <1>4 DEF ApplyService, ControllerTypeOK
  <2> QED BY <1>0, <1>4, <2>1 DEF ApplyService, ControllerTypeOK
<1>5. ASSUME NEW s \in Services, RemoveService(s)
      PROVE  want[t] /\ ~queued[t] /\ ports'[t] = ports[t] /\ ingress'[t] = ingress[t]
  <2>1. s # t BY <1>0, <1>5 DEF RemoveService, ControllerTypeOK
  <2> QED BY <1>0, <1>5, <2>1 DEF RemoveService, ControllerTypeOK
<1>6. ASSUME NEW s \in Services, NodeWorker(s)
      PROVE  want[t] /\ ~queued[t] /\ ports'[t] = ports[t] /\ ingress'[t] = ingress[t]
  <2>1. CASE RetryNodes(s)
        BY <1>0, <2>1 DEF RetryNodes, ControllerTypeOK, k8sVars
  <2>2. CASE ~RetryNodes(s)
        BY <1>6, <2>2 DEF NodeWorker, SyncNodes, NodesSynced, k8sVars, ctlVars
  <2> QED BY <2>1, <2>2
<1>7. ASSUME NEW s \in Services, s # t, SyncWorker(s)
      PROVE  want[t] /\ ~queued[t] /\ ports'[t] = ports[t] /\ ingress'[t] = ingress[t]
      BY <1>0, <1>7 DEF SyncWorker, SyncService, PublishStatus, RemoveFinalizer, Requeue,
                        ControllerTypeOK, k8sVars, ctlVars
<1> QED BY <1>1, <1>2, <1>3, <1>4, <1>5, <1>6, <1>7 DEF Next

\* EnsureLoadBalancer works for the ports it was called with.
LEMMA EnsureKeepsPorts ==
    ASSUME TypeOK, NEW t \in Services, EnsureLoadBalancer(t)
    PROVE  \/ pc'[<<t, "sync">>] = "failed"
           \/ /\ pc'[<<t, "sync">>] \in EnsurePCs
              /\ loc'[<<t, "sync">>].ports = loc[<<t, "sync">>].ports
<1> DEFINE p == <<t, "sync">>
<1>0. WorkerTypeOK /\ p \in Procs BY ProcTypes DEF TypeOK
<1>1. PICK w : w = loc[p] OBVIOUS
<1>2. w \in LocType BY <1>0, <1>1 DEF WorkerTypeOK
<1>3. ASSUME NEW c, NEW u, Goto(p, c, u),
             c = "failed" \/ (c \in EnsurePCs /\ u.ports = w.ports)
      PROVE  \/ pc'[p] = "failed"
             \/ (pc'[p] \in EnsurePCs /\ loc'[p].ports = w.ports)
      BY <1>0, <1>3, GotoMoves
<1>4. CASE Fail(p) BY <1>1, <1>3, <1>4 DEF Fail
<1>5. CASE ensureListeners(p)
  <2>1. ListenersGoOn(p) BY <1>0, <1>5, ensureListenersGoOn
  <2>2. ListenersStep(p) BY <1>0, <1>5, ensureListenersMoves
  <2> QED BY <2>1, <2>2 DEF ListenersGoOn, ListenersStep
<1>6. CASE EnsureELBSecurityGroup(t)
      BY <1>1, <1>3, <1>6 DEF EnsureELBSecurityGroup, EnsurePCs
<1>7. CASE Goto(p, "lbPost", w) BY <1>1, <1>3, <1>7 DEF EnsurePCs
<1>8. ASSUME NEW b, NEW es, Configure(p, b, es)
      PROVE  \/ pc'[p] = "failed"
             \/ (pc'[p] \in EnsurePCs /\ loc'[p].ports = w.ports)
  <2> DEFINE ids == {e.id : e \in es}
             u == [w EXCEPT !.lb = b, !.eip = ids]
             c == NextPort(p[2], w.todo)
  <2>1. Goto(p, c, u) BY <1>1, <1>8 DEF Configure
  <2> HIDE DEF ids
  <2>2. u.ports = w.ports BY <1>2 DEF LocType
  <2>3. c \in EnsurePCs BY DEF NextPort, EnsurePCs
  <2> HIDE DEF u, c
  <2> QED BY <1>3, <2>1, <2>2, <2>3
<1>9. CASE EnsureGet(t) BY <1>1, <1>4, <1>7, <1>8, <1>9 DEF EnsureGet
<1>10. CASE CreateLoadBalancer(t)
  <2>1. PICK i, es : i = nextId /\ es = {e \in eips' : e.lb = nextId} OBVIOUS
  <2>2. Fail(p) \/ Configure(p, i, es) BY <1>10, <2>1 DEF CreateLoadBalancer
  <2> QED BY <1>1, <1>4, <1>8, <2>2
<1> QED BY <1>1, <1>5, <1>6, <1>9, <1>10 DEF EnsureLoadBalancer

\* What is published when EnsureLoadBalancer has returned is served.
LEMMA PublishServes ==
    ASSUME TypeOK, LifecycleInv, NEW t \in Services, Configured(t), PublishStatus(t),
           loc[<<t, "sync">>].ports = ports[t]
    PROVE  Serving(t)'
<1>1. PICK v : v = loc[<<t, "sync">>] OBVIOUS
<1>2. pc[<<t, "sync">>] = "ensured" BY DEF PublishStatus
<1>3. "ensured" \in EnsurePCs \cap HoldingPCs BY DEF EnsurePCs, HoldingPCs
<1>4. Progress("ensured", v) BY <1>1, <1>2 DEF Configured
<1>5. Pending("ensured", v) = {} BY <1>4 DEF Progress, Pending, PortPCs
<1>6. /\ \A q \in v.ports : ListenersNamed(v.lb, q.port) # {}
      /\ v.eip = {e.id : e \in EIPsOf(v.lb)}
      BY <1>3, <1>4, <1>5 DEF Progress
<1>7. PICK l \in lbs : l.name = NameOf[t] /\ l.id = v.lb
      BY <1>1, <1>2, <1>3 DEF LifecycleInv, WorkerKnows
<1>8. UNCHANGED cloudVars /\ ports' = ports BY DEF PublishStatus
<1>9. l \in LBsNamed(NameOf[t])' BY <1>7, <1>8 DEF LBsNamed, cloudVars
<1>10. /\ \A n : ListenersNamed(l.id, n)' = ListenersNamed(l.id, n)
       /\ EIPsOf(l.id)' = EIPsOf(l.id)
       BY <1>8 DEF cloudVars, ListenersNamed, LiveListeners, EIPsOf
<1>11. \A q \in ports'[t] : ListenersNamed(l.id, q.port)' # {}
       BY <1>1, <1>6, <1>7, <1>8, <1>10
<1>12. ingress'[t] = IF v.eip # {} THEN v.eip ELSE {v.lb}
       BY <1>1 DEF PublishStatus, TypeOK, ControllerTypeOK
<1>13. ingress'[t] = IF EIPsOf(l.id)' # {} THEN {e.id : e \in EIPsOf(l.id)'} ELSE {l.id}
  <2>1. v.eip = {e.id : e \in EIPsOf(l.id)'} BY <1>6, <1>7, <1>10
  <2>2. v.eip # {} <=> EIPsOf(l.id)' # {} BY <2>1
  <2> QED BY <1>7, <1>12, <2>1, <2>2
<1> QED BY <1>9, <1>11, <1>13 DEF Serving

\* Every step keeps the services up to date, or queues them.
LEMMA UpToDateStep ==
    ASSUME NamesDistinct, TypeOK, LifecycleInv, OwnInv, NoOrphans, [Next]_vars,
           NEW t \in Services, Configured(t), UpToDate(t)
    PROVE  UpToDate(t)'
<1> DEFINE p == <<t, "sync">>
           UpToDateNow == /\ pc'[p] \in EnsurePCs \cup {"idle", "failed"}
                          /\ pc'[p] \in EnsurePCs => loc'[p].ports = ports'[t]
                          /\ pc'[p] = "idle" => Serving(t)'
<1>0. WorkerTypeOK /\ ControllerTypeOK /\ p \in Procs BY ProcTypes DEF TypeOK
<1> SUFFICES ASSUME want'[t], ~queued'[t] PROVE UpToDateNow
    BY DEF UpToDate
<1>1. ~Crash /\ ~Requeue(t) BY <1>0 DEF Crash, Requeue, ControllerTypeOK
<1>2. CASE SyncService(t)
  <2>1. want[t] BY <1>2 DEF SyncService
  <2>2. PICK u : u = Call(ports[t], nodes) OBVIOUS
  <2>3. Goto(p, "ensGet", u) /\ UNCHANGED ports BY <1>2, <2>1, <2>2 DEF SyncService
  <2>4. u.ports = ports[t] BY <2>2 DEF Call, NoLoc
  <2>5. pc'[p] = "ensGet" /\ loc'[p] = u BY <1>0, <2>3, GotoMoves
  <2> QED BY <2>3, <2>4, <2>5 DEF EnsurePCs
<1>3. ASSUME UNCHANGED <<want, queued>>
      PROVE  /\ pc[p] \in EnsurePCs \cup {"idle", "failed"}
             /\ pc[p] \in EnsurePCs => loc[p].ports = ports[t]
             /\ pc[p] = "idle" => Serving(t)
      BY <1>3 DEF UpToDate
<1>4. CASE PublishStatus(t)
  <2>1. pc[p] = "ensured" /\ UNCHANGED <<want, queued>>
        BY <1>4 DEF PublishStatus, ctlVars
  <2>2. Serving(t)' BY <1>3, <1>4, <2>1, PublishServes DEF EnsurePCs
  <2>3. pc'[p] = "idle" BY <1>0, <1>4, GotoMoves DEF PublishStatus
  <2> QED BY <2>2, <2>3 DEF EnsurePCs
<1>5. CASE RemoveFinalizer(t)
      BY <1>3, <1>5 DEF RemoveFinalizer, ctlVars, EnsurePCs
<1>6. CASE EnsureLoadBalancer(t) /\ UNCHANGED <<k8sVars, ctlVars>>
  <2>1. pc[p] \in EnsurePCs BY <1>6, EnsureIsNoDeletion
  <2>2. loc[p].ports = ports[t] BY <1>3, <1>6, <2>1 DEF k8sVars, ctlVars
  <2>3. ports'[t] = ports[t] BY <1>6 DEF k8sVars
  <2> QED BY <1>6, <2>2, <2>3, EnsureKeepsPorts DEF EnsurePCs
<1>7. CASE (GetLoadBalancer(t) \/ EnsureLoadBalancerDeleted(t)) /\ UNCHANGED <<k8sVars, ctlVars>>
  <2>1. UNCHANGED <<want, queued>> BY <1>7 DEF k8sVars, ctlVars
  <2>2. pc[p] \in DeletePCs \ {"failed"}
        BY <1>7 DEF GetLoadBalancer, EnsureLoadBalancerDeleted, DeleteGet, FindEIP,
                    ReleaseBoundEIP, ListListeners, DeleteListener, ListPools, DeletePool,
                    DeleteLoadBalancer, ReleaseOrphanedEIP, DeletePCs
  <2> QED BY <1>3, <2>1, <2>2 DEF DeletePCs, EnsurePCs
<1>8. CASE ~SyncWorker(t)
  <2>1. pc'[p] = pc[p] /\ loc'[p] = loc[p] BY <1>1, <1>8, SyncStays
  <2>2. want[t] /\ ~queued[t] /\ ports'[t] = ports[t] /\ ingress'[t] = ingress[t]
        BY <1>1, <1>8, SpecKept
  <2>3. /\ pc[p] \in EnsurePCs \cup {"idle", "failed"}
        /\ pc[p] \in EnsurePCs => loc[p].ports = ports[t]
        /\ pc[p] = "idle" => Serving(t)
        BY <2>2 DEF UpToDate
  <2>4. ASSUME pc[p] = "idle" PROVE Serving(t)'
    <3>1. ~EnsureLoadBalancerDeleted(t)
          BY <2>4 DEF EnsureLoadBalancerDeleted, DeleteGet, FindEIP, ReleaseBoundEIP,
             ListListeners, DeleteListener, ListPools, DeletePool, DeleteLoadBalancer,
             ReleaseOrphanedEIP
    <3> QED BY <2>2, <2>3, <2>4, <3>1, ServingKept DEF Calm
  <2> QED BY <2>1, <2>2, <2>3, <2>4
<1> QED BY <1>1, <1>2, <1>4, <1>5, <1>6, <1>7, <1>8 DEF SyncWorker

-----------------------------------------------------------------------------
(* What a settled Service is left with.                                    *)

\* ServedInv is inductive under OwnInv and SteadyInv.
LEMMA ServedStep ==
    ASSUME NamesDistinct, TypeOK, LifecycleInv, OwnInv, SteadyInv, ServedInv, [Next]_vars
    PROVE  ServedInv'
<1> SUFFICES ASSUME Steady' PROVE \A t \in Services : Configured(t)' /\ UpToDate(t)'
    BY DEF ServedInv
<1>1. Steady
  <2>1. nodeChanges \in Nat /\ crashes \in Nat BY DEF TypeOK, ControllerTypeOK
  <2>2. nodeChanges' >= nodeChanges /\ crashes' >= crashes
    <3>1. CASE UNCHANGED vars \/ ChangeNodes \/ Crash \/ Cloud
          BY <2>1, <3>1 DEF vars, k8sVars, ctlVars, ChangeNodes, Crash, Cloud
    <3>2. ASSUME NEW s \in Services,
                 ApplyService(s) \/ RemoveService(s) \/ SyncWorker(s) \/ NodeWorker(s)
          PROVE  UNCHANGED <<nodeChanges, crashes>>
          BY <3>2 DEF ApplyService, RemoveService, SyncWorker, NodeWorker, SyncService,
             PublishStatus, RemoveFinalizer, Requeue, SyncNodes, NodesSynced, RetryNodes,
             k8sVars, ctlVars
    <3> QED BY <2>1, <3>1, <3>2 DEF Next
  <2> QED BY <2>1, <2>2 DEF Steady, SamePorts
<1>2. NoOrphans BY <1>1, SteadyMeans
<1>3. ASSUME NEW t \in Services PROVE Configured(t) /\ UpToDate(t)
      BY <1>1 DEF ServedInv
<1> QED BY <1>2, <1>3, ConfiguredStep, UpToDateStep

\* In the initial states nothing has been asked for.
LEMMA ServedStart == Init => SteadyInv /\ ServedInv
<1> SUFFICES ASSUME Init PROVE SteadyInv /\ ServedInv OBVIOUS
<1>1. \A s \in Services : /\ pc[<<s, "sync">>] = "idle" /\ pc[<<s, "node">>] = "idle"
                          /\ ~want[s] /\ ~nodeQueued[s]
      BY DEF Init, Procs, Workers
<1>2. SteadyInv BY <1>1 DEF SteadyInv, NoOrphans, NodesQuiet
<1>3. ServedInv
      BY <1>1 DEF ServedInv, Configured, Progress, UpToDate, EnsurePCs
<1> QED BY <1>2, <1>3

\* A listener is alone on its port, and its pool is there.
LEMMA ServingMeans ==
    ASSUME OwnInv, ProtocolsFixed, ServedInv, Steady
    PROVE  SettledIsServed
<1> SUFFICES ASSUME NEW s \in Services, want[s], Settled(s)
             PROVE  \E l \in LBsNamed(NameOf[s]) :
                      /\ \A q \in ports[s] : Served(l.id, q)
                      /\ ingress[s] = IF EIPsOf(l.id) # {}
                                      THEN {e.id : e \in EIPsOf(l.id)} ELSE {l.id}
    BY DEF SettledIsServed
<1>1. Serving(s) BY DEF ServedInv, UpToDate, Settled
<1>2. PICK l \in LBsNamed(NameOf[s]) :
        /\ \A q \in ports[s] : ListenersNamed(l.id, q.port) # {}
        /\ ingress[s] = IF EIPsOf(l.id) # {} THEN {e.id : e \in EIPsOf(l.id)}
                                             ELSE {l.id}
      BY <1>1 DEF Serving
<1>3. ASSUME NEW q \in ports[s] PROVE Served(l.id, q)
  <2>1. PICK x : x \in ListenersNamed(l.id, q.port) BY <1>2
  <2>2. ListenersNamed(l.id, q.port) = {x}
        BY <2>1 DEF OwnInv, CloudInv, OneListenerPerPort, ListenersNamed, LiveListeners
  <2>3. PoolLive(x.pool)
        BY <2>1 DEF OwnInv, CloudInv, ListenersHavePools, PoolLive, ListenersNamed,
                    LiveListeners
  <2> QED BY <2>1, <2>2, <2>3 DEF Served
<1> QED BY <1>2, <1>3

\* When the ELB names are distinct and no edit moves a port from TCP to UDP, then until
\* the node worker has something to do (after the first change of the nodes, or a crash)
\* a settled Service is served by its ELB on every port of its current spec, and its
\* status is the ELB's address, whatever calls fail and however Services are edited,
\* deleted and created again.
THEOREM SteadyIsServed ==
    ASSUME NamesDistinct, ProtocolsFixed
    PROVE  Spec => [](Steady => SettledIsServed)
<1>1. TypeOK /\ LifecycleInv /\ OwnInv /\ SteadyInv /\ ServedInv /\ [Next]_vars
      => SteadyInv' /\ ServedInv'
      BY SteadyStep, ServedStep
<1>2. OwnInv /\ ServedInv => (Steady => SettledIsServed) BY ServingMeans
<1> QED BY <1>1, <1>2, ServedStart, TypeCorrect, LifecycleInvariant, OwnInvariant, PTL
        DEF Spec

\* When moreover the edits keep the port numbers, a settled Service is served whatever
\* fails, whenever the manager crashes and however the nodes change: the node worker,
\* for whatever spec it was called, takes no listener away.  (Where edits change the port
\* numbers it may: run stale_spec.)
THEOREM SamePortsServed ==
    ASSUME NamesDistinct, ProtocolsFixed, SamePorts
    PROVE  Spec => []SettledIsServed
<1>1. (Steady => SettledIsServed) => SettledIsServed BY DEF Steady
<1> QED BY <1>1, SteadyIsServed, PTL
=============================================================================
