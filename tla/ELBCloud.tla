------------------------------ MODULE ELBCloud ------------------------------
(***************************************************************************)
(* The Open Telekom Cloud side of the system: the ELB v3 API and the VPC   *)
(* API (elastic IPs, security groups), as the client in                    *)
(* pkg/opentelekomcloud/loadbalancer/client.go uses them.  The service is  *)
(* external to the repository; what it refuses and what it does            *)
(* asynchronously is taken from the status codes, retries and comments of  *)
(* the client.                                                             *)
(*                                                                         *)
(* A call can fail.  Every call has an outcome:                            *)
(*   "ok"      the cloud answers (possibly with a 4xx that the state of    *)
(*             the cloud dictates: not found, conflict);                   *)
(*   "status"  the cloud answers with an error and does nothing;           *)
(*   "neterr"  the call fails before it reaches the cloud;                 *)
(*   "lost"    the cloud does what it was asked and the answer is lost.    *)
(* Everything but "ok" is charged against the budget MaxFaults.            *)
(***************************************************************************)
EXTENDS Integers, FiniteSets

CONSTANTS
    MaxFaults,           \* bound: failed calls and crashes in a behaviour
    BoundEIPReleasable   \* does the VPC API release an EIP that is bound?

ASSUME FaultsAssumption == MaxFaults \in Nat
ASSUME ReleasableAssumption == BoundEIPReleasable \in BOOLEAN

VARIABLES
    lbs,        \* load balancers: [id, name]
    eips,       \* elastic IPs: [id, name, lb], lb = 0 once unbound
    listeners,  \* [id, lb, port, proto, pool, dying]
    pools,      \* [id, lb, port, proto, dying]
    members,    \* [pool, addr, nodePort]
    monitors,   \* the ids of the pools that have a health monitor
    rules,      \* ingress rules of the VIP port's security group: [port, proto]
    nextId,     \* the next identifier the cloud hands out
    faults      \* faults so far

cloudVars == <<lbs, eips, listeners, pools, members, monitors, rules, nextId>>

Outcomes == {"ok", "status", "neterr", "lost"}

\* The cloud carried out (or judged) the request.
Applied(r) == r \in {"ok", "lost"}

\* A fault uses up the budget; "ok" does not.
Charge(r) ==
    \/ r = "ok" /\ UNCHANGED faults
    \/ r # "ok" /\ faults < MaxFaults /\ faults' = faults + 1

CloudInit ==
    /\ lbs = {} /\ eips = {} /\ listeners = {} /\ pools = {}
    /\ members = {} /\ monitors = {} /\ rules = {}
    /\ nextId = 1 /\ faults = 0

-----------------------------------------------------------------------------
(* Queries.  A listener or pool whose DELETE was accepted is "dying": no   *)
(* query shows it any more, but it still blocks what depends on it.        *)

LBsNamed(n) == {l \in lbs : l.name = n}
LBExists(id) == \E l \in lbs : l.id = id

\* The EIPs of an ELB, as the eips/publicips fields of its representation.
EIPsOf(id) == {e \in eips : e.lb = id}

LivePools(lb) == {q \in pools : q.lb = lb /\ ~q.dying}
PoolsNamed(lb, port) == {q \in LivePools(lb) : q.port = port}
PoolLive(id) == \E q \in pools : q.id = id /\ ~q.dying

LiveListeners(lb) == {l \in listeners : l.lb = lb /\ ~l.dying}
ListenersNamed(lb, port) == {l \in LiveListeners(lb) : l.port = port}

MembersOf(pool) == {m \in members : m.pool = pool}

\* An ELB with a listener or a pool left, dying ones included, answers its
\* DELETE with 409.
HasChildren(id) ==
    \/ \E l \in listeners : l.lb = id
    \/ \E q \in pools : q.lb = id

\* A pool that is some listener's default pool cannot be deleted.
PoolInUse(id) == \E l \in listeners : l.pool = id

-----------------------------------------------------------------------------
(* Effects of the mutating calls.                                          *)

\* POST loadbalancers: the ELB and, when a publicip block is sent, its EIP.
CloudCreateLB(n, withEIP) ==
    /\ lbs' = lbs \cup {[id |-> nextId, name |-> n]}
    /\ eips' = IF withEIP
               THEN eips \cup {[id |-> nextId + 1, name |-> n, lb |-> nextId]}
               ELSE eips
    /\ nextId' = nextId + 2
    /\ UNCHANGED <<listeners, pools, members, monitors, rules>>

\* DELETE loadbalancers: its EIP is unbound but not released.
CloudDeleteLB(id) ==
    /\ lbs' = {l \in lbs : l.id # id}
    /\ eips' = {IF e.lb = id THEN [e EXCEPT !.lb = 0] ELSE e : e \in eips}
    /\ UNCHANGED <<listeners, pools, members, monitors, rules, nextId>>

\* DELETE publicips.
CloudReleaseEIP(id) ==
    /\ eips' = {e \in eips : \/ e.id # id
                             \/ e.lb # 0 /\ ~BoundEIPReleasable}
    /\ UNCHANGED <<lbs, listeners, pools, members, monitors, rules, nextId>>

CloudCreatePool(lb, port, proto) ==
    /\ pools' = pools \cup {[id |-> nextId, lb |-> lb, port |-> port,
                             proto |-> proto, dying |-> FALSE]}
    /\ nextId' = nextId + 1
    /\ UNCHANGED <<lbs, eips, listeners, members, monitors, rules>>

CloudCreateListener(lb, port, proto, pool) ==
    /\ listeners' = listeners \cup {[id |-> nextId, lb |-> lb, port |-> port,
                                     proto |-> proto, pool |-> pool,
                                     dying |-> FALSE]}
    /\ nextId' = nextId + 1
    /\ UNCHANGED <<lbs, eips, pools, members, monitors, rules>>

\* DELETE listeners: accepted, carried out later by ReapListener.
CloudDeleteListener(id) ==
    /\ listeners' = {IF l.id = id THEN [l EXCEPT !.dying = TRUE] ELSE l :
                         l \in listeners}
    /\ UNCHANGED <<lbs, eips, pools, members, monitors, rules, nextId>>

\* DELETE of some members and, if hm holds, of the monitor of a pool; then, if
\* del holds, DELETE of the pool: refused while a listener uses it, and it
\* takes members and monitor with it otherwise.
CloudDeletePool(id, gone, hm, del) ==
    LET deleted == del /\ ~PoolInUse(id)
    IN  /\ members' = members \ (IF deleted THEN MembersOf(id) ELSE gone)
        /\ monitors' = IF hm \/ deleted THEN monitors \ {id} ELSE monitors
        /\ pools' = {IF deleted /\ q.id = id THEN [q EXCEPT !.dying = TRUE]
                                             ELSE q : q \in pools}
        /\ UNCHANGED <<lbs, eips, listeners, rules, nextId>>

CloudSetMembers(ms) ==
    /\ members' = ms
    /\ UNCHANGED <<lbs, eips, listeners, pools, monitors, rules, nextId>>

-----------------------------------------------------------------------------
(* The cloud finishes an accepted deletion.                                *)

ReapListener ==
    /\ \E l \in listeners : l.dying /\ listeners' = listeners \ {l}
    /\ UNCHANGED <<lbs, eips, pools, members, monitors, rules, nextId, faults>>

ReapPool ==
    /\ \E q \in pools : q.dying /\ pools' = pools \ {q}
    /\ UNCHANGED <<lbs, eips, listeners, members, monitors, rules, nextId, faults>>
=============================================================================
