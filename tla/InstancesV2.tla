----------------------------- MODULE InstancesV2 -----------------------------
(***************************************************************************)
(* The node side of the provider: InstancesV2 (instances_v2.go) with its   *)
(* cache of servers and the ECS client (ecs_client.go), called by two      *)
(* controllers of Kubernetes (k8s.io/cloud-provider, external):            *)
(*   "meta"  the cloud node controller, InstanceMetadata: it gives a node  *)
(*           its provider ID, once, and keeps its addresses up to date;    *)
(*   "life"  the node lifecycle controller: it deletes a node of which     *)
(*           InstanceExists says that it does not exist, and taints one of *)
(*           which InstanceShutdown says that it is shut down.             *)
(*                                                                         *)
(* Machines come and go meanwhile: a node's machine is replaced, its       *)
(* address is given to another one.  Time is the age of what is known,     *)
(* up to the age after which it makes no difference.                       *)
(***************************************************************************)
EXTENDS Integers, FiniteSets

CONSTANTS
    Servers,   \* ECS servers, numbered in the order they are created
    Addrs,     \* fixed IPv4 addresses
    Nodes,     \* names of Kubernetes nodes
    NoServer,  \* no server: an empty provider ID
    Basic,     \* the provider ID of the basic metadata, ending in the node's name
    NoOne,     \* nobody holds cacheMu
    TTL,       \* cacheTTL (two minutes)
    MaxDelay,  \* the longest call, bounded by the time-outs of the client
    MaxFaults, \* bound: failed calls and crashes in a behaviour
    MaxChanges \* bound: stops, starts and deletions of servers

Workers == {"meta", "life"}

ASSUME ServersAssumption ==
    /\ Servers \subseteq Nat
    /\ NoServer \notin Servers /\ Basic \notin Servers /\ NoServer # Basic
    /\ NoOne \notin Workers
ASSUME TimesAssumption == TTL \in Nat \ {0} /\ MaxDelay \in Nat
ASSUME BoundsAssumption == MaxFaults \in Nat /\ MaxChanges \in Nat

\* What an answer relies on is never older: the cache is used while it is younger
\* than TTL; filling it and using it take a call each.
MaxAge == TTL - 1 + 2 * MaxDelay

Statuses == {"ACTIVE", "SHUTOFF", "SOFT_DELETED"}

VARIABLES
    status,      \* the status of a server, "new" before it is there, "gone" after
    addr,        \* its address
    host,        \* the server a node runs on
    registered,  \* the Node object exists
    providerID,  \* its spec.providerID
    nodeAddr,    \* its InternalIP
    tainted,     \* it has the shutdown taint
    cache,       \* the servers in the cache
    cacheAge,    \* the time since cacheTime, up to TTL
    lock,        \* who holds cacheMu for writing
    pc, loc,     \* what a controller does next, and the variables of its call
    age,         \* the time since its call began
    was,         \* the time since a server last had a status, up to MaxAge + 1
    faults,      \* faults so far
    changes      \* changes of servers so far

cloudVars == <<status, addr, was, changes>>
nodeVars == <<host, registered, providerID, nodeAddr, tainted>>
cacheVars == <<cache, cacheAge, lock>>
callVars == <<pc, loc, age>>
vars == <<cloudVars, nodeVars, cacheVars, callVars, faults>>

\* A server as the API shows it: its ID, its status (and its address, which it
\* keeps for life).
Record == [id : Servers, status : Statuses]

NoCall == [node |-> {}, op |-> "none", id |-> NoServer, addr |-> {},
           found |-> {}, list |-> {}]

Shown(s) == status[s] \in Statuses

\* Variant: the status is not decoded.
RecordWithoutStatus(s) == [id |-> s, status |-> ""]

RecordOf(s) == [id |-> s, status |-> status[s]]

Init ==
    /\ status = [s \in Servers |-> "new"]
    /\ addr \in [Servers -> Addrs]
    /\ host = [n \in Nodes |-> NoServer]
    /\ registered = [n \in Nodes |-> FALSE]
    /\ providerID = [n \in Nodes |-> NoServer]
    /\ nodeAddr = [n \in Nodes |-> {}]
    /\ tainted = [n \in Nodes |-> FALSE]
    /\ cache = {} /\ cacheAge = TTL /\ lock = NoOne
    /\ pc = [w \in Workers |-> "idle"]
    /\ loc = [w \in Workers |-> NoCall]
    /\ age = [w \in Workers |-> 0]
    /\ was = [s \in Servers |-> [t \in Statuses |-> MaxAge + 1]]
    /\ faults = 0 /\ changes = 0

-----------------------------------------------------------------------------
(* Machines and nodes.                                                     *)

SetStatus(s, t) ==
    /\ status' = [status EXCEPT ![s] = t]
    /\ was' = IF t \in Statuses THEN [was EXCEPT ![s][t] = 0] ELSE was
    /\ UNCHANGED addr

\* A machine for a node is created; its address is one that no server has.
CreateServer(s, n) ==
    /\ status[s] = "new" /\ \A u \in Servers : u < s => status[u] # "new"
    /\ \A u \in Servers : Shown(u) => addr[u] # addr[s]
    /\ SetStatus(s, "ACTIVE")
    /\ host' = [host EXCEPT ![n] = s]
    /\ UNCHANGED <<changes, registered, providerID, nodeAddr, tainted, cacheVars, callVars, faults>>

\* A machine is stopped, started, deleted for the time being, or removed.
ChangeServer(s) ==
    /\ Shown(s)
    /\ changes < MaxChanges /\ changes' = changes + 1
    /\ \/ status[s] = "ACTIVE" /\ SetStatus(s, "SHUTOFF")
       \/ status[s] = "SHUTOFF" /\ SetStatus(s, "ACTIVE")
       \/ status[s] # "SOFT_DELETED" /\ SetStatus(s, "SOFT_DELETED")
       \/ SetStatus(s, "gone")
    /\ UNCHANGED <<nodeVars, cacheVars, callVars, faults>>

\* The kubelet registers its node, or finds it and reports its own address.
RegisterNode(n) ==
    /\ host[n] # NoServer /\ status[host[n]] = "ACTIVE"
    /\ ~registered[n] \/ nodeAddr[n] # {addr[host[n]]}
    /\ registered' = [registered EXCEPT ![n] = TRUE]
    /\ nodeAddr' = [nodeAddr EXCEPT ![n] = {addr[host[n]]}]
    /\ UNCHANGED <<cloudVars, host, providerID, tainted, cacheVars, callVars, faults>>

-----------------------------------------------------------------------------
(* getServerForNode, refreshCache                                          *)

Fault == faults < MaxFaults /\ faults' = faults + 1

Goto(w, c, v) ==
    /\ pc' = [pc EXCEPT ![w] = c]
    /\ loc' = [loc EXCEPT ![w] = v]

\* A controller begins a call for the node as it sees it: by provider ID if the
\* node has one.
Call(w, n, op) ==
    /\ Goto(w, IF providerID[n] = NoServer THEN "cache" ELSE "get",
            [NoCall EXCEPT !.node = {n}, !.op = op, !.id = providerID[n],
                           !.addr = nodeAddr[n]])
    /\ age' = [age EXCEPT ![w] = 0]

\* The cloud node controller asks for the metadata of a node, the lifecycle
\* controller whether it exists.
BeginCall(w, n) ==
    /\ pc[w] = "idle" /\ registered[n]
    /\ Call(w, n, IF w = "meta" THEN "metadata" ELSE "exists")
    /\ UNCHANGED <<cloudVars, nodeVars, cacheVars, faults>>

\* GetServerByID: a failed call, "not found" and the ID of the basic metadata,
\* which no server has, all lead on to the address.
GetServerByID(w) ==
    /\ pc[w] = "get"
    /\ \/ /\ loc[w].id \in Servers /\ Shown(loc[w].id)
          /\ Goto(w, "answer", [loc[w] EXCEPT !.found = {RecordOf(loc[w].id)}])
          /\ UNCHANGED faults
       \/ /\ ~(loc[w].id \in Servers /\ Shown(loc[w].id))
          /\ Goto(w, "cache", loc[w])
          /\ UNCHANGED faults
       \/ Fault /\ Goto(w, "cache", loc[w])
    /\ UNCHANGED <<cloudVars, nodeVars, cacheVars, age>>

\* Variant: a cache that is filled stays in use.
CheckCacheForever(w) ==
    /\ pc[w] = "cache" /\ lock = NoOne
    /\ \/ cache # {} /\ Goto(w, "lookup", loc[w]) /\ UNCHANGED lock
       \/ cache = {} /\ Goto(w, "list", loc[w]) /\ lock' = w
    /\ UNCHANGED <<cloudVars, nodeVars, cache, cacheAge, age, faults>>

\* refreshCache, under the lock: a cache younger than TTL is used as it is.
CheckCache(w) ==
    /\ pc[w] = "cache" /\ lock = NoOne
    /\ \/ cacheAge < TTL /\ Goto(w, "lookup", loc[w]) /\ UNCHANGED lock
       \/ cacheAge >= TTL /\ Goto(w, "list", loc[w]) /\ lock' = w
    /\ UNCHANGED <<cloudVars, nodeVars, cache, cacheAge, age, faults>>

\* ListServers, with the lock held: the servers as they are when the API answers;
\* those that are deleted for the time being may be missing.
ListServers(w) ==
    /\ pc[w] = "list"
    /\ \E hidden \in SUBSET {s \in Servers : status[s] = "SOFT_DELETED"} :
         Goto(w, "fill", [loc[w] EXCEPT !.list =
                            {RecordOf(s) : s \in {u \in Servers : Shown(u)} \ hidden}])
    /\ UNCHANGED <<cloudVars, nodeVars, cacheVars, age, faults>>

\* Variant: the error return leaves the cache locked.
ListServersFailsLocked(w) ==
    /\ pc[w] = "list" /\ Fault
    /\ Goto(w, "answer", loc[w])
    /\ UNCHANGED <<cloudVars, nodeVars, cacheVars, age>>

\* ListServers fails: the cache and its time stay, the call has its error.
ListServersFails(w) ==
    /\ pc[w] = "list" /\ Fault
    /\ Goto(w, "answer", loc[w])
    /\ lock' = NoOne
    /\ UNCHANGED <<cloudVars, nodeVars, cache, cacheAge, age>>

\* refreshCache, the new cache and its time; the lock is given back.
FillCache(w) ==
    /\ pc[w] = "fill"
    /\ cache' = loc[w].list /\ cacheAge' = 0 /\ lock' = NoOne
    /\ Goto(w, "lookup", [loc[w] EXCEPT !.list = {}])
    /\ UNCHANGED <<cloudVars, nodeVars, age, faults>>

\* getServerForNode, the node's address in the cache, under the read lock.
LookUp(w) ==
    /\ pc[w] = "lookup" /\ lock = NoOne
    /\ LET matches == {r \in cache : addr[r.id] \in loc[w].addr}
       IN  IF matches = {} THEN Goto(w, "answer", loc[w])
           ELSE \E r \in matches : Goto(w, "answer", [loc[w] EXCEPT !.found = {r}])
    /\ UNCHANGED <<cloudVars, nodeVars, cacheVars, age, faults>>

-----------------------------------------------------------------------------
(* The answers, and what the controllers do with them.                     *)

Done(w) ==
    /\ Goto(w, "idle", NoCall)
    /\ age' = [age EXCEPT ![w] = 0]

\* Variant: a node is gone when its server is not found.
SaysGoneWhenMissing(found) == found = {}

\* InstanceExists says no: a server was found, and it is deleted.  Whatever goes
\* wrong in the look-up, and a server that is not found, counts as "exists".
SaysGone(found) == \E r \in found : r.status = "SOFT_DELETED"

\* InstanceShutdown says yes.
SaysShutdown(found) == \E r \in found : r.status = "SHUTOFF"

\* InstanceExists answers: the Node is deleted, or InstanceShutdown is asked next.
InstanceExists(w) ==
    /\ pc[w] = "answer" /\ loc[w].op = "exists"
    /\ \E n \in loc[w].node :
         \/ /\ SaysGone(loc[w].found)
            /\ registered' = [registered EXCEPT ![n] = FALSE]
            /\ providerID' = [providerID EXCEPT ![n] = NoServer]
            /\ nodeAddr' = [nodeAddr EXCEPT ![n] = {}]
            /\ tainted' = [tainted EXCEPT ![n] = FALSE]
            /\ Done(w)
         \/ /\ ~SaysGone(loc[w].found)
            /\ Goto(w, IF loc[w].id = NoServer THEN "cache" ELSE "get",
                    [loc[w] EXCEPT !.op = "shutdown", !.found = {}])
            /\ age' = [age EXCEPT ![w] = 0]
            /\ UNCHANGED <<registered, providerID, nodeAddr, tainted>>
    /\ UNCHANGED <<cloudVars, host, cacheVars, faults>>

\* InstanceShutdown answers: the taint is set or removed.
InstanceShutdown(w) ==
    /\ pc[w] = "answer" /\ loc[w].op = "shutdown"
    /\ \E n \in loc[w].node :
         tainted' = [tainted EXCEPT ![n] = registered[n] /\ SaysShutdown(loc[w].found)]
    /\ Done(w)
    /\ UNCHANGED <<cloudVars, host, registered, providerID, nodeAddr, cacheVars, faults>>

\* InstanceMetadata answers with the server's ID and address, or with the basic
\* metadata.  A provider ID is written once.
InstanceMetadata(w) ==
    /\ pc[w] = "answer" /\ loc[w].op = "metadata"
    /\ \E n \in loc[w].node :
         IF ~registered[n] THEN UNCHANGED <<providerID, nodeAddr>>
         ELSE IF loc[w].found = {}
         THEN /\ providerID' = [providerID EXCEPT ![n] = IF @ = NoServer THEN Basic ELSE @]
              /\ UNCHANGED nodeAddr
         ELSE \E r \in loc[w].found :
                /\ providerID' = [providerID EXCEPT ![n] = IF @ = NoServer THEN r.id ELSE @]
                /\ nodeAddr' = [nodeAddr EXCEPT ![n] = {addr[r.id]}]
    /\ Done(w)
    /\ UNCHANGED <<cloudVars, host, registered, tainted, cacheVars, faults>>

\* The controller manager crashes: calls and cache are lost.
Crash ==
    /\ Fault
    /\ cache' = {} /\ cacheAge' = TTL /\ lock' = NoOne
    /\ pc' = [w \in Workers |-> "idle"]
    /\ loc' = [w \in Workers |-> NoCall]
    /\ age' = [w \in Workers |-> 0]
    /\ UNCHANGED <<cloudVars, nodeVars>>

Up(n, bound) == IF n < bound THEN n + 1 ELSE bound

Tick ==
    /\ \A w \in Workers : pc[w] # "idle" => age[w] < MaxDelay
    /\ age' = [w \in Workers |-> IF pc[w] = "idle" THEN 0 ELSE age[w] + 1]
    /\ cacheAge' = Up(cacheAge, TTL)
    /\ was' = [s \in Servers |-> [t \in Statuses |->
                 IF status[s] = t THEN 0 ELSE Up(was[s][t], MaxAge + 1)]]
    /\ UNCHANGED <<status, addr, changes, nodeVars, cache, lock, pc, loc, faults>>

GetServerForNode(w) ==
    \/ GetServerByID(w) \/ CheckCache(w) \/ ListServers(w) \/ ListServersFails(w)
    \/ FillCache(w) \/ LookUp(w)

Answer(w) == InstanceExists(w) \/ InstanceShutdown(w) \/ InstanceMetadata(w)

Machines ==
    \/ \E s \in Servers : ChangeServer(s) \/ \E n \in Nodes : CreateServer(s, n)
    \/ \E n \in Nodes : RegisterNode(n)

Next ==
    \/ Machines \/ Tick \/ Crash
    \/ \E w \in Workers :
         GetServerForNode(w) \/ Answer(w) \/ \E n \in Nodes : BeginCall(w, n)

Spec == Init /\ [][Next]_vars

-----------------------------------------------------------------------------
(* Correctness properties.                                                 *)

PCs == {"idle", "get", "cache", "list", "fill", "lookup", "answer"}

CallType ==
    [node : SUBSET Nodes, op : {"none", "metadata", "exists", "shutdown"},
     id : Servers \cup {NoServer, Basic}, addr : SUBSET Addrs,
     found : SUBSET Record, list : SUBSET Record]

\* Every variable keeps its type.
TypeOK ==
    /\ status \in [Servers -> Statuses \cup {"new", "gone"}]
    /\ addr \in [Servers -> Addrs]
    /\ was \in [Servers -> [Statuses -> 0..(MaxAge + 1)]]
    /\ host \in [Nodes -> Servers \cup {NoServer}]
    /\ registered \in [Nodes -> BOOLEAN]
    /\ providerID \in [Nodes -> Servers \cup {NoServer, Basic}]
    /\ nodeAddr \in [Nodes -> SUBSET Addrs]
    /\ tainted \in [Nodes -> BOOLEAN]
    /\ cache \subseteq Record /\ cacheAge \in 0..TTL
    /\ lock \in Workers \cup {NoOne}
    /\ pc \in [Workers -> PCs] /\ loc \in [Workers -> CallType]
    /\ age \in [Workers -> 0..MaxDelay]
    /\ faults \in 0..MaxFaults /\ changes \in 0..MaxChanges

\* The record was true of its server at most a given time ago.
Recent(r, bound) == was[r.id][r.status] <= bound

\* The server is the one the call is about: named by the provider ID, or at the
\* address, that the node had when the call began.
Asked(w, s) == s = loc[w].id \/ addr[s] \in loc[w].addr

\* What a call knows of servers, and the cache holds of them, is recent enough at
\* every point, and the cache is only filled by the one who holds its lock.
Knows(w) ==
    /\ pc[w] \in {"list", "fill"} <=> lock = w
    /\ pc[w] # "fill" => loc[w].list = {}
    /\ pc[w] # "answer" => loc[w].found = {}
    /\ \A r \in loc[w].list : Recent(r, age[w])
    /\ pc[w] = "lookup" => \A r \in cache : Recent(r, TTL - 1 + MaxDelay + age[w])
    /\ \A r \in loc[w].found :
         Recent(r, TTL - 1 + MaxDelay + age[w]) /\ Asked(w, r.id)

RecentInv ==
    /\ \A s \in Servers : Shown(s) => was[s][status[s]] = 0
    /\ cacheAge < TTL => \A r \in cache : Recent(r, cacheAge + MaxDelay)
    /\ \A w \in Workers : Knows(w)

\* The controller that is at the answer of a call about node n has reason to say
\* that the node's server had status t: it had, at most MaxAge ago.
HasReason(w, n, t) ==
    /\ pc[w] = "answer" /\ n \in loc[w].node
    /\ \E s \in Servers : Asked(w, s) /\ was[s][t] <= MaxAge

\* A step takes a decision about node n only with such a reason.
DecidesWithReason(n) ==
    /\ (registered[n] /\ ~registered'[n]) =>
          \E w \in Workers : HasReason(w, n, "SOFT_DELETED")
    /\ (~tainted[n] /\ tainted'[n]) =>
          \E w \in Workers : HasReason(w, n, "SHUTOFF")
    /\ (providerID'[n] \in Servers /\ providerID[n] # providerID'[n]) =>
          \E w \in Workers, t \in Statuses :
             /\ n \in loc[w].node /\ Asked(w, providerID'[n])
             /\ was[providerID'[n]][t] <= MaxAge

\* No decision about a node rests on a state of the cloud older than the cache may
\* be, nor on a call that failed: a Node is deleted, or tainted, only if a server
\* with its ID or address was deleted, or shut down, at most MaxAge ago, and gets
\* only the ID of a server that was there with its address at most MaxAge ago.
DecisionsAreRecent == [][\A n \in Nodes : DecidesWithReason(n)]_vars

-----------------------------------------------------------------------------
(* Fairness: the calls of both controllers go on, and the lifecycle        *)
(* controller asks for a node whenever it is free to.  (It goes over all   *)
(* nodes every few seconds; for the one node of the runs weak fairness     *)
(* says so.)  Machines, failures and the passing of time are not fair.     *)

FairSpec ==
    /\ Spec
    /\ \A w \in Workers : WF_vars(GetServerForNode(w) \/ Answer(w))
    /\ \A n \in Nodes : WF_vars(BeginCall("life", n))

\* A node has the ID of a server that is shown as deleted.
Deleted(n) ==
    /\ registered[n] /\ providerID[n] \in Servers
    /\ status[providerID[n]] = "SOFT_DELETED"

\* Such a node does not stay in the cluster as long as the server is shown.
DeletedNodeIsRemoved == \A n \in Nodes : Deleted(n) ~> ~Deleted(n)

-----------------------------------------------------------------------------
(* What the repository says of the program and the code does not do.       *)

\* "InstanceExists returns true if the instance for the given node exists
\* according to the cloud provider" (instances_v2.go), on which the lifecycle
\* controller relies: a node whose server is gone is removed from the cluster.
GoneNodeIsRemoved ==
    \A n \in Nodes :
        (registered[n] /\ host[n] \in Servers /\ status[host[n]] = "gone") ~>
            (~registered[n] \/ status[host[n]] # "gone")
=============================================================================
