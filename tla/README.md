# A verification of the Swiss OTC cloud controller manager

The repository holds the cloud controller manager (CCM) for Kubernetes on the
Open Telekom Cloud (`src/cmd`, `src/pkg`) and the infrastructure around it
(Terraform, charts, manifests, policies, workflows). The program is the CCM: one
Go process in which controllers of the library `k8s.io/cloud-provider` call the
provider of this repository. The *service controller* keeps one dedicated
elastic load balancer (ELB) per Service of type `LoadBalancer`; the *cloud node*
and *node lifecycle controllers* ask what became of the server of a node. The
provider keeps two pieces of state in memory, an IAM token and a cache of
servers. Everything else is in the cloud, every step is an HTTP request, and
every request can fail.

This directory models these parts, checks them with TLC and proves their central
properties with TLAPS.

## 1. Inventory

| component | state | operations | interacts with | hard because |
|---|---|---|---|---|
| **Load balancer provider** `loadbalancer.go` | none; locals of the running call | `EnsureLoadBalancer`, `UpdateLoadBalancer`, `EnsureLoadBalancerDeleted`, `GetLoadBalancer`; `ensureListeners`, `syncListeners`, `ensureELBSecurityGroup`, `GetLoadBalancerName`, `getHealthMonitorConfig` | called by two goroutines of the service controller, calls the client | get-then-create without atomicity, two callers for one ELB, partial failure, swallowed errors, retries, a 16-bit hash in names |
| **ELB/VPC client** `client.go` | IAM token and its expiry | one method per resource: get, ensure, delete; `ensureAuthenticated`, `authenticate` | the OTC APIs over HTTP | unread status codes, 409 retries, error bodies that decode to empty lists, a token without a lock |
| **OTC APIs** (external) | ELBs, listeners, pools, members, monitors, EIPs, security group rules, servers | create, list, delete; deletions finish later | the clients | asynchronous deletion, refusals that depend on other resources, lost answers |
| **Service controller** (external library, started by `cmd/`) | work queue, service cache, finalizer and status of each Service | sync of a Service, node sync, requeue | the provider, the Kubernetes API | concurrent workers, stale cache, crash |
| **InstancesV2** `instances_v2.go`, `ecs_client.go` | server cache with a lock and a 2 minute TTL | `InstanceExists`, `InstanceShutdown`, `InstanceMetadata` | the two node controllers, the ECS API | stale cache, addresses that change hands, errors read as "exists" |
| **Instances** (legacy) `instances.go` | none | constants, not implemented | | |
| **AK/SK signer** `aksk_signer.go` | none | `SignRequest` | the clients | canonical form of path and query |
| **Configuration** `config.go` | none after start | `LoadConfig`, `validateConfig`, `GetEndpoints` | all | which partial configurations pass |
| **Registration and start-up** `opentelekomcloud.go`, `cmd/` | none | sequential start | | |
| **Infrastructure** `.github/workflows`, `terraform`, charts, scripts | external | create and destroy a cluster | | order of destruction |

What makes each of them correct:

- *Provider and client with the service controller*: never two ELBs for a
  Service; never an ELB or an EIP that outlives its Service; once the controller
  is done, every port of the current spec is served by a listener, a pool, the
  nodes of the cluster and a health monitor, and an unwanted Service has no
  finalizer, address or ELB left; the retries end; a node that stays in the cluster is never taken out of
  a pool by a stale node list.
- *Token*: no request with an expired token; a token that is useless is not kept
  for good.
- *InstancesV2*: nothing is decided about a node on knowledge older than the
  cache may be; a node whose server is deleted is removed.
- *Names*: distinct Services have distinct ELB names.
- *Configuration*: what is accepted suffices for the requests made later.

The hazards that follow from this are listed with their lines in
`PROJECT.json`, each with the properties that watch over it.

## 2. Modules

```
ELBCloud  HealthMonitor
      \   /
   LoadBalancer <- ServiceController <-+- MCServiceController <-+- MCSharedName   (TLC)
                        |              |                        |
                        | implements   |               LBName --+
                        v              |
                    ServiceELB         +- ServiceControllerProofs <- ServiceLifecycleProofs
                                            <- ServiceSettlesProofs <- ServiceEIPProofs
                                            <- ServiceServedProofs <- ServiceBackendsProofs  (TLAPS)

CloudConfig <- IAMToken <-+- MCIAMToken (TLC)         InstancesV2 (TLC)
                          +- IAMTokenProofs (TLAPS)        ^- InstancesV2Proofs (TLAPS)
```

The operators whose comment begins with *Variant* are mistakes the code might
contain; no action uses them. They are there to show that each property would
notice one.

### Load balancers

**`ELBCloud`** is the cloud: the sets of resources, what a query shows, the
effect of each mutating call, and the completion of accepted deletions
(`ReapListener`, `ReapPool`). A call has one of four outcomes: `ok` (the cloud
answers; 404 and 409 are answers its state dictates), `status` (an error status
and no effect), `neterr` (the call never arrives) and `lost` (carried out, the
answer lost: the client's 30 second timeout). All but `ok` are charged against
`MaxFaults`. A deleted listener or pool is *dying* until it is reaped: no query
shows it any more, but its ELB still answers 409 and its pool is still in use.
That is what the client's retry on 409 presupposes (`client.go:401`).

**`HealthMonitor`** is the configuration of a pool's health monitor: the
defaults, what `getHealthMonitorConfig` takes over from the annotations, and
which configuration the API refuses (`DEVELOPMENT.md:143`).

**`LoadBalancer`** is the provider and its client. The goroutine
`<<s, "sync">>` runs `EnsureLoadBalancer` and `EnsureLoadBalancerDeleted` for
Service `s`, `<<s, "node">>` runs `UpdateLoadBalancer`. `pc` is the request a
goroutine sends next and `loc` its locals (the spec and nodes it was called
with, the ELB and EIP ids it has read, the lists still to be worked off). One
action is one request and the code up to the next one, with every outcome:

| code | actions |
|---|---|
| `EnsurePool` | `PoolGet`, `PoolPost` |
| `EnsureMembers` | `MemList`, `MemAdd`, `MemDel` |
| `EnsureListener` | `LisGet`, `LisPost` |
| `EnsureHealthMonitorWithConfig` | `EnsureHealthMonitor` |
| `EnsureLoadBalancer` | `EnsureGet`, `CreateLoadBalancer`, `ensureListeners`, `EnsureELBSecurityGroup` |
| `UpdateLoadBalancer`, `syncListeners` | `UpdateGet`, `SyncList`, `OrphanListener`, `OrphanPool`, `ensureListeners` |
| `EnsureLoadBalancerDeleted` | `DeleteGet`, `FindEIP`, `ReleaseBoundEIP`, `ListListeners`, `DeleteListener`, `ListPools`, `DeletePool`, `DeleteLoadBalancer`, `ReleaseOrphanedEIP` |
| `GetLoadBalancer` | `GetLoadBalancer` |

Errors go where the code sends them: to the caller (`Fail`), to a log line (the
action goes on), or nowhere (an unread status). Three requests are one action
each where no property can tell their order: GET and POST of a health monitor,
the rules of a security group, and a pool's deletion with its members and
monitor (any subset of which may fail).

**`ServiceController`** adds the caller: users who apply and remove Services,
nodes that come and go, crashes, the work queue with at most one sync per
Service, the finalizer set before `EnsureLoadBalancer` and removed after the
deletion, the status, the cached spec that node syncs use, and the requeue on
every error. The library is external; its behaviour is that of
`k8s.io/cloud-provider` in the version the repository depends on. `Spec` is the
whole system, `FairSpec` the same with fairness.

**`ServiceELB`** is what a Service may rely on: an ELB is provisioned only under
the finalizer and only when there is none, an address is published only while
there is an ELB, and the finalizer goes only when the ELB is gone.
`ServiceController` implements it under the mapping that sends the cloud's ELBs
with the Service's name to `elb` and a non-empty status to `published`.

**`LBName`** is `GetLoadBalancerName` with `generateShortHash`: the hash as a
recursive function over the character codes with the wrap-around of `int` and
the sign of Go's remainder. **`MCSharedName`** puts the names it computes for two
Services into `ServiceController`.

### Authentication

**`CloudConfig`** is which settings `validateConfig` and the start-up accept and
which of them each client sends. A configuration is the set of settings given.

**`IAMToken`** is the part of `ELBv3Client` that its goroutines share: the test
of the expiry with its margin (`ensureAuthenticated`), the POST to IAM and its
answers with and without a token (`authenticate`, `AuthenticateFails`), the
assignments to `authToken` (`StoreToken`) and `tokenExpiry` (`StoreExpiry`,
`NoTokenReceived`), the read for the header (`ReadToken`) and the request
(`SendRequest`). There is no lock, and a Go string is two words, so a token is
stored word by word in either order: two writers may leave the pointer of one
token with the length of another, and using a nil pointer with a length ends the
program (`Panic`). The signed requests of the ECS client, and of the ELB client
when it has both keys, are `SignRequest`. Time is kept as what is left of a
token's life and of the life the client believes in.

### Nodes

**`InstancesV2`** is the look-up of a node's server, by provider ID
(`GetServerByID`) and else by address in the cache (`CheckCache`, `ListServers`,
`ListServersFails`, `FillCache`, `LookUp`), the three answers
(`InstanceExists`, `InstanceShutdown`, `InstanceMetadata`) with what the two node
controllers do on them (delete the Node, taint it, write its provider ID once and
its address), and the machines meanwhile: created with an address another one
had, stopped, started, deleted for the time being, removed. `was` records how
long ago each server last had each status, so that a property can say how old the
knowledge is on which a decision rests.

## 3. Runs

Deadlock is not checked in any run, because each system rightly stops: nobody
edits anything, no node changes and no sync is due; a configuration is not
accepted; no node is registered.

### Runs that pass

| run | bounds | what it shows |
|---|---|---|
| `edits` | `MCServiceController`; one Service with specs {80/TCP}, {53/UDP} and both; 3 edits, 2 failing calls; two nodes of which one has no InternalIP; bound EIPs not releasable; health-check annotations that are not allowed (652,676 states) | `SettledIsServed`, `SettledIsGone`: whatever two calls fail, once the controller is done the current spec is served at the published address; or, if the Service is not wanted, its finalizer, its address and its ELB are gone. Its EIP may not be, where the second release was one of the failing calls, and the rules of the security group stay. `FaultFreeBackends`: while no call has failed, each port is balanced by the right protocol to exactly the nodes on the nodePort, with a monitor and a rule for its protocol. `FaultFreeEIPs`: nor is an EIP left behind, although the first release is refused. `MembersOnNodePort`: no failure mixes the members of two ports. |
| `races` | one Service, one port; 2 edits, 2 node changes, one failing call or crash, two nodes of which one may leave (1,716,687 states) | Both workers at once: `NoDuplicateELB`, `NoLeakedELB`, `NoLeakedEIP`, `SettledIsServed`, `StableMembersKept` (a node that stays leaves a pool only in the step that removes this pool), the refinement `ImplementsServiceELB`, and `TypeOK` and `LifecycleInv`, which the proofs use. |
| `liveness` | ports {80/TCP} or {53/UDP}; one node, which may leave; 2 edits, 1 node change, 1 failing call (210,721 states) | `EventuallyReleased`: an unwanted Service is released. `ComesToRest`: the two workers do not repair each other for ever, although every refusal requeues. |
| `tokens` | `MCIAMToken`; two goroutines with the ELB client, one with the ECS client; five configurations; tokens live 6 units, the fallback is 4, the margin 3, a call takes at most 1 (326,073 states) | `NoExpiredToken`, `ELBRequestsHaveSecrets`, `UnusableTokenIsRenewed`, and `TypeOK` and `TokenInv`, which the proofs use. |
| `instances` | two servers with one address, one node; the cache lives 1 unit, a call takes at most 1; one stop, start or deletion, two failing calls or crashes (190,647 states) | `DecisionsAreRecent`: a Node is deleted, tainted or given a provider ID only on account of a server that had its ID or address and that status recently. `DeletedNodeIsRemoved`: the node of a deleted server does not stay. `TypeOK` and `RecentInv`, which the proofs use. |

Why the bounds are enough:

- One Service: Services interact only through the ELB name (`NamesDistinct`,
  see 5) and a shared security group whose rules are only added to. The theorems
  are for any number of them.
- Three edits create, change and remove a Service, or create, remove and create
  it again; two faults reach every error path after every other, and fail a
  retry. With two faults `NoLeakedEIP` is false (`eip_leak`), so `edits` claims
  it without faults and `races` with one.
- Two node changes give the two workers three different node lists. `races` has
  one port because `SettledIsServed` is false when a node sync meets an edit of
  the ports (`stale_spec`); `edits` has the ports and no node changes.
- `MaxRetries` is 1 instead of 5: it bounds how often DELETE is repeated on a
  409. With 1, both the success after a retry and the exhaustion happen.
- The times of `tokens` are the smallest with
  `2 * MaxDelay < Margin` and `Fallback + MaxDelay <= Lifetime`, as 30 seconds,
  5 minutes, one hour and the life of a token are; the theorem is for all such.
- In `instances` two servers share one address, so that an entry of the cache
  can name a machine that is gone while another has its address. One change is a
  server stopped or deleted; longer histories are covered by the theorem.

### Runs that find a violation

Each looks for a violation of what the repository says of the program and finds
one; `PROJECT.json` quotes the line.

| run | what the code does instead |
|---|---|
| `stale_spec` | `UpdateLoadBalancer` runs with the spec the controller has cached. If `EnsureLoadBalancer` is creating the listener of a newer spec at that moment, `syncListeners` deletes it as orphaned. Both return success; the Service is left without its listener. |
| `eip_leak` | When both attempts to release an EIP fail, the second is logged and forgotten, the finalizer is removed, and no later sync knows the EIP. |
| `node_port` | A member is recognised by its address alone; a changed nodePort never reaches the pool. |
| `shared_name` | Two Services with long names that differ in "an" and "c0" have the same ELB name and publish the same address. The hash is computed with 24 bits instead of 64, for TLC; both names have equal hashes at any width, since 31 * 97 + 110 = 31 * 99 + 48. |
| `ghost_node` | A server that has been removed is not found, which counts as existing: its node stays for ever. |
| `config` | The example configuration of `config.go` (user name, password, project name, cluster id) is accepted. The ECS client signs its first request without keys and without a project: `NewECSClient` looks for keys only, and no client turns the project name into an ID. |
| `token_race` | A request reads `authToken` while another goroutine stores it, or after an answer without a token, and carries one that IAM never issued. |

### Fairness

- `ServiceController`: weak fairness for the two goroutines of each Service and
  for the cloud's completion of deletions. A goroutine that has started goes on
  (the client's 30 second timeout turns a silent cloud into an error), a queued
  key is picked up by the library's workers, and the retry on 409 only makes
  sense if deletions end.
- `IAMToken`: weak fairness for the start (the kubelet restarts the pod), each
  goroutine and the passing of time. That IAM answers well is not assumed.
- `InstancesV2`: weak fairness for the calls of both controllers, and for the
  lifecycle controller's call about each node, over which it goes every few
  seconds. With several nodes this would have to be strong, since the controller
  is busy with another one now and then; the runs have one.

Edits, changes of nodes and machines, failures, crashes, and in `InstancesV2`
the passing of time are never forced.

## 4. Proofs

TLAPS checks the following for every set of services, ports, nodes, goroutines
and servers and every value of the bounds.

| module | theorem | assumes | says |
|---|---|---|---|
| `ServiceControllerProofs` | `TypeCorrect` | | `Spec => []TypeOK` |
| `ServiceLifecycleProofs` | `LifecycleInvariant`, `NoDuplicates`, `NoLeaks` | `NamesDistinct` | `LifecycleInv`, `NoDuplicateELB`, `NoLeakedELB` always hold |
| | `Refinement` | `NamesDistinct` | `Spec => ImplementsServiceELB` |
| `ServiceSettlesProofs` | `UnwantedIsGone` | `NamesDistinct` | `SettledIsGone` always holds |
| | `MembersStay` | | `Spec => StableMembersKept` |
| `ServiceEIPProofs` | `EIPsAreReleased` | `NamesDistinct` | `FaultFreeEIPs` always holds |
| | `OneFaultLeaksNoEIP` | `NamesDistinct`, `BoundEIPReleasable` | `Spec => [](faults <= 1 => NoLeakedEIP)` |
| `ServiceServedProofs` | `OwnInvariant` | `NamesDistinct` | `OwnInv` always holds |
| | `SteadyIsServed` | `NamesDistinct`, `ProtocolsFixed` | `Spec => [](Steady => SettledIsServed)` |
| | `SamePortsServed` | `NamesDistinct`, `ProtocolsFixed`, `SamePorts` | `SettledIsServed` always holds |
| `ServiceBackendsProofs` | `FixedNodePorts` | `NamesDistinct`, `PortsFixed` | `MembersOnNodePort` always holds |
| | `BackendsComplete` | `NamesDistinct`, `PortsFixed`, `MonitorsAccepted` | `Spec => [](nodeChanges = 0 => FaultFreeBackends)` |
| | `AddressesAreApart` | `NamesDistinct` | `OneELBPerService` always holds |
| `IAMTokenProofs` | `TokenTypes`, `TokenInvariant`, `TokensAreFresh`, `ModeHasSecrets` | `TimesAssumption` | `TypeOK`, `TokenInv`, `NoExpiredToken`, `ELBRequestsHaveSecrets` always hold |
| `InstancesV2Proofs` | `InstancesTypes`, `RecentInvariant`, `DecisionsRestOnRecentServers` | | `TypeOK`, `RecentInv` always hold; `Spec => DecisionsAreRecent` |

Besides these, the ASSUMEs on the constants, which TLC evaluates in every run.
The hypotheses say what the environment must not do. None is idle: TLC finds a
counterexample without it, in the run named or in a small instance of
`MCServiceController`.

| hypothesis | means | without it |
|---|---|---|
| `NamesDistinct` | distinct Services have distinct ELB names | run `shared_name` |
| `BoundEIPReleasable` | the cloud releases an EIP that is bound | one failing call of the second attempt, the only one that then counts, leaks the EIP |
| `faults <= 1` | at most one failed call or crash so far | run `eip_leak` |
| `ProtocolsFixed` | no edit changes the protocol by which a port number is balanced | a GET of the listener that fails is followed by the POST of one with the other protocol: the port has two listeners of one name (section 6) |
| `Steady` | the edits keep the port numbers, or no node has changed and no crash has happened yet, so that `UpdateLoadBalancer` has not been called | run `stale_spec` |
| `PortsFixed` | no edit changes the protocol or the nodePort of a port number | run `node_port` |
| `MonitorsAccepted` | the API takes the health monitors that the annotations give | a delay above the timeout of 10 leaves the pool without a monitor (section 6) |
| `nodeChanges = 0` | the nodes are still the first ones | the workers' node lists differ, and the older may be written last (section 6) |

**`LifecycleInv`.** `NoDuplicateELB` is not inductive: the POST of
`CreateLoadBalancer` is safe only if no ELB of that name appeared since the GET.
`LifecycleInv` adds what the sync worker *knows* at each request
(`WorkerKnows`): about to create, or after the deletion, there is no ELB of its
name; wherever it holds an id, that id is the Service's own ELB; wherever it
ensures, the finalizer is there. It adds that ids are fresh (`UniqueIds`), so
that a DELETE by id removes just that ELB, and that a published address is
protected. Every request but two leaves the ELBs, finalizers and addresses alone
(`Untouched`), and such a step preserves the invariant if the mover knows enough
where it arrives (`SyncMove`) and whatever the node worker does (`NodeMove`);
creation and deletion are treated by themselves, with `NamesDistinct` for the
other Services. The same case split shows that each step is a step of
`ServiceELB` or a stutter.

**`GoneInv`** (`SettledIsGone`): a Service that is neither wanted nor queued is
being deleted by its sync worker, or is *clean*: idle, no finalizer, no address,
no ELB. A failed deletion is requeued, a finished one leaves it clean by
`LifecycleInv`, and once clean it stays clean because `ServiceELB` provisions
and publishes only under a finalizer: the refinement step does the work.

**`MembersInv`** (`StableMembersKept`): each worker in a call was given every
node that stays, plans to remove no member of such a node, and every member's
address is one that `EnsureMembers` could have added, so that a node without an
InternalIP is never a member. A plan made from any list of members is sound,
whatever the other worker does before it is carried out.

**`EIPInv`** (`FaultFreeEIPs`, while no call has failed): an EIP is bound to an
ELB of its name, or is in the notes of a deletion of its Service that is about
to release it. A deletion has noted every EIP of its ELB when it deletes it,
because no other step binds an EIP to that ELB (`UniqueIds`); until the notes are
empty the finalizer is there.

**`SingleFaultInv`** (`NoLeakedEIP` with one fault): as long as nothing has failed,
every EIP is bound, and a deletion past the first attempt finds none left on its
ELB (`NoneUnbound`). So the one fault happens either before the DELETE of the ELB,
and then the second list still has what it kept from being released and the
second attempt meets no fault any more; or later, when nothing is left to be
released. `EIPInv` holds throughout; that an ELB has one EIP at most
(`OneEIPPerELB`) is what makes the first attempt, which looks for one only,
enough.

**`OwnInv`** says what belongs to whom, whatever fails. Both workers of a Service,
and those of other Services, read ids and use them any number of steps later: what
a worker holds at each request (`Owns`) is a pool of the ELB it works on and for
the port it works on, listeners, pools and EIPs of that ELB, and ports of a spec
its Service once had. Since the cloud never hands out an id twice (`HandedOut`), this stays
true whatever happens to the resource meanwhile (`Aging`), and no step of another
worker needs to be looked at. Of the cloud it says that a listener's default
pool is never missing, not even under a listener that is being deleted
(`ListenersHavePools`), because the API refuses to delete a pool in use, and that
an ELB has one listener for a port.

**`ServedInv`** (`SettledIsServed`): the ports that `EnsureLoadBalancer` has worked
off have their listener and it has noted the ELB's EIPs (`Configured`), and a wanted Service
that is neither queued nor in a sync of its current spec is served (`UpToDate`).
This is stable because only the deletion of the same Service takes anything from
its ELB (`Stands`), which needs that `UpdateLoadBalancer` takes no listener for
an orphan: it was never called, or every spec it can be called for, however old,
has the same port numbers (`SteadyInv`). Failures need no case of their own: every
error of `EnsureLoadBalancer` that matters to a listener requeues the Service.

**`OnNodePorts`** (`MembersOnNodePort`): each member is on the nodePort of its pool's
port. `EnsureMembers` adds it for the pool it holds, which by `OwnInv` is a pool
for that port, and with `PortsFixed` the port says which nodePort.

**`BackendsInv`** (`FaultFreeBackends`): while nothing has failed and no node has
changed, the sync worker works on its ELB alone and what it has done for a port
(`Backed`: a pool with all nodes and a monitor) stays done until the deletion.
The invariant follows it request by request (`Backing`): when it is adding members,
the nodes still missing are those on its list; when it is at the listener, the
pool is filled. It needs one pool for a port (`OnePoolPerPort`), so that the
listener's default pool is the one that was filled. `UntimedMonitorsAccepted` says
when its hypothesis holds: where no Service has a valid timeout of its own or a
valid delay above ten; values that are not valid are ignored.

**`ClaimsInv`** (`OneELBPerService`): what a Service publishes, or is about to, are ids
of ELBs and EIPs that carry its name or once did; no other Service claims the same
id, because an id is claimed when it is handed out, and is handed out once.

**`TokenInv`** (`NoExpiredToken`): the expiry the client believes in is ahead of
*each word* of the token by at most one call (`MaxDelay`), however the writers
interleave, because whoever stores an expiry has stored or seen stored a token
that is no older than its own by more than a call. After the test against the
margin the token has at least `Margin - MaxDelay` left, less what passed since.
With `2 * MaxDelay < Margin` it is alive when it is sent.

**`RecentInv`** (`DecisionsAreRecent`): what a list of servers held was true no
longer ago than the call is old, the cache no longer ago than its age and one
call, what was found in it no longer ago than the TTL and two calls, and only
the holder of the lock fills it.

Every safety property of a passing run is stated by a theorem, under hypotheses
that the run satisfies; outside of these nothing is claimed. Only model-checked
are:

- The liveness properties `EventuallyReleased`, `ComesToRest`,
  `UnusableTokenIsRenewed` and `DeletedNodeIsRemoved`, which rest on fairness and
  ENABLED and so are beyond TLAPS.
- `LBName`: its hash is a recursive function over character codes; what it
  computes for every name is an induction over data. `NamesDistinct` stands for it
  in the proofs, and TLC refutes it for two names (`shared_name`).

## 5. Assumptions about what is not in the repository

- The API server never fails or conflicts: the finalizer, the status and the
  removal of both are single steps of the controller.
- A lost answer means that the request took effect before the timeout; it never
  takes effect later.
- OTC gives the VIP port of an ELB a security group (`DEVELOPMENT.md:162`); without
  one `ensureELBSecurityGroup` would add no rule (`loadbalancer.go:274`).
- The library keeps the spec of a Service that is being deleted in its cache until
  the finalizer is removed, so that node syncs meet the deletion.
- A deleted ELB disappears at once; listeners and pools may take their time.
- The answer to the creation of an ELB names its EIP, and an ELB has a VIP port.
- A node sync and a sync of the same Service may run at the same time, and the
  node lists they use may differ.
- Distinct Services have distinct ELB names, except in `shared_name`.
- The annotations of a Service do not change.
- The list of servers is complete in one answer, except for servers deleted for
  the time being; a server keeps its address; no two have the same at a time.
- IAM issues tokens that live longer than the hour the client assumes by default.
- The two words of the token are stored and read whole; `tokenExpiry`, three
  words, is modelled as one: a mix of two expiries is not.
- What a goroutine between the test of the expiry and the sending of its request
  waits for is bounded by the client's time-outs; one suspended for minutes by
  the scheduler is not considered.

## 6. Known deviations that have no run

What the models and the reading of the code also show, each a consequence of the
lines given:

- 53/TCP and 53/UDP share pool and listener names (`loadbalancer.go:351`); the
  second protocol is never served. If the GET of the listener fails just then, the
  POST of the second one succeeds and the port has two listeners of one name
  (`client.go:616`).
- `EnsureLoadBalancer` does not remove the listener of a port that left the spec
  (`loadbalancer.go:129`); only a node sync does.
- `EnsureLoadBalancerDeleted` releases the EIP first (`loadbalancer.go:198`). If
  it then fails and the Service is wanted again, the ELB is reused without one.
- A node change while a Service is synced for the first time may be lost:
  `UpdateLoadBalancer` finds no ELB yet, and as `GetLoadBalancer` then says there
  is none, nobody requeues the Service (`loadbalancer.go:166`). The sync goes on
  with the nodes it was called with. The same happens when both workers are in
  `EnsureMembers` and the one with the older nodes writes last (`client.go:512`).
- A member POST that fails is skipped, the sync succeeds and nothing requeues
  the Service (`client.go:527`).
- An ELB with a health-check delay of more than ten seconds and no timeout
  annotation gets no monitor: the API refuses it and the refusal is only logged
  (`loadbalancer.go:461`). Changed annotations never reach an existing monitor
  (`client.go:710`).
- The annotation `kubernetes.io/elb.id`, by which a Service is said to use an ELB
  that exists already (`docs/POST-INSTALL.md:49`,
  `deploy/k8s/elb/shared-elb-demo-service.yaml:2`), is read nowhere: such a Service
  gets an ELB of its own.
- Names are joined with hyphens they may contain: service `c` of namespace `a-b`
  and service `b-c` of namespace `a` have one ELB name (`loadbalancer.go:65`).
- A node whose server is not found when it is initialised keeps a provider ID
  that ends in its name (`instances_v2.go:178`); no look-up by ID works for it.

## 7. Not modelled

- The canonical form of a signed request and the hash functions
  (`aksk_signer.go`), the endpoints of a region and the defaults of the
  configuration (`config.go`), the conversion of addresses and node types in
  `InstanceMetadata`: pure text processing without state.
- Subnets, availability zones, CIDRs and bandwidths of an ELB: data that no
  control depends on but whether an EIP is wanted.
- `AssociateEIP`, `DeleteSecurityGroupRule`, `updateBackendPools` and
  `FindServerByIP`, which nothing calls, and the legacy `Instances`, whose
  methods are constants.
- The infrastructure: Terraform, charts, manifests and policies are declarative,
  scripts and workflows orchestrate external tools.

What would add most next: how the members of a pool follow the nodes when no sync
runs meanwhile; the composition of `IAMToken` with `LoadBalancer`, so that a
panic is a crash of the service controller; and the order in which the destroy
workflow removes what the CCM made.
