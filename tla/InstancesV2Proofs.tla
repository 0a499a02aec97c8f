-------------------------- MODULE InstancesV2Proofs --------------------------
(***************************************************************************)
(* Proofs about InstancesV2, for any servers, nodes, addresses and times:  *)
(* the type invariant, that what the cache and the calls know is recent,   *)
(* and that no decision of the two controllers rests on anything older     *)
(* than the cache may be, nor on a call that failed.                       *)
(***************************************************************************)
EXTENDS InstancesV2, TLAPS

LEMMA MaxAgeType == MaxAge \in Nat /\ MaxAge = TTL - 1 + 2 * MaxDelay
  BY TimesAssumption DEF MaxAge

\* The record of a server that is shown is a record.
LEMMA RecordType ==
    ASSUME NEW s \in Servers, Shown(s)
    PROVE  RecordOf(s) \in Record /\ RecordOf(s).id = s /\ RecordOf(s).status = status[s]
  BY DEF RecordOf, Record, Shown

\* The variables of a call stay typed when what was found or listed is set.
LEMMA CallUpdates ==
    ASSUME NEW v \in CallType, NEW rs \in SUBSET Record
    PROVE  /\ [v EXCEPT !.found = rs] \in CallType
           /\ [v EXCEPT !.list = rs] \in CallType
           /\ [v EXCEPT !.op = "shutdown", !.found = {}] \in CallType
  BY DEF CallType

LEMMA NoCallType == NoCall \in CallType
  BY DEF NoCall, CallType

\* Moving a call on keeps the types of the calls.
LEMMA GotoTypes ==
    ASSUME NEW w \in Workers, NEW c \in PCs, NEW v \in CallType,
           pc \in [Workers -> PCs], loc \in [Workers -> CallType], Goto(w, c, v)
    PROVE  pc' \in [Workers -> PCs] /\ loc' \in [Workers -> CallType]
  BY DEF Goto

LEMMA FaultTypes ==
    ASSUME faults \in 0..MaxFaults, Fault
    PROVE  faults' \in 0..MaxFaults
  BY BoundsAssumption DEF Fault

-----------------------------------------------------------------------------
\* Machines and nodes keep the types.
LEMMA MachinesTypes ==
    ASSUME TypeOK, Machines
    PROVE  TypeOK'
  <1>1. ASSUME NEW s \in Servers, NEW t \in Statuses \cup {"gone"}, SetStatus(s, t)
        PROVE  /\ status' \in [Servers -> Statuses \cup {"new", "gone"}]
               /\ was' \in [Servers -> [Statuses -> 0..(MaxAge + 1)]]
               /\ addr' = addr
    BY <1>1, MaxAgeType DEF SetStatus, TypeOK
  <1>2. ASSUME NEW s \in Servers, ChangeServer(s)
        PROVE  TypeOK'
    <2>1. PICK t \in Statuses \cup {"gone"} : SetStatus(s, t)
      BY <1>2 DEF ChangeServer, Statuses
    <2>2. changes' \in 0..MaxChanges
      BY <1>2, BoundsAssumption DEF ChangeServer, TypeOK
    <2>3. QED
      BY <1>1, <1>2, <2>1, <2>2 DEF ChangeServer, TypeOK, nodeVars, cacheVars, callVars
  <1>3. ASSUME NEW s \in Servers, NEW n \in Nodes, CreateServer(s, n)
        PROVE  TypeOK'
    <2>1. SetStatus(s, "ACTIVE")
      BY <1>3 DEF CreateServer
    <2>2. host' \in [Nodes -> Servers \cup {NoServer}]
      BY <1>3 DEF CreateServer, TypeOK
    <2>3. "ACTIVE" \in Statuses \cup {"gone"}
      BY DEF Statuses
    <2>4. QED
      BY <1>1, <1>3, <2>1, <2>2, <2>3 DEF CreateServer, TypeOK, cacheVars, callVars
  <1>4. ASSUME NEW n \in Nodes, RegisterNode(n)
        PROVE  TypeOK'
    <2>1. host[n] \in Servers
      BY <1>4 DEF RegisterNode, TypeOK
    <2>2. {addr[host[n]]} \in SUBSET Addrs
      BY <2>1 DEF TypeOK
    <2>3. QED
      BY <1>4, <2>2 DEF RegisterNode, TypeOK, cloudVars, cacheVars, callVars
  <1>5. QED
    BY <1>2, <1>3, <1>4 DEF Machines

\* The steps of a look-up keep the types.
LEMMA LookUpTypes ==
    ASSUME TypeOK, NEW w \in Workers, GetServerForNode(w)
    PROVE  TypeOK'
  <1> USE DEF PCs
  <1>1. loc[w] \in CallType
    BY DEF TypeOK
  <1>2. CASE GetServerByID(w)
    <2>1. faults' \in 0..MaxFaults
      BY <1>2, FaultTypes DEF GetServerByID, TypeOK
    <2>2. pc' \in [Workers -> PCs] /\ loc' \in [Workers -> CallType]
      <3>1. CASE Goto(w, "cache", loc[w])
        BY <1>1, <3>1, GotoTypes DEF TypeOK
      <3>2. CASE /\ loc[w].id \in Servers /\ Shown(loc[w].id)
                 /\ Goto(w, "answer", [loc[w] EXCEPT !.found = {RecordOf(loc[w].id)}])
        <4>1. {RecordOf(loc[w].id)} \in SUBSET Record
          BY <3>2, RecordType
        <4>2. [loc[w] EXCEPT !.found = {RecordOf(loc[w].id)}] \in CallType
          BY <1>1, <4>1, CallUpdates
        <4>3. QED
          BY <3>2, <4>2, GotoTypes DEF TypeOK
      <3>3. QED
        BY <1>2, <3>1, <3>2 DEF GetServerByID
    <2>3. QED
      BY <1>2, <2>1, <2>2 DEF GetServerByID, TypeOK, cloudVars, nodeVars, cacheVars
  <1>3. CASE CheckCache(w)
    <2>1. pc' \in [Workers -> PCs] /\ loc' \in [Workers -> CallType]
      BY <1>1, <1>3, GotoTypes DEF CheckCache, TypeOK
    <2>2. QED
      BY <1>3, <2>1 DEF CheckCache, TypeOK, cloudVars, nodeVars
  <1>4. CASE ListServers(w)
    <2>1. PICK shown \in SUBSET {s \in Servers : Shown(s)} :
            Goto(w, "fill", [loc[w] EXCEPT !.list = {RecordOf(s) : s \in shown}])
      BY <1>4 DEF ListServers
    <2>2. {RecordOf(s) : s \in shown} \in SUBSET Record
      BY RecordType
    <2>3. [loc[w] EXCEPT !.list = {RecordOf(s) : s \in shown}] \in CallType
      BY <1>1, <2>2, CallUpdates
    <2>4. pc' \in [Workers -> PCs] /\ loc' \in [Workers -> CallType]
      BY <2>1, <2>3, GotoTypes DEF TypeOK
    <2>5. QED
      BY <1>4, <2>4 DEF ListServers, TypeOK, cloudVars, nodeVars, cacheVars
  <1>5. CASE ListServersFails(w)
    <2>1. pc' \in [Workers -> PCs] /\ loc' \in [Workers -> CallType]
      BY <1>1, <1>5, GotoTypes DEF ListServersFails, TypeOK
    <2>2. faults' \in 0..MaxFaults
      BY <1>5, FaultTypes DEF ListServersFails, TypeOK
    <2>3. QED
      BY <1>5, <2>1, <2>2 DEF ListServersFails, TypeOK, cloudVars, nodeVars
  <1>6. CASE FillCache(w)
    <2>1. loc[w].list \subseteq Record
      BY <1>1 DEF CallType
    <2>2. [loc[w] EXCEPT !.list = {}] \in CallType
      BY <1>1, CallUpdates
    <2>3. pc' \in [Workers -> PCs] /\ loc' \in [Workers -> CallType]
      BY <1>6, <2>2, GotoTypes DEF FillCache, TypeOK
    <2>4. QED
      BY <1>6, <2>1, <2>3, TimesAssumption DEF FillCache, TypeOK, cloudVars, nodeVars
  <1>7. CASE LookUp(w)
    <2>1. pc' \in [Workers -> PCs] /\ loc' \in [Workers -> CallType]
      <3>1. CASE Goto(w, "answer", loc[w])
        BY <1>1, <3>1, GotoTypes DEF TypeOK
      <3>2. CASE \E r \in cache : Goto(w, "answer", [loc[w] EXCEPT !.found = {r}])
        <4>1. PICK r \in cache : Goto(w, "answer", [loc[w] EXCEPT !.found = {r}])
          BY <3>2
        <4>2. [loc[w] EXCEPT !.found = {r}] \in CallType
          BY <1>1, CallUpdates DEF TypeOK
        <4>3. QED
          BY <4>1, <4>2, GotoTypes DEF TypeOK
      <3>3. QED
        BY <1>7, <3>1, <3>2 DEF LookUp
    <2>2. QED
      BY <1>7, <2>1 DEF LookUp, TypeOK, cloudVars, nodeVars, cacheVars
  <1>8. QED
    BY <1>2, <1>3, <1>4, <1>5, <1>6, <1>7 DEF GetServerForNode

LEMMA AgeReset ==
    ASSUME age \in [Workers -> 0..MaxDelay], NEW w \in Workers, age' = [age EXCEPT ![w] = 0]
    PROVE  age' \in [Workers -> 0..MaxDelay]
  BY TimesAssumption

\* The end of a call keeps the types of the calls.
LEMMA DoneTypes ==
    ASSUME TypeOK, NEW w \in Workers, Done(w)
    PROVE  /\ pc' \in [Workers -> PCs] /\ loc' \in [Workers -> CallType]
           /\ age' \in [Workers -> 0..MaxDelay]
  BY NoCallType, GotoTypes, TimesAssumption DEF TypeOK, Done, PCs

\* The answers keep the types.
LEMMA AnswerTypes ==
    ASSUME TypeOK, NEW w \in Workers, Answer(w)
    PROVE  TypeOK'
  <1>1. loc[w] \in CallType
    BY DEF TypeOK
  <1>2. CASE InstanceExists(w)
    <2>1. PICK n \in loc[w].node :
            \/ /\ registered' = [registered EXCEPT ![n] = FALSE]
               /\ providerID' = [providerID EXCEPT ![n] = NoServer]
               /\ nodeAddr' = [nodeAddr EXCEPT ![n] = {}]
               /\ tainted' = [tainted EXCEPT ![n] = FALSE]
               /\ Done(w)
            \/ /\ Goto(w, IF loc[w].id = NoServer THEN "cache" ELSE "get",
                       [loc[w] EXCEPT !.op = "shutdown", !.found = {}])
               /\ age' = [age EXCEPT ![w] = 0]
               /\ UNCHANGED <<registered, providerID, nodeAddr, tainted>>
      BY <1>2 DEF InstanceExists
    <2>2. /\ registered' \in [Nodes -> BOOLEAN] /\ tainted' \in [Nodes -> BOOLEAN]
          /\ providerID' \in [Nodes -> Servers \cup {NoServer, Basic}]
          /\ nodeAddr' \in [Nodes -> SUBSET Addrs]
      BY <2>1 DEF TypeOK
    <2>3. /\ pc' \in [Workers -> PCs] /\ loc' \in [Workers -> CallType]
          /\ age' \in [Workers -> 0..MaxDelay]
      <3>1. CASE Done(w)
        BY <3>1, DoneTypes
      <3>2. CASE /\ Goto(w, IF loc[w].id = NoServer THEN "cache" ELSE "get",
                         [loc[w] EXCEPT !.op = "shutdown", !.found = {}])
                 /\ age' = [age EXCEPT ![w] = 0]
        <4>1. [loc[w] EXCEPT !.op = "shutdown", !.found = {}] \in CallType
          BY <1>1, CallUpdates
        <4>2. (IF loc[w].id = NoServer THEN "cache" ELSE "get") \in PCs
          BY DEF PCs
        <4>3. pc' \in [Workers -> PCs] /\ loc' \in [Workers -> CallType]
          BY <3>2, <4>1, <4>2, GotoTypes DEF TypeOK
        <4>4. age' \in [Workers -> 0..MaxDelay]
          BY <3>2, AgeReset DEF TypeOK
        <4>5. QED
          BY <4>3, <4>4
      <3>3. QED
        BY <2>1, <3>1, <3>2
    <2>4. QED
      BY <1>2, <2>2, <2>3 DEF InstanceExists, TypeOK, cloudVars, cacheVars
  <1>3. CASE InstanceShutdown(w)
    <2>1. tainted' \in [Nodes -> BOOLEAN]
      BY <1>3 DEF InstanceShutdown, TypeOK, SaysShutdown
    <2>2. QED
      BY <1>3, <2>1, DoneTypes DEF InstanceShutdown, TypeOK, cloudVars, cacheVars
  <1>4. CASE InstanceMetadata(w)
    <2>1. \A r \in loc[w].found : r.id \in Servers
      BY <1>1 DEF CallType, Record
    <2>2. PICK n \in loc[w].node :
            \/ UNCHANGED <<providerID, nodeAddr>>
            \/ /\ providerID' = [providerID EXCEPT ![n] = IF @ = NoServer THEN Basic ELSE @]
               /\ UNCHANGED nodeAddr
            \/ \E r \in loc[w].found :
                 /\ providerID' = [providerID EXCEPT ![n] = IF @ = NoServer THEN r.id ELSE @]
                 /\ nodeAddr' = [nodeAddr EXCEPT ![n] = {addr[r.id]}]
      BY <1>4 DEF InstanceMetadata
    <2>3. /\ providerID' \in [Nodes -> Servers \cup {NoServer, Basic}]
          /\ nodeAddr' \in [Nodes -> SUBSET Addrs]
      <3>1. CASE \E r \in loc[w].found :
                   /\ providerID' = [providerID EXCEPT ![n] = IF @ = NoServer THEN r.id ELSE @]
                   /\ nodeAddr' = [nodeAddr EXCEPT ![n] = {addr[r.id]}]
        <4>1. PICK r \in loc[w].found :
                   /\ providerID' = [providerID EXCEPT ![n] = IF @ = NoServer THEN r.id ELSE @]
                   /\ nodeAddr' = [nodeAddr EXCEPT ![n] = {addr[r.id]}]
          BY <3>1
        <4>2. r.id \in Servers /\ {addr[r.id]} \in SUBSET Addrs
          BY <2>1 DEF TypeOK
        <4>3. QED
          BY <4>1, <4>2 DEF TypeOK
      <3>2. QED
        BY <2>2, <3>1 DEF TypeOK
    <2>4. QED
      BY <1>4, <2>3, DoneTypes DEF InstanceMetadata, TypeOK, cloudVars, cacheVars
  <1>5. QED
    BY <1>2, <1>3, <1>4 DEF Answer

LEMMA UpType ==
    ASSUME NEW b \in Nat, NEW n \in 0..b
    PROVE  Up(n, b) \in 0..b /\ Up(n, b) <= n + 1 /\ (Up(n, b) < b => Up(n, b) = n + 1)
  BY DEF Up

\* Time passing keeps the types.
LEMMA TickTypes ==
    ASSUME TypeOK, Tick
    PROVE  TypeOK'
  <1>1. age' \in [Workers -> 0..MaxDelay]
    <2>1. SUFFICES ASSUME NEW w \in Workers, pc[w] # "idle"
                   PROVE  age[w] + 1 \in 0..MaxDelay
      BY TimesAssumption DEF TypeOK, Tick
    <2>2. age[w] \in 0..MaxDelay /\ age[w] < MaxDelay
      BY <2>1 DEF TypeOK, Tick
    <2>3. QED
      BY <2>2, TimesAssumption
  <1>2. cacheAge' \in 0..TTL
    BY UpType, TimesAssumption DEF TypeOK, Tick
  <1>3. was' \in [Servers -> [Statuses -> 0..(MaxAge + 1)]]
    <2>1. SUFFICES ASSUME NEW s \in Servers, NEW t \in Statuses
                   PROVE  Up(was[s][t], MaxAge + 1) \in 0..(MaxAge + 1)
      BY MaxAgeType DEF TypeOK, Tick
    <2>2. was[s][t] \in 0..(MaxAge + 1)
      BY DEF TypeOK
    <2>3. QED
      <3>1. MaxAge + 1 \in Nat
        BY MaxAgeType
      <3>2. QED
        BY <2>2, <3>1, UpType
  <1>4. QED
    BY <1>1, <1>2, <1>3 DEF TypeOK, Tick, nodeVars

\* Every variable keeps its type.
THEOREM InstancesTypes == Spec => []TypeOK
  <1>1. ASSUME Init
        PROVE  TypeOK
    <2>1. was \in [Servers -> [Statuses -> 0..(MaxAge + 1)]]
      BY <1>1, MaxAgeType DEF Init
    <2>2. loc \in [Workers -> CallType]
      BY <1>1, NoCallType DEF Init
    <2>3. pc \in [Workers -> PCs] /\ age \in [Workers -> 0..MaxDelay]
      BY <1>1, TimesAssumption DEF Init, PCs
    <2>4. /\ cacheAge \in 0..TTL /\ faults \in 0..MaxFaults /\ changes \in 0..MaxChanges
      BY <1>1, TimesAssumption, BoundsAssumption DEF Init
    <2>5. QED
      BY <1>1, <2>1, <2>2, <2>3, <2>4 DEF Init, TypeOK
  <1>2. ASSUME TypeOK, [Next]_vars
        PROVE  TypeOK'
    <2>1. CASE Crash
      <3>1. faults' \in 0..MaxFaults
        BY <1>2, <2>1, FaultTypes DEF Crash, TypeOK
      <3>2. pc' \in [Workers -> PCs] /\ age' \in [Workers -> 0..MaxDelay]
        BY <2>1, TimesAssumption DEF Crash, PCs
      <3>3. loc' \in [Workers -> CallType] /\ cacheAge' \in 0..TTL
        BY <2>1, NoCallType, TimesAssumption DEF Crash
      <3>4. QED
        BY <1>2, <2>1, <3>1, <3>2, <3>3 DEF Crash, TypeOK, cloudVars, nodeVars
    <2>2. ASSUME NEW w \in Workers, NEW n \in Nodes, BeginCall(w, n)
          PROVE  TypeOK'
      <3>1. PICK op \in {"metadata", "exists"} : Call(w, n, op)
        BY <2>2 DEF BeginCall
      <3>2. [NoCall EXCEPT !.node = {n}, !.op = op, !.id = providerID[n],
                           !.addr = nodeAddr[n]] \in CallType
        BY <1>2 DEF TypeOK, NoCall, CallType
      <3>3. (IF providerID[n] = NoServer THEN "cache" ELSE "get") \in PCs
        BY DEF PCs
      <3>4. pc' \in [Workers -> PCs] /\ loc' \in [Workers -> CallType]
        BY <1>2, <3>1, <3>2, <3>3, GotoTypes DEF Call, TypeOK
      <3>5. age' \in [Workers -> 0..MaxDelay]
        BY <1>2, <3>1, TimesAssumption DEF Call, TypeOK
      <3>6. QED
        BY <1>2, <2>2, <3>4, <3>5 DEF BeginCall, TypeOK, cloudVars, nodeVars, cacheVars
    <2>3. CASE UNCHANGED vars
      BY <1>2, <2>3 DEF TypeOK, vars, cloudVars, nodeVars, cacheVars, callVars
    <2>4. QED
      BY <1>2, <2>1, <2>2, <2>3, MachinesTypes, LookUpTypes, AnswerTypes, TickTypes DEF Next
  <1>3. QED
    BY <1>1, <1>2, PTL DEF Spec

-----------------------------------------------------------------------------
\* In a step other than the passing of time nothing that is known gets older.
NothingAges == \A s \in Servers, t \in Statuses : was'[s][t] <= was[s][t]

LEMMA RecordParts ==
    ASSUME NEW r \in Record
    PROVE  r.id \in Servers /\ r.status \in Statuses
  BY DEF Record

\* The parts of the type invariant that the arithmetic needs.
LEMMA AgesAreNumbers ==
    ASSUME TypeOK
    PROVE  /\ \A s \in Servers, t \in Statuses : was[s][t] \in Nat
           /\ \A w \in Workers : /\ age[w] \in Nat /\ age[w] <= MaxDelay
                                /\ loc[w].list \subseteq Record
                                /\ loc[w].found \subseteq Record
           /\ cacheAge \in Nat /\ cacheAge <= TTL
           /\ cache \subseteq Record
  <1>1. MaxAge + 1 \in Nat
    BY MaxAgeType
  <1>2. \A s \in Servers, t \in Statuses : was[s][t] \in 0..(MaxAge + 1)
    BY DEF TypeOK
  <1>3. \A w \in Workers : age[w] \in 0..MaxDelay /\ loc[w] \in CallType
    BY DEF TypeOK
  <1>4. \A w \in Workers : loc[w].list \subseteq Record /\ loc[w].found \subseteq Record
    BY <1>3 DEF CallType
  <1>5. QED
    BY <1>1, <1>2, <1>3, <1>4, TimesAssumption DEF TypeOK

\* What is known stays recent, and so it does for a longer time.
LEMMA RecentKept ==
    ASSUME TypeOK, TypeOK', NothingAges, NEW r \in Record, NEW b \in Nat, NEW c \in Nat,
           Recent(r, b), b <= c
    PROVE  Recent(r, c)'
  <1>1. r.id \in Servers /\ r.status \in Statuses
    BY RecordParts
  <1>2. was[r.id][r.status] \in Nat
    BY <1>1, AgesAreNumbers
  <1>3. was'[r.id][r.status] \in Nat
    <2>1. was'[r.id][r.status] \in 0..(MaxAge + 1)
      BY <1>1 DEF TypeOK
    <2>2. QED
      BY <2>1, MaxAgeType
  <1>4. was'[r.id][r.status] <= was[r.id][r.status]
    BY <1>1 DEF NothingAges
  <1>5. QED
    BY <1>2, <1>3, <1>4 DEF Recent

\* The controller that does not step keeps what it knows, whether the cache stays
\* as it is or is filled.
LEMMA OtherKnows ==
    ASSUME TypeOK, TypeOK', NothingAges, addr' = addr,
           NEW w \in Workers, Knows(w),
           pc'[w] = pc[w], loc'[w] = loc[w], age'[w] = age[w],
           (lock' = w) <=> (lock = w),
           \A r \in cache' : r \in cache \/ Recent(r, MaxDelay)'
    PROVE  Knows(w)'
  <1> DEFINE B == TTL - 1 + MaxDelay + age[w]
  <1>1. age[w] \in Nat /\ B \in Nat /\ MaxDelay \in Nat /\ MaxDelay <= B
    BY AgesAreNumbers, TimesAssumption
  <1>2. /\ loc[w].list \subseteq Record /\ loc[w].found \subseteq Record
        /\ cache \subseteq Record /\ cache' \subseteq Record
    BY AgesAreNumbers DEF TypeOK
  <1>3. \A r \in loc[w].list : Recent(r, age[w])'
    BY <1>1, <1>2, RecentKept DEF Knows
  <1>4. ASSUME pc[w] = "lookup", NEW r \in cache'
        PROVE  Recent(r, B)'
    <2>1. CASE r \in cache
      BY <1>1, <1>2, <1>4, <2>1, RecentKept DEF Knows
    <2>2. CASE Recent(r, MaxDelay)'
      <3>1. was'[r.id][r.status] \in Nat
        BY <1>2, RecordParts, MaxAgeType DEF TypeOK
      <3>2. QED
        BY <1>1, <2>2, <3>1, TimesAssumption DEF Recent
    <2>3. QED
      BY <1>4, <2>1, <2>2
  <1>5. \A r \in loc[w].found : Recent(r, B)' /\ Asked(w, r.id)'
    <2>1. \A r \in loc[w].found : Recent(r, B)'
      BY <1>1, <1>2, RecentKept DEF Knows
    <2>2. QED
      BY <2>1 DEF Knows, Asked
  <1>6. QED
    BY <1>3, <1>4, <1>5 DEF Knows, Recent

\* A controller steps and neither the cloud nor the cache changes: it is enough that
\* what this controller knows is recent.
LEMMA CallStep ==
    ASSUME TypeOK, TypeOK', RecentInv, NEW w \in Workers,
           UNCHANGED cloudVars, cache' = cache, cacheAge' = cacheAge,
           \A u \in Workers \ {w} :
              /\ pc'[u] = pc[u] /\ loc'[u] = loc[u] /\ age'[u] = age[u]
              /\ (lock' = u) <=> (lock = u),
           Knows(w)'
    PROVE  RecentInv'
  <1>1. NothingAges
    <2>1. was' = was
      BY DEF cloudVars
    <2>2. QED
      BY <2>1, AgesAreNumbers DEF NothingAges
  <1>2. ASSUME NEW u \in Workers \ {w}
        PROVE  Knows(u)'
    <2>1. u \in Workers /\ Knows(u) /\ addr' = addr
      BY <1>2 DEF RecentInv, cloudVars
    <2>2. /\ pc'[u] = pc[u] /\ loc'[u] = loc[u] /\ age'[u] = age[u]
          /\ (lock' = u) <=> (lock = u)
      BY <1>2
    <2>3. \A r \in cache' : r \in cache
      OBVIOUS
    <2>4. QED
      BY <1>1, <2>1, <2>2, <2>3, OtherKnows
  <1>3. \A s \in Servers : Shown(s)' => was'[s][status'[s]] = 0
    BY DEF RecentInv, cloudVars, Shown
  <1>4. cacheAge' < TTL => \A r \in cache' : Recent(r, cacheAge + MaxDelay)'
    BY DEF RecentInv, cloudVars, Recent
  <1>5. \A u \in Workers : Knows(u)'
    BY <1>2
  <1>6. QED
    BY <1>3, <1>4, <1>5 DEF RecentInv, Recent

\* Machines and nodes leave what is known as it is.
LEMMA MachinesRecent ==
    ASSUME TypeOK, TypeOK', RecentInv, Machines
    PROVE  RecentInv'
  <1> DEFINE CloudMoves == /\ NothingAges /\ addr' = addr
                           /\ \A u \in Servers : Shown(u)' => was'[u][status'[u]] = 0
  <1>1. ASSUME NEW s \in Servers, NEW t \in Statuses \cup {"gone"}, SetStatus(s, t)
        PROVE  CloudMoves
    <2>1. CASE t \in Statuses
      <3>1. /\ was' = [was EXCEPT ![s][t] = 0] /\ status' = [status EXCEPT ![s] = t]
            /\ addr' = addr
        BY <1>1, <2>1 DEF SetStatus
      <3>2. NothingAges
        BY <3>1, AgesAreNumbers DEF NothingAges, TypeOK
      <3>3. QED
        BY <2>1, <3>1, <3>2 DEF RecentInv, Shown, TypeOK
    <2>2. CASE t \notin Statuses
      <3>1. was' = was /\ status' = [status EXCEPT ![s] = t] /\ addr' = addr
        BY <1>1, <2>2 DEF SetStatus
      <3>2. NothingAges
        BY <3>1, AgesAreNumbers DEF NothingAges
      <3>3. QED
        BY <2>2, <3>1, <3>2 DEF RecentInv, Shown, TypeOK
    <2>3. QED
      BY <2>1, <2>2
  <1>2. CloudMoves
    <2>1. ASSUME NEW s \in Servers, ChangeServer(s)
          PROVE  CloudMoves
      BY <1>1, <2>1 DEF ChangeServer, Statuses
    <2>2. ASSUME NEW s \in Servers, NEW n \in Nodes, CreateServer(s, n)
          PROVE  CloudMoves
      BY <1>1, <2>2 DEF CreateServer, Statuses
    <2>3. ASSUME NEW n \in Nodes, RegisterNode(n)
          PROVE  CloudMoves
      <3>1. was' = was /\ status' = status /\ addr' = addr
        BY <2>3 DEF RegisterNode, cloudVars
      <3>2. QED
        BY <3>1, AgesAreNumbers DEF RecentInv, NothingAges, Shown
    <2>4. QED
      BY <2>1, <2>2, <2>3 DEF Machines
  <1>3. UNCHANGED <<cacheVars, callVars>>
    BY DEF Machines, ChangeServer, CreateServer, RegisterNode
  <1>4. ASSUME NEW w \in Workers
        PROVE  Knows(w)'
    BY <1>2, <1>3, OtherKnows DEF RecentInv, cacheVars, callVars
  <1>5. cacheAge < TTL => \A r \in cache : Recent(r, cacheAge + MaxDelay)'
    <2>1. cacheAge + MaxDelay \in Nat /\ cache \subseteq Record
      BY AgesAreNumbers, TimesAssumption
    <2>2. cacheAge' = cacheAge
      BY <1>3 DEF cacheVars
    <2>3. ASSUME cacheAge < TTL, NEW r \in cache
          PROVE  Recent(r, cacheAge + MaxDelay)'
      BY <1>2, <2>1, <2>2, <2>3, RecentKept DEF RecentInv, Recent
    <2>4. QED
      BY <2>3
  <1>6. QED
    BY <1>2, <1>3, <1>4, <1>5 DEF RecentInv, cacheVars, Recent

\* What moving one controller on leaves alone.
LEMMA GotoOthers ==
    ASSUME TypeOK, NEW w \in Workers, NEW c, NEW v, Goto(w, c, v)
    PROVE  /\ pc'[w] = c /\ loc'[w] = v
           /\ \A u \in Workers \ {w} : pc'[u] = pc[u] /\ loc'[u] = loc[u]
  BY DEF Goto, TypeOK

\* A record of a server as it is now is recent.
LEMMA ShownIsRecent ==
    ASSUME TypeOK, RecentInv, NEW s \in Servers, Shown(s), NEW b \in Nat
    PROVE  RecordOf(s) \in Record /\ RecordOf(s).id = s /\ Recent(RecordOf(s), b)
  BY RecordType DEF RecentInv, Recent

\* The bound a call works with, and what follows from it.
LEMMA CallBound ==
    ASSUME TypeOK, NEW w \in Workers
    PROVE  /\ age[w] \in Nat /\ age[w] <= MaxDelay
           /\ TTL - 1 + MaxDelay + age[w] \in Nat
           /\ TTL - 1 + MaxDelay + age[w] <= MaxAge
           /\ age[w] <= TTL - 1 + MaxDelay + age[w]
           /\ cacheAge < TTL => cacheAge + MaxDelay <= TTL - 1 + MaxDelay + age[w]
  BY AgesAreNumbers, MaxAgeType, TimesAssumption

\* A call that has just found a server knows what it should.
LEMMA FoundKnows ==
    ASSUME NEW w \in Workers, NEW r, age' = age, lock' # w, pc'[w] = "answer",
           loc'[w].found = {r}, loc'[w].list = {},
           was'[r.id][r.status] <= TTL - 1 + MaxDelay + age[w],
           r.id = loc'[w].id \/ addr'[r.id] \in loc'[w].addr
    PROVE  Knows(w)'
  <1>1. \A s \in loc'[w].found : Recent(s, TTL - 1 + MaxDelay + age[w])' /\ Asked(w, s.id)'
    BY DEF Recent, Asked
  <1>2. \A s \in loc'[w].list : Recent(s, age[w])'
    OBVIOUS
  <1>3. QED
    BY <1>1, <1>2 DEF Knows, Recent

\* The look-up by ID, and the test of the cache.
LEMMA GetAndCheckRecent ==
    ASSUME TypeOK, TypeOK', RecentInv, NEW w \in Workers, GetServerByID(w) \/ CheckCache(w)
    PROVE  RecentInv'
  <1>1. CASE GetServerByID(w)
    <2>1. /\ UNCHANGED cloudVars /\ cache' = cache /\ cacheAge' = cacheAge
          /\ lock' = lock /\ age' = age
      BY <1>1 DEF GetServerByID, cacheVars
    <2>2. Knows(w)'
      <3>1. CASE Goto(w, "cache", loc[w])
        <4>1. /\ pc'[w] = "cache" /\ loc'[w] = loc[w] /\ pc[w] = "get"
          BY <1>1, <3>1, GotoOthers DEF GetServerByID
        <4>2. lock # w /\ loc[w].list = {} /\ loc[w].found = {}
          BY <4>1 DEF RecentInv, Knows
        <4>3. QED
          BY <2>1, <4>1, <4>2 DEF Knows
      <3>2. CASE /\ loc[w].id \in Servers /\ Shown(loc[w].id)
                 /\ Goto(w, "answer", [loc[w] EXCEPT !.found = {RecordOf(loc[w].id)}])
        <4> DEFINE r == RecordOf(loc[w].id)
        <4>1. /\ pc'[w] = "answer" /\ loc'[w] = [loc[w] EXCEPT !.found = {r}]
              /\ pc[w] = "get" /\ loc[w] \in CallType
          BY <1>1, <3>2, GotoOthers DEF GetServerByID, TypeOK
        <4>2. lock # w /\ loc[w].list = {}
          BY <4>1 DEF RecentInv, Knows
        <4>3. /\ r.id = loc[w].id /\ Recent(r, TTL - 1 + MaxDelay + age[w])
          BY <3>2, CallBound, ShownIsRecent
        <4>4. /\ loc'[w].found = {r} /\ loc'[w].list = {} /\ loc'[w].id = loc[w].id
          BY <4>1, <4>2 DEF CallType
        <4>5. was'[r.id][r.status] <= TTL - 1 + MaxDelay + age[w]
          BY <2>1, <4>3 DEF Recent, cloudVars
        <4>6. r.id = loc'[w].id
          BY <4>3, <4>4
        <4>7. QED
          BY <2>1, <4>1, <4>2, <4>4, <4>5, <4>6, FoundKnows
      <3>3. QED
        BY <1>1, <3>1, <3>2 DEF GetServerByID
    <2>3. \A u \in Workers \ {w} : pc'[u] = pc[u] /\ loc'[u] = loc[u]
      BY <1>1, GotoOthers DEF GetServerByID
    <2>4. QED
      BY <2>1, <2>2, <2>3, CallStep
  <1>2. CASE CheckCache(w)
    <2>1. /\ UNCHANGED cloudVars /\ cache' = cache /\ cacheAge' = cacheAge
          /\ age' = age /\ lock = NoOne /\ pc[w] = "cache" /\ lock # w
      BY <1>2, ServersAssumption DEF CheckCache
    <2>2. loc[w].list = {} /\ loc[w].found = {}
      BY <2>1 DEF RecentInv, Knows
    <2>3. Knows(w)'
      <3>1. CASE cacheAge < TTL /\ Goto(w, "lookup", loc[w]) /\ UNCHANGED lock
        <4>1. pc'[w] = "lookup" /\ loc'[w] = loc[w]
          BY <3>1, GotoOthers
        <4>2. \A r \in cache : Recent(r, TTL - 1 + MaxDelay + age[w])
          <5>1. SUFFICES ASSUME NEW r \in cache
                         PROVE  was[r.id][r.status] <= TTL - 1 + MaxDelay + age[w]
            BY DEF Recent
          <5>2. was[r.id][r.status] <= cacheAge + MaxDelay
            BY <3>1 DEF RecentInv, Recent
          <5>3. was[r.id][r.status] \in Nat
            BY RecordParts, AgesAreNumbers
          <5>4. QED
            BY <3>1, <5>2, <5>3, CallBound, AgesAreNumbers, TimesAssumption
        <4>3. \A r \in cache' : Recent(r, TTL - 1 + MaxDelay + age[w])'
          BY <2>1, <4>2 DEF Recent, cloudVars
        <4>4. QED
          BY <2>1, <2>2, <3>1, <4>1, <4>3 DEF Knows, Recent
      <3>2. CASE Goto(w, "list", loc[w]) /\ lock' = w
        <4>1. pc'[w] = "list" /\ loc'[w] = loc[w]
          BY <3>2, GotoOthers
        <4>2. QED
          BY <2>2, <3>2, <4>1 DEF Knows
      <3>3. QED
        BY <1>2, <3>1, <3>2 DEF CheckCache
    <2>4. \A u \in Workers \ {w} : pc'[u] = pc[u] /\ loc'[u] = loc[u]
      BY <1>2, GotoOthers DEF CheckCache
    <2>5. \A u \in Workers \ {w} : (lock' = u) <=> (lock = u)
      BY <1>2, <2>1, ServersAssumption DEF CheckCache
    <2>6. QED
      BY <2>1, <2>3, <2>4, <2>5, CallStep
  <1>3. QED
    BY <1>1, <1>2

\* A call that knows nothing knows what it should.
LEMMA NothingKnown ==
    ASSUME NEW w \in Workers, lock' # w, pc'[w] \notin {"list", "fill", "lookup"},
           loc'[w].found = {}, loc'[w].list = {}
    PROVE  Knows(w)'
  BY DEF Knows

\* The list of the API, answered or failed, and the look-up in the cache.
LEMMA ListAndLookUpRecent ==
    ASSUME TypeOK, TypeOK', RecentInv, NEW w \in Workers,
           ListServers(w) \/ ListServersFails(w) \/ LookUp(w)
    PROVE  RecentInv'
  <1>1. /\ UNCHANGED cloudVars /\ cache' = cache /\ cacheAge' = cacheAge /\ age' = age
        /\ \A u \in Workers \ {w} : pc'[u] = pc[u] /\ loc'[u] = loc[u]
    BY GotoOthers DEF ListServers, ListServersFails, LookUp, cacheVars
  <1>2. loc[w] \in CallType /\ Knows(w)
    BY DEF TypeOK, RecentInv
  <1>3. CASE ListServers(w)
    <2>1. PICK shown \in SUBSET {s \in Servers : Shown(s)} :
            Goto(w, "fill", [loc[w] EXCEPT !.list = {RecordOf(s) : s \in shown}])
      BY <1>3 DEF ListServers
    <2>2. /\ pc[w] = "list" /\ pc'[w] = "fill" /\ lock' = lock /\ lock = w
          /\ loc[w].found = {}
      BY <1>2, <1>3, <2>1, GotoOthers DEF ListServers, cacheVars, Knows
    <2>3. loc'[w] = [loc[w] EXCEPT !.list = {RecordOf(s) : s \in shown}]
      BY <2>1, GotoOthers
    <2>4. loc'[w].list = {RecordOf(s) : s \in shown} /\ loc'[w].found = {}
      BY <1>2, <2>2, <2>3 DEF CallType
    <2>5. \A r \in loc'[w].list : Recent(r, age[w])
      BY <2>4, CallBound, ShownIsRecent
    <2>6. Knows(w)'
      BY <1>1, <2>2, <2>4, <2>5 DEF Knows, Recent, cloudVars
    <2>7. QED
      BY <1>1, <2>2, <2>6, CallStep
  <1>4. CASE ListServersFails(w)
    <2>1. /\ pc[w] = "list" /\ pc'[w] = "answer" /\ loc'[w] = loc[w] /\ lock' = NoOne
      BY <1>4, GotoOthers DEF ListServersFails
    <2>2. lock = w /\ loc[w].list = {} /\ loc[w].found = {}
      BY <1>2, <2>1 DEF Knows
    <2>3. Knows(w)'
      BY <2>1, <2>2, ServersAssumption, NothingKnown
    <2>4. \A u \in Workers \ {w} : (lock' = u) <=> (lock = u)
      BY <2>1, <2>2, ServersAssumption
    <2>5. QED
      BY <1>1, <2>3, <2>4, CallStep
  <1>5. CASE LookUp(w)
    <2>1. pc[w] = "lookup" /\ lock' = lock /\ lock # w
      BY <1>5, ServersAssumption DEF LookUp, cacheVars
    <2>2. loc[w].list = {} /\ loc[w].found = {}
      BY <1>2, <2>1 DEF Knows
    <2>3. Knows(w)'
      <3>1. CASE Goto(w, "answer", loc[w])
        <4>1. pc'[w] = "answer" /\ loc'[w] = loc[w]
          BY <3>1, GotoOthers
        <4>2. QED
          BY <2>1, <2>2, <4>1, NothingKnown
      <3>2. CASE \E r \in cache : /\ addr[r.id] \in loc[w].addr
                                  /\ Goto(w, "answer", [loc[w] EXCEPT !.found = {r}])
        <4>1. PICK r \in cache : /\ addr[r.id] \in loc[w].addr
                                 /\ Goto(w, "answer", [loc[w] EXCEPT !.found = {r}])
          BY <3>2
        <4>2. pc'[w] = "answer" /\ loc'[w] = [loc[w] EXCEPT !.found = {r}]
          BY <4>1, GotoOthers
        <4>3. /\ loc'[w].found = {r} /\ loc'[w].list = {} /\ loc'[w].addr = loc[w].addr
          BY <1>2, <2>2, <4>2 DEF CallType
        <4>4. was'[r.id][r.status] <= TTL - 1 + MaxDelay + age[w]
          BY <1>1, <1>2, <2>1 DEF Knows, Recent, cloudVars
        <4>5. addr'[r.id] \in loc'[w].addr
          BY <1>1, <4>1, <4>3 DEF cloudVars
        <4>6. QED
          BY <1>1, <2>1, <4>2, <4>3, <4>4, <4>5, FoundKnows
      <3>3. QED
        BY <1>5, <3>1, <3>2 DEF LookUp
    <2>4. QED
      BY <1>1, <2>1, <2>3, CallStep
  <1>6. QED
    BY <1>3, <1>4, <1>5

\* The cache is filled with what the API said during the call.
LEMMA FillRecent ==
    ASSUME TypeOK, TypeOK', RecentInv, NEW w \in Workers, FillCache(w)
    PROVE  RecentInv'
  <1>1. /\ UNCHANGED cloudVars /\ age' = age /\ cacheAge' = 0 /\ lock' = NoOne
        /\ pc[w] = "fill" /\ pc'[w] = "lookup" /\ cache' = loc[w].list
        /\ loc'[w] = [loc[w] EXCEPT !.list = {}]
        /\ \A u \in Workers \ {w} : pc'[u] = pc[u] /\ loc'[u] = loc[u]
    BY GotoOthers DEF FillCache
  <1>2. loc[w] \in CallType /\ Knows(w) /\ lock = w /\ loc[w].found = {}
    BY <1>1 DEF TypeOK, RecentInv, Knows
  <1>3. ASSUME NEW r \in cache'
        PROVE  /\ was[r.id][r.status] \in Nat
               /\ was[r.id][r.status] <= age[w]
    BY <1>1, <1>2, RecordParts, AgesAreNumbers DEF Knows, Recent
  <1>4. /\ \A r \in cache' : Recent(r, 0 + MaxDelay)' /\ Recent(r, MaxDelay)'
        /\ \A r \in cache' : Recent(r, TTL - 1 + MaxDelay + age[w])'
    <2>1. SUFFICES ASSUME NEW r \in cache'
                   PROVE  /\ was[r.id][r.status] <= 0 + MaxDelay
                          /\ was[r.id][r.status] <= MaxDelay
                          /\ was[r.id][r.status] <= TTL - 1 + MaxDelay + age[w]
      BY <1>1 DEF Recent, cloudVars
    <2>2. QED
      BY <1>3, CallBound, TimesAssumption
  <1>5. Knows(w)'
    <2>1. loc'[w].list = {} /\ loc'[w].found = {} /\ lock' # w
      BY <1>1, <1>2, ServersAssumption DEF CallType
    <2>2. QED
      BY <1>1, <1>4, <2>1 DEF Knows, Recent
  <1>6. NothingAges /\ addr' = addr
    BY <1>1, AgesAreNumbers DEF NothingAges, cloudVars
  <1>7. ASSUME NEW u \in Workers \ {w}
        PROVE  Knows(u)'
    <2>1. /\ u \in Workers /\ Knows(u) /\ pc'[u] = pc[u] /\ loc'[u] = loc[u]
          /\ age'[u] = age[u] /\ ((lock' = u) <=> (lock = u))
      BY <1>1, <1>2, <1>7, ServersAssumption DEF RecentInv
    <2>2. \A r \in cache' : r \in cache \/ Recent(r, MaxDelay)'
      BY <1>4
    <2>3. QED
      BY <1>6, <2>1, <2>2, OtherKnows
  <1>8. QED
    BY <1>1, <1>4, <1>5, <1>7 DEF RecentInv, cloudVars, Shown, Recent

\* The end of a call and the start of the next: nothing is known.
LEMMA EndsRecent ==
    ASSUME TypeOK, TypeOK', RecentInv, NEW w \in Workers,
           Answer(w) \/ \E n \in Nodes : BeginCall(w, n)
    PROVE  RecentInv'
  <1>1. /\ UNCHANGED cloudVars /\ cache' = cache /\ cacheAge' = cacheAge /\ lock' = lock
        /\ pc[w] \in {"answer", "idle"} /\ age' = [age EXCEPT ![w] = 0]
    BY DEF Answer, InstanceExists, InstanceShutdown, InstanceMetadata, BeginCall, Call, Done,
           cacheVars
  <1>2. loc[w] \in CallType /\ Knows(w)
    BY DEF TypeOK, RecentInv
  <1>3. lock # w /\ loc[w].list = {}
    BY <1>1, <1>2 DEF Knows
  <1>4. PICK c \in {"idle", "cache", "get"}, v \in CallType :
          Goto(w, c, v) /\ v.list = {} /\ v.found = {}
    <2>1. CASE Goto(w, "idle", NoCall)
      BY <2>1, NoCallType DEF NoCall
    <2>2. CASE InstanceExists(w) /\ ~Goto(w, "idle", NoCall)
      <3>1. [loc[w] EXCEPT !.op = "shutdown", !.found = {}] \in CallType
        BY <1>2, CallUpdates
      <3>2. /\ [loc[w] EXCEPT !.op = "shutdown", !.found = {}].list = {}
            /\ [loc[w] EXCEPT !.op = "shutdown", !.found = {}].found = {}
        BY <1>2, <1>3 DEF CallType
      <3>3. Goto(w, IF loc[w].id = NoServer THEN "cache" ELSE "get",
                 [loc[w] EXCEPT !.op = "shutdown", !.found = {}])
        BY <2>2 DEF InstanceExists, Done
      <3>4. QED
        BY <3>1, <3>2, <3>3
    <2>3. ASSUME NEW n \in Nodes, BeginCall(w, n)
          PROVE  \E d \in {"idle", "cache", "get"}, u \in CallType :
                    Goto(w, d, u) /\ u.list = {} /\ u.found = {}
      <3>1. PICK op \in {"metadata", "exists"} : Call(w, n, op)
        BY <2>3 DEF BeginCall
      <3> DEFINE v == [NoCall EXCEPT !.node = {n}, !.op = op, !.id = providerID[n],
                                     !.addr = nodeAddr[n]]
      <3>2. v \in CallType /\ v.list = {} /\ v.found = {}
        BY DEF TypeOK, NoCall, CallType
      <3>3. Goto(w, IF providerID[n] = NoServer THEN "cache" ELSE "get", v)
        BY <3>1 DEF Call
      <3>4. QED
        BY <3>2, <3>3
    <2>4. QED
      BY <2>1, <2>2, <2>3 DEF Answer, InstanceShutdown, InstanceMetadata, Done
  <1>5. /\ pc'[w] = c /\ loc'[w] = v
        /\ \A u \in Workers \ {w} : pc'[u] = pc[u] /\ loc'[u] = loc[u]
    BY <1>4, GotoOthers
  <1>6. Knows(w)'
    BY <1>1, <1>3, <1>4, <1>5, NothingKnown
  <1>7. \A u \in Workers \ {w} : age'[u] = age[u]
    BY <1>1 DEF TypeOK
  <1>8. QED
    BY <1>1, <1>5, <1>6, <1>7, CallStep

\* Time passes: what is known and the time it may be known for grow together.
LEMMA TickRecent ==
    ASSUME TypeOK, TypeOK', RecentInv, Tick
    PROVE  RecentInv'
  <1>1. \A s \in Servers, u \in Statuses :
           /\ was[s][u] \in Nat
           /\ was'[s][u] = IF status[s] = u THEN 0 ELSE Up(was[s][u], MaxAge + 1)
    BY AgesAreNumbers DEF Tick
  <1>2. ASSUME NEW r \in Record, NEW b \in Nat, Recent(r, b)
        PROVE  was'[r.id][r.status] <= b + 1
    <2>1. r.id \in Servers /\ r.status \in Statuses
      BY RecordParts
    <2>2. was[r.id][r.status] \in Nat /\ was[r.id][r.status] <= b
      BY <1>1, <1>2, <2>1 DEF Recent
    <2>3. Up(was[r.id][r.status], MaxAge + 1) <= was[r.id][r.status] + 1
      BY <2>2, MaxAgeType DEF Up
    <2>4. Up(was[r.id][r.status], MaxAge + 1) \in Nat
      BY <2>2, MaxAgeType DEF Up
    <2>5. QED
      BY <1>1, <2>1, <2>2, <2>3, <2>4
  <1>3. /\ status' = status /\ addr' = addr /\ cache' = cache /\ lock' = lock /\ pc' = pc
        /\ loc' = loc /\ cacheAge' = Up(cacheAge, TTL)
        /\ age' = [w \in Workers |-> IF pc[w] = "idle" THEN 0 ELSE age[w] + 1]
    BY DEF Tick
  <1>4. \A s \in Servers : Shown(s)' => was'[s][status'[s]] = 0
    BY <1>1, <1>3 DEF Shown
  <1>5. cacheAge' < TTL => \A r \in cache' : Recent(r, cacheAge + MaxDelay)'
    <2>1. SUFFICES ASSUME cacheAge' < TTL, NEW r \in cache
                   PROVE  was'[r.id][r.status] <= cacheAge' + MaxDelay
      BY <1>3 DEF Recent
    <2>2. cacheAge < TTL /\ cacheAge' = cacheAge + 1
      BY <1>3, <2>1, AgesAreNumbers, TimesAssumption DEF Up
    <2>3. was'[r.id][r.status] <= cacheAge + MaxDelay + 1
      BY <1>2, <2>2, AgesAreNumbers, TimesAssumption DEF RecentInv
    <2>4. QED
      <3>1. was'[r.id][r.status] \in Nat
        BY RecordParts, AgesAreNumbers, MaxAgeType DEF TypeOK
      <3>2. QED
        BY <2>2, <2>3, <3>1, AgesAreNumbers, TimesAssumption
  <1>6. ASSUME NEW w \in Workers
        PROVE  Knows(w)'
    <2>1. Knows(w)
      BY DEF RecentInv
    <2>2. CASE pc[w] = "idle"
      BY <1>3, <2>1, <2>2, NothingKnown DEF Knows
    <2>3. CASE pc[w] # "idle"
      <3>1. age'[w] = age[w] + 1 /\ age[w] \in Nat
        BY <1>3, <2>3, AgesAreNumbers
      <3> DEFINE B == TTL - 1 + MaxDelay + age[w]
      <3>2. B \in Nat /\ TTL - 1 + MaxDelay + age'[w] = B + 1
        BY <3>1, TimesAssumption
      <3>3. /\ loc[w].list \subseteq Record /\ loc[w].found \subseteq Record
            /\ cache \subseteq Record
        BY AgesAreNumbers
      <3>4. \A r \in loc[w].list : was'[r.id][r.status] <= age[w] + 1
        BY <1>2, <2>1, <3>1, <3>3 DEF Knows
      <3>5. pc[w] = "lookup" => \A r \in cache : was'[r.id][r.status] <= B + 1
        BY <1>2, <2>1, <3>2, <3>3 DEF Knows
      <3>6. \A r \in loc[w].found : was'[r.id][r.status] <= B + 1
        BY <1>2, <2>1, <3>2, <3>3 DEF Knows
      <3>7. \A r \in loc[w].list : Recent(r, age[w])'
        BY <3>1, <3>4 DEF Recent
      <3>8. \A r \in loc[w].found :
               Recent(r, TTL - 1 + MaxDelay + age[w])' /\ Asked(w, r.id)'
        BY <1>3, <2>1, <3>2, <3>6 DEF Recent, Knows, Asked
      <3>9. pc[w] = "lookup" => \A r \in cache : Recent(r, TTL - 1 + MaxDelay + age[w])'
        BY <3>2, <3>5 DEF Recent
      <3>10. QED
        BY <1>3, <2>1, <3>7, <3>8, <3>9 DEF Knows, Recent
    <2>4. QED
      BY <2>2, <2>3
  <1>7. QED
    BY <1>4, <1>5, <1>6 DEF RecentInv, Recent

\* What the cache and the calls know of the servers was true not longer ago than the
\* lifetime of the cache and the length of a call account for, in every interleaving
\* of the two controllers with changes of the servers, failures and crashes.
THEOREM RecentInvariant == Spec => []RecentInv
  <1>1. ASSUME Init
        PROVE  RecentInv
    <2>1. \A w \in Workers : Knows(w)
      <3>1. SUFFICES ASSUME NEW w \in Workers
                     PROVE  Knows(w)
        OBVIOUS
      <3>2. loc[w] = NoCall /\ pc[w] = "idle" /\ lock # w
        BY <1>1, ServersAssumption DEF Init
      <3>3. loc[w].list = {} /\ loc[w].found = {}
        BY <3>2 DEF NoCall
      <3>4. QED
        BY <3>2, <3>3 DEF Knows
    <2>2. QED
      BY <1>1, <2>1 DEF Init, RecentInv, Shown, Statuses
  <1>2. ASSUME TypeOK, TypeOK', RecentInv, [Next]_vars
        PROVE  RecentInv'
    <2>1. CASE Crash
      <3>1. /\ UNCHANGED cloudVars /\ cache' = {} /\ lock' = NoOne
            /\ \A w \in Workers : pc'[w] = "idle" /\ loc'[w] = NoCall
        BY <2>1 DEF Crash
      <3>2. \A w \in Workers : Knows(w)'
        BY <3>1, ServersAssumption, NothingKnown DEF NoCall
      <3>3. \A s \in Servers : Shown(s)' => was'[s][status'[s]] = 0
        BY <1>2, <3>1 DEF RecentInv, cloudVars, Shown
      <3>4. QED
        BY <3>1, <3>2, <3>3 DEF RecentInv
    <2>2. CASE UNCHANGED vars
      BY <1>2, <2>2 DEF RecentInv, Knows, Recent, Asked, Shown, vars, cloudVars, cacheVars, callVars
    <2>3. QED
      BY <1>2, <2>1, <2>2, MachinesRecent, TickRecent, GetAndCheckRecent, ListAndLookUpRecent,
         FillRecent, EndsRecent DEF Next, GetServerForNode
  <1>3. QED
    BY <1>1, <1>2, InstancesTypes, PTL DEF Spec

\* What a call has found was so at most MaxAge ago.
LEMMA FoundIsRecent ==
    ASSUME TypeOK, RecentInv, NEW w \in Workers, NEW r \in loc[w].found
    PROVE  /\ r.id \in Servers /\ r.status \in Statuses
           /\ was[r.id][r.status] <= MaxAge /\ Asked(w, r.id)
  <1>1. r \in Record
    BY AgesAreNumbers
  <1>2. r.id \in Servers /\ r.status \in Statuses
    BY <1>1, RecordParts
  <1>3. was[r.id][r.status] \in Nat
    BY <1>2, AgesAreNumbers
  <1>4. was[r.id][r.status] <= TTL - 1 + MaxDelay + age[w] /\ Asked(w, r.id)
    BY DEF RecentInv, Knows, Recent
  <1>5. QED
    BY <1>2, <1>3, <1>4, CallBound, MaxAgeType

\* A Node is deleted, tainted or given the ID of a server only for what a server that
\* its call was about was, at most MaxAge ago: never for a failed call or for a state
\* of the cloud that the cache has kept for longer.
THEOREM DecisionsRestOnRecentServers == Spec => DecisionsAreRecent
  <1>1. ASSUME TypeOK, RecentInv, [Next]_vars, NEW n \in Nodes
        PROVE  DecidesWithReason(n)
    <2>1. CASE UNCHANGED <<registered, tainted, providerID>>
      BY <2>1 DEF DecidesWithReason
    <2>2. ASSUME NEW m \in Nodes, RegisterNode(m)
          PROVE  DecidesWithReason(n)
      <3>1. tainted' = tainted /\ providerID' = providerID
        BY <2>2 DEF RegisterNode
      <3>2. registered[n] => registered'[n]
        BY <1>1, <2>2 DEF RegisterNode, TypeOK
      <3>3. QED
        BY <3>1, <3>2 DEF DecidesWithReason
    <2>3. ASSUME NEW w \in Workers, InstanceExists(w)
          PROVE  DecidesWithReason(n)
      <3>1. CASE UNCHANGED <<registered, providerID, nodeAddr, tainted>>
        BY <3>1 DEF DecidesWithReason
      <3>2. CASE \E m \in loc[w].node :
                   /\ SaysGone(loc[w].found)
                   /\ registered' = [registered EXCEPT ![m] = FALSE]
                   /\ providerID' = [providerID EXCEPT ![m] = NoServer]
                   /\ tainted' = [tainted EXCEPT ![m] = FALSE]
        <4>1. PICK m \in loc[w].node :
                   /\ SaysGone(loc[w].found)
                   /\ registered' = [registered EXCEPT ![m] = FALSE]
                   /\ providerID' = [providerID EXCEPT ![m] = NoServer]
                   /\ tainted' = [tainted EXCEPT ![m] = FALSE]
          BY <3>2
        <4>2. PICK r \in loc[w].found : r.status = "SOFT_DELETED"
          BY <4>1 DEF SaysGone
        <4>3. HasReason(w, m, "SOFT_DELETED")
          BY <1>1, <2>3, <4>2, FoundIsRecent DEF HasReason, InstanceExists
        <4>4. ~(providerID'[n] \in Servers /\ providerID[n] # providerID'[n])
          BY <1>1, <4>1, ServersAssumption DEF TypeOK
        <4>5. ~(~tainted[n] /\ tainted'[n])
          BY <1>1, <4>1 DEF TypeOK
        <4>6. (registered[n] /\ ~registered'[n]) => n = m
          BY <1>1, <4>1 DEF TypeOK
        <4>7. QED
          BY <4>3, <4>4, <4>5, <4>6 DEF DecidesWithReason
      <3>3. QED
        BY <2>3, <3>1, <3>2 DEF InstanceExists
    <2>4. ASSUME NEW w \in Workers, InstanceShutdown(w)
          PROVE  DecidesWithReason(n)
      <3>1. PICK m \in loc[w].node :
              tainted' = [tainted EXCEPT ![m] = registered[m] /\ SaysShutdown(loc[w].found)]
        BY <2>4 DEF InstanceShutdown
      <3>2. registered' = registered /\ providerID' = providerID
        BY <2>4 DEF InstanceShutdown
      <3>3. ASSUME ~tainted[n], tainted'[n]
            PROVE  HasReason(w, n, "SHUTOFF")
        <4>1. n = m /\ SaysShutdown(loc[w].found)
          BY <1>1, <3>1, <3>3 DEF TypeOK
        <4>2. PICK r \in loc[w].found : r.status = "SHUTOFF"
          BY <4>1 DEF SaysShutdown
        <4>3. QED
          BY <1>1, <2>4, <4>1, <4>2, FoundIsRecent DEF HasReason, InstanceShutdown
      <3>4. QED
        BY <3>2, <3>3 DEF DecidesWithReason
    <2>5. ASSUME NEW w \in Workers, InstanceMetadata(w)
          PROVE  DecidesWithReason(n)
      <3>1. registered' = registered /\ tainted' = tainted
        BY <2>5 DEF InstanceMetadata
      <3>2. ASSUME providerID'[n] \in Servers, providerID[n] # providerID'[n]
            PROVE  \E t \in Statuses :
                     /\ n \in loc[w].node /\ Asked(w, providerID'[n])
                     /\ was[providerID'[n]][t] <= MaxAge
        <4>1. PICK m \in loc[w].node :
                \/ providerID' = providerID
                \/ providerID' = [providerID EXCEPT ![m] = IF @ = NoServer THEN Basic ELSE @]
                \/ \E r \in loc[w].found :
                     providerID' = [providerID EXCEPT ![m] = IF @ = NoServer THEN r.id ELSE @]
          BY <2>5 DEF InstanceMetadata
        <4>2. PICK r \in loc[w].found :
                providerID' = [providerID EXCEPT ![m] = IF @ = NoServer THEN r.id ELSE @]
          BY <1>1, <3>2, <4>1, ServersAssumption DEF TypeOK
        <4>3. n = m /\ providerID'[n] = r.id
          BY <1>1, <3>2, <4>2 DEF TypeOK
        <4>4. QED
          BY <1>1, <4>3, FoundIsRecent
      <3>3. QED
        BY <3>1, <3>2 DEF DecidesWithReason
    <2>6. QED
      <3>1. ASSUME NEW w \in Workers, GetServerForNode(w)
            PROVE  UNCHANGED <<registered, tainted, providerID>>
        BY <3>1 DEF GetServerForNode, GetServerByID, CheckCache, ListServers, ListServersFails,
                    FillCache, LookUp, nodeVars
      <3>2. CASE UNCHANGED vars \/ Crash \/ Tick
        BY <2>1, <3>2 DEF vars, nodeVars, Crash, Tick
      <3>3. CASE \E s \in Servers : ChangeServer(s) \/ \E m \in Nodes : CreateServer(s, m)
        BY <2>1, <3>3 DEF ChangeServer, CreateServer, nodeVars
      <3>4. ASSUME NEW w \in Workers, NEW m \in Nodes, BeginCall(w, m)
            PROVE  UNCHANGED <<registered, tainted, providerID>>
        BY <3>4 DEF BeginCall, nodeVars
      <3>5. QED
        BY <1>1, <2>1, <2>2, <2>3, <2>4, <2>5, <3>1, <3>2, <3>3, <3>4 DEF Next, Machines, Answer
  <1>2. ASSUME TypeOK, RecentInv, [Next]_vars
        PROVE  \A n \in Nodes : DecidesWithReason(n)
    BY <1>1, <1>2
  <1>3. QED
    BY <1>2, InstancesTypes, RecentInvariant, PTL DEF Spec, DecisionsAreRecent
=============================================================================
