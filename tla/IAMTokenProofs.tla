--------------------------- MODULE IAMTokenProofs ---------------------------
(***************************************************************************)
(* Proofs about IAMToken, for any goroutines, configurations and times     *)
(* that satisfy its assumptions: the type invariant, the bound by which    *)
(* the expiry may be ahead of the token, and what it is for, that no       *)
(* request carries an expired token; and that the mode of the ELB client   *)
(* has its secrets.                                                        *)
(***************************************************************************)
EXTENDS IAMToken, TLAPS

USE DEF Words

\* A token one unit later is a token, of the same owner, with less life.
LEMMA OlderToken ==
    ASSUME NEW x \in Token
    PROVE  /\ Older(x) \in Token
           /\ Older(x).by = x.by
           /\ Older(x).life = Down(x.life)
  <1>1. Down(x.life) \in 0..Lifetime
    BY TimesAssumption DEF Token, Down
  <1>2. QED
    BY <1>1 DEF Token, Older

\* The empty string is one of no one.
LEMMA EmptyToken == Empty \in Token /\ ~IsToken(Empty) /\ Both(Empty) \in String
  <1>1. Empty \in Token /\ ~IsToken(Empty)
    BY TimesAssumption DEF Empty, Token, IsToken
  <1>2. QED
    BY <1>1 DEF Both, String

\* Finish leaves the goroutine idle, and the other goroutines alone.
LEMMA FinishTypes ==
    ASSUME TypeOK, NEW w \in Workers, Finish(w)
    PROVE  TypeOK'
  BY EmptyToken, TimesAssumption DEF TypeOK, Finish, Goto, PCs

\* Every variable keeps its type under a step of a goroutine.
LEMMA StepTypes ==
    ASSUME TypeOK, NEW w \in Workers, Step(w)
    PROVE  TypeOK'
  <1>1. CASE SignRequest(w) \/ ensureAuthenticated(w)
    BY <1>1 DEF TypeOK, SignRequest, ensureAuthenticated, Goto, PCs
  <1>2. CASE authenticate(w)
    <2>1. PICK by \in {w, NoOne} : got' = [got EXCEPT ![w] = [by |-> by, life |-> Lifetime]]
      BY <1>2 DEF authenticate
    <2>2. [by |-> by, life |-> Lifetime] \in Token
      BY TimesAssumption DEF Token
    <2>3. QED
      BY <1>2, <2>1, <2>2 DEF TypeOK, authenticate, Goto, PCs
  <1>3. CASE AuthenticateFails(w) \/ NoTokenReceived(w) \/ SendRequest(w)
    BY <1>3, FinishTypes DEF AuthenticateFails, NoTokenReceived, SendRequest
  <1>4. CASE StoreToken(w)
    <2>1. PICK f \in left[w] :
            /\ token' = [token EXCEPT ![f] = IF IsToken(got[w]) THEN got[w] ELSE Empty]
            /\ left' = [left EXCEPT ![w] = @ \ {f}]
      BY <1>4 DEF StoreToken
    <2>2. QED
      BY <1>4, <2>1, EmptyToken DEF TypeOK, StoreToken, String
  <1>5. CASE StoreExpiry(w)
    <2>1. got[w].life \in 0..Lifetime
      BY DEF TypeOK, Token
    <2>2. expiry' \in 0..Lifetime
      BY <1>5, <2>1, TimesAssumption DEF StoreExpiry
    <2>3. QED
      BY <1>5, <2>2 DEF TypeOK, StoreExpiry, Goto, PCs
  <1>6. CASE ReadToken(w)
    BY <1>6 DEF TypeOK, ReadToken, Goto, PCs
  <1>7. CASE Panic(w)
    <2>1. token' \in String /\ expiry' \in 0..Lifetime
      BY <1>7, EmptyToken, TimesAssumption DEF Panic
    <2>2. pc' \in [Workers -> PCs] /\ age' \in [Workers -> 0..MaxDelay]
      BY <1>7, TimesAssumption DEF Panic, PCs
    <2>3. got' \in [Workers -> Token] /\ left' \in [Workers -> SUBSET Words]
      BY <1>7, EmptyToken DEF Panic
    <2>4. held' \in [Workers -> String]
      BY <1>7, EmptyToken, Zenon DEF Panic
    <2>5. QED
      BY <1>7, <2>1, <2>2, <2>3, <2>4 DEF TypeOK, Panic
  <1>8. QED
    BY <1>1, <1>2, <1>3, <1>4, <1>5, <1>6, <1>7 DEF Step

\* Every variable keeps its type when time passes.
LEMMA TickTypes ==
    ASSUME TypeOK, Tick
    PROVE  TypeOK'
  <1>1. ASSUME NEW s \in String
        PROVE  OlderString(s) \in String
    BY <1>1, OlderToken DEF String, OlderString
  <1>2. token' \in String /\ held' \in [Workers -> String]
    BY <1>1 DEF TypeOK, Tick
  <1>3. got' \in [Workers -> Token]
    BY OlderToken DEF TypeOK, Tick
  <1>4. expiry' \in 0..Lifetime
    BY TimesAssumption DEF TypeOK, Tick, Down
  <1>5. age' \in [Workers -> 0..MaxDelay]
    <2>1. SUFFICES ASSUME NEW w \in Workers, Busy(w)
                   PROVE  age[w] + 1 \in 0..MaxDelay
      BY TimesAssumption DEF TypeOK, Tick
    <2>2. age[w] < MaxDelay /\ age[w] \in 0..MaxDelay
      BY <2>1 DEF TypeOK, Tick
    <2>3. QED
      BY <2>2, TimesAssumption
  <1>6. QED
    BY <1>2, <1>3, <1>4, <1>5 DEF TypeOK, Tick

\* Every variable keeps its type.
THEOREM TokenTypes == Spec => []TypeOK
  <1>1. ASSUME Init
        PROVE  TypeOK
    <2>1. token \in String /\ expiry \in 0..Lifetime
      BY <1>1, EmptyToken, TimesAssumption DEF Init
    <2>2. pc \in [Workers -> PCs] /\ age \in [Workers -> 0..MaxDelay]
      BY <1>1, TimesAssumption DEF Init, PCs
    <2>3. got \in [Workers -> Token] /\ left \in [Workers -> SUBSET Words]
      BY <1>1, EmptyToken DEF Init
    <2>4. held \in [Workers -> String]
      BY <1>1, EmptyToken, Zenon DEF Init
    <2>5. QED
      BY <1>1, <2>1, <2>2, <2>3, <2>4 DEF TypeOK, Init
  <1>2. ASSUME TypeOK, [Next]_vars
        PROVE  TypeOK'
    <2>1. CASE Start
      BY <1>2, <2>1, ConfigsAssumption DEF TypeOK, Start, cloudInitializer, validateConfig,
         hasPassword, hasAKSK
    <2>2. CASE \E w \in Workers : Step(w)
      BY <1>2, <2>2, StepTypes
    <2>3. CASE Tick
      BY <1>2, <2>3, TickTypes
    <2>4. CASE UNCHANGED vars
      BY <1>2, <2>4 DEF TypeOK, vars
    <2>5. QED
      BY <1>2, <2>1, <2>2, <2>3, <2>4 DEF Next
  <1>3. QED
    BY <1>1, <1>2, PTL DEF Spec

-----------------------------------------------------------------------------
\* What the type invariant says of the numbers TokenInv compares.
LEMMA Numbers ==
    ASSUME TypeOK, NEW w \in Workers, NEW f \in Words
    PROVE  /\ token[f] \in Token /\ held[w][f] \in Token /\ got[w] \in Token
           /\ token[f].life \in 0..Lifetime /\ held[w][f].life \in 0..Lifetime
           /\ got[w].life \in 0..Lifetime
           /\ age[w] \in 0..MaxDelay /\ expiry \in 0..Lifetime
  <1>1. token[f] \in Token /\ held[w][f] \in Token /\ got[w] \in Token
    BY DEF TypeOK, String
  <1>2. QED
    BY <1>1 DEF TypeOK, Token

\* Time passing keeps the bounds: a unit less on both sides, or one more of age.
LEMMA TickKeepsInv ==
    ASSUME TypeOK, TokenInv, Tick
    PROVE  TokenInv'
  <1>0. ASSUME NEW f \in Words
        PROVE  /\ IsToken(token'[f]) = IsToken(token[f])
               /\ token'[f].life = Down(token[f].life)
    BY <1>0, OlderToken DEF Tick, OlderString, TypeOK, String, IsToken
  <1>1. ASSUME NEW w \in Workers, NEW f \in Words
        PROVE  /\ IsToken(held'[w][f]) = IsToken(held[w][f])
               /\ held'[w][f].life = Down(held[w][f].life)
               /\ got'[w].life = Down(got[w].life)
    BY <1>1, Numbers, OlderToken DEF Tick, OlderString, TypeOK, IsToken
  <1>2. ASSUME NEW f \in Words, IsToken(token[f])'
        PROVE  (expiry <= token[f].life + MaxDelay)'
    <2>1. expiry <= token[f].life + MaxDelay
      BY <1>0, <1>2 DEF TokenInv
    <2>2. token[f].life \in 0..Lifetime /\ expiry \in 0..Lifetime
      BY DEF TypeOK, String, Token
    <2>3. token'[f].life = Down(token[f].life)
      BY <1>0
    <2>4. expiry' = Down(expiry)
      BY DEF Tick
    <2>5. QED
      BY <2>1, <2>2, <2>3, <2>4, TimesAssumption DEF Down
  <1>3. ASSUME NEW w \in Workers
        PROVE  Bounds(w)'
    <2>1. Busy(w) => age'[w] = age[w] + 1
      BY DEF Tick
    <2>2. pc[w] \in {"store", "read", "send"} => Busy(w)
      BY DEF Busy
    <2>3. ASSUME NEW f \in Words, pc[w] = "read", IsToken(token'[f])
          PROVE  token'[f].life + age'[w] >= Margin - MaxDelay
      BY <1>0, <2>1, <2>2, <2>3, Numbers, TimesAssumption DEF TokenInv, Bounds, Down
    <2>4. ASSUME NEW f \in Words, pc[w] = "send", IsToken(held'[w][f])
          PROVE  held'[w][f].life + age'[w] >= Margin - MaxDelay
      BY <1>1, <2>1, <2>2, <2>4, Numbers, TimesAssumption DEF TokenInv, Bounds, Down
    <2>5. ASSUME NEW f \in Words, pc[w] = "store", f \notin left[w], IsToken(token'[f])
          PROVE  /\ got'[w].life <= token'[f].life + MaxDelay
                 /\ token'[f].life + age'[w] >= Lifetime - MaxDelay
      BY <1>0, <1>1, <2>1, <2>2, <2>5, Numbers, TimesAssumption DEF TokenInv, Bounds, Down
    <2>6. ASSUME pc[w] = "store"
          PROVE  got'[w].life + age'[w] >= Lifetime
      BY <1>1, <2>1, <2>2, <2>6, Numbers, TimesAssumption DEF TokenInv, Bounds, Down
    <2>7. pc' = pc /\ left' = left
      BY DEF Tick
    <2>8. QED
      BY <2>3, <2>4, <2>5, <2>6, <2>7 DEF Bounds
  <1>4. QED
    BY <1>2, <1>3 DEF TokenInv

\* Sending a goroutine away keeps the bounds of the others.
LEMMA FinishKeepsInv ==
    ASSUME TypeOK, TokenInv, NEW w \in Workers, Finish(w)
    PROVE  TokenInv'
  <1>1. ASSUME NEW v \in Workers, v # w
        PROVE  Bounds(v)'
    BY <1>1 DEF TypeOK, TokenInv, Bounds, Finish, Goto
  <1>2. Bounds(w)'
    BY DEF TypeOK, Bounds, Finish, Goto
  <1>3. QED
    BY <1>1, <1>2 DEF TokenInv, Finish

\* A word stored by a goroutine is a token issued within MaxDelay, or empty: all
\* that is known of the token that was there holds of it as well.
LEMMA StoreTokenKeepsInv ==
    ASSUME TypeOK, TokenInv, NEW w \in Workers, StoreToken(w)
    PROVE  TokenInv'
  <1>1. PICK g \in left[w] :
          /\ token' = [token EXCEPT ![g] = IF IsToken(got[w]) THEN got[w] ELSE Empty]
          /\ left' = [left EXCEPT ![w] = @ \ {g}]
    BY DEF StoreToken
  <1>2. g \in Words /\ pc' = pc /\ age' = age /\ got' = got /\ held' = held
        /\ expiry' = expiry
    BY DEF StoreToken, TypeOK
  <1>3. ASSUME IsToken(token'[g])
        PROVE  token'[g] = got[w] /\ token'[g].life >= Lifetime - MaxDelay
    <2>1. token'[g] = got[w]
      BY <1>1, <1>2, <1>3, EmptyToken DEF TypeOK, String
    <2>2. got[w].life + age[w] >= Lifetime
      BY DEF StoreToken, TokenInv, Bounds
    <2>3. QED
      BY <2>1, <2>2, Numbers, TimesAssumption
  <1>4. ASSUME NEW f \in Words, f # g
        PROVE  token'[f] = token[f]
    BY <1>1, <1>4 DEF TypeOK, String
  <1>5. token'[g].life \in 0..Lifetime
    <2>1. TypeOK'
      BY StepTypes DEF Step
    <2>2. QED
      BY <1>2, <2>1 DEF TypeOK, String, Token
  <1>6. ASSUME NEW f \in Words, IsToken(token'[f])
        PROVE  expiry <= token'[f].life + MaxDelay
    <2>1. CASE f = g
      BY <1>3, <1>6, <2>1, <1>5, Numbers, TimesAssumption
    <2>2. CASE f # g
      BY <1>4, <1>6, <2>2 DEF TokenInv
    <2>3. QED
      BY <2>1, <2>2
  <1>7. ASSUME NEW v \in Workers
        PROVE  Bounds(v)'
    <2>1. ASSUME NEW f \in Words, pc[v] = "read", IsToken(token'[f])
          PROVE  token'[f].life + age[v] >= Margin - MaxDelay
      <3>1. CASE f = g
        BY <1>3, <1>5, <2>1, <3>1, Numbers, TimesAssumption
      <3>2. CASE f # g
        BY <1>4, <2>1, <3>2 DEF TokenInv, Bounds
      <3>3. QED
        BY <3>1, <3>2
    <2>2. ASSUME NEW f \in Words, pc[v] = "store", f \notin left'[v], IsToken(token'[f])
          PROVE  /\ got[v].life <= token'[f].life + MaxDelay
                 /\ token'[f].life + age[v] >= Lifetime - MaxDelay
      <3>1. CASE f = g
        BY <1>3, <1>5, <2>2, <3>1, Numbers, TimesAssumption
      <3>2. CASE f # g
        <4>1. f \notin left[v]
          BY <1>1, <2>2, <3>2 DEF TypeOK
        <4>2. QED
          BY <1>4, <2>2, <3>2, <4>1 DEF TokenInv, Bounds
      <3>3. QED
        BY <3>1, <3>2
    <2>3. QED
      BY <1>2, <2>1, <2>2 DEF TokenInv, Bounds
  <1>8. QED
    BY <1>2, <1>6, <1>7 DEF TokenInv

\* The expiry stored is at most MaxDelay ahead of either word of the token, be
\* they the goroutine's own or those of one that stored its token after it.
LEMMA StoreExpiryKeepsInv ==
    ASSUME TypeOK, TokenInv, NEW w \in Workers, StoreExpiry(w)
    PROVE  TokenInv'
  <1>1. /\ pc[w] = "store" /\ left[w] = {}
        /\ expiry' \in {got[w].life, Fallback, 0}
        /\ pc' = [pc EXCEPT ![w] = "read"]
        /\ UNCHANGED <<token, age, got, left, held>>
    BY DEF StoreExpiry, Goto
  <1>2. ASSUME NEW f \in Words, IsToken(token[f])
        PROVE  /\ got[w].life <= token[f].life + MaxDelay
               /\ token[f].life + age[w] >= Lifetime - MaxDelay
    BY <1>1, <1>2 DEF TokenInv, Bounds
  <1>3. ASSUME NEW f \in Words, IsToken(token[f])
        PROVE  expiry' <= token[f].life + MaxDelay
    BY <1>1, <1>2, <1>3, Numbers, TimesAssumption
  <1>4. ASSUME NEW f \in Words, IsToken(token[f])
        PROVE  token[f].life + age[w] >= Margin - MaxDelay
    BY <1>2, <1>4, Numbers, TimesAssumption
  <1>5. Bounds(w)'
    BY <1>1, <1>4 DEF TypeOK, Bounds
  <1>6. ASSUME NEW v \in Workers, v # w
        PROVE  Bounds(v)'
    BY <1>1, <1>6 DEF TypeOK, TokenInv, Bounds
  <1>7. QED
    BY <1>1, <1>3, <1>5, <1>6 DEF TokenInv

\* A goroutine that goes on to read the token has seen an expiry of at least
\* Margin, which is at most MaxDelay ahead of the token.
LEMMA TestKeepsInv ==
    ASSUME TypeOK, TokenInv, NEW w \in Workers, ensureAuthenticated(w)
    PROVE  TokenInv'
  <1>1. /\ pc' = [pc EXCEPT ![w] = IF expiry < Margin THEN "auth" ELSE "read"]
        /\ UNCHANGED <<token, expiry, age, got, left, held>>
    BY DEF ensureAuthenticated, Goto
  <1>2. ASSUME NEW f \in Words, IsToken(token[f]), ~(expiry < Margin)
        PROVE  token[f].life + age[w] >= Margin - MaxDelay
    <2>1. expiry <= token[f].life + MaxDelay
      BY <1>2 DEF TokenInv
    <2>2. QED
      BY <1>2, <2>1, Numbers, TimesAssumption
  <1>3. Bounds(w)'
    BY <1>1, <1>2 DEF TypeOK, Bounds
  <1>4. ASSUME NEW v \in Workers, v # w
        PROVE  Bounds(v)'
    BY <1>1, <1>4 DEF TypeOK, TokenInv, Bounds
  <1>5. QED
    BY <1>1, <1>3, <1>4 DEF TokenInv

\* A step of a goroutine keeps the bounds.
LEMMA StepKeepsInv ==
    ASSUME TypeOK, TokenInv, NEW w \in Workers, Step(w)
    PROVE  TokenInv'
  <1>1. CASE SignRequest(w)
    BY <1>1 DEF TypeOK, TokenInv, Bounds, SignRequest, Goto
  <1>2. CASE authenticate(w)
    <2>1. PICK by \in {w, NoOne} :
            got' = [got EXCEPT ![w] = [by |-> by, life |-> Lifetime]]
      BY <1>2 DEF authenticate
    <2>2. /\ pc' = [pc EXCEPT ![w] = "store"] /\ left' = [left EXCEPT ![w] = Words]
          /\ UNCHANGED <<token, expiry, age, held>>
      BY <1>2 DEF authenticate, Goto
    <2>3. got'[w].life = Lifetime
      BY <2>1 DEF TypeOK
    <2>4. got'[w].life + age[w] >= Lifetime
      BY <2>3, Numbers, TimesAssumption
    <2>5. Bounds(w)'
      BY <2>2, <2>4 DEF TypeOK, Bounds
    <2>6. ASSUME NEW v \in Workers, v # w
          PROVE  Bounds(v)'
      BY <2>1, <2>2, <2>6 DEF TypeOK, TokenInv, Bounds
    <2>7. QED
      BY <2>2, <2>5, <2>6 DEF TokenInv
  <1>3. CASE AuthenticateFails(w) \/ NoTokenReceived(w) \/ SendRequest(w)
    BY <1>3, FinishKeepsInv DEF AuthenticateFails, NoTokenReceived, SendRequest
  <1>4. CASE ReadToken(w)
    <2>1. Bounds(w)'
      BY <1>4 DEF TypeOK, TokenInv, Bounds, ReadToken, Goto
    <2>2. ASSUME NEW v \in Workers, v # w
          PROVE  Bounds(v)'
      BY <1>4, <2>2 DEF TypeOK, TokenInv, Bounds, ReadToken, Goto
    <2>3. QED
      BY <1>4, <2>1, <2>2 DEF TokenInv, ReadToken
  <1>5. CASE Panic(w)
    <2>1. token' = Both(Empty) /\ pc' = [v \in Workers |-> "idle"]
      BY <1>5 DEF Panic
    <2>2. \A f \in Words : ~IsToken(token'[f])
      BY <2>1, EmptyToken DEF Both
    <2>3. QED
      BY <2>1, <2>2 DEF TokenInv, Bounds
  <1>6. QED
    BY <1>1, <1>2, <1>3, <1>4, <1>5, StoreTokenKeepsInv, StoreExpiryKeepsInv,
       TestKeepsInv DEF Step

\* The expiry the client believes in is never far ahead of the token it holds,
\* whatever goroutines write the two in whatever order.
THEOREM TokenInvariant == Spec => []TokenInv
  <1>1. ASSUME Init
        PROVE  TokenInv
    <2>1. token = Both(Empty) /\ pc = [v \in Workers |-> "idle"]
      BY <1>1 DEF Init
    <2>2. \A f \in Words : ~IsToken(token[f])
      BY <2>1, EmptyToken DEF Both
    <2>3. QED
      BY <2>1, <2>2 DEF TokenInv, Bounds
  <1>2. ASSUME TypeOK, TokenInv, [Next]_vars
        PROVE  TokenInv'
    <2>1. CASE Start
      BY <1>2, <2>1 DEF TokenInv, Bounds, Start
    <2>2. CASE \E w \in Workers : Step(w)
      BY <1>2, <2>2, StepKeepsInv
    <2>3. CASE Tick
      BY <1>2, <2>3, TickKeepsInv
    <2>4. CASE UNCHANGED vars
      BY <1>2, <2>4 DEF TokenInv, Bounds, vars
    <2>5. QED
      BY <1>2, <2>1, <2>2, <2>3, <2>4 DEF Next
  <1>3. QED
    BY <1>1, <1>2, TokenTypes, PTL DEF Spec

\* No request carries an expired token.
THEOREM TokensAreFresh == Spec => []NoExpiredToken
  <1>1. ASSUME TypeOK, TokenInv
        PROVE  NoExpiredToken
    <2>1. SUFFICES ASSUME NEW w \in Workers, NEW f \in Words,
                          pc[w] = "send", IsToken(held[w][f])
                   PROVE  held[w][f].life > 0
      BY DEF NoExpiredToken
    <2>2. held[w][f].life + age[w] >= Margin - MaxDelay
      BY <1>1, <2>1 DEF TokenInv, Bounds
    <2>3. QED
      BY <1>1, <2>2, Numbers, TimesAssumption
  <1>2. QED
    BY <1>1, TokenTypes, TokenInvariant, PTL

-----------------------------------------------------------------------------
\* The configuration of a program that runs was accepted, and only a program that
\* runs has goroutines at work.
Accepted ==
    /\ running => validateConfig(config)
    /\ \A w \in Workers : pc[w] # "idle" => running

\* The mode the ELB client chooses has the secrets it needs.
THEOREM ModeHasSecrets == Spec => []ELBRequestsHaveSecrets
  <1>1. Init => Accepted
    BY DEF Init, Accepted
  <1>2. ASSUME TypeOK, Accepted, [Next]_vars
        PROVE  Accepted'
    <2>1. CASE Start
      BY <1>2, <2>1 DEF TypeOK, Accepted, Start, cloudInitializer
    <2>2. ASSUME NEW w \in Workers, Step(w)
          PROVE  Accepted'
      <3>1. config' = config
        BY <2>2 DEF Step, SignRequest, ensureAuthenticated, authenticate,
           AuthenticateFails, StoreToken, NoTokenReceived, StoreExpiry, ReadToken,
           SendRequest, Panic, Finish
      <3>2. CASE Panic(w)
        BY <1>2, <3>1, <3>2 DEF Accepted, Panic
      <3>3. CASE ~Panic(w)
        <4>1. running' = running /\ running
          BY <1>2, <2>2, <3>3 DEF Accepted, Step, SignRequest, ensureAuthenticated,
             authenticate, AuthenticateFails, StoreToken, NoTokenReceived, StoreExpiry,
             ReadToken, SendRequest, Finish
        <4>2. QED
          BY <1>2, <3>1, <4>1 DEF Accepted
      <3>4. QED
        BY <3>2, <3>3
    <2>3. CASE Tick
      BY <1>2, <2>3 DEF Accepted, Tick
    <2>4. CASE UNCHANGED vars
      BY <1>2, <2>4 DEF Accepted, vars
    <2>5. QED
      BY <1>2, <2>1, <2>2, <2>3, <2>4 DEF Next
  <1>3. Accepted => ELBRequestsHaveSecrets
    BY DEF Accepted, ELBRequestsHaveSecrets, validateConfig, hasPassword, hasAKSK,
       NewELBv3Client, SecretsOf, Workers
  <1>4. QED
    BY <1>1, <1>2, <1>3, TokenTypes, PTL DEF Spec
=============================================================================
