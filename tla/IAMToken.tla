------------------------------ MODULE IAMToken ------------------------------
(***************************************************************************)
(* The authentication of API requests: signOrTokenAuth,                    *)
(* ensureAuthenticated and authenticate of client.go, run by goroutines    *)
(* that share one ELBv3Client, and the signed requests of ECSClient.       *)
(*                                                                         *)
(* The fields authToken and tokenExpiry of the client are read and written *)
(* without a lock.  A Go string is two words, the pointer and the length:  *)
(* they are stored one after the other, in an order the compiler chooses,  *)
(* so a goroutine may read, and two writers may leave behind, the pointer  *)
(* of one token with the length of another.                                *)
(*                                                                         *)
(* Time is kept as what is left: of the life of a token at IAM, and of the *)
(* life the client believes in (tokenExpiry).  One unit is any duration    *)
(* that is not shorter than a goroutine takes from the test of the expiry  *)
(* to the sending of the request, divided by MaxDelay: the time-out of the *)
(* client (30 s) bounds the call of IAM that may lie in between.           *)
(***************************************************************************)
EXTENDS Integers, FiniteSets, CloudConfig

CONSTANTS
    ELBWorkers,     \* goroutines that use the ELBv3Client
    ECSWorkers,     \* goroutines that use the ECSClient
    NoOne,          \* the owner of the empty string
    Configs,        \* the configurations to start with
    AllowUntagged,  \* --allow-untagged-cloud
    Lifetime,       \* the life of a token that IAM issues (external)
    Fallback,       \* the life assumed when the answer does not tell (1 h)
    Margin,         \* a token is renewed this long before its expiry (5 min)
    MaxDelay        \* from the test of the expiry to the sending of the request

Workers == ELBWorkers \cup ECSWorkers

ASSUME WorkersAssumption == ELBWorkers \cap ECSWorkers = {} /\ NoOne \notin Workers
ASSUME ConfigsAssumption == Configs \subseteq Config /\ AllowUntagged \in BOOLEAN
ASSUME TimesAssumption ==
    /\ Lifetime \in Nat /\ Fallback \in Nat /\ Margin \in Nat /\ MaxDelay \in Nat
    /\ Fallback + MaxDelay <= Lifetime  \* one hour is less than IAM grants
    /\ Margin <= Lifetime
    /\ 2 * MaxDelay < Margin            \* two calls of 30 s are less than 5 min

VARIABLES
    config,   \* the configuration
    running,  \* the controller manager got through its start-up
    token,    \* authToken: the tokens its two words belong to
    expiry,   \* tokenExpiry: the life left, 0 once it has passed or was not set
    pc,       \* what a goroutine does next
    age,      \* the time since a goroutine tested the expiry
    got,      \* what IAM answered: the token, of no one if there was none
    left,     \* the words of authToken still to be stored
    held      \* the X-Auth-Token of the request being made

vars == <<config, running, token, expiry, pc, age, got, left, held>>

\* The words of a Go string.
Words == {"ptr", "len"}

\* A token is told apart by who obtained it and the life it has left; the empty
\* string is the token of no one.
Token == [by : Workers \cup {NoOne}, life : 0..Lifetime]
Empty == [by |-> NoOne, life |-> 0]
IsToken(x) == x.by # NoOne

String == [Words -> Token]
Both(x) == [f \in Words |-> x]

\* The string is one that IAM issued.
Genuine(s) == IsToken(s["ptr"]) /\ s["ptr"] = s["len"]
\* Its length is zero.
IsEmpty(s) == ~IsToken(s["len"])
\* A nil pointer with a length: using it ends the program.
Dangling(s) == ~IsToken(s["ptr"]) /\ IsToken(s["len"])

Down(n) == IF n = 0 THEN 0 ELSE n - 1
Older(x) == [x EXCEPT !.life = Down(x.life)]
OlderString(s) == [f \in Words |-> Older(s[f])]

Init ==
    /\ config \in Configs /\ running = FALSE
    /\ token = Both(Empty) /\ expiry = 0
    /\ pc = [w \in Workers |-> "idle"]
    /\ age = [w \in Workers |-> 0]
    /\ got = [w \in Workers |-> Empty]
    /\ left = [w \in Workers |-> {}]
    /\ held = [w \in Workers |-> Both(Empty)]

-----------------------------------------------------------------------------
\* LoadConfig, NewOTC and cloudInitializer: with a configuration they do not
\* accept, the program exits.
Start ==
    /\ ~running
    /\ running' = cloudInitializer(config, AllowUntagged)
    /\ UNCHANGED <<config, token, expiry, pc, age, got, left, held>>

Goto(w, c) == pc' = [pc EXCEPT ![w] = c]

\* The goroutine is done with its request, or gives up.
Finish(w) ==
    /\ Goto(w, "idle")
    /\ age' = [age EXCEPT ![w] = 0]
    /\ got' = [got EXCEPT ![w] = Empty]
    /\ left' = [left EXCEPT ![w] = {}]
    /\ held' = [held EXCEPT ![w] = Both(Empty)]
    /\ UNCHANGED <<config, running, token, expiry>>

\* A signed request: SignRequest reads nothing that another goroutine writes.
SignRequest(w) ==
    /\ running /\ pc[w] = "idle"
    /\ w \in ECSWorkers \/ NewELBv3Client(config) = "aksk"
    /\ Goto(w, "signed")
    /\ UNCHANGED <<config, running, token, expiry, age, got, left, held>>

\* Variant: the client authenticates only when it has no token.
ensureAuthenticatedOnce(w) ==
    /\ running /\ pc[w] = "idle"
    /\ w \in ELBWorkers /\ NewELBv3Client(config) = "token"
    /\ Goto(w, IF IsEmpty(token) THEN "auth" ELSE "read")
    /\ UNCHANGED <<config, running, token, expiry, age, got, left, held>>

\* Variant: the expiry is compared with the time without the margin.
ensureAuthenticatedLate(w) ==
    /\ running /\ pc[w] = "idle"
    /\ w \in ELBWorkers /\ NewELBv3Client(config) = "token"
    /\ Goto(w, IF expiry = 0 THEN "auth" ELSE "read")
    /\ UNCHANGED <<config, running, token, expiry, age, got, left, held>>

\* ensureAuthenticated, the test of the expiry.
ensureAuthenticated(w) ==
    /\ running /\ pc[w] = "idle"
    /\ w \in ELBWorkers /\ NewELBv3Client(config) = "token"
    /\ Goto(w, IF expiry < Margin THEN "auth" ELSE "read")
    /\ UNCHANGED <<config, running, token, expiry, age, got, left, held>>

\* authenticate, POST auth/tokens: a token, or 201 without the header that
\* carries one.
authenticate(w) ==
    /\ pc[w] = "auth"
    /\ \E by \in {w, NoOne} :
         got' = [got EXCEPT ![w] = [by |-> by, life |-> Lifetime]]
    /\ left' = [left EXCEPT ![w] = Words]
    /\ Goto(w, "store")
    /\ UNCHANGED <<config, running, token, expiry, age, held>>

\* The POST fails or is answered with another status: nothing is sent.
AuthenticateFails(w) == pc[w] = "auth" /\ Finish(w)

\* authenticate, the assignment to authToken, word by word.
StoreToken(w) ==
    /\ pc[w] = "store" /\ left[w] # {}
    /\ \E f \in left[w] :
         /\ token' = [token EXCEPT ![f] = IF IsToken(got[w]) THEN got[w] ELSE Empty]
         /\ left' = [left EXCEPT ![w] = @ \ {f}]
    /\ UNCHANGED <<config, running, expiry, pc, age, got, held>>

\* authenticate, "no auth token received": the error leaves authToken empty and
\* tokenExpiry as it was.
NoTokenReceived(w) ==
    /\ pc[w] = "store" /\ left[w] = {} /\ IsEmpty(token)
    /\ Finish(w)

\* Variant: the expiry is read in a time zone that is one unit ahead.
StoreExpiryAhead(w) ==
    /\ pc[w] = "store" /\ left[w] = {} /\ ~IsEmpty(token)
    /\ expiry' \in {got[w].life + 1, Fallback, 0}
    /\ Goto(w, "read")
    /\ UNCHANGED <<config, running, token, age, got, left, held>>

\* authenticate, the assignment to tokenExpiry: the expiry in the body, an hour
\* when the body cannot be decoded, the zero time when it has none.
StoreExpiry(w) ==
    /\ pc[w] = "store" /\ left[w] = {} /\ ~IsEmpty(token)
    /\ expiry' \in {got[w].life, Fallback, 0}
    /\ Goto(w, "read")
    /\ UNCHANGED <<config, running, token, age, got, left, held>>

\* signOrTokenAuth, reading authToken for the header.
ReadToken(w) ==
    /\ pc[w] = "read"
    /\ held' = [held EXCEPT ![w] = token]
    /\ Goto(w, "send")
    /\ UNCHANGED <<config, running, token, expiry, age, got, left>>

\* makeRequest, sending the request.
SendRequest(w) ==
    /\ pc[w] \in {"send", "signed"} /\ ~Dangling(held[w])
    /\ Finish(w)

\* A panic: the controller manager is started again.
Panic(w) ==
    /\ pc[w] = "send" /\ Dangling(held[w])
    /\ running' = FALSE
    /\ token' = Both(Empty) /\ expiry' = 0
    /\ pc' = [v \in Workers |-> "idle"]
    /\ age' = [v \in Workers |-> 0]
    /\ got' = [v \in Workers |-> Empty]
    /\ left' = [v \in Workers |-> {}]
    /\ held' = [v \in Workers |-> Both(Empty)]
    /\ UNCHANGED config

\* A goroutine between the test of the expiry and the sending of its request.
Busy(w) == pc[w] \notin {"idle", "signed"}

Tick ==
    /\ \A w \in Workers : Busy(w) => age[w] < MaxDelay
    /\ token' = OlderString(token)
    /\ expiry' = Down(expiry)
    /\ age' = [w \in Workers |-> IF Busy(w) THEN age[w] + 1 ELSE 0]
    /\ got' = [w \in Workers |-> Older(got[w])]
    /\ held' = [w \in Workers |-> OlderString(held[w])]
    /\ UNCHANGED <<config, running, pc, left>>

Step(w) ==
    \/ SignRequest(w) \/ ensureAuthenticated(w)
    \/ authenticate(w) \/ AuthenticateFails(w)
    \/ StoreToken(w) \/ NoTokenReceived(w) \/ StoreExpiry(w)
    \/ ReadToken(w) \/ SendRequest(w) \/ Panic(w)

Next == Start \/ (\E w \in Workers : Step(w)) \/ Tick

Spec == Init /\ [][Next]_vars

-----------------------------------------------------------------------------
(* Correctness properties.                                                 *)

PCs == {"idle", "signed", "auth", "store", "read", "send"}

\* Every variable keeps its type.
TypeOK ==
    /\ config \in Configs /\ running \in BOOLEAN
    /\ token \in String /\ expiry \in 0..Lifetime
    /\ pc \in [Workers -> PCs]
    /\ age \in [Workers -> 0..MaxDelay]
    /\ got \in [Workers -> Token]
    /\ left \in [Workers -> SUBSET Words]
    /\ held \in [Workers -> String]

\* No request carries a token that has expired, although the token and its expiry
\* are written by several goroutines in any order, the expiry of one may end up
\* with the token of another, and the token is read after the test: the margin
\* makes up for it.
NoExpiredToken ==
    \A w \in Workers, f \in Words :
        pc[w] = "send" /\ IsToken(held[w][f]) => held[w][f].life > 0

\* What the start-up accepts is enough for what the ELB client chooses: a client
\* that signs has both keys, one that buys tokens has the user and its password.
ELBRequestsHaveSecrets ==
    \A w \in ELBWorkers :
        pc[w] # "idle" => SecretsOf(NewELBv3Client(config)) \subseteq config

\* How far the expiry the client believes in may be ahead of the token: the
\* strengthening of NoExpiredToken.
Bounds(w) ==
    /\ \A f \in Words :
        /\ (pc[w] = "read" /\ IsToken(token[f])) =>
               token[f].life + age[w] >= Margin - MaxDelay
        /\ (pc[w] = "send" /\ IsToken(held[w][f])) =>
               held[w][f].life + age[w] >= Margin - MaxDelay
        /\ (pc[w] = "store" /\ f \notin left[w] /\ IsToken(token[f])) =>
               /\ got[w].life <= token[f].life + MaxDelay
               /\ token[f].life + age[w] >= Lifetime - MaxDelay
    /\ pc[w] = "store" => got[w].life + age[w] >= Lifetime

TokenInv ==
    /\ \A f \in Words : IsToken(token[f]) => expiry <= token[f].life + MaxDelay
    /\ \A w \in Workers : Bounds(w)

-----------------------------------------------------------------------------
(* Fairness: the program is started again when it ends, its controllers    *)
(* keep making requests, a goroutine that makes one goes on, time passes.  *)
(* That IAM answers well is not assumed.                                   *)

FairSpec ==
    /\ Spec
    /\ WF_vars(Start)
    /\ \A w \in Workers : WF_vars(Step(w))
    /\ WF_vars(Tick)

\* A token that is empty or mixed from two, and is believed in, is not kept for
\* good: nothing but the expiry stored with it makes the client ask for another,
\* and that expiry comes.
UnusableTokenIsRenewed ==
    (~Genuine(token) /\ expiry >= Margin) ~>
        (Genuine(token) \/ \E w \in ELBWorkers : pc[w] = "auth")

-----------------------------------------------------------------------------
(* What the repository says of the program and the code does not do; each  *)
(* is refuted by a run of its own.                                         *)

\* "checks if the token is valid and re-authenticates if needed" (client.go): a
\* request of the ELB client carries a token that IAM issued.
TokenIsValid == \A w \in Workers : pc[w] = "send" => Genuine(held[w])

\* "either username/password or access_key/secret_key is required", "either
\* project_name or project_id is required" (config.go): a configuration that is
\* accepted has what every client sends.
ConfigSuffices ==
    \A w \in Workers :
        pc[w] \in {"signed", "send"} =>
            /\ SecretsOf(IF w \in ECSWorkers THEN NewECSClient(config)
                                             ELSE NewELBv3Client(config)) \subseteq config
            /\ ProjectSent(config)
=============================================================================
