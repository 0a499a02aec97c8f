--------------------------- MODULE HealthMonitor ---------------------------
(***************************************************************************)
(* The configuration of a pool's health monitor: the defaults of client.go *)
(* and what getHealthMonitorConfig (loadbalancer.go) takes over from the   *)
(* otc.io/health-check annotations of a Service.  An annotation is a set:  *)
(* empty when it is absent or does not parse, its value otherwise.         *)
(***************************************************************************)
EXTENDS Integers

HealthAnnotations ==
    [type : SUBSET STRING, delay : SUBSET Int, timeout : SUBSET Int,
     maxRetries : SUBSET Int]

NoAnnotations == [type |-> {}, delay |-> {}, timeout |-> {}, maxRetries |-> {}]

DefaultHealthMonitorConfig(protocol) ==
    [type |-> IF protocol \in {"HTTP", "HTTPS"} THEN protocol
              ELSE IF protocol = "UDP" THEN "UDP_CONNECT" ELSE "TCP",
     delay |-> 5, timeout |-> 10, maxRetries |-> 3]

\* Variant: what an annotation says is taken over unseen.
ChosenUnseen(annotation, allowed, default) ==
    IF annotation = {} THEN default ELSE CHOOSE v \in annotation : TRUE

\* The value of an annotation if it is allowed, the default otherwise.
Chosen(annotation, allowed, default) ==
    IF annotation \cap allowed = {} THEN default
    ELSE CHOOSE v \in annotation : v \in allowed

getHealthMonitorConfig(annotations, protocol) ==
    LET cfg == DefaultHealthMonitorConfig(protocol)
    IN  [type |-> Chosen(annotations.type, {"TCP", "HTTP", "HTTPS", "UDP_CONNECT"},
                         cfg.type),
         delay |-> Chosen(annotations.delay, 1..50, cfg.delay),
         timeout |-> Chosen(annotations.timeout, 1..50, cfg.timeout),
         maxRetries |-> Chosen(annotations.maxRetries, 1..10, cfg.maxRetries)]

\* The API of this cloud refuses a monitor that times out before its interval
\* (DEVELOPMENT.md).
MonitorAccepted(cfg) == cfg.timeout >= cfg.delay
=============================================================================
