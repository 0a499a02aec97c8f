----------------------------- MODULE ServiceELB -----------------------------
(***************************************************************************)
(* What the provider promises to the service controller about the load     *)
(* balancer of a Service, without requests, failures or workers: an ELB is *)
(* provisioned only under the protection of the finalizer and only when    *)
(* there is none, an address is published only while there is an ELB, and  *)
(* the finalizer is given up only when the ELB is gone.                    *)
(* ServiceController implements this specification.                        *)
(***************************************************************************)
EXTENDS Integers

CONSTANT Services

VARIABLES
    fin,        \* the finalizer is on the Service
    elb,        \* the set of ids of its load balancers
    published   \* its status holds an address

vars == <<fin, elb, published>>

Init ==
    /\ fin = [s \in Services |-> FALSE]
    /\ elb = [s \in Services |-> {}]
    /\ published = [s \in Services |-> FALSE]

Protect(s) ==
    /\ fin' = [fin EXCEPT ![s] = TRUE]
    /\ UNCHANGED <<elb, published>>

Provision(s) ==
    /\ fin[s] /\ elb[s] = {}
    /\ \E id \in elb'[s] : elb' = [elb EXCEPT ![s] = {id}]
    /\ UNCHANGED <<fin, published>>

Publish(s) ==
    /\ fin[s] /\ elb[s] # {}
    /\ published' = [published EXCEPT ![s] = TRUE]
    /\ UNCHANGED <<fin, elb>>

Deprovision(s) ==
    /\ elb[s] # {}
    /\ elb' = [elb EXCEPT ![s] = {}]
    /\ UNCHANGED <<fin, published>>

Release(s) ==
    /\ elb[s] = {}
    /\ fin' = [fin EXCEPT ![s] = FALSE]
    /\ published' = [published EXCEPT ![s] = FALSE]
    /\ UNCHANGED elb

Next ==
    \E s \in Services : \/ Protect(s) \/ Provision(s) \/ Publish(s)
                        \/ Deprovision(s) \/ Release(s)

Spec == Init /\ [][Next]_vars
=============================================================================
