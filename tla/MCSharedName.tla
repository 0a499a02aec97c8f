---------------------------- MODULE MCSharedName ----------------------------
(* Two Services in one namespace of a cluster, with names of 52 characters that
   differ in the last two, and the ELB names that the provider gives them. *)
EXTENDS MCServiceController, LBName

Letters(n, c) == [i \in 1..n |-> c]

\* "aa...aan" and "aa...ac0".
ServiceName(s) == Letters(50, 97) \o (IF s = "a" THEN <<97, 110>> ELSE <<99, 48>>)

ELBName(s) == GetLoadBalancerName(Letters(5, 99), Letters(3, 110), ServiceName(s))

\* Names as strings: services share one exactly if their ELB names are equal.
ELBNames == [s \in Services |-> CHOOSE t \in Services : ELBName(t) = ELBName(s)]
=============================================================================
