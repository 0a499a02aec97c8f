------------------------------- MODULE LBName -------------------------------
(***************************************************************************)
(* GetLoadBalancerName and generateShortHash (loadbalancer.go): the name   *)
(* by which every method finds the ELB of a Service.  A name is a sequence *)
(* of character codes.                                                     *)
(***************************************************************************)
EXTENDS Integers, Sequences

CONSTANTS
    NameLimit,    \* the longest name that is left as it is (64)
    PrefixLength, \* what is kept of a longer one (55)
    HashModulus,  \* 0xFFFF
    IntBits       \* the width of int (64; fewer for TLC, whose integers have 32)

Hyphen == 45

\* %x of a number below 0xFFFF: as many digits as it needs.
Hex(n) ==
    LET digits == CHOOSE k \in 1..4 : n < 16^k /\ (k = 1 \/ n >= 16^(k - 1))
        code(d) == IF d < 10 THEN 48 + d ELSE 87 + d
    IN  [i \in 1..digits |-> code((n \div 16^(digits - i)) % 16)]

\* The hash wraps around at the width of int, and its top half is negative; the
\* remainder keeps the sign of the one int whose negation is still negative.
generateShortHash(input) ==
    LET hash[i \in 0..Len(input)] ==
            IF i = 0 THEN 0 ELSE (hash[i - 1] * 31 + input[i]) % 2^IntBits
        last == hash[Len(input)]
        smallest == 2^(IntBits - 1)
    IN  IF last = smallest THEN <<Hyphen>> \o Hex(smallest % HashModulus)
        ELSE Hex((IF last < smallest THEN last ELSE 2^IntBits - last) % HashModulus)

\* k8s-{cluster}-{namespace}-{service}, cut off and hashed when it is too long.
GetLoadBalancerName(clusterName, namespace, service) ==
    LET name == <<107, 56, 115, Hyphen>> \o clusterName \o <<Hyphen>>
                \o namespace \o <<Hyphen>> \o service
    IN  IF Len(name) <= NameLimit THEN name
        ELSE SubSeq(name, 1, PrefixLength) \o <<Hyphen>> \o generateShortHash(name)
=============================================================================
