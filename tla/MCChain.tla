------------------------------- MODULE MCChain -------------------------------
(***************************************************************************)
(* A leaf with a key of its own, three certificates with any keys, so that *)
(* cross-signed twins, cycles, self-signed leaves and chains one longer    *)
(* than Depth all occur, and the root of somebody else.                    *)
(***************************************************************************)
EXTENDS Chain

CONSTANTS leaf, a, b, c, other, k1, k2, k3, k4, nobody

MCKeyOf == {f \in [Certs -> {k1, k2, k3, k4}] :
                /\ f[leaf] = k1 /\ f[a] \in {k1, k2} /\ (f[a] = k1 => f[b] # k3)
                /\ {f[b], f[c]} \subseteq {k1, k2, k3} /\ f[other] = k4}
MCSignedBy == {f \in [Certs -> Keys] :
                \A x \in Certs : f[x] = k4 <=> x = other}

\* The leaf first or last, before and after up to three others.
MCBags ==
    LET others == {<< >>, << b >>, << a, b >>, << b, a >>, << a, b, c >>}
    IN  {<< leaf >> \o o : o \in others} \cup {o \o << leaf >> : o \in others}

MCCaFiles == {<< a >>, << c, a >>, << b, c >>, << leaf >>, << other >>}

=============================================================================
