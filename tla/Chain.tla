-------------------------------- MODULE Chain --------------------------------
(***************************************************************************)
(* The walk of crypto/chain.rs from a signer's certificate to a trusted    *)
(* one.  A certificate is its DER, so equal certificates are one; two      *)
(* certificates may hold the same key, as a cross-signed root does, and    *)
(* then either passes for the issuer of what that key signed.              *)
(***************************************************************************)
EXTENDS Integers, Sequences, Functions

CONSTANTS
    Certs, Keys,
    Depth,       \* 20
    KeyOf,       \* the functions [Certs -> Keys]: the key each certificate is of
    SignedBy,    \* and the key it was signed with, which may be nobody's
    Bags,        \* sequences of certificates: the SignedData's
    CaFiles      \* and the --CAfile's

ASSUME ChainAssumption ==
    /\ Depth \in Nat \ {0}
    /\ KeyOf \subseteq [Certs -> Keys] /\ SignedBy \subseteq [Certs -> Keys]
    /\ Bags \cup CaFiles \subseteq Seq(Certs)

VARIABLES
    key, signed_by, signer, cert_bag, ca_certs,   \* the arguments
    current, visited, rounds,
    verdict                                       \* "walking", then what is returned

arguments == << key, signed_by, signer, cert_bag, ca_certs >>
vars      == << arguments, current, visited, rounds, verdict >>

----------------------------------------------------------------------------

verify_signed_by_certificate(cert, issuer) == signed_by[cert] = key[issuer]

is_cert_in_set(cert, set) == cert \in Range(set)

\* Mutant: only the certificates that came with the signature are searched.
all_certs_BagOnly == cert_bag
all_certs == cert_bag \o ca_certs

Issuers(cert) == {i \in DOMAIN all_certs : verify_signed_by_certificate(cert, all_certs[i])}

\* The first of the candidates.
find_issuer(cert) ==
    all_certs[CHOOSE i \in Issuers(cert) : \A j \in Issuers(cert) : i <= j]

\* find_signer_cert takes the signer's from the bag.
Init ==
    /\ key \in KeyOf /\ signed_by \in SignedBy
    /\ cert_bag \in Bags /\ ca_certs \in CaFiles
    /\ signer \in Range(cert_bag)
    /\ current = signer /\ visited = {} /\ rounds = 0
    /\ verdict = "walking"

Return(answer) ==
    /\ verdict' = answer
    /\ UNCHANGED << arguments, current, visited, rounds >>

Walking == verdict = "walking"

Exhausted == Walking /\ rounds = Depth /\ Return("untrusted")
Cycle     == Walking /\ rounds < Depth /\ current \in visited /\ Return("untrusted")

\* Mutant: no depth limit.
Fresh_NoLimit == Walking /\ current \notin visited

\* An iteration with a certificate not seen before.
Fresh == Walking /\ rounds < Depth /\ current \notin visited

Trusted == Fresh /\ is_cert_in_set(current, ca_certs) /\ Return("trusted")

\* Mutant: a self-signed certificate is trusted for being a root.
Root_TrustsAny ==
    /\ Fresh /\ ~is_cert_in_set(current, ca_certs)
    /\ verify_signed_by_certificate(current, current)
    /\ Return("trusted")

\* Self-signed, and not one of the trusted.
Root ==
    /\ Fresh /\ ~is_cert_in_set(current, ca_certs)
    /\ verify_signed_by_certificate(current, current)
    /\ Return("untrusted")

Climbs ==
    /\ Fresh /\ ~is_cert_in_set(current, ca_certs)
    /\ ~verify_signed_by_certificate(current, current)

\* An issuer that is found has just verified, and verifies again (chain.rs:77).
Orphan == Climbs /\ Issuers(current) = {} /\ Return("untrusted")

Climb ==
    /\ Climbs /\ Issuers(current) # {}
    /\ current' = find_issuer(current)
    /\ visited' = visited \cup {current}
    /\ rounds' = rounds + 1
    /\ UNCHANGED << arguments, verdict >>

Next == Exhausted \/ Cycle \/ Trusted \/ Root \/ Orphan \/ Climb

Spec == Init /\ [][Next]_vars

----------------------------------------------------------------------------
(* Properties *)

\* n certificates after the signer's, each the issuer of the one before, the
\* last one trusted.
TrustPath(n) ==
    \E p \in [0 .. n -> Certs] :
        /\ p[0] = signer
        /\ \A i \in 1 .. n : /\ p[i] \in Range(cert_bag \o ca_certs)
                             /\ verify_signed_by_certificate(p[i-1], p[i])
        /\ p[n] \in Range(ca_certs)

Near == \E n \in 0 .. Depth - 1 : TrustPath(n)

\* The walk makes Depth rounds at most, one for each certificate visited.
TypeOK ==
    /\ key \in KeyOf /\ signed_by \in SignedBy
    /\ cert_bag \in Bags /\ ca_certs \in CaFiles
    /\ signer \in Certs /\ current \in Certs /\ visited \subseteq Certs
    /\ rounds \in 0 .. Depth
    /\ verdict \in {"walking", "trusted", "untrusted"}

\* A chain is accepted only if there is one: whatever the bag holds, roots of
\* the signer's own making and cycles included, it leads to a trusted certificate.
Sound == verdict = "trusted" => Near

\* A chain within the depth limit is found, as long as no two certificates
\* hold the same key: then the first issuer found is the only one.
Complete ==
    /\ verdict = "untrusted"
    /\ \A c, d \in Range(cert_bag \o ca_certs) : key[c] = key[d] => c = d
    => ~Near

=============================================================================
