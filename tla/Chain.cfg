CONSTANTS
    leaf = leaf
    a = a
    b = b
    c = c
    other = other
    k1 = k1
    k2 = k2
    k3 = k3
    k4 = k4
    nobody = nobody
    Certs = {leaf, a, b, c, other}
    Keys = {k1, k2, k3, k4, nobody}
    Depth = 3
    KeyOf <- MCKeyOf
    SignedBy <- MCSignedBy
    Bags <- MCBags
    CaFiles <- MCCaFiles
SPECIFICATION Spec
INVARIANTS
    TypeOK
    Sound
    Complete
\* The walk ends.
CHECK_DEADLOCK FALSE
