SPECIFICATION Spec
CONSTANTS
    Cards = {k1, k2, k3}
    Calls = {c1, c2}
    None = None
SYMMETRY Symmetry
INVARIANTS SecretOnlyInSight PageIsHonest
