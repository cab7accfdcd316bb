SPECIFICATION CartSpec
CONSTANTS
    Calls = {c1, c2}
    Pages = {p1, p2}
    Nobody = Nobody
    Limit = 2
    Quantities = {1, 2}
SYMMETRY Sym
INVARIANTS OvershootBounded
PROPERTIES CheckoutIsExact
