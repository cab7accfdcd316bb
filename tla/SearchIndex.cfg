SPECIFICATION IndexSpec
CONSTANTS
    Replicas = {p1, p2}
    Sellers = {s1, s2}
    Shoppers = {q1}
    MaxWrites = 5
SYMMETRY Sym
INVARIANTS DivergenceIsExcused SearchesAreHonest
