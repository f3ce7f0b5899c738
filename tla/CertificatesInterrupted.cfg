SPECIFICATION Spec
CONSTANTS
    Pair = {1, 2, 3, 4, 5, 6, 7}
    Missing = Missing
    Torn = Torn
    Nobody = Nobody
INVARIANTS
    ServedChainVerifies
