---------------------------- MODULE MCBlockCache ----------------------------
EXTENDS BlockCache, TLC

MCQuery == {ByNumber("header", 1, 1), ByNumber("header", 2, 2), ByNumber("receipts", 2, 2),
            ByNumber("logs", 1, 2), ByNumber("logs", 2, 2), ByHash("header", <<2, 0>>), Tag}

Symmetry == Permutations(Node) \cup Permutations(Caller)
=============================================================================
