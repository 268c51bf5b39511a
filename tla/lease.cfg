CONSTANTS
    Client = {c1, c2}
    MaxBackground = 2
SPECIFICATION FairSpec
INVARIANT LeaseIsBacked
PROPERTIES NoSpuriousLoss ImplementsContract LeaseArrives LeaseIsWithdrawn
