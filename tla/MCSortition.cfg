CONSTANTS
    Threshold = 1
    Currency = 4
    HashRange = 32
    Wallets <- MCWallets
SPECIFICATION Spec
INVARIANT TypeOK
INVARIANT DrawsTheQuantile
INVARIANT VerifyAgrees
PROPERTY ReturnsWhenChosen
