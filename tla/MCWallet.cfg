SPECIFICATION WalletSpec
CONSTANTS
    Users <- MCUsers
    Ids <- MCIds
    Opening <- MCOpening
    StartTiers <- MCStartTiers
    MaxCents = 8
    DepositLimit <- MCDepositLimit
    DepositVelocity <- MCDepositVelocity
    PayoutLimit = 7
    WithdrawalVelocity <- MCWithdrawalVelocity
    GateRate = 500
    Reviewed <- MCUsers
    Grants = {1, 2, 3}
    Handlers = {h1, h2}
    Intents = {}
    IntentUser <- MCNothing
    IntentCents <- MCNothing
    IntentCurrency <- MCNothing
    IntentProvider <- MCNothing
    Captures = {}
    CaptureIntent <- MCNothing
    Proofs <- MCProofs
    ProofUser <- MCProofUser
    ProofCents <- MCProofCents
    ProofCurrency <- MCProofCurrency
    Overrides = {1}
    FxRate = 800
    Withdrawals <- MCWithdrawals
    WithdrawalUser <- MCWithdrawalUser
    WithdrawalCents <- MCWithdrawalCents
    WithdrawalCurrency <- MCWithdrawalCurrency
    WithdrawalMin = 1
    WithdrawalMax = 8
    WithdrawalMinUSD = 1
INVARIANTS
    WalletTypeOK
    LedgerChain
    SettledExactlyOnce
    PaidOutExactlyOnce
    OneOpenRequest
    TierMatchesReview
PROPERTIES
    WalletRefinesSettlement
CHECK_DEADLOCK FALSE
