SPECIFICATION DepositsSpec
CONSTANTS
    Users <- MCUsers
    Ids <- MCIds
    Opening <- MCOpening
    StartTiers <- MCStartTiers
    MaxCents = 10
    DepositLimit <- MCDepositLimit
    DepositVelocity <- MCDepositVelocity
    PayoutLimit = 6
    WithdrawalVelocity <- MCWithdrawalVelocity
    GateRate = 770
    Handlers = {h1, h2}
    Intents <- MCIntents
    IntentUser <- MCIntentUser
    IntentCents <- MCIntentCents
    IntentCurrency <- MCIntentCurrency
    IntentProvider <- MCIntentProvider
    Captures <- MCCaptures
    CaptureIntent <- MCCaptureIntent
    Proofs <- MCProofs
    ProofUser <- MCProofUser
    ProofCents <- MCProofCents
    ProofCurrency <- MCProofCurrency
    Overrides = {}
    FxRate = 800
INVARIANTS
    DepositsTypeOK
    LedgerChain
    SettledExactlyOnce
    UncheckedCannotCapture
PROPERTIES
    DepositsRefineSettlement
    PendingIntentCloses
CHECK_DEADLOCK FALSE
