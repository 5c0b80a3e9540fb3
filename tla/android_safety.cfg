SPECIFICATION Spec
CONSTANTS
    p1 = p1
    p2 = p2
    p3 = p3
    f1 = f1
    f2 = f2
    f3 = f3
    Phrases <- MCPhrases3
    Frames <- MCFrames2
    None = None
    NoFrame = NoFrame
    Failure = Failure
    AppCalls = {"getWallet", "getAccountPhrase", "createAccount", "createAccountOverwrite", "sign", "permanentlyDeleteAccount", "saveMnemonic"}
    AppTexts = {Failure}
    AppAwaits = FALSE
    MaxDraws = 3
    TaskFailures = {"store", "delete", "retrieve"}
    Restarts = TRUE
INVARIANTS TypeOK HandedOutIsEntrusted OneAnswerEach
PROPERTY ImplementsCustody
CHECK_DEADLOCK FALSE
SYMMETRY MCSymmetry
