SPECIFICATION FairSpec
CONSTANTS
    p1 = p1
    p2 = p2
    p3 = p3
    p4 = p4
    f1 = f1
    f2 = f2
    f3 = f3
    Phrases <- MCPhrases3
    Frames <- MCFrames2
    None = None
    NoFrame = NoFrame
    Failure = Failure
    AppCalls = {"getWallet", "getAccountPhrase", "createAccount", "createAccountOverwrite", "sign"}
    AppTexts = {}
    AppAwaits = FALSE
    MaxDraws = 3
    SystemFailures = {"SecItemAdd", "SecRandomCopyBytes"}
    Restarts = TRUE
PROPERTIES CallsSettle StoredAccountIsFound
CHECK_DEADLOCK FALSE
