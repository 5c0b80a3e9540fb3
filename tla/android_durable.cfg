SPECIFICATION FairSpec
CONSTANTS
    p1 = p1
    p2 = p2
    p3 = p3
    f1 = f1
    f2 = f2
    f3 = f3
    Phrases <- MCPhrases3
    Frames <- MCFrames2
    None = None
    NoFrame = NoFrame
    Failure = Failure
    AppCalls = {"getWallet", "getAccountPhrase", "createAccountOverwrite"}
    AppTexts = {}
    AppAwaits = FALSE
    MaxDraws = 3
    TaskFailures = {}
    Restarts = TRUE
PROPERTIES CallsSettle BackedEventually StoredAccountIsFound
CHECK_DEADLOCK FALSE
