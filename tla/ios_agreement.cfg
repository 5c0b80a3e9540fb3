SPECIFICATION Spec
CONSTANTS
    p1 = p1
    p2 = p2
    p3 = p3
    p4 = p4
    f1 = f1
    f2 = f2
    f3 = f3
    Phrases <- MCPhrases4
    Frames <- MCFrames3
    None = None
    NoFrame = NoFrame
    Failure = Failure
    AppCalls = {"getWallet", "createAccountOverwrite"}
    AppTexts = {}
    AppAwaits = TRUE
    MaxDraws = 4
    SystemFailures = {}
    Restarts = TRUE
INVARIANT AgreementWhenIdle
CHECK_DEADLOCK FALSE
