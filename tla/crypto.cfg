SPECIFICATION Spec
CONSTANTS
    BlockLength = 4
    DigestLength = 1
    WordModulus = 64
    Chunks = {0, 1, 2, 3, 4, 7}
    MaxMessage = 70
    KeyLengths = {0, 3, 4, 5}
    SaltLengths = {0, 1, 2, 4}
    MessageLengths = {0, 1, 3, 4}
    Iterations = {1, 2, 3}
    MaxIterations = 4
    MaxHmacMessage = 9
    s1 = s1
    s2 = s2
    soft = soft
    hard = hard
    Seeds <- MCSeeds
    Children <- MCChildren
    ZeroChild = soft
    NoNode = NoNode
    MaxPath = 3
    CacheSize = 2
    MaxDepth = 2
    m1 = m1
    m2 = m2
    m3 = m3
    l1 = l1
    q1 = q1
    q2 = q2
    l2 = l2
    Mnemonics <- MCMnemonics
    LongMnemonics <- MCLongMnemonics
    Passphrases <- MCPassphrases
    LongPassphrases <- MCLongPassphrases
    NoText = NoText
    SeedCacheSize = 2
    AesBlockSize = 3
    CounterRadix = 2
    CallLengths = {0, 1, 2, 3, 4, 6, 7}
    MaxStream = 12
    ByteBits = 5
    HashFirst <- MCHashFirst
    EntropyLengths = {4, 8}
    WordCounts = {6}
    EntropyBytes = {6, 21}
    Typed <- MCTyped
    LimbBytes = 2
    HashByte <- MCHashByte
    SourceBytes = {0, 1, 58, 255}
    TextDigits <- MCTextDigits
    MaxSource = 2
    MaxText = 5
    LimbBits = 5
    Limbs = 3
    TextBits = 6
    Primes = {4079, 4091}
    Numbers = {0, 1, 5, 31, 1024, 4079, 4095, 8157, 16315, 20000, 32767}
    MultiplyLimit = 4
    Quotients = {7, 10}
    MaxCalls = 2
    NumberBits = 12
    Curves <- MCCurves
    WindowBits = 4
    PartlyReduced <- MCPartly
    BlindZ = {16, 1000, 2047}
    Scalars <- MCScalars
    PointScalars = {1, 2, 3000}
    Keys = {2, 3777}
    Digests = {0, 1000, 3913, 3916, 4003, 4095}
    Nonces = {0, 1, 185, 569, 1147, 1574, 3919}
    MaxTries = 2
    Coordinates = {0, 1, 3, 527, 825, 4095}
    Hmac512 <- MCHmac512
    WalletSeeds <- MCWalletSeeds
    XprvKeys = {0, 2, 3919}
    HardenedFrom = 2
    ChildNumbers = {0, 1, 2}
    DepthRange = 3
    MaxRetries = 3
    MaxSteps = 3
    Versions = {255, 256, 257, 65536, 76067358}
    RegisterBits = 4
    Inverted <- MCInverted
    Moduli = {3967, 4091}
    Factors = {2, 4, 8, 16}
INVARIANTS DigestIsOfMessage KeyedIsStandard SeedIsOfRequest StreamIsStandard MnemonicIsStandard ReadIsCanonical EncodedIsNumber AcceptedIsCanonical PromiseKept WalkIsMultiple AcceptedIsSignature OwnSignatureIsGood RecoveredIsSigner KeyReadIsPoint PublicChildIsChild NodesAreSound InverseIsInverse
PROPERTIES ImplementsDerivation ImplementsField ImplementsAlmostInverse
