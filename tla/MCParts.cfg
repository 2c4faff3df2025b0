SPECIFICATION PartsSpec
CONSTANTS
    Callers = {c1, c2}
    Accounts = {x, y}
    None = None
    MaxGeneration = 3
    MaxChallenges = 2
    saves = saves
    world = world
    Areas = {saves}
    Items = {world}
    AreaOf <- MCAreaOf
    Free = {"gameWrite", "skinCache"}
    Rects = {r1, r2}
    NoRect = NoRect
    MaxMessages = 2
    Texts = {t1, t2}
    NoText = NoText
    MaxPerWindow = 2
    QueueCapacity = 2
    MaxCommands = 4
    MaxOutput = 5
    MaxLine = 2
    Denied = {"mount", "bpf"}
    Ordinary = {"read"}
    Feeds = {f1, f2}
    MaxRefreshes = 2
    HeaderSize = 2
    RequestSize = 2
    AnswerSize = 1
    PipeCapacity = 2
    MaxSent = 5
SYMMETRY Symmetry
INVARIANTS
    LeaseNamesAccount
    SessionMatchesToken
    SignedOutStaysOut
    RepairableOneByOne
    
    TokenMeansBroker
    NothingLeftBehind
    HeldWhileRunning
    
    SpokenInOrder
    LinesAsWritten
    AnswersAsIntended
    FreshMeansFetched
    NothingLostOrRepeated
PROPERTIES
    RefreshKeepsAccount
    StaysLaunchable
CHECK_DEADLOCK FALSE
