\* The token exchange, with two requests and two subject tokens.
SPECIFICATION FairSpec
CONSTANTS
    r1 = r1
    r2 = r2
    s1 = s1
    s2 = s2
    Request <- MCRequest
    Subject <- MCSubject
    Lifetimes <- MCLifetimes
    Margin = 3
    CacheCap = 3
    FetchTimeout = 2
    MaxPause = 1
    None = None
INVARIANTS
    TypeOK
    OwnTokenOnly
    EntryEndsBeforeToken
    AnswerAgeBounded
PROPERTIES
    HitIsFresh
    SwapSpec
    ExchangeReturns
