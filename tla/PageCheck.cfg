SPECIFICATION Spec
CONSTANTS
    c1 = c1
    c2 = c2
    s1 = s1
    s2 = s2
    s3 = s3
    m1 = m1
    m2 = m2
    Cinema = {c1, c2}
    Spelling = {s1, s2, s3}
    Title = {m1, m2}
    NormalOf <- MCNormalOf
    Url <- MCUrl
    Page <- MCPage
    TerminalLimit = 2
    NoCinema = NoCinema
    Blank = Blank
    NoPage = NoPage
CHECK_DEADLOCK FALSE
INVARIANTS
    PoliteFetch
PROPERTIES
    OpeningIsProved
    ClosedIsProved
    PreviewedPageIsUnderstood
    OnlySeriesStops
