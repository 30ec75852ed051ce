CONSTANTS
    Records = {r1, r2, r3, r4, r5}
    PerPage = 2
    MaxAttempts = 2
    MaxChurn = 2

SPECIFICATION FairSpec

INVARIANTS
    TypeOK
    QuietCrawlIsExact
    LossBoundedByChurn
    RepeatsBoundedByPublications
    PublicationsCutOnlyTheTail
    WithdrawalsNeverRepeat

PROPERTY
    CrawlTerminates
