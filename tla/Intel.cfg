SPECIFICATION Spec
CONSTANTS
    Clean = Clean
    Base <- Weights
    Threads = {t1, t2}
    Sites <- AllSites
    Reply <- ReplyOf
    Feeds <- OneFeed
    Published <- PublishedBy
    MaxFeedRows = 5
    MaxSize = 2
    TTL <- TTLs
    Quota = 1
INVARIANTS
    TypeOK
    FeedsWhole
PROPERTIES
    OutageForgotten
