\* Four pages and one on another host, batches of two, one error.
CONSTANTS
    home = home
    a = a
    b = b
    c = c
    other = other
    Pages = {home, a, b, c, other}
    Seed = home
    Foreign = {other}
    Sites <- SmallSites
    MaxDepth = 2
    MaxConcurrent = 2
    MaxErrors = 1
SPECIFICATION CrawlerSpec
INVARIANTS
    FetchesBounded
    LinksFollowed
PROPERTY CrawlEnds
\* The crawl ends.
CHECK_DEADLOCK FALSE
