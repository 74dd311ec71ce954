\* Sites of up to four pages, of which three are crawled; up to three steps have a request that
\* fails or is refused, or a file that cannot be written.
CONSTANTS
    home = home
    api = api
    login = login
    news = news
    outside = outside
    Malformed = Malformed
    Urls <- MCUrls
    Target = home
    SensitivePaths <- MCPaths
    MaxUrls = 3
    ScanSites <- MCSites
    MaxFaults = 3
    Keywords <- MCKeywords
SPECIFICATION CliSpec
INVARIANTS
    ReportCoversFindings
    UndisturbedScanIsWhole
    ExitTellsOfAlarm
PROPERTY EveryStepGetsCloser
