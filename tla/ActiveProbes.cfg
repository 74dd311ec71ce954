\* Two parameters, tables of one or two payloads; one failing request, one slow answer.
CONSTANTS
    q = q
    file = file
    Params <- MCParams
    UrlLike = {file}
    FileLike = {file}
    RedirectLike = {}
    CommonRedirects <- MCCommonRedirects
    Payloads <- MCPayloads
    RateRequests = 3
    Sites <- MCSites
    MaxErrors = 1
    MaxSlow = 1
SPECIFICATION ProbesSpec
INVARIANTS
    ReportedIsReal
    FoundWhenUnhindered
PROPERTY ProbingEnds
\* run_all returns.
CHECK_DEADLOCK FALSE
