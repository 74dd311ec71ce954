------------------------------ MODULE FullScan ------------------------------
(***************************************************************************)
(* The full scanner (full_scanner.py): ten phases that crawl the target,   *)
(* probe it, and correlate and score what they found.                      *)
(*                                                                         *)
(* One action is what the scanner does between two requests it awaits.     *)
(* The requests of phase 6 are answered in any order.  run_all is one      *)
(* step: ActiveProbes models it, and FoundWhenUnhindered says there that   *)
(* its results do not depend on how its requests interleave.               *)
(*                                                                         *)
(* A request is hindered when it fails, or when a limiter of the site      *)
(* refuses it, which is no exception.  Of a page with an href that         *)
(* urljoin or urlparse raises a ValueError for, the links behind that      *)
(* href and the parameters are lost, although no request is hindered.      *)
(***************************************************************************)
EXTENDS Findings

CONSTANTS
    Urls,             \* URLs of the target's host, among them Target
    Target,           \* target_url
    Malformed,        \* an href that urljoin or urlparse raises for
    SensitivePaths,   \* the table of phase 6: <<path, title, severity>>
    MaxUrls,          \* MAX_URLS, 50 in the code
    ScanSites,        \* the sites that are scanned
    MaxFaults         \* bound on steps with a request that fails or is refused

IsList(s) == s \in Seq({s[i] : i \in DOMAIN s})

\* Raw findings, and those that are not about a sensitive path.
IsFinding(f) == f.severity \in Severities /\ f.cvss \in Nat /\ f.confidence \in 0 .. MostSure

AreFindings(fs) == IsList(fs) /\ \A i \in DOMAIN fs : IsFinding(fs[i])

ArePathless(fs) == \A i \in DOMAIN fs : fs[i].category # "sensitive_path"

ASSUME FullScanAssumption ==
    /\ IsFiniteSet(Urls) /\ Target \in Urls /\ Malformed \notin Urls
    /\ MaxUrls \in Nat \ {0}
    /\ MaxFaults \in Nat
    /\ SensitivePaths \in Seq(STRING \X STRING \X Severities)
    /\ \A i, j \in DOMAIN SensitivePaths : SensitivePaths[i][1] = SensitivePaths[j][1] => i = j

\* A site answers for every path and every URL, and links anywhere; the probes that run_all
\* gathers know nothing of sensitive paths.  refusal is what a path counts as whose request
\* the limiter refuses, with 403 or with 429, or "none" without one; query holds for URLs
\* with a query string; hindered and hinderedEnd are what run_all, and the last two probes,
\* may be left with when requests of theirs are hindered: nothing after an exception, some of
\* their findings, or others, from payloads behind the one that was hindered.
ASSUME SitesAssumption ==
    \A site \in ScanSites :
        /\ site.openForms \in Nat
        /\ IsList(site.cookies)
        /\ site.refusal \in {"none", "blocked", "absent"}
        /\ \A fs \in site.hinderedEnd : AreFindings(fs) /\ ArePathless(fs)
        /\ \A i \in DOMAIN SensitivePaths :
              site.paths[SensitivePaths[i][1]] \in {"exposed", "blocked", "absent"}
        /\ \A u \in Urls :
              /\ IsList(site.links[u]) /\ site.params[u] \in BOOLEAN
              /\ site.query[u] \in BOOLEAN /\ (site.query[u] => site.params[u])
              /\ \A fs \in site.hindered[u] : AreFindings(fs) /\ ArePathless(fs)
              /\ AreFindings(site.weak[u]) /\ ArePathless(site.weak[u])
              /\ AreFindings(site.cors[u]) /\ ArePathless(site.cors[u])
              /\ AreFindings(site.rate[u]) /\ ArePathless(site.rate[u])

VARIABLES
    web,          \* the site that is scanned
    at,           \* where the scanner is
    findings,     \* the findings of phases 1 to 6
    toCrawl,      \* to_crawl
    discovered,   \* discovered_urls
    crawled,      \* crawled
    probeList,    \* discovered_params: the URLs with parameters, in their order
    pathAnswers,  \* pathAnswers[i]: the answer for the i-th sensitive path
    active,       \* active_findings
    probed,       \* URLs of probeList that run_all is done with
    outcome,      \* what the scanner returned
    faults        \* steps with a request that failed or was refused

scanVars == <<web, at, findings, toCrawl, discovered, crawled, probeList, pathAnswers,
              active, probed, outcome, faults>>

NoOutcome == [status |-> "none"]

Raw(category, title, url, severity, confidence, cvss, verified) ==
    [category |-> category, title |-> title, url |-> url, severity |-> severity,
     confidence |-> confidence, cvss |-> cvss, verified |-> verified]

Plain(category, title, severity, confidence) ==
    Raw(category, title, Target, severity, confidence, 0, FALSE)

Fault == faults < MaxFaults /\ faults' = faults + 1

Refused == web.refusal # "none" /\ Fault

-----------------------------------------------------------------------------
(* What the phases find in the response of the target *)

SecurityHeaders ==
    <<<<"HSTS", Medium>>, <<"CSP", Medium>>, <<"X-Content-Type-Options", Low>>,
      <<"X-Frame-Options", Medium>>, <<"Permissions-Policy", Low>>, <<"Referrer-Policy", Low>>,
      <<"COOP", Info>>, <<"CORP", Info>>>>

HeaderFindings ==
    LET missing == Selected(SecurityHeaders,
                            {i \in DOMAIN SecurityHeaders : SecurityHeaders[i][1] \notin web.headers})
    IN [i \in DOMAIN missing |-> Plain("security_header", <<"missing", missing[i][1]>>, missing[i][2], 950)]

LeakyHeaders == <<"server", "x-powered-by", "x-aspnet-version">>

LeakFindings ==
    LET leaks == Selected(LeakyHeaders, {i \in DOMAIN LeakyHeaders : LeakyHeaders[i] \in web.leaks})
    IN [i \in DOMAIN leaks |-> Plain("info_disclosure", <<"leak", leaks[i]>>, Low, 900)]

\* The three checks of one cookie: the flag, the severity and confidence of its lack, and
\* whether it is asked for: Secure where the target is https, HttpOnly if the name is sensitive.
CookieChecks(c) ==
    LET rank == IF c.sensitive THEN Medium ELSE Low
    IN <<<<"secure", rank, 900, web.https>>, <<"httponly", Medium, 900, c.sensitive>>,
         <<"samesite", rank, 850, TRUE>>>>

\* Three places for each cookie, in the order of the cookies.
CookieFindings ==
    LET Cookie(k) == web.cookies[(k + 2) \div 3]
        Check(k)  == CookieChecks(Cookie(k))[1 + ((k + 2) % 3)]
        places    == 1 .. 3 * Len(web.cookies)
    IN Selected([k \in places |-> Plain("cookie", <<Cookie(k).name, Check(k)[1]>>, Check(k)[2], Check(k)[3])],
                {k \in places : Check(k)[4] /\ Check(k)[1] \notin Cookie(k).flags})

ErrorPatterns == <<<<"python", Medium>>, <<"php", High>>, <<"sql", Medium>>>>

PassiveFindings ==
    LET shown == Selected(ErrorPatterns, {i \in DOMAIN ErrorPatterns : ErrorPatterns[i][1] \in web.shows})
    IN [i \in DOMAIN shown |-> Plain("info_disclosure", <<"error", shown[i][1]>>, shown[i][2], 900)]
       \o IF "password" \in web.shows
          THEN <<Plain("best_practice", <<"autocomplete">>, Info, 800)>> ELSE <<>>

\* An exposed path keeps the severity of the table, one that answers 403 is reported as
\* blocked; pages that say "not found" and errors are nothing.
PathFinding(i) ==
    LET p == SensitivePaths[i]
    IN IF pathAnswers[i] = "exposed"
       THEN Raw("sensitive_path", <<p[2], p[1]>>, p[1], p[3], 850, 0, FALSE)
       ELSE Raw("sensitive_path", <<"blocked", p[2], p[1]>>, p[1], Info, 700, 0, FALSE)

PathFindings ==
    Selected([i \in DOMAIN SensitivePaths |-> PathFinding(i)],
             {i \in DOMAIN SensitivePaths : pathAnswers[i] \in {"exposed", "blocked"}})

-----------------------------------------------------------------------------
(* Phases 1 to 7 *)

\* Phases 1 to 4 follow the first response without another request of the client; a failed
\* one ends the scan.
InitialProbe ==
    /\ at = "start"
    /\ \/ /\ findings' = HeaderFindings \o LeakFindings \o CookieFindings
          /\ toCrawl' = <<Target>>
          /\ discovered' = {Target}
          /\ at' = "crawl"
          /\ UNCHANGED <<outcome, faults>>
       \/ /\ Fault
          /\ outcome' = [status |-> "failed"]
          /\ at' = "returned"
          /\ UNCHANGED <<findings, toCrawl, discovered>>
    /\ UNCHANGED <<web, crawled, probeList, pathAnswers, active, probed>>

CrawlOverEarly == toCrawl = <<>> \/ Cardinality(discovered) >= MaxUrls

CrawlOver == toCrawl = <<>> \/ Cardinality(crawled) >= MaxUrls

\* The links of a page up to the first that is malformed.
Readable(url) ==
    LET l == web.links[url] IN {i \in DOMAIN l : \A j \in 1 .. i : l[j] # Malformed}

IsReadable(url) == Readable(url) = DOMAIN web.links[url]

\* The parameters of a page are looked for behind its links.
HasParams(url) == web.params[url] /\ IsReadable(url)

LinksOnHost(url) ==
    LET l == web.links[url] IN Selected(l, {i \in Readable(url) : l[i] \in Urls})

\* The links of a page to the target's host that are new, each once.
NewLinks(url) ==
    LET l == web.links[url]
    IN Selected(l, {i \in Readable(url) : l[i] \in Urls \ discovered /\ \A j \in 1 .. i - 1 : l[j] # l[i]})

\* One page: its links are queued and its parameters remembered; a failed request leaves
\* it crawled and forgotten, and a refusal has neither links nor forms, so that only the
\* parameters of the URL itself are left.  No URL is queued twice, so none is skipped as
\* crawled.
Crawl ==
    /\ at = "crawl" /\ ~ CrawlOver
    /\ LET url == Head(toCrawl)
           new == NewLinks(url)
       IN /\ crawled' = crawled \cup {url}
          /\ \/ /\ toCrawl' = Tail(toCrawl) \o new
                /\ discovered' = discovered \cup {new[i] : i \in DOMAIN new}
                /\ probeList' = IF HasParams(url) THEN Append(probeList, url) ELSE probeList
                /\ UNCHANGED faults
             \/ /\ Fault
                /\ toCrawl' = Tail(toCrawl)
                /\ UNCHANGED <<discovered, probeList>>
             \/ /\ Refused
                /\ toCrawl' = Tail(toCrawl)
                /\ probeList' = IF web.query[url] THEN Append(probeList, url) ELSE probeList
                /\ UNCHANGED discovered
    /\ UNCHANGED <<web, at, findings, pathAnswers, active, probed, outcome>>

\* One of the concurrent requests of phase 6 is answered, fails or is refused.
ProbePath(i) ==
    /\ at = "crawl" /\ CrawlOver
    /\ pathAnswers[i] = "awaited"
    /\ \/ pathAnswers' = [pathAnswers EXCEPT ![i] = web.paths[SensitivePaths[i][1]]] /\ UNCHANGED faults
       \/ Fault /\ pathAnswers' = [pathAnswers EXCEPT ![i] = "error"]
       \/ Refused /\ pathAnswers' = [pathAnswers EXCEPT ![i] = web.refusal]
    /\ UNCHANGED <<web, at, findings, toCrawl, discovered, crawled, probeList, active,
                   probed, outcome>>

\* All are answered: the results are in the order of the table.
CollectPaths ==
    /\ at = "crawl" /\ CrawlOver
    /\ \A i \in DOMAIN pathAnswers : pathAnswers[i] # "awaited"
    /\ findings' = findings \o PathFindings
    /\ at' = "probes"
    /\ UNCHANGED <<web, toCrawl, discovered, crawled, probeList, pathAnswers, active,
                   probed, outcome, faults>>

\* The forms of the target's page are looked at for every URL (resp.text, :280).
CSRFFindings(url) ==
    [i \in 1 .. web.openForms |-> Raw("csrf", <<"Missing CSRF Protection">>, url, Medium, 800, 43, FALSE)]

\* What run_all returns for a URL when no request is hindered.
Probing(url) == web.weak[url] \o CSRFFindings(url) \o web.cors[url] \o web.rate[url]

RunAll ==
    /\ at = "probes" /\ probed < Len(probeList)
    /\ LET url == probeList[probed + 1]
       IN \/ active' = active \o Probing(url) /\ UNCHANGED faults
          \/ Fault /\ \E some \in web.hindered[url] : active' = active \o some
    /\ probed' = probed + 1
    /\ UNCHANGED <<web, at, findings, toCrawl, discovered, crawled, probeList, pathAnswers,
                   outcome>>

-----------------------------------------------------------------------------
(* The rest of phase 7, and phases 8 to 10, which await nothing *)

Compiled(raws, counted) ==
    LET correlated == Correlate(raws)
    IN [status |-> "complete", raws |-> raws, findings |-> correlated,
        counts |-> SeverityCounts(counted),
        risks |-> ScoreAll(correlated, web.technologies)]

CompileRaw(raws) == Compiled(raws, raws)

\* The counts are those of the correlated findings.
Compile(raws) == Compiled(raws, Correlate(raws))

\* CORS and the limiter of the target once more, then the content of its page, correlation,
\* scores and the result.
FinishScan ==
    /\ at = "probes" /\ probed = Len(probeList)
    /\ \/ active' = active \o (web.cors[Target] \o web.rate[Target]) /\ UNCHANGED faults
       \/ Fault /\ \E some \in web.hinderedEnd : active' = active \o some
    /\ outcome' = Compile(findings \o active' \o PassiveFindings)
    /\ at' = "returned"
    /\ UNCHANGED <<web, findings, toCrawl, discovered, crawled, probeList, pathAnswers,
                   probed>>

-----------------------------------------------------------------------------
FullScanInit ==
    /\ web \in ScanSites
    /\ at = "start"
    /\ findings = <<>>
    /\ toCrawl = <<>>
    /\ discovered = {}
    /\ crawled = {}
    /\ probeList = <<>>
    /\ pathAnswers = [i \in DOMAIN SensitivePaths |-> "awaited"]
    /\ active = <<>>
    /\ probed = 0
    /\ outcome = NoOutcome
    /\ faults = 0

FullScanNext ==
    \/ InitialProbe \/ Crawl \/ CollectPaths \/ RunAll \/ FinishScan
    \/ \E i \in DOMAIN SensitivePaths : ProbePath(i)

-----------------------------------------------------------------------------
(* Properties *)

Complete == outcome.status = "complete"

\* What the score of a finding depends on, its verification aside.
Unverified(f) ==
    [category |-> f.category, url |-> f.url, cvss |-> f.cvss, confidence |-> f.confidence,
     verified |-> FALSE]

Same(f, g) == f.category = g.category /\ f.title = g.title /\ f.url = g.url

\* Deduplication and correlation lose no finding and blur none: every raw finding has exactly
\* one in the report with its category, title and URL, which is at least as severe and as sure
\* as the first one that was made, never surer than 0.99, and whose
\* risk score is at least that of the raw finding, taken as not verified.
ReportCoversFindings ==
    Complete =>
        LET raws == outcome.raws   fs == outcome.findings
        IN /\ \A i \in DOMAIN raws : Cardinality({n \in DOMAIN fs : Same(fs[n], raws[i])}) = 1
           /\ \A n \in DOMAIN fs :
                LET id == fs[n].id
                IN /\ Same(raws[id], fs[n]) /\ \A i \in 1 .. id - 1 : ~ Same(raws[i], raws[id])
                   /\ fs[n].severity >= raws[id].severity
                   /\ fs[n].confidence \in raws[id].confidence .. MostSure
                   /\ outcome.risks[n].finding = id
                   /\ outcome.risks[n].score >= FinalScore(Unverified(raws[id]), web.technologies)

\* The URLs that readable links lead to from the target.
Reachable ==
    {u \in Urls : \A S \in SUBSET Urls :
        Target \in S /\ (\A v \in S : \A i \in Readable(v) : web.links[v][i] \in Urls => web.links[v][i] \in S)
            => u \in S}

\* What a scan of which no request is hindered reports of a site that fits into MAX_URLS
\* does not depend on the order of answers: every URL that readable links lead to was looked
\* at and, if all its links can be read, its parameters were probed, once; the exposed paths
\* are reported in the order of the table.
UndisturbedScanIsWhole ==
    Complete /\ faults = 0 /\ Cardinality(Reachable) <= MaxUrls =>
        /\ crawled = Reachable
        /\ Len(probeList) = Cardinality({u \in Reachable : HasParams(u)})
        /\ \A u \in Reachable : HasParams(u) =>
              \A i \in DOMAIN Probing(u) : \E n \in DOMAIN outcome.findings :
                  Same(outcome.findings[n], Probing(u)[i])
        /\ LET fs       == outcome.findings
               paths    == {n \in DOMAIN fs : fs[n].category = "sensitive_path"}
               expected == {i \in DOMAIN SensitivePaths : web.paths[SensitivePaths[i][1]] \in {"exposed", "blocked"}}
           IN /\ {fs[n].url : n \in paths} = {SensitivePaths[i][1] : i \in expected}
              /\ \A n, m \in paths, i, j \in expected :
                    fs[n].url = SensitivePaths[i][1] /\ fs[m].url = SensitivePaths[j][1] /\ n < m => i < j
=============================================================================
