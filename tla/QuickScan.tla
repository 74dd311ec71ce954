----------------------------- MODULE QuickScan ------------------------------
(***************************************************************************)
(* The quick scanner (scanner.py, run_scan): the response of the target,   *)
(* the sensitive paths, one CORS request and a few redirect parameters; no *)
(* crawl, no correlation and no risk scores.  It keeps the state of        *)
(* FullScan: findings, pathAnswers, what it returns, and, in probed, the   *)
(* redirect parameters it has tried.                                       *)
(***************************************************************************)
EXTENDS FullScan

Found(category, title, url, severity, cvss) == Raw(category, title, url, severity, 800, cvss, FALSE)

OnTarget(category, title, severity) == Found(category, title, Target, severity, 0)

\* Its table has one header more than that of the full scanner.
QuickHeaders ==
    SubSeq(SecurityHeaders, 1, 4) \o <<<<"X-XSS-Protection", Info>>>> \o SubSeq(SecurityHeaders, 5, 8)

QuickHeaderFindings ==
    LET missing == Selected(QuickHeaders, {i \in DOMAIN QuickHeaders : QuickHeaders[i][1] \notin web.headers})
    IN [i \in DOMAIN missing |-> OnTarget("security_header", <<"missing", missing[i][1]>>, missing[i][2])]

QuickLeakyHeaders == Append(LeakyHeaders, "x-aspnetmvc-version")

QuickLeakFindings ==
    LET leaks == Selected(QuickLeakyHeaders,
                          {i \in DOMAIN QuickLeakyHeaders : QuickLeakyHeaders[i] \in web.leaks})
    IN [i \in DOMAIN leaks |-> OnTarget("info_disclosure", <<"leak", leaks[i]>>, Low)]

\* The TLS phase: a certificate to show, or a finding.
HttpsFindings == IF web.https THEN <<>> ELSE <<Found("encryption", <<"no https">>, Target, High, 75)>>

QuickCookieFindings ==
    [n \in DOMAIN CookieFindings |-> [CookieFindings[n] EXCEPT !.confidence = 800]]

\* What the content of the page gives away, with the severity and score of each; an open
\* form is reported once.
Giveaways ==
    <<<<"python", "info_disclosure", Medium, 0>>, <<"php", "info_disclosure", High, 0>>,
      <<"sql", "info_disclosure", Medium, 0>>, <<"dotnet", "info_disclosure", Medium, 0>>,
      <<"django_debug", "debug", High, 75>>, <<"werkzeug", "debug", High, 75>>,
      <<"django_settings", "debug", High, 75>>,
      <<"password", "best_practice", Info, 0>>>>

ContentFindings ==
    LET shown == Selected(Giveaways, {i \in DOMAIN Giveaways : Giveaways[i][1] \in web.shows})
    IN [i \in DOMAIN shown |-> Found(shown[i][2], <<shown[i][1]>>, Target, shown[i][3], shown[i][4])]
       \o IF web.openForms > 0 THEN <<OnTarget("csrf", <<"form">>, Medium)>> ELSE <<>>

\* Phases 1 to 6 follow the first response; a failed one ends the scan, and the first three
\* of a set of internal addresses, which has no order (:398), are an exception.
QuickInitialProbe ==
    /\ at = "start"
    /\ \/ /\ "internal_ip" \notin web.shows
          /\ findings' = QuickHeaderFindings \o QuickLeakFindings \o HttpsFindings
                         \o QuickCookieFindings \o ContentFindings
          /\ at' = "paths"
          /\ UNCHANGED <<outcome, faults>>
       \/ "internal_ip" \in web.shows /\ at' = "raised" /\ UNCHANGED <<findings, outcome, faults>>
       \/ /\ Fault
          /\ outcome' = [status |-> "dataclass", of |-> "failed"]
          /\ at' = "returned"
          /\ UNCHANGED findings
    /\ UNCHANGED <<web, toCrawl, discovered, crawled, probeList, pathAnswers, active, probed>>

\* The requests for the sensitive paths are answered in any order, fail or are refused.
QuickProbePath(i) ==
    /\ at = "paths"
    /\ pathAnswers[i] = "awaited"
    /\ \/ pathAnswers' = [pathAnswers EXCEPT ![i] = web.paths[SensitivePaths[i][1]]] /\ UNCHANGED faults
       \/ Fault /\ pathAnswers' = [pathAnswers EXCEPT ![i] = "error"]
       \/ Refused /\ pathAnswers' = [pathAnswers EXCEPT ![i] = web.refusal]
    /\ UNCHANGED <<web, at, findings, toCrawl, discovered, crawled, probeList, active, probed, outcome>>

InfoPaths == {"/robots.txt", "/sitemap.xml", "/.well-known/security.txt", "/admin", "/api/", "/api/v1/"}

\* An exposed path has the severity of the table, some in any case only info.
QuickPathFindings ==
    [n \in DOMAIN PathFindings |->
        [PathFindings[n] EXCEPT !.confidence = 800,
                                !.severity = IF PathFindings[n].url \in InfoPaths THEN Info ELSE @]]

QuickCollectPaths ==
    /\ at = "paths"
    /\ \A i \in DOMAIN pathAnswers : pathAnswers[i] # "awaited"
    /\ findings' = findings \o QuickPathFindings
    /\ at' = "cors"
    /\ UNCHANGED <<web, toCrawl, discovered, crawled, probeList, pathAnswers, active, probed, outcome, faults>>

\* acac is the value of Access-Control-Allow-Credentials; the score asks only whether there
\* is one.
QuickCORSFindings ==
    CASE web.acao = "*" ->
            <<Found("cors", <<"wildcard">>, Target, IF web.acac = "true" THEN High ELSE Medium,
                    IF web.acac # "" THEN 75 ELSE 53)>>
      [] web.acao = "origin" -> <<Found("cors", <<"reflection">>, Target, Critical, 91)>>
      [] OTHER -> <<>>

\* What a limiter refuses has no such header.
QuickCORS ==
    /\ at = "cors"
    /\ \/ findings' = findings \o QuickCORSFindings /\ UNCHANGED faults
       \/ Fault /\ UNCHANGED findings
    /\ at' = "redirects"
    /\ UNCHANGED <<web, toCrawl, discovered, crawled, probeList, pathAnswers, active, probed, outcome>>

RedirectNames == <<"redirect", "url", "next", "return", "returnUrl", "redirect_uri", "goto", "target">>

\* One redirect parameter; the first that leads away is reported and ends the loop.  A
\* request that fails or is refused leads nowhere.
QuickRedirect ==
    /\ at = "redirects" /\ probed < Len(RedirectNames)
    /\ LET name == RedirectNames[probed + 1]
       IN \/ /\ name \in web.redirects
             /\ findings' = Append(findings, Found("open_redirect", <<name>>, Target, Medium, 61))
             /\ probed' = Len(RedirectNames)
             /\ UNCHANGED faults
          \/ /\ name \notin web.redirects /\ UNCHANGED faults
             /\ probed' = probed + 1 /\ UNCHANGED findings
          \/ /\ Fault
             /\ probed' = probed + 1 /\ UNCHANGED findings
    /\ UNCHANGED <<web, at, toCrawl, discovered, crawled, probeList, pathAnswers, active, outcome>>

\* The result, a dataclass.
QuickFinish ==
    /\ at = "redirects" /\ probed = Len(RedirectNames)
    /\ outcome' = [status |-> "dataclass", of |-> "complete", findings |-> findings,
                   counts |-> SeverityCounts(findings)]
    /\ at' = "returned"
    /\ UNCHANGED <<web, findings, toCrawl, discovered, crawled, probeList, pathAnswers, active, probed, faults>>

QuickScanNext ==
    \/ QuickInitialProbe \/ QuickCollectPaths \/ QuickCORS \/ QuickRedirect \/ QuickFinish
    \/ \E i \in DOMAIN SensitivePaths : QuickProbePath(i)
=============================================================================
