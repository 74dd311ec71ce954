----------------------------- MODULE MC_ScanCli ------------------------------
(***************************************************************************)
(* Four URLs, three sensitive paths, and sites of which each is harmless   *)
(* in another way, or is not.  When requests are hindered, any of what     *)
(* run_all would have found may be missing, and all of it.                 *)
(***************************************************************************)
EXTENDS ScanCli, TLC

CONSTANTS home, api, login, news, outside

MCUrls == {home, api, login, news}

MCPaths == <<<<"/.git/HEAD", "git", Critical>>, <<"/robots.txt", "robots", Info>>, <<"/admin", "admin", Info>>>>

PathNames == {MCPaths[i][1] : i \in DOMAIN MCPaths}

MCKeywords == [u \in MCUrls \cup PathNames |->
                  CASE u = login -> {"login", "account"} [] u = api -> {"api", "payment"}
                    [] u = "/admin" -> {"admin"} [] OTHER -> {}]

AllHeaders == {QuickHeaders[i][1] : i \in DOMAIN QuickHeaders}

Links(h, a, l) == [u \in MCUrls |-> CASE u = home -> h [] u = api -> a [] u = login -> l [] OTHER -> <<>>]

Nothing == [u \in MCUrls |-> <<>>]

\* Nothing to find, and nowhere to go.
Quiet ==
    [headers |-> AllHeaders, leaks |-> {}, cookies |-> <<>>, https |-> TRUE, shows |-> {},
     technologies |-> {}, links |-> Nothing, params |-> [u \in MCUrls |-> FALSE],
     query |-> [u \in MCUrls |-> FALSE], refusal |-> "none",
     weak |-> Nothing, openForms |-> 0, cors |-> Nothing, rate |-> Nothing,
     paths |-> [p \in PathNames |-> "absent"], acao |-> "none", acac |-> "", redirects |-> {}]

Reflection(u) == Raw("cors", <<"reflection">>, u, Medium, 900, 53, TRUE)

Unlimited(u) == Raw("rate_limiting", <<"unlimited">>, u, Medium, 700, 53, TRUE)

\* A cookie and a CORS header, each of medium severity: a chain.  The target's parameters are
\* probed, so its CORS finding is made twice.
Chained ==
    [Quiet EXCEPT !.cookies = <<[name |-> "sid", sensitive |-> TRUE, flags |-> {"secure", "samesite"}]>>,
                  !.params[home] = TRUE, !.cors[home] = <<Reflection(home)>>]

\* Three pages in a circle and a link that leaves the host; parameters on each, and an open
\* form on the first, which is reported for all of them.
Round ==
    [Quiet EXCEPT !.links = Links(<<api, api, outside, login>>, <<login, home>>, <<home>>),
                  !.params = [u \in MCUrls |-> TRUE], !.openForms = 1,
                  !.rate = [u \in MCUrls |-> <<Unlimited(u)>>],
                  !.headers = AllHeaders \ {"CSP"}, !.paths["/robots.txt"] = "exposed",
                  !.paths["/admin"] = "blocked"]

\* A server that is compromised, with more chains than one for its cookie.
Broken ==
    [Quiet EXCEPT !.links = Links(<<login>>, <<>>, <<home>>),
                  !.params[login] = TRUE,
                  !.cookies = <<[name |-> "sid", sensitive |-> TRUE, flags |-> {}],
                                [name |-> "theme", sensitive |-> FALSE, flags |-> {"secure"}]>>,
                  !.weak[login] = <<Raw("xss", <<"xss", "q">>, login, High, 850, 61, TRUE),
                                    Raw("ssti", <<"ssti", "q">>, login, Critical, 950, 98, TRUE),
                                    Raw("path_traversal", <<"file">>, login, Critical, 950, 91, TRUE)>>,
                  !.cors[home] = <<Raw("cors", <<"wildcard">>, home, Critical, 950, 91, TRUE)>>,
                  !.technologies = {"PHP", "WordPress"}, !.leaks = {"server", "x-aspnetmvc-version"},
                  !.shows = {"php", "password"}, !.paths["/.git/HEAD"] = "exposed"]

\* Nothing severe, for the quick scanner either, which says so with an exit code of 1.
Mild ==
    [Quiet EXCEPT !.shows = {"dotnet", "password"}, !.acao = "*", !.openForms = 2,
                  !.redirects = {"next", "goto"}, !.paths["/admin"] = "exposed"]

\* A page more than is crawled.
Wide ==
    [Quiet EXCEPT !.links = Links(<<api, login, news>>, <<>>, <<>>),
                  !.params = [u \in MCUrls |-> u # home], !.openForms = 1]

Insecure == [Quiet EXCEPT !.https = FALSE, !.acao = "origin", !.acac = "false", !.shows = {"werkzeug"}]

Internal == [Quiet EXCEPT !.shows = {"internal_ip", "sql"}]

\* An href that cannot be read: the page behind it and the parameters of its page are lost.
Garbled ==
    [Quiet EXCEPT !.links = Links(<<api, login>>, <<home, Malformed, news>>, <<api>>),
                  !.params = [u \in MCUrls |-> u \in {api, login}], !.openForms = 1]

\* A limiter that answers with 403, in front of pages and parameters.
Limited ==
    [Quiet EXCEPT !.links = Links(<<login, api>>, <<>>, <<>>), !.refusal = "blocked",
                  !.params = [u \in MCUrls |-> u \in {api, login}], !.query[api] = TRUE,
                  !.cors[api] = <<Reflection(api)>>, !.rate[home] = <<Unlimited(home)>>]

\* A limiter that answers with 429, in front of a server that is compromised.  A payload that
\* is refused leaves the next one to be reported.
Defended ==
    [Broken EXCEPT !.refusal = "absent"]

Sublists(s) == {Selected(s, S) : S \in SUBSET DOMAIN s}

Forms(site, u) == [i \in 1 .. site.openForms |-> Raw("csrf", <<"Missing CSRF Protection">>, u, Medium, 800, 43, FALSE)]

Instead(site, u) ==
    IF site.refusal = "none" THEN {} ELSE {<<Raw("xss", <<"xss", "p">>, u, High, 700, 61, TRUE)>>}

\* The six probes, and the forms, which no request is made for, are lost with the rest only.
WithHindrance(site) ==
    site @@ [hindered |-> [u \in MCUrls |->
                 {<<>>} \cup {weak \o Forms(site, u) \o rest :
                              weak \in Sublists(site.weak[u]) \cup Instead(site, u),
                              rest \in Sublists(site.cors[u] \o site.rate[u])}],
             hinderedEnd |-> Sublists(site.cors[home] \o site.rate[home])]

MCSites ==
    {WithHindrance(site) : site \in {Quiet, Chained, Round, Broken, Mild, Wide, Insecure, Internal,
                                     Garbled, Limited, Defended}}
=============================================================================
