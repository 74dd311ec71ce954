-------------------------- MODULE MC_ActiveProbes --------------------------
(***************************************************************************)
(* Two parameters, one of them taken for a file name and for a URL, short  *)
(* tables of payloads, and sites that show little, much or misleading      *)
(* things, with and without a limiter.                                     *)
(***************************************************************************)
EXTENDS ActiveProbes

CONSTANTS q, file

MCParams == <<q, file>>

MCCommonRedirects == <<"redirect">>

MCPayloads == [kind \in Kinds |-> IF kind \in {"xss", "sqli_error", "path_traversal"} THEN 2 ELSE 1]

NoCors == [o \in Elements(TestOrigins) |-> [acao |-> "none", acac |-> FALSE]]

Plain == [effects |-> {}, forms |-> <<>>, cors |-> NoCors, auth |-> TRUE,
          limits |-> FALSE, budget |-> 0, code |-> 403]

\* Something for every probe; the pair and the delay show on different parameters.
Weak == [Plain EXCEPT
    !.effects = {<<"xss", q, 2, "reflected">>, <<"xss", file, 1, "reflected">>,
                 <<"xss", file, 2, "reflected">>,
                 <<"sqli_boolean", q, 1, "rows">>, <<"sqli_time", q, 1, "sleeps">>,
                 <<"sqli_time", file, 1, "sleeps">>,
                 <<"ssrf", file, 1, "connection">>, <<"path_traversal", file, 2, "content">>,
                 <<"ssti", q, 1, "evaluated">>, <<"ssti", q, 1, "echoed">>,
                 <<"ssti", file, 1, "evaluated">>,
                 <<"open_redirect", "redirect", 1, "location">>},
    !.forms = <<[action |-> "search", changes |-> FALSE, token |-> FALSE],
                [action |-> "login", changes |-> TRUE, token |-> FALSE],
                [action |-> "pay", changes |-> TRUE, token |-> TRUE]>>,
    !.cors["null_origin"] = [acao |-> "*", acac |-> TRUE]]

\* Pages that are long whatever is asked, and an error that hides the delay.
Long == [Plain EXCEPT
    !.effects = {<<"sqli_boolean", q, 1, "rows">>, <<"sqli_boolean", q, 1, "always">>,
                 <<"sqli_error", file, 2, "error">>, <<"sqli_time", file, 1, "sleeps">>},
    !.cors["subdomain_suffix"] = [acao |-> "origin", acac |-> FALSE]]

Limiting(of, budget, code) == [of EXCEPT !.limits = TRUE, !.budget = budget, !.code = code]

\* The limiters come into force while the parameters are probed, or after it.
MCSites == {Weak, Long,
            Limiting(Long, 4, 403), Limiting(Long, 6, 200), Limiting(Plain, 26, 403),
            Limiting(Plain, 24, 429)}
=============================================================================
