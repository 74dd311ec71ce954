---------------------------- MODULE ActiveProbes ----------------------------
(***************************************************************************)
(* ActiveProbeEngine.run_all for one URL (active_probes.py): six probes    *)
(* test the parameters of the URL concurrently, as coroutines of one event *)
(* loop; when all of them have returned, the forms of the page, the CORS   *)
(* answers and the limiter of the URL are looked at, one after another.    *)
(*                                                                         *)
(* Every request is one step: the coroutine that awaited it goes on to its *)
(* next request without giving way.  The site may limit its visitors: once *)
(* its budget is used up, whoever asks, it refuses.  A request may fail,   *)
(* and every probe swallows the exception and goes on.                     *)
(*                                                                         *)
(* What a page does with a payload is data: site.effects holds the         *)
(* <<probe, parameter, payload, effect>> that its pages show.              *)
(***************************************************************************)
EXTENDS Integers, Sequences, FiniteSets

CONSTANTS
    Params,           \* the parameters of the URL, in the order run_all gets them
    UrlLike,          \* those whose name is in URL_PARAM_PATTERNS
    FileLike,         \* those whose name is in FILE_PARAMS
    RedirectLike,     \* those whose name is in REDIRECT_PARAMS
    CommonRedirects,  \* the REDIRECT_PARAMS that are no parameters of the URL
    Payloads,         \* Payloads[kind]: the length of the table of payloads
    RateRequests,     \* requests of the rate limit probe, 15 in the code
    Sites,            \* the sites that are probed
    MaxErrors,        \* bound on requests that fail
    MaxSlow           \* bound on answers that are slow for no reason of the payload's

Kinds  == {"xss", "sqli_error", "sqli_boolean", "sqli_time", "ssrf", "path_traversal",
           "ssti", "open_redirect"}
Probes == <<"xss", "sqli", "ssrf", "path_traversal", "ssti", "open_redirect">>
Elements(s) == {s[i] : i \in DOMAIN s}

\* The n-th of a set of numbers, the smallest first; what a sequence holds at the places S,
\* in their order.
Nth(S, n) == CHOOSE i \in S : Cardinality({j \in S : j <= i}) = n

Selected(s, S) == [n \in 1 .. Cardinality(S) |-> s[Nth(S, n)]]

ASSUME ProbesAssumption ==
    /\ Params \in Seq(Elements(Params))
    /\ CommonRedirects \in Seq(Elements(CommonRedirects))
    /\ \A kind \in Kinds : Payloads[kind] \in Nat \ {0}
    /\ RateRequests \in Nat \ {0}
    /\ MaxErrors \in Nat /\ MaxSlow \in Nat
    /\ \A st \in Sites :
         /\ st.limits \in BOOLEAN /\ st.budget \in Nat
         /\ st.forms \in Seq(Elements(st.forms))

VARIABLES
    site,       \* the site that answers
    phase,      \* where run_all is
    cursor,     \* cursor[p]: the parameter, stage and payload that probe p asks next
    found,      \* found[p]: the results of probe p so far
    tautology,  \* the answer _boolean_based keeps while it awaits the contradiction's
    baseline,   \* the delay _time_based compares with
    left,       \* requests the limiter of the site still answers
    errors,     \* requests that failed
    slows,      \* answers that were slow
    origin,     \* the test origin the CORS probe asks next
    statuses,   \* the status codes the rate limit probe has collected
    results     \* all_results of run_all

probeVars == <<site, phase, cursor, found, tautology, baseline, left, errors, slows,
               origin, statuses, results>>

-----------------------------------------------------------------------------
(* The site *)

Replies == {"page", "refusal", "exception"}
NoAnswer == [status |-> 0, long |-> FALSE]

Limited == site.limits /\ left = 0

\* A request and what becomes of it; one that fails may have reached the limiter.
Request(reply) ==
    LET counted == IF site.limits /\ left > 0 THEN left - 1 ELSE left
    IN \/ reply = "page" /\ ~ Limited /\ left' = counted /\ UNCHANGED errors
       \/ reply = "refusal" /\ Limited /\ UNCHANGED <<left, errors>>
       \/ /\ reply = "exception"
          /\ errors < MaxErrors
          /\ errors' = errors + 1
          /\ left' \in {left, counted}

Shows(reply, kind, q, k, effect) == reply = "page" /\ <<kind, q, k, effect>> \in site.effects

-----------------------------------------------------------------------------
(* What the probes take for a finding in an answer *)

Reflected(reply, q, k) == Shows(reply, "xss", q, k, "reflected")
SqlError(reply, q, k)  == Shows(reply, "sqli_error", q, k, "error")
Connects(reply, q, k)  == Shows(reply, "ssrf", q, k, "connection")
Discloses(reply, q, k) == Shows(reply, "path_traversal", q, k, "content")
LeadsAway(reply, q, k) == Shows(reply, "open_redirect", q, k, "location")

\* The result of the expression is in the answer and the expression is not.
Evaluated(reply, q, k) ==
    /\ Shows(reply, "ssti", q, k, "evaluated")
    /\ ~ Shows(reply, "ssti", q, k, "echoed")

\* The answer to one payload of a boolean pair, as far as the other one is compared with
\* it: its status, and whether it is longer than the other by more than 100.
Answer(reply, q, k, payload) ==
    [status |-> IF reply = "page" THEN 200 ELSE site.code,
     long   |-> reply = "page" /\ (payload = "true" => Shows(reply, "sqli_boolean", q, k, "rows"))
                             /\ (payload = "false" => Shows(reply, "sqli_boolean", q, k, "always"))]

DifferentLength(a, b) == a.long # b.long

Different(a, b) == a.long # b.long /\ a.status = b.status

\* Delays are in seconds: SLEEP(2), and an answer that is slow by as much.
Delay(reply, q, k, slow) ==
    (IF Shows(reply, "sqli_time", q, k, "sleeps") THEN 2 ELSE 0) + (IF slow THEN 2 ELSE 0)

MuchLonger(elapsed, base) == 2 * elapsed > 2 * base + 3

-----------------------------------------------------------------------------
(* The parameters a probe tests, and its way through them *)

Among(S) == Selected(Params, {i \in DOMAIN Params : Params[i] \in S})

RedirectParams == LET all == Among(RedirectLike) \o CommonRedirects
                  IN SubSeq(all, 1, IF Len(all) < 5 THEN Len(all) ELSE 5)

ParamsOf(p) == CASE p = "ssrf"           -> Among(UrlLike)
                 [] p = "path_traversal" -> Among(FileLike)
                 [] p = "open_redirect"  -> RedirectParams
                 [] OTHER                -> Params

Result(probe, q, k) == [probe |-> probe, at |-> q, payload |-> k]

Start(p, i) == [param |-> i, stage |-> IF p = "sqli" THEN "error" ELSE "payload", k |-> 1]

Done(p) == cursor[p].param > Len(ParamsOf(p))

Param(p) == ParamsOf(p)[cursor[p].param]

NextParam(p)    == cursor' = [cursor EXCEPT ![p] = Start(p, @.param + 1)]
LastParam(p)    == cursor' = [cursor EXCEPT ![p] = Start(p, Len(ParamsOf(p)) + 1)]
Stage(p, stage) == cursor' = [cursor EXCEPT ![p].stage = stage, ![p].k = 1]
Payload(p)      == cursor' = [cursor EXCEPT ![p].k = @ + 1]

Report(p, probe, k) == found' = [found EXCEPT ![p] = Append(@, Result(probe, Param(p), k))]

\* The loop that five probes share: a payload that shows something is reported and ends the
\* loop over the payloads, or over the parameters as well; any other answer and an exception
\* lead to the next payload.
Try(p, Positive(_, _, _), AfterResult(_)) ==
    /\ phase = "params"
    /\ ~ Done(p)
    /\ LET k == cursor[p].k
       IN \E reply \in Replies :
            /\ Request(reply)
            /\ \/ Positive(reply, Param(p), k) /\ Report(p, p, k) /\ AfterResult(p)
               \/ /\ ~ Positive(reply, Param(p), k)
                  /\ UNCHANGED found
                  /\ IF k < Payloads[p] THEN Payload(p) ELSE NextParam(p)
    /\ UNCHANGED <<site, phase, tautology, baseline, slows, origin, statuses, results>>

XSSReflectionProbeOnce == Try("xss", Reflected, LastParam)

XSSReflectionProbe     == Try("xss", Reflected, NextParam)
SSRFProbe              == Try("ssrf", Connects, NextParam)
PathTraversalProbe     == Try("path_traversal", Discloses, NextParam)
TemplateInjectionProbe == Try("ssti", Evaluated, NextParam)
OpenRedirectProbe      == Try("open_redirect", LeadsAway, LastParam)

-----------------------------------------------------------------------------
(* SQLInjectionProbe: syntax errors, then pairs, then delays, for each parameter *)

SQLAt(stage) == phase = "params" /\ ~ Done("sqli") /\ cursor["sqli"].stage = stage

SQLUnchanged == UNCHANGED <<site, phase, origin, statuses, results>>

ErrorBased ==
    LET k == cursor["sqli"].k
    IN /\ SQLAt("error")
       /\ \E reply \in Replies :
            /\ Request(reply)
            /\ \/ SqlError(reply, Param("sqli"), k) /\ Report("sqli", "sqli_error", k) /\ NextParam("sqli")
               \/ /\ ~ SqlError(reply, Param("sqli"), k)
                  /\ UNCHANGED found
                  /\ IF k < Payloads["sqli_error"] THEN Payload("sqli") ELSE Stage("sqli", "true")
       /\ UNCHANGED <<tautology, baseline, slows>>
       /\ SQLUnchanged

NextPair(k) ==
    IF k < Payloads["sqli_boolean"]
    THEN cursor' = [cursor EXCEPT !["sqli"].stage = "true", !["sqli"].k = k + 1]
    ELSE Stage("sqli", "baseline")

\* The tautology of a pair; an exception gives the pair up.
BooleanTrue ==
    LET k == cursor["sqli"].k
    IN /\ SQLAt("true")
       /\ \E reply \in Replies :
            /\ Request(reply)
            /\ \/ reply = "exception" /\ NextPair(k) /\ UNCHANGED tautology
               \/ /\ reply # "exception"
                  /\ tautology' = Answer(reply, Param("sqli"), k, "true")
                  /\ cursor' = [cursor EXCEPT !["sqli"].stage = "false"]
       /\ UNCHANGED <<found, baseline, slows>>
       /\ SQLUnchanged

\* The contradiction: the answers differ in length and agree in status.
BooleanFalse ==
    LET k == cursor["sqli"].k
    IN /\ SQLAt("false")
       /\ tautology' = NoAnswer
       /\ \E reply \in Replies :
            /\ Request(reply)
            /\ LET hit == /\ reply # "exception"
                          /\ Different(tautology, Answer(reply, Param("sqli"), k, "false"))
               IN \/ hit /\ Report("sqli", "sqli_boolean", k) /\ NextParam("sqli")
                  \/ ~ hit /\ NextPair(k) /\ UNCHANGED found
       /\ UNCHANGED <<baseline, slows>>
       /\ SQLUnchanged

Slowness(slow) == IF slow THEN slows < MaxSlow /\ slows' = slows + 1 ELSE UNCHANGED slows

\* The undisturbed request; without it there is nothing to compare with.
Baseline ==
    /\ SQLAt("baseline")
    /\ \E reply \in Replies, slow \in BOOLEAN :
         /\ Request(reply)
         /\ Slowness(slow)
         /\ \/ reply = "exception" /\ ~ slow /\ NextParam("sqli") /\ UNCHANGED baseline
            \/ /\ reply # "exception"
               /\ baseline' = IF slow THEN 2 ELSE 0
               /\ Stage("sqli", "sleep")
    /\ UNCHANGED <<found, tautology>>
    /\ SQLUnchanged

TimeBased ==
    LET k == cursor["sqli"].k
    IN /\ SQLAt("sleep")
       /\ \E reply \in Replies, slow \in BOOLEAN :
            /\ Request(reply)
            /\ Slowness(slow)
            /\ LET hit == /\ reply # "exception"
                          /\ MuchLonger(Delay(reply, Param("sqli"), k, slow), baseline)
               IN /\ reply = "exception" => ~ slow
                  /\ \/ hit /\ Report("sqli", "sqli_time", k) /\ NextParam("sqli")
                     \/ /\ ~ hit /\ UNCHANGED found
                        /\ IF k < Payloads["sqli_time"] THEN Payload("sqli") ELSE NextParam("sqli")
                  /\ baseline' = IF hit \/ k = Payloads["sqli_time"] THEN 0 ELSE baseline
       /\ UNCHANGED tautology
       /\ SQLUnchanged

SQLInjectionProbe == ErrorBased \/ BooleanTrue \/ BooleanFalse \/ Baseline \/ TimeBased

-----------------------------------------------------------------------------
(* run_all, from the end of the gather on *)

OpenForms == {i \in DOMAIN site.forms : site.forms[i].changes /\ ~ site.forms[i].token}

\* CSRFProbe: one result for every form that changes state and has no token, in their order.
CSRFResults ==
    Selected([i \in DOMAIN site.forms |-> Result("csrf_missing", site.forms[i].action, 0)], OpenForms)

\* The results of the gather, in the order of its arguments.
InOrder(of) == of[1] \o of[2] \o of[3] \o of[4] \o of[5] \o of[6]

Gathered == InOrder([i \in DOMAIN Probes |-> found[Probes[i]]])

\* The last coroutine has returned; the forms are analysed without a request.
Collect ==
    /\ phase = "params"
    /\ \A p \in Elements(Probes) : Done(p)
    /\ results' = Gathered \o CSRFResults
    /\ phase' = "cors"
    /\ UNCHANGED <<site, cursor, found, tautology, baseline, left, errors, slows, origin, statuses>>

TestOrigins == <<"arbitrary", "subdomain_suffix", "null_origin">>

\* What the CORS headers for a test origin amount to: a finding, or nothing.
CORSResults(o) ==
    LET c == site.cors[TestOrigins[o]]
    IN CASE c.acao = "*" /\ c.acac -> <<Result("cors_wildcard_creds", TestOrigins[o], o)>>
         [] c.acao = "origin" /\ TestOrigins[o] # "null_origin" ->
                <<Result("cors_reflection", TestOrigins[o], o)>>
         [] OTHER -> <<>>

\* The first origin with a finding is the last one that is tried.
CORSProbe ==
    /\ phase = "cors"
    /\ \E reply \in Replies :
         /\ Request(reply)
         /\ LET new == IF reply = "page" THEN CORSResults(origin) ELSE <<>>
            IN /\ results' = results \o new
               /\ origin' = origin + 1
               /\ phase' = IF new = <<>> /\ origin < Len(TestOrigins) THEN "cors" ELSE "rate"
    /\ UNCHANGED <<site, cursor, found, tautology, baseline, slows, statuses>>

AllSame(s) == \A i \in DOMAIN s : s[i] = s[1]

RateWaits ==
    /\ phase = "rate"
    /\ \E reply \in Replies :
         /\ Request(reply)
         /\ statuses' = IF reply = "page" THEN Append(statuses, 200) ELSE statuses
         /\ phase' = IF Len(statuses') = RateRequests \/ reply = "exception" THEN "done" ELSE "rate"
    /\ UNCHANGED <<site, cursor, found, tautology, baseline, slows, origin, results>>

\* RateLimitProbe: a 429 shows a limiter and an exception ends the probe; if every request
\* was answered with the same status, an authentication URL is reported.
RateLimitProbe ==
    /\ phase = "rate"
    /\ \E reply \in Replies :
         /\ Request(reply)
         /\ statuses' = IF reply = "exception" THEN statuses
                        ELSE Append(statuses, IF reply = "page" THEN 200 ELSE site.code)
         /\ LET stopped == reply = "exception" \/ (reply = "refusal" /\ site.code = 429)
                all     == ~ stopped /\ Len(statuses') = RateRequests
            IN /\ phase' = IF stopped \/ all THEN "done" ELSE "rate"
               /\ results' = IF all /\ AllSame(statuses') /\ site.auth
                             THEN Append(results, Result("rate_limit_missing", "url", 0))
                             ELSE results
    /\ UNCHANGED <<site, cursor, found, tautology, baseline, slows, origin>>

-----------------------------------------------------------------------------
ProbesInit ==
    /\ site \in Sites
    /\ phase = "params"
    /\ cursor = [p \in Elements(Probes) |-> Start(p, IF Params = <<>> THEN Len(ParamsOf(p)) + 1 ELSE 1)]
    /\ found = [p \in Elements(Probes) |-> <<>>]
    /\ tautology = NoAnswer
    /\ baseline = 0
    /\ left = site.budget
    /\ errors = 0
    /\ slows = 0
    /\ origin = 1
    /\ statuses = <<>>
    /\ results = <<>>

ProbesNext ==
    \/ XSSReflectionProbe \/ SSRFProbe \/ PathTraversalProbe
    \/ TemplateInjectionProbe \/ OpenRedirectProbe
    \/ ErrorBased \/ BooleanTrue \/ BooleanFalse \/ Baseline \/ TimeBased
    \/ Collect \/ CORSProbe \/ RateLimitProbe

\* The event loop runs a coroutine whose request is answered, and the client's timeout
\* answers every request.
ProbesSpec == ProbesInit /\ [][ProbesNext]_probeVars /\ WF_probeVars(ProbesNext)

-----------------------------------------------------------------------------
(* Properties *)

\* What the site does with a payload of a pair, asked without a limiter.
Rows(f)   == <<"sqli_boolean", f.at, f.payload, "rows">> \in site.effects
Always(f) == <<"sqli_boolean", f.at, f.payload, "always">> \in site.effects

Real(f) ==
    LET effect(kind, e) == <<kind, f.at, f.payload, e>> \in site.effects
    IN CASE f.probe = "xss"            -> effect("xss", "reflected")
         [] f.probe = "sqli_error"     -> effect("sqli_error", "error")
         [] f.probe = "sqli_boolean"   -> Rows(f) # Always(f) \/ (Limited /\ site.code = 200)
         [] f.probe = "sqli_time"      -> effect("sqli_time", "sleeps") \/ slows > 0
         [] f.probe = "ssrf"           -> effect("ssrf", "connection")
         [] f.probe = "path_traversal" -> effect("path_traversal", "content")
         [] f.probe = "ssti"           -> effect("ssti", "evaluated") /\ ~ effect("ssti", "echoed")
         [] f.probe = "open_redirect"  -> effect("open_redirect", "location")
         [] f.probe = "csrf_missing"   ->
                \E i \in DOMAIN site.forms :
                    site.forms[i].action = f.at /\ site.forms[i].changes /\ ~ site.forms[i].token
         [] f.probe = "cors_wildcard_creds" -> site.cors[f.at].acao = "*" /\ site.cors[f.at].acac
         [] f.probe = "cors_reflection"     -> site.cors[f.at].acao = "origin"
         [] OTHER -> site.auth /\ \E code \in {200, site.code} \ {429} : Elements(statuses) = {code}

\* Whatever fails, is slow or is refused between two requests of a probe, a finding is
\* something the site does, and no URL is reported as unlimited that answered 429 or changed
\* its answer during the probe.  Three explained exceptions: a delay finding after an answer
\* that was slow by itself (a single measurement decides, active_probes.py:262), a pair that
\* a limiter came between which refuses with status 200 (:217), and a URL that refused every
\* request of the rate limit probe with the same status, such as 403, which :620 takes for
\* unlimited.
ReportedIsReal ==
    /\ \A p \in Elements(Probes) : \A i \in DOMAIN found[p] : Real(found[p][i])
    /\ \A i \in DOMAIN results : Real(results[i])

Differs(reply, q, k)  == Different(Answer(reply, q, k, "true"), Answer(reply, q, k, "false"))

\* The payloads of a table that show something on a page, and the result for the first.
Telling(kind, q) ==
    {k \in 1 .. Payloads[kind] :
        CASE kind = "xss"            -> Reflected("page", q, k)
          [] kind = "sqli_error"     -> SqlError("page", q, k)
          [] kind = "sqli_boolean"   -> Differs("page", q, k)
          [] kind = "sqli_time"      -> Shows("page", "sqli_time", q, k, "sleeps")
          [] kind = "ssrf"           -> Connects("page", q, k)
          [] kind = "path_traversal" -> Discloses("page", q, k)
          [] kind = "ssti"           -> Evaluated("page", q, k)
          [] OTHER                   -> LeadsAway("page", q, k)}

FirstOf(kind, q) == Result(kind, q, CHOOSE k \in Telling(kind, q) : \A j \in Telling(kind, q) : k <= j)

\* The table that matters for a parameter: an error spares the pairs, and these the delays.
Table(p, q) == IF p # "sqli" THEN p
               ELSE IF Telling("sqli_error", q) # {} THEN "sqli_error"
               ELSE IF Telling("sqli_boolean", q) # {} THEN "sqli_boolean"
               ELSE "sqli_time"

Weaknesses(p) == {i \in DOMAIN ParamsOf(p) : Telling(Table(p, ParamsOf(p)[i]), ParamsOf(p)[i]) # {}}

\* The places of the parameters that lead to a result: all the weak ones, or the first.
Reported(p) ==
    IF p = "open_redirect" THEN {i \in Weaknesses(p) : \A j \in Weaknesses(p) : i <= j}
    ELSE Weaknesses(p)

\* What the first telling payload for each parameter leads to.
Expected(p) == [i \in DOMAIN ParamsOf(p) |-> FirstOf(Table(p, ParamsOf(p)[i]), ParamsOf(p)[i])]

\* The results of a probe that asks every parameter in turn, undisturbed.
Sequential(p) == Selected(Expected(p), Reported(p))

\* If nothing failed, was slow or was refused, run_all returns what the probes would have
\* found one after the other, in that order, however their requests interleaved: at most
\* one result per parameter and probe, for the first payload that shows something.
FoundWhenUnhindered ==
    phase \in {"cors", "rate", "done"} /\ Params # <<>> /\ errors = 0 /\ slows = 0 /\ ~ Limited =>
        LET expected == InOrder([i \in DOMAIN Probes |-> Sequential(Probes[i])])
        IN SubSeq(results, 1, Len(expected)) = expected

\* run_all returns, whatever the site answers.
ProbingEnds == <>(phase = "done")
=============================================================================
