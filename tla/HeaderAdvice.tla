---------------------------- MODULE HeaderAdvice ----------------------------
(***************************************************************************)
(* SecurityHeaderAnalyzer (header_analyzer.py): eleven checks of the       *)
(* headers of a response, a score and a grade; and the owner of the site,  *)
(* who follows the advice of one finding after another and has the site    *)
(* analysed again.                                                         *)
(*                                                                         *)
(* A header is what the checks tell apart in its value.  That of the       *)
(* policy (CSP) is a record: the directives it has, and those in which     *)
(* each source stands.                                                     *)
(***************************************************************************)
EXTENDS Integers

CONSTANT
    Pages   \* headers that the analysed sites answer with at first

\* The directives that matter, and two more where a source may stand.
Directives == {"default-src", "script-src", "style-src", "img-src", "frame-ancestors"}

Policies == [directives : SUBSET Directives, inline : SUBSET Directives, data : SUBSET Directives,
             wildcard : SUBSET Directives, eval : BOOLEAN]

\* What the checks tell apart in the headers.
HeaderValues ==
    [hsts : {"absent", "zero", "short", "unreadable", "year"}, csp : Policies,
     xfo : {"absent", "invalid", "standard"}, xcto : {"absent", "nosniff"},
     referrer : {"absent", "unsafe", "safe"}, permissions : {"absent", "present"},
     xxp : {"absent", "0"}, acao : {"absent", "*", "origin"}, acac : {"absent", "true"},
     server : {"absent", "version"}, powered : {"absent", "present"},
     cache : {"absent", "caches", "prevents"}]

ASSUME HeaderAssumption == Pages \subseteq HeaderValues

VARIABLE
    h       \* the headers, normalised to lowercase names

Info == 0
Low == 1
Medium == 2
High == 3

Finding(header, grade, severity) == {[header |-> header, grade |-> grade, severity |-> severity]}
None == {}

NoPolicy == [directives |-> {}, inline |-> {}, data |-> {}, wildcard |-> {}, eval |-> FALSE]

\* The value that _check_content_security_policy recommends where there is none.
RecommendedPolicy ==
    [directives |-> {"default-src", "script-src", "style-src", "img-src", "frame-ancestors"},
     inline |-> {"style-src"}, data |-> {"img-src"}, wildcard |-> {}, eval |-> FALSE]

-----------------------------------------------------------------------------
(* The checks: no finding or one *)

YearIsShort ==
    CASE h.hsts = "absent" -> Finding("hsts", "missing", Medium)
      [] h.hsts = "zero"   -> Finding("hsts", "weak", Medium)
      [] h.hsts \in {"short", "year"} -> Finding("hsts", "weak", Low)
      [] OTHER             -> None

\* An age that is no number is an exception, and taken for a good one.
StrictTransportSecurity ==
    CASE h.hsts = "absent" -> Finding("hsts", "missing", Medium)
      [] h.hsts = "zero"   -> Finding("hsts", "weak", Medium)
      [] h.hsts = "short"  -> Finding("hsts", "weak", Low)
      [] OTHER             -> None

\* The sources are looked for in the whole value, the wildcard in the script directive only.
Dangerous(policy) ==
    \/ "script-src" \in policy.directives /\ policy.inline \cup policy.data # {}
    \/ policy.eval
    \/ "script-src" \in policy.directives \cap policy.wildcard

WeakIsWorse ==
    IF h.csp.directives = {} THEN Finding("csp", "missing", Medium)
    ELSE IF Dangerous(h.csp) THEN Finding("csp", "weak", High)
    ELSE None

ContentSecurityPolicy ==
    IF h.csp.directives = {} THEN Finding("csp", "missing", Medium)
    ELSE IF Dangerous(h.csp) THEN Finding("csp", "weak", Medium)
    ELSE None

\* A policy that names the frame ancestors stands in for the header.
XFrameOptions ==
    IF "frame-ancestors" \in h.csp.directives THEN None
    ELSE CASE h.xfo = "absent"  -> Finding("xfo", "missing", Medium)
           [] h.xfo = "invalid" -> Finding("xfo", "weak", Low)
           [] OTHER             -> None

XContentTypeOptions == IF h.xcto = "absent" THEN Finding("xcto", "missing", Low) ELSE None

ReferrerPolicy ==
    CASE h.referrer = "absent" -> Finding("referrer", "missing", Low)
      [] h.referrer = "unsafe" -> Finding("referrer", "weak", Low)
      [] OTHER                 -> None

PermissionsPolicy == IF h.permissions = "absent" THEN Finding("permissions", "missing", Info) ELSE None

XXssProtection == IF h.xxp = "0" THEN Finding("xxp", "weak", Info) ELSE None

CORS ==
    IF h.acao = "*" THEN Finding("acao", "weak", IF h.acac = "true" THEN High ELSE Medium) ELSE None

ServerHeader == IF h.server = "version" THEN Finding("server", "weak", Low) ELSE None

XPoweredBy == IF h.powered = "present" THEN Finding("powered", "weak", Low) ELSE None

CacheControl ==
    CASE h.cache = "absent" -> Finding("cache", "missing", Info)
      [] h.cache = "caches" -> Finding("cache", "weak", Info)
      [] OTHER              -> None

Findings ==
    UNION {StrictTransportSecurity, ContentSecurityPolicy, XFrameOptions, XContentTypeOptions,
           ReferrerPolicy, PermissionsPolicy, XXssProtection, CORS, ServerHeader, XPoweredBy,
           CacheControl}

Deduction(severity) == CASE severity = High -> 20 [] severity = Medium -> 15
                         [] severity = Low -> 8 [] OTHER -> 3

\* What a check costs, which has made one finding or none.
Cost(check) == IF check = None THEN 0 ELSE Deduction((CHOOSE f \in check : TRUE).severity)

Score ==
    LET rest == 100 - (Cost(StrictTransportSecurity) + Cost(ContentSecurityPolicy)
                       + Cost(XFrameOptions) + Cost(XContentTypeOptions) + Cost(ReferrerPolicy)
                       + Cost(PermissionsPolicy) + Cost(XXssProtection) + Cost(CORS)
                       + Cost(ServerHeader) + Cost(XPoweredBy) + Cost(CacheControl))
    IN IF rest < 0 THEN 0 ELSE rest

Grade == IF Score >= 95 THEN "A+" ELSE IF Score >= 90 THEN "A" ELSE IF Score >= 80 THEN "B"
         ELSE IF Score >= 70 THEN "C" ELSE IF Score >= 60 THEN "D" ELSE "F"

-----------------------------------------------------------------------------
(* What the owner makes of the advice *)

\* Dangerous sources are removed where the advice names them: from the script directive.
WithoutDangers(policy) ==
    [policy EXCEPT !.inline = @ \ {"script-src"}, !.data = @ \ {"script-src"},
                   !.wildcard = @ \ {"script-src"}, !.eval = FALSE]

Advised(f) ==
    CASE f.header = "hsts"     -> [h EXCEPT !.hsts = "year"]
      [] f.header = "csp" /\ f.grade = "missing" -> [h EXCEPT !.csp = RecommendedPolicy]
      [] f.header = "csp" /\ f.grade = "weak"    -> [h EXCEPT !.csp = WithoutDangers(@)]
      [] f.header = "xfo"      -> [h EXCEPT !.xfo = "standard"]
      [] f.header = "xcto"     -> [h EXCEPT !.xcto = "nosniff"]
      [] f.header = "referrer" -> [h EXCEPT !.referrer = "safe"]
      [] f.header = "permissions" -> [h EXCEPT !.permissions = "present"]
      [] f.header = "xxp"      -> [h EXCEPT !.xxp = "absent"]
      [] f.header = "acao"     -> [h EXCEPT !.acao = "origin"]
      [] f.header = "server"   -> [h EXCEPT !.server = "absent"]
      [] f.header = "powered"  -> [h EXCEPT !.powered = "absent"]
      [] f.header = "cache"    -> [h EXCEPT !.cache = "prevents"]

Follow(f) == h' = Advised(f)

HeaderInit == h \in Pages

HeaderNext == \E f \in Findings : Follow(f)

HeaderSpec == HeaderInit /\ [][HeaderNext]_h

-----------------------------------------------------------------------------
(* Properties *)

\* Following the advice of any finding, in any order, never costs the site a point, though
\* a policy stands in for X-Frame-Options as long as it names the frame ancestors, and the
\* advice for the policy replaces one finding by another.
AdviceNeverLowersScore == [][Score' >= Score]_h

\* A source that the advice leaves alone in a directive other than that of scripts.
Blamed(policy) ==
    /\ "script-src" \in policy.directives
    /\ policy.inline \cup policy.data # {}
    /\ "script-src" \notin policy.inline \cup policy.data

\* Where no advice is left that would change anything, the site has a grade of A+, or a B
\* with one finding about the policy that no advice removes: 'unsafe-inline' and data: are
\* taken for the sources of scripts wherever they stand (header_analyzer.py:184 and :188),
\* the value the analyzer recommends (:172) among them.
AdviceLeads ==
    (\A f \in Findings : Advised(f) = h) =>
        \/ Findings = {} /\ Grade = "A+"
        \/ Findings = Finding("csp", "weak", Medium) /\ Blamed(h.csp) /\ Grade = "B"
=============================================================================
