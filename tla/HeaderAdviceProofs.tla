------------------------- MODULE HeaderAdviceProofs -------------------------
(***************************************************************************)
(* Following the advice of the header analyzer, for every combination of   *)
(* headers: it never costs a point, and where it ends.                     *)
(***************************************************************************)
EXTENDS HeaderAdvice, TLAPS

-----------------------------------------------------------------------------
(* What the checks cost *)

LEMMA CostOf ==
    /\ Cost(None) = 0
    /\ \A header, grade, severity : Cost(Finding(header, grade, severity)) = Deduction(severity)
<1>1. Cost(None) = 0
  BY DEF Cost
<1>2. ASSUME NEW header, NEW grade, NEW severity
      PROVE  Cost(Finding(header, grade, severity)) = Deduction(severity)
  <2> DEFINE f == [header |-> header, grade |-> grade, severity |-> severity]
  <2>1. Finding(header, grade, severity) = {f} /\ {f} # None
    BY DEF Finding, None
  <2>2. (CHOOSE g \in {f} : TRUE) = f
    OBVIOUS
  <2>3. f.severity = severity
    OBVIOUS
  <2> QED
    BY <2>1, <2>2, <2>3 DEF Cost
<1> QED
  BY <1>1, <1>2

LEMMA Deductions ==
    Deduction(High) = 20 /\ Deduction(Medium) = 15 /\ Deduction(Low) = 8 /\ Deduction(Info) = 3
BY DEF Deduction, High, Medium, Low, Info

\* What each check costs, as far as the headers it looks at tell.
StrictTransportSecurityCost(g) ==
    CASE g.hsts = "absent" -> 15 [] g.hsts = "zero" -> 15 [] g.hsts = "short" -> 8 [] OTHER -> 0

ContentSecurityPolicyCost(g) == IF g.csp.directives = {} \/ Dangerous(g.csp) THEN 15 ELSE 0

XFrameOptionsCost(g) ==
    IF "frame-ancestors" \in g.csp.directives THEN 0
    ELSE CASE g.xfo = "absent" -> 15 [] g.xfo = "invalid" -> 8 [] OTHER -> 0

XContentTypeOptionsCost(g) == IF g.xcto = "absent" THEN 8 ELSE 0
ReferrerPolicyCost(g) == IF g.referrer \in {"absent", "unsafe"} THEN 8 ELSE 0
PermissionsPolicyCost(g) == IF g.permissions = "absent" THEN 3 ELSE 0
XXssProtectionCost(g) == IF g.xxp = "0" THEN 3 ELSE 0
CORSCost(g) == IF g.acao = "*" THEN IF g.acac = "true" THEN 20 ELSE 15 ELSE 0
ServerHeaderCost(g) == IF g.server = "version" THEN 8 ELSE 0
XPoweredByCost(g) == IF g.powered = "present" THEN 8 ELSE 0
CacheControlCost(g) == IF g.cache \in {"absent", "caches"} THEN 3 ELSE 0

PointsLost(g) ==
    StrictTransportSecurityCost(g) + ContentSecurityPolicyCost(g) + XFrameOptionsCost(g)
    + XContentTypeOptionsCost(g) + ReferrerPolicyCost(g) + PermissionsPolicyCost(g)
    + XXssProtectionCost(g) + CORSCost(g) + ServerHeaderCost(g) + XPoweredByCost(g)
    + CacheControlCost(g)

Remaining(points) == IF 100 - points < 0 THEN 0 ELSE 100 - points

LEMMA ScoreOfHeaders == Score = Remaining(PointsLost(h))
<1> USE CostOf, Deductions
<1>1. Cost(StrictTransportSecurity) = StrictTransportSecurityCost(h)
  BY DEF StrictTransportSecurity, StrictTransportSecurityCost
<1>2. Cost(ContentSecurityPolicy) = ContentSecurityPolicyCost(h)
  BY DEF ContentSecurityPolicy, ContentSecurityPolicyCost
<1>3. Cost(XFrameOptions) = XFrameOptionsCost(h)
  BY DEF XFrameOptions, XFrameOptionsCost
<1>4. Cost(XContentTypeOptions) = XContentTypeOptionsCost(h)
  BY DEF XContentTypeOptions, XContentTypeOptionsCost
<1>5. Cost(ReferrerPolicy) = ReferrerPolicyCost(h)
  BY DEF ReferrerPolicy, ReferrerPolicyCost
<1>6. Cost(PermissionsPolicy) = PermissionsPolicyCost(h)
  BY DEF PermissionsPolicy, PermissionsPolicyCost
<1>7. Cost(XXssProtection) = XXssProtectionCost(h)
  BY DEF XXssProtection, XXssProtectionCost
<1>8. Cost(CORS) = CORSCost(h)
  BY DEF CORS, CORSCost
<1>9. Cost(ServerHeader) = ServerHeaderCost(h)
  BY DEF ServerHeader, ServerHeaderCost
<1>10. Cost(XPoweredBy) = XPoweredByCost(h)
  BY DEF XPoweredBy, XPoweredByCost
<1>11. Cost(CacheControl) = CacheControlCost(h)
  BY DEF CacheControl, CacheControlCost
<1> HIDE CostOf, Deductions
<1> QED
  BY <1>1, <1>2, <1>3, <1>4, <1>5, <1>6, <1>7, <1>8, <1>9, <1>10, <1>11
     DEF Score, PointsLost, Remaining

-----------------------------------------------------------------------------
(* What the findings say of the headers *)

LEMMA FindingOfCheck ==
    ASSUME NEW f \in Findings
    PROVE  \/ f.header = "hsts"
           \/ f.header = "csp" /\ f.grade = "missing" /\ h.csp.directives = {}
           \/ f.header = "csp" /\ f.grade = "weak" /\ h.csp.directives # {}
           \/ f.header \in {"xfo", "xcto", "referrer", "permissions", "xxp", "acao", "server",
                            "powered", "cache"}
<1>1. CASE f \in StrictTransportSecurity
  BY <1>1 DEF StrictTransportSecurity, Finding, None
<1>2. CASE f \in ContentSecurityPolicy
  BY <1>2 DEF ContentSecurityPolicy, Finding, None
<1>3. CASE f \in XFrameOptions
  BY <1>3 DEF XFrameOptions, Finding, None
<1>4. CASE f \in XContentTypeOptions \cup ReferrerPolicy \cup PermissionsPolicy
  BY <1>4 DEF XContentTypeOptions, ReferrerPolicy, PermissionsPolicy, Finding, None
<1>5. CASE f \in XXssProtection \cup CORS \cup ServerHeader
  BY <1>5 DEF XXssProtection, CORS, ServerHeader, Finding, None
<1>6. CASE f \in XPoweredBy \cup CacheControl
  BY <1>6 DEF XPoweredBy, CacheControl, Finding, None
<1> QED
  BY <1>1, <1>2, <1>3, <1>4, <1>5, <1>6 DEF Findings

\* Advice changes one header, to a value that costs nothing, but for a weak policy: that
\* keeps its directives.
Fixed(g) ==
    \/ g = [h EXCEPT !.hsts = "year"]
    \/ g = [h EXCEPT !.csp = RecommendedPolicy] /\ h.csp.directives = {}
    \/ g = [h EXCEPT !.csp = WithoutDangers(h.csp)] /\ h.csp.directives # {}
    \/ g = [h EXCEPT !.xfo = "standard"]
    \/ g = [h EXCEPT !.xcto = "nosniff"]
    \/ g = [h EXCEPT !.referrer = "safe"]
    \/ g = [h EXCEPT !.permissions = "present"]
    \/ g = [h EXCEPT !.xxp = "absent"]
    \/ g = [h EXCEPT !.acao = "origin"]
    \/ g = [h EXCEPT !.server = "absent"]
    \/ g = [h EXCEPT !.powered = "absent"]
    \/ g = [h EXCEPT !.cache = "prevents"]

LEMMA AdviceFixes == ASSUME NEW f \in Findings PROVE Fixed(Advised(f))
<1>1. CASE f.header = "hsts"
  BY <1>1 DEF Advised, Fixed
<1>2. CASE f.header = "csp" /\ f.grade = "missing" /\ h.csp.directives = {}
  BY <1>2 DEF Advised, Fixed
<1>3. CASE f.header = "csp" /\ f.grade = "weak" /\ h.csp.directives # {}
  BY <1>3 DEF Advised, Fixed
<1>4. CASE f.header \in {"xfo", "xcto", "referrer"}
  BY <1>4 DEF Advised, Fixed
<1>5. CASE f.header \in {"permissions", "xxp", "acao"}
  BY <1>5 DEF Advised, Fixed
<1>6. CASE f.header \in {"server", "powered", "cache"}
  BY <1>6 DEF Advised, Fixed
<1> QED
  BY <1>1, <1>2, <1>3, <1>4, <1>5, <1>6, FindingOfCheck

-----------------------------------------------------------------------------
(* Advice never costs a point *)

\* The headers stay what the checks know.  Together with the next lemma this is what a step
\* of the owner does.
LEMMA FixedTyped ==
    ASSUME h \in HeaderValues, NEW g, Fixed(g)
    PROVE  g \in HeaderValues
<1>1. RecommendedPolicy \in Policies
  BY DEF RecommendedPolicy, Policies, Directives
<1>2. WithoutDangers(h.csp) \in Policies
  BY DEF WithoutDangers, HeaderValues, Policies
<1> QED
  BY <1>1, <1>2 DEF Fixed, HeaderValues

\* Header by header: what advice may have made of it.
LEMMA FixedFields ==
    ASSUME h \in HeaderValues, NEW g, Fixed(g)
    PROVE  /\ \/ g.csp = h.csp
              \/ g.csp = RecommendedPolicy /\ h.csp.directives = {}
              \/ g.csp = WithoutDangers(h.csp) /\ h.csp.directives # {}
           /\ g.hsts \in {h.hsts, "year"}
           /\ g.xfo \in {h.xfo, "standard"}
           /\ g.xcto \in {h.xcto, "nosniff"}
           /\ g.referrer \in {h.referrer, "safe"}
           /\ g.permissions \in {h.permissions, "present"}
           /\ g.xxp \in {h.xxp, "absent"}
           /\ g.acao \in {h.acao, "origin"}
           /\ g.server \in {h.server, "absent"}
           /\ g.powered \in {h.powered, "absent"}
           /\ g.cache \in {h.cache, "prevents"}
           /\ g.acac = h.acac
<1>1. CASE g = [h EXCEPT !.hsts = "year"]
  BY <1>1 DEF HeaderValues
<1>2. CASE g = [h EXCEPT !.csp = RecommendedPolicy] /\ h.csp.directives = {}
  BY <1>2 DEF HeaderValues
<1>3. CASE g = [h EXCEPT !.csp = WithoutDangers(h.csp)] /\ h.csp.directives # {}
  BY <1>3 DEF HeaderValues
<1>4. CASE g = [h EXCEPT !.xfo = "standard"]
  BY <1>4 DEF HeaderValues
<1>5. CASE g = [h EXCEPT !.xcto = "nosniff"]
  BY <1>5 DEF HeaderValues
<1>6. CASE g = [h EXCEPT !.referrer = "safe"]
  BY <1>6 DEF HeaderValues
<1>7. CASE g = [h EXCEPT !.permissions = "present"]
  BY <1>7 DEF HeaderValues
<1>8. CASE g = [h EXCEPT !.xxp = "absent"]
  BY <1>8 DEF HeaderValues
<1>9. CASE g = [h EXCEPT !.acao = "origin"]
  BY <1>9 DEF HeaderValues
<1>10. CASE g = [h EXCEPT !.server = "absent"]
  BY <1>10 DEF HeaderValues
<1>11. CASE g = [h EXCEPT !.powered = "absent"]
  BY <1>11 DEF HeaderValues
<1>12. CASE g = [h EXCEPT !.cache = "prevents"]
  BY <1>12 DEF HeaderValues
<1> QED
  BY <1>1, <1>2, <1>3, <1>4, <1>5, <1>6,
     <1>7, <1>8, <1>9, <1>10, <1>11, <1>12 DEF Fixed

LEMMA CostsAreNumbers ==
    ASSUME NEW g
    PROVE  /\ StrictTransportSecurityCost(g) \in Nat /\ ContentSecurityPolicyCost(g) \in Nat
           /\ XFrameOptionsCost(g) \in Nat /\ XContentTypeOptionsCost(g) \in Nat
           /\ ReferrerPolicyCost(g) \in Nat /\ PermissionsPolicyCost(g) \in Nat
           /\ XXssProtectionCost(g) \in Nat /\ CORSCost(g) \in Nat
           /\ ServerHeaderCost(g) \in Nat /\ XPoweredByCost(g) \in Nat
           /\ CacheControlCost(g) \in Nat
BY DEF StrictTransportSecurityCost, ContentSecurityPolicyCost, XFrameOptionsCost,
       XContentTypeOptionsCost, ReferrerPolicyCost, PermissionsPolicyCost, XXssProtectionCost,
       CORSCost, ServerHeaderCost, XPoweredByCost, CacheControlCost

LEMMA FixedIsCheaper ==
    ASSUME h \in HeaderValues, NEW g, Fixed(g)
    PROVE  PointsLost(g) <= PointsLost(h)
<1>1. StrictTransportSecurityCost(g) <= StrictTransportSecurityCost(h)
  BY FixedFields DEF StrictTransportSecurityCost
<1>2. ContentSecurityPolicyCost(g) <= ContentSecurityPolicyCost(h)
  <2>1. CASE h.csp.directives = {} \/ Dangerous(h.csp)
    BY <2>1 DEF ContentSecurityPolicyCost
  <2>2. CASE h.csp.directives # {} /\ ~Dangerous(h.csp)
    <3>1. g.csp = h.csp \/ g.csp = WithoutDangers(h.csp)
      BY <2>2, FixedFields
    <3>2. WithoutDangers(h.csp).directives = h.csp.directives
      BY DEF WithoutDangers, HeaderValues, Policies
    <3>3. ~Dangerous(WithoutDangers(h.csp))
      BY <2>2 DEF Dangerous, WithoutDangers, HeaderValues, Policies
    <3> QED
      BY <2>2, <3>1, <3>2, <3>3 DEF ContentSecurityPolicyCost
  <2> QED
    BY <2>1, <2>2
<1>3. XFrameOptionsCost(g) <= XFrameOptionsCost(h)
  <2>1. /\ "frame-ancestors" \in h.csp.directives => "frame-ancestors" \in g.csp.directives
        /\ g.xfo \in {h.xfo, "standard"}
    <3>1. "frame-ancestors" \in RecommendedPolicy.directives
      BY DEF RecommendedPolicy
    <3>2. WithoutDangers(h.csp).directives = h.csp.directives
      BY DEF WithoutDangers, HeaderValues, Policies
    <3> QED
      BY <3>1, <3>2, FixedFields
  <2>2. XFrameOptionsCost(h) \in Nat
    BY DEF XFrameOptionsCost
  <2>3. CASE g.xfo = "standard" \/ "frame-ancestors" \in g.csp.directives
    BY <2>2, <2>3 DEF XFrameOptionsCost
  <2>4. CASE g.xfo = h.xfo /\ "frame-ancestors" \notin g.csp.directives
    BY <2>1, <2>4 DEF XFrameOptionsCost
  <2> QED
    BY <2>1, <2>3, <2>4
<1>4. XContentTypeOptionsCost(g) <= XContentTypeOptionsCost(h)
  BY FixedFields DEF XContentTypeOptionsCost
<1>5. ReferrerPolicyCost(g) <= ReferrerPolicyCost(h)
  BY FixedFields DEF ReferrerPolicyCost
<1>6. PermissionsPolicyCost(g) <= PermissionsPolicyCost(h)
  BY FixedFields DEF PermissionsPolicyCost
<1>7. XXssProtectionCost(g) <= XXssProtectionCost(h)
  BY FixedFields DEF XXssProtectionCost
<1>8. CORSCost(g) <= CORSCost(h)
  BY FixedFields DEF CORSCost
<1>9. ServerHeaderCost(g) <= ServerHeaderCost(h)
  BY FixedFields DEF ServerHeaderCost
<1>10. XPoweredByCost(g) <= XPoweredByCost(h)
  BY FixedFields DEF XPoweredByCost
<1>11. CacheControlCost(g) <= CacheControlCost(h)
  BY FixedFields DEF CacheControlCost
<1> QED
  BY <1>1, <1>2, <1>3, <1>4, <1>5, <1>6, <1>7, <1>8, <1>9, <1>10, <1>11, CostsAreNumbers
     DEF PointsLost

LEMMA HeaderTypes == HeaderSpec => [](h \in HeaderValues)
<1>1. HeaderInit => h \in HeaderValues
  BY HeaderAssumption DEF HeaderInit
<1>2. h \in HeaderValues /\ [HeaderNext]_h => (h \in HeaderValues)'
  BY AdviceFixes, FixedTyped DEF HeaderNext, Follow
<1> QED
  BY <1>1, <1>2, PTL DEF HeaderSpec

\* AdviceNeverLowersScore: the advice of a finding changes one header, and no check then
\* takes more points than before, that of X-Frame-Options included when a policy is set.
THEOREM AdviceCostsNothing == HeaderSpec => AdviceNeverLowersScore
<1>1. ASSUME h \in HeaderValues, NEW f \in Findings, Follow(f)
      PROVE  PointsLost(h') <= PointsLost(h)
  BY <1>1, AdviceFixes, FixedIsCheaper DEF Follow
<1>2. PointsLost(h) \in Int /\ PointsLost(h') \in Int
  BY CostsAreNumbers DEF PointsLost
<1>3. (Score = Remaining(PointsLost(h)))'
  BY ScoreOfHeaders, PTL
<1>4. h \in HeaderValues /\ [HeaderNext]_h => [Score' >= Score]_h
  <2> SUFFICES ASSUME h \in HeaderValues, HeaderNext
               PROVE  Score' >= Score
    OBVIOUS
  <2>1. PointsLost(h') <= PointsLost(h)
    BY <1>1 DEF HeaderNext
  <2> QED
    BY <1>2, <1>3, <2>1, ScoreOfHeaders DEF Remaining
<1> QED
  BY <1>4, HeaderTypes, PTL DEF HeaderSpec, AdviceNeverLowersScore

-----------------------------------------------------------------------------
(* Where the advice leads *)

\* Advice that would change nothing is that for a policy, and blames it for sources which
\* stand elsewhere than in the directive of scripts.
LEMMA IdleAdvice ==
    ASSUME h \in HeaderValues, NEW f \in Findings, Advised(f) = h
    PROVE  f \in ContentSecurityPolicy /\ f = [header |-> "csp", grade |-> "weak", severity |-> Medium]
<1>1. CASE f \in StrictTransportSecurity
  <2>1. f.header = "hsts" /\ h.hsts # "year"
    BY <1>1 DEF StrictTransportSecurity, Finding, None
  <2> QED
    BY <2>1 DEF Advised, HeaderValues
<1>2. CASE f \in ContentSecurityPolicy
  <2>1. CASE h.csp.directives = {}
    <3>1. f.header = "csp" /\ f.grade = "missing"
      BY <1>2, <2>1 DEF ContentSecurityPolicy, Finding
    <3>2. h.csp = RecommendedPolicy
      BY <3>1 DEF Advised, HeaderValues
    <3> QED
      BY <2>1, <3>2 DEF RecommendedPolicy
  <2> QED
    BY <1>2, <2>1 DEF ContentSecurityPolicy, Finding, None
<1>3. CASE f \in XFrameOptions
  <2>1. f.header = "xfo" /\ h.xfo # "standard"
    BY <1>3 DEF XFrameOptions, Finding, None
  <2> QED
    BY <2>1 DEF Advised, HeaderValues
<1>4. CASE f \in XContentTypeOptions \cup ReferrerPolicy \cup PermissionsPolicy
  <2>1. \/ f.header = "xcto" /\ h.xcto # "nosniff"
        \/ f.header = "referrer" /\ h.referrer # "safe"
        \/ f.header = "permissions" /\ h.permissions # "present"
    BY <1>4 DEF XContentTypeOptions, ReferrerPolicy, PermissionsPolicy, Finding, None
  <2> QED
    BY <2>1 DEF Advised, HeaderValues
<1>5. CASE f \in XXssProtection \cup CORS \cup ServerHeader
  <2>1. \/ f.header = "xxp" /\ h.xxp # "absent"
        \/ f.header = "acao" /\ h.acao # "origin"
        \/ f.header = "server" /\ h.server # "absent"
    BY <1>5 DEF XXssProtection, CORS, ServerHeader, Finding, None
  <2> QED
    BY <2>1 DEF Advised, HeaderValues
<1>6. CASE f \in XPoweredBy \cup CacheControl
  <2>1. \/ f.header = "powered" /\ h.powered # "absent"
        \/ f.header = "cache" /\ h.cache # "prevents"
    BY <1>6 DEF XPoweredBy, CacheControl, Finding, None
  <2> QED
    BY <2>1 DEF Advised, HeaderValues
<1> QED
  BY <1>1, <1>2, <1>3, <1>4, <1>5, <1>6 DEF Findings

\* Where all advice is idle, no check but that of the policy takes points.
LEMMA GradeOfIdle ==
    ASSUME h \in HeaderValues, \A f \in Findings : Advised(f) = h
    PROVE  /\ Findings = ContentSecurityPolicy
           /\ Score = 100 - Cost(ContentSecurityPolicy)
<1> DEFINE Others == {StrictTransportSecurity, XFrameOptions, XContentTypeOptions,
                      ReferrerPolicy, PermissionsPolicy, XXssProtection, CORS,
                      ServerHeader, XPoweredBy, CacheControl}
<1>1. ASSUME NEW check \in Others, NEW f \in check PROVE f.header # "csp"
  <2>1. CASE check = StrictTransportSecurity
    BY <1>1, <2>1 DEF StrictTransportSecurity, Finding, None
  <2>2. CASE check = XFrameOptions
    BY <1>1, <2>2 DEF XFrameOptions, Finding, None
  <2>3. CASE check = XContentTypeOptions
    BY <1>1, <2>3 DEF XContentTypeOptions, Finding, None
  <2>4. CASE check = ReferrerPolicy
    BY <1>1, <2>4 DEF ReferrerPolicy, Finding, None
  <2>5. CASE check = PermissionsPolicy
    BY <1>1, <2>5 DEF PermissionsPolicy, Finding, None
  <2>6. CASE check = XXssProtection
    BY <1>1, <2>6 DEF XXssProtection, Finding, None
  <2>7. CASE check = CORS
    BY <1>1, <2>7 DEF CORS, Finding, None
  <2>8. CASE check = ServerHeader
    BY <1>1, <2>8 DEF ServerHeader, Finding, None
  <2>9. CASE check = XPoweredBy
    BY <1>1, <2>9 DEF XPoweredBy, Finding, None
  <2>10. CASE check = CacheControl
    BY <1>1, <2>10 DEF CacheControl, Finding, None
  <2> QED
    BY <2>1, <2>2, <2>3, <2>4, <2>5, <2>6, <2>7, <2>8, <2>9, <2>10
<1>2. \A f \in Findings : f.header = "csp"
  BY IdleAdvice
<1>3. ASSUME NEW check \in Others PROVE check = None
  <2>1. check \subseteq Findings
    BY DEF Findings
  <2> QED
    BY <1>1, <1>2, <2>1 DEF None
<1>4. Findings = ContentSecurityPolicy
  BY <1>3 DEF Findings, None
<1>5. \A check \in Others : Cost(check) = 0
  BY <1>3, CostOf
<1>6. Cost(ContentSecurityPolicy) \in {0, 15}
  BY CostOf, Deductions DEF ContentSecurityPolicy
<1> QED
  BY <1>4, <1>5, <1>6 DEF Score

\* AdviceLeads: the only finding that advice leaves is that of a policy which blames the
\* scripts for the sources of other directives, and it alone takes 15 points.
THEOREM WhereAdviceLeads == HeaderSpec => []AdviceLeads
<1>1. ASSUME h \in HeaderValues, \A f \in Findings : Advised(f) = h
      PROVE  \/ Findings = {} /\ Grade = "A+"
             \/ Findings = Finding("csp", "weak", Medium) /\ Blamed(h.csp) /\ Grade = "B"
  <2>1. Findings = ContentSecurityPolicy /\ Score = 100 - Cost(ContentSecurityPolicy)
    BY <1>1, GradeOfIdle
  <2>2. CASE ContentSecurityPolicy = None
    <3>1. Score = 100
      BY <2>1, <2>2, CostOf
    <3>2. Grade = "A+"
      BY <3>1 DEF Grade
    <3> QED
      BY <2>1, <2>2, <3>2 DEF None
  <2>3. CASE ContentSecurityPolicy # None
    <3>1. PICK f \in ContentSecurityPolicy : TRUE
      BY <2>3 DEF None
    <3>2. f.header = "csp" /\ f.grade = "weak" /\ Advised(f) = h
      BY <1>1, <2>1, <3>1, IdleAdvice
    <3>3. ContentSecurityPolicy = Finding("csp", "weak", Medium) /\ Dangerous(h.csp)
      BY <3>1, <3>2 DEF ContentSecurityPolicy, Finding, None
    <3>4. h.csp = WithoutDangers(h.csp) /\ h.csp \in Policies
      BY <1>1, <3>2 DEF Advised, HeaderValues
    <3>5. Blamed(h.csp)
      BY <3>3, <3>4 DEF Blamed, Dangerous, WithoutDangers, Policies
    <3>6. Score = 85
      BY <2>1, <3>3, CostOf, Deductions
    <3>7. Grade = "B"
      BY <3>6 DEF Grade
    <3> QED
      BY <2>1, <3>3, <3>5, <3>7
  <2> QED
    BY <2>2, <2>3
<1>2. h \in HeaderValues => AdviceLeads
  BY <1>1 DEF AdviceLeads
<1> QED
  BY <1>2, HeaderTypes, PTL
=============================================================================
