------------------------------ MODULE Findings ------------------------------
(***************************************************************************)
(* What becomes of the findings of a scan: VulnerabilityCorrelationEngine  *)
(* (correlation.py), RiskEngine (risk/scoring.py) and the counts and       *)
(* formats of the report.                                                  *)
(*                                                                         *)
(* A raw finding is a record [category, title, url, severity, confidence,  *)
(* cvss, verified].  Severities are ranks, info = 0 to critical = 4;       *)
(* confidences and boosts are in thousandths, scores and factors in        *)
(* tenths; a cvss of 0 stands for None, as both are false to :154.         *)
(***************************************************************************)
EXTENDS Integers, Sequences, FiniteSets, FiniteSetsExt

CONSTANT
    Keywords    \* Keywords[url]: the keys of ASSET_IMPORTANCE found in the URL

Info == 0
Low == 1
Medium == 2
High == 3
Critical == 4
Severities == Info .. Critical

\* The n-th smallest of a finite set of numbers, and what a sequence holds at the places S,
\* in their order.
Nth(S, n) == CHOOSE i \in S : Cardinality({j \in S : j <= i}) = n

Selected(s, S) == [n \in 1 .. Cardinality(S) |-> s[Nth(S, n)]]

-----------------------------------------------------------------------------
(* Correlation *)

KeyWithoutUrl(f) == <<f.category, f.title>>

Key(f) == <<f.category, f.title, f.url>>

\* The first finding of a key is kept, the others are its duplicates and not reported.
IsDuplicate(fs, i) == \E j \in 1 .. i - 1 : Key(fs[j]) = Key(fs[i])

Firsts(fs) == {i \in DOMAIN fs : ~ IsDuplicate(fs, i)}

\* The kept findings in their order, with the id they got from their place.
Deduplicate(fs) ==
    Selected([i \in DOMAIN fs |-> [id |-> i, raw |-> fs[i]]], Firsts(fs))

Categories(kept) == {kept[n].raw.category : n \in DOMAIN kept}

\* CORRELATION_RULES: the second category of a pair gets half of the boost.
CorrelationRules ==
    <<<<"xss", "security_header", 150>>, <<"sqli", "info_disclosure", 100>>,
      <<"csrf", "cookie", 100>>, <<"ssrf", "info_disclosure", 100>>,
      <<"cors", "cookie", 150>>, <<"xss", "cookie", 100>>, <<"ssti", "info_disclosure", 150>>>>

BoostOf(rule, category, present) ==
    IF rule[1] = category /\ rule[2] \in present THEN rule[3]
    ELSE IF rule[2] = category /\ rule[1] \in present THEN rule[3] \div 2
    ELSE 0

Boost(category, present) ==
    LET By(k) == BoostOf(CorrelationRules[k], category, present)
    IN By(1) + By(2) + By(3) + By(4) + By(5) + By(6) + By(7)

\* The ids of the findings a finding is correlated with.
Related(kept, category) ==
    {kept[n].id : n \in {m \in DOMAIN kept :
        \E k \in DOMAIN CorrelationRules :
            CorrelationRules[k][1] = category /\ CorrelationRules[k][2] = kept[m].raw.category}}

\* CHAIN_PATTERNS, in their order.
Chains ==
    <<[name |-> "session_hijacking_chain", required |-> {"xss", "cookie"}, severity |-> Critical],
      [name |-> "data_exfiltration_chain", required |-> {"cors", "cookie"}, severity |-> High],
      [name |-> "server_compromise_chain", required |-> {"ssti", "path_traversal"}, severity |-> Critical],
      [name |-> "authentication_bypass_chain", required |-> {"sqli", "csrf"}, severity |-> Critical]>>

\* The chains a finding of a category is part of, when these categories are present.
ChainsOf(category, present) ==
    {c \in DOMAIN Chains : category \in Chains[c].required /\ Chains[c].required \subseteq present}

LastChain(chains) == IF chains = {} THEN "none" ELSE Chains[Max(chains)].name

\* Each chain raises the severity to its own if that is higher.
Escalated(severity, chains) == Max({severity} \cup {Chains[c].severity : c \in chains})

Least(a, b) == IF a < b THEN a ELSE b

\* The cap of every confidence.
MostSure == 990

Adjusted(confidence, boost, chains) == Least(MostSure, confidence + boost + 100 * Cardinality(chains))

Escalate(kept, present, n) ==
    LET f      == kept[n].raw
        chains == ChainsOf(f.category, present)
    IN [id |-> kept[n].id, category |-> f.category, title |-> f.title, url |-> f.url,
        cvss |-> f.cvss, chain |-> LastChain(chains),
        related |-> Related(kept, f.category),
        severity |-> Escalated(f.severity, chains),
        confidence |-> Adjusted(f.confidence, Boost(f.category, present), chains)]

\* correlate: a CorrelatedFinding has no field for the verification of the raw finding.
Correlate(fs) ==
    LET kept == Deduplicate(fs)
    IN [n \in DOMAIN kept |-> Escalate(kept, Categories(kept), n)]

-----------------------------------------------------------------------------
(* Risk *)

BaseScore(category) ==
    CASE category \in {"sqli", "ssti"} -> 98
      [] category \in {"ssrf", "path_traversal", "debug"} -> 75
      [] category \in {"cors", "encryption"} -> 74
      [] category \in {"xss", "open_redirect"} -> 61
      [] category \in {"info_disclosure", "rate_limiting", "sensitive_path"} -> 53
      [] category \in {"csrf", "cookie"} -> 43
      [] category = "security_header" -> 31
      [] OTHER -> 0

\* TECH_MODIFIERS, by category.
TechModifier(technologies, category) ==
    LET If(technology, modifier) == IF technology \in technologies THEN modifier ELSE 0
    IN CASE category = "csrf" -> If("Django", -5)
         [] category = "xss" -> If("Django", -3) + If("React", -3) + If("Angular", -3) + If("WordPress", 2)
         [] category = "sqli" -> If("WordPress", 2) + If("PHP", 1)
         [] category = "path_traversal" -> If("PHP", 1)
         [] category = "ssrf" -> If("Express.js", 1)
         [] OTHER -> 0

AssetImportance ==
    <<<<"login", 13>>, <<"admin", 14>>, <<"api", 12>>, <<"auth", 13>>, <<"payment", 15>>,
      <<"checkout", 15>>, <<"account", 13>>, <<"settings", 12>>, <<"dashboard", 11>>,
      <<"register", 12>>>>

\* The first key in the table's order that the URL contains, not the greatest.
AssetFactor(url) ==
    LET hits == {i \in DOMAIN AssetImportance : AssetImportance[i][1] \in Keywords[url]}
    IN IF hits = {} THEN 10 ELSE AssetImportance[Min(hits)][2]

ExploitFactor(verified, confidence) ==
    IF verified THEN 12 ELSE IF confidence >= 800 THEN 11 ELSE IF confidence < 500 THEN 8 ELSE 10

\* score_all asks a finding for a key that only raw findings have.
IsVerified(f) == "verified" \in DOMAIN f /\ f.verified

\* The factors multiply to thousandths of a tenth; a tie, which the float's error decides,
\* is rounded up.  score_all leaves is_internet_facing at its default, a factor of 1.1.
FinalScore(f, technologies) ==
    LET base       == IF f.cvss # 0 THEN f.cvss ELSE BaseScore(f.category)
        adjusted   == base + TechModifier(technologies, f.category)
        contextual == adjusted * AssetFactor(f.url) * ExploitFactor(IsVerified(f), f.confidence) * 11
        rounded    == (contextual + 500) \div 1000
    IN IF rounded < 0 THEN 0 ELSE Least(100, rounded)

RiskLevel(score) ==
    IF score >= 90 THEN Critical
    ELSE IF score >= 70 THEN High
    ELSE IF score >= 40 THEN Medium
    ELSE IF score >= 1 THEN Low
    ELSE Info

ScoreAll(fs, technologies) ==
    [n \in DOMAIN fs |-> LET score == FinalScore(fs[n], technologies)
                         IN [finding |-> fs[n].id, score |-> score, level |-> RiskLevel(score)]]

-----------------------------------------------------------------------------
(* The report *)

SeverityCounts(fs) == [s \in Severities |-> Cardinality({n \in DOMAIN fs : fs[n].severity = s})]

Severe(counts) == counts[Critical] + counts[High]
=============================================================================
