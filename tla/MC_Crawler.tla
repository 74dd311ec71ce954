----------------------------- MODULE MC_Crawler -----------------------------
(***************************************************************************)
(* Sites for the model checker: every way in which three pages and a home  *)
(* page that also leads to another host can link, with and without a       *)
(* disallowed page, and with a budget they exceed or not.                  *)
(***************************************************************************)
EXTENDS Crawler

CONSTANTS home, a, b, c, other

SmallLinks ==
    {[p \in Pages |->
        CASE p = home -> {other} \cup h [] p = a -> x [] p = b -> y [] p = c -> z [] OTHER -> {}] :
        h \in SUBSET {a, b, c}, x \in SUBSET {b, c, home}, y \in SUBSET {a, c, other},
        z \in SUBSET {a, b}}

SmallSites == [links : SmallLinks, disallowed : {{}, {a}}, maxPages : {2, 9}]
=============================================================================
