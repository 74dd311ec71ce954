------------------------- MODULE ActiveProbesProofs -------------------------
(***************************************************************************)
(* Every result of run_all is something the site does, for every site, all *)
(* tables of payloads and any number of failing or slow answers; and if    *)
(* there were none of these, the probes that run at the same time find     *)
(* what they would have found one after the other; every request brings    *)
(* run_all closer to its end.                                              *)
(***************************************************************************)
EXTENDS ActiveProbes, FiniteSetTheorems, TLAPS

-----------------------------------------------------------------------------
(* Sequences and their elements *)

IsSeq(s) == s \in Seq(Elements(s))

LEMMA EmptyHasNoElements == IsSeq(<<>>) /\ Elements(<<>>) = {}
BY DEF IsSeq, Elements

LEMMA ElementsAppend ==
    ASSUME NEW s, IsSeq(s), NEW e
    PROVE  IsSeq(Append(s, e)) /\ Elements(Append(s, e)) = Elements(s) \cup {e}
<1> DEFINE S == Elements(s) \cup {e}
<1>1. s \in Seq(S)
  BY DEF IsSeq
<1>2. /\ Append(s, e) \in Seq(S) /\ Len(Append(s, e)) = Len(s) + 1
      /\ \A i \in 1 .. Len(s) : Append(s, e)[i] = s[i]
      /\ Append(s, e)[Len(s) + 1] = e
      /\ Len(s) \in Nat /\ DOMAIN s = 1 .. Len(s) /\ DOMAIN Append(s, e) = 1 .. Len(s) + 1
  BY <1>1
<1>3. Elements(Append(s, e)) = S
  BY <1>2 DEF Elements
<1> QED
  BY <1>2, <1>3 DEF IsSeq

LEMMA ElementsConcat ==
    ASSUME NEW s, IsSeq(s), NEW t, IsSeq(t)
    PROVE  IsSeq(s \o t) /\ Elements(s \o t) = Elements(s) \cup Elements(t)
<1> DEFINE S == Elements(s) \cup Elements(t)
<1>1. s \in Seq(S) /\ t \in Seq(S)
  BY DEF IsSeq
<1>2. /\ s \o t \in Seq(S) /\ DOMAIN (s \o t) = 1 .. Len(s) + Len(t)
      /\ \A i \in 1 .. Len(s) : (s \o t)[i] = s[i]
      /\ \A i \in 1 .. Len(t) : (s \o t)[Len(s) + i] = t[i]
      /\ Len(s) \in Nat /\ DOMAIN s = 1 .. Len(s)
      /\ Len(t) \in Nat /\ DOMAIN t = 1 .. Len(t)
  BY <1>1
<1>3. \A i \in 1 .. Len(s) + Len(t) : i \in 1 .. Len(s) \/ i - Len(s) \in 1 .. Len(t)
  BY <1>2
<1>4. Elements(s \o t) \subseteq S
  <2> SUFFICES ASSUME NEW i \in 1 .. Len(s) + Len(t)
               PROVE  (s \o t)[i] \in S
    BY <1>2 DEF Elements
  <2>1. CASE i \in 1 .. Len(s)
    BY <1>2, <2>1 DEF Elements
  <2>2. CASE i - Len(s) \in 1 .. Len(t)
    <3>1. (s \o t)[Len(s) + (i - Len(s))] = t[i - Len(s)] /\ Len(s) + (i - Len(s)) = i
      BY <1>2, <2>2
    <3> QED
      BY <1>2, <2>2, <3>1 DEF Elements
  <2> QED
    BY <1>3, <2>1, <2>2
<1>5. S \subseteq Elements(s \o t)
  <2>1. \A i \in 1 .. Len(s) : i \in DOMAIN (s \o t)
    BY <1>2
  <2>2. \A i \in 1 .. Len(t) : Len(s) + i \in DOMAIN (s \o t)
    BY <1>2
  <2> QED
    BY <1>2, <2>1, <2>2 DEF Elements
<1> QED
  BY <1>2, <1>4, <1>5 DEF IsSeq

\* As many elements are not greater than an element as its place says, and Nth finds it there.
LEMMA NthIsPlace ==
    ASSUME NEW S \in SUBSET Nat, IsFiniteSet(S)
    PROVE  \A i \in S : LET n == Cardinality({j \in S : j <= i})
                        IN n \in 1 .. Cardinality(S) /\ Nth(S, n) = i
<1> DEFINE upTo(i) == {j \in S : j <= i}
<1>1. Cardinality(S) \in Nat
  BY FS_CardinalityType
<1>2. ASSUME NEW i \in S
      PROVE  /\ IsFiniteSet(upTo(i)) /\ Cardinality(upTo(i)) \in 1 .. Cardinality(S)
  <2>1. upTo(i) \in SUBSET S /\ i \in upTo(i)
    OBVIOUS
  <2>2. IsFiniteSet(upTo(i)) /\ Cardinality(upTo(i)) <= Cardinality(S)
    BY <2>1, FS_Subset
  <2>3. Cardinality(upTo(i)) \in Nat /\ Cardinality(upTo(i)) # 0
    BY <2>1, <2>2, FS_CardinalityType, FS_EmptySet
  <2> QED
    BY <1>1, <2>2, <2>3
<1>3. ASSUME NEW i \in S, NEW k \in S, i < k
      PROVE  Cardinality(upTo(i)) # Cardinality(upTo(k))
  <2>1. \A j \in S : j \in Nat
    OBVIOUS
  <2>2. upTo(i) \in SUBSET upTo(k) /\ k \in upTo(k) /\ k \notin upTo(i)
    <3>1. \A j \in upTo(i) : j \in upTo(k)
      BY <1>3, <2>1
    <3>2. k <= k /\ ~ (k <= i)
      BY <1>3, <2>1
    <3> QED
      BY <3>1, <3>2
  <2> HIDE DEF upTo
  <2> QED
    BY <1>2, <2>2, FS_Subset
<1>4. \A i, k \in S : Cardinality(upTo(i)) = Cardinality(upTo(k)) => i = k
  <2> SUFFICES ASSUME NEW i \in S, NEW k \in S, i # k
               PROVE  Cardinality(upTo(i)) # Cardinality(upTo(k))
    OBVIOUS
  <2>1. i < k \/ k < i
    OBVIOUS
  <2> HIDE DEF upTo
  <2> QED
    BY <1>3, <2>1
<1>5. \A n : Nth(S, n) = CHOOSE i \in S : Cardinality(upTo(i)) = n
  BY DEF Nth
<1> HIDE DEF upTo
<1>6. \A i \in S : Cardinality(upTo(i)) \in 1 .. Cardinality(S) /\ Nth(S, Cardinality(upTo(i))) = i
  BY <1>2, <1>4, <1>5
<1> QED
  BY <1>6 DEF upTo

\* So does every number up to their cardinality name an element.
LEMMA NthIsElement ==
    ASSUME NEW S \in SUBSET Nat, IsFiniteSet(S), NEW n \in 1 .. Cardinality(S)
    PROVE  \E i \in S : Cardinality({j \in S : j <= i}) = n /\ Nth(S, n) = i
<1> DEFINE place == [i \in S |-> Cardinality({j \in S : j <= i})]
<1>1. Cardinality(S) \in Nat
  BY FS_CardinalityType
<1>2. /\ place \in [S -> 1 .. Cardinality(S)]
      /\ \A i \in S : Nth(S, place[i]) = i
  BY NthIsPlace
<1> HIDE DEF place
<1>3. place \in Injection(S, 1 .. Cardinality(S))
  BY <1>2 DEF Injection, IsInjective
<1>4. IsFiniteSet(1 .. Cardinality(S)) /\ Cardinality(1 .. Cardinality(S)) = Cardinality(S)
  BY <1>1, FS_Interval
<1>5. place \in Surjection(S, 1 .. Cardinality(S))
  BY <1>3, <1>4, FS_Injection
<1>6. PICK i \in S : place[i] = n
  BY <1>5 DEF Surjection
<1>7. Cardinality({j \in S : j <= i}) = n
  BY <1>6 DEF place
<1> QED
  BY <1>2, <1>6, <1>7

\* A selection is a sequence of what was selected.
LEMMA SelectedIsSeq ==
    ASSUME NEW N \in Nat, NEW S \in SUBSET (1 .. N), NEW s
    PROVE  /\ S \in SUBSET Nat /\ IsFiniteSet(S) /\ Cardinality(S) \in Nat
           /\ IsSeq(Selected(s, S)) /\ Len(Selected(s, S)) = Cardinality(S)
           /\ \A n \in 1 .. Cardinality(S) : Nth(S, n) \in S /\ Selected(s, S)[n] = s[Nth(S, n)]
           /\ \A T : (\A i \in S : s[i] \in T) => Elements(Selected(s, S)) \subseteq T
<1>1. S \in SUBSET Nat
  OBVIOUS
<1>2. IsFiniteSet(S) /\ Cardinality(S) \in Nat
  <2>1. IsFiniteSet(1 .. N)
    BY FS_Interval
  <2> QED
    BY <2>1, FS_Subset, FS_CardinalityType
<1>3. \A n \in 1 .. Cardinality(S) : Nth(S, n) \in S
  BY <1>1, <1>2, NthIsElement
<1>4. Selected(s, S) = [n \in 1 .. Cardinality(S) |-> s[Nth(S, n)]]
  BY DEF Selected
<1>5. \A n \in 1 .. Cardinality(S) : Selected(s, S)[n] = s[Nth(S, n)]
  BY <1>4
<1>6. IsSeq(Selected(s, S)) /\ Len(Selected(s, S)) = Cardinality(S)
  BY <1>2, <1>4 DEF IsSeq, Elements
<1>7. \A T : (\A i \in S : s[i] \in T) => Elements(Selected(s, S)) \subseteq T
  <2> SUFFICES ASSUME NEW T, \A i \in S : s[i] \in T
               PROVE  Elements(Selected(s, S)) \subseteq T
    OBVIOUS
  <2>1. DOMAIN Selected(s, S) = 1 .. Cardinality(S)
    BY <1>4
  <2>2. \A n \in 1 .. Cardinality(S) : Selected(s, S)[n] \in T
    BY <1>3, <1>5
  <2> QED
    BY <2>1, <2>2 DEF Elements
<1> QED
  BY <1>1, <1>2, <1>3, <1>5, <1>6, <1>7

\* What is selected at one more place, after the others, comes last.
LEMMA SelectedGrows ==
    ASSUME NEW N \in Nat, NEW S \in SUBSET (1 .. N), NEW m \in 1 .. N, \A i \in S : i < m, NEW s
    PROVE  Selected(s, S \cup {m}) = Append(Selected(s, S), s[m])
<1> DEFINE T == S \cup {m}
           c == Cardinality(S)
<1>1. /\ S \in SUBSET Nat /\ IsFiniteSet(S) /\ c \in Nat
      /\ IsSeq(Selected(s, S)) /\ Len(Selected(s, S)) = c
      /\ \A n \in 1 .. c : Selected(s, S)[n] = s[Nth(S, n)]
  BY SelectedIsSeq
<1>2. T \in SUBSET Nat /\ IsFiniteSet(T) /\ Cardinality(T) = c + 1
  <2>1. m \notin S /\ m \in Nat
    OBVIOUS
  <2>2. IsFiniteSet(S \cup {m}) /\ Cardinality(S \cup {m}) = c + 1
    <3> HIDE DEF T
    <3> QED
      BY <1>1, <2>1, FS_AddElement
  <2> QED
    BY <1>1, <2>1, <2>2
<1>3. ASSUME NEW n \in 1 .. c
      PROVE  Nth(T, n) = Nth(S, n)
  <2>1. PICK i \in S : Cardinality({j \in S : j <= i}) = n /\ Nth(S, n) = i
    BY <1>1, NthIsElement
  <2>2. {j \in T : j <= i} = {j \in S : j <= i}
    <3>1. i \in Nat /\ m \in Nat /\ ~ (m <= i)
      OBVIOUS
    <3> QED
      BY <3>1
  <2>3. i \in T /\ Cardinality({j \in T : j <= i}) = n
    BY <2>1, <2>2
  <2> HIDE DEF T
  <2> QED
    BY <1>2, <2>1, <2>3, NthIsPlace
<1>4. Nth(T, c + 1) = m
  <2>1. \A j \in T : j <= m
    OBVIOUS
  <2>2. {j \in T : j <= m} = T /\ m \in T
    BY <2>1
  <2> HIDE DEF T
  <2> QED
    BY <1>2, <2>2, NthIsPlace
<1>5. Selected(s, T) = [n \in 1 .. c + 1 |-> s[Nth(T, n)]]
  BY <1>2 DEF Selected
<1>6. PICK old : old = Selected(s, S)
  OBVIOUS
<1>7. /\ Append(old, s[m]) \in Seq(Elements(old) \cup {s[m]})
      /\ Len(Append(old, s[m])) = c + 1
      /\ \A n \in 1 .. c : Append(old, s[m])[n] = old[n]
      /\ Append(old, s[m])[c + 1] = s[m]
  <2>1. old \in Seq(Elements(old) \cup {s[m]}) /\ Len(old) = c
    BY <1>1, <1>6 DEF IsSeq
  <2> HIDE DEF c
  <2> QED
    BY <2>1
<1>8. \A n \in 1 .. c + 1 : Append(old, s[m])[n] = s[Nth(T, n)]
  <2> HIDE DEF c, T
  <2>1. \A n \in 1 .. c + 1 : n \in 1 .. c \/ n = c + 1
    BY <1>1
  <2> QED
    BY <1>1, <1>3, <1>4, <1>6, <1>7, <2>1
<1>9. Append(old, s[m]) = [n \in 1 .. c + 1 |-> Append(old, s[m])[n]]
  BY <1>1, <1>7
<1> HIDE DEF T, c
<1>10. Append(old, s[m]) = [n \in 1 .. c + 1 |-> s[Nth(T, n)]]
  BY <1>8, <1>9
<1> QED
  BY <1>5, <1>6, <1>10 DEF T

-----------------------------------------------------------------------------
(* The invariant *)

\* Real, for results that do not depend on the status codes, which are still collected.
Lasting(f) == f.probe \in {"xss", "sqli_error", "sqli_boolean", "sqli_time", "ssrf", "path_traversal",
                           "ssti", "open_redirect", "csrf_missing", "cors_wildcard_creds",
                           "cors_reflection"} /\ Real(f)

CursorShape ==
    cursor = [p \in Elements(Probes) |->
                [param |-> cursor[p].param, stage |-> cursor[p].stage, k |-> cursor[p].k]]

Counters == site \in Sites /\ left \in Nat /\ slows \in Nat /\ baseline \in {0, 2}

\* What _boolean_based keeps is the answer to the tautology it has asked, and if that was a
\* refusal, the limiter is in force.
PairInv ==
    cursor["sqli"].stage = "false" =>
        \E reply \in {"page", "refusal"} :
            /\ tautology = Answer(reply, Param("sqli"), cursor["sqli"].k, "true")
            /\ reply = "refusal" => Limited

GatheredInv ==
    /\ DOMAIN found = Elements(Probes)
    /\ \A p \in Elements(Probes) : IsSeq(found[p]) /\ \A f \in Elements(found[p]) : Lasting(f)

\* The status codes are those of answers that were not 429, and there are none before the
\* rate limit probe.
StatusInv ==
    /\ phase \in {"params", "cors", "rate", "done"}
    /\ phase \in {"params", "cors"} => statuses = <<>>
    /\ phase = "rate" => IsSeq(statuses) /\ Elements(statuses) \subseteq {200, site.code} \ {429}

ResultsInv ==
    /\ IsSeq(results)
    /\ phase # "done" => \A f \in Elements(results) : Lasting(f)
    /\ phase = "done" => \A f \in Elements(results) : Real(f)

ProbesInv == CursorShape /\ Counters /\ PairInv /\ GatheredInv /\ StatusInv /\ ResultsInv

LEMMA ProbesElements ==
    /\ Elements(Probes) = {"xss", "sqli", "ssrf", "path_traversal", "ssti", "open_redirect"}
    /\ DOMAIN Probes = 1 .. 6
BY DEF Elements, Probes

LEMMA InitInv == ProbesInit => ProbesInv
<1> SUFFICES ASSUME ProbesInit
             PROVE  ProbesInv
  OBVIOUS
<1>1. CursorShape
  BY DEF ProbesInit, CursorShape, Start
<1>2. Counters
  BY ProbesAssumption DEF ProbesInit, Counters
<1>3. PairInv
  BY ProbesElements DEF ProbesInit, PairInv, Start
<1>4. GatheredInv
  BY EmptyHasNoElements DEF ProbesInit, GatheredInv
<1>5. StatusInv /\ ResultsInv
  BY EmptyHasNoElements DEF ProbesInit, StatusInv, ResultsInv
<1> QED
  BY <1>1, <1>2, <1>3, <1>4, <1>5 DEF ProbesInv

-----------------------------------------------------------------------------
(* What a request leaves true *)

LEMMA RequestKeeps ==
    ASSUME Counters, site' = site, NEW reply, Request(reply)
    PROVE  /\ left' \in Nat
           /\ Limited => Limited'
           /\ reply = "page" => ~ Limited
           /\ reply = "refusal" => Limited
           /\ reply \in Replies
<1>1. left' \in {left, left - 1} /\ left' >= 0 /\ (left = 0 => left' = 0)
  BY DEF Request, Counters
<1> QED
  BY <1>1 DEF Request, Limited, Counters, Replies

\* Real for one kind of result at a time.
LEMMA RealMeans ==
    ASSUME NEW f
    PROVE  /\ f.probe = "sqli_boolean" =>
                (Real(f) <=> Rows(f) # Always(f) \/ (Limited /\ site.code = 200))
           /\ f.probe = "sqli_time" =>
                (Real(f) <=> <<"sqli_time", f.at, f.payload, "sleeps">> \in site.effects \/ slows > 0)
           /\ f.probe = "xss" => (Real(f) <=> <<"xss", f.at, f.payload, "reflected">> \in site.effects)
           /\ f.probe = "sqli_error" =>
                (Real(f) <=> <<"sqli_error", f.at, f.payload, "error">> \in site.effects)
           /\ f.probe = "ssrf" => (Real(f) <=> <<"ssrf", f.at, f.payload, "connection">> \in site.effects)
           /\ f.probe = "path_traversal" =>
                (Real(f) <=> <<"path_traversal", f.at, f.payload, "content">> \in site.effects)
           /\ f.probe = "ssti" =>
                (Real(f) <=> /\ <<"ssti", f.at, f.payload, "evaluated">> \in site.effects
                             /\ <<"ssti", f.at, f.payload, "echoed">> \notin site.effects)
           /\ f.probe = "open_redirect" =>
                (Real(f) <=> <<"open_redirect", f.at, f.payload, "location">> \in site.effects)
BY DEF Real

LEMMA RealLasts ==
    ASSUME site' = site, Limited => Limited', slows \in Nat, slows' \in Nat, slows' >= slows,
           NEW f, Lasting(f)
    PROVE  Lasting(f)'
<1>1. CASE f.probe = "sqli_boolean"
  BY <1>1 DEF Lasting, Real, Rows, Always
<1>2. CASE f.probe = "sqli_time"
  BY <1>2 DEF Lasting, Real
<1>3. CASE f.probe \in {"xss", "sqli_error", "ssrf", "path_traversal"}
  BY <1>3 DEF Lasting, Real
<1>4. CASE f.probe \in {"ssti", "open_redirect"}
  BY <1>4 DEF Lasting, Real
<1>5. CASE f.probe \in {"csrf_missing", "cors_wildcard_creds", "cors_reflection"}
  BY <1>5 DEF Lasting, Real
<1> QED
  BY <1>1, <1>2, <1>3, <1>4, <1>5 DEF Lasting

LEMMA LastingIsReal == ASSUME NEW f, Lasting(f) PROVE Real(f)
BY DEF Lasting

\* A step of the gather: one request, and at most one more result.
Asks(p) ==
    /\ site' = site /\ phase = "params" /\ phase' = phase
    /\ results' = results /\ statuses' = statuses
    /\ left' \in Nat /\ slows' \in Nat /\ slows' >= slows /\ (Limited => Limited')
    /\ \/ found' = found
       \/ \E f : found' = [found EXCEPT ![p] = Append(@, f)] /\ Lasting(f)'

LEMMA AskingKeeps ==
    ASSUME ProbesInv, NEW p \in Elements(Probes), Asks(p)
    PROVE  GatheredInv' /\ StatusInv' /\ ResultsInv'
<1>1. \A f : Lasting(f) => Lasting(f)'
  BY RealLasts DEF ProbesInv, Counters, Asks
<1>2. GatheredInv'
  <2>1. CASE found' = found
    BY <1>1, <2>1 DEF ProbesInv, GatheredInv
  <2>2. ASSUME NEW f, found' = [found EXCEPT ![p] = Append(@, f)], Lasting(f)'
        PROVE  GatheredInv'
    <3>1. /\ DOMAIN found' = Elements(Probes)
          /\ found'[p] = Append(found[p], f)
          /\ \A q \in Elements(Probes) : q # p => found'[q] = found[q]
      BY <2>2 DEF ProbesInv, GatheredInv
    <3>2. IsSeq(found'[p]) /\ Elements(found'[p]) = Elements(found[p]) \cup {f}
      BY <3>1, ElementsAppend DEF ProbesInv, GatheredInv
    <3>3. \A g \in Elements(found'[p]) : Lasting(g)'
      BY <1>1, <2>2, <3>2 DEF ProbesInv, GatheredInv
    <3>4. ASSUME NEW q \in Elements(Probes), q # p
          PROVE  IsSeq(found'[q]) /\ \A g \in Elements(found'[q]) : Lasting(g)'
      BY <1>1, <3>1, <3>4 DEF ProbesInv, GatheredInv
    <3> QED
      BY <3>1, <3>2, <3>3, <3>4 DEF GatheredInv
  <2> QED
    BY <2>1, <2>2 DEF Asks
<1>3. StatusInv' /\ ResultsInv'
  BY <1>1 DEF ProbesInv, StatusInv, ResultsInv, Asks
<1> QED
  BY <1>2, <1>3

-----------------------------------------------------------------------------
(* The five probes that share a loop *)

LEMMA PairKept ==
    ASSUME PairInv, site' = site, tautology' = tautology, Limited => Limited',
           cursor'["sqli"] = cursor["sqli"]
    PROVE  PairInv'
BY DEF PairInv, Param, Answer, Shows

LEMMA CursorMoves ==
    ASSUME CursorShape, NEW p \in Elements(Probes)
    PROVE  /\ NextParam(p) \/ LastParam(p) \/ Payload(p) =>
                CursorShape' /\ \A q \in Elements(Probes) : q # p => cursor'[q] = cursor[q]
           /\ NextParam(p) => cursor'[p].stage = IF p = "sqli" THEN "error" ELSE "payload"
           /\ Payload(p) => cursor'[p].stage = cursor[p].stage
           /\ \A stage : Stage(p, stage) => CursorShape' /\ cursor'[p].stage = stage
<1> USE DEF CursorShape
<1>1. NextParam(p) \/ LastParam(p) =>
        CursorShape' /\ \A q \in Elements(Probes) : q # p => cursor'[q] = cursor[q]
  BY DEF NextParam, LastParam, Start
<1>2. Payload(p) =>
        CursorShape' /\ \A q \in Elements(Probes) : q # p => cursor'[q] = cursor[q]
  BY DEF Payload
<1>3. NextParam(p) => cursor'[p].stage = IF p = "sqli" THEN "error" ELSE "payload"
  BY DEF NextParam, Start
<1>4. Payload(p) => cursor'[p].stage = cursor[p].stage
  BY DEF Payload
<1>5. \A stage : Stage(p, stage) => CursorShape' /\ cursor'[p].stage = stage
  BY DEF Stage
<1> QED
  BY <1>1, <1>2, <1>3, <1>4, <1>5

Tries(p) ==
    \E reply :
        /\ Request(reply)
        /\ phase = "params"
        /\ NextParam(p) \/ LastParam(p) \/ Payload(p)
        /\ \/ found' = found
           \/ Report(p, p, cursor[p].k) /\ Real(Result(p, Param(p), cursor[p].k))
        /\ UNCHANGED <<site, phase, tautology, baseline, slows, origin, statuses, results>>

LEMMA TriesKeep ==
    ASSUME ProbesInv, NEW p \in Elements(Probes) \ {"sqli"}, Tries(p)
    PROVE  ProbesInv'
<1>1. PICK reply : /\ Request(reply)
                   /\ phase = "params"
                   /\ NextParam(p) \/ LastParam(p) \/ Payload(p)
                   /\ \/ found' = found
                      \/ Report(p, p, cursor[p].k) /\ Real(Result(p, Param(p), cursor[p].k))
                   /\ UNCHANGED <<site, phase, tautology, baseline, slows, origin, statuses, results>>
  BY DEF Tries
<1>2. left' \in Nat /\ (Limited => Limited') /\ slows' \in Nat /\ slows' >= slows
  BY <1>1, RequestKeeps DEF ProbesInv, Counters
<1>3. CursorShape' /\ cursor'["sqli"] = cursor["sqli"]
  BY <1>1, CursorMoves, ProbesElements DEF ProbesInv
<1>4. Counters' /\ PairInv'
  BY <1>1, <1>2, <1>3, PairKept DEF ProbesInv, Counters
<1>5. PICK f : f = Result(p, Param(p), cursor[p].k)
  OBVIOUS
<1>6. Real(f) => Lasting(f)
  BY <1>5, ProbesElements DEF Lasting, Result
<1>7. Asks(p)
  BY <1>1, <1>2, <1>5, <1>6, RealLasts DEF Asks, Report, ProbesInv, Counters
<1> QED
  BY <1>3, <1>4, <1>7, AskingKeeps DEF ProbesInv

LEMMA TryStep ==
    /\ XSSReflectionProbe => Tries("xss")
    /\ SSRFProbe => Tries("ssrf")
    /\ PathTraversalProbe => Tries("path_traversal")
    /\ TemplateInjectionProbe => Tries("ssti")
    /\ OpenRedirectProbe => Tries("open_redirect")
<1>1. /\ \A reply, q, k : Reflected(reply, q, k) => Real(Result("xss", q, k))
      /\ \A reply, q, k : Connects(reply, q, k) => Real(Result("ssrf", q, k))
      /\ \A reply, q, k : Discloses(reply, q, k) => Real(Result("path_traversal", q, k))
      /\ \A reply, q, k : Evaluated(reply, q, k) => Real(Result("ssti", q, k))
      /\ \A reply, q, k : LeadsAway(reply, q, k) => Real(Result("open_redirect", q, k))
  BY RealMeans
     DEF Reflected, Connects, Discloses, Evaluated, LeadsAway, Shows, Result
<1>2. XSSReflectionProbe => Tries("xss")
  BY <1>1 DEF XSSReflectionProbe, Try, Tries
<1>3. SSRFProbe => Tries("ssrf")
  BY <1>1 DEF SSRFProbe, Try, Tries
<1>4. PathTraversalProbe => Tries("path_traversal")
  BY <1>1 DEF PathTraversalProbe, Try, Tries
<1>5. TemplateInjectionProbe => Tries("ssti")
  BY <1>1 DEF TemplateInjectionProbe, Try, Tries
<1>6. OpenRedirectProbe => Tries("open_redirect")
  BY <1>1 DEF OpenRedirectProbe, Try, Tries
<1> QED
  BY <1>2, <1>3, <1>4, <1>5, <1>6

-----------------------------------------------------------------------------
(* SQLInjectionProbe *)

\* A stage other than the second half of a pair has no answer to compare with.
LEMMA NoPairKept ==
    ASSUME cursor'["sqli"].stage # "false"
    PROVE  PairInv'
BY DEF PairInv

LEMMA NextPairMoves ==
    ASSUME CursorShape, NEW k, NextPair(k)
    PROVE  CursorShape' /\ cursor'["sqli"].stage # "false"
<1>1. CASE k < Payloads["sqli_boolean"]
  BY <1>1, ProbesElements DEF NextPair, CursorShape
<1>2. CASE ~ (k < Payloads["sqli_boolean"])
  BY <1>2, ProbesElements, CursorMoves DEF NextPair
<1> QED
  BY <1>1, <1>2

LEMMA ErrorStep == ASSUME ProbesInv, ErrorBased PROVE ProbesInv'
<1> USE ProbesElements
<1> DEFINE k == cursor["sqli"].k
<1>1. PICK reply : /\ Request(reply)
                   /\ \/ /\ SqlError(reply, Param("sqli"), k)
                         /\ Report("sqli", "sqli_error", k)
                         /\ NextParam("sqli")
                      \/ /\ found' = found
                         /\ Payload("sqli") \/ Stage("sqli", "true")
  BY DEF ErrorBased
<1>2. /\ phase = "params" /\ cursor["sqli"].stage = "error"
      /\ UNCHANGED <<tautology, baseline, slows, site, phase, origin, statuses, results>>
  BY DEF ErrorBased, SQLAt, SQLUnchanged
<1>3. left' \in Nat /\ (Limited => Limited') /\ slows' \in Nat /\ slows' >= slows
  BY <1>1, <1>2, RequestKeeps DEF ProbesInv, Counters
<1>4. CursorShape' /\ cursor'["sqli"].stage # "false"
  BY <1>1, <1>2, CursorMoves DEF ProbesInv
<1>5. PICK f : f = Result("sqli_error", Param("sqli"), k)
  OBVIOUS
<1>6. SqlError(reply, Param("sqli"), k) => Lasting(f)
  BY <1>5, RealMeans DEF SqlError, Shows, Result, Lasting
<1>7. Asks("sqli")
  BY <1>1, <1>2, <1>3, <1>5, <1>6, RealLasts DEF Asks, Report, ProbesInv, Counters
<1> QED
  BY <1>2, <1>3, <1>4, <1>7, NoPairKept, AskingKeeps DEF ProbesInv, Counters

LEMMA StageSet ==
    ASSUME CursorShape, NEW stage, cursor' = [cursor EXCEPT !["sqli"].stage = stage]
    PROVE  /\ CursorShape'
           /\ cursor'["sqli"].k = cursor["sqli"].k /\ cursor'["sqli"].param = cursor["sqli"].param
<1>1. /\ "sqli" \in Elements(Probes) /\ DOMAIN cursor = Elements(Probes)
      /\ cursor["sqli"] = [param |-> cursor["sqli"].param, stage |-> cursor["sqli"].stage,
                          k |-> cursor["sqli"].k]
  BY ProbesElements DEF CursorShape
<1>2. /\ DOMAIN cursor' = Elements(Probes)
      /\ \A q \in Elements(Probes) \ {"sqli"} : cursor'[q] = cursor[q]
      /\ cursor'["sqli"] = [cursor["sqli"] EXCEPT !.stage = stage]
  BY <1>1
<1>3. cursor'["sqli"] = [param |-> cursor["sqli"].param, stage |-> stage, k |-> cursor["sqli"].k]
  BY <1>1, <1>2
<1>4. cursor' = [q \in Elements(Probes) |-> cursor'[q]]
  BY <1>1
<1>5. CursorShape'
  BY <1>2, <1>3, <1>4 DEF CursorShape
<1> QED
  BY <1>3, <1>5

LEMMA TrueStep == ASSUME ProbesInv, BooleanTrue PROVE ProbesInv'
<1> USE ProbesElements
<1> DEFINE k == cursor["sqli"].k
<1>1. PICK reply : /\ Request(reply)
                   /\ \/ NextPair(k)
                      \/ /\ reply # "exception"
                         /\ tautology' = Answer(reply, Param("sqli"), k, "true")
                         /\ cursor' = [cursor EXCEPT !["sqli"].stage = "false"]
  BY DEF BooleanTrue
<1>2. /\ phase = "params"
      /\ UNCHANGED <<found, baseline, slows, site, phase, origin, statuses, results>>
  BY DEF BooleanTrue, SQLAt, SQLUnchanged
<1>3. /\ left' \in Nat /\ (Limited => Limited') /\ slows' \in Nat /\ slows' >= slows
      /\ reply \in Replies /\ (reply = "refusal" => Limited)
  BY <1>1, <1>2, RequestKeeps DEF ProbesInv, Counters
<1>4. CursorShape' /\ PairInv'
  <2>1. CASE NextPair(k)
    BY <2>1, NextPairMoves, NoPairKept DEF ProbesInv
  <2>2. CASE /\ reply # "exception"
             /\ tautology' = Answer(reply, Param("sqli"), k, "true")
             /\ cursor' = [cursor EXCEPT !["sqli"].stage = "false"]
    <3>1. CursorShape'
      BY <2>2, StageSet DEF ProbesInv
    <3>2. cursor'["sqli"].k = k /\ cursor'["sqli"].param = cursor["sqli"].param
      BY <2>2, StageSet DEF ProbesInv
    <3>3. Param("sqli")' = Param("sqli")
      BY <3>2 DEF Param
    <3>4. \A q, i : Answer(reply, q, i, "true")' = Answer(reply, q, i, "true")
      BY <1>2 DEF Answer, Shows
    <3>5. reply \in {"page", "refusal"}
      BY <1>3, <2>2 DEF Replies
    <3>6. tautology' = Answer(reply, Param("sqli"), cursor["sqli"].k, "true")'
      BY <1>2, <2>2, <3>2, <3>3 DEF Answer, Shows
    <3> QED
      BY <1>3, <3>1, <3>5, <3>6 DEF PairInv
  <2> QED
    BY <1>1, <2>1, <2>2
<1>5. Asks("sqli")
  BY <1>2, <1>3 DEF Asks
<1> QED
  BY <1>2, <1>3, <1>4, <1>5, AskingKeeps DEF ProbesInv, Counters

\* Answers to a pair that differ in length and agree in status differ because of the page,
\* unless a limiter that refuses with 200 has come between them.
LEMMA PairDiffers ==
    ASSUME NEW q, NEW k, NEW a \in {"page", "refusal"}, NEW b \in {"page", "refusal"},
           Different(Answer(a, q, k, "true"), Answer(b, q, k, "false")),
           a = "refusal" => b # "page"
    PROVE  LET f == Result("sqli_boolean", q, k)
           IN  Rows(f) # Always(f) \/ (b = "refusal" /\ site.code = 200)
<1> DEFINE rows   == <<"sqli_boolean", q, k, "rows">> \in site.effects
           always == <<"sqli_boolean", q, k, "always">> \in site.effects
<1>1. /\ Answer("page", q, k, "true").long <=> rows
      /\ Answer("page", q, k, "false").long <=> always
      /\ ~ Answer("refusal", q, k, "true").long
      /\ ~ Answer("refusal", q, k, "false").long
      /\ \A reply, payload : Answer(reply, q, k, payload).long \in BOOLEAN
  BY DEF Answer, Shows
<1>2. /\ \A payload : Answer("page", q, k, payload).status = 200
      /\ \A payload : Answer("refusal", q, k, payload).status = site.code
  BY DEF Answer
<1>3. (Rows(Result("sqli_boolean", q, k)) <=> rows) /\ (Always(Result("sqli_boolean", q, k)) <=> always)
  BY DEF Rows, Always, Result
<1> HIDE DEF rows, always
<1> QED
  BY <1>1, <1>2, <1>3 DEF Different

LEMMA FalseStep == ASSUME ProbesInv, BooleanFalse PROVE ProbesInv'
<1> USE ProbesElements
<1> DEFINE k == cursor["sqli"].k
           hit(reply) == /\ reply # "exception"
                         /\ Different(tautology, Answer(reply, Param("sqli"), k, "false"))
<1>1. PICK reply : /\ Request(reply)
                   /\ \/ hit(reply) /\ Report("sqli", "sqli_boolean", k) /\ NextParam("sqli")
                      \/ NextPair(k) /\ found' = found
  BY DEF BooleanFalse
<1>2. /\ phase = "params" /\ cursor["sqli"].stage = "false"
      /\ UNCHANGED <<baseline, slows, site, phase, origin, statuses, results>>
  BY DEF BooleanFalse, SQLAt, SQLUnchanged
<1>3. /\ left' \in Nat /\ (Limited => Limited') /\ slows' \in Nat /\ slows' >= slows
      /\ reply \in Replies /\ (reply = "refusal" => Limited) /\ (reply = "page" => ~ Limited)
  BY <1>1, <1>2, RequestKeeps DEF ProbesInv, Counters
<1>4. CursorShape' /\ cursor'["sqli"].stage # "false"
  BY <1>1, CursorMoves, NextPairMoves DEF ProbesInv
<1>5. PICK f : f = Result("sqli_boolean", Param("sqli"), k)
  OBVIOUS
<1>6. hit(reply) => Lasting(f)
  <2> SUFFICES ASSUME hit(reply)
               PROVE  Lasting(f)
    OBVIOUS
  <2>1. PICK first \in {"page", "refusal"} :
            /\ tautology = Answer(first, Param("sqli"), k, "true")
            /\ first = "refusal" => Limited
    BY <1>2 DEF ProbesInv, PairInv
  <2>2. reply \in {"page", "refusal"}
    BY <1>3 DEF Replies
  <2>3. Different(Answer(first, Param("sqli"), k, "true"), Answer(reply, Param("sqli"), k, "false"))
    BY <2>1
  <2>4. first = "refusal" => reply # "page"
    BY <1>3, <2>1
  <2>5. Rows(f) # Always(f) \/ (reply = "refusal" /\ site.code = 200)
    BY <1>5, <2>2, <2>3, <2>4, PairDiffers
  <2>6. f.probe = "sqli_boolean"
    BY <1>5 DEF Result
  <2> QED
    BY <1>3, <2>5, <2>6, RealMeans DEF Lasting
<1>7. Asks("sqli")
  BY <1>1, <1>2, <1>3, <1>5, <1>6, RealLasts DEF Asks, Report, ProbesInv, Counters
<1> QED
  BY <1>2, <1>3, <1>4, <1>7, NoPairKept, AskingKeeps DEF ProbesInv, Counters

LEMMA SlownessType ==
    ASSUME slows \in Nat, NEW slow \in BOOLEAN, Slowness(slow)
    PROVE  slows' \in Nat /\ slows' >= slows /\ (slow => slows' > 0)
BY ProbesAssumption DEF Slowness

LEMMA BaselineStep == ASSUME ProbesInv, Baseline PROVE ProbesInv'
<1> USE ProbesElements
<1>1. PICK reply \in Replies, slow \in BOOLEAN :
        /\ Request(reply)
        /\ Slowness(slow)
        /\ \/ NextParam("sqli") /\ baseline' = baseline
           \/ baseline' = (IF slow THEN 2 ELSE 0) /\ Stage("sqli", "sleep")
  BY DEF Baseline
<1>2. /\ phase = "params"
      /\ UNCHANGED <<found, tautology, site, phase, origin, statuses, results>>
  BY DEF Baseline, SQLAt, SQLUnchanged
<1>3. left' \in Nat /\ (Limited => Limited') /\ slows' \in Nat /\ slows' >= slows
  BY <1>1, <1>2, RequestKeeps, SlownessType DEF ProbesInv, Counters
<1>4. CursorShape' /\ cursor'["sqli"].stage # "false"
  BY <1>1, CursorMoves DEF ProbesInv
<1>5. baseline' \in {0, 2}
  BY <1>1 DEF ProbesInv, Counters
<1>6. Asks("sqli")
  BY <1>2, <1>3 DEF Asks
<1> QED
  BY <1>2, <1>3, <1>4, <1>5, <1>6, NoPairKept, AskingKeeps DEF ProbesInv, Counters

LEMMA TimeStep == ASSUME ProbesInv, TimeBased PROVE ProbesInv'
<1> USE ProbesElements
<1> DEFINE k == cursor["sqli"].k
           hit(reply, slow) == /\ reply # "exception"
                               /\ MuchLonger(Delay(reply, Param("sqli"), k, slow), baseline)
<1>1. PICK reply \in Replies, slow \in BOOLEAN :
        /\ Request(reply)
        /\ Slowness(slow)
        /\ \/ hit(reply, slow) /\ Report("sqli", "sqli_time", k) /\ NextParam("sqli")
           \/ found' = found /\ (Payload("sqli") \/ NextParam("sqli"))
        /\ baseline' \in {0, baseline}
  BY DEF TimeBased
<1>2. /\ phase = "params" /\ cursor["sqli"].stage = "sleep"
      /\ UNCHANGED <<tautology, site, phase, origin, statuses, results>>
  BY DEF TimeBased, SQLAt, SQLUnchanged
<1>3. /\ left' \in Nat /\ (Limited => Limited')
      /\ slows' \in Nat /\ slows' >= slows /\ (slow => slows' > 0)
  BY <1>1, <1>2, RequestKeeps, SlownessType DEF ProbesInv, Counters
<1>4. CursorShape' /\ cursor'["sqli"].stage # "false"
  BY <1>1, <1>2, CursorMoves DEF ProbesInv
<1>5. PICK f : f = Result("sqli_time", Param("sqli"), k)
  OBVIOUS
<1>6. hit(reply, slow) => Lasting(f)'
  <2> SUFFICES ASSUME hit(reply, slow)
               PROVE  Lasting(f)'
    OBVIOUS
  <2>1. Shows(reply, "sqli_time", Param("sqli"), k, "sleeps") \/ slow
    BY DEF MuchLonger, Delay, ProbesInv, Counters
  <2>2. /\ f.probe = "sqli_time" /\ f.at = Param("sqli") /\ f.payload = k
    BY <1>5 DEF Result
  <2>3. <<"sqli_time", f.at, f.payload, "sleeps">> \in site'.effects \/ slows' > 0
    BY <1>2, <1>3, <2>1, <2>2 DEF Shows
  <2> QED
    BY <2>2, <2>3 DEF Lasting, Real
<1>7. Asks("sqli")
  BY <1>1, <1>2, <1>3, <1>5, <1>6 DEF Asks, Report
<1> QED
  BY <1>1, <1>2, <1>3, <1>4, <1>7, NoPairKept, AskingKeeps DEF ProbesInv, Counters

-----------------------------------------------------------------------------
(* run_all after the gather *)

LEMMA FormsAreOpen ==
    ASSUME site \in Sites
    PROVE  IsSeq(CSRFResults) /\ \A f \in Elements(CSRFResults) : Lasting(f)
<1>1. site.forms \in Seq(Elements(site.forms))
  BY ProbesAssumption
<1>2. Len(site.forms) \in Nat /\ DOMAIN site.forms = 1 .. Len(site.forms)
  BY <1>1
<1>5. OpenForms \in SUBSET (1 .. Len(site.forms)) /\ OpenForms \in SUBSET Nat
  BY <1>2 DEF OpenForms
<1>6. PICK results0 : results0 = [i \in DOMAIN site.forms |-> Result("csrf_missing", site.forms[i].action, 0)]
  OBVIOUS
<1>7. CSRFResults = Selected(results0, OpenForms)
  BY <1>6 DEF CSRFResults
<1>8. ASSUME NEW i \in OpenForms
      PROVE  Lasting(results0[i])
  <2>1. i \in DOMAIN site.forms /\ site.forms[i].changes /\ ~ site.forms[i].token
    BY DEF OpenForms
  <2>2. PICK f : f = Result("csrf_missing", site.forms[i].action, 0)
    OBVIOUS
  <2>3. f.probe = "csrf_missing" /\ f.at = site.forms[i].action
    BY <2>2 DEF Result
  <2> QED
    BY <1>6, <2>1, <2>2, <2>3 DEF Lasting, Real
<1>9. PICK T : T = {results0[i] : i \in OpenForms}
  OBVIOUS
<1>10. \A f \in T : Lasting(f)
  BY <1>8, <1>9
<1>11. \A i \in OpenForms : results0[i] \in T
  BY <1>9
<1>12. PICK forms : forms = OpenForms
  OBVIOUS
<1>13. IsSeq(Selected(results0, forms)) /\ Elements(Selected(results0, forms)) \subseteq T
  <2>1. PICK N \in Nat : forms \in SUBSET (1 .. N)
    BY <1>2, <1>5, <1>12
  <2>2. \A i \in forms : results0[i] \in T
    BY <1>11, <1>12
  <2> QED
    BY <2>1, <2>2, SelectedIsSeq
<1> QED
  BY <1>7, <1>10, <1>12, <1>13

LEMMA GatheredElements ==
    ASSUME GatheredInv
    PROVE  IsSeq(Gathered) /\ \A f \in Elements(Gathered) : Lasting(f)
<1> DEFINE a == found["xss"] \o found["sqli"]
           b == a \o found["ssrf"]
           c == b \o found["path_traversal"]
           d == c \o found["ssti"]
<1>1. Gathered = d \o found["open_redirect"]
  <2>1. /\ Probes[1] = "xss" /\ Probes[2] = "sqli" /\ Probes[3] = "ssrf"
        /\ Probes[4] = "path_traversal" /\ Probes[5] = "ssti" /\ Probes[6] = "open_redirect"
    BY DEF Probes
  <2> DEFINE of == [j \in DOMAIN Probes |-> found[Probes[j]]]
  <2>2. /\ of[1] = found[Probes[1]] /\ of[2] = found[Probes[2]] /\ of[3] = found[Probes[3]]
        /\ of[4] = found[Probes[4]] /\ of[5] = found[Probes[5]] /\ of[6] = found[Probes[6]]
    BY ProbesElements
  <2>3. Gathered = InOrder(of)
    BY DEF Gathered
  <2> HIDE DEF of
  <2>4. InOrder(of) = of[1] \o of[2] \o of[3] \o of[4] \o of[5] \o of[6]
    BY DEF InOrder
  <2> QED
    BY <2>1, <2>2, <2>3, <2>4
<1>2. \A p \in {"xss", "sqli", "ssrf", "path_traversal", "ssti", "open_redirect"} :
         IsSeq(found[p]) /\ \A f \in Elements(found[p]) : Lasting(f)
  BY ProbesElements DEF GatheredInv
<1>3. IsSeq(a) /\ \A f \in Elements(a) : Lasting(f)
  BY <1>2, ElementsConcat
<1> HIDE DEF a
<1>4. IsSeq(b) /\ \A f \in Elements(b) : Lasting(f)
  BY <1>2, <1>3, ElementsConcat
<1> HIDE DEF b
<1>5. IsSeq(c) /\ \A f \in Elements(c) : Lasting(f)
  BY <1>2, <1>4, ElementsConcat
<1> HIDE DEF c
<1>6. IsSeq(d) /\ \A f \in Elements(d) : Lasting(f)
  BY <1>2, <1>5, ElementsConcat
<1> HIDE DEF d
<1> QED
  BY <1>1, <1>2, <1>6, ElementsConcat

LEMMA CollectStep == ASSUME ProbesInv, Collect PROVE ProbesInv'
<1>1. /\ results' = Gathered \o CSRFResults /\ phase = "params" /\ phase' = "cors"
      /\ UNCHANGED <<site, cursor, found, tautology, baseline, left, slows, statuses>>
  BY DEF Collect
<1>2. IsSeq(results') /\ \A f \in Elements(results') : Lasting(f)
  BY <1>1, GatheredElements, FormsAreOpen, ElementsConcat DEF ProbesInv, Counters
<1>3. \A f : Lasting(f) => Lasting(f)'
  BY <1>1, RealLasts DEF ProbesInv, Counters, Limited
<1>4. CursorShape' /\ Counters' /\ StatusInv'
  BY <1>1 DEF ProbesInv, CursorShape, Counters, StatusInv
<1>5. PairInv'
  BY <1>1, PairKept DEF ProbesInv, Limited
<1>6. GatheredInv'
  BY <1>1, <1>3 DEF ProbesInv, GatheredInv
<1>7. ResultsInv'
  BY <1>1, <1>2, <1>3 DEF ResultsInv
<1> QED
  BY <1>4, <1>5, <1>6, <1>7 DEF ProbesInv

LEMMA OriginsAreReported ==
    ASSUME NEW o
    PROVE  /\ IsSeq(CORSResults(o))
           /\ \A f \in Elements(CORSResults(o)) : Lasting(f)
<1> DEFINE at == TestOrigins[o]
<1>1. /\ IsSeq(<<Result("cors_wildcard_creds", at, o)>>)
      /\ Elements(<<Result("cors_wildcard_creds", at, o)>>) = {Result("cors_wildcard_creds", at, o)}
      /\ IsSeq(<<Result("cors_reflection", at, o)>>)
      /\ Elements(<<Result("cors_reflection", at, o)>>) = {Result("cors_reflection", at, o)}
  BY DEF IsSeq, Elements
<1>2. /\ site.cors[at].acao = "*" /\ site.cors[at].acac => Lasting(Result("cors_wildcard_creds", at, o))
      /\ site.cors[at].acao = "origin" => Lasting(Result("cors_reflection", at, o))
  BY DEF Lasting, Real, Result
<1>3. CASE site.cors[at].acao = "*" /\ site.cors[at].acac
  BY <1>1, <1>2, <1>3 DEF CORSResults
<1>4. CASE ~ (site.cors[at].acao = "*" /\ site.cors[at].acac) /\ site.cors[at].acao = "origin"
  <2>1. CORSResults(o) = IF at # "null_origin" THEN <<Result("cors_reflection", at, o)>> ELSE <<>>
    BY <1>4 DEF CORSResults
  <2> QED
    BY <1>1, <1>2, <1>4, <2>1, EmptyHasNoElements
<1>5. CASE ~ (site.cors[at].acao = "*" /\ site.cors[at].acac) /\ site.cors[at].acao # "origin"
  BY <1>5, EmptyHasNoElements DEF CORSResults
<1> QED
  BY <1>3, <1>4, <1>5

LEMMA CORSStep == ASSUME ProbesInv, CORSProbe PROVE ProbesInv'
<1>1. PICK reply : /\ Request(reply)
                   /\ results' = results \o (IF reply = "page" THEN CORSResults(origin) ELSE <<>>)
                   /\ phase' \in {"cors", "rate"}
  BY DEF CORSProbe
<1>2. phase = "cors" /\ UNCHANGED <<site, cursor, found, tautology, baseline, slows, statuses>>
  BY DEF CORSProbe
<1>3. left' \in Nat /\ (Limited => Limited')
  BY <1>1, <1>2, RequestKeeps DEF ProbesInv
<1>4. \A f : Lasting(f) => Lasting(f)'
  BY <1>2, <1>3, RealLasts DEF ProbesInv, Counters
<1>5. CursorShape' /\ Counters'
  BY <1>2, <1>3 DEF ProbesInv, CursorShape, Counters
<1>6. StatusInv'
  BY <1>1, <1>2, EmptyHasNoElements DEF ProbesInv, StatusInv
<1>7. PairInv'
  BY <1>2, <1>3, PairKept DEF ProbesInv
<1>8. GatheredInv'
  BY <1>2, <1>4 DEF ProbesInv, GatheredInv
<1>9. IsSeq(results') /\ \A f \in Elements(results') : Lasting(f)
  <2>1. IsSeq(results) /\ \A f \in Elements(results) : Lasting(f)
    BY <1>2 DEF ProbesInv, ResultsInv
  <2>2. CASE reply = "page"
    BY <1>1, <2>1, <2>2, OriginsAreReported, ElementsConcat
  <2>3. CASE reply # "page"
    BY <1>1, <2>1, <2>3, EmptyHasNoElements, ElementsConcat
  <2> QED
    BY <2>2, <2>3
<1>10. ResultsInv'
  BY <1>1, <1>4, <1>9 DEF ResultsInv
<1> QED
  BY <1>5, <1>6, <1>7, <1>8, <1>10 DEF ProbesInv

\* A sequence of status codes that are all the same holds one.
LEMMA SameIsOne ==
    ASSUME NEW s, IsSeq(s), AllSame(s), Len(s) > 0
    PROVE  Elements(s) = {s[1]}
BY DEF IsSeq, AllSame, Elements

LEMMA RateStep == ASSUME ProbesInv, RateLimitProbe PROVE ProbesInv'
<1> DEFINE unlimited == Result("rate_limit_missing", "url", 0)
<1>1. PICK reply :
        /\ Request(reply)
        /\ statuses' = IF reply = "exception" THEN statuses
                       ELSE Append(statuses, IF reply = "page" THEN 200 ELSE site.code)
        /\ LET stopped == reply = "exception" \/ (reply = "refusal" /\ site.code = 429)
               all     == ~ stopped /\ Len(statuses') = RateRequests
           IN /\ phase' = IF stopped \/ all THEN "done" ELSE "rate"
              /\ results' = IF all /\ AllSame(statuses') /\ site.auth
                            THEN Append(results, unlimited) ELSE results
  BY DEF RateLimitProbe
<1>2. phase = "rate" /\ UNCHANGED <<site, cursor, found, tautology, baseline, slows>>
  BY DEF RateLimitProbe
<1>3. left' \in Nat /\ (Limited => Limited') /\ reply \in Replies
  BY <1>1, <1>2, RequestKeeps DEF ProbesInv
<1>4. \A f : Lasting(f) => Lasting(f)'
  BY <1>2, <1>3, RealLasts DEF ProbesInv, Counters
<1>5. CursorShape' /\ Counters'
  BY <1>2, <1>3 DEF ProbesInv, CursorShape, Counters
<1>6. PairInv' /\ GatheredInv'
  BY <1>2, <1>3, <1>4, PairKept DEF ProbesInv, GatheredInv
<1>7. IsSeq(statuses) /\ Elements(statuses) \subseteq {200, site.code} \ {429}
  BY <1>2 DEF ProbesInv, StatusInv
<1>8. reply # "exception" /\ ~ (reply = "refusal" /\ site.code = 429) =>
         IsSeq(statuses') /\ Elements(statuses') \subseteq {200, site.code} \ {429}
  <2> SUFFICES ASSUME reply # "exception", ~ (reply = "refusal" /\ site.code = 429)
               PROVE  IsSeq(statuses') /\ Elements(statuses') \subseteq {200, site.code} \ {429}
    OBVIOUS
  <2>1. PICK code : code = IF reply = "page" THEN 200 ELSE site.code
    OBVIOUS
  <2>2. code \in {200, site.code} \ {429}
    BY <1>3, <2>1 DEF Replies
  <2>3. statuses' = Append(statuses, code)
    BY <1>1, <2>1
  <2> QED
    BY <1>7, <2>2, <2>3, ElementsAppend
<1>9. StatusInv'
  BY <1>1, <1>2, <1>8 DEF StatusInv
<1>10. IsSeq(results) /\ (\A f \in Elements(results) : Lasting(f)') /\ (\A f \in Elements(results) : Real(f)')
  BY <1>2, <1>4 DEF ProbesInv, ResultsInv, Lasting
<1>11. ASSUME results' = results
       PROVE  ResultsInv'
  BY <1>1, <1>10, <1>11 DEF ResultsInv
<1>12. ASSUME results' # results
       PROVE  ResultsInv'
  <2>1. /\ reply # "exception" /\ ~ (reply = "refusal" /\ site.code = 429)
        /\ Len(statuses') = RateRequests /\ AllSame(statuses') /\ site.auth
        /\ results' = Append(results, unlimited) /\ phase' = "done"
    BY <1>1, <1>12
  <2>2. Elements(statuses') = {statuses'[1]} /\ statuses'[1] \in {200, site.code} \ {429}
    <3>1. RateRequests > 0
      BY ProbesAssumption
    <3>2. Elements(statuses') = {statuses'[1]}
      BY <1>8, <2>1, <3>1, SameIsOne
    <3> QED
      BY <1>8, <2>1, <3>2
  <2>3. PICK f : f = unlimited
    OBVIOUS
  <2>4. Real(f)'
    BY <1>2, <2>1, <2>2, <2>3, ZenonT(40) DEF Real, Result
  <2>5. IsSeq(results') /\ Elements(results') = Elements(results) \cup {f}
    BY <1>10, <2>1, <2>3, ElementsAppend
  <2>6. \A g \in Elements(results') : Real(g)'
    BY <1>10, <2>4, <2>5
  <2> QED
    BY <2>1, <2>5, <2>6 DEF ResultsInv
<1> QED
  BY <1>5, <1>6, <1>9, <1>11, <1>12 DEF ProbesInv

LEMMA StutterStep == ASSUME ProbesInv, UNCHANGED probeVars PROVE ProbesInv'
<1> USE DEF probeVars
<1>1. ASSUME NEW f, Real(f)
      PROVE  Real(f)'
  <2>1. CASE Lasting(f)
    BY <2>1, RealLasts DEF ProbesInv, Counters, Limited, Lasting
  <2>2. CASE ~ Lasting(f)
    BY <1>1, <2>2 DEF Lasting, Real
  <2> QED
    BY <2>1, <2>2
<1>2. \A f : Lasting(f) => Lasting(f)'
  BY <1>1 DEF Lasting
<1>3. CursorShape' /\ Counters' /\ StatusInv'
  BY DEF ProbesInv, CursorShape, Counters, StatusInv
<1>4. PairInv'
  BY PairKept DEF ProbesInv, Limited
<1>5. GatheredInv' /\ ResultsInv'
  BY <1>1, <1>2 DEF ProbesInv, GatheredInv, ResultsInv
<1> QED
  BY <1>3, <1>4, <1>5 DEF ProbesInv

-----------------------------------------------------------------------------
(* Probing that nothing hinders *)

Unhindered == Params # <<>> /\ errors = 0 /\ slows = 0 /\ ~ Limited

\* The table of payloads that a probe is at.
TableFor(p, stage) == IF p # "sqli" THEN p
                      ELSE IF stage = "error" THEN "sqli_error"
                      ELSE IF stage \in {"true", "false"} THEN "sqli_boolean"
                      ELSE "sqli_time"

TableAt(p) == TableFor(p, cursor[p].stage)

PlaceInv(p) ==
    /\ cursor[p].param \in 1 .. Len(ParamsOf(p)) + 1
    /\ ~ Done(p) => cursor[p].k \in 1 .. Payloads[TableAt(p)]

\* No payload that was tried for the present parameter has shown anything, nor has one of the
\* tables before; what a pair is compared by is what the page answers.
SilentInv(p) ==
    ~ Done(p) =>
        /\ \A j \in Telling(TableAt(p), Param(p)) : cursor[p].k <= j
        /\ TableAt(p) \in {"sqli_boolean", "sqli_time"} => Telling("sqli_error", Param(p)) = {}
        /\ TableAt(p) = "sqli_time" => Telling("sqli_boolean", Param(p)) = {}
        /\ p = "sqli" /\ cursor[p].stage = "false" =>
             tautology = Answer("page", Param(p), cursor[p].k, "true")
        /\ p = "open_redirect" => \A i \in Weaknesses(p) : cursor[p].param <= i

\* What a probe has found is what it should have, as far as it has come.
PassedInv(p) == found[p] = Selected(Expected(p), {i \in Reported(p) : i < cursor[p].param})

AskedInv(p) == PlaceInv(p) /\ SilentInv(p) /\ PassedInv(p)

SequentialOrder == InOrder([i \in DOMAIN Probes |-> Sequential(Probes[i])])

\* After the gather, the results of the six probes stay in front.
KeptInv ==
    phase # "params" =>
        /\ IsSeq(SequentialOrder)
        /\ Len(SequentialOrder) <= Len(results)
        /\ \A i \in DOMAIN SequentialOrder : results[i] = SequentialOrder[i]

UnhinderedInv ==
    /\ errors \in Nat
    /\ Unhindered => baseline = 0 /\ (\A p \in Elements(Probes) : AskedInv(p)) /\ KeptInv

\* The parameters of every probe are a sequence.
LEMMA ParamsAreSeq ==
    ASSUME NEW p
    PROVE  Len(ParamsOf(p)) \in Nat /\ DOMAIN ParamsOf(p) = 1 .. Len(ParamsOf(p))
<1>1. /\ IsSeq(Params) /\ Len(Params) \in Nat /\ DOMAIN Params = 1 .. Len(Params)
      /\ IsSeq(CommonRedirects)
  BY ProbesAssumption DEF IsSeq
<1>2. ASSUME NEW S
      PROVE  IsSeq(Among(S))
  <2>1. PICK places : places = {i \in DOMAIN Params : Params[i] \in S}
    OBVIOUS
  <2>2. places \in SUBSET (1 .. Len(Params))
    BY <1>1, <2>1
  <2>3. IsSeq(Selected(Params, places))
    BY <1>1, <2>2, SelectedIsSeq
  <2> QED
    BY <2>1, <2>3 DEF Among
<1>3. /\ Len(RedirectParams) \in Nat
      /\ DOMAIN RedirectParams = 1 .. Len(RedirectParams)
  <2>1. PICK all : all = Among(RedirectLike) \o CommonRedirects
    OBVIOUS
  <2>2. all \in Seq(Elements(all)) /\ Len(all) \in Nat
    BY <1>1, <1>2, <2>1, ElementsConcat DEF IsSeq
  <2>3. PICK n \in 0 .. Len(all) : n = IF Len(all) < 5 THEN Len(all) ELSE 5
    BY <2>2
  <2>4. RedirectParams = SubSeq(all, 1, n)
    BY <2>1, <2>3 DEF RedirectParams
  <2> QED
    BY <2>2, <2>3, <2>4
<1>4. \A S : Len(Among(S)) \in Nat /\ DOMAIN Among(S) = 1 .. Len(Among(S))
  BY <1>2 DEF IsSeq
<1> QED
  BY <1>1, <1>3, <1>4 DEF ParamsOf

LEMMA KindsHavePayloads ==
    /\ \A kind \in Kinds : Payloads[kind] \in Nat \ {0}
    /\ \A kind, q : Telling(kind, q) \in SUBSET (1 .. Payloads[kind])
BY ProbesAssumption DEF Telling

LEMMA PlacesInParams ==
    ASSUME NEW p
    PROVE  /\ Reported(p) \in SUBSET Weaknesses(p)
           /\ Weaknesses(p) \in SUBSET (1 .. Len(ParamsOf(p)))
BY ParamsAreSeq DEF Reported, Weaknesses

\* What a page shows is a matter of the site alone.
LEMMA SiteDecides ==
    ASSUME site' = site
    PROVE  /\ \A kind, q : Telling(kind, q)' = Telling(kind, q)
           /\ \A p : Weaknesses(p)' = Weaknesses(p)
           /\ \A p : Reported(p)' = Reported(p)
           /\ \A p : Expected(p)' = Expected(p)
           /\ \A q, k, payload : Answer("page", q, k, payload)' = Answer("page", q, k, payload)
           /\ SequentialOrder' = SequentialOrder
<1>1. \A kind, q : Telling(kind, q)' = Telling(kind, q)
  BY DEF Telling, Reflected, SqlError, Connects, Discloses, LeadsAway, Evaluated, Differs,
         Different, Answer, Shows
<1>2. \A p, q : Table(p, q)' = Table(p, q)
  BY <1>1 DEF Table
<1>3. \A kind, q : FirstOf(kind, q)' = FirstOf(kind, q)
  BY <1>1 DEF FirstOf
<1>4. \A p : Weaknesses(p)' = Weaknesses(p)
  BY <1>1, <1>2 DEF Weaknesses
<1>5. \A p : Reported(p)' = Reported(p)
  BY <1>4 DEF Reported
<1>6. \A p : Expected(p)' = Expected(p)
  BY <1>2, <1>3 DEF Expected
<1>7. \A q, k, payload : Answer("page", q, k, payload)' = Answer("page", q, k, payload)
  BY DEF Answer, Shows
<1>8. SequentialOrder' = SequentialOrder
  BY <1>5, <1>6 DEF SequentialOrder, Sequential
<1> QED
  BY <1>1, <1>4, <1>5, <1>6, <1>7, <1>8

\* A step that is not hindered was not hindered before, and is answered with the page.
LEMMA UnhinderedBefore ==
    ASSUME Counters, errors \in Nat, site' = site, slows' \in Nat, slows' >= slows, Unhindered'
    PROVE  /\ errors' = errors /\ left' = left => Unhindered
           /\ \A reply : Request(reply) => Unhindered /\ reply = "page" /\ errors' = errors
<1>1. Params # <<>> /\ errors' = 0 /\ slows' = 0 /\ ~ Limited'
  BY DEF Unhindered
<1>2. slows = 0
  BY <1>1 DEF Counters
<1>3. errors' = errors /\ left' = left => ~ Limited
  BY <1>1 DEF Limited
<1>4. \A reply : Request(reply) => (Limited => Limited') /\ (reply = "refusal" => Limited)
  BY RequestKeeps
<1>5. \A reply : Request(reply) => reply \in {"page", "refusal", "exception"} /\ errors' \in {errors, errors + 1}
                                   /\ (reply = "exception" => errors' = errors + 1)
  BY DEF Request
<1> QED
  BY <1>1, <1>2, <1>3, <1>4, <1>5 DEF Unhindered

\* Where the steps of a probe lead to.
LEMMA CursorGoes ==
    ASSUME CursorShape, NEW p \in Elements(Probes)
    PROVE  /\ NextParam(p) => cursor'[p].param = cursor[p].param + 1 /\ cursor'[p].k = 1
           /\ LastParam(p) => cursor'[p].param = Len(ParamsOf(p)) + 1
           /\ Payload(p) => /\ cursor'[p].param = cursor[p].param /\ cursor'[p].stage = cursor[p].stage
                            /\ cursor'[p].k = cursor[p].k + 1
           /\ \A stage : Stage(p, stage) =>
                /\ cursor'[p].param = cursor[p].param /\ cursor'[p].stage = stage /\ cursor'[p].k = 1
                /\ \A r \in Elements(Probes) : r # p => cursor'[r] = cursor[r]
<1> USE DEF CursorShape
<1>1. NextParam(p) => cursor'[p].param = cursor[p].param + 1 /\ cursor'[p].k = 1
  BY DEF NextParam, Start
<1>2. LastParam(p) => cursor'[p].param = Len(ParamsOf(p)) + 1
  BY DEF LastParam, Start
<1>3. Payload(p) => /\ cursor'[p].param = cursor[p].param /\ cursor'[p].stage = cursor[p].stage
                    /\ cursor'[p].k = cursor[p].k + 1
  BY DEF Payload
<1>4. ASSUME NEW stage, Stage(p, stage)
      PROVE  /\ cursor'[p].param = cursor[p].param /\ cursor'[p].stage = stage /\ cursor'[p].k = 1
             /\ \A r \in Elements(Probes) : r # p => cursor'[r] = cursor[r]
  <2>1. /\ DOMAIN cursor = Elements(Probes)
        /\ cursor[p] = [param |-> cursor[p].param, stage |-> cursor[p].stage, k |-> cursor[p].k]
    OBVIOUS
  <2>2. cursor' = [cursor EXCEPT ![p].stage = stage, ![p].k = 1]
    BY <1>4 DEF Stage
  <2>3. /\ \A r \in Elements(Probes) : r # p => cursor'[r] = cursor[r]
        /\ cursor'[p] = [cursor[p] EXCEPT !.stage = stage, !.k = 1]
    BY <2>1, <2>2
  <2>4. cursor'[p] = [param |-> cursor[p].param, stage |-> stage, k |-> 1]
    BY <2>1, <2>3
  <2> QED
    BY <2>3, <2>4
<1> QED
  BY <1>1, <1>2, <1>3, <1>4

\* What the payload that a probe asks next amounts to.
LEMMA PayloadTells ==
    ASSUME NEW p \in Elements(Probes), PlaceInv(p), SilentInv(p), ~ Done(p)
    PROVE  LET t == TableAt(p)
               q == Param(p)
               k == cursor[p].k
               i == cursor[p].param
           IN /\ i \in 1 .. Len(ParamsOf(p)) /\ k \in 1 .. Payloads[t]
              /\ Payloads[t] \in Nat /\ Len(ParamsOf(p)) \in Nat
              /\ k \in Telling(t, q) => i \in Weaknesses(p) /\ Expected(p)[i] = Result(t, q, k)
              /\ k \notin Telling(t, q) => \A j \in Telling(t, q) : k + 1 <= j
              /\ k \notin Telling(t, q) /\ ~ (k < Payloads[t]) => Telling(t, q) = {}
              /\ Telling(t, q) = {} /\ t \notin {"sqli_error", "sqli_boolean"} => i \notin Weaknesses(p)
<1> DEFINE t == TableAt(p)
           q == Param(p)
           k == cursor[p].k
           i == cursor[p].param
<1>1. t \in Kinds
  BY ProbesElements DEF TableAt, TableFor, Kinds
<1>2. /\ i \in 1 .. Len(ParamsOf(p)) /\ k \in 1 .. Payloads[t]
      /\ Payloads[t] \in Nat /\ Len(ParamsOf(p)) \in Nat
      /\ Telling(t, q) \in SUBSET (1 .. Payloads[t])
  BY <1>1, KindsHavePayloads, ParamsAreSeq DEF PlaceInv, Done
<1>3. \A j \in Telling(t, q) : k <= j
  BY DEF SilentInv
<1>4. t \notin {"sqli_error", "sqli_boolean"} \/ Telling(t, q) # {} => Table(p, q) = t
  BY ProbesElements DEF Table, TableAt, TableFor, SilentInv
<1>5. i \in DOMAIN ParamsOf(p) /\ q = ParamsOf(p)[i]
  BY <1>2, ParamsAreSeq DEF Param
<1> HIDE DEF t, q, k, i
<1>6. ASSUME k \in Telling(t, q)
      PROVE  i \in Weaknesses(p) /\ Expected(p)[i] = Result(t, q, k)
  <2>1. Table(p, q) = t /\ Telling(Table(p, q), q) # {}
    BY <1>4, <1>6
  <2>2. i \in Weaknesses(p)
    BY <1>5, <2>1 DEF Weaknesses
  <2>3. \A l \in Telling(t, q) : (\A j \in Telling(t, q) : l <= j) => l = k
    <3> SUFFICES ASSUME NEW l \in Telling(t, q), \A j \in Telling(t, q) : l <= j
                 PROVE  l = k
      OBVIOUS
    <3>1. l <= k /\ k <= l /\ l \in Nat /\ k \in Nat
      BY <1>2, <1>3, <1>6
    <3> QED
      BY <3>1
  <2>4. FirstOf(t, q) = Result(t, q, k)
    <3>1. k = CHOOSE l \in Telling(t, q) : \A j \in Telling(t, q) : l <= j
      BY <1>3, <1>6, <2>3
    <3> QED
      BY <3>1 DEF FirstOf
  <2> QED
    BY <1>5, <2>1, <2>2, <2>4 DEF Expected
<1>7. ASSUME k \notin Telling(t, q)
      PROVE  \A j \in Telling(t, q) : k + 1 <= j
  <2> TAKE j \in Telling(t, q)
  <2>1. k <= j /\ k # j /\ k \in Nat /\ j \in Nat
    BY <1>2, <1>3, <1>7
  <2> QED
    BY <2>1
<1>8. ASSUME k \notin Telling(t, q), ~ (k < Payloads[t])
      PROVE  Telling(t, q) = {}
  <2> SUFFICES ASSUME NEW j \in Telling(t, q)
               PROVE  FALSE
    OBVIOUS
  <2>1. j <= Payloads[t] /\ k + 1 <= j /\ k \in Nat /\ j \in Nat
    BY <1>2, <1>7, <1>8
  <2> QED
    BY <1>2, <1>8, <2>1
<1>9. Telling(t, q) = {} /\ t \notin {"sqli_error", "sqli_boolean"} => i \notin Weaknesses(p)
  BY <1>4, <1>5 DEF Weaknesses
<1> QED
  BY <1>2, <1>6, <1>7, <1>8, <1>9 DEF t, q, k, i

\* A probe that is done with a parameter, with a result or without one, begins the next; the
\* redirect probe ends with its first result.
LEMMA ParamEnds ==
    ASSUME NEW p \in Elements(Probes), AskedInv(p), ~ Done(p), site' = site,
           \/ /\ cursor[p].param \in Weaknesses(p)
              /\ found'[p] = Append(found[p], Expected(p)[cursor[p].param])
              /\ cursor'[p].param = (IF p = "open_redirect" THEN Len(ParamsOf(p)) ELSE cursor[p].param) + 1
           \/ /\ cursor[p].param \notin Weaknesses(p)
              /\ found'[p] = found[p]
              /\ cursor'[p].param = cursor[p].param + 1,
           ~ Done(p)' =>
              cursor'[p].k = 1 /\ cursor'[p].stage = IF p = "sqli" THEN "error" ELSE "payload"
    PROVE  AskedInv(p)'
<1> DEFINE i == cursor[p].param
           n == cursor'[p].param
           N == Len(ParamsOf(p))
<1>1. /\ i \in 1 .. N /\ N \in Nat
      /\ Reported(p) \in SUBSET Weaknesses(p) /\ Weaknesses(p) \in SUBSET (1 .. N)
  BY PayloadTells, PlacesInParams DEF AskedInv
<1>2. n \in 1 .. N + 1
  BY <1>1
<1>3. ~ Done(p)' => TableAt(p)' \in Kinds /\ TableAt(p)' \notin {"sqli_boolean", "sqli_time"}
  BY ProbesElements DEF TableAt, TableFor, Kinds
<1>4. PlaceInv(p)'
  <2>1. ASSUME ~ Done(p)'
        PROVE  cursor'[p].k \in 1 .. Payloads[TableAt(p)']
    BY <1>3, <2>1, KindsHavePayloads
  <2> QED
    BY <1>2, <2>1 DEF PlaceInv
<1>5. SilentInv(p)'
  <2> SUFFICES ASSUME ~ Done(p)'
               PROVE  SilentInv(p)'
    BY DEF SilentInv
  <2>1. \A j \in Telling(TableAt(p), Param(p))' : cursor'[p].k <= j
    <3>1. \A kind, q : \A j \in Telling(kind, q)' : 1 <= j
      <4>1. \A kind, q : Telling(kind, q)' = Telling(kind, q)
        BY SiteDecides
      <4>2. \A kind, q : \A j \in Telling(kind, q) : 1 <= j
        BY DEF Telling
      <4> QED
        BY <4>1, <4>2
    <3> QED
      BY <3>1
  <2>2. ASSUME p = "open_redirect"
        PROVE  \A j \in Weaknesses(p)' : n <= j
    <3>1. i \notin Weaknesses(p) /\ n = i + 1
      BY <1>1, <2>2, ParamsAreSeq DEF Done
    <3>2. \A j \in Weaknesses(p) : i <= j
      BY <2>2 DEF AskedInv, SilentInv
    <3>3. \A j \in Weaknesses(p) : i + 1 <= j
      <4> TAKE j \in Weaknesses(p)
      <4>1. i <= j /\ i # j /\ i \in Nat /\ j \in Nat
        BY <1>1, <3>1, <3>2
      <4> QED
        BY <4>1
    <3> QED
      BY <3>1, <3>3, SiteDecides
  <2>3. ~ (p = "sqli" /\ cursor'[p].stage = "false")
    OBVIOUS
  <2> QED
    BY <1>3, <2>1, <2>2, <2>3 DEF SilentInv
<1>6. PassedInv(p)'
  <2> DEFINE before == {j \in Reported(p) : j < i}
             after == {j \in Reported(p) : j < n}
  <2>1. found[p] = Selected(Expected(p), before)
    BY DEF AskedInv, PassedInv
  <2>2. found'[p] = Selected(Expected(p), after)
    <3>1. CASE i \in Weaknesses(p)
      <4>1. i \in Reported(p)
        BY <3>1 DEF Reported, AskedInv, SilentInv
      <4>2. after = before \cup {i}
        <5>1. CASE p = "open_redirect"
          <6>1. n = N + 1 /\ \A j \in Reported(p) : j = i
            <7>1. \A j \in Reported(p) : j <= i /\ i <= j /\ i \in Nat /\ j \in Nat
              BY <1>1, <3>1, <4>1, <5>1 DEF Reported
            <7> QED
              BY <3>1, <5>1, <7>1
          <6> QED
            BY <1>1, <4>1, <6>1
        <5>2. CASE p # "open_redirect"
          <6>1. n = i + 1
            BY <5>2
          <6>2. \A j \in Reported(p) : j \in Nat /\ (j < i + 1 <=> j < i \/ j = i)
            BY <1>1
          <6> QED
            BY <4>1, <6>1, <6>2
        <5> QED
          BY <5>1, <5>2
      <4>3. before \in SUBSET (1 .. N) /\ \A j \in before : j < i
        BY <1>1
      <4> HIDE DEF before, after
      <4>4. Selected(Expected(p), before \cup {i}) = Append(Selected(Expected(p), before), Expected(p)[i])
        BY <1>1, <4>3, SelectedGrows
      <4> QED
        BY <2>1, <3>1, <4>2, <4>4
    <3>2. CASE i \notin Weaknesses(p)
      <4>1. n = i + 1 /\ found'[p] = found[p]
        BY <3>2
      <4>2. \A j \in Reported(p) : j < i + 1 <=> j < i
        <5> TAKE j \in Reported(p)
        <5>1. j \in Nat /\ i \in Nat /\ j # i
          BY <1>1, <3>2
        <5> QED
          BY <5>1
      <4>3. after = before
        BY <4>1, <4>2
      <4> QED
        BY <2>1, <4>1, <4>3
    <3> QED
      BY <3>1, <3>2
  <2>3. after = {j \in Reported(p)' : j < n} /\ Expected(p)' = Expected(p)
    BY SiteDecides
  <2> QED
    BY <2>2, <2>3 DEF PassedInv
<1> QED
  BY <1>4, <1>5, <1>6 DEF AskedInv

\* A probe that stays at its parameter has found nothing new.
LEMMA ParamGoesOn ==
    ASSUME NEW p \in Elements(Probes), AskedInv(p), ~ Done(p), site' = site,
           found'[p] = found[p], cursor'[p].param = cursor[p].param,
           cursor'[p].k \in 1 .. Payloads[TableAt(p)'],
           \A j \in Telling(TableAt(p)', Param(p)) : cursor'[p].k <= j,
           TableAt(p)' \in {"sqli_boolean", "sqli_time"} => Telling("sqli_error", Param(p)) = {},
           TableAt(p)' = "sqli_time" => Telling("sqli_boolean", Param(p)) = {},
           p = "sqli" /\ cursor'[p].stage = "false" =>
              tautology' = Answer("page", Param(p), cursor'[p].k, "true")
    PROVE  AskedInv(p)'
<1>1. Done(p)' <=> Done(p)
  BY DEF Done
<1>2. Param(p)' = Param(p)
  BY DEF Param
<1>3. PlaceInv(p)'
  BY DEF AskedInv, PlaceInv
<1>4. SilentInv(p)'
  <2>1. Telling(TableAt(p), Param(p))' = Telling(TableAt(p)', Param(p))
    BY <1>2, SiteDecides
  <2>2. /\ Telling("sqli_error", Param(p))' = Telling("sqli_error", Param(p))
        /\ Telling("sqli_boolean", Param(p))' = Telling("sqli_boolean", Param(p))
        /\ Answer("page", Param(p), cursor[p].k, "true")' = Answer("page", Param(p), cursor'[p].k, "true")
    BY <1>2, SiteDecides
  <2>3. p = "open_redirect" => \A i \in Weaknesses(p)' : cursor'[p].param <= i
    BY SiteDecides DEF AskedInv, SilentInv
  <2> QED
    BY <2>1, <2>2, <2>3 DEF SilentInv
<1>5. PassedInv(p)'
  BY SiteDecides DEF AskedInv, PassedInv
<1> QED
  BY <1>3, <1>4, <1>5 DEF AskedInv

\* What a probe does leaves the others where they were.
LEMMA OthersKeep ==
    ASSUME NEW p \in Elements(Probes), AskedInv(p), site' = site,
           cursor'[p] = cursor[p], found'[p] = found[p], p = "sqli" => tautology' = tautology
    PROVE  AskedInv(p)'
<1>1. (Done(p)' <=> Done(p)) /\ Param(p)' = Param(p) /\ TableAt(p)' = TableAt(p)
  BY DEF Done, Param, TableAt, TableFor
<1>2. PlaceInv(p)'
  BY <1>1 DEF AskedInv, PlaceInv
<1>3. SilentInv(p)'
  <2>1. /\ Telling(TableAt(p), Param(p))' = Telling(TableAt(p), Param(p))
        /\ Telling("sqli_error", Param(p))' = Telling("sqli_error", Param(p))
        /\ Telling("sqli_boolean", Param(p))' = Telling("sqli_boolean", Param(p))
        /\ Answer("page", Param(p), cursor[p].k, "true")' = Answer("page", Param(p), cursor[p].k, "true")
        /\ Weaknesses(p)' = Weaknesses(p)
    BY <1>1, SiteDecides
  <2> QED
    BY <1>1, <2>1 DEF AskedInv, SilentInv
<1>4. PassedInv(p)'
  BY SiteDecides DEF AskedInv, PassedInv
<1> QED
  BY <1>2, <1>3, <1>4 DEF AskedInv

\* An unhindered step of one probe: its request is answered with the page.
Answered(p) ==
    /\ phase = "params" /\ phase' = phase /\ site' = site /\ results' = results /\ baseline' = 0
    /\ p # "sqli" => tautology' = tautology
    /\ \A r \in Elements(Probes) : r # p => cursor'[r] = cursor[r] /\ found'[r] = found[r]

LEMMA AnsweredKeeps ==
    ASSUME \A r \in Elements(Probes) : AskedInv(r),
           NEW p \in Elements(Probes), Answered(p), AskedInv(p)'
    PROVE  baseline' = 0 /\ (\A r \in Elements(Probes) : AskedInv(r)') /\ KeptInv'
<1>1. ASSUME NEW r \in Elements(Probes)
      PROVE  AskedInv(r)'
  <2>1. CASE r = p
    BY <2>1
  <2>2. CASE r # p
    <3>1. cursor'[r] = cursor[r] /\ found'[r] = found[r] /\ site' = site /\ (r = "sqli" => tautology' = tautology)
      BY <2>2 DEF Answered
    <3> QED
      BY <3>1, OthersKeep
  <2> QED
    BY <2>1, <2>2
<1>2. KeptInv'
  BY DEF KeptInv, Answered
<1> QED
  BY <1>1, <1>2 DEF Answered

\* Try without a reply that hinders, and with what the page shows as a set.
LEMMA TryUnhindered ==
    ASSUME \A p \in Elements(Probes) : AskedInv(p),
           \A reply : Request(reply) => reply = "page"
    PROVE  LET tries(p) ==
                 /\ phase = "params" /\ ~ Done(p)
                 /\ UNCHANGED <<site, phase, tautology, baseline, slows, results>>
                 /\ \/ /\ cursor[p].k \in Telling(p, Param(p))
                       /\ Report(p, p, cursor[p].k)
                       /\ IF p = "open_redirect" THEN LastParam(p) ELSE NextParam(p)
                    \/ /\ cursor[p].k \notin Telling(p, Param(p)) /\ found' = found
                       /\ IF cursor[p].k < Payloads[p] THEN Payload(p) ELSE NextParam(p)
           IN /\ XSSReflectionProbe => tries("xss")
              /\ SSRFProbe => tries("ssrf")
              /\ PathTraversalProbe => tries("path_traversal")
              /\ TemplateInjectionProbe => tries("ssti")
              /\ OpenRedirectProbe => tries("open_redirect")
<1>1. \A p \in Elements(Probes) \ {"sqli"} : ~ Done(p) => cursor[p].k \in 1 .. Payloads[p]
  BY DEF AskedInv, PlaceInv, TableAt, TableFor
<1>2. \A p \in Elements(Probes) \ {"sqli"} : ~ Done(p) =>
        LET k == cursor[p].k
            q == Param(p)
        IN /\ p = "xss" => (k \in Telling(p, q) <=> Reflected("page", q, k))
           /\ p = "ssrf" => (k \in Telling(p, q) <=> Connects("page", q, k))
           /\ p = "path_traversal" => (k \in Telling(p, q) <=> Discloses("page", q, k))
           /\ p = "ssti" => (k \in Telling(p, q) <=> Evaluated("page", q, k))
           /\ p = "open_redirect" => (k \in Telling(p, q) <=> LeadsAway("page", q, k))
  BY <1>1 DEF Telling
<1> QED
  BY <1>2, ProbesElements
     DEF XSSReflectionProbe, SSRFProbe, PathTraversalProbe, TemplateInjectionProbe, OpenRedirectProbe, Try

LEMMA TryIsAsked ==
    ASSUME ProbesInv, \A p \in Elements(Probes) : AskedInv(p), baseline = 0,
           \A reply : Request(reply) => reply = "page",
           \/ XSSReflectionProbe \/ SSRFProbe \/ PathTraversalProbe
           \/ TemplateInjectionProbe \/ OpenRedirectProbe
    PROVE  \E p \in Elements(Probes) : Answered(p) /\ AskedInv(p)'
<1> DEFINE tries(p) ==
             /\ phase = "params" /\ ~ Done(p)
             /\ UNCHANGED <<site, phase, tautology, baseline, slows, results>>
             /\ \/ /\ cursor[p].k \in Telling(p, Param(p))
                   /\ Report(p, p, cursor[p].k)
                   /\ IF p = "open_redirect" THEN LastParam(p) ELSE NextParam(p)
                \/ /\ cursor[p].k \notin Telling(p, Param(p)) /\ found' = found
                   /\ IF cursor[p].k < Payloads[p] THEN Payload(p) ELSE NextParam(p)
<1>1. PICK p \in Elements(Probes) \ {"sqli"} : tries(p)
  BY TryUnhindered, ProbesElements
<1>2. CursorShape /\ DOMAIN found = Elements(Probes) /\ AskedInv(p)
  BY DEF ProbesInv, GatheredInv
<1> DEFINE k == cursor[p].k
           q == Param(p)
           i == cursor[p].param
<1>3. /\ i \in 1 .. Len(ParamsOf(p)) /\ k \in 1 .. Payloads[p]
      /\ Payloads[p] \in Nat
      /\ k \in Telling(p, q) => i \in Weaknesses(p) /\ Expected(p)[i] = Result(p, q, k)
      /\ k \notin Telling(p, q) => \A j \in Telling(p, q) : k + 1 <= j
      /\ k \notin Telling(p, q) /\ ~ (k < Payloads[p]) => i \notin Weaknesses(p)
  <2>1. TableAt(p) = p /\ p \notin {"sqli_error", "sqli_boolean"}
    BY ProbesElements DEF TableAt, TableFor
  <2> QED
    BY <1>1, <1>2, <2>1, PayloadTells DEF AskedInv
<1>4. Answered(p)
  <2>1. \A r \in Elements(Probes) : r # p => cursor'[r] = cursor[r]
    BY <1>1, <1>2, CursorMoves
  <2>2. \A r \in Elements(Probes) : r # p => found'[r] = found[r]
    BY <1>1, <1>2 DEF Report
  <2> QED
    BY <1>1, <2>1, <2>2 DEF Answered
<1>5. AskedInv(p)'
  <2>1. CASE /\ k \in Telling(p, q)
             /\ Report(p, p, k)
             /\ IF p = "open_redirect" THEN LastParam(p) ELSE NextParam(p)
    <3>1. found'[p] = Append(found[p], Expected(p)[i])
      BY <1>2, <1>3, <2>1 DEF Report
    <3>2. cursor'[p].param = (IF p = "open_redirect" THEN Len(ParamsOf(p)) ELSE i) + 1
      BY <1>2, <2>1, CursorGoes
    <3>3. ~ Done(p)' => cursor'[p].k = 1 /\ cursor'[p].stage = IF p = "sqli" THEN "error" ELSE "payload"
      <4>1. CASE p = "open_redirect"
        BY <3>2, <4>1, ParamsAreSeq DEF Done
      <4>2. CASE p # "open_redirect"
        BY <1>2, <2>1, <4>2, CursorGoes, CursorMoves
      <4> QED
        BY <4>1, <4>2
    <3> QED
      BY <1>1, <1>2, <1>3, <2>1, <3>1, <3>2, <3>3, ParamEnds
  <2>2. CASE k \notin Telling(p, q) /\ found' = found /\ k < Payloads[p] /\ Payload(p)
    <3>1. cursor'[p].param = i /\ cursor'[p].k = k + 1
      BY <1>2, <2>2, CursorGoes
    <3>2. TableAt(p)' = p /\ p \notin {"sqli_boolean", "sqli_time"}
      BY ProbesElements DEF TableAt, TableFor
    <3>3. k + 1 \in 1 .. Payloads[p]
      BY <1>3, <2>2
    <3> QED
      BY <1>1, <1>2, <1>3, <2>2, <3>1, <3>2, <3>3, ParamGoesOn
  <2>3. CASE k \notin Telling(p, q) /\ found' = found /\ ~ (k < Payloads[p]) /\ NextParam(p)
    <3>1. /\ cursor'[p].param = i + 1 /\ cursor'[p].k = 1
          /\ cursor'[p].stage = IF p = "sqli" THEN "error" ELSE "payload"
      BY <1>2, <2>3, CursorGoes, CursorMoves
    <3> QED
      BY <1>1, <1>2, <1>3, <2>3, <3>1, ParamEnds
  <2> QED
    BY <1>1, <2>1, <2>2, <2>3
<1> QED
  BY <1>4, <1>5

\* The same for the SQL probe, whose tables are its stages.
LEMMA SQLUnhindered ==
    ASSUME ProbesInv, AskedInv("sqli"), baseline = 0, slows = 0, slows' = 0,
           \A reply : Request(reply) => reply = "page",
           ErrorBased \/ BooleanTrue \/ BooleanFalse \/ Baseline \/ TimeBased
    PROVE  LET p == "sqli"
               k == cursor[p].k
               told == k \in Telling(TableAt(p), Param(p))
           IN /\ phase = "params" /\ ~ Done(p)
              /\ UNCHANGED <<site, phase, results>> /\ baseline' = 0
              /\ \/ told /\ Report(p, TableAt(p), k) /\ NextParam(p)
                 \/ /\ ~ told /\ found' = found /\ k < Payloads[TableAt(p)]
                    /\ \/ Payload(p) /\ cursor[p].stage \notin {"true", "false", "baseline"}
                       \/ NextPair(k) /\ cursor[p].stage = "false"
                 \/ /\ ~ told /\ found' = found /\ ~ (k < Payloads[TableAt(p)])
                    /\ \/ cursor[p].stage = "error" /\ Stage(p, "true")
                       \/ cursor[p].stage = "false" /\ NextPair(k)
                       \/ TableAt(p) = "sqli_time" /\ NextParam(p)
                 \/ /\ found' = found /\ cursor[p].stage = "true"
                    /\ tautology' = Answer("page", Param(p), k, "true")
                    /\ cursor' = [cursor EXCEPT ![p].stage = "false"]
                 \/ found' = found /\ cursor[p].stage = "baseline" /\ Stage(p, "sleep")
<1> DEFINE p == "sqli"
           k == cursor[p].k
           q == Param(p)
<1>1. PICK t : t = TableAt(p)
  OBVIOUS
<1>2. ~ Done(p) => k \in 1 .. Payloads[t]
  BY <1>1 DEF AskedInv, PlaceInv
<1>3. \A reply : Request(reply) => reply = "page"
  OBVIOUS
<1>4. CASE ErrorBased
  <2>1. /\ phase = "params" /\ ~ Done(p) /\ cursor[p].stage = "error" /\ t = "sqli_error"
        /\ UNCHANGED <<site, phase, results, baseline>>
    BY <1>1, <1>4 DEF ErrorBased, SQLAt, SQLUnchanged, TableAt, TableFor
  <2>2. k \in Telling(t, q) <=> SqlError("page", q, k)
    BY <1>2, <2>1 DEF Telling
  <2>3. \/ SqlError("page", q, k) /\ Report(p, "sqli_error", k) /\ NextParam(p)
        \/ /\ ~ SqlError("page", q, k) /\ found' = found
           /\ IF k < Payloads["sqli_error"] THEN Payload(p) ELSE Stage(p, "true")
    BY <1>3, <1>4 DEF ErrorBased
  <2> QED
    BY <1>1, <2>1, <2>2, <2>3
<1>5. CASE BooleanTrue
  <2>1. /\ phase = "params" /\ ~ Done(p) /\ cursor[p].stage = "true"
        /\ UNCHANGED <<site, phase, results, baseline, found>>
    BY <1>5 DEF BooleanTrue, SQLAt, SQLUnchanged
  <2>2. /\ tautology' = Answer("page", q, k, "true")
        /\ cursor' = [cursor EXCEPT ![p].stage = "false"]
    BY <1>3, <1>5 DEF BooleanTrue
  <2> QED
    BY <2>1, <2>2
<1>6. CASE BooleanFalse
  <2>1. /\ phase = "params" /\ ~ Done(p) /\ cursor[p].stage = "false" /\ t = "sqli_boolean"
        /\ UNCHANGED <<site, phase, results, baseline>>
    BY <1>1, <1>6 DEF BooleanFalse, SQLAt, SQLUnchanged, TableAt, TableFor
  <2>2. tautology = Answer("page", q, k, "true")
    BY <2>1 DEF AskedInv, SilentInv
  <2>3. k \in Telling(t, q) <=> Different(tautology, Answer("page", q, k, "false"))
    BY <1>2, <2>1, <2>2 DEF Telling, Differs
  <2>4. \/ Different(tautology, Answer("page", q, k, "false")) /\ Report(p, "sqli_boolean", k) /\ NextParam(p)
        \/ ~ Different(tautology, Answer("page", q, k, "false")) /\ NextPair(k) /\ found' = found
    BY <1>3, <1>6 DEF BooleanFalse
  <2> QED
    BY <1>1, <2>1, <2>3, <2>4
<1>7. CASE Baseline
  <2>1. /\ phase = "params" /\ ~ Done(p) /\ cursor[p].stage = "baseline"
        /\ UNCHANGED <<site, phase, results, found>>
    BY <1>7 DEF Baseline, SQLAt, SQLUnchanged
  <2>2. PICK slow \in BOOLEAN : Slowness(slow) /\ baseline' = (IF slow THEN 2 ELSE 0) /\ Stage(p, "sleep")
    BY <1>3, <1>7 DEF Baseline
  <2>3. ~ slow
    BY <2>2 DEF Slowness
  <2> QED
    BY <2>1, <2>2, <2>3
<1>8. CASE TimeBased
  <2>1. /\ phase = "params" /\ ~ Done(p) /\ cursor[p].stage = "sleep" /\ t = "sqli_time"
        /\ UNCHANGED <<site, phase, results>>
    BY <1>1, <1>8 DEF TimeBased, SQLAt, SQLUnchanged, TableAt, TableFor
  <2>2. PICK slow \in BOOLEAN :
           LET hit == MuchLonger(Delay("page", q, k, slow), baseline)
           IN /\ Slowness(slow)
              /\ \/ hit /\ Report(p, "sqli_time", k) /\ NextParam(p)
                 \/ /\ ~ hit /\ found' = found
                    /\ IF k < Payloads["sqli_time"] THEN Payload(p) ELSE NextParam(p)
              /\ baseline' = IF hit \/ k = Payloads["sqli_time"] THEN 0 ELSE baseline
    BY <1>3, <1>8 DEF TimeBased
  <2>3. ~ slow
    BY <2>2 DEF Slowness
  <2>4. k \in Telling(t, q) <=> MuchLonger(Delay("page", q, k, slow), baseline)
    <3>1. k \in Telling(t, q) <=> Shows("page", "sqli_time", q, k, "sleeps")
      BY <1>2, <2>1 DEF Telling
    <3>2. MuchLonger(Delay("page", q, k, slow), baseline) <=> Shows("page", "sqli_time", q, k, "sleeps")
      BY <2>3 DEF MuchLonger, Delay
    <3> QED
      BY <3>1, <3>2
  <2> QED
    BY <1>1, <2>1, <2>2, <2>4
<1> QED
  BY <1>4, <1>5, <1>6, <1>7, <1>8

LEMMA NextPairGoes ==
    ASSUME CursorShape, NEW k, NextPair(k)
    PROVE  /\ \A r \in Elements(Probes) : r # "sqli" => cursor'[r] = cursor[r]
           /\ cursor'["sqli"].param = cursor["sqli"].param
           /\ k < Payloads["sqli_boolean"] => cursor'["sqli"].stage = "true" /\ cursor'["sqli"].k = k + 1
           /\ ~ (k < Payloads["sqli_boolean"]) => cursor'["sqli"].stage = "baseline" /\ cursor'["sqli"].k = 1
<1>1. CASE k < Payloads["sqli_boolean"]
  <2>1. cursor' = [cursor EXCEPT !["sqli"].stage = "true", !["sqli"].k = k + 1]
    BY <1>1 DEF NextPair
  <2>2. /\ "sqli" \in Elements(Probes) /\ DOMAIN cursor = Elements(Probes)
        /\ cursor["sqli"] = [param |-> cursor["sqli"].param, stage |-> cursor["sqli"].stage,
                            k |-> cursor["sqli"].k]
    BY ProbesElements DEF CursorShape
  <2>3. /\ \A r \in Elements(Probes) : r # "sqli" => cursor'[r] = cursor[r]
        /\ cursor'["sqli"] = [cursor["sqli"] EXCEPT !.stage = "true", !.k = k + 1]
    BY <2>1, <2>2
  <2>4. cursor'["sqli"] = [param |-> cursor["sqli"].param, stage |-> "true", k |-> k + 1]
    BY <2>2, <2>3
  <2> QED
    BY <1>1, <2>3, <2>4
<1>2. CASE ~ (k < Payloads["sqli_boolean"])
  BY <1>2, ProbesElements, CursorGoes DEF NextPair
<1> QED
  BY <1>1, <1>2

LEMMA SQLIsAsked ==
    ASSUME ProbesInv, AskedInv("sqli"), baseline = 0, slows = 0, slows' = 0,
           \A reply : Request(reply) => reply = "page",
           ErrorBased \/ BooleanTrue \/ BooleanFalse \/ Baseline \/ TimeBased
    PROVE  Answered("sqli") /\ AskedInv("sqli")'
<1> DEFINE p == "sqli"
           k == cursor[p].k
           q == Param(p)
           i == cursor[p].param
           goesOn == /\ ~ (k \in Telling(TableAt(p), q)) /\ found' = found /\ k < Payloads[TableAt(p)]
                     /\ \/ Payload(p) /\ cursor[p].stage \notin {"true", "false", "baseline"}
                        \/ NextPair(k) /\ cursor[p].stage = "false"
           isOver == /\ ~ (k \in Telling(TableAt(p), q)) /\ found' = found /\ ~ (k < Payloads[TableAt(p)])
                     /\ \/ cursor[p].stage = "error" /\ Stage(p, "true")
                        \/ cursor[p].stage = "false" /\ NextPair(k)
                        \/ TableAt(p) = "sqli_time" /\ NextParam(p)
           hasHalf == /\ found' = found /\ cursor[p].stage = "true"
                      /\ tautology' = Answer("page", q, k, "true")
                      /\ cursor' = [cursor EXCEPT ![p].stage = "false"]
           compares == found' = found /\ cursor[p].stage = "baseline" /\ Stage(p, "sleep")
<1>1. /\ phase = "params" /\ ~ Done(p)
      /\ UNCHANGED <<site, phase, results>> /\ baseline' = 0
      /\ \/ k \in Telling(TableAt(p), q) /\ Report(p, TableAt(p), k) /\ NextParam(p)
         \/ goesOn \/ isOver \/ hasHalf \/ compares
  BY SQLUnhindered
<1>2. CursorShape /\ DOMAIN found = Elements(Probes) /\ p \in Elements(Probes)
  BY ProbesElements DEF ProbesInv, GatheredInv
<1>3. PICK t : t = TableAt(p)
  OBVIOUS
<1>4. /\ i \in 1 .. Len(ParamsOf(p)) /\ k \in 1 .. Payloads[t]
      /\ Payloads[t] \in Nat
      /\ k \in Telling(t, q) => i \in Weaknesses(p) /\ Expected(p)[i] = Result(t, q, k)
      /\ k \notin Telling(t, q) => \A j \in Telling(t, q) : k + 1 <= j
      /\ k \notin Telling(t, q) /\ ~ (k < Payloads[t]) => Telling(t, q) = {}
      /\ Telling(t, q) = {} /\ t \notin {"sqli_error", "sqli_boolean"} => i \notin Weaknesses(p)
  BY <1>1, <1>2, <1>3, PayloadTells DEF AskedInv
<1>5. /\ \A j \in Telling(t, q) : k <= j
      /\ t \in {"sqli_boolean", "sqli_time"} => Telling("sqli_error", q) = {}
      /\ t = "sqli_time" => Telling("sqli_boolean", q) = {}
  BY <1>1, <1>3 DEF AskedInv, SilentInv
<1>6. /\ t = IF cursor[p].stage = "error" THEN "sqli_error"
             ELSE IF cursor[p].stage \in {"true", "false"} THEN "sqli_boolean" ELSE "sqli_time"
      /\ TableAt(p)' = IF cursor'[p].stage = "error" THEN "sqli_error"
                       ELSE IF cursor'[p].stage \in {"true", "false"} THEN "sqli_boolean" ELSE "sqli_time"
  BY <1>3 DEF TableAt, TableFor
<1>7. \A kind \in Kinds : 1 \in 1 .. Payloads[kind] /\ \A r : \A j \in Telling(kind, r) : 1 <= j
  BY KindsHavePayloads
<1>8. {"sqli_error", "sqli_boolean", "sqli_time"} \in SUBSET Kinds
  BY DEF Kinds
<1>9. CASE k \in Telling(t, q) /\ Report(p, t, k) /\ NextParam(p)
  <2>1. /\ cursor'[p].param = i + 1 /\ cursor'[p].k = 1 /\ cursor'[p].stage = "error"
        /\ \A r \in Elements(Probes) : r # p => cursor'[r] = cursor[r]
    BY <1>2, <1>9, CursorGoes, CursorMoves
  <2>2. /\ found'[p] = Append(found[p], Expected(p)[i])
        /\ \A r \in Elements(Probes) : r # p => found'[r] = found[r]
    BY <1>2, <1>4, <1>9 DEF Report
  <2>3. AskedInv(p)'
    BY <1>1, <1>2, <1>4, <1>9, <2>1, <2>2, ParamEnds
  <2> QED
    BY <1>1, <2>1, <2>2, <2>3 DEF Answered
<1>10. CASE goesOn
  <2>1. k \notin Telling(t, q) /\ k < Payloads[t] /\ found' = found
    BY <1>3, <1>10
  <2>2. /\ cursor'[p].param = i /\ cursor'[p].k = k + 1 /\ TableAt(p)' = t /\ cursor'[p].stage # "false"
        /\ \A r \in Elements(Probes) : r # p => cursor'[r] = cursor[r]
    <3>1. CASE Payload(p) /\ cursor[p].stage \notin {"true", "false", "baseline"}
      <4>1. /\ cursor'[p].param = i /\ cursor'[p].k = k + 1 /\ cursor'[p].stage = cursor[p].stage
            /\ \A r \in Elements(Probes) : r # p => cursor'[r] = cursor[r]
        BY <1>2, <3>1, CursorGoes, CursorMoves
      <4> QED
        BY <1>6, <3>1, <4>1
    <3>2. CASE NextPair(k) /\ cursor[p].stage = "false"
      <4>1. t = "sqli_boolean"
        BY <1>6, <3>2
      <4>2. /\ cursor'[p].param = i /\ cursor'[p].k = k + 1 /\ cursor'[p].stage = "true"
            /\ \A r \in Elements(Probes) : r # p => cursor'[r] = cursor[r]
        BY <1>2, <2>1, <3>2, <4>1, NextPairGoes
      <4> QED
        BY <1>6, <4>1, <4>2
    <3> QED
      BY <1>10, <3>1, <3>2
  <2>3. k + 1 \in 1 .. Payloads[t]
    BY <1>4, <2>1
  <2>4. AskedInv(p)'
    BY <1>1, <1>2, <1>4, <1>5, <2>1, <2>2, <2>3, ParamGoesOn
  <2> QED
    BY <1>1, <2>1, <2>2, <2>4 DEF Answered
<1>11. CASE isOver
  <2>1. k \notin Telling(t, q) /\ ~ (k < Payloads[t]) /\ Telling(t, q) = {} /\ found' = found
    BY <1>3, <1>4, <1>11
  <2>2. CASE cursor[p].stage = "error" /\ Stage(p, "true")
    <3>1. /\ cursor'[p].param = i /\ cursor'[p].k = 1 /\ cursor'[p].stage = "true"
          /\ \A r \in Elements(Probes) : r # p => cursor'[r] = cursor[r]
      BY <1>2, <2>2, CursorGoes
    <3>2. TableAt(p)' = "sqli_boolean" /\ t = "sqli_error"
      BY <1>6, <2>2, <3>1
    <3>3. AskedInv(p)'
      BY <1>1, <1>2, <1>7, <1>8, <2>1, <3>1, <3>2, ParamGoesOn
    <3> QED
      BY <1>1, <2>1, <3>1, <3>3 DEF Answered
  <2>3. CASE cursor[p].stage = "false" /\ NextPair(k)
    <3>1. t = "sqli_boolean"
      BY <1>6, <2>3
    <3>2. /\ cursor'[p].param = i /\ cursor'[p].k = 1 /\ cursor'[p].stage = "baseline"
          /\ \A r \in Elements(Probes) : r # p => cursor'[r] = cursor[r]
      BY <1>2, <2>1, <2>3, <3>1, NextPairGoes
    <3>3. TableAt(p)' = "sqli_time"
      BY <1>6, <3>2
    <3>4. AskedInv(p)'
      BY <1>1, <1>2, <1>5, <1>7, <1>8, <2>1, <3>1, <3>2, <3>3, ParamGoesOn
    <3> QED
      BY <1>1, <2>1, <3>2, <3>4 DEF Answered
  <2>4. CASE TableAt(p) = "sqli_time" /\ NextParam(p)
    <3>1. /\ cursor'[p].param = i + 1 /\ cursor'[p].k = 1 /\ cursor'[p].stage = "error"
          /\ \A r \in Elements(Probes) : r # p => cursor'[r] = cursor[r]
      BY <1>2, <2>4, CursorGoes, CursorMoves
    <3>2. i \notin Weaknesses(p)
      BY <1>3, <1>4, <2>1, <2>4
    <3>3. AskedInv(p)'
      BY <1>1, <1>2, <2>1, <3>1, <3>2, ParamEnds
    <3> QED
      BY <1>1, <2>1, <3>1, <3>3 DEF Answered
  <2> QED
    BY <1>11, <2>2, <2>3, <2>4
<1>12. CASE hasHalf
  <2>1. /\ cursor'[p].param = i /\ cursor'[p].k = k
        /\ cursor'[p].stage = "false"
        /\ \A r \in Elements(Probes) : r # p => cursor'[r] = cursor[r]
    BY <1>2, <1>12 DEF CursorShape
  <2>2. TableAt(p)' = "sqli_boolean" /\ t = "sqli_boolean"
    BY <1>6, <1>12, <2>1
  <2>3. AskedInv(p)'
    BY <1>1, <1>2, <1>4, <1>5, <1>12, <2>1, <2>2, ParamGoesOn
  <2> QED
    BY <1>1, <1>12, <2>1, <2>3 DEF Answered
<1>13. CASE compares
  <2>1. /\ cursor'[p].param = i /\ cursor'[p].k = 1 /\ cursor'[p].stage = "sleep"
        /\ \A r \in Elements(Probes) : r # p => cursor'[r] = cursor[r]
    BY <1>2, <1>13, CursorGoes
  <2>2. TableAt(p)' = "sqli_time" /\ t = "sqli_time"
    BY <1>6, <1>13, <2>1
  <2>3. AskedInv(p)'
    BY <1>1, <1>2, <1>5, <1>7, <1>8, <1>13, <2>1, <2>2, ParamGoesOn
  <2> QED
    BY <1>1, <1>13, <2>1, <2>3 DEF Answered
<1> QED
  BY <1>1, <1>3, <1>9, <1>10, <1>11, <1>12, <1>13

LEMMA UnhinderedInit == ProbesInit => UnhinderedInv
<1> SUFFICES ASSUME ProbesInit, Params # <<>>
             PROVE  baseline = 0 /\ (\A p \in Elements(Probes) : AskedInv(p)) /\ KeptInv
  BY DEF UnhinderedInv, Unhindered, ProbesInit
<1>1. ASSUME NEW p \in Elements(Probes)
      PROVE  AskedInv(p)
  <2>1. /\ cursor[p].param = 1 /\ cursor[p].k = 1 /\ found[p] = <<>>
        /\ cursor[p].stage = IF p = "sqli" THEN "error" ELSE "payload"
    BY DEF ProbesInit, Start
  <2>2. TableAt(p) \in Kinds /\ TableAt(p) \notin {"sqli_boolean", "sqli_time"}
    BY <2>1, ProbesElements DEF TableAt, TableFor, Kinds
  <2>3. PlaceInv(p)
    BY <2>1, <2>2, KindsHavePayloads, ParamsAreSeq DEF PlaceInv
  <2>4. SilentInv(p)
    <3>1. \A i \in Weaknesses(p) : 1 <= i
      BY PlacesInParams
    <3>2. \A kind, q : \A j \in Telling(kind, q) : 1 <= j
      BY DEF Telling
    <3> QED
      BY <2>1, <2>2, <3>1, <3>2 DEF SilentInv
  <2>5. PassedInv(p)
    <3>1. {i \in Reported(p) : i < 1} = {}
      BY PlacesInParams, ParamsAreSeq
    <3>2. Selected(Expected(p), {}) = <<>>
      BY FS_EmptySet DEF Selected
    <3> QED
      BY <2>1, <3>1, <3>2 DEF PassedInv
  <2> QED
    BY <2>3, <2>4, <2>5 DEF AskedInv
<1>2. KeptInv
  BY DEF ProbesInit, KeptInv
<1> QED
  BY <1>1, <1>2 DEF ProbesInit

\* run_all gathers what every probe should have found.
LEMMA GatheredIsSequential ==
    ASSUME \A p \in Elements(Probes) : AskedInv(p) /\ Done(p)
    PROVE  Gathered = SequentialOrder
<1>1. ASSUME NEW p \in Elements(Probes)
      PROVE  found[p] = Sequential(p)
  <2>1. /\ Reported(p) \in SUBSET (1 .. Len(ParamsOf(p))) /\ Len(ParamsOf(p)) \in Nat
        /\ cursor[p].param = Len(ParamsOf(p)) + 1
    BY PlacesInParams, ParamsAreSeq DEF AskedInv, PlaceInv, Done
  <2>2. {i \in Reported(p) : i < cursor[p].param} = Reported(p)
    BY <2>1
  <2> QED
    BY <2>2 DEF AskedInv, PassedInv, Sequential
<1>2. \A i \in DOMAIN Probes : found[Probes[i]] = Sequential(Probes[i])
  BY <1>1 DEF Elements
<1>3. [i \in DOMAIN Probes |-> found[Probes[i]]] = [i \in DOMAIN Probes |-> Sequential(Probes[i])]
  BY <1>2
<1> QED
  BY <1>3 DEF Gathered, SequentialOrder

\* What comes after the gathered results leaves them in front.
LEMMA PrefixKept ==
    ASSUME NEW s, IsSeq(s), NEW t, IsSeq(t), NEW u, IsSeq(u), Len(u) <= Len(s),
           \A i \in DOMAIN u : s[i] = u[i]
    PROVE  Len(u) <= Len(s \o t) /\ \A i \in DOMAIN u : (s \o t)[i] = u[i]
<1>1. s \in Seq(Elements(s) \cup Elements(t)) /\ t \in Seq(Elements(s) \cup Elements(t))
  BY DEF IsSeq
<1>2. /\ Len(s \o t) = Len(s) + Len(t) /\ \A i \in 1 .. Len(s) : (s \o t)[i] = s[i]
      /\ Len(s) \in Nat /\ Len(t) \in Nat
  BY <1>1
<1>3. DOMAIN u = 1 .. Len(u) /\ Len(u) \in Nat
  BY DEF IsSeq
<1>4. \A i \in DOMAIN u : i \in 1 .. Len(s)
  BY <1>2, <1>3
<1> QED
  BY <1>2, <1>3, <1>4

\* run_all after the gather.
LEMMA RunAllKeeps ==
    ASSUME ProbesInv, \A p \in Elements(Probes) : AskedInv(p), KeptInv,
           Collect \/ CORSProbe \/ RateLimitProbe
    PROVE  /\ UNCHANGED <<site, cursor, found, tautology, baseline>>
           /\ KeptInv'
<1>1. UNCHANGED <<site, cursor, found, tautology, baseline>>
  BY DEF Collect, CORSProbe, RateLimitProbe
<1>2. SequentialOrder' = SequentialOrder
  BY <1>1, SiteDecides
<1>3. PICK u : u = SequentialOrder
  OBVIOUS
<1>4. PICK s : s = IF phase = "params" THEN Gathered ELSE results
  OBVIOUS
<1>5. IsSeq(s) /\ IsSeq(u) /\ Len(u) <= Len(s) /\ \A i \in DOMAIN u : s[i] = u[i]
  <2>1. CASE Collect
    <3>1. s = Gathered /\ Gathered = SequentialOrder
      BY <1>4, <2>1, GatheredIsSequential DEF Collect
    <3>2. IsSeq(Gathered)
      BY GatheredElements DEF ProbesInv
    <3>3. Len(u) \in Nat
      BY <1>3, <3>1, <3>2 DEF IsSeq
    <3> QED
      BY <1>3, <3>1, <3>2, <3>3
  <2>2. CASE CORSProbe \/ RateLimitProbe
    <3>1. phase # "params"
      BY <2>2 DEF CORSProbe, RateLimitProbe
    <3> QED
      BY <1>3, <1>4, <3>1 DEF KeptInv, ProbesInv, ResultsInv
  <2> QED
    BY <2>1, <2>2
<1>6. \E t : IsSeq(t) /\ results' = s \o t
  <2>1. CASE Collect
    <3>1. results' = s \o CSRFResults
      BY <1>4, <2>1 DEF Collect
    <3> QED
      BY <3>1, FormsAreOpen DEF ProbesInv, Counters
  <2>2. CASE CORSProbe
    <3>1. PICK t : results' = results \o t /\ (t = CORSResults(origin) \/ t = <<>>)
      BY <2>2 DEF CORSProbe
    <3>2. s = results
      BY <1>4, <2>2 DEF CORSProbe
    <3> QED
      BY <3>1, <3>2, OriginsAreReported, EmptyHasNoElements
  <2>3. CASE RateLimitProbe
    <3>1. PICK f : f = Result("rate_limit_missing", "url", 0)
      OBVIOUS
    <3>2. s = results /\ (results' = results \/ results' = Append(results, f))
      BY <1>4, <2>3, <3>1 DEF RateLimitProbe
    <3>3. results \o <<>> = results /\ results \o <<f>> = Append(results, f)
      BY DEF ProbesInv, ResultsInv, IsSeq
    <3>4. IsSeq(<<>>) /\ IsSeq(<<f>>)
      BY DEF IsSeq, Elements
    <3> QED
      BY <3>2, <3>3, <3>4
  <2> QED
    BY <2>1, <2>2, <2>3
<1>7. Len(u) <= Len(results') /\ \A i \in DOMAIN u : results'[i] = u[i]
  BY <1>5, <1>6, PrefixKept
<1> QED
  BY <1>1, <1>2, <1>3, <1>5, <1>7 DEF KeptInv

LEMMA UnhinderedStep ==
    ASSUME ProbesInv, UnhinderedInv, [ProbesNext]_probeVars
    PROVE  UnhinderedInv'
<1>1. errors \in Nat /\ Counters
  BY DEF UnhinderedInv, ProbesInv
<1>2. site' = site /\ slows' \in Nat /\ slows' >= slows
  <2>1. \A slow : Slowness(slow) => slows' \in Nat /\ slows' >= slows
    BY <1>1 DEF Slowness, Counters
  <2>2. CASE \/ XSSReflectionProbe \/ SSRFProbe \/ PathTraversalProbe
             \/ TemplateInjectionProbe \/ OpenRedirectProbe
    BY <1>1, <2>2 DEF XSSReflectionProbe, SSRFProbe, PathTraversalProbe, TemplateInjectionProbe,
                OpenRedirectProbe, Try, Counters
  <2>3. CASE ErrorBased \/ BooleanTrue \/ BooleanFalse
    BY <1>1, <2>3 DEF ErrorBased, BooleanTrue, BooleanFalse, SQLUnchanged, Counters
  <2>4. CASE Baseline \/ TimeBased
    BY <2>1, <2>4 DEF Baseline, TimeBased, SQLUnchanged
  <2>5. CASE Collect \/ CORSProbe \/ RateLimitProbe \/ UNCHANGED probeVars
    BY <1>1, <2>5 DEF Collect, CORSProbe, RateLimitProbe, probeVars, Counters
  <2> QED
    BY <2>2, <2>3, <2>4, <2>5 DEF ProbesNext
<1>3. (errors' = errors /\ left' = left) \/ \E reply : Request(reply)
  <2>1. CASE \/ XSSReflectionProbe \/ SSRFProbe \/ PathTraversalProbe
             \/ TemplateInjectionProbe \/ OpenRedirectProbe
    BY <2>1 DEF XSSReflectionProbe, SSRFProbe, PathTraversalProbe, TemplateInjectionProbe,
                OpenRedirectProbe, Try
  <2>2. CASE ErrorBased \/ BooleanTrue \/ BooleanFalse \/ Baseline \/ TimeBased
    BY <2>2 DEF ErrorBased, BooleanTrue, BooleanFalse, Baseline, TimeBased
  <2>3. CASE Collect \/ CORSProbe \/ RateLimitProbe \/ UNCHANGED probeVars
    BY <2>3 DEF Collect, CORSProbe, RateLimitProbe, probeVars
  <2> QED
    BY <2>1, <2>2, <2>3 DEF ProbesNext
<1>4. errors' \in Nat
  BY <1>1, <1>3 DEF Request
<1>5. ASSUME Unhindered'
      PROVE  baseline' = 0 /\ (\A p \in Elements(Probes) : AskedInv(p)') /\ KeptInv'
  <2>1. Unhindered /\ \A reply : Request(reply) => reply = "page"
    BY <1>1, <1>2, <1>3, <1>5, UnhinderedBefore
  <2>2. baseline = 0 /\ (\A p \in Elements(Probes) : AskedInv(p)) /\ KeptInv
    BY <2>1 DEF UnhinderedInv
  <2>3. slows = 0 /\ slows' = 0
    BY <1>5, <2>1 DEF Unhindered
  <2>4. CASE \/ XSSReflectionProbe \/ SSRFProbe \/ PathTraversalProbe
             \/ TemplateInjectionProbe \/ OpenRedirectProbe
    <3>1. \E p \in Elements(Probes) : Answered(p) /\ AskedInv(p)'
      BY <2>1, <2>2, <2>4, TryIsAsked
    <3> QED
      BY <2>2, <3>1, AnsweredKeeps
  <2>5. CASE ErrorBased \/ BooleanTrue \/ BooleanFalse \/ Baseline \/ TimeBased
    <3>1. "sqli" \in Elements(Probes)
      BY ProbesElements
    <3>2. Answered("sqli") /\ AskedInv("sqli")'
      BY <2>1, <2>2, <2>3, <2>5, <3>1, SQLIsAsked
    <3> QED
      BY <2>2, <3>1, <3>2, AnsweredKeeps
  <2>6. CASE Collect \/ CORSProbe \/ RateLimitProbe
    <3>1. UNCHANGED <<site, cursor, found, tautology, baseline>> /\ KeptInv'
      BY <2>2, <2>6, RunAllKeeps
    <3> QED
      BY <2>2, <3>1, OthersKeep
  <2>7. CASE UNCHANGED probeVars
    <3>1. UNCHANGED <<site, cursor, found, tautology, baseline, phase, results>>
      BY <2>7 DEF probeVars
    <3>2. KeptInv'
      BY <2>2, <3>1, SiteDecides DEF KeptInv
    <3> QED
      BY <2>2, <3>1, <3>2, OthersKeep
  <2> QED
    BY <2>4, <2>5, <2>6, <2>7 DEF ProbesNext
<1> QED
  BY <1>4, <1>5 DEF UnhinderedInv

-----------------------------------------------------------------------------
(* The probes come to an end *)

\* The requests for one parameter, and how many of them are behind a probe.
Whole(p) == IF p # "sqli" THEN Payloads[p]
            ELSE Payloads["sqli_error"] + 2 * Payloads["sqli_boolean"] + 1 + Payloads["sqli_time"]

BehindAt(p, stage, k) ==
    LET E == Payloads["sqli_error"]
        B == Payloads["sqli_boolean"]
    IN IF p # "sqli" \/ stage = "error" THEN k - 1
       ELSE IF stage = "true" THEN E + 2 * (k - 1)
       ELSE IF stage = "false" THEN E + 2 * (k - 1) + 1
       ELSE IF stage = "baseline" THEN E + 2 * B
       ELSE E + 2 * B + k

AheadAt(p, i, stage, k) ==
    LET N == Len(ParamsOf(p))
    IN IF i > N THEN 0 ELSE (N + 1 - i) * Whole(p) - BehindAt(p, stage, k)

\* The requests a probe may still send, and the steps of run_all after the probes.
Ahead(p) == AheadAt(p, cursor[p].param, cursor[p].stage, cursor[p].k)

AfterGather ==
    CASE phase = "params" -> 1 + 3 + RateRequests
      [] phase = "cors"   -> 3 + 1 - origin + RateRequests
      [] phase = "rate"   -> RateRequests - Len(statuses)
      [] OTHER            -> 0

StepsLeft ==
    Ahead("xss") + Ahead("sqli") + Ahead("ssrf") + Ahead("path_traversal") + Ahead("ssti")
        + Ahead("open_redirect") + AfterGather

\* A probe is at a place it can be at.
IsPlace(p, i, stage, k) ==
    /\ i \in 1 .. Len(ParamsOf(p)) + 1
    /\ i <= Len(ParamsOf(p)) => k \in 1 .. Payloads[TableFor(p, stage)]
    /\ p = "sqli" => /\ stage \in {"error", "true", "false", "baseline", "sleep"}
                     /\ stage = "baseline" => k = 1

WayInv ==
    /\ \A p \in Elements(Probes) : IsPlace(p, cursor[p].param, cursor[p].stage, cursor[p].k)
    /\ phase \in {"params", "cors"} => origin \in {1, 2, 3}
    /\ phase = "rate" => Len(statuses) < RateRequests

LEMMA BehindIsPart ==
    ASSUME NEW p \in Elements(Probes), NEW i, NEW stage, NEW k, IsPlace(p, i, stage, k), i <= Len(ParamsOf(p))
    PROVE  /\ Whole(p) \in Nat
           /\ BehindAt(p, stage, k) \in Nat /\ BehindAt(p, stage, k) < Whole(p)
<1>1. PICK E \in Nat \ {0}, B \in Nat \ {0}, T \in Nat \ {0} :
        E = Payloads["sqli_error"] /\ B = Payloads["sqli_boolean"] /\ T = Payloads["sqli_time"]
  BY KindsHavePayloads DEF Kinds
<1>2. k \in 1 .. Payloads[TableFor(p, stage)]
  BY DEF IsPlace
<1>3. CASE p # "sqli"
  <2>1. k \in 1 .. Payloads[p] /\ Payloads[p] \in Nat
    BY <1>2, <1>3, KindsHavePayloads, ProbesElements DEF TableFor, Kinds
  <2>2. Whole(p) = Payloads[p] /\ BehindAt(p, stage, k) = k - 1
    BY <1>3 DEF Whole, BehindAt
  <2> QED
    BY <2>1, <2>2
<1>4. CASE p = "sqli"
  <2>1. stage \in {"error", "true", "false", "baseline", "sleep"}
    BY <1>4 DEF IsPlace
  <2>2. Whole(p) = E + 2 * B + 1 + T
    BY <1>1, <1>4 DEF Whole
  <2>3. CASE stage = "error"
    <3>1. k \in 1 .. E /\ BehindAt(p, stage, k) = k - 1
      BY <1>1, <1>2, <1>4, <2>3 DEF TableFor, BehindAt
    <3> QED
      BY <2>2, <3>1
  <2>4. CASE stage \in {"true", "false"}
    <3>1. /\ k \in 1 .. B
          /\ BehindAt(p, stage, k) = E + 2 * (k - 1) \/ BehindAt(p, stage, k) = E + 2 * (k - 1) + 1
      BY <1>1, <1>2, <1>4, <2>4 DEF TableFor, BehindAt
    <3> QED
      BY <2>2, <3>1
  <2>5. CASE stage = "baseline"
    <3>1. BehindAt(p, stage, k) = E + 2 * B
      BY <1>1, <1>4, <2>5 DEF BehindAt
    <3> QED
      BY <2>2, <3>1
  <2>6. CASE stage = "sleep"
    <3>1. k \in 1 .. T /\ BehindAt(p, stage, k) = E + 2 * B + k
      BY <1>1, <1>2, <1>4, <2>6 DEF TableFor, BehindAt
    <3> QED
      BY <2>2, <3>1
  <2> QED
    BY <2>1, <2>3, <2>4, <2>5, <2>6
<1> QED
  BY <1>3, <1>4

LEMMA AheadIsNumber ==
    ASSUME NEW p \in Elements(Probes), NEW i, NEW stage, NEW k, IsPlace(p, i, stage, k)
    PROVE  AheadAt(p, i, stage, k) \in Nat
<1>1. Len(ParamsOf(p)) \in Nat /\ i \in 1 .. Len(ParamsOf(p)) + 1
  BY ParamsAreSeq DEF IsPlace
<1>2. CASE i > Len(ParamsOf(p))
  BY <1>2 DEF AheadAt
<1>3. CASE ~ (i > Len(ParamsOf(p)))
  <2>1. PICK W \in Nat, b \in Nat : W = Whole(p) /\ b = BehindAt(p, stage, k) /\ b < W
    BY <1>1, <1>3, BehindIsPart
  <2>2. PICK m \in Nat : m = Len(ParamsOf(p)) - i
    BY <1>1, <1>3
  <2>3. Len(ParamsOf(p)) + 1 - i = m + 1 /\ (m + 1) * W = m * W + W /\ m * W \in Nat
    BY <1>1, <2>2
  <2> QED
    BY <1>3, <2>1, <2>3 DEF AheadAt
<1> QED
  BY <1>2, <1>3

\* The next parameter, or the end, leaves less than the present one.
LEMMA NextIsLess ==
    ASSUME NEW p \in Elements(Probes), NEW i, NEW stage, NEW k, IsPlace(p, i, stage, k), i <= Len(ParamsOf(p)),
           NEW j, j = i + 1 \/ j = Len(ParamsOf(p)) + 1, NEW first, first = IF p = "sqli" THEN "error" ELSE "payload"
    PROVE  IsPlace(p, j, first, 1) /\ AheadAt(p, j, first, 1) < AheadAt(p, i, stage, k)
<1>1. Len(ParamsOf(p)) \in Nat /\ i \in 1 .. Len(ParamsOf(p))
  BY ParamsAreSeq DEF IsPlace
<1>2. IsPlace(p, j, first, 1)
  <2>1. TableFor(p, first) \in Kinds
    BY ProbesElements DEF TableFor, Kinds
  <2>2. 1 \in 1 .. Payloads[TableFor(p, first)]
    BY <2>1, KindsHavePayloads
  <2> QED
    BY <1>1, <2>2 DEF IsPlace
<1>3. PICK W \in Nat, b \in Nat : W = Whole(p) /\ b = BehindAt(p, stage, k) /\ b < W
  BY BehindIsPart
<1>4. PICK m \in Nat : m = Len(ParamsOf(p)) - i
  BY <1>1
<1>5. PICK v \in Nat : v = m * W /\ v + W = (m + 1) * W
  BY <1>3, <1>4
<1>6. AheadAt(p, i, stage, k) = v + W - b
  <2>1. AheadAt(p, i, stage, k) = (Len(ParamsOf(p)) + 1 - i) * W - b
    BY <1>1, <1>3 DEF AheadAt
  <2>2. Len(ParamsOf(p)) + 1 - i = m + 1
    BY <1>1, <1>4
  <2> QED
    BY <1>5, <2>1, <2>2
<1>7. CASE j > Len(ParamsOf(p))
  <2>1. AheadAt(p, j, first, 1) = 0
    BY <1>7 DEF AheadAt
  <2> QED
    BY <1>2, <1>3, <1>5, <1>6, <2>1
<1>8. CASE ~ (j > Len(ParamsOf(p)))
  <2>1. j = i + 1 /\ Len(ParamsOf(p)) + 1 - j = m
    BY <1>1, <1>4, <1>8
  <2>2. BehindAt(p, first, 1) = 0
    BY DEF BehindAt
  <2>3. AheadAt(p, j, first, 1) = m * W - 0
    BY <1>3, <1>8, <2>1, <2>2 DEF AheadAt
  <2>4. AheadAt(p, j, first, 1) = v
    BY <1>5, <2>3
  <2> QED
    BY <1>2, <1>3, <1>5, <1>6, <2>4
<1> QED
  BY <1>7, <1>8

\* So does the next place at a parameter.
LEMMA FurtherIsLess ==
    ASSUME NEW p \in Elements(Probes), NEW i, NEW stage, NEW k, IsPlace(p, i, stage, k), i <= Len(ParamsOf(p)),
           NEW next, NEW l, IsPlace(p, i, next, l), BehindAt(p, stage, k) < BehindAt(p, next, l)
    PROVE  AheadAt(p, i, next, l) < AheadAt(p, i, stage, k)
<1>1. Len(ParamsOf(p)) \in Nat /\ i \in 1 .. Len(ParamsOf(p))
  BY ParamsAreSeq DEF IsPlace
<1>2. PICK W \in Nat, b \in Nat, c \in Nat : W = Whole(p) /\ b = BehindAt(p, stage, k) /\ c = BehindAt(p, next, l)
  BY BehindIsPart
<1>3. PICK a \in Int : a = (Len(ParamsOf(p)) + 1 - i) * W
  BY <1>1
<1> QED
  BY <1>1, <1>2, <1>3 DEF AheadAt


\* A step of a probe brings it to the next parameter, to its end, or further at this one.
Advances(p) ==
    LET c == cursor[p]
        d == cursor'[p]
    IN /\ ~ Done(p)
       /\ \A r \in Elements(Probes) : r # p => cursor'[r] = cursor[r]
       /\ \/ /\ d.param = c.param + 1 \/ d.param = Len(ParamsOf(p)) + 1
             /\ d.stage = IF p = "sqli" THEN "error" ELSE "payload"
             /\ d.k = 1
          \/ /\ d.param = c.param
             /\ IsPlace(p, d.param, d.stage, d.k)
             /\ BehindAt(p, c.stage, c.k) < BehindAt(p, d.stage, d.k)

LEMMA AdvancingIsLess ==
    ASSUME NEW p \in Elements(Probes), Advances(p),
           \A r \in Elements(Probes) : IsPlace(r, cursor[r].param, cursor[r].stage, cursor[r].k)
    PROVE  /\ \A r \in Elements(Probes) : IsPlace(r, cursor[r].param, cursor[r].stage, cursor[r].k)'
           /\ \A r \in Elements(Probes) : Ahead(r) \in Nat /\ Ahead(r)' \in Nat
           /\ \A r \in Elements(Probes) : r # p => Ahead(r)' = Ahead(r)
           /\ Ahead(p)' < Ahead(p)
<1>1. PICK i, stage, k : i = cursor[p].param /\ stage = cursor[p].stage /\ k = cursor[p].k
  OBVIOUS
<1>2. PICK j, next, l : j = cursor'[p].param /\ next = cursor'[p].stage /\ l = cursor'[p].k
  OBVIOUS
<1>3. IsPlace(p, i, stage, k) /\ i <= Len(ParamsOf(p))
  <2>1. Len(ParamsOf(p)) \in Nat /\ i \in 1 .. Len(ParamsOf(p)) + 1
    BY <1>1, ParamsAreSeq DEF IsPlace
  <2> QED
    BY <1>1, <2>1 DEF Advances, Done
<1>4. IsPlace(p, j, next, l) /\ AheadAt(p, j, next, l) < AheadAt(p, i, stage, k)
  <2>1. CASE /\ j = i + 1 \/ j = Len(ParamsOf(p)) + 1
             /\ next = IF p = "sqli" THEN "error" ELSE "payload"
             /\ l = 1
    BY <1>3, <2>1, NextIsLess
  <2>2. CASE j = i /\ IsPlace(p, j, next, l) /\ BehindAt(p, stage, k) < BehindAt(p, next, l)
    BY <1>3, <2>2, FurtherIsLess
  <2> QED
    BY <1>1, <1>2, <2>1, <2>2 DEF Advances
<1>5. \A r \in Elements(Probes) : r # p => cursor'[r] = cursor[r]
  BY DEF Advances
<1>6. \A r \in Elements(Probes) : IsPlace(r, cursor[r].param, cursor[r].stage, cursor[r].k)'
  BY <1>2, <1>4, <1>5 DEF IsPlace, TableFor
<1>7. \A r \in Elements(Probes) : r # p => Ahead(r)' = Ahead(r)
  BY <1>5 DEF Ahead, AheadAt, Whole, BehindAt
<1>8. Ahead(p)' < Ahead(p)
  BY <1>1, <1>2, <1>4 DEF Ahead, AheadAt, Whole, BehindAt
<1>9. \A r \in Elements(Probes) : Ahead(r) \in Nat /\ Ahead(r)' \in Nat
  BY <1>6, AheadIsNumber DEF Ahead
<1> QED
  BY <1>6, <1>7, <1>8, <1>9

\* The moves of the cursor are such steps.
LEMMA MovesAdvance ==
    ASSUME CursorShape, NEW p \in Elements(Probes), ~ Done(p),
           IsPlace(p, cursor[p].param, cursor[p].stage, cursor[p].k)
    PROVE  /\ NextParam(p) \/ LastParam(p) => Advances(p)
           /\ Payload(p) /\ cursor[p].k < Payloads[TableAt(p)] /\ (p = "sqli" => cursor[p].stage \in {"error", "sleep"})
                => Advances(p)
<1>1. CASE NextParam(p) \/ LastParam(p)
  <2>1. /\ cursor'[p].param = cursor[p].param + 1 \/ cursor'[p].param = Len(ParamsOf(p)) + 1
        /\ cursor'[p].stage = IF p = "sqli" THEN "error" ELSE "payload"
        /\ cursor'[p].k = 1
    BY <1>1 DEF NextParam, LastParam, Start, CursorShape
  <2> QED
    BY <1>1, <2>1, CursorMoves DEF Advances
<1>2. CASE /\ Payload(p) /\ cursor[p].k < Payloads[TableAt(p)]
           /\ p = "sqli" => cursor[p].stage \in {"error", "sleep"}
  <2>1. PICK stage, k : stage = cursor[p].stage /\ k = cursor[p].k
    OBVIOUS
  <2>2. /\ cursor'[p].param = cursor[p].param /\ cursor'[p].stage = stage /\ cursor'[p].k = k + 1
        /\ \A r \in Elements(Probes) : r # p => cursor'[r] = cursor[r]
    BY <1>2, <2>1, CursorGoes, CursorMoves
  <2>3. PICK n \in Nat : n = Payloads[TableFor(p, stage)]
    BY KindsHavePayloads, ProbesElements DEF TableFor, Kinds
  <2>4. cursor[p].param <= Len(ParamsOf(p))
    BY ParamsAreSeq DEF Done, IsPlace
  <2>5. k \in 1 .. n /\ k < n
    BY <1>2, <2>1, <2>3, <2>4 DEF IsPlace, TableAt
  <2>6. IsPlace(p, cursor[p].param, stage, k + 1)
    BY <1>2, <2>1, <2>3, <2>5 DEF IsPlace
  <2>7. BehindAt(p, stage, k) < BehindAt(p, stage, k + 1)
    <3>1. PICK E \in Nat, B \in Nat : E = Payloads["sqli_error"] /\ B = Payloads["sqli_boolean"]
      BY KindsHavePayloads DEF Kinds
    <3>2. CASE p # "sqli" \/ stage = "error"
      BY <2>5, <3>2 DEF BehindAt
    <3>3. CASE p = "sqli" /\ stage = "sleep"
      BY <2>5, <3>1, <3>3 DEF BehindAt
    <3> QED
      BY <1>2, <2>1, <3>2, <3>3
  <2> QED
    BY <2>1, <2>2, <2>6, <2>7 DEF Advances
<1> QED
  BY <1>1, <1>2

\* So are the moves of SQLInjectionProbe from one of its techniques to the next.
LEMMA FurtherTechnique ==
    ASSUME ~ Done("sqli"), IsPlace("sqli", cursor["sqli"].param, cursor["sqli"].stage, cursor["sqli"].k),
           \A r \in Elements(Probes) : r # "sqli" => cursor'[r] = cursor[r],
           cursor'["sqli"].param = cursor["sqli"].param,
           NEW stage, NEW k, stage = cursor["sqli"].stage, k = cursor["sqli"].k,
           NEW next, NEW l, next = cursor'["sqli"].stage, l = cursor'["sqli"].k,
           \/ stage = "error" /\ next = "true" /\ l = 1
           \/ stage \in {"true", "false"} /\ next = "true" /\ k < Payloads["sqli_boolean"] /\ l = k + 1
           \/ stage \in {"true", "false"} /\ next = "baseline" /\ l = 1
           \/ stage = "true" /\ next = "false" /\ l = k
           \/ stage = "baseline" /\ next = "sleep" /\ l = 1
    PROVE  Advances("sqli")
<1>1. PICK E \in Nat \ {0}, B \in Nat \ {0}, T \in Nat \ {0} :
        E = Payloads["sqli_error"] /\ B = Payloads["sqli_boolean"] /\ T = Payloads["sqli_time"]
  BY KindsHavePayloads DEF Kinds
<1>2. cursor["sqli"].param \in 1 .. Len(ParamsOf("sqli")) + 1 /\ cursor["sqli"].param <= Len(ParamsOf("sqli"))
  BY ParamsAreSeq DEF Done, IsPlace
<1>3. k \in 1 .. Payloads[TableFor("sqli", stage)]
  BY <1>2 DEF IsPlace
<1>4. l \in 1 .. Payloads[TableFor("sqli", next)] /\ BehindAt("sqli", stage, k) < BehindAt("sqli", next, l)
  <2>1. CASE stage = "error" /\ next = "true" /\ l = 1
    BY <1>1, <1>3, <2>1 DEF TableFor, BehindAt
  <2>2. CASE stage \in {"true", "false"} /\ next = "true" /\ k < B /\ l = k + 1
    <3>1. k \in 1 .. B
      BY <1>1, <1>3, <2>2 DEF TableFor
    <3>2. /\ BehindAt("sqli", stage, k) = E + 2 * (k - 1) \/ BehindAt("sqli", stage, k) = E + 2 * (k - 1) + 1
          /\ BehindAt("sqli", next, l) = E + 2 * (l - 1)
      BY <1>1, <2>2 DEF BehindAt
    <3>3. l \in 1 .. Payloads[TableFor("sqli", next)]
      BY <1>1, <2>2, <3>1 DEF TableFor
    <3> QED
      BY <2>2, <3>1, <3>2, <3>3
  <2>3. CASE stage \in {"true", "false"} /\ next = "baseline" /\ l = 1
    <3>1. k \in 1 .. B
      BY <1>1, <1>3, <2>3 DEF TableFor
    <3>2. /\ BehindAt("sqli", stage, k) = E + 2 * (k - 1) \/ BehindAt("sqli", stage, k) = E + 2 * (k - 1) + 1
          /\ BehindAt("sqli", next, l) = E + 2 * B
      BY <1>1, <2>3 DEF BehindAt
    <3>3. l \in 1 .. Payloads[TableFor("sqli", next)]
      BY <1>1, <2>3 DEF TableFor
    <3> QED
      BY <3>1, <3>2, <3>3
  <2>4. CASE stage = "true" /\ next = "false" /\ l = k
    <3>1. k \in 1 .. B
      BY <1>1, <1>3, <2>4 DEF TableFor
    <3>2. /\ BehindAt("sqli", stage, k) = E + 2 * (k - 1)
          /\ BehindAt("sqli", next, l) = E + 2 * (k - 1) + 1
      BY <1>1, <2>4 DEF BehindAt
    <3>3. l \in 1 .. Payloads[TableFor("sqli", next)]
      BY <1>1, <2>4, <3>1 DEF TableFor
    <3> QED
      BY <3>1, <3>2, <3>3
  <2>5. CASE stage = "baseline" /\ next = "sleep" /\ l = 1
    BY <1>1, <1>3, <2>5 DEF TableFor, BehindAt
  <2> QED
    BY <1>1, <2>1, <2>2, <2>3, <2>4, <2>5
<1>5. IsPlace("sqli", cursor["sqli"].param, next, l)
  BY <1>2, <1>4 DEF IsPlace
<1> QED
  BY <1>4, <1>5 DEF Advances

LEMMA SQLAdvances ==
    ASSUME CursorShape, IsPlace("sqli", cursor["sqli"].param, cursor["sqli"].stage, cursor["sqli"].k),
           ErrorBased \/ BooleanTrue \/ BooleanFalse \/ Baseline \/ TimeBased
    PROVE  Advances("sqli") /\ phase = "params" /\ UNCHANGED <<phase, origin, statuses>>
<1>1. PICK k : k = cursor["sqli"].k
  OBVIOUS
<1>2. "sqli" \in Elements(Probes) /\ ~ Done("sqli") /\ phase = "params" /\ UNCHANGED <<phase, origin, statuses>>
  BY ProbesElements DEF ErrorBased, BooleanTrue, BooleanFalse, Baseline, TimeBased, SQLAt, SQLUnchanged
<1>3. ASSUME NextParam("sqli")
      PROVE  Advances("sqli")
  BY <1>2, <1>3, MovesAdvance
<1>4. ASSUME Payload("sqli"), cursor["sqli"].stage \in {"error", "sleep"}, k < Payloads[TableAt("sqli")]
      PROVE  Advances("sqli")
  BY <1>1, <1>2, <1>4, MovesAdvance
<1>5. ASSUME NEW stage, Stage("sqli", stage),
             \/ cursor["sqli"].stage = "error" /\ stage = "true"
             \/ cursor["sqli"].stage = "baseline" /\ stage = "sleep"
      PROVE  Advances("sqli")
  <2>1. /\ \A r \in Elements(Probes) : r # "sqli" => cursor'[r] = cursor[r]
        /\ cursor'["sqli"].param = cursor["sqli"].param
        /\ cursor'["sqli"].stage = stage /\ cursor'["sqli"].k = 1
    BY <1>2, <1>5, CursorGoes
  <2> QED
    BY <1>2, <1>5, <2>1, FurtherTechnique
<1>6. ASSUME NextPair(k), cursor["sqli"].stage \in {"true", "false"}
      PROVE  Advances("sqli")
  <2>1. /\ \A r \in Elements(Probes) : r # "sqli" => cursor'[r] = cursor[r]
        /\ cursor'["sqli"].param = cursor["sqli"].param
        /\ k < Payloads["sqli_boolean"] => cursor'["sqli"].stage = "true" /\ cursor'["sqli"].k = k + 1
        /\ ~ (k < Payloads["sqli_boolean"]) => cursor'["sqli"].stage = "baseline" /\ cursor'["sqli"].k = 1
    BY <1>6, NextPairGoes
  <2> QED
    BY <1>1, <1>2, <1>6, <2>1, FurtherTechnique
<1>7. CASE ErrorBased
  <2>1. /\ cursor["sqli"].stage = "error"
        /\ \/ NextParam("sqli")
           \/ k < Payloads["sqli_error"] /\ Payload("sqli")
           \/ Stage("sqli", "true")
    BY <1>1, <1>7 DEF ErrorBased, SQLAt
  <2> QED
    BY <1>2, <1>3, <1>4, <1>5, <2>1 DEF TableAt, TableFor
<1>8. CASE BooleanTrue
  <2>1. cursor["sqli"].stage = "true" /\ (NextPair(k) \/ cursor' = [cursor EXCEPT !["sqli"].stage = "false"])
    BY <1>1, <1>8 DEF BooleanTrue, SQLAt
  <2>2. CASE cursor' = [cursor EXCEPT !["sqli"].stage = "false"]
    <3>1. /\ \A r \in Elements(Probes) : r # "sqli" => cursor'[r] = cursor[r]
          /\ cursor'["sqli"].param = cursor["sqli"].param
          /\ cursor'["sqli"].stage = "false" /\ cursor'["sqli"].k = k
      BY <1>1, <2>2, ProbesElements DEF CursorShape
    <3> QED
      BY <1>1, <1>2, <2>1, <3>1, FurtherTechnique
  <2> QED
    BY <1>2, <1>6, <2>1, <2>2
<1>9. CASE BooleanFalse
  <2>1. cursor["sqli"].stage = "false" /\ (NextParam("sqli") \/ NextPair(k))
    BY <1>1, <1>9 DEF BooleanFalse, SQLAt
  <2> QED
    BY <1>2, <1>3, <1>6, <2>1
<1>10. CASE Baseline
  <2>1. cursor["sqli"].stage = "baseline" /\ (NextParam("sqli") \/ Stage("sqli", "sleep"))
    BY <1>10 DEF Baseline, SQLAt
  <2> QED
    BY <1>2, <1>3, <1>5, <2>1
<1>11. CASE TimeBased
  <2>1. /\ cursor["sqli"].stage = "sleep"
        /\ NextParam("sqli") \/ (k < Payloads["sqli_time"] /\ Payload("sqli"))
    BY <1>1, <1>11 DEF TimeBased, SQLAt
  <2> QED
    BY <1>2, <1>3, <1>4, <2>1 DEF TableAt, TableFor
<1> QED
  BY <1>7, <1>8, <1>9, <1>10, <1>11

LEMMA TryAdvances ==
    ASSUME CursorShape, \A r \in Elements(Probes) : IsPlace(r, cursor[r].param, cursor[r].stage, cursor[r].k),
           \/ XSSReflectionProbe \/ SSRFProbe \/ PathTraversalProbe
           \/ TemplateInjectionProbe \/ OpenRedirectProbe
    PROVE  /\ \E p \in Elements(Probes) : Advances(p)
           /\ phase = "params" /\ UNCHANGED <<phase, origin, statuses>>
<1>1. PICK p \in Elements(Probes) \ {"sqli"} :
        /\ ~ Done(p) /\ phase = "params" /\ UNCHANGED <<phase, origin, statuses>>
        /\ NextParam(p) \/ LastParam(p) \/ (cursor[p].k < Payloads[p] /\ Payload(p))
  BY ProbesElements
     DEF XSSReflectionProbe, SSRFProbe, PathTraversalProbe, TemplateInjectionProbe, OpenRedirectProbe, Try
<1>2. TableAt(p) = p
  BY DEF TableAt, TableFor
<1>3. Advances(p)
  BY <1>1, <1>2, MovesAdvance
<1> QED
  BY <1>1, <1>3

LEMMA WayInit == ProbesInit => WayInv
<1> SUFFICES ASSUME ProbesInit, NEW p \in Elements(Probes)
             PROVE  IsPlace(p, cursor[p].param, cursor[p].stage, cursor[p].k)
  BY ProbesAssumption DEF ProbesInit, WayInv
<1>1. cursor[p] = Start(p, IF Params = <<>> THEN Len(ParamsOf(p)) + 1 ELSE 1)
  BY DEF ProbesInit
<1>2. Len(ParamsOf(p)) \in Nat
  BY ParamsAreSeq
<1>3. PICK first : first = IF p = "sqli" THEN "error" ELSE "payload"
  OBVIOUS
<1>4. 1 \in 1 .. Payloads[TableFor(p, first)]
  BY KindsHavePayloads, ProbesElements DEF TableFor, Kinds
<1>5. /\ cursor[p].param \in 1 .. Len(ParamsOf(p)) + 1
      /\ cursor[p].stage = first /\ cursor[p].k = 1
  BY <1>1, <1>2, <1>3 DEF Start
<1> QED
  BY <1>3, <1>4, <1>5 DEF IsPlace

LEMMA StepIsLess ==
    ASSUME ProbesInv, WayInv, ProbesNext
    PROVE  WayInv' /\ StepsLeft \in Nat /\ StepsLeft' \in Nat /\ StepsLeft' < StepsLeft
<1>1. RateRequests \in Nat \ {0} /\ CursorShape
  BY ProbesAssumption DEF ProbesInv
<1>2. \A r \in Elements(Probes) : IsPlace(r, cursor[r].param, cursor[r].stage, cursor[r].k) /\ Ahead(r) \in Nat
  BY AheadIsNumber DEF WayInv, Ahead
<1>3. CASE /\ phase' = phase /\ phase = "params" /\ origin' = origin /\ statuses' = statuses
           /\ \E p \in Elements(Probes) : Advances(p)
  <2>1. PICK p \in Elements(Probes) : Advances(p)
    BY <1>3
  <2>2. /\ \A r \in Elements(Probes) : IsPlace(r, cursor[r].param, cursor[r].stage, cursor[r].k)'
        /\ \A r \in Elements(Probes) : Ahead(r) \in Nat /\ Ahead(r)' \in Nat
        /\ \A r \in Elements(Probes) : r # p => Ahead(r)' = Ahead(r)
        /\ Ahead(p)' < Ahead(p)
    BY <1>2, <2>1, AdvancingIsLess
  <2>3. AfterGather = 4 + RateRequests /\ AfterGather' = 4 + RateRequests
    BY <1>1, <1>3 DEF AfterGather
  <2>4. WayInv'
    BY <1>3, <2>2 DEF WayInv
  <2> QED
    BY <1>1, <2>2, <2>3, <2>4, ProbesElements DEF StepsLeft
<1>4. CASE Collect \/ CORSProbe \/ RateLimitProbe
  <2>1. \A r \in Elements(Probes) : Ahead(r)' = Ahead(r) /\ cursor'[r] = cursor[r]
    BY <1>4 DEF Collect, CORSProbe, RateLimitProbe, Ahead, AheadAt, Whole, BehindAt
  <2>2. \A r \in Elements(Probes) : IsPlace(r, cursor[r].param, cursor[r].stage, cursor[r].k)'
    BY <1>2, <2>1 DEF IsPlace, TableFor
  <2>3. /\ phase' # "params"
        /\ phase' = "cors" => origin' \in {1, 2, 3}
        /\ phase' = "rate" => Len(statuses') < RateRequests
        /\ AfterGather \in Nat /\ AfterGather' \in Nat /\ AfterGather' < AfterGather
    <3>1. CASE Collect
      <4>1. phase = "params" /\ phase' = "cors" /\ origin' = origin /\ origin \in {1, 2, 3}
        BY <3>1 DEF Collect, WayInv
      <4>2. AfterGather = 4 + RateRequests /\ AfterGather' = 4 - origin + RateRequests
        BY <1>1, <4>1 DEF AfterGather
      <4> QED
        BY <1>1, <4>1, <4>2
    <3>2. CASE CORSProbe
      <4>1. /\ phase = "cors" /\ origin \in {1, 2, 3} /\ origin' = origin + 1
            /\ phase' = "rate" \/ (phase' = "cors" /\ origin < 3)
            /\ statuses' = statuses /\ statuses = <<>>
        BY <3>2 DEF CORSProbe, WayInv, ProbesInv, StatusInv, TestOrigins
      <4>2. Len(statuses') = 0
        BY <4>1
      <4>3. /\ AfterGather = 4 - origin + RateRequests
            /\ phase' = "cors" => AfterGather' = 4 - origin' + RateRequests
            /\ phase' = "rate" => AfterGather' = RateRequests - Len(statuses')
        BY <1>1, <4>1 DEF AfterGather
      <4>4. CASE phase' = "rate"
        BY <1>1, <4>1, <4>2, <4>3, <4>4
      <4>5. CASE phase' = "cors" /\ origin < 3
        BY <1>1, <4>1, <4>3, <4>5
      <4> QED
        BY <4>1, <4>4, <4>5
    <3>3. CASE RateLimitProbe
      <4>1. PICK n \in Nat : n = Len(statuses) /\ n < RateRequests /\ phase = "rate"
        BY <3>3 DEF RateLimitProbe, WayInv, ProbesInv, StatusInv, IsSeq
      <4>2. phase' = "done" \/ (phase' = "rate" /\ Len(statuses') # RateRequests /\ \E code : statuses' = Append(statuses, code))
        BY <3>3 DEF RateLimitProbe
      <4>3. AfterGather = RateRequests - n
        BY <4>1 DEF AfterGather
      <4>4. CASE phase' = "done"
        <5>1. AfterGather' = 0
          BY <4>4 DEF AfterGather
        <5> QED
          BY <1>1, <4>1, <4>3, <4>4, <5>1
      <4>5. CASE phase' = "rate" /\ Len(statuses') # RateRequests /\ \E code : statuses' = Append(statuses, code)
        <5>1. Len(statuses') = n + 1
          BY <4>1, <4>5 DEF ProbesInv, StatusInv, IsSeq
        <5>2. AfterGather' = RateRequests - (n + 1)
          BY <4>5, <5>1 DEF AfterGather
        <5> QED
          BY <1>1, <4>1, <4>3, <4>5, <5>1, <5>2
      <4> QED
        BY <4>2, <4>4, <4>5
    <3> QED
      BY <1>4, <3>1, <3>2, <3>3
  <2>4. WayInv'
    BY <2>2, <2>3 DEF WayInv
  <2>5. StepsLeft \in Nat /\ StepsLeft' \in Nat /\ StepsLeft' < StepsLeft
    <3>1. \A r \in Elements(Probes) : Ahead(r) \in Nat /\ Ahead(r)' = Ahead(r)
      BY <1>2, <2>1
    <3>2. PICK a \in Nat, b \in Nat : a = AfterGather /\ b = AfterGather' /\ b < a
      BY <2>3
    <3> QED
      BY <3>1, <3>2, ProbesElements DEF StepsLeft
  <2> QED
    BY <2>4, <2>5
<1> QED
  BY <1>1, <1>2, <1>3, <1>4, SQLAdvances, TryAdvances, ProbesElements DEF ProbesNext

-----------------------------------------------------------------------------
(* Theorems *)

\* Every result a probe or run_all holds is one the site gives cause for; what two awaited
\* answers are compared by is still what the site answers (run_all and its probes).
THEOREM ProbesInvariant == ProbesSpec => []ProbesInv
<1>1. ASSUME ProbesInv, [ProbesNext]_probeVars
      PROVE  ProbesInv'
  <2>1. ASSUME NEW p \in {"xss", "ssrf", "path_traversal", "ssti", "open_redirect"}, Tries(p)
        PROVE  ProbesInv'
    BY <1>1, <2>1, TriesKeep, ProbesElements
  <2>2. CASE \/ XSSReflectionProbe \/ SSRFProbe \/ PathTraversalProbe
             \/ TemplateInjectionProbe \/ OpenRedirectProbe
    <3>1. Tries("xss") \/ Tries("ssrf") \/ Tries("path_traversal") \/ Tries("ssti") \/ Tries("open_redirect")
      BY <2>2, TryStep
    <3> QED
      BY <2>1, <3>1
  <2>3. CASE ErrorBased \/ BooleanTrue \/ BooleanFalse \/ Baseline \/ TimeBased
    BY <1>1, <2>3, ErrorStep, TrueStep, FalseStep, BaselineStep, TimeStep
  <2>4. CASE Collect \/ CORSProbe \/ RateLimitProbe
    BY <1>1, <2>4, CollectStep, CORSStep, RateStep
  <2>5. CASE UNCHANGED probeVars
    BY <1>1, <2>5, StutterStep
  <2> QED
    BY <1>1, <2>2, <2>3, <2>4, <2>5 DEF ProbesNext
<1> QED
  BY <1>1, InitInv, PTL DEF ProbesSpec

\* Whatever fails, is slow or is refused between two requests, what the probes and run_all
\* report is something the site does, but for the explained exceptions (active_probes.py).
THEOREM ReportsAreReal == ProbesSpec => []ReportedIsReal
<1>1. ASSUME ProbesInv
      PROVE  ReportedIsReal
  <2>1. \A p \in Elements(Probes) : \A f \in Elements(found[p]) : Real(f)
    BY <1>1, LastingIsReal DEF ProbesInv, GatheredInv
  <2>2. \A f \in Elements(results) : Real(f)
    BY <1>1, LastingIsReal DEF ProbesInv, ResultsInv
  <2> QED
    BY <2>1, <2>2 DEF ReportedIsReal, Elements
<1> QED
  BY <1>1, ProbesInvariant, PTL

\* However the requests of the six probes interleave, run_all returns in front what the probes
\* would have found one after the other, each over its parameters in their order, if no request
\* failed, was slow or was refused (run_all's gather and the loops of the probes).
THEOREM UnhinderedIsSequential == ProbesSpec => []FoundWhenUnhindered
<1>1. ASSUME ProbesInv, UnhinderedInv
      PROVE  FoundWhenUnhindered
  <2> SUFFICES ASSUME phase # "params", Unhindered
               PROVE  SubSeq(results, 1, Len(SequentialOrder)) = SequentialOrder
    BY DEF FoundWhenUnhindered, Unhindered, SequentialOrder
  <2>1. PICK u : u = SequentialOrder
    OBVIOUS
  <2>2. IsSeq(u) /\ Len(u) <= Len(results) /\ \A i \in DOMAIN u : results[i] = u[i]
    BY <1>1, <2>1 DEF UnhinderedInv, KeptInv
  <2>3. IsSeq(results)
    BY <1>1 DEF ProbesInv, ResultsInv
  <2>4. /\ Len(u) \in Nat /\ DOMAIN u = 1 .. Len(u) /\ u = [i \in 1 .. Len(u) |-> u[i]]
        /\ Len(results) \in Nat
    BY <2>2, <2>3 DEF IsSeq
  <2>5. SubSeq(results, 1, Len(u)) = [i \in 1 .. Len(u) |-> results[i]]
    BY <2>2, <2>3, <2>4 DEF IsSeq
  <2>6. [i \in 1 .. Len(u) |-> results[i]] = [i \in 1 .. Len(u) |-> u[i]]
    BY <2>2, <2>4
  <2> QED
    BY <2>1, <2>4, <2>5, <2>6
<1> QED
  BY <1>1, ProbesInvariant, UnhinderedInit, UnhinderedStep, PTL DEF ProbesSpec

EveryStepGetsCloser == [](StepsLeft \in Nat) /\ [][StepsLeft' < StepsLeft]_probeVars

\* Every request of run_all brings it closer to its end, whatever the site answers and however
\* the six probes interleave: no parameter, payload, origin or attempt is asked twice, and the
\* tables bound the number of requests (the loops of the probes, active_probes.py).
THEOREM RequestsGetCloser == ProbesSpec => EveryStepGetsCloser
<1>1. ASSUME ProbesInv, WayInv, [ProbesNext]_probeVars
      PROVE  WayInv' /\ [StepsLeft' < StepsLeft]_probeVars
  <2>1. CASE ProbesNext
    BY <1>1, <2>1, StepIsLess
  <2>2. CASE UNCHANGED probeVars
    <3>1. WayInv'
      BY <1>1, <2>2 DEF WayInv, IsPlace, TableFor, probeVars
    <3> QED
      BY <2>2, <3>1
  <2> QED
    BY <1>1, <2>1, <2>2
<1>2. ASSUME ProbesInv, WayInv
      PROVE  StepsLeft \in Nat
  <2>1. \A r \in Elements(Probes) : Ahead(r) \in Nat
    BY <1>2, AheadIsNumber DEF WayInv, Ahead
  <2>2. AfterGather \in Nat
    <3>1. RateRequests \in Nat /\ phase \in {"params", "cors", "rate", "done"}
      BY <1>2, ProbesAssumption DEF ProbesInv, StatusInv
    <3>2. CASE phase = "rate"
      <4>1. PICK n \in Nat : n = Len(statuses) /\ n < RateRequests
        BY <1>2, <3>2 DEF WayInv, ProbesInv, StatusInv, IsSeq
      <4> QED
        BY <3>1, <3>2, <4>1 DEF AfterGather
    <3>3. CASE phase # "rate"
      <4>1. phase = "cors" => origin \in {1, 2, 3}
        BY <1>2 DEF WayInv
      <4>2. CASE phase = "params"
        BY <3>1, <4>2 DEF AfterGather
      <4>3. CASE phase = "cors"
        <5>1. AfterGather = 4 - origin + RateRequests
          BY <3>1, <4>1, <4>3 DEF AfterGather
        <5> QED
          BY <3>1, <4>1, <4>3, <5>1
      <4>4. CASE phase = "done"
        BY <4>4 DEF AfterGather
      <4> QED
        BY <3>1, <3>3, <4>2, <4>3, <4>4
    <3> QED
      BY <3>2, <3>3
  <2> QED
    BY <2>1, <2>2, ProbesElements DEF StepsLeft
<1> QED
  BY <1>1, <1>2, ProbesInvariant, WayInit, PTL DEF ProbesSpec, EveryStepGetsCloser
=============================================================================
