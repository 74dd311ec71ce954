--------------------------- MODULE ScanCliProofs ----------------------------
(***************************************************************************)
(* Theorems about the scanners, the correlation of what they find, and the *)
(* command line, for every site, all tables of paths and any number of     *)
(* hindered requests.                                                      *)
(***************************************************************************)
EXTENDS ScanCli, FiniteSetTheorems, TLAPS

-----------------------------------------------------------------------------
(* Selections: what a sequence holds at a set of places *)

\* As many elements are not greater than an element as its place says; Nth finds it.
LEMMA PlaceOfElement ==
    ASSUME NEW S \in SUBSET Nat, IsFiniteSet(S)
    PROVE  /\ Cardinality(S) \in Nat
           /\ \A i \in S : Cardinality({j \in S : j <= i}) \in 1 .. Cardinality(S)
           /\ \A i, k \in S : i < k => Cardinality({j \in S : j <= i}) < Cardinality({j \in S : j <= k})
<1> DEFINE upTo(i) == {j \in S : j <= i}
<1>1. Cardinality(S) \in Nat
  BY FS_CardinalityType
<1>2. ASSUME NEW i \in S
      PROVE  /\ IsFiniteSet(upTo(i)) /\ Cardinality(upTo(i)) \in 1 .. Cardinality(S)
  <2>1. upTo(i) \in SUBSET S /\ i \in upTo(i)
    OBVIOUS
  <2>2. IsFiniteSet(upTo(i)) /\ Cardinality(upTo(i)) <= Cardinality(S)
    BY <2>1, FS_Subset
  <2>3. Cardinality(upTo(i)) \in Nat /\ Cardinality(upTo(i)) # 0
    BY <2>1, <2>2, FS_CardinalityType, FS_EmptySet
  <2> QED
    BY <1>1, <2>2, <2>3
<1>3. ASSUME NEW i \in S, NEW k \in S, i < k
      PROVE  Cardinality(upTo(i)) < Cardinality(upTo(k))
  <2>1. \A j \in S : j \in Nat
    OBVIOUS
  <2>2. upTo(i) \in SUBSET upTo(k) /\ k \in upTo(k) /\ k \notin upTo(i)
    <3>1. \A j \in upTo(i) : j \in upTo(k)
      BY <1>3, <2>1
    <3>2. k <= k /\ ~ (k <= i)
      BY <1>3, <2>1
    <3> QED
      BY <3>1, <3>2
  <2>3. IsFiniteSet(upTo(k)) /\ Cardinality(upTo(i)) \in Nat /\ Cardinality(upTo(k)) \in Nat
    BY <1>1, <1>2
  <2>4. Cardinality(upTo(i)) <= Cardinality(upTo(k)) /\ Cardinality(upTo(i)) # Cardinality(upTo(k))
    <3> HIDE DEF upTo
    <3> QED
      BY <2>2, <2>3, FS_Subset
  <2> QED
    BY <2>3, <2>4
<1> QED
  BY <1>1, <1>2, <1>3

\* Nth enumerates a finite set of numbers, upwards.
LEMMA NthEnumerates ==
    ASSUME NEW S \in SUBSET Nat, IsFiniteSet(S)
    PROVE  /\ Cardinality(S) \in Nat
           /\ \A n \in 1 .. Cardinality(S) : Nth(S, n) \in S
           /\ \A i \in S : \E n \in 1 .. Cardinality(S) : Nth(S, n) = i
           /\ \A n, m \in 1 .. Cardinality(S) : n < m => Nth(S, n) < Nth(S, m)
<1> DEFINE place == [i \in S |-> Cardinality({j \in S : j <= i})]
<1>1. /\ Cardinality(S) \in Nat
      /\ place \in [S -> 1 .. Cardinality(S)]
      /\ \A i, k \in S : i < k => place[i] < place[k]
  BY PlaceOfElement
<1>2. \A n : Nth(S, n) = CHOOSE i \in S : place[i] = n
  BY DEF Nth
<1> HIDE DEF place
<1>3. \A i, k \in S : i \in Nat /\ k \in Nat /\ place[i] \in Nat /\ place[k] \in Nat
  BY <1>1
<1>4. \A i, k \in S : place[i] = place[k] => i = k
  BY <1>1, <1>3
<1>5. place \in Injection(S, 1 .. Cardinality(S))
  BY <1>1, <1>4 DEF Injection, IsInjective
<1>6. IsFiniteSet(1 .. Cardinality(S)) /\ Cardinality(1 .. Cardinality(S)) = Cardinality(S)
  BY <1>1, FS_Interval
<1>7. place \in Surjection(S, 1 .. Cardinality(S))
  BY <1>5, <1>6, FS_Injection
<1>8. ASSUME NEW n \in 1 .. Cardinality(S)
      PROVE  Nth(S, n) \in S /\ place[Nth(S, n)] = n
  <2>1. \E i \in S : place[i] = n
    BY <1>7 DEF Surjection
  <2> QED
    BY <1>2, <2>1
<1>9. ASSUME NEW i \in S
      PROVE  \E n \in 1 .. Cardinality(S) : Nth(S, n) = i
  <2>1. place[i] \in 1 .. Cardinality(S)
    BY <1>1
  <2>2. Nth(S, place[i]) = i
    BY <1>4, <1>8, <2>1
  <2> QED
    BY <2>1, <2>2
<1>10. ASSUME NEW n \in 1 .. Cardinality(S), NEW m \in 1 .. Cardinality(S), n < m
       PROVE  Nth(S, n) < Nth(S, m)
  <2>1. /\ Nth(S, n) \in S /\ place[Nth(S, n)] = n /\ Nth(S, n) \in Nat
        /\ Nth(S, m) \in S /\ place[Nth(S, m)] = m /\ Nth(S, m) \in Nat
    BY <1>8
  <2>2. CASE Nth(S, m) = Nth(S, n)
    BY <1>10, <2>1, <2>2
  <2>3. CASE Nth(S, m) < Nth(S, n)
    BY <1>1, <1>10, <2>1, <2>3
  <2> QED
    BY <2>1, <2>2, <2>3
<1> QED
  BY <1>1, <1>8, <1>9, <1>10

\* A selection is a sequence of what was selected, in its order.
LEMMA SelectedEnumerates ==
    ASSUME NEW N \in Nat, NEW S \in SUBSET (1 .. N), NEW s
    PROVE  /\ Cardinality(S) \in Nat
           /\ DOMAIN Selected(s, S) = 1 .. Cardinality(S)
           /\ \A n \in 1 .. Cardinality(S) : Nth(S, n) \in S /\ Selected(s, S)[n] = s[Nth(S, n)]
           /\ \A i \in S : \E n \in 1 .. Cardinality(S) : Nth(S, n) = i
           /\ \A n, m \in 1 .. Cardinality(S) : n < m => Nth(S, n) < Nth(S, m)
<1>1. S \in SUBSET Nat
  OBVIOUS
<1>2. IsFiniteSet(S)
  <2>1. IsFiniteSet(1 .. N)
    BY FS_Interval
  <2> QED
    BY <2>1, FS_Subset
<1>3. Selected(s, S) = [n \in 1 .. Cardinality(S) |-> s[Nth(S, n)]]
  BY DEF Selected
<1>4. /\ DOMAIN Selected(s, S) = 1 .. Cardinality(S)
      /\ \A n \in 1 .. Cardinality(S) : Selected(s, S)[n] = s[Nth(S, n)]
  BY <1>3
<1> QED
  BY <1>1, <1>2, <1>4, NthEnumerates

LEMMA SelectedIsList ==
    ASSUME NEW N \in Nat, NEW S \in SUBSET (1 .. N), NEW s, NEW T, \A i \in S : s[i] \in T
    PROVE  Selected(s, S) \in Seq(T) /\ Len(Selected(s, S)) = Cardinality(S)
<1>1. /\ Cardinality(S) \in Nat /\ DOMAIN Selected(s, S) = 1 .. Cardinality(S)
      /\ \A n \in 1 .. Cardinality(S) : Selected(s, S)[n] \in T
  <2>1. /\ Cardinality(S) \in Nat /\ DOMAIN Selected(s, S) = 1 .. Cardinality(S)
        /\ \A n \in 1 .. Cardinality(S) : Nth(S, n) \in S /\ Selected(s, S)[n] = s[Nth(S, n)]
    BY SelectedEnumerates
  <2> QED
    BY <2>1
<1>2. Selected(s, S) = [n \in 1 .. Cardinality(S) |-> Selected(s, S)[n]]
  BY <1>1 DEF Selected
<1>3. Selected(s, S) \in [1 .. Cardinality(S) -> T]
  BY <1>1, <1>2
<1> QED
  BY <1>1, <1>3

LEMMA LeastExists ==
    ASSUME NEW N \in Nat, NEW S \in SUBSET (1 .. N), S # {}
    PROVE  \E j \in S : \A k \in S : j <= k
<1>1. /\ Cardinality(S) \in Nat
      /\ \A n \in 1 .. Cardinality(S) : Nth(S, n) \in S
      /\ \A k \in S : \E n \in 1 .. Cardinality(S) : Nth(S, n) = k
      /\ \A n, m \in 1 .. Cardinality(S) : n < m => Nth(S, n) < Nth(S, m)
  BY SelectedEnumerates
<1>2. \A k \in S : k \in Nat
  OBVIOUS
<1>3. 1 \in 1 .. Cardinality(S)
  <2>1. PICK k \in S : TRUE
    OBVIOUS
  <2>2. PICK n \in 1 .. Cardinality(S) : Nth(S, n) = k
    BY <1>1, <2>1
  <2> QED
    BY <1>1, <2>2
<1>4. ASSUME NEW k \in S
      PROVE  Nth(S, 1) <= k
  <2>1. PICK n \in 1 .. Cardinality(S) : Nth(S, n) = k
    BY <1>1
  <2>2. Nth(S, 1) \in Nat
    BY <1>1, <1>2, <1>3
  <2>3. CASE n = 1
    BY <2>1, <2>2, <2>3
  <2>4. CASE n # 1
    <3>1. 1 < n
      BY <1>1, <2>1, <2>4
    <3> QED
      BY <1>1, <1>2, <1>3, <2>1, <2>2, <3>1
  <2> QED
    BY <2>3, <2>4
<1> QED
  BY <1>1, <1>3, <1>4

-----------------------------------------------------------------------------
(* Correlation *)

LEMMA GreatestExists ==
    ASSUME NEW S \in SUBSET Severities, S # {}
    PROVE  Max(S) \in S /\ \A y \in S : Max(S) >= y
<1>1. \E x \in S : \A y \in S : x >= y
  <2>1. \A y \in S : y \in {0, 1, 2, 3, 4}
    BY DEF Severities, Info, Critical
  <2>2. CASE 4 \in S
    BY <2>1, <2>2
  <2>3. CASE 4 \notin S /\ 3 \in S
    BY <2>1, <2>3
  <2>4. CASE 4 \notin S /\ 3 \notin S /\ 2 \in S
    BY <2>1, <2>4
  <2>5. CASE 4 \notin S /\ 3 \notin S /\ 2 \notin S /\ 1 \in S
    BY <2>1, <2>5
  <2>6. CASE 4 \notin S /\ 3 \notin S /\ 2 \notin S /\ 1 \notin S
    BY <2>1, <2>6
  <2> QED
    BY <2>2, <2>3, <2>4, <2>5, <2>6
<1> QED
  BY <1>1 DEF Max

LEMMA ChainSeverities ==
    /\ DOMAIN Chains = 1 .. 4
    /\ \A c \in 1 .. 4 : Chains[c].severity \in {High, Critical}
<1>1. DOMAIN Chains = 1 .. 4
  BY DEF Chains
<1>2. /\ Chains[1].severity = Critical /\ Chains[2].severity = High
      /\ Chains[3].severity = Critical /\ Chains[4].severity = Critical
  BY DEF Chains
<1> QED
  BY <1>1, <1>2

\* A chain never lowers a severity, and raises it to its own.
LEMMA EscalatedRises ==
    ASSUME NEW severity \in Severities, NEW chains \in SUBSET DOMAIN Chains
    PROVE  /\ Escalated(severity, chains) \in Severities
           /\ Escalated(severity, chains) >= severity
           /\ chains # {} => Escalated(severity, chains) >= High
<1> DEFINE S == {severity} \cup {Chains[c].severity : c \in chains}
<1>1. S \in SUBSET Severities /\ severity \in S
  BY ChainSeverities DEF Severities, Info, Low, Medium, High, Critical
<1>2. ASSUME NEW c \in chains
      PROVE  Chains[c].severity \in S /\ Chains[c].severity >= High
  BY ChainSeverities DEF High, Critical
<1>3. Max(S) \in S /\ \A y \in S : Max(S) >= y
  <2> HIDE DEF S
  <2> QED
    BY <1>1, GreatestExists
<1>4. Escalated(severity, chains) = Max(S)
  BY DEF Escalated
<1>5. \A y \in S : y \in 0 .. 4
  BY <1>1 DEF Severities, Info, Critical
<1> HIDE DEF S
<1> QED
  BY <1>1, <1>2, <1>3, <1>4, <1>5 DEF High

LEMMA BoostIsNumber == ASSUME NEW category, NEW present PROVE Boost(category, present) \in Nat
<1>1. /\ CorrelationRules[1][3] \in Nat /\ CorrelationRules[2][3] \in Nat
      /\ CorrelationRules[3][3] \in Nat /\ CorrelationRules[4][3] \in Nat
      /\ CorrelationRules[5][3] \in Nat /\ CorrelationRules[6][3] \in Nat
      /\ CorrelationRules[7][3] \in Nat
  BY DEF CorrelationRules
<1>2. ASSUME NEW k \in 1 .. 7
      PROVE  BoostOf(CorrelationRules[k], category, present) \in Nat
  <2>1. CorrelationRules[k][3] \in Nat
    BY <1>1
  <2> QED
    BY <2>1 DEF BoostOf
<1>3. /\ 1 \in 1 .. 7 /\ 2 \in 1 .. 7 /\ 3 \in 1 .. 7 /\ 4 \in 1 .. 7
      /\ 5 \in 1 .. 7 /\ 6 \in 1 .. 7 /\ 7 \in 1 .. 7
  OBVIOUS
<1> QED
  BY <1>2, <1>3 DEF Boost

\* A confidence is raised, to 0.99 at most.
LEMMA AdjustedRises ==
    ASSUME NEW confidence \in Nat, confidence <= MostSure, NEW boost \in Nat, NEW chains \in SUBSET DOMAIN Chains
    PROVE  /\ Adjusted(confidence, boost, chains) \in Int
           /\ confidence <= Adjusted(confidence, boost, chains)
           /\ Adjusted(confidence, boost, chains) <= MostSure
<1>1. IsFiniteSet(chains)
  <2>1. IsFiniteSet(1 .. 4)
    <3>1. PICK n \in Int : n = 4
      OBVIOUS
    <3>2. IsFiniteSet(1 .. n)
      BY FS_Interval
    <3> QED
      BY <3>1, <3>2
  <2> QED
    BY <2>1, ChainSeverities, FS_Subset
<1>2. PICK n \in Nat : n = Cardinality(chains)
  BY <1>1, FS_CardinalityType
<1>3. confidence + boost + 100 * n >= confidence
  BY <1>2
<1> QED
  BY <1>2, <1>3 DEF Adjusted, Least, MostSure

\* The findings that are kept, in their order, each with the place where it was made.
LEMMA DeduplicateEnumerates ==
    ASSUME NEW fs, IsList(fs)
    PROVE  LET kept == Deduplicate(fs)
           IN /\ Firsts(fs) \in SUBSET (1 .. Len(fs)) /\ DOMAIN fs = 1 .. Len(fs) /\ Len(fs) \in Nat
              /\ Cardinality(Firsts(fs)) \in Nat
              /\ DOMAIN kept = 1 .. Cardinality(Firsts(fs))
              /\ \A n \in DOMAIN kept : kept[n].id \in Firsts(fs) /\ kept[n].raw = fs[kept[n].id]
              /\ \A i \in Firsts(fs) : \E n \in DOMAIN kept : kept[n].id = i
              /\ \A n, m \in DOMAIN kept : n < m => kept[n].id < kept[m].id
<1> DEFINE s == [i \in DOMAIN fs |-> [id |-> i, raw |-> fs[i]]]
           kept == Deduplicate(fs)
<1>1. DOMAIN fs = 1 .. Len(fs) /\ Len(fs) \in Nat
  BY DEF IsList
<1>2. Firsts(fs) \in SUBSET (1 .. Len(fs))
  BY <1>1 DEF Firsts
<1>3. kept = Selected(s, Firsts(fs))
  BY DEF Deduplicate
<1>4. \A i \in Firsts(fs) : s[i].id = i /\ s[i].raw = fs[i]
  BY <1>1, <1>2
<1> HIDE DEF s, kept
<1>5. /\ Cardinality(Firsts(fs)) \in Nat
      /\ DOMAIN kept = 1 .. Cardinality(Firsts(fs))
      /\ \A n \in 1 .. Cardinality(Firsts(fs)) : Nth(Firsts(fs), n) \in Firsts(fs) /\ kept[n] = s[Nth(Firsts(fs), n)]
      /\ \A i \in Firsts(fs) : \E n \in 1 .. Cardinality(Firsts(fs)) : Nth(Firsts(fs), n) = i
      /\ \A n, m \in 1 .. Cardinality(Firsts(fs)) : n < m => Nth(Firsts(fs), n) < Nth(Firsts(fs), m)
  BY <1>1, <1>2, <1>3, SelectedEnumerates
<1>6. \A n \in DOMAIN kept : kept[n].id = Nth(Firsts(fs), n)
  BY <1>4, <1>5
<1>7. \A n \in DOMAIN kept : kept[n].id \in Firsts(fs) /\ kept[n].raw = fs[kept[n].id]
  BY <1>4, <1>5, <1>6
<1>8. \A i \in Firsts(fs) : \E n \in DOMAIN kept : kept[n].id = i
  BY <1>5, <1>6
<1>9. \A n, m \in DOMAIN kept : n < m => kept[n].id < kept[m].id
  BY <1>5, <1>6
<1> QED
  BY <1>1, <1>2, <1>5, <1>7, <1>8, <1>9 DEF kept

\* Every finding has a first one of its key.
LEMMA FirstOfKey ==
    ASSUME NEW fs, IsList(fs), NEW i \in DOMAIN fs
    PROVE  \E j \in Firsts(fs) : Key(fs[j]) = Key(fs[i]) /\ j <= i
<1> DEFINE S == {j \in 1 .. Len(fs) : Key(fs[j]) = Key(fs[i])}
<1>1. DOMAIN fs = 1 .. Len(fs) /\ Len(fs) \in Nat
  BY DEF IsList
<1>2. S \in SUBSET (1 .. Len(fs)) /\ i \in S /\ S \in SUBSET Nat
  BY <1>1
<1>3. PICK j \in S : \A k \in S : j <= k
  <2> HIDE DEF S
  <2> QED
    BY <1>1, <1>2, LeastExists
<1>4. j \in Firsts(fs)
  <2>1. ASSUME NEW k \in 1 .. j - 1, Key(fs[k]) = Key(fs[j])
        PROVE  FALSE
    <3>1. k \in S /\ k < j
      BY <1>1, <1>3, <2>1
    <3> QED
      BY <1>3, <3>1
  <2> QED
    BY <1>1, <1>3, <2>1 DEF Firsts, IsDuplicate
<1> QED
  BY <1>2, <1>3, <1>4

\* Two firsts of the same key are one.
LEMMA FirstsDiffer ==
    ASSUME NEW fs, IsList(fs), NEW i \in Firsts(fs), NEW j \in Firsts(fs), Key(fs[i]) = Key(fs[j])
    PROVE  i = j
<1>1. i \in Nat \ {0} /\ j \in Nat \ {0}
  BY DEF IsList, Firsts
<1>2. ~ (i < j) /\ ~ (j < i)
  BY <1>1 DEF Firsts, IsDuplicate
<1> QED
  BY <1>1, <1>2

LEMMA CategoriesKept ==
    ASSUME NEW fs, IsList(fs)
    PROVE  Categories(Deduplicate(fs)) = {fs[i].category : i \in DOMAIN fs}
<1> DEFINE kept == Deduplicate(fs)
<1>1. /\ Firsts(fs) \in SUBSET DOMAIN fs
      /\ \A n \in DOMAIN kept : kept[n].id \in Firsts(fs) /\ kept[n].raw = fs[kept[n].id]
      /\ \A i \in Firsts(fs) : \E n \in DOMAIN kept : kept[n].id = i
  BY DeduplicateEnumerates
<1>2. Categories(kept) = {kept[n].raw.category : n \in DOMAIN kept}
  BY DEF Categories
<1> HIDE DEF kept
<1>3. ASSUME NEW i \in DOMAIN fs
      PROVE  \E n \in DOMAIN kept : kept[n].raw.category = fs[i].category
  <2>1. PICK j \in Firsts(fs) : Key(fs[j]) = Key(fs[i])
    BY FirstOfKey
  <2>2. fs[j].category = fs[i].category
    BY <2>1 DEF Key
  <2>3. PICK n \in DOMAIN kept : kept[n].id = j
    BY <1>1
  <2> QED
    BY <1>1, <2>2, <2>3
<1>4. ASSUME NEW n \in DOMAIN kept
      PROVE  \E i \in DOMAIN fs : kept[n].raw.category = fs[i].category
  BY <1>1
<1> QED
  BY <1>2, <1>3, <1>4 DEF kept

\* What a correlated finding keeps of the first one of its key, and what it is raised to.
Keeps(fs, g, f) ==
    /\ g.category = f.category /\ g.title = f.title /\ g.url = f.url /\ g.cvss = f.cvss
    /\ g.severity \in Severities /\ g.severity >= f.severity
    /\ ChainsOf(f.category, Categories(Deduplicate(fs))) # {} => g.severity >= High
    /\ g.confidence \in f.confidence .. MostSure

LEMMA EscalateKeeps ==
    ASSUME NEW fs, NEW kept, NEW n, IsFinding(kept[n].raw)
    PROVE  LET g == Escalate(kept, Categories(Deduplicate(fs)), n)
           IN g.id = kept[n].id /\ Keeps(fs, g, kept[n].raw)
<1> DEFINE present == Categories(Deduplicate(fs))
           g == Escalate(kept, present, n)
<1>1. PICK f : f = kept[n].raw /\ IsFinding(f)
  OBVIOUS
<1>2. PICK confidence \in Nat : confidence <= MostSure /\ confidence = f.confidence
  <2> HIDE DEF g
  <2>1. f.confidence \in 0 .. MostSure
    BY <1>1 DEF IsFinding
  <2>2. MostSure \in Nat
    BY DEF MostSure
  <2> QED
    BY <2>1, <2>2
<1>3. PICK severity \in Severities : severity = f.severity
  BY <1>1 DEF IsFinding
<1>4. PICK chains \in SUBSET DOMAIN Chains : chains = ChainsOf(f.category, present)
  BY DEF ChainsOf
<1>5. PICK boost \in Nat : boost = Boost(f.category, present)
  BY BoostIsNumber
<1> HIDE DEF present
<1>6. /\ g.id = kept[n].id /\ g.category = f.category /\ g.title = f.title
      /\ g.url = f.url /\ g.cvss = f.cvss
      /\ g.severity = Escalated(severity, chains)
      /\ g.confidence = Adjusted(confidence, boost, chains)
  BY <1>1, <1>2, <1>3, <1>4, <1>5 DEF Escalate
<1> HIDE DEF g
<1>7. /\ g.severity \in Severities /\ g.severity >= severity
      /\ chains # {} => g.severity >= High
  BY <1>6, EscalatedRises
<1>8. g.confidence \in confidence .. MostSure
  <2>1. Adjusted(confidence, boost, chains) \in Int
        /\ confidence <= Adjusted(confidence, boost, chains)
        /\ Adjusted(confidence, boost, chains) <= MostSure
    BY <1>2, AdjustedRises
  <2> QED
    BY <1>6, <2>1 DEF MostSure
<1> QED
  BY <1>1, <1>2, <1>3, <1>4, <1>6, <1>7, <1>8 DEF Keeps, g, present

\* The correlated findings are the firsts in their order, no less severe and no less sure, and
\* severe where they are part of a chain.
LEMMA CorrelateKeeps ==
    ASSUME NEW fs, AreFindings(fs)
    PROVE  LET c == Correlate(fs)
           IN /\ IsList(fs) /\ Firsts(fs) \in SUBSET DOMAIN fs
              /\ Cardinality(Firsts(fs)) \in Nat /\ DOMAIN c = 1 .. Cardinality(Firsts(fs))
              /\ \A n \in DOMAIN c : c[n].id \in Firsts(fs) /\ Keeps(fs, c[n], fs[c[n].id])
              /\ \A i \in Firsts(fs) : \E n \in DOMAIN c : c[n].id = i
              /\ \A n, m \in DOMAIN c : n < m => c[n].id < c[m].id
<1> DEFINE c == Correlate(fs)
           kept == Deduplicate(fs)
           present == Categories(Deduplicate(fs))
<1>1. IsList(fs)
  BY DEF AreFindings
<1>2. /\ Firsts(fs) \in SUBSET DOMAIN fs
      /\ Cardinality(Firsts(fs)) \in Nat
      /\ DOMAIN kept = 1 .. Cardinality(Firsts(fs))
      /\ \A n \in DOMAIN kept : kept[n].id \in Firsts(fs) /\ kept[n].raw = fs[kept[n].id]
      /\ \A i \in Firsts(fs) : \E n \in DOMAIN kept : kept[n].id = i
      /\ \A n, m \in DOMAIN kept : n < m => kept[n].id < kept[m].id
  BY <1>1, DeduplicateEnumerates
<1>3. c = [n \in DOMAIN kept |-> Escalate(kept, present, n)]
  BY DEF Correlate
<1> HIDE DEF c, kept, present
<1>4. ASSUME NEW n \in DOMAIN kept
      PROVE  c[n].id = kept[n].id /\ Keeps(fs, c[n], fs[c[n].id])
  <2>1. IsFinding(kept[n].raw) /\ kept[n].raw = fs[kept[n].id]
    BY <1>2 DEF AreFindings
  <2>2. c[n] = Escalate(kept, present, n)
    BY <1>3
  <2>3. c[n].id = kept[n].id /\ Keeps(fs, c[n], kept[n].raw)
    BY <2>1, <2>2, EscalateKeeps DEF present
  <2> QED
    BY <2>1, <2>3
<1>5. DOMAIN c = DOMAIN kept
  BY <1>3
<1>6. \A n \in DOMAIN c : c[n].id \in Firsts(fs) /\ Keeps(fs, c[n], fs[c[n].id])
  BY <1>2, <1>4, <1>5
<1>7. /\ \A i \in Firsts(fs) : \E n \in DOMAIN c : c[n].id = i
      /\ \A n, m \in DOMAIN c : n < m => c[n].id < c[m].id
  BY <1>2, <1>4, <1>5
<1> QED
  BY <1>1, <1>2, <1>5, <1>6, <1>7 DEF c

\* The counts of the correlated findings tell of whatever is alarming in the raw ones.
LEMMA AlarmIsCounted ==
    ASSUME NEW fs, AreFindings(fs), Alarming(fs)
    PROVE  Severe(SeverityCounts(Correlate(fs))) > 0
<1> DEFINE c == Correlate(fs)
           of(s) == {n \in DOMAIN c : c[n].severity = s}
<1>1. /\ IsList(fs) /\ Firsts(fs) \in SUBSET DOMAIN fs
      /\ Cardinality(Firsts(fs)) \in Nat /\ DOMAIN c = 1 .. Cardinality(Firsts(fs))
      /\ \A n \in DOMAIN c : c[n].id \in Firsts(fs) /\ Keeps(fs, c[n], fs[c[n].id])
      /\ \A i \in Firsts(fs) : \E n \in DOMAIN c : c[n].id = i
  BY CorrelateKeeps
<1>2. \E n \in DOMAIN c : c[n].severity >= High
  <2> HIDE DEF c
  <2>1. CASE \E i \in DOMAIN fs : fs[i].severity >= High /\ \A j \in 1 .. i - 1 : ~ Same(fs[j], fs[i])
    <3>1. PICK i \in DOMAIN fs : fs[i].severity >= High /\ \A j \in 1 .. i - 1 : ~ Same(fs[j], fs[i])
      BY <2>1
    <3>2. i \in Firsts(fs)
      BY <3>1 DEF Firsts, IsDuplicate, Key, Same
    <3>3. PICK n \in DOMAIN c : c[n].id = i
      BY <1>1, <3>2
    <3>4. c[n].severity \in 0 .. 4 /\ c[n].severity >= fs[i].severity
      BY <1>1, <3>3 DEF Keeps, Severities, Info, Critical
    <3>5. fs[i].severity \in 0 .. 4
      <4>1. IsFinding(fs[i])
        BY <3>1 DEF AreFindings
      <4> QED
        BY <4>1 DEF Severities, Info, Critical, IsFinding
    <3> QED
      BY <3>1, <3>4, <3>5 DEF High
  <2>2. CASE \E k \in DOMAIN Chains : Chains[k].required \subseteq {fs[i].category : i \in DOMAIN fs}
    <3>1. PICK k \in DOMAIN Chains : Chains[k].required \subseteq {fs[i].category : i \in DOMAIN fs}
      BY <2>2
    <3>2. PICK category : category \in Chains[k].required
      <4>1. /\ Chains[1].required = {"xss", "cookie"} /\ Chains[2].required = {"cors", "cookie"}
            /\ Chains[3].required = {"ssti", "path_traversal"} /\ Chains[4].required = {"sqli", "csrf"}
        BY DEF Chains
      <4> QED
        BY <3>1, <4>1, ChainSeverities
    <3>3. PICK i \in DOMAIN fs : fs[i].category = category
      BY <3>1, <3>2
    <3>4. PICK j \in Firsts(fs) : Key(fs[j]) = Key(fs[i])
      BY <1>1, FirstOfKey
    <3>5. fs[j].category = category
      BY <3>3, <3>4 DEF Key
    <3>6. k \in ChainsOf(category, Categories(Deduplicate(fs)))
      BY <1>1, <3>1, <3>2, CategoriesKept DEF ChainsOf
    <3>7. PICK n \in DOMAIN c : c[n].id = j
      BY <1>1
    <3> QED
      BY <1>1, <3>5, <3>6, <3>7 DEF Keeps
  <2> QED
    BY <2>1, <2>2 DEF Alarming
<1>3. of(Critical) # {} \/ of(High) # {}
  <2>1. PICK n \in DOMAIN c : c[n].severity >= High
    BY <1>2
  <2>2. c[n].severity \in {High, Critical}
    BY <1>1, <2>1 DEF Keeps, Severities, Info, High, Critical
  <2> QED
    BY <2>2
<1>4. ASSUME NEW s
      PROVE  Cardinality(of(s)) \in Nat /\ (of(s) # {} => Cardinality(of(s)) > 0)
  <2>1. IsFiniteSet(1 .. Cardinality(Firsts(fs)))
    BY <1>1, FS_Interval
  <2>2. of(s) \in SUBSET (1 .. Cardinality(Firsts(fs)))
    BY <1>1
  <2> HIDE DEF of
  <2>3. IsFiniteSet(of(s))
    BY <2>1, <2>2, FS_Subset
  <2>4. Cardinality(of(s)) \in Nat /\ (Cardinality(of(s)) = 0 <=> of(s) = {})
    BY <2>3, FS_CardinalityType, FS_EmptySet
  <2> QED
    BY <2>4
<1>5. Severe(SeverityCounts(c)) = Cardinality(of(Critical)) + Cardinality(of(High))
  BY DEF Severe, SeverityCounts, Severities, Info, High, Critical
<1> HIDE DEF of, c
<1> QED
  BY <1>3, <1>4, <1>5 DEF c

-----------------------------------------------------------------------------
(* Risk *)

LEMMA AssetFactorRange == ASSUME NEW url PROVE AssetFactor(url) \in {10, 11, 12, 13, 14, 15}
<1> DEFINE hits == {i \in DOMAIN AssetImportance : AssetImportance[i][1] \in Keywords[url]}
<1>1. /\ DOMAIN AssetImportance = 1 .. 10
      /\ AssetImportance[1][2] = 13 /\ AssetImportance[2][2] = 14 /\ AssetImportance[3][2] = 12
      /\ AssetImportance[4][2] = 13 /\ AssetImportance[5][2] = 15 /\ AssetImportance[6][2] = 15
      /\ AssetImportance[7][2] = 13 /\ AssetImportance[8][2] = 12 /\ AssetImportance[9][2] = 11
      /\ AssetImportance[10][2] = 12
  BY DEF AssetImportance
<1>2. CASE hits = {}
  BY <1>2 DEF AssetFactor
<1>3. CASE hits # {}
  <2>1. PICK n \in Nat : n = 10
    OBVIOUS
  <2>2. hits \in SUBSET (1 .. n)
    BY <1>1, <2>1
  <2>3. PICK k : k = Min(hits)
    OBVIOUS
  <2>4. k \in hits
    <3> HIDE DEF hits
    <3>1. \E i \in hits : \A j \in hits : i <= j
      BY <1>3, <2>2, LeastExists
    <3> QED
      BY <2>3, <3>1 DEF Min
  <2>5. k \in 1 .. 10
    BY <1>1, <2>4
  <2>6. AssetFactor(url) = AssetImportance[k][2]
    BY <1>3, <2>3 DEF AssetFactor
  <2> QED
    BY <1>1, <2>5, <2>6
<1> QED
  BY <1>2, <1>3

LEMMA ExploitFactorRises ==
    ASSUME NEW c \in Int, NEW d \in Int, c <= d, NEW verified
    PROVE  /\ ExploitFactor(FALSE, c) \in {8, 10, 11}
           /\ ExploitFactor(verified, d) \in {8, 10, 11, 12}
           /\ ExploitFactor(FALSE, c) <= ExploitFactor(verified, d)
BY DEF ExploitFactor

\* The score after the context of a finding: rounded, and no less than 0.
Rounded(contextual) ==
    LET rounded == (contextual + 500) \div 1000
    IN IF rounded < 0 THEN 0 ELSE Least(100, rounded)

LEMMA RoundedRises ==
    ASSUME NEW x \in Int, NEW y \in Int, x <= y \/ x <= 0
    PROVE  Rounded(x) \in Nat /\ Rounded(y) \in Nat /\ Rounded(x) <= Rounded(y)
<1>1. PICK p \in Int : p = (x + 500) \div 1000
  OBVIOUS
<1>2. PICK q \in Int : q = (y + 500) \div 1000
  OBVIOUS
<1>3. p <= q \/ p <= 0
  BY <1>1, <1>2
<1>4. /\ Rounded(x) = IF p < 0 THEN 0 ELSE IF 100 < p THEN 100 ELSE p
      /\ Rounded(y) = IF q < 0 THEN 0 ELSE IF 100 < q THEN 100 ELSE q
  BY <1>1, <1>2 DEF Rounded, Least
<1> QED
  BY <1>3, <1>4

\* The same score in the same place is worth no less when the finding is surer, whatever its
\* modifiers are.
LEMMA ContextRises ==
    ASSUME NEW adjusted \in Int, NEW asset \in {10, 11, 12, 13, 14, 15},
           NEW e \in {8, 10, 11}, NEW f \in {8, 10, 11, 12}, e <= f
    PROVE  /\ adjusted * asset * e * 11 \in Int /\ adjusted * asset * f * 11 \in Int
           /\ adjusted * asset * e * 11 <= adjusted * asset * f * 11 \/ adjusted * asset * e * 11 <= 0
<1>1. PICK a \in Int : a = adjusted * asset
  OBVIOUS
<1>2. \A g \in {8, 10, 11, 12} : a * g * 11 \in Int
  OBVIOUS
<1>3. CASE a <= 0
  <2>1. a * e * 11 <= 0
    BY <1>3
  <2> QED
    BY <1>1, <1>2, <2>1
<1>4. CASE a > 0
  <2>1. a * e * 11 <= a * f * 11
    BY <1>4
  <2> QED
    BY <1>1, <1>2, <2>1
<1> QED
  BY <1>3, <1>4

LEMMA TechModifierIsNumber ==
    ASSUME NEW technologies, NEW category PROVE TechModifier(technologies, category) \in Int
BY DEF TechModifier

LEMMA BaseScoreIsNumber == ASSUME NEW category PROVE BaseScore(category) \in Nat
BY DEF BaseScore

LEMMA FinalScoreRises ==
    ASSUME NEW f, NEW g, NEW technologies, ~ IsVerified(f),
           g.category = f.category, g.url = f.url, g.cvss = f.cvss, f.cvss \in Nat,
           f.confidence \in Int, g.confidence \in Int, f.confidence <= g.confidence
    PROVE  FinalScore(g, technologies) >= FinalScore(f, technologies)
<1> DEFINE base     == IF f.cvss # 0 THEN f.cvss ELSE BaseScore(f.category)
           adjusted == base + TechModifier(technologies, f.category)
           asset    == AssetFactor(f.url)
           ef       == ExploitFactor(IsVerified(f), f.confidence)
           eg       == ExploitFactor(IsVerified(g), g.confidence)
<1>1. base \in Nat
  BY BaseScoreIsNumber
<1>2. adjusted \in Int
  <2> HIDE DEF base
  <2>1. PICK m \in Int : m = TechModifier(technologies, f.category)
    BY TechModifierIsNumber
  <2> QED
    BY <1>1, <2>1
<1>3. asset \in {10, 11, 12, 13, 14, 15}
  BY AssetFactorRange
<1>4. ef \in {8, 10, 11} /\ eg \in {8, 10, 11, 12} /\ ef <= eg
  <2>1. ef = ExploitFactor(FALSE, f.confidence)
    BY DEF ExploitFactor
  <2> HIDE DEF ef
  <2> QED
    BY <2>1, ExploitFactorRises
<1>5. /\ FinalScore(f, technologies) = Rounded(adjusted * asset * ef * 11)
      /\ FinalScore(g, technologies) = Rounded(adjusted * asset * eg * 11)
  BY DEF FinalScore, Rounded
<1> HIDE DEF adjusted, asset, ef, eg
<1>6. PICK x \in Int, y \in Int : x = adjusted * asset * ef * 11 /\ y = adjusted * asset * eg * 11
                                  /\ (x <= y \/ x <= 0)
  BY <1>2, <1>3, <1>4, ContextRises
<1>7. Rounded(x) \in Nat /\ Rounded(y) \in Nat /\ Rounded(x) <= Rounded(y)
  BY <1>6, RoundedRises
<1> QED
  BY <1>5, <1>6, <1>7

-----------------------------------------------------------------------------
(* What the phases find *)

LEMMA FunctionIsList ==
    ASSUME NEW n \in Nat, NEW f, f = [i \in 1 .. n |-> f[i]]
    PROVE  IsList(f) /\ Len(f) = n /\ DOMAIN f = 1 .. n
<1> DEFINE T == {f[i] : i \in DOMAIN f}
<1>1. DOMAIN f = 1 .. n
  OBVIOUS
<1>2. \A i \in 1 .. n : f[i] \in T
  BY <1>1
<1>3. f \in [1 .. n -> T]
  <2> HIDE DEF T
  <2> QED
    BY <1>2
<1>4. f \in Seq(T)
  <2> HIDE DEF T
  <2> QED
    BY <1>3
<1> QED
  BY <1>1, <1>4 DEF IsList

LEMMA SequenceIsList == ASSUME NEW S, NEW s \in Seq(S) PROVE IsList(s)
<1>1. /\ Len(s) \in Nat /\ s \in [1 .. Len(s) -> S]
  OBVIOUS
<1>2. s = [i \in 1 .. Len(s) |-> s[i]]
  BY <1>1
<1> QED
  BY <1>1, <1>2, FunctionIsList

LEMMA ListConcat ==
    ASSUME NEW s, IsList(s), NEW t, IsList(t)
    PROVE  /\ IsList(s \o t) /\ Len(s \o t) = Len(s) + Len(t)
           /\ Len(s) \in Nat /\ DOMAIN s = 1 .. Len(s) /\ Len(t) \in Nat /\ DOMAIN t = 1 .. Len(t)
           /\ DOMAIN (s \o t) = 1 .. Len(s) + Len(t)
           /\ \A i \in 1 .. Len(s) : (s \o t)[i] = s[i]
           /\ \A i \in 1 .. Len(t) : (s \o t)[Len(s) + i] = t[i]
           /\ \A i \in DOMAIN (s \o t) : i \in DOMAIN s \/ i - Len(s) \in DOMAIN t
<1> DEFINE S == {s[i] : i \in DOMAIN s} \cup {t[i] : i \in DOMAIN t}
<1>1. s \in Seq(S) /\ t \in Seq(S)
  BY DEF IsList
<1> HIDE DEF S
<1>2. /\ s \o t \in Seq(S) /\ Len(s \o t) = Len(s) + Len(t)
      /\ Len(s) \in Nat /\ DOMAIN s = 1 .. Len(s) /\ Len(t) \in Nat /\ DOMAIN t = 1 .. Len(t)
      /\ DOMAIN (s \o t) = 1 .. Len(s) + Len(t)
      /\ \A i \in 1 .. Len(s) : (s \o t)[i] = s[i]
      /\ \A i \in 1 .. Len(t) : (s \o t)[Len(s) + i] = t[i]
  BY <1>1
<1>3. \A i \in 1 .. Len(s) + Len(t) : i \in 1 .. Len(s) \/ i - Len(s) \in 1 .. Len(t)
  BY <1>2
<1>4. IsList(s \o t)
  BY <1>2, SequenceIsList
<1> QED
  BY <1>2, <1>3, <1>4

LEMMA FindingsConcat ==
    ASSUME NEW s, AreFindings(s), NEW t, AreFindings(t)
    PROVE  /\ AreFindings(s \o t)
           /\ ArePathless(s) /\ ArePathless(t) => ArePathless(s \o t)
<1>1. IsList(s) /\ IsList(t)
  BY DEF AreFindings
<1>2. /\ IsList(s \o t)
      /\ Len(s) \in Nat /\ DOMAIN s = 1 .. Len(s) /\ Len(t) \in Nat /\ DOMAIN t = 1 .. Len(t)
      /\ DOMAIN (s \o t) = 1 .. Len(s) + Len(t)
      /\ \A i \in 1 .. Len(s) : (s \o t)[i] = s[i]
      /\ \A i \in 1 .. Len(t) : (s \o t)[Len(s) + i] = t[i]
      /\ \A i \in DOMAIN (s \o t) : i \in DOMAIN s \/ i - Len(s) \in DOMAIN t
  BY <1>1, ListConcat
<1>3. ASSUME NEW i \in DOMAIN (s \o t)
      PROVE  (\E j \in DOMAIN s : (s \o t)[i] = s[j]) \/ (\E j \in DOMAIN t : (s \o t)[i] = t[j])
  <2>1. CASE i \in DOMAIN s
    BY <1>2, <2>1
  <2>2. CASE i - Len(s) \in DOMAIN t
    <3>1. Len(s) + (i - Len(s)) = i
      BY <1>2
    <3> QED
      BY <1>2, <2>2, <3>1
  <2> QED
    BY <1>2, <2>1, <2>2
<1> QED
  BY <1>2, <1>3 DEF AreFindings, ArePathless

LEMMA SelectedFindings ==
    ASSUME NEW N \in Nat, NEW S \in SUBSET (1 .. N), NEW s, \A i \in S : IsFinding(s[i])
    PROVE  /\ AreFindings(Selected(s, S))
           /\ (\A i \in S : s[i].category # "sensitive_path") => ArePathless(Selected(s, S))
<1>1. /\ Cardinality(S) \in Nat
      /\ DOMAIN Selected(s, S) = 1 .. Cardinality(S)
      /\ \A n \in 1 .. Cardinality(S) : Nth(S, n) \in S /\ Selected(s, S)[n] = s[Nth(S, n)]
  BY SelectedEnumerates
<1>2. Selected(s, S) = [n \in 1 .. Cardinality(S) |-> Selected(s, S)[n]]
  BY <1>1 DEF Selected
<1>3. IsList(Selected(s, S))
  BY <1>1, <1>2, FunctionIsList
<1> QED
  BY <1>1, <1>3 DEF AreFindings, ArePathless

LEMMA PlainIsFinding ==
    ASSUME NEW category, NEW title, NEW severity \in Severities,
           NEW confidence \in Nat, confidence <= MostSure
    PROVE  /\ IsFinding(Plain(category, title, severity, confidence))
           /\ Plain(category, title, severity, confidence).category = category
<1>1. confidence \in 0 .. MostSure
  BY DEF MostSure
<1> QED
  BY <1>1 DEF Plain, Raw, IsFinding

LEMMA SeverityNames ==
    Info \in Severities /\ Low \in Severities /\ Medium \in Severities /\ High \in Severities
    /\ Critical \in Severities
BY DEF Severities, Info, Low, Medium, High, Critical

LEMMA HeaderFindingsType == AreFindings(HeaderFindings) /\ ArePathless(HeaderFindings)
<1> DEFINE S == {i \in DOMAIN SecurityHeaders : SecurityHeaders[i][1] \notin web.headers}
           missing == Selected(SecurityHeaders, S)
<1>1. DOMAIN SecurityHeaders = 1 .. 8
  BY DEF SecurityHeaders
<1>2. /\ SecurityHeaders[1][2] = Medium /\ SecurityHeaders[2][2] = Medium
      /\ SecurityHeaders[3][2] = Low /\ SecurityHeaders[4][2] = Medium
      /\ SecurityHeaders[5][2] = Low /\ SecurityHeaders[6][2] = Low
      /\ SecurityHeaders[7][2] = Info /\ SecurityHeaders[8][2] = Info
  BY DEF SecurityHeaders
<1>3. PICK N \in Nat : N = 8
  OBVIOUS
<1>4. S \in SUBSET (1 .. N) /\ \A i \in S : SecurityHeaders[i][2] \in Severities
  BY <1>1, <1>2, <1>3, SeverityNames
<1>5. /\ Cardinality(S) \in Nat /\ DOMAIN missing = 1 .. Cardinality(S)
      /\ \A n \in 1 .. Cardinality(S) : missing[n][2] \in Severities
  <2> HIDE DEF S
  <2>1. /\ Cardinality(S) \in Nat /\ DOMAIN missing = 1 .. Cardinality(S)
        /\ \A n \in 1 .. Cardinality(S) : Nth(S, n) \in S /\ missing[n] = SecurityHeaders[Nth(S, n)]
    BY <1>4, SelectedEnumerates
  <2> QED
    BY <1>4, <2>1
<1>6. HeaderFindings =
        [i \in DOMAIN missing |-> Plain("security_header", <<"missing", missing[i][1]>>, missing[i][2], 950)]
  BY DEF HeaderFindings
<1> HIDE DEF missing, S
<1>7. ASSUME NEW i \in 1 .. Cardinality(S)
      PROVE  IsFinding(HeaderFindings[i]) /\ HeaderFindings[i].category # "sensitive_path"
  BY <1>5, <1>6, PlainIsFinding DEF MostSure
<1>8. IsList(HeaderFindings) /\ DOMAIN HeaderFindings = 1 .. Cardinality(S)
  <2>1. HeaderFindings = [i \in 1 .. Cardinality(S) |-> HeaderFindings[i]]
    BY <1>5, <1>6
  <2> QED
    BY <1>5, <2>1, FunctionIsList
<1> QED
  BY <1>7, <1>8 DEF AreFindings, ArePathless

LEMMA LeakFindingsType == AreFindings(LeakFindings) /\ ArePathless(LeakFindings)
<1> DEFINE S == {i \in DOMAIN LeakyHeaders : LeakyHeaders[i] \in web.leaks}
           leaks == Selected(LeakyHeaders, S)
<1>1. DOMAIN LeakyHeaders = 1 .. 3
  BY DEF LeakyHeaders
<1>2. PICK N \in Nat : N = 3
  OBVIOUS
<1>3. S \in SUBSET (1 .. N)
  BY <1>1, <1>2
<1>4. Cardinality(S) \in Nat /\ DOMAIN leaks = 1 .. Cardinality(S)
  <2> HIDE DEF S
  <2> QED
    BY <1>3, SelectedEnumerates
<1>5. LeakFindings = [i \in DOMAIN leaks |-> Plain("info_disclosure", <<"leak", leaks[i]>>, Low, 900)]
  BY DEF LeakFindings
<1> HIDE DEF leaks, S
<1>6. ASSUME NEW i \in 1 .. Cardinality(S)
      PROVE  IsFinding(LeakFindings[i]) /\ LeakFindings[i].category # "sensitive_path"
  BY <1>4, <1>5, SeverityNames, PlainIsFinding DEF MostSure
<1>7. IsList(LeakFindings) /\ DOMAIN LeakFindings = 1 .. Cardinality(S)
  <2>1. LeakFindings = [i \in 1 .. Cardinality(S) |-> LeakFindings[i]]
    BY <1>4, <1>5
  <2> QED
    BY <1>4, <2>1, FunctionIsList
<1> QED
  BY <1>6, <1>7 DEF AreFindings, ArePathless

LEMMA CookieFindingsType ==
    ASSUME web \in ScanSites
    PROVE  AreFindings(CookieFindings) /\ ArePathless(CookieFindings)
<1> DEFINE Cookie(k) == web.cookies[(k + 2) \div 3]
           Check(k)  == CookieChecks(Cookie(k))[1 + ((k + 2) % 3)]
           places    == 1 .. 3 * Len(web.cookies)
           made      == [k \in places |-> Plain("cookie", <<Cookie(k).name, Check(k)[1]>>, Check(k)[2], Check(k)[3])]
           S         == {k \in places : Check(k)[4] /\ Check(k)[1] \notin Cookie(k).flags}
<1>1. PICK N \in Nat : N = 3 * Len(web.cookies)
  BY SitesAssumption DEF IsList
<1>2. ASSUME NEW k \in 1 .. N
      PROVE  IsFinding(made[k]) /\ made[k].category # "sensitive_path"
  <2>1. 1 + ((k + 2) % 3) \in {1, 2, 3}
    OBVIOUS
  <2>2. \A c, q : q \in {1, 2, 3} =>
            /\ CookieChecks(c)[q][2] \in Severities
            /\ CookieChecks(c)[q][3] \in Nat /\ CookieChecks(c)[q][3] <= MostSure
    BY SeverityNames DEF CookieChecks, MostSure
  <2>3. Check(k)[2] \in Severities /\ Check(k)[3] \in Nat /\ Check(k)[3] <= MostSure
    BY <2>1, <2>2
  <2>4. made[k] = Plain("cookie", <<Cookie(k).name, Check(k)[1]>>, Check(k)[2], Check(k)[3])
    BY <1>1
  <2> HIDE DEF Cookie, Check, made
  <2> QED
    BY <2>3, <2>4, PlainIsFinding
<1>3. S \in SUBSET (1 .. N)
  BY <1>1
<1>4. CookieFindings = Selected(made, S)
  BY DEF CookieFindings
<1>5. \A k \in S : IsFinding(made[k]) /\ made[k].category # "sensitive_path"
  BY <1>2, <1>3
<1> HIDE DEF made, S
<1> QED
  BY <1>3, <1>4, <1>5, SelectedFindings

LEMMA PassiveFindingsType == AreFindings(PassiveFindings) /\ ArePathless(PassiveFindings)
<1> DEFINE S == {i \in DOMAIN ErrorPatterns : ErrorPatterns[i][1] \in web.shows}
           shown == Selected(ErrorPatterns, S)
           errors == [i \in DOMAIN shown |-> Plain("info_disclosure", <<"error", shown[i][1]>>, shown[i][2], 900)]
           last == IF "password" \in web.shows
                   THEN <<Plain("best_practice", <<"autocomplete">>, Info, 800)>> ELSE <<>>
<1>1. DOMAIN ErrorPatterns = 1 .. 3
  BY DEF ErrorPatterns
<1>2. /\ ErrorPatterns[1][2] = Medium /\ ErrorPatterns[2][2] = High
      /\ ErrorPatterns[3][2] = Medium
  BY DEF ErrorPatterns
<1>3. PICK N \in Nat : N = 3
  OBVIOUS
<1>4. S \in SUBSET (1 .. N) /\ \A i \in S : ErrorPatterns[i][2] \in Severities
  BY <1>1, <1>2, <1>3, SeverityNames
<1>5. /\ Cardinality(S) \in Nat /\ DOMAIN shown = 1 .. Cardinality(S)
      /\ \A n \in 1 .. Cardinality(S) : shown[n][2] \in Severities
  <2> HIDE DEF S
  <2>1. /\ Cardinality(S) \in Nat /\ DOMAIN shown = 1 .. Cardinality(S)
        /\ \A n \in 1 .. Cardinality(S) : Nth(S, n) \in S /\ shown[n] = ErrorPatterns[Nth(S, n)]
    BY <1>4, SelectedEnumerates
  <2> QED
    BY <1>4, <2>1
<1>6. PassiveFindings = errors \o last
  BY DEF PassiveFindings
<1>7. AreFindings(errors) /\ ArePathless(errors)
  <2> HIDE DEF shown, S
  <2>1. ASSUME NEW i \in 1 .. Cardinality(S)
        PROVE  IsFinding(errors[i]) /\ errors[i].category # "sensitive_path"
    BY <1>5, PlainIsFinding DEF MostSure
  <2>2. errors = [i \in 1 .. Cardinality(S) |-> errors[i]]
    BY <1>5
  <2>3. IsList(errors) /\ DOMAIN errors = 1 .. Cardinality(S)
    <3> HIDE DEF errors
    <3> QED
      BY <1>5, <2>2, FunctionIsList
  <2> HIDE DEF errors
  <2> QED
    BY <2>1, <2>3 DEF AreFindings, ArePathless
<1>8. AreFindings(last) /\ ArePathless(last)
  <2>1. PICK f : f = Plain("best_practice", <<"autocomplete">>, Info, 800)
    OBVIOUS
  <2>2. IsFinding(f) /\ f.category # "sensitive_path"
    BY <2>1, SeverityNames, PlainIsFinding DEF MostSure
  <2>3. last = <<f>> \/ last = <<>>
    BY <2>1
  <2> HIDE DEF last
  <2>4. CASE last = <<f>>
    <3>1. last \in Seq({f}) /\ DOMAIN last = {1} /\ last[1] = f
      BY <2>4
    <3> QED
      BY <2>2, <3>1, SequenceIsList DEF AreFindings, ArePathless
  <2>5. CASE last = <<>>
    <3>1. last \in Seq({}) /\ DOMAIN last = {}
      BY <2>5
    <3> QED
      BY <3>1, SequenceIsList DEF AreFindings, ArePathless
  <2> QED
    BY <2>3, <2>4, <2>5
<1> HIDE DEF errors, last
<1> QED
  BY <1>6, <1>7, <1>8, FindingsConcat

\* The findings of phase 6 are those of the paths that are there, in the order of the table.
Answered == {i \in DOMAIN SensitivePaths : pathAnswers[i] \in {"exposed", "blocked"}}

LEMMA PathFindingsEnumerate ==
    /\ AreFindings(PathFindings)
    /\ Answered \in SUBSET (1 .. Len(SensitivePaths)) /\ Cardinality(Answered) \in Nat
    /\ DOMAIN PathFindings = 1 .. Cardinality(Answered)
    /\ \A n \in DOMAIN PathFindings :
         /\ Nth(Answered, n) \in Answered
         /\ PathFindings[n].category = "sensitive_path"
         /\ PathFindings[n].url = SensitivePaths[Nth(Answered, n)][1]
    /\ \A i \in Answered : \E n \in DOMAIN PathFindings : Nth(Answered, n) = i
    /\ \A n, m \in DOMAIN PathFindings : n < m => Nth(Answered, n) < Nth(Answered, m)
<1> DEFINE made == [i \in DOMAIN SensitivePaths |-> PathFinding(i)]
<1>1. Len(SensitivePaths) \in Nat /\ DOMAIN SensitivePaths = 1 .. Len(SensitivePaths)
  BY FullScanAssumption
<1>2. Answered \in SUBSET (1 .. Len(SensitivePaths))
  BY <1>1 DEF Answered
<1>3. PathFindings = Selected(made, Answered)
  BY DEF PathFindings, Answered
<1>4. ASSUME NEW i \in Answered
      PROVE  /\ IsFinding(made[i]) /\ made[i].category = "sensitive_path"
             /\ made[i].url = SensitivePaths[i][1]
  <2>1. i \in DOMAIN SensitivePaths
    BY DEF Answered
  <2>2. SensitivePaths[i][3] \in Severities
    BY <2>1, FullScanAssumption
  <2>3. 850 \in 0 .. MostSure /\ 700 \in 0 .. MostSure
    BY DEF MostSure
  <2> QED
    BY <2>1, <2>2, <2>3, SeverityNames DEF PathFinding, Raw, IsFinding
<1> HIDE DEF made
<1>5. /\ Cardinality(Answered) \in Nat
      /\ DOMAIN PathFindings = 1 .. Cardinality(Answered)
      /\ \A n \in 1 .. Cardinality(Answered) :
            Nth(Answered, n) \in Answered /\ PathFindings[n] = made[Nth(Answered, n)]
      /\ \A i \in Answered : \E n \in 1 .. Cardinality(Answered) : Nth(Answered, n) = i
      /\ \A n, m \in 1 .. Cardinality(Answered) : n < m => Nth(Answered, n) < Nth(Answered, m)
  BY <1>1, <1>2, <1>3, SelectedEnumerates
<1>6. AreFindings(PathFindings)
  BY <1>1, <1>2, <1>3, <1>4, SelectedFindings
<1>7. \A n \in DOMAIN PathFindings :
         /\ Nth(Answered, n) \in Answered
         /\ PathFindings[n].category = "sensitive_path"
         /\ PathFindings[n].url = SensitivePaths[Nth(Answered, n)][1]
  BY <1>4, <1>5
<1>8. /\ \A i \in Answered : \E n \in DOMAIN PathFindings : Nth(Answered, n) = i
      /\ \A n, m \in DOMAIN PathFindings : n < m => Nth(Answered, n) < Nth(Answered, m)
  BY <1>5
<1> QED
  BY <1>2, <1>5, <1>6, <1>7, <1>8

LEMMA CSRFFindingsType ==
    ASSUME web \in ScanSites, NEW url
    PROVE  AreFindings(CSRFFindings(url)) /\ ArePathless(CSRFFindings(url))
<1> DEFINE f == Raw("csrf", <<"Missing CSRF Protection">>, url, Medium, 800, 43, FALSE)
<1>1. PICK n \in Nat : n = web.openForms
  BY SitesAssumption
<1>2. 800 \in 0 .. MostSure
  BY DEF MostSure
<1>3. IsFinding(f) /\ f.category # "sensitive_path"
  BY <1>2, SeverityNames DEF Raw, IsFinding
<1> HIDE DEF f
<1>4. CSRFFindings(url) = [i \in 1 .. n |-> f]
  BY <1>1 DEF CSRFFindings, f
<1>5. IsList(CSRFFindings(url)) /\ DOMAIN CSRFFindings(url) = 1 .. n
  <2>1. CSRFFindings(url) = [i \in 1 .. n |-> CSRFFindings(url)[i]]
    BY <1>4
  <2> QED
    BY <2>1, FunctionIsList
<1> QED
  BY <1>3, <1>4, <1>5 DEF AreFindings, ArePathless

LEMMA ProbingType ==
    ASSUME web \in ScanSites, NEW url \in Urls
    PROVE  AreFindings(Probing(url)) /\ ArePathless(Probing(url))
<1>1. /\ AreFindings(web.weak[url]) /\ ArePathless(web.weak[url])
      /\ AreFindings(web.cors[url]) /\ ArePathless(web.cors[url])
      /\ AreFindings(web.rate[url]) /\ ArePathless(web.rate[url])
  BY SitesAssumption
<1>2. AreFindings(CSRFFindings(url)) /\ ArePathless(CSRFFindings(url))
  BY CSRFFindingsType
<1>3. AreFindings(web.weak[url] \o CSRFFindings(url)) /\ ArePathless(web.weak[url] \o CSRFFindings(url))
  BY <1>1, <1>2, FindingsConcat
<1>4. /\ AreFindings(web.weak[url] \o CSRFFindings(url) \o web.cors[url])
      /\ ArePathless(web.weak[url] \o CSRFFindings(url) \o web.cors[url])
  BY <1>1, <1>3, FindingsConcat
<1> QED
  BY <1>1, <1>4, FindingsConcat DEF Probing

-----------------------------------------------------------------------------
(* The invariant *)

Entries(s) == {s[i] : i \in DOMAIN s}

Distinct(s) == \A i, j \in DOMAIN s : s[i] = s[j] => i = j

\* The pages that are known are those that were crawled and, once each, those that wait; none
\* was found but over links from the target.
PagesInv ==
    /\ IsList(toCrawl) /\ Distinct(toCrawl)
    /\ crawled \cap Entries(toCrawl) = {}
    /\ discovered = crawled \cup Entries(toCrawl)
    /\ discovered \subseteq Reachable
    /\ Cardinality(crawled) <= MaxUrls
    /\ IsList(probeList) /\ Distinct(probeList)
    /\ Entries(probeList) \subseteq crawled
    /\ at = "start" => discovered = {} /\ probeList = <<>>

\* The links that are read on a page.
LinkedFrom(u) == {web.links[u][i] : i \in Readable(u)}

\* If no request was hindered, nothing that can be read on a crawled page is missed.
CrawlWhole ==
    /\ faults \in Nat
    /\ at \in {"crawl", "probes"} \/ Complete => Target \in discovered
    /\ faults = 0 =>
         \A u \in crawled :
            /\ HasParams(u) <=> u \in Entries(probeList)
            /\ \A v \in LinkedFrom(u) : v \in Urls => v \in discovered

AnswersInv ==
    /\ pathAnswers \in [DOMAIN SensitivePaths -> {"awaited", "exposed", "blocked", "absent", "error"}]
    /\ faults = 0 =>
         \A i \in DOMAIN SensitivePaths : pathAnswers[i] \in {"awaited", web.paths[SensitivePaths[i][1]]}

FirstFindings == HeaderFindings \o LeakFindings \o CookieFindings

\* The findings are those of the phases so far.
FindingsInv ==
    /\ at = "crawl" => findings = FirstFindings
    /\ at = "probes" \/ Complete =>
         /\ findings = FirstFindings \o PathFindings
         /\ CrawlOver
         /\ \A i \in DOMAIN SensitivePaths : pathAnswers[i] # "awaited"

\* If no request was hindered, all that the probes find is kept.
ProbesInv ==
    /\ probed \in Nat
    /\ at \in {"start", "crawl"} => active = <<>>
    /\ at \in {"start", "crawl", "paths", "cors"} => probed = 0
    /\ at = "redirects" => probed <= Len(RedirectNames)
    /\ at = "probes" \/ Complete =>
         /\ AreFindings(active) /\ ArePathless(active)
         /\ probed <= Len(probeList)
         /\ faults = 0 =>
              \A k \in 1 .. probed : \A i \in DOMAIN Probing(probeList[k]) :
                 \E m \in DOMAIN active : active[m] = Probing(probeList[k])[i]
    /\ Complete => probed = Len(probeList)

OutcomeInv ==
    /\ at \in {"start", "crawl", "probes", "paths", "cors", "redirects", "returned", "raised"}
    /\ at # "returned" => outcome = NoOutcome
    /\ outcome.status \in {"none", "failed", "dataclass", "complete"}
    /\ Complete => outcome = Compile(findings \o active \o PassiveFindings)

\* An exit code of 0 has been earned.
StepInv ==
    /\ step \in {"scanning", "saved", "reported", "ended"}
    /\ step \in {"saved", "reported"} => at = "returned"
    /\ step = "ended" =>
         /\ exit \in {0, 1}
         /\ exit = 0 => "summary" \in files /\ ~ (Severe(CountsOf(outcome)) > 0)

ScanInv ==
    /\ web \in ScanSites
    /\ PagesInv /\ CrawlWhole /\ AnswersInv /\ FindingsInv /\ ProbesInv /\ OutcomeInv /\ StepInv

-----------------------------------------------------------------------------
(* Lists and their entries *)

LEMMA EntriesConcat ==
    ASSUME NEW s, IsList(s), NEW t, IsList(t)
    PROVE  /\ IsList(s \o t) /\ Entries(s \o t) = Entries(s) \cup Entries(t)
           /\ Distinct(s) /\ Distinct(t) /\ Entries(s) \cap Entries(t) = {} => Distinct(s \o t)
<1>1. /\ IsList(s \o t) /\ Len(s \o t) = Len(s) + Len(t)
      /\ Len(s) \in Nat /\ DOMAIN s = 1 .. Len(s) /\ Len(t) \in Nat /\ DOMAIN t = 1 .. Len(t)
      /\ DOMAIN (s \o t) = 1 .. Len(s) + Len(t)
      /\ \A i \in 1 .. Len(s) : (s \o t)[i] = s[i]
      /\ \A i \in 1 .. Len(t) : (s \o t)[Len(s) + i] = t[i]
      /\ \A i \in DOMAIN (s \o t) : i \in DOMAIN s \/ i - Len(s) \in DOMAIN t
  BY ListConcat, Zenon
<1>2. \A i \in DOMAIN (s \o t) : i - Len(s) \in DOMAIN t => (s \o t)[i] = t[i - Len(s)]
  <2> SUFFICES ASSUME NEW i \in DOMAIN (s \o t), i - Len(s) \in DOMAIN t
               PROVE  (s \o t)[i] = t[i - Len(s)]
    OBVIOUS
  <2>1. Len(s) + (i - Len(s)) = i
    BY <1>1
  <2> QED
    BY <1>1, <2>1
<1>3. Entries(s \o t) \subseteq Entries(s) \cup Entries(t)
  BY <1>1, <1>2 DEF Entries
<1>4. Entries(s) \subseteq Entries(s \o t)
  <2>1. \A i \in DOMAIN s : i \in DOMAIN (s \o t)
    BY <1>1
  <2> QED
    BY <1>1, <2>1 DEF Entries
<1>5. Entries(t) \subseteq Entries(s \o t)
  <2>1. \A i \in DOMAIN t : Len(s) + i \in DOMAIN (s \o t)
    BY <1>1
  <2> QED
    BY <1>1, <2>1 DEF Entries
<1>6. ASSUME Distinct(s), Distinct(t), Entries(s) \cap Entries(t) = {},
             NEW i \in DOMAIN (s \o t), NEW j \in DOMAIN (s \o t), (s \o t)[i] = (s \o t)[j]
      PROVE  i = j
  <2>1. CASE i \in DOMAIN s /\ j \in DOMAIN s
    BY <1>1, <1>6, <2>1 DEF Distinct
  <2>2. CASE i - Len(s) \in DOMAIN t /\ j - Len(s) \in DOMAIN t
    <3>1. i - Len(s) = j - Len(s)
      BY <1>2, <1>6, <2>2 DEF Distinct
    <3> QED
      BY <1>1, <3>1
  <2>3. CASE i \in DOMAIN s /\ j - Len(s) \in DOMAIN t
    BY <1>1, <1>2, <1>6, <2>3 DEF Entries
  <2>4. CASE i - Len(s) \in DOMAIN t /\ j \in DOMAIN s
    BY <1>1, <1>2, <1>6, <2>4 DEF Entries
  <2> QED
    BY <1>1, <2>1, <2>2, <2>3, <2>4
<1>7. Distinct(s) /\ Distinct(t) /\ Entries(s) \cap Entries(t) = {} => Distinct(s \o t)
  BY <1>6 DEF Distinct
<1>8. IsList(s \o t)
  BY <1>1
<1>9. Entries(s \o t) = Entries(s) \cup Entries(t)
  BY <1>3, <1>4, <1>5
<1> QED
  BY <1>7, <1>8, <1>9

LEMMA EntriesAppend ==
    ASSUME NEW s, IsList(s), NEW e
    PROVE  /\ IsList(Append(s, e)) /\ Entries(Append(s, e)) = Entries(s) \cup {e}
           /\ Len(Append(s, e)) = Len(s) + 1 /\ Len(s) \in Nat
           /\ \A i \in 1 .. Len(s) : Append(s, e)[i] = s[i]
           /\ Distinct(s) /\ e \notin Entries(s) => Distinct(Append(s, e))
<1> DEFINE S == Entries(s) \cup {e}
<1>1. s \in Seq(S)
  BY DEF IsList, Entries
<1>2. /\ Append(s, e) \in Seq(S) /\ Len(Append(s, e)) = Len(s) + 1
      /\ \A i \in 1 .. Len(s) : Append(s, e)[i] = s[i]
      /\ Append(s, e)[Len(s) + 1] = e
      /\ Len(s) \in Nat /\ DOMAIN s = 1 .. Len(s) /\ DOMAIN Append(s, e) = 1 .. Len(s) + 1
  BY <1>1
<1>3. IsList(Append(s, e))
  BY <1>2, SequenceIsList
<1>4. Entries(Append(s, e)) = S
  BY <1>2 DEF Entries
<1>5. Distinct(s) /\ e \notin Entries(s) => Distinct(Append(s, e))
  <2> SUFFICES ASSUME Distinct(s), e \notin Entries(s),
                      NEW i \in 1 .. Len(s) + 1, NEW j \in 1 .. Len(s) + 1,
                      Append(s, e)[i] = Append(s, e)[j]
               PROVE  i = j
    BY <1>2 DEF Distinct
  <2>1. (i \in 1 .. Len(s) \/ i = Len(s) + 1) /\ (j \in 1 .. Len(s) \/ j = Len(s) + 1)
    BY <1>2
  <2> QED
    BY <1>2, <2>1 DEF Distinct, Entries
<1> QED
  BY <1>2, <1>3, <1>4, <1>5

LEMMA EntriesTail ==
    ASSUME NEW s, IsList(s), s # <<>>
    PROVE  /\ IsList(Tail(s)) /\ Head(s) \in Entries(s)
           /\ Entries(s) = Entries(Tail(s)) \cup {Head(s)}
           /\ Distinct(s) => Distinct(Tail(s)) /\ Head(s) \notin Entries(Tail(s))
<1> DEFINE S == Entries(s)
<1>1. s \in Seq(S)
  BY DEF IsList, Entries
<1>2. /\ Tail(s) \in Seq(S) /\ Len(s) \in Nat /\ Len(s) > 0 /\ Len(Tail(s)) = Len(s) - 1
      /\ Head(s) = s[1] /\ DOMAIN s = 1 .. Len(s) /\ DOMAIN Tail(s) = 1 .. Len(s) - 1
      /\ \A i \in 1 .. Len(s) - 1 : Tail(s)[i] = s[i + 1]
  BY <1>1
<1>3. IsList(Tail(s))
  BY <1>2, SequenceIsList
<1>4. 1 \in DOMAIN s /\ Head(s) \in Entries(s)
  BY <1>2 DEF Entries
<1>5. Entries(Tail(s)) \subseteq Entries(s)
  <2>1. \A i \in 1 .. Len(s) - 1 : i + 1 \in 1 .. Len(s)
    BY <1>2
  <2> QED
    BY <1>2, <2>1 DEF Entries
<1>6. ASSUME NEW i \in DOMAIN s, i # 1
      PROVE  s[i] \in Entries(Tail(s))
  <2>1. i - 1 \in 1 .. Len(s) - 1 /\ (i - 1) + 1 = i
    BY <1>2, <1>6
  <2>2. Tail(s)[i - 1] = s[(i - 1) + 1]
    BY <1>2, <2>1
  <2> QED
    BY <1>2, <2>1, <2>2 DEF Entries
<1>7. Entries(s) = Entries(Tail(s)) \cup {Head(s)}
  BY <1>2, <1>4, <1>5, <1>6 DEF Entries
<1>8. ASSUME Distinct(s)
      PROVE  Distinct(Tail(s)) /\ Head(s) \notin Entries(Tail(s))
  <2>1. ASSUME NEW i \in DOMAIN Tail(s)
        PROVE  i + 1 \in DOMAIN s /\ i + 1 # 1 /\ Tail(s)[i] = s[i + 1]
    BY <1>2
  <2>2. Head(s) \notin Entries(Tail(s))
    BY <1>2, <1>4, <1>8, <2>1 DEF Entries, Distinct
  <2>3. ASSUME NEW i \in DOMAIN Tail(s), NEW j \in DOMAIN Tail(s), Tail(s)[i] = Tail(s)[j]
        PROVE  i = j
    <3>1. i + 1 = j + 1
      BY <1>8, <2>1, <2>3 DEF Distinct
    <3> QED
      BY <1>2, <3>1
  <2> QED
    BY <2>2, <2>3 DEF Distinct
<1> QED
  BY <1>3, <1>4, <1>7, <1>8

\* A list that holds nothing twice is no longer than the finite set its entries come from.
LEMMA DistinctIsShort ==
    ASSUME NEW s, IsList(s), Distinct(s), NEW S, IsFiniteSet(S), Entries(s) \subseteq S
    PROVE  /\ Len(s) = Cardinality(Entries(s)) /\ Len(s) \in Nat
           /\ Cardinality(S) \in Nat /\ Len(s) <= Cardinality(S)
<1>1. s \in [1 .. Len(s) -> Entries(s)] /\ Len(s) \in Nat /\ DOMAIN s = 1 .. Len(s)
  BY DEF IsList, Entries
<1>2. s \in Bijection(1 .. Len(s), Entries(s))
  <2>1. IsInjective(s)
    BY <1>1 DEF Distinct, IsInjective
  <2>2. \A e \in Entries(s) : \E i \in 1 .. Len(s) : s[i] = e
    BY <1>1 DEF Entries
  <2> QED
    BY <1>1, <2>1, <2>2 DEF Bijection, Injection, Surjection
<1>3. IsFiniteSet(1 .. Len(s)) /\ Cardinality(1 .. Len(s)) = Len(s)
  <2>1. 1 \in Int /\ Len(s) \in Int
    BY <1>1
  <2>2. /\ IsFiniteSet(1 .. Len(s))
        /\ Cardinality(1 .. Len(s)) = IF 1 > Len(s) THEN 0 ELSE Len(s) - 1 + 1
    BY <2>1, FS_Interval
  <2> QED
    BY <1>1, <2>2
<1>4. Len(s) = Cardinality(Entries(s))
  BY <1>2, <1>3, FS_Bijection DEF ExistsBijection
<1>5. Cardinality(S) \in Nat /\ Cardinality(Entries(s)) <= Cardinality(S)
  BY FS_CardinalityType, FS_Subset
<1> QED
  BY <1>1, <1>4, <1>5

-----------------------------------------------------------------------------
(* The links of a page *)

\* The new links of a page, once each.
LEMMA NewLinksOnce ==
    ASSUME web \in ScanSites, NEW url \in Urls
    PROVE  /\ IsList(NewLinks(url)) /\ Distinct(NewLinks(url))
           /\ Entries(NewLinks(url)) = {v \in Urls \ discovered : v \in LinkedFrom(url)}
<1> DEFINE l == web.links[url]
           R == Readable(url)
           S == {i \in R : l[i] \in Urls \ discovered /\ \A j \in 1 .. i - 1 : l[j] # l[i]}
           new == NewLinks(url)
<1>1. Len(l) \in Nat /\ DOMAIN l = 1 .. Len(l) /\ R \subseteq 1 .. Len(l)
  BY SitesAssumption DEF IsList, Readable
<1>2. S \in SUBSET (1 .. Len(l)) /\ new = Selected(l, S)
  BY <1>1 DEF NewLinks
<1>linked. LinkedFrom(url) = {l[i] : i \in R}
  BY DEF LinkedFrom
<1>prefix. ASSUME NEW i \in R, NEW j \in 1 .. i
       PROVE  j \in R
  <2>1. i \in 1 .. Len(l) /\ j \in 1 .. Len(l) /\ \A k \in 1 .. j : k \in 1 .. i
    BY <1>1
  <2> QED
    BY <1>1, <2>1 DEF Readable
<1> HIDE DEF l, new, R
<1>3. /\ Cardinality(S) \in Nat
      /\ DOMAIN new = 1 .. Cardinality(S)
      /\ \A n \in 1 .. Cardinality(S) : Nth(S, n) \in S /\ new[n] = l[Nth(S, n)]
      /\ \A i \in S : \E n \in 1 .. Cardinality(S) : Nth(S, n) = i
      /\ \A n, m \in 1 .. Cardinality(S) : n < m => Nth(S, n) < Nth(S, m)
  <2> HIDE DEF S
  <2> QED
    BY <1>1, <1>2, SelectedEnumerates
<1>4. IsList(new)
  <2>1. new = [n \in 1 .. Cardinality(S) |-> new[n]]
    BY <1>2, <1>3 DEF Selected
  <2> QED
    BY <1>3, <2>1, FunctionIsList
<1>5. ASSUME NEW i \in S, NEW j \in S, i < j
      PROVE  l[i] # l[j]
  <2>1. i \in 1 .. j - 1
    BY <1>1, <1>5
  <2> QED
    BY <2>1
<1>6. Distinct(new)
  <2> SUFFICES ASSUME NEW n \in 1 .. Cardinality(S), NEW m \in 1 .. Cardinality(S), new[n] = new[m], n # m
               PROVE  FALSE
    BY <1>3 DEF Distinct
  <2> HIDE DEF S
  <2>1. n < m \/ m < n
    BY <1>3
  <2>2. new[n] = l[Nth(S, n)] /\ new[m] = l[Nth(S, m)] /\ Nth(S, n) \in S /\ Nth(S, m) \in S
    BY <1>3
  <2>3. Nth(S, n) < Nth(S, m) \/ Nth(S, m) < Nth(S, n)
    BY <1>3, <2>1
  <2> QED
    BY <1>5, <2>2, <2>3
<1>7. Entries(new) = {l[i] : i \in S}
  <2> HIDE DEF S
  <2>1. \A n \in DOMAIN new : \E i \in S : new[n] = l[i]
    BY <1>3
  <2>2. \A i \in S : \E n \in DOMAIN new : new[n] = l[i]
    BY <1>3
  <2> QED
    BY <2>1, <2>2 DEF Entries
<1>8. ASSUME NEW v \in Urls \ discovered, v \in LinkedFrom(url)
      PROVE  v \in Entries(new)
  <2> DEFINE T == {i \in R : l[i] = v}
  <2>1. T # {} /\ T \in SUBSET (1 .. Len(l))
    BY <1>1, <1>8, <1>linked
  <2>2. PICK i \in T : \A j \in T : i <= j
    <3> HIDE DEF T
    <3> QED
      BY <1>1, <2>1, LeastExists
  <2>3. \A j \in 1 .. i - 1 : l[j] # l[i]
    <3> SUFFICES ASSUME NEW j \in 1 .. i - 1, l[j] = l[i]
                 PROVE  FALSE
      OBVIOUS
    <3>1. j \in 1 .. i /\ j < i /\ i \in R /\ l[i] = v
      BY <1>1, <2>2
    <3>2. j \in T
      BY <1>prefix, <3>1
    <3> QED
      BY <1>1, <2>2, <3>1, <3>2
  <2>4. i \in S /\ l[i] = v
    BY <1>1, <1>8, <2>2, <2>3
  <2> QED
    BY <1>7, <2>4
<1>9. \A i \in S : l[i] \in Urls \ discovered /\ l[i] \in LinkedFrom(url)
  BY <1>linked
<1> HIDE DEF S
<1>10. Entries(new) = {v \in Urls \ discovered : v \in LinkedFrom(url)}
  BY <1>7, <1>8, <1>9
<1> QED
  BY <1>4, <1>6, <1>10 DEF l, new

\* The target is reachable, and what a reachable page links to.
LEMMA ReachableGrows ==
    /\ Target \in Reachable /\ Reachable \subseteq Urls
    /\ \A u \in Reachable : \A v \in Urls : v \in LinkedFrom(u) => v \in Reachable
<1>1. Target \in Reachable
  BY FullScanAssumption DEF Reachable
<1>2. ASSUME NEW u \in Reachable, NEW v \in Urls, v \in LinkedFrom(u)
      PROVE  v \in Reachable
  <2>1. PICK k \in Readable(u) : web.links[u][k] = v
    BY <1>2 DEF LinkedFrom
  <2> SUFFICES ASSUME NEW S \in SUBSET Urls, Target \in S,
                      \A w \in S : \A i \in Readable(w) :
                         web.links[w][i] \in Urls => web.links[w][i] \in S
               PROVE  v \in S
    BY DEF Reachable
  <2>2. u \in S
    BY <1>2 DEF Reachable
  <2> QED
    BY <2>1, <2>2
<1> QED
  BY <1>1, <1>2 DEF Reachable

\* The target is reachable and nothing more if everything is that a closed set of pages holds.
LEMMA ClosedHoldsReachable ==
    ASSUME NEW S \in SUBSET Urls, Target \in S,
           \A u \in S : \A v \in LinkedFrom(u) : v \in Urls => v \in S
    PROVE  Reachable \subseteq S
BY DEF Reachable, LinkedFrom

-----------------------------------------------------------------------------
(* Which action changes what *)

LEMMA SiteStays == [CliNext]_allVars => web' = web
BY DEF CliNext, allVars, scanVars, cliVars, RunScanner, FullScanNext, QuickScanNext,
   InitialProbe, Crawl, ProbePath, CollectPaths, RunAll, FinishScan, QuickInitialProbe,
   QuickProbePath, QuickCollectPaths, QuickCORS, QuickRedirect, QuickFinish, ScannerRaises,
   SaveResults, GenerateReport, Summarise, Ended, KeepScan

LEMMA LinksStay ==
    ASSUME web' = web
    PROVE  /\ Reachable' = Reachable
           /\ \A u : LinkedFrom(u)' = LinkedFrom(u) /\ HasParams(u)' = HasParams(u)
<1>1. \A u : Readable(u)' = Readable(u)
  BY DEF Readable
<1>2. Reachable' = Reachable
  BY <1>1 DEF Reachable
<1>3. \A u : LinkedFrom(u)' = LinkedFrom(u) /\ HasParams(u)' = HasParams(u)
  BY <1>1 DEF LinkedFrom, HasParams, IsReadable
<1> QED
  BY <1>2, <1>3

LEMMA FaultsRise ==
    ASSUME faults \in Nat, [CliNext]_allVars
    PROVE  faults' \in Nat /\ (faults' = 0 => faults = 0)
<1>1. faults' = faults \/ Fault
  BY DEF CliNext, allVars, scanVars, cliVars, RunScanner, FullScanNext, QuickScanNext,
     InitialProbe, Crawl, ProbePath, CollectPaths, RunAll, FinishScan, QuickInitialProbe,
     QuickProbePath, QuickCollectPaths, QuickCORS, QuickRedirect, QuickFinish, ScannerRaises,
     SaveResults, GenerateReport, Summarise, Ended, KeepScan, Refused
<1> QED
  BY <1>1 DEF Fault

\* Outside of phase 5 and of its start the pages stay.
LEMMA PagesStay ==
    ASSUME [CliNext]_allVars
    PROVE  \/ InitialProbe
           \/ Crawl
           \/ UNCHANGED <<toCrawl, discovered, crawled, probeList>> /\ (at' = "start" => at = "start")
              /\ (at' \in {"crawl", "probes"} => at \in {"crawl", "probes"})
BY DEF CliNext, allVars, scanVars, cliVars, RunScanner, FullScanNext, QuickScanNext,
   ProbePath, CollectPaths, RunAll, FinishScan, QuickInitialProbe,
   QuickProbePath, QuickCollectPaths, QuickCORS, QuickRedirect, QuickFinish, ScannerRaises,
   SaveResults, GenerateReport, Summarise, Ended, KeepScan

-----------------------------------------------------------------------------
(* The pages *)

PageTypes == web \in ScanSites /\ PagesInv

\* The page that is crawled waits no longer, and the new links do.
LEMMA CrawlMoves ==
    ASSUME PageTypes, Crawl
    PROVE  LET url == Head(toCrawl)
           IN /\ url \in Urls \ crawled /\ url \in discovered
              /\ crawled' = crawled \cup {url}
              /\ IsFiniteSet(crawled) /\ Cardinality(crawled) \in Nat
              /\ Cardinality(crawled') = Cardinality(crawled) + 1
              /\ Cardinality(crawled') <= MaxUrls
              /\ IsList(Tail(toCrawl)) /\ Distinct(Tail(toCrawl)) /\ url \notin Entries(Tail(toCrawl))
              /\ Entries(toCrawl) = Entries(Tail(toCrawl)) \cup {url}
<1> DEFINE url == Head(toCrawl)
<1>1. /\ toCrawl # <<>> /\ ~ (Cardinality(crawled) >= MaxUrls)
      /\ crawled' = crawled \cup {url}
  BY DEF Crawl, CrawlOver
<1>2. /\ IsList(Tail(toCrawl)) /\ url \in Entries(toCrawl)
      /\ Entries(toCrawl) = Entries(Tail(toCrawl)) \cup {url}
      /\ Distinct(Tail(toCrawl)) /\ url \notin Entries(Tail(toCrawl))
  BY <1>1, EntriesTail DEF PageTypes, PagesInv
<1> HIDE DEF url
<1>3. url \in Urls \ crawled /\ url \in discovered
  BY <1>2, ReachableGrows DEF PageTypes, PagesInv
<1>4. IsFiniteSet(crawled)
  <2>1. crawled \subseteq Urls
    BY ReachableGrows DEF PageTypes, PagesInv
  <2> QED
    BY <2>1, FullScanAssumption, FS_Subset
<1>5. Cardinality(crawled) \in Nat
  BY <1>4, FS_CardinalityType
<1>6. Cardinality(crawled') = Cardinality(crawled) + 1
  BY <1>1, <1>3, <1>4, FS_AddElement
<1>7. Cardinality(crawled') <= MaxUrls
  BY <1>1, <1>5, <1>6, FullScanAssumption
<1> QED
  BY <1>1, <1>2, <1>3, <1>4, <1>5, <1>6, <1>7 DEF url

LEMMA CrawlKeepsPages == ASSUME PageTypes, Crawl PROVE PagesInv'
<1> DEFINE url == Head(toCrawl)
           new == NewLinks(url)
           rest == Tail(toCrawl)
<1>1. /\ url \in Urls \ crawled /\ url \in discovered
      /\ crawled' = crawled \cup {url} /\ Cardinality(crawled') <= MaxUrls
      /\ IsList(rest) /\ Distinct(rest) /\ url \notin Entries(rest)
      /\ Entries(toCrawl) = Entries(rest) \cup {url}
  BY CrawlMoves
<1>2. /\ IsList(toCrawl) /\ crawled \cap Entries(toCrawl) = {}
      /\ discovered = crawled \cup Entries(toCrawl) /\ discovered \subseteq Reachable
      /\ IsList(probeList) /\ Distinct(probeList)
      /\ Entries(probeList) \subseteq crawled
  BY DEF PageTypes, PagesInv
<1>3. /\ IsList(new) /\ Distinct(new)
      /\ Entries(new) = {v \in Urls \ discovered : v \in LinkedFrom(url)}
  BY <1>1, NewLinksOnce DEF PageTypes
<1>4. web' = web /\ at = "crawl" /\ at' = at
  BY DEF Crawl
<1>5. \/ toCrawl' = rest \o new /\ discovered' = discovered \cup {new[i] : i \in DOMAIN new}
      \/ toCrawl' = rest /\ discovered' = discovered
  BY DEF Crawl
<1>6. Reachable' = Reachable
  BY <1>4, LinksStay
<1>7. probeList' = Append(probeList, url) \/ probeList' = probeList
  BY DEF Crawl
<1> HIDE DEF url, new, rest
<1>8. /\ IsList(probeList') /\ Distinct(probeList') /\ Entries(probeList') \subseteq crawled'
  <2>1. CASE probeList' = Append(probeList, url)
    <3>1. url \notin Entries(probeList)
      BY <1>1, <1>2
    <3>2. /\ IsList(probeList') /\ Distinct(probeList')
          /\ Entries(probeList') = Entries(probeList) \cup {url}
      BY <1>2, <2>1, <3>1, EntriesAppend
    <3> QED
      BY <1>1, <1>2, <3>2
  <2>2. CASE probeList' = probeList
    BY <1>1, <1>2, <2>2 DEF IsList, Distinct, Entries
  <2> QED
    BY <1>7, <2>1, <2>2
<1>9. /\ IsList(toCrawl') /\ Distinct(toCrawl') /\ crawled' \cap Entries(toCrawl') = {}
      /\ discovered' = crawled' \cup Entries(toCrawl') /\ discovered' \subseteq Reachable
  <2>1. CASE toCrawl' = rest \o new /\ discovered' = discovered \cup {new[i] : i \in DOMAIN new}
    <3>1. Entries(new) \cap discovered = {} /\ Entries(rest) \subseteq discovered
      BY <1>1, <1>2, <1>3
    <3>2. /\ IsList(toCrawl') /\ Distinct(toCrawl')
          /\ Entries(toCrawl') = Entries(rest) \cup Entries(new)
      BY <1>1, <1>3, <2>1, <3>1, EntriesConcat
    <3>3. discovered' = discovered \cup Entries(new)
      BY <2>1 DEF Entries
    <3>4. crawled' \cap Entries(toCrawl') = {}
      BY <1>1, <1>2, <3>1, <3>2
    <3>5. discovered' = crawled' \cup Entries(toCrawl')
      BY <1>1, <1>2, <3>2, <3>3
    <3>6. discovered' \subseteq Reachable
      BY <1>1, <1>2, <1>3, <3>3, ReachableGrows
    <3> QED
      BY <3>2, <3>4, <3>5, <3>6
  <2>2. CASE toCrawl' = rest /\ discovered' = discovered
    <3>1. IsList(toCrawl') /\ Distinct(toCrawl') /\ Entries(toCrawl') = Entries(rest)
      BY <1>1, <2>2
    <3>2. crawled' \cap Entries(toCrawl') = {} /\ discovered' = crawled' \cup Entries(toCrawl')
      BY <1>1, <1>2, <2>2, <3>1
    <3> QED
      BY <1>2, <2>2, <3>1, <3>2
  <2> QED
    BY <1>5, <2>1, <2>2
<1> QED
  BY <1>1, <1>4, <1>6, <1>8, <1>9 DEF PagesInv, Entries, Distinct, IsList

LEMMA PagesInvStep == ASSUME PageTypes, [CliNext]_allVars PROVE PagesInv'
<1>1. web' = web
  BY SiteStays
<1>2. Reachable' = Reachable
  BY <1>1, LinksStay
<1>3. CASE InitialProbe
  <2>1. crawled = {} /\ probeList = <<>> /\ crawled' = crawled /\ probeList' = probeList
    BY <1>3 DEF InitialProbe, PageTypes, PagesInv
  <2>2. Cardinality(crawled') <= MaxUrls
    BY <2>1 DEF PageTypes, PagesInv
  <2>3. CASE toCrawl' = <<Target>> /\ discovered' = {Target} /\ at' = "crawl"
    <3>1. toCrawl' \in Seq({Target}) /\ DOMAIN toCrawl' = {1} /\ toCrawl'[1] = Target
      BY <2>3
    <3>2. IsList(toCrawl') /\ Distinct(toCrawl') /\ Entries(toCrawl') = {Target}
      BY <3>1, SequenceIsList DEF Distinct, Entries
    <3>3. IsList(probeList) /\ Distinct(probeList) /\ Entries(probeList) = {}
      BY <2>1 DEF PageTypes, PagesInv, Entries
    <3> QED
      BY <1>1, <1>2, <2>1, <2>2, <2>3, <3>2, <3>3, ReachableGrows DEF PagesInv, Entries, Distinct, IsList
  <2>4. CASE toCrawl' = toCrawl /\ discovered' = discovered /\ at' = "returned"
    BY <1>1, <1>2, <2>1, <2>4 DEF PageTypes, PagesInv, Entries, Distinct, IsList
  <2> QED
    BY <1>3, <2>3, <2>4 DEF InitialProbe
<1>4. CASE Crawl
  BY <1>4, CrawlKeepsPages
<1>5. CASE UNCHANGED <<toCrawl, discovered, crawled, probeList>> /\ (at' = "start" => at = "start")
  BY <1>1, <1>2, <1>5 DEF PageTypes, PagesInv, Entries, Distinct, IsList
<1> QED
  BY <1>3, <1>4, <1>5, PagesStay

-----------------------------------------------------------------------------
(* The steps of the scan, one by one *)

\* A step of the command line is one of the scanners, or leaves them alone.
LEMMA ScanSteps ==
    ASSUME [CliNext]_allVars
    PROVE  \/ InitialProbe \/ Crawl \/ CollectPaths \/ RunAll \/ FinishScan
           \/ \E i \in DOMAIN SensitivePaths : ProbePath(i)
           \/ QuickInitialProbe \/ QuickCollectPaths \/ QuickCORS \/ QuickRedirect \/ QuickFinish
           \/ \E i \in DOMAIN SensitivePaths : QuickProbePath(i)
           \/ KeepScan
BY DEF CliNext, allVars, scanVars, cliVars, RunScanner, FullScanNext, QuickScanNext,
   ScannerRaises, SaveResults, GenerateReport, Summarise, Ended, KeepScan

\* What the phases find depends on the site alone, and that of phase 6 on the answers.
LEMMA FirstFindingsStay == ASSUME web' = web PROVE FirstFindings' = FirstFindings
<1>1. HeaderFindings' = HeaderFindings
  BY DEF HeaderFindings
<1>2. LeakFindings' = LeakFindings
  BY DEF LeakFindings
<1>3. CookieFindings' = CookieFindings
  BY DEF CookieFindings, CookieChecks
<1> QED
  BY <1>1, <1>2, <1>3 DEF FirstFindings

LEMMA PassiveFindingsStay == ASSUME web' = web PROVE PassiveFindings' = PassiveFindings
BY DEF PassiveFindings

LEMMA PathFindingsStay ==
    ASSUME web' = web, pathAnswers' = pathAnswers
    PROVE  PathFindings' = PathFindings /\ Answered' = Answered
BY DEF PathFindings, PathFinding, Answered

LEMMA ProbingStays ==
    ASSUME web' = web, probeList' = probeList, NEW k
    PROVE  Probing(probeList[k])' = Probing(probeList[k])
BY DEF Probing, CSRFFindings

\* What a scan that is complete has come from: the last step of the full scanner, or a step
\* that leaves it alone.
LEMMA CompleteStays ==
    ASSUME OutcomeInv, [CliNext]_allVars, Complete'
    PROVE  FinishScan \/ (Complete /\ at = "returned" /\ KeepScan)
<1>1. Complete => at = "returned"
  BY DEF OutcomeInv, Complete, NoOutcome
<1>2. CASE InitialProbe \/ QuickInitialProbe \/ QuickFinish
  <2>1. outcome'.status \in {"failed", "dataclass"} \/ outcome' = outcome
    BY <1>2 DEF InitialProbe, QuickInitialProbe, QuickFinish
  <2>2. at # "returned"
    BY <1>2 DEF InitialProbe, QuickInitialProbe, QuickFinish
  <2> QED
    BY <1>1, <2>1, <2>2 DEF Complete
<1>3. CASE \/ Crawl \/ CollectPaths \/ RunAll \/ QuickCollectPaths \/ QuickCORS \/ QuickRedirect
           \/ \E i \in DOMAIN SensitivePaths : ProbePath(i) \/ QuickProbePath(i)
  <2>1. at # "returned" /\ outcome' = outcome
    BY <1>3 DEF Crawl, CollectPaths, RunAll, QuickCollectPaths, QuickCORS, QuickRedirect,
       ProbePath, QuickProbePath
  <2> QED
    BY <1>1, <2>1 DEF Complete
<1>4. CASE KeepScan
  BY <1>1, <1>4 DEF KeepScan, Complete
<1> QED
  BY <1>2, <1>3, <1>4, ScanSteps

LEMMA CrawlWholeStep == ASSUME PageTypes, CrawlWhole, OutcomeInv, [CliNext]_allVars PROVE CrawlWhole'
<1>1. \A u : LinkedFrom(u)' = LinkedFrom(u) /\ HasParams(u)' = HasParams(u)
  BY SiteStays, LinksStay
<1>2. faults' \in Nat /\ (faults' = 0 => faults = 0)
  BY FaultsRise DEF CrawlWhole
<1>3. CASE InitialProbe
  <2>1. crawled' = {}
    BY <1>3 DEF InitialProbe, PageTypes, PagesInv
  <2>2. at' \in {"crawl", "probes"} => Target \in discovered'
    BY <1>3 DEF InitialProbe
  <2>3. ~ Complete'
    <3>1. outcome'.status = "failed" \/ outcome' = NoOutcome
      BY <1>3 DEF InitialProbe, OutcomeInv
    <3> QED
      BY <3>1 DEF Complete, NoOutcome
  <2> QED
    BY <1>2, <2>1, <2>2, <2>3 DEF CrawlWhole
<1>4. CASE Crawl
  <2> DEFINE url == Head(toCrawl)
             new == NewLinks(url)
  <2>1. /\ url \in Urls \ crawled /\ crawled' = crawled \cup {url}
    BY <1>4, CrawlMoves
  <2>2. Entries(new) = {v \in Urls \ discovered : v \in LinkedFrom(url)}
    BY <2>1, NewLinksOnce DEF PageTypes
  <2>3. discovered \subseteq discovered' /\ at = "crawl"
    BY <1>4 DEF Crawl
  <2>4. Target \in discovered'
    BY <2>3 DEF CrawlWhole
  <2>5. ASSUME faults' = 0
        PROVE  /\ discovered' = discovered \cup Entries(new)
               /\ probeList' = IF HasParams(url) THEN Append(probeList, url) ELSE probeList
    <3>1. ~ Fault /\ ~ Refused
      BY <1>2, <2>5 DEF Fault, Refused
    <3> QED
      BY <1>4, <3>1 DEF Crawl, Entries
  <2>6. IsList(probeList) /\ url \notin Entries(probeList)
    BY <2>1 DEF PageTypes, PagesInv
  <2> HIDE DEF url, new
  <2>7. ASSUME faults' = 0, NEW u \in crawled'
        PROVE  HasParams(u) <=> u \in Entries(probeList')
    <3>1. u \in crawled => (HasParams(u) <=> u \in Entries(probeList))
      BY <1>2, <2>7 DEF CrawlWhole
    <3>2. CASE HasParams(url)
      <4>1. probeList' = Append(probeList, url)
        BY <2>5, <2>7, <3>2
      <4>2. Entries(probeList') = Entries(probeList) \cup {url}
        BY <2>6, <4>1, EntriesAppend
      <4> QED
        BY <2>1, <3>1, <3>2, <4>2
    <3>3. CASE ~ HasParams(url)
      <4>1. probeList' = probeList
        BY <2>5, <2>7, <3>3
      <4> QED
        BY <2>1, <2>6, <3>1, <3>3, <4>1
    <3> QED
      BY <3>2, <3>3
  <2>8. ASSUME faults' = 0, NEW u \in crawled', NEW v \in LinkedFrom(u), v \in Urls
        PROVE  v \in discovered'
    <3>1. CASE u = url
      BY <2>2, <2>5, <2>8, <3>1
    <3>2. CASE u \in crawled
      BY <1>2, <2>3, <2>8, <3>2 DEF CrawlWhole
    <3> QED
      BY <2>1, <2>8, <3>1, <3>2
  <2>9. Target \in discovered' /\ faults' \in Nat
    BY <1>2, <2>4
  <2>10. \A u : (u \in Entries(probeList))' <=> u \in Entries(probeList')
    BY DEF Entries
  <2> QED
    BY <1>1, <2>7, <2>8, <2>9, <2>10 DEF CrawlWhole
<1>5. CASE UNCHANGED <<toCrawl, discovered, crawled, probeList>> /\ (at' \in {"crawl", "probes"} => at \in {"crawl", "probes"})
  <2>1. Complete' => at = "probes" \/ Complete
    BY CompleteStays DEF FinishScan
  <2> QED
    BY <1>1, <1>2, <1>5, <2>1 DEF CrawlWhole, Entries
<1> QED
  BY <1>3, <1>4, <1>5, PagesStay

LEMMA AnswersStep ==
    ASSUME web \in ScanSites, AnswersInv, CrawlWhole, [CliNext]_allVars
    PROVE  AnswersInv'
<1>1. web' = web
  BY SiteStays
<1>2. faults' = 0 => faults = 0
  BY FaultsRise DEF CrawlWhole
<1>3. CASE pathAnswers' = pathAnswers
  BY <1>1, <1>2, <1>3 DEF AnswersInv
<1>4. ASSUME NEW i \in DOMAIN SensitivePaths, ProbePath(i) \/ QuickProbePath(i)
      PROVE  AnswersInv'
  <2>1. web.paths[SensitivePaths[i][1]] \in {"exposed", "blocked", "absent"}
    BY SitesAssumption
  <2>2. \/ pathAnswers' = [pathAnswers EXCEPT ![i] = web.paths[SensitivePaths[i][1]]]
        \/ pathAnswers' = [pathAnswers EXCEPT ![i] = "error"] /\ Fault
        \/ pathAnswers' = [pathAnswers EXCEPT ![i] = web.refusal] /\ Fault /\ web.refusal # "none"
    BY <1>4 DEF ProbePath, QuickProbePath, Refused
  <2>3. Fault => faults' # 0
    BY DEF Fault, CrawlWhole
  <2>4. web.refusal \in {"none", "blocked", "absent"}
    BY SitesAssumption
  <2> QED
    BY <1>1, <1>2, <2>1, <2>2, <2>3, <2>4 DEF AnswersInv
<1> QED
  BY <1>3, <1>4, ScanSteps DEF InitialProbe, Crawl, CollectPaths, RunAll, FinishScan,
     QuickInitialProbe, QuickCollectPaths, QuickCORS, QuickRedirect, QuickFinish, KeepScan

LEMMA FindingsStep ==
    ASSUME web \in ScanSites, AnswersInv, FindingsInv, OutcomeInv, [CliNext]_allVars
    PROVE  FindingsInv'
<1>1. web' = web
  BY SiteStays
<1>2. FirstFindings' = FirstFindings
  BY <1>1, FirstFindingsStay
<1>3. CASE InitialProbe
  <2>1. ~ Complete' /\ at' \in {"crawl", "returned"}
    BY <1>3, CompleteStays DEF InitialProbe, FinishScan, OutcomeInv, Complete, NoOutcome
  <2>2. at' = "crawl" => findings' = FirstFindings
    BY <1>3 DEF InitialProbe, FirstFindings
  <2> QED
    BY <1>2, <2>1, <2>2 DEF FindingsInv
<1>4. CASE Crawl \/ \E i \in DOMAIN SensitivePaths : ProbePath(i)
  <2>1. at' = "crawl" /\ at = "crawl" /\ findings' = findings
    BY <1>4 DEF Crawl, ProbePath
  <2>2. ~ Complete'
    BY <2>1, CompleteStays DEF FinishScan
  <2> QED
    BY <1>2, <2>1, <2>2 DEF FindingsInv
<1>5. CASE CollectPaths
  <2>1. /\ at' = "probes" /\ findings' = FirstFindings \o PathFindings
        /\ CrawlOver /\ \A i \in DOMAIN SensitivePaths : pathAnswers[i] # "awaited"
        /\ UNCHANGED <<toCrawl, crawled, pathAnswers>>
    BY <1>5 DEF CollectPaths, FindingsInv, AnswersInv
  <2>2. PathFindings' = PathFindings
    BY <1>1, <2>1, PathFindingsStay
  <2> QED
    BY <1>2, <2>1, <2>2 DEF FindingsInv, CrawlOver
<1>6. CASE RunAll \/ FinishScan \/ (Complete /\ KeepScan)
  <2>1. /\ at = "probes" \/ (Complete /\ at = "returned")
        /\ at' # "crawl"
        /\ UNCHANGED <<findings, toCrawl, crawled, pathAnswers>>
    <3>1. Complete => at = "returned"
      BY DEF OutcomeInv, Complete, NoOutcome
    <3> QED
      BY <1>6, <3>1 DEF RunAll, FinishScan, KeepScan
  <2>2. PathFindings' = PathFindings
    BY <1>1, <2>1, PathFindingsStay
  <2> QED
    BY <1>2, <2>1, <2>2 DEF FindingsInv, CrawlOver
<1>7. CASE QuickInitialProbe \/ QuickCollectPaths \/ QuickCORS \/ QuickRedirect \/ QuickFinish
           \/ \E i \in DOMAIN SensitivePaths : QuickProbePath(i)
  <2>1. at # "returned" /\ at # "probes" /\ at' \notin {"crawl", "probes"}
    BY <1>7 DEF QuickInitialProbe, QuickCollectPaths, QuickCORS, QuickRedirect, QuickFinish, QuickProbePath
  <2>2. ~ Complete'
    BY <2>1, CompleteStays DEF FinishScan
  <2> QED
    BY <2>1, <2>2 DEF FindingsInv
<1>8. CASE ~ Complete /\ KeepScan
  <2>1. ~ Complete' /\ UNCHANGED <<at, findings, toCrawl, crawled, pathAnswers>>
    BY <1>8 DEF KeepScan, Complete
  <2>2. PathFindings' = PathFindings
    BY <1>1, <2>1, PathFindingsStay
  <2> QED
    BY <1>2, <2>1, <2>2 DEF FindingsInv, CrawlOver
<1> QED
  BY <1>3, <1>4, <1>5, <1>6, <1>7, <1>8, ScanSteps

\* What the probes add to the active findings, whether requests of theirs are hindered or not.
LEMMA ActiveGrows ==
    ASSUME faults \in Nat, AreFindings(active), ArePathless(active),
           NEW all, AreFindings(all), ArePathless(all),
           NEW hindered, \A fs \in hindered : AreFindings(fs) /\ ArePathless(fs),
           \/ active' = active \o all
           \/ Fault /\ \E some \in hindered : active' = active \o some
    PROVE  /\ AreFindings(active') /\ ArePathless(active')
           /\ faults' = 0 =>
                /\ \A i \in DOMAIN active : \E m \in DOMAIN active' : active'[m] = active[i]
                /\ \A i \in DOMAIN all : \E m \in DOMAIN active' : active'[m] = all[i]
<1>1. CASE active' = active \o all
  <2>1. AreFindings(active') /\ ArePathless(active')
    BY <1>1, FindingsConcat
  <2>2. /\ Len(active) \in Nat /\ DOMAIN active = 1 .. Len(active)
        /\ Len(all) \in Nat /\ DOMAIN all = 1 .. Len(all)
        /\ DOMAIN (active \o all) = 1 .. Len(active) + Len(all)
        /\ \A i \in 1 .. Len(active) : (active \o all)[i] = active[i]
        /\ \A i \in 1 .. Len(all) : (active \o all)[Len(active) + i] = all[i]
    <3>1. IsList(active) /\ IsList(all)
      BY DEF AreFindings
    <3> QED
      BY <3>1, ListConcat
  <2>3. \A i \in DOMAIN active : i \in DOMAIN (active \o all)
    BY <2>2
  <2>4. \A i \in DOMAIN all : Len(active) + i \in DOMAIN (active \o all)
    BY <2>2
  <2> QED
    BY <1>1, <2>1, <2>2, <2>3, <2>4
<1>2. CASE Fault /\ \E some \in hindered : active' = active \o some
  <2>1. PICK some \in hindered : active' = active \o some
    BY <1>2
  <2>2. AreFindings(some) /\ ArePathless(some)
    BY <2>1
  <2>3. AreFindings(active') /\ ArePathless(active')
    BY <2>1, <2>2, FindingsConcat
  <2>4. faults' # 0
    BY <1>2 DEF Fault
  <2> QED
    BY <2>3, <2>4
<1> QED
  BY <1>1, <1>2

LEMMA NoFindings == AreFindings(<<>>) /\ ArePathless(<<>>)
<1>1. DOMAIN <<>> = {} /\ \A S : <<>> \in Seq(S)
  OBVIOUS
<1> QED
  BY <1>1 DEF AreFindings, ArePathless, IsList

LEMMA RedirectCount == DOMAIN RedirectNames = 1 .. 8 /\ Len(RedirectNames) = 8
BY DEF RedirectNames

\* A URL of the list is a page of the host.
LEMMA ProbedArePages ==
    ASSUME PageTypes, NEW k \in DOMAIN probeList
    PROVE  probeList[k] \in Urls
<1>1. probeList[k] \in Entries(probeList)
  BY DEF Entries
<1> QED
  BY <1>1, ReachableGrows DEF PageTypes, PagesInv

LEMMA RunAllKeepsProbes ==
    ASSUME PageTypes, CrawlWhole, ProbesInv, RunAll, [CliNext]_allVars, ~ Complete'
    PROVE  ProbesInv'
<1> DEFINE url == probeList[probed + 1]
           all == Probing(url)
<1>1. /\ at = "probes" /\ at' = at /\ web' = web /\ probeList' = probeList
      /\ probed < Len(probeList) /\ probed' = probed + 1
      /\ \/ active' = active \o all
         \/ Fault /\ \E some \in web.hindered[url] : active' = active \o some
  BY DEF RunAll
<1>2. faults \in Nat /\ faults' \in Nat /\ (faults' = 0 => faults = 0)
  BY FaultsRise DEF CrawlWhole
<1>3. probed \in Nat /\ Len(probeList) \in Nat /\ DOMAIN probeList = 1 .. Len(probeList)
  BY DEF ProbesInv, PageTypes, PagesInv, IsList
<1>4. AreFindings(active) /\ ArePathless(active)
  BY <1>1 DEF ProbesInv
<1>5. /\ AreFindings(all) /\ ArePathless(all)
      /\ \A fs \in web.hindered[url] : AreFindings(fs) /\ ArePathless(fs)
  <2>1. probed + 1 \in DOMAIN probeList
    BY <1>1, <1>3
  <2>2. url \in Urls
    BY <2>1, ProbedArePages
  <2> HIDE DEF url
  <2>3. \A fs \in web.hindered[url] : AreFindings(fs) /\ ArePathless(fs)
    BY <2>2, SitesAssumption DEF PageTypes
  <2> QED
    BY <2>2, <2>3, ProbingType DEF PageTypes
<1> HIDE DEF all
<1>6. /\ AreFindings(active') /\ ArePathless(active')
      /\ faults' = 0 =>
           /\ \A i \in DOMAIN active : \E m \in DOMAIN active' : active'[m] = active[i]
           /\ \A i \in DOMAIN all : \E m \in DOMAIN active' : active'[m] = all[i]
  BY <1>1, <1>2, <1>4, <1>5, ActiveGrows
<1>7. ASSUME faults' = 0, NEW k \in 1 .. probed', NEW i \in DOMAIN Probing(probeList[k])
      PROVE  \E m \in DOMAIN active' : active'[m] = Probing(probeList[k])[i]
  <2>1. CASE k = probed + 1
    BY <1>6, <1>7, <2>1 DEF all
  <2>2. CASE k \in 1 .. probed
    <3>1. PICK n \in DOMAIN active : active[n] = Probing(probeList[k])[i]
      BY <1>1, <1>2, <1>7, <2>2 DEF ProbesInv
    <3> QED
      BY <1>6, <1>7, <3>1
  <2> QED
    BY <1>1, <1>3, <1>7, <2>1, <2>2
<1>8. \A k : Probing(probeList[k])' = Probing(probeList[k])
  BY <1>1, ProbingStays
<1>9. probed' \in Nat /\ probed' <= Len(probeList)
  BY <1>1, <1>3
<1>10. ASSUME faults' = 0, NEW k \in 1 .. probed', NEW i \in DOMAIN Probing(probeList[k])'
       PROVE  \E m \in DOMAIN active' : active'[m] = Probing(probeList[k])'[i]
  BY <1>7, <1>8, <1>10
<1>11. at' = "probes"
  BY <1>1
<1> QED
  BY <1>1, <1>6, <1>9, <1>10, <1>11 DEF ProbesInv

LEMMA FinishKeepsProbes ==
    ASSUME PageTypes, CrawlWhole, ProbesInv, FinishScan, [CliNext]_allVars
    PROVE  ProbesInv'
<1> DEFINE again == web.cors[Target] \o web.rate[Target]
<1>1. /\ at = "probes" /\ at' = "returned" /\ web' = web /\ probeList' = probeList
      /\ probed = Len(probeList) /\ probed' = probed
      /\ \/ active' = active \o again
         \/ Fault /\ \E some \in web.hinderedEnd : active' = active \o some
  BY DEF FinishScan
<1>2. faults \in Nat /\ faults' \in Nat /\ (faults' = 0 => faults = 0)
  BY FaultsRise DEF CrawlWhole
<1>3. AreFindings(active) /\ ArePathless(active)
  BY <1>1 DEF ProbesInv
<1>4. /\ AreFindings(again) /\ ArePathless(again)
      /\ \A fs \in web.hinderedEnd : AreFindings(fs) /\ ArePathless(fs)
  <2>1. /\ AreFindings(web.cors[Target]) /\ ArePathless(web.cors[Target])
        /\ AreFindings(web.rate[Target]) /\ ArePathless(web.rate[Target])
    BY SitesAssumption, FullScanAssumption DEF PageTypes
  <2>2. AreFindings(again) /\ ArePathless(again)
    BY <2>1, FindingsConcat
  <2>3. \A fs \in web.hinderedEnd : AreFindings(fs) /\ ArePathless(fs)
    BY SitesAssumption DEF PageTypes
  <2> QED
    BY <2>2, <2>3
<1> HIDE DEF again
<1>5. /\ AreFindings(active') /\ ArePathless(active')
      /\ faults' = 0 => \A i \in DOMAIN active : \E m \in DOMAIN active' : active'[m] = active[i]
  BY <1>1, <1>2, <1>3, <1>4, ActiveGrows
<1>6. ASSUME faults' = 0, NEW k \in 1 .. probed, NEW i \in DOMAIN Probing(probeList[k])
      PROVE  \E m \in DOMAIN active' : active'[m] = Probing(probeList[k])[i]
  <2>1. PICK n \in DOMAIN active : active[n] = Probing(probeList[k])[i]
    BY <1>1, <1>2, <1>6 DEF ProbesInv
  <2> QED
    BY <1>5, <1>6, <2>1
<1>7. \A k : Probing(probeList[k])' = Probing(probeList[k])
  BY <1>1, ProbingStays
<1>8. ASSUME faults' = 0, NEW k \in 1 .. probed', NEW i \in DOMAIN Probing(probeList[k])'
      PROVE  \E m \in DOMAIN active' : active'[m] = Probing(probeList[k])'[i]
  <2>1. k \in 1 .. probed /\ i \in DOMAIN Probing(probeList[k]) /\ Probing(probeList[k])'[i] = Probing(probeList[k])[i]
    BY <1>1, <1>7, <1>8
  <2> QED
    BY <1>6, <1>8, <2>1
<1>9. probed' \in Nat /\ probed' <= Len(probeList')
  BY <1>1 DEF ProbesInv, PageTypes, PagesInv, IsList
<1> QED
  BY <1>1, <1>5, <1>8, <1>9 DEF ProbesInv

LEMMA ProbesStep ==
    ASSUME PageTypes, CrawlWhole, ProbesInv, OutcomeInv, [CliNext]_allVars
    PROVE  ProbesInv'
<1>1. web' = web
  BY SiteStays
<1>2. Complete => at = "returned"
  BY DEF OutcomeInv, Complete, NoOutcome
<1>3. CASE InitialProbe \/ Crawl \/ \E i \in DOMAIN SensitivePaths : ProbePath(i)
  <2>1. at \in {"start", "crawl"} /\ at' \in {"crawl", "returned"} /\ UNCHANGED <<active, probed>>
    BY <1>3 DEF InitialProbe, Crawl, ProbePath
  <2>2. ~ Complete'
    BY <1>2, <2>1, CompleteStays DEF FinishScan
  <2> QED
    BY <2>1, <2>2 DEF ProbesInv
<1>4. CASE CollectPaths
  <2>1. at' = "probes" /\ active' = <<>> /\ probed' = 0 /\ probeList' = probeList
    BY <1>4 DEF CollectPaths, ProbesInv
  <2>2. ~ Complete'
    BY <1>2, <1>4, CompleteStays DEF FinishScan, CollectPaths
  <2>3. Len(probeList) \in Nat
    BY DEF PageTypes, PagesInv, IsList
  <2>4. 1 .. probed' = {}
    BY <2>1
  <2> QED
    BY <2>1, <2>2, <2>3, <2>4, NoFindings DEF ProbesInv
<1>5. CASE RunAll
  <2>1. ~ Complete'
    BY <1>2, <1>5, CompleteStays DEF RunAll, OutcomeInv, Complete, NoOutcome
  <2> QED
    BY <1>5, <2>1, RunAllKeepsProbes
<1>6. CASE FinishScan
  BY <1>6, FinishKeepsProbes
<1>7. CASE QuickInitialProbe \/ QuickCollectPaths \/ QuickCORS \/ QuickRedirect \/ QuickFinish
           \/ \E i \in DOMAIN SensitivePaths : QuickProbePath(i)
  <2>1. at # "returned" /\ at # "probes" /\ at' \notin {"start", "crawl", "probes"}
    BY <1>7 DEF QuickInitialProbe, QuickCollectPaths, QuickCORS, QuickRedirect, QuickFinish, QuickProbePath
  <2>2. ~ Complete'
    BY <1>2, <2>1, CompleteStays DEF FinishScan
  <2>3. probed' \in Nat /\ (at' \in {"paths", "cors"} => probed' = 0)
        /\ (at' = "redirects" => probed' <= Len(RedirectNames))
    BY <1>7, RedirectCount DEF QuickInitialProbe, QuickCollectPaths, QuickCORS, QuickRedirect, QuickFinish,
       QuickProbePath, ProbesInv
  <2> QED
    BY <2>1, <2>2, <2>3 DEF ProbesInv
<1>8. CASE KeepScan
  <2>1. UNCHANGED <<at, probeList, active, probed, outcome>>
    BY <1>8 DEF KeepScan
  <2>2. faults' = 0 => faults = 0
    BY FaultsRise DEF CrawlWhole
  <2>3. \A k : Probing(probeList[k])' = Probing(probeList[k])
    BY <1>1, <2>1, ProbingStays
  <2>4. Complete' <=> Complete
    BY <2>1 DEF Complete
  <2>5. ASSUME at = "probes" \/ Complete, faults' = 0,
               NEW k \in 1 .. probed', NEW i \in DOMAIN Probing(probeList[k])'
        PROVE  \E m \in DOMAIN active' : active'[m] = Probing(probeList[k])'[i]
    BY <2>1, <2>2, <2>3, <2>5 DEF ProbesInv
  <2> QED
    BY <2>1, <2>4, <2>5 DEF ProbesInv
<1> QED
  BY <1>3, <1>4, <1>5, <1>6, <1>7, <1>8, ScanSteps

LEMMA OutcomeStep == ASSUME OutcomeInv, [CliNext]_allVars PROVE OutcomeInv'
<1>1. CASE FinishScan
  <2>1. at' = "returned" /\ outcome'.status = "complete"
    BY <1>1 DEF FinishScan, Compile, Compiled
  <2>2. outcome' = Compile(findings \o active' \o PassiveFindings) /\ findings' = findings /\ web' = web
    BY <1>1 DEF FinishScan
  <2>3. PassiveFindings' = PassiveFindings
    BY <2>2, PassiveFindingsStay
  <2>4. Compile(findings \o active \o PassiveFindings)' = Compile(findings \o active' \o PassiveFindings)
    BY <2>2, <2>3 DEF Compile, Compiled
  <2> QED
    BY <2>1, <2>2, <2>4 DEF OutcomeInv, Complete
<1>2. CASE KeepScan
  <2>1. UNCHANGED <<web, at, findings, active, outcome>>
    BY <1>2 DEF KeepScan
  <2>2. PassiveFindings' = PassiveFindings
    BY <2>1, PassiveFindingsStay
  <2>3. Compile(findings \o active \o PassiveFindings)' = Compile(findings \o active \o PassiveFindings)
    BY <2>1, <2>2 DEF Compile, Compiled
  <2> QED
    BY <2>1, <2>3 DEF OutcomeInv, Complete
<1>3. CASE InitialProbe \/ QuickInitialProbe \/ QuickFinish
  <2>1. outcome = NoOutcome
    BY <1>3 DEF InitialProbe, QuickInitialProbe, QuickFinish, OutcomeInv
  <2>2. outcome' = NoOutcome \/ (at' = "returned" /\ outcome'.status \in {"failed", "dataclass"})
    BY <1>3, <2>1 DEF InitialProbe, QuickInitialProbe, QuickFinish
  <2>3. at' \in {"crawl", "paths", "returned", "raised"}
    BY <1>3 DEF InitialProbe, QuickInitialProbe, QuickFinish
  <2> QED
    BY <2>2, <2>3 DEF OutcomeInv, Complete, NoOutcome
<1>4. CASE Crawl \/ CollectPaths \/ RunAll \/ QuickCollectPaths \/ QuickCORS \/ QuickRedirect
           \/ \E i \in DOMAIN SensitivePaths : ProbePath(i) \/ QuickProbePath(i)
  <2>1. at # "returned" /\ outcome' = outcome /\ at' \in {at, "probes", "cors", "redirects"}
    BY <1>4 DEF Crawl, CollectPaths, RunAll, QuickCollectPaths, QuickCORS, QuickRedirect,
       ProbePath, QuickProbePath
  <2> QED
    BY <2>1 DEF OutcomeInv, Complete, NoOutcome
<1> QED
  BY <1>1, <1>2, <1>3, <1>4, ScanSteps

LEMMA StepStep == ASSUME StepInv, [CliNext]_allVars PROVE StepInv'
<1>1. CASE RunScanner
  BY <1>1 DEF RunScanner, cliVars, StepInv
<1>2. CASE ScannerRaises
  BY <1>2 DEF ScannerRaises, Stop, StepInv
<1>3. CASE SaveResults
  BY <1>3 DEF SaveResults, Stop, KeepScan, StepInv
<1>4. CASE GenerateReport
  BY <1>4 DEF GenerateReport, KeepScan, StepInv
<1>5. CASE Summarise
  <2>1. CountsOf(outcome)' = CountsOf(outcome)
    BY <1>5 DEF Summarise, KeepScan, CountsOf
  <2>2. CASE /\ files' = files \cup {"summary", "outputs"}
             /\ Stop(IF Severe(CountsOf(outcome)) > 0 THEN 1 ELSE 0)
    <3> HIDE DEF CountsOf
    <3>1. PICK n : n = Severe(CountsOf(outcome))
      OBVIOUS
    <3> QED
      BY <2>1, <2>2, <3>1 DEF Stop, StepInv
  <2>3. CASE Stop(1)
    BY <2>3 DEF Stop, StepInv
  <2> QED
    BY <1>5, <2>2, <2>3 DEF Summarise
<1>6. CASE UNCHANGED allVars
  BY <1>6 DEF allVars, scanVars, cliVars, StepInv, CountsOf
<1> QED
  BY <1>1, <1>2, <1>3, <1>4, <1>5, <1>6 DEF CliNext, Ended

-----------------------------------------------------------------------------
(* The theorems *)

\* What the pages, the answers, the findings, the outcome and the exit code have to do with
\* one another holds throughout.
THEOREM ScanInvariant == CliSpec => []ScanInv
<1>1. CliInit => ScanInv
  <2> SUFFICES ASSUME CliInit
               PROVE  ScanInv
    OBVIOUS
  <2>1. /\ web \in ScanSites /\ at = "start" /\ findings = <<>> /\ toCrawl = <<>>
        /\ discovered = {} /\ crawled = {} /\ probeList = <<>>
        /\ pathAnswers = [i \in DOMAIN SensitivePaths |-> "awaited"]
        /\ active = <<>> /\ probed = 0 /\ outcome = NoOutcome /\ faults = 0
        /\ step = "scanning" /\ files = {} /\ exit = -1
    BY DEF CliInit, FullScanInit
  <2>2. IsList(<<>>) /\ DOMAIN <<>> = {}
    BY NoFindings DEF AreFindings
  <2>3. Entries(<<>>) = {} /\ Distinct(<<>>)
    BY <2>2 DEF Entries, Distinct
  <2>4. Cardinality({}) <= MaxUrls
    BY FullScanAssumption, FS_EmptySet
  <2>5. PagesInv
    BY <2>1, <2>2, <2>3, <2>4 DEF PagesInv
  <2>6. ~ Complete
    BY <2>1 DEF Complete, NoOutcome
  <2>7. CrawlWhole /\ AnswersInv /\ FindingsInv
    BY <2>1, <2>6 DEF CrawlWhole, AnswersInv, FindingsInv
  <2>8. ProbesInv /\ StepInv
    BY <2>1, <2>6 DEF ProbesInv, StepInv
  <2>9. OutcomeInv
    BY <2>1, <2>6 DEF OutcomeInv, NoOutcome
  <2> QED
    BY <2>1, <2>5, <2>7, <2>8, <2>9 DEF ScanInv
<1>2. ScanInv /\ [CliNext]_allVars => ScanInv'
  <2> SUFFICES ASSUME ScanInv, [CliNext]_allVars
               PROVE  ScanInv'
    OBVIOUS
  <2>1. /\ PageTypes /\ PagesInv /\ CrawlWhole /\ AnswersInv /\ FindingsInv /\ ProbesInv /\ OutcomeInv /\ StepInv
        /\ web \in ScanSites
    BY DEF ScanInv, PageTypes
  <2>2. web' = web
    BY SiteStays
  <2>3. PagesInv' /\ CrawlWhole'
    BY <2>1, PagesInvStep, CrawlWholeStep
  <2>4. AnswersInv' /\ FindingsInv'
    BY <2>1, AnswersStep, FindingsStep
  <2>5. ProbesInv' /\ OutcomeInv' /\ StepInv'
    BY <2>1, ProbesStep, OutcomeStep, StepStep
  <2> QED
    BY <2>1, <2>2, <2>3, <2>4, <2>5 DEF ScanInv
<1> QED
  BY <1>1, <1>2, PTL DEF CliSpec

\* The raw findings of a complete scan are findings.
LEMMA RawsAreFindings ==
    ASSUME ScanInv, Complete
    PROVE  /\ outcome = Compile(findings \o active \o PassiveFindings)
           /\ outcome.raws = findings \o active \o PassiveFindings
           /\ outcome.findings = Correlate(outcome.raws)
           /\ outcome.counts = SeverityCounts(Correlate(outcome.raws))
           /\ outcome.risks = ScoreAll(outcome.findings, web.technologies)
           /\ AreFindings(outcome.raws)
           /\ AreFindings(findings) /\ AreFindings(FirstFindings) /\ ArePathless(FirstFindings)
<1>1. outcome = Compile(findings \o active \o PassiveFindings)
  BY DEF ScanInv, OutcomeInv
<1>2. /\ outcome.raws = findings \o active \o PassiveFindings
      /\ outcome.findings = Correlate(outcome.raws)
      /\ outcome.counts = SeverityCounts(Correlate(outcome.raws))
      /\ outcome.risks = ScoreAll(outcome.findings, web.technologies)
  BY <1>1 DEF Compile, Compiled
<1>3. AreFindings(FirstFindings) /\ ArePathless(FirstFindings)
  <2>1. AreFindings(HeaderFindings \o LeakFindings) /\ ArePathless(HeaderFindings \o LeakFindings)
    BY HeaderFindingsType, LeakFindingsType, FindingsConcat
  <2>2. AreFindings(CookieFindings) /\ ArePathless(CookieFindings)
    BY CookieFindingsType DEF ScanInv
  <2> QED
    BY <2>1, <2>2, FindingsConcat DEF FirstFindings
<1>4. AreFindings(findings)
  <2>1. findings = FirstFindings \o PathFindings
    BY DEF ScanInv, FindingsInv
  <2>2. AreFindings(PathFindings)
    BY PathFindingsEnumerate
  <2> QED
    BY <1>3, <2>1, <2>2, FindingsConcat
<1>5. AreFindings(findings \o active \o PassiveFindings)
  <2>1. AreFindings(active)
    BY DEF ScanInv, ProbesInv
  <2>2. AreFindings(findings \o active)
    BY <1>4, <2>1, FindingsConcat
  <2> QED
    BY <2>2, PassiveFindingsType, FindingsConcat
<1> QED
  BY <1>1, <1>2, <1>3, <1>4, <1>5

\* The exit code tells of what is severe: a complete scan that found something severe, or
\* findings that make up a chain, never ends with 0 (scan_cli.py:161-168), for every site and
\* any number of failures.
THEOREM ExitTells == CliSpec => []ExitTellsOfAlarm
<1>1. ScanInv => ExitTellsOfAlarm
  <2> SUFFICES ASSUME ScanInv, step = "ended"
               PROVE  /\ exit = 0 => "summary" \in files /\ (Complete => ~ Alarming(outcome.raws))
                      /\ Complete /\ Alarming(outcome.raws) => exit = 1
    BY DEF ExitTellsOfAlarm
  <2>1. exit \in {0, 1} /\ (exit = 0 => "summary" \in files /\ ~ (Severe(CountsOf(outcome)) > 0))
    BY DEF ScanInv, StepInv
  <2>2. ASSUME Complete, Alarming(outcome.raws)
        PROVE  Severe(CountsOf(outcome)) > 0
    <3>1. CountsOf(outcome) = SeverityCounts(Correlate(outcome.raws))
      BY <2>2, RawsAreFindings DEF CountsOf, Complete
    <3>2. AreFindings(outcome.raws)
      BY <2>2, RawsAreFindings
    <3> QED
      BY <2>2, <3>1, <3>2, AlarmIsCounted
  <2> QED
    BY <2>1, <2>2
<1> QED
  BY <1>1, ScanInvariant, PTL

\* The same findings by their keys.
LEMMA SameKey == ASSUME NEW f, NEW g PROVE Same(f, g) <=> Key(f) = Key(g)
BY DEF Same, Key

\* The report of a list of findings covers it.
LEMMA CorrelateCovers ==
    ASSUME NEW raws, AreFindings(raws), NEW technologies
    PROVE  LET fs == Correlate(raws)
               risks == ScoreAll(fs, technologies)
           IN /\ \A i \in DOMAIN raws : Cardinality({n \in DOMAIN fs : Same(fs[n], raws[i])}) = 1
              /\ \A n \in DOMAIN fs :
                   LET id == fs[n].id
                   IN /\ Same(raws[id], fs[n]) /\ \A i \in 1 .. id - 1 : ~ Same(raws[i], raws[id])
                      /\ fs[n].severity >= raws[id].severity
                      /\ fs[n].confidence \in raws[id].confidence .. MostSure
                      /\ risks[n].finding = id
                      /\ risks[n].score >= FinalScore(Unverified(raws[id]), technologies)
<1> DEFINE fs == Correlate(raws)
           risks == ScoreAll(fs, technologies)
<1>1. /\ IsList(raws) /\ Firsts(raws) \in SUBSET DOMAIN raws
      /\ Cardinality(Firsts(raws)) \in Nat /\ DOMAIN fs = 1 .. Cardinality(Firsts(raws))
      /\ \A n \in DOMAIN fs : fs[n].id \in Firsts(raws) /\ Keeps(raws, fs[n], raws[fs[n].id])
      /\ \A i \in Firsts(raws) : \E n \in DOMAIN fs : fs[n].id = i
      /\ \A n, m \in DOMAIN fs : n < m => fs[n].id < fs[m].id
  BY CorrelateKeeps
<1>2. ASSUME NEW n \in DOMAIN fs
      PROVE  /\ risks[n].finding = fs[n].id
             /\ risks[n].score = FinalScore(fs[n], technologies)
  BY <1>2 DEF ScoreAll
<1> HIDE DEF fs, risks
<1>3. ASSUME NEW n \in DOMAIN fs
      PROVE  Same(fs[n], raws[fs[n].id]) /\ Same(raws[fs[n].id], fs[n])
  BY <1>1 DEF Keeps, Same
<1>4. ASSUME NEW i \in DOMAIN raws
      PROVE  Cardinality({n \in DOMAIN fs : Same(fs[n], raws[i])}) = 1
  <2>1. PICK j \in Firsts(raws) : Key(raws[j]) = Key(raws[i])
    BY <1>1, FirstOfKey
  <2>2. PICK n \in DOMAIN fs : fs[n].id = j
    BY <1>1
  <2>3. Same(fs[n], raws[i])
    BY <1>3, <2>1, <2>2, SameKey DEF Same
  <2>4. ASSUME NEW m \in DOMAIN fs, Same(fs[m], raws[i])
        PROVE  m = n
    <3>1. fs[m].id \in Firsts(raws) /\ Key(raws[fs[m].id]) = Key(raws[i])
      BY <1>1, <1>3, <2>4, SameKey
    <3>2. fs[m].id = j
      BY <1>1, <2>1, <3>1, FirstsDiffer
    <3>3. ~ (m < n) /\ ~ (n < m)
      <4>1. j \in Nat
        BY <1>1 DEF IsList
      <4> QED
        BY <1>1, <2>2, <3>2, <4>1
    <3> QED
      BY <1>1, <3>3
  <2>5. {m \in DOMAIN fs : Same(fs[m], raws[i])} = {n}
    BY <2>3, <2>4
  <2> QED
    BY <2>5, FS_Singleton
<1>5. ASSUME NEW n \in DOMAIN fs
      PROVE  LET id == fs[n].id
             IN /\ \A i \in 1 .. id - 1 : ~ Same(raws[i], raws[id])
                /\ fs[n].severity >= raws[id].severity
                /\ fs[n].confidence \in raws[id].confidence .. MostSure
  <2>1. fs[n].id \in Firsts(raws) /\ Keeps(raws, fs[n], raws[fs[n].id])
    BY <1>1
  <2>2. \A i \in 1 .. fs[n].id - 1 : ~ Same(raws[i], raws[fs[n].id])
    BY <2>1, SameKey DEF Firsts, IsDuplicate
  <2> QED
    BY <2>1, <2>2 DEF Keeps
<1>6. ASSUME NEW n \in DOMAIN fs
      PROVE  risks[n].score >= FinalScore(Unverified(raws[fs[n].id]), technologies)
  <2> DEFINE f == raws[fs[n].id]
             u == Unverified(f)
  <2>1. IsFinding(f) /\ Keeps(raws, fs[n], f)
    BY <1>1 DEF AreFindings
  <2> HIDE DEF f
  <2>2. /\ u.category = f.category /\ u.url = f.url /\ u.cvss = f.cvss /\ u.confidence = f.confidence
        /\ ~ IsVerified(u)
    BY DEF Unverified, IsVerified
  <2>3. f.cvss \in Nat /\ f.confidence \in Int
    BY <2>1 DEF IsFinding, MostSure
  <2> HIDE DEF u
  <2>4. /\ fs[n].category = u.category /\ fs[n].url = u.url /\ fs[n].cvss = u.cvss
        /\ fs[n].confidence \in Int /\ u.confidence <= fs[n].confidence
    BY <2>1, <2>2, <2>3 DEF Keeps, MostSure
  <2>5. FinalScore(fs[n], technologies) >= FinalScore(u, technologies)
    BY <2>2, <2>3, <2>4, FinalScoreRises
  <2> QED
    BY <1>2, <2>5 DEF f, u
<1> QED
  BY <1>2, <1>3, <1>4, <1>5, <1>6 DEF fs, risks

\* Deduplication, correlation and scoring lose no finding, merge none with another and lower
\* none (correlation.py, scoring.py), for every list of findings a scan can make.
THEOREM ReportCovers == CliSpec => []ReportCoversFindings
<1>1. ScanInv => ReportCoversFindings
  <2> SUFFICES ASSUME ScanInv, Complete
               PROVE  ReportCoversFindings
    BY DEF ReportCoversFindings
  <2>1. /\ outcome.findings = Correlate(outcome.raws)
        /\ outcome.risks = ScoreAll(outcome.findings, web.technologies)
        /\ AreFindings(outcome.raws)
    BY RawsAreFindings
  <2> QED
    BY <2>1, CorrelateCovers DEF ReportCoversFindings
<1> QED
  BY <1>1, ScanInvariant, PTL

-----------------------------------------------------------------------------
(* An undisturbed scan *)

\* Where the entries of a concatenation come from.
LEMMA ConcatPlaces ==
    ASSUME NEW s, IsList(s), NEW t, IsList(t)
    PROVE  /\ IsList(s \o t) /\ Len(s) \in Nat
           /\ \A i \in DOMAIN s : i \in DOMAIN (s \o t) /\ (s \o t)[i] = s[i]
           /\ \A i \in DOMAIN t : Len(s) + i \in DOMAIN (s \o t) /\ (s \o t)[Len(s) + i] = t[i]
           /\ \A i \in DOMAIN (s \o t) :
                 \/ i \in DOMAIN s
                 \/ i - Len(s) \in DOMAIN t /\ (s \o t)[i] = t[i - Len(s)]
<1>1. /\ IsList(s \o t) /\ Len(s \o t) = Len(s) + Len(t)
      /\ Len(s) \in Nat /\ DOMAIN s = 1 .. Len(s) /\ Len(t) \in Nat /\ DOMAIN t = 1 .. Len(t)
      /\ DOMAIN (s \o t) = 1 .. Len(s) + Len(t)
      /\ \A i \in 1 .. Len(s) : (s \o t)[i] = s[i]
      /\ \A i \in 1 .. Len(t) : (s \o t)[Len(s) + i] = t[i]
      /\ \A i \in DOMAIN (s \o t) : i \in DOMAIN s \/ i - Len(s) \in DOMAIN t
  BY ListConcat, Zenon
<1>2. ASSUME NEW i \in DOMAIN (s \o t), i - Len(s) \in DOMAIN t
      PROVE  (s \o t)[i] = t[i - Len(s)]
  <2>1. Len(s) + (i - Len(s)) = i
    BY <1>1
  <2> QED
    BY <1>1, <1>2, <2>1
<1>3. \A i \in DOMAIN s : i \in DOMAIN (s \o t)
  BY <1>1
<1>4. \A i \in DOMAIN t : Len(s) + i \in DOMAIN (s \o t)
  BY <1>1
<1>5. IsList(s \o t) /\ Len(s) \in Nat
  BY <1>1
<1>6. \A i \in DOMAIN (s \o t) : i \in DOMAIN s \/ (i - Len(s) \in DOMAIN t /\ (s \o t)[i] = t[i - Len(s)])
  BY <1>1, <1>2
<1> QED
  BY <1>1, <1>3, <1>4, <1>5, <1>6

\* Where the raw findings of a scan come from: those about sensitive paths are those of phase
\* 6, and those of the probes are among them.
LEMMA RawsByPhase ==
    ASSUME ScanInv, Complete
    PROVE  /\ Len(FirstFindings) \in Nat
           /\ \A k \in DOMAIN PathFindings :
                 /\ Len(FirstFindings) + k \in DOMAIN outcome.raws
                 /\ outcome.raws[Len(FirstFindings) + k] = PathFindings[k]
           /\ \A r \in DOMAIN outcome.raws :
                 outcome.raws[r].category = "sensitive_path" =>
                    /\ r - Len(FirstFindings) \in DOMAIN PathFindings
                    /\ outcome.raws[r] = PathFindings[r - Len(FirstFindings)]
           /\ \A m \in DOMAIN active : \E r \in DOMAIN outcome.raws : outcome.raws[r] = active[m]
<1> DEFINE first == FirstFindings
           path  == PathFindings
           last  == PassiveFindings
           two   == first \o path
           three == two \o active
           raws  == three \o last
<1>1. IsList(first) /\ ArePathless(first)
  BY RawsAreFindings DEF AreFindings
<1>2. IsList(path)
  BY PathFindingsEnumerate DEF AreFindings
<1>3. IsList(active) /\ ArePathless(active)
  BY DEF ScanInv, ProbesInv, AreFindings
<1>4. IsList(last) /\ ArePathless(last)
  BY PassiveFindingsType DEF AreFindings
<1>5. outcome.raws = raws
  BY RawsAreFindings DEF ScanInv, FindingsInv
<1> HIDE DEF first, path, last, raws, three, two
<1>6. /\ IsList(two) /\ Len(first) \in Nat
      /\ \A i \in DOMAIN first : i \in DOMAIN two /\ two[i] = first[i]
      /\ \A i \in DOMAIN path : Len(first) + i \in DOMAIN two /\ two[Len(first) + i] = path[i]
      /\ \A i \in DOMAIN two : i \in DOMAIN first \/ (i - Len(first) \in DOMAIN path /\ two[i] = path[i - Len(first)])
  BY <1>1, <1>2, ConcatPlaces DEF two
<1>7. /\ IsList(three)
      /\ \A i \in DOMAIN two : i \in DOMAIN three /\ three[i] = two[i]
      /\ \A i \in DOMAIN active : Len(two) + i \in DOMAIN three /\ three[Len(two) + i] = active[i]
      /\ \A i \in DOMAIN three : i \in DOMAIN two \/ (i - Len(two) \in DOMAIN active /\ three[i] = active[i - Len(two)])
  <2>1. IsList(two) /\ IsList(active)
    BY <1>3, <1>6
  <2>2. /\ IsList(two \o active) /\ Len(two) \in Nat
        /\ \A i \in DOMAIN two : i \in DOMAIN (two \o active) /\ (two \o active)[i] = two[i]
        /\ \A i \in DOMAIN active : Len(two) + i \in DOMAIN (two \o active) /\ (two \o active)[Len(two) + i] = active[i]
        /\ \A i \in DOMAIN (two \o active) :
              \/ i \in DOMAIN two
              \/ i - Len(two) \in DOMAIN active /\ (two \o active)[i] = active[i - Len(two)]
    BY <2>1, ConcatPlaces
  <2> QED
    BY <2>2 DEF three
<1>8. /\ \A i \in DOMAIN three : i \in DOMAIN raws /\ raws[i] = three[i]
      /\ \A i \in DOMAIN raws : i \in DOMAIN three \/ (i - Len(three) \in DOMAIN last /\ raws[i] = last[i - Len(three)])
  <2>1. IsList(three) /\ IsList(last)
    BY <1>4, <1>7
  <2>2. /\ IsList(three \o last) /\ Len(three) \in Nat
        /\ \A i \in DOMAIN three : i \in DOMAIN (three \o last) /\ (three \o last)[i] = three[i]
        /\ \A i \in DOMAIN last : Len(three) + i \in DOMAIN (three \o last) /\ (three \o last)[Len(three) + i] = last[i]
        /\ \A i \in DOMAIN (three \o last) :
              \/ i \in DOMAIN three
              \/ i - Len(three) \in DOMAIN last /\ (three \o last)[i] = last[i - Len(three)]
    BY <2>1, ConcatPlaces
  <2> QED
    BY <2>2 DEF raws
<1>9. ASSUME NEW k \in DOMAIN path
      PROVE  Len(first) + k \in DOMAIN raws /\ raws[Len(first) + k] = path[k]
  BY <1>6, <1>7, <1>8
<1>10. ASSUME NEW m \in DOMAIN active
       PROVE  \E r \in DOMAIN raws : raws[r] = active[m]
  BY <1>7, <1>8
<1>11. ASSUME NEW r \in DOMAIN raws, raws[r].category = "sensitive_path"
       PROVE  r - Len(first) \in DOMAIN path /\ raws[r] = path[r - Len(first)]
  <2>1. r \in DOMAIN three /\ raws[r] = three[r]
    BY <1>4, <1>8, <1>11 DEF ArePathless
  <2>2. r \in DOMAIN two /\ raws[r] = two[r]
    BY <1>3, <1>7, <1>11, <2>1 DEF ArePathless
  <2>3. r \notin DOMAIN first
    BY <1>1, <1>6, <1>11, <2>2 DEF ArePathless
  <2> QED
    BY <1>6, <2>2, <2>3
<1> QED
  BY <1>5, <1>6, <1>9, <1>10, <1>11 DEF first, path

\* An undisturbed scan that had room for every reachable page crawled all of them, and has
\* all of their URLs with parameters, once each.
LEMMA AllPagesProbed ==
    ASSUME ScanInv, Complete, faults = 0, Cardinality(Reachable) <= MaxUrls
    PROVE  /\ crawled = Reachable
           /\ Entries(probeList) = {u \in Reachable : HasParams(u)}
           /\ Len(probeList) = Cardinality({u \in Reachable : HasParams(u)})
<1>1. /\ crawled \subseteq Reachable /\ discovered = crawled \cup Entries(toCrawl)
      /\ IsList(probeList) /\ Distinct(probeList)
      /\ Entries(probeList) \subseteq crawled
  BY DEF ScanInv, PagesInv
<1>2. /\ Target \in discovered
      /\ \A u \in crawled :
            /\ HasParams(u) <=> u \in Entries(probeList)
            /\ \A v \in LinkedFrom(u) : v \in Urls => v \in discovered
  BY DEF ScanInv, CrawlWhole
<1>3. Reachable \subseteq Urls /\ IsFiniteSet(Reachable)
  BY ReachableGrows, FullScanAssumption, FS_Subset
<1>4. crawled = Reachable
  <2>1. CASE toCrawl = <<>>
    <3>1. DOMAIN <<>> = {}
      OBVIOUS
    <3>2. discovered = crawled
      BY <1>1, <2>1, <3>1 DEF Entries
    <3>3. Reachable \subseteq crawled
      BY <1>1, <1>2, <1>3, <3>2, ClosedHoldsReachable
    <3> QED
      BY <1>1, <3>3
  <2>2. CASE Cardinality(crawled) >= MaxUrls
    <3>1. /\ Cardinality(crawled) <= Cardinality(Reachable)
          /\ Cardinality(crawled) = Cardinality(Reachable) => crawled = Reachable
      BY <1>1, <1>3, FS_Subset
    <3>2. IsFiniteSet(crawled)
      BY <1>1, <1>3, FS_Subset
    <3>3. Cardinality(crawled) \in Nat /\ Cardinality(Reachable) \in Nat
      BY <1>3, <3>2, FS_CardinalityType
    <3> QED
      BY <2>2, <3>1, <3>3, FullScanAssumption
  <2> QED
    BY <2>1, <2>2 DEF ScanInv, FindingsInv, CrawlOver
<1>5. Entries(probeList) = {u \in Reachable : HasParams(u)}
  BY <1>1, <1>2, <1>4
<1> QED
  BY <1>1, <1>3, <1>4, <1>5, DistinctIsShort

LEMMA ReportedIsThere ==
    ASSUME ScanInv, Complete, NEW r \in DOMAIN outcome.raws
    PROVE  \E n \in DOMAIN outcome.findings : Same(outcome.findings[n], outcome.raws[r])
<1>1. AreFindings(outcome.raws) /\ outcome.findings = Correlate(outcome.raws)
  BY RawsAreFindings
<1>2. Cardinality({n \in DOMAIN outcome.findings : Same(outcome.findings[n], outcome.raws[r])}) = 1
  BY <1>1, CorrelateCovers
<1>3. {n \in DOMAIN outcome.findings : Same(outcome.findings[n], outcome.raws[r])} # {}
  BY <1>2, FS_EmptySet
<1> QED
  BY <1>3

\* What an undisturbed scan of a site that fits into MAX_URLS reports does not depend on the
\* order of answers, for every site and every table of paths (full_scanner.py).
THEOREM UndisturbedIsWhole == CliSpec => []UndisturbedScanIsWhole
<1>1. ScanInv => UndisturbedScanIsWhole
  <2> SUFFICES ASSUME ScanInv, Complete, faults = 0, Cardinality(Reachable) <= MaxUrls
               PROVE  UndisturbedScanIsWhole
    BY DEF UndisturbedScanIsWhole
  <2> DEFINE fs       == outcome.findings
             raws     == outcome.raws
             L        == Len(FirstFindings)
             paths    == {n \in DOMAIN fs : fs[n].category = "sensitive_path"}
             expected == {i \in DOMAIN SensitivePaths : web.paths[SensitivePaths[i][1]] \in {"exposed", "blocked"}}
  <2>1. /\ crawled = Reachable
        /\ Entries(probeList) = {u \in Reachable : HasParams(u)}
        /\ Len(probeList) = Cardinality({u \in Reachable : HasParams(u)})
    BY AllPagesProbed
  <2>2. /\ L \in Nat
        /\ \A k \in DOMAIN PathFindings : L + k \in DOMAIN raws /\ raws[L + k] = PathFindings[k]
        /\ \A r \in DOMAIN raws :
              raws[r].category = "sensitive_path" =>
                 r - L \in DOMAIN PathFindings /\ raws[r] = PathFindings[r - L]
        /\ \A m \in DOMAIN active : \E r \in DOMAIN raws : raws[r] = active[m]
    BY RawsByPhase
  <2>3. \A r \in DOMAIN raws : \E n \in DOMAIN fs : Same(fs[n], raws[r])
    BY ReportedIsThere
  <2>4. Answered = expected
    <3>1. \A i \in DOMAIN SensitivePaths : pathAnswers[i] = web.paths[SensitivePaths[i][1]]
      BY DEF ScanInv, AnswersInv, FindingsInv
    <3> QED
      BY <3>1 DEF Answered
  <2>5. /\ Answered \subseteq DOMAIN SensitivePaths /\ Answered \subseteq Int
        /\ DOMAIN PathFindings \subseteq Int
        /\ \A k \in DOMAIN PathFindings :
             /\ Nth(Answered, k) \in Answered
             /\ PathFindings[k].category = "sensitive_path"
             /\ PathFindings[k].url = SensitivePaths[Nth(Answered, k)][1]
        /\ \A i \in Answered : \E k \in DOMAIN PathFindings : Nth(Answered, k) = i
        /\ \A k, l \in DOMAIN PathFindings : k < l => Nth(Answered, k) < Nth(Answered, l)
    <3>1. /\ Answered \in SUBSET (1 .. Len(SensitivePaths)) /\ Cardinality(Answered) \in Nat
          /\ DOMAIN PathFindings = 1 .. Cardinality(Answered)
          /\ \A n \in DOMAIN PathFindings :
               /\ Nth(Answered, n) \in Answered
               /\ PathFindings[n].category = "sensitive_path"
               /\ PathFindings[n].url = SensitivePaths[Nth(Answered, n)][1]
          /\ \A i \in Answered : \E n \in DOMAIN PathFindings : Nth(Answered, n) = i
          /\ \A n, m \in DOMAIN PathFindings : n < m => Nth(Answered, n) < Nth(Answered, m)
      BY PathFindingsEnumerate
    <3>2. Answered \subseteq DOMAIN SensitivePaths
      BY DEF Answered
    <3>3. Answered \subseteq Int /\ DOMAIN PathFindings \subseteq Int
      BY <3>1
    <3> QED
      BY <3>1, <3>2, <3>3
  <2>6. /\ DOMAIN fs \subseteq Int
        /\ \A n \in DOMAIN fs : fs[n].id \in DOMAIN raws /\ fs[n].id \in Int
                                /\ fs[n].category = raws[fs[n].id].category /\ fs[n].url = raws[fs[n].id].url
        /\ \A n, m \in DOMAIN fs : n < m => fs[n].id < fs[m].id
    <3>1. AreFindings(raws) /\ fs = Correlate(raws)
      BY RawsAreFindings
    <3> HIDE DEF fs, raws
    <3>2. /\ IsList(raws) /\ Firsts(raws) \in SUBSET DOMAIN raws
          /\ Cardinality(Firsts(raws)) \in Nat /\ DOMAIN fs = 1 .. Cardinality(Firsts(raws))
          /\ \A n \in DOMAIN fs : fs[n].id \in Firsts(raws) /\ Keeps(raws, fs[n], raws[fs[n].id])
          /\ \A i \in Firsts(raws) : \E n \in DOMAIN fs : fs[n].id = i
          /\ \A n, m \in DOMAIN fs : n < m => fs[n].id < fs[m].id
      BY <3>1, CorrelateKeeps
    <3>3. DOMAIN raws \subseteq Int
      BY <3>2 DEF IsList
    <3>4. DOMAIN fs \subseteq Int
      BY <3>2
    <3> QED
      BY <3>2, <3>3, <3>4 DEF Keeps
  <2> HIDE DEF fs, raws, L, expected
  <2>7. ASSUME NEW u \in Reachable, HasParams(u), NEW i \in DOMAIN Probing(u)
        PROVE  \E n \in DOMAIN fs : Same(fs[n], Probing(u)[i])
    <3>1. PICK k \in DOMAIN probeList : probeList[k] = u
      BY <2>1, <2>7 DEF Entries
    <3>2. k \in 1 .. probed
      BY DEF ScanInv, PagesInv, ProbesInv, IsList
    <3>3. PICK m \in DOMAIN active : active[m] = Probing(u)[i]
      BY <2>7, <3>1, <3>2 DEF ScanInv, ProbesInv
    <3>4. PICK r \in DOMAIN raws : raws[r] = Probing(u)[i]
      BY <2>2, <3>3
    <3> QED
      BY <2>3, <3>4
  \* A reported path has its place in the table.
  <2>8. ASSUME NEW n \in paths
        PROVE  /\ n \in Int /\ fs[n].id - L \in DOMAIN PathFindings
               /\ Nth(Answered, fs[n].id - L) \in expected
               /\ fs[n].url = SensitivePaths[Nth(Answered, fs[n].id - L)][1]
    <3>1. n \in DOMAIN fs /\ raws[fs[n].id].category = "sensitive_path"
      BY <2>6
    <3>2. fs[n].id - L \in DOMAIN PathFindings /\ fs[n].url = PathFindings[fs[n].id - L].url
      BY <2>2, <2>6, <3>1
    <3> QED
      BY <2>4, <2>5, <2>6, <3>1, <3>2
  <2>9. ASSUME NEW i \in expected
        PROVE  \E n \in paths : fs[n].url = SensitivePaths[i][1]
    <3>1. PICK k \in DOMAIN PathFindings : Nth(Answered, k) = i
      BY <2>4, <2>5
    <3>2. L + k \in DOMAIN raws /\ raws[L + k] = PathFindings[k]
      BY <2>2
    <3>3. PICK n \in DOMAIN fs : Same(fs[n], raws[L + k])
      BY <2>3, <3>2
    <3> QED
      BY <2>5, <3>1, <3>2, <3>3 DEF Same
  <2>10. {fs[n].url : n \in paths} = {SensitivePaths[i][1] : i \in expected}
    <3> HIDE DEF paths
    <3> QED
      BY <2>8, <2>9
  <2>11. ASSUME NEW n \in paths, NEW m \in paths, NEW i \in expected, NEW j \in expected,
                fs[n].url = SensitivePaths[i][1], fs[m].url = SensitivePaths[j][1], n < m
         PROVE  i < j
    <3>1. i = Nth(Answered, fs[n].id - L) /\ j = Nth(Answered, fs[m].id - L)
      <4>1. \A a, b \in expected : SensitivePaths[a][1] = SensitivePaths[b][1] => a = b
        BY FullScanAssumption DEF expected
      <4> QED
        BY <2>8, <2>11, <4>1
    <3>2. fs[n].id < fs[m].id /\ fs[n].id \in Int /\ fs[m].id \in Int
      BY <2>6, <2>11
    <3>3. fs[n].id - L < fs[m].id - L
      BY <2>2, <3>2
    <3> QED
      BY <2>5, <2>8, <3>1, <3>3
  <2> QED
    BY <2>1, <2>7, <2>10, <2>11 DEF UndisturbedScanIsWhole, fs, expected
<1> QED
  BY <1>1, ScanInvariant, PTL

-----------------------------------------------------------------------------
(* The command line comes to its end *)

Phases == <<"start", "crawl", "probes", "paths", "cors", "redirects", "returned", "raised">>

Steps == <<"scanning", "saved", "reported", "ended">>

Most == MaxUrls + Len(SensitivePaths) + Len(RedirectNames) + 1

Awaited == {i \in DOMAIN pathAnswers : pathAnswers[i] = "awaited"}

LEMMA DistanceIs == Distance = Most * (12 - Position(at, Phases) - Position(step, Steps)) + Left
BY DEF Distance, Most, Phases, Steps

LEMMA PositionIs ==
    ASSUME NEW sequence, NEW i \in DOMAIN sequence,
           \A j \in DOMAIN sequence : sequence[j] = sequence[i] => j = i
    PROVE  Position(sequence[i], sequence) = i
<1>1. \E j \in DOMAIN sequence : sequence[j] = sequence[i]
  OBVIOUS
<1>2. /\ Position(sequence[i], sequence) \in DOMAIN sequence
      /\ sequence[Position(sequence[i], sequence)] = sequence[i]
  BY <1>1 DEF Position
<1> QED
  BY <1>2

LEMMA PhasePositions ==
    /\ Position("start", Phases) = 1 /\ Position("crawl", Phases) = 2
    /\ Position("probes", Phases) = 3 /\ Position("paths", Phases) = 4
    /\ Position("cors", Phases) = 5 /\ Position("redirects", Phases) = 6
    /\ Position("returned", Phases) = 7 /\ Position("raised", Phases) = 8
<1>1. /\ DOMAIN Phases = 1 .. 8
      /\ Phases[1] = "start" /\ Phases[2] = "crawl" /\ Phases[3] = "probes" /\ Phases[4] = "paths"
      /\ Phases[5] = "cors" /\ Phases[6] = "redirects" /\ Phases[7] = "returned" /\ Phases[8] = "raised"
  BY DEF Phases
<1>2. \A i, j \in DOMAIN Phases : Phases[j] = Phases[i] => j = i
  BY <1>1
<1>3. \A i \in DOMAIN Phases : Position(Phases[i], Phases) = i
  BY <1>2, PositionIs
<1>4. \A i \in {1, 2, 3, 4, 5, 6, 7, 8} : Position(Phases[i], Phases) = i
  BY <1>1, <1>3
<1> QED
  BY <1>1, <1>4

LEMMA StepPositions ==
    /\ Position("scanning", Steps) = 1 /\ Position("saved", Steps) = 2
    /\ Position("reported", Steps) = 3 /\ Position("ended", Steps) = 4
<1>1. /\ DOMAIN Steps = 1 .. 4
      /\ Steps[1] = "scanning" /\ Steps[2] = "saved" /\ Steps[3] = "reported" /\ Steps[4] = "ended"
  BY DEF Steps
<1>2. \A i, j \in DOMAIN Steps : Steps[j] = Steps[i] => j = i
  BY <1>1
<1>3. \A i \in DOMAIN Steps : Position(Steps[i], Steps) = i
  BY <1>2, PositionIs
<1>4. \A i \in {1, 2, 3, 4} : Position(Steps[i], Steps) = i
  BY <1>1, <1>3
<1> QED
  BY <1>1, <1>4

LEMMA LeftIs ==
    /\ at = "crawl" => Left = MaxUrls - Cardinality(crawled) + Cardinality(Awaited)
    /\ at = "paths" => Left = Cardinality(Awaited)
    /\ at = "probes" => Left = Len(probeList) - probed
    /\ at = "redirects" => Left = Len(RedirectNames) - probed
    /\ at \notin {"crawl", "paths", "probes", "redirects"} => Left = 0
BY DEF Left, Awaited

LEMMA MostIs ==
    /\ Most \in Nat /\ MaxUrls \in Nat /\ Len(SensitivePaths) \in Nat
    /\ Most = MaxUrls + Len(SensitivePaths) + 9
<1>1. MaxUrls \in Nat /\ Len(SensitivePaths) \in Nat
  BY FullScanAssumption
<1> QED
  BY <1>1, RedirectCount DEF Most

LEMMA AwaitedIsFinite ==
    ASSUME AnswersInv
    PROVE  /\ IsFiniteSet(Awaited) /\ Cardinality(Awaited) \in Nat
           /\ Cardinality(Awaited) <= Len(SensitivePaths)
<1>1. Len(SensitivePaths) \in Nat /\ DOMAIN pathAnswers = 1 .. Len(SensitivePaths)
  BY FullScanAssumption DEF AnswersInv
<1>2. IsFiniteSet(1 .. Len(SensitivePaths)) /\ Cardinality(1 .. Len(SensitivePaths)) = Len(SensitivePaths)
  <2>1. 1 \in Int /\ Len(SensitivePaths) \in Int
    BY <1>1
  <2>2. /\ IsFiniteSet(1 .. Len(SensitivePaths))
        /\ Cardinality(1 .. Len(SensitivePaths)) = IF 1 > Len(SensitivePaths) THEN 0 ELSE Len(SensitivePaths) - 1 + 1
    BY <2>1, FS_Interval
  <2> QED
    BY <1>1, <2>2
<1>3. Awaited \subseteq 1 .. Len(SensitivePaths)
  BY <1>1 DEF Awaited
<1>4. IsFiniteSet(Awaited) /\ Cardinality(Awaited) <= Len(SensitivePaths)
  BY <1>2, <1>3, FS_Subset
<1> QED
  BY <1>4, FS_CardinalityType

\* What is left of a phase is less than a phase is worth.
LEMMA LeftIsLess == ASSUME ScanInv PROVE Left \in Nat /\ Left < Most
<1>1. /\ Most \in Nat /\ MaxUrls \in Nat /\ Len(SensitivePaths) \in Nat
      /\ Most = MaxUrls + Len(SensitivePaths) + 9
  BY MostIs
<1>2. Cardinality(Awaited) \in Nat /\ Cardinality(Awaited) <= Len(SensitivePaths)
  BY AwaitedIsFinite DEF ScanInv
<1>3. IsFiniteSet(crawled) /\ Cardinality(crawled) \in Nat /\ Cardinality(crawled) <= MaxUrls
  <2>1. crawled \subseteq Urls /\ Cardinality(crawled) <= MaxUrls
    BY ReachableGrows DEF ScanInv, PagesInv
  <2>2. IsFiniteSet(crawled)
    BY <2>1, FullScanAssumption, FS_Subset
  <2> QED
    BY <2>1, <2>2, FS_CardinalityType
<1>4. Len(probeList) \in Nat /\ Len(probeList) <= MaxUrls
  <2>1. IsList(probeList) /\ Distinct(probeList) /\ Entries(probeList) \subseteq crawled
    BY DEF ScanInv, PagesInv
  <2>2. Len(probeList) \in Nat /\ Len(probeList) <= Cardinality(crawled)
    BY <1>3, <2>1, DistinctIsShort
  <2> QED
    BY <1>1, <1>3, <2>2
<1>5. /\ probed \in Nat
      /\ at = "probes" => probed <= Len(probeList)
      /\ at = "redirects" => probed <= 8
  BY RedirectCount DEF ScanInv, ProbesInv
<1>6. CASE at = "crawl"
  <2>1. Left = MaxUrls - Cardinality(crawled) + Cardinality(Awaited)
    BY <1>6, LeftIs
  <2> QED
    BY <1>1, <1>2, <1>3, <2>1
<1>7. CASE at = "paths"
  BY <1>1, <1>2, <1>7, LeftIs
<1>8. CASE at = "probes"
  <2>1. Left = Len(probeList) - probed
    BY <1>8, LeftIs
  <2> QED
    BY <1>1, <1>4, <1>5, <1>8, <2>1
<1>9. CASE at = "redirects"
  <2>1. Left = 8 - probed
    BY <1>9, LeftIs, RedirectCount
  <2> QED
    BY <1>1, <1>5, <1>9, <2>1
<1>10. CASE at \notin {"crawl", "paths", "probes", "redirects"}
  BY <1>1, <1>10, LeftIs
<1> QED
  BY <1>6, <1>7, <1>8, <1>9, <1>10

LEMMA PhaseOutweighs ==
    ASSUME NEW m \in Nat, NEW p \in Int, NEW q \in Int, p < q,
           NEW l \in Nat, NEW k \in Nat, k < m
    PROVE  m * (12 - q) + k < m * (12 - p) + l
<1>1. PICK d \in Nat : q = p + 1 + d
  <2>1. q - p - 1 \in Nat /\ q = p + 1 + (q - p - 1)
    OBVIOUS
  <2> QED
    BY <2>1
<1>2. m * (12 - p) = m * (12 - q) + m + m * d
  BY <1>1
<1>3. m * d \in Nat /\ m * (12 - q) \in Int
  OBVIOUS
<1> QED
  BY <1>2, <1>3

LEMMA LeftIsNext ==
    /\ at' = "crawl" => Left' = MaxUrls - Cardinality(crawled') + Cardinality(Awaited')
    /\ at' = "paths" => Left' = Cardinality(Awaited')
    /\ at' = "probes" => Left' = Len(probeList') - probed'
    /\ at' = "redirects" => Left' = Len(RedirectNames) - probed'
    /\ at' \notin {"crawl", "paths", "probes", "redirects"} => Left' = 0
BY DEF Left, Awaited

\* One more answer is one answer less to wait for.
LEMMA AnswerIsNotAwaited ==
    ASSUME ScanInv, NEW i \in DOMAIN SensitivePaths, ProbePath(i) \/ QuickProbePath(i)
    PROVE  /\ Cardinality(Awaited') = Cardinality(Awaited) - 1
           /\ Cardinality(Awaited) \in Nat
<1>1. web.paths[SensitivePaths[i][1]] \in {"exposed", "blocked", "absent"}
  BY SitesAssumption DEF ScanInv
<1>2. pathAnswers[i] = "awaited"
  BY DEF ProbePath, QuickProbePath
<1>3. PICK answer \in {"exposed", "blocked", "absent", "error"} : pathAnswers' = [pathAnswers EXCEPT ![i] = answer]
  <2>1. web.refusal \in {"none", "blocked", "absent"}
    BY SitesAssumption DEF ScanInv
  <2> QED
    BY <1>1, <2>1 DEF ProbePath, QuickProbePath, Refused
<1>4. Awaited' = Awaited \ {i} /\ i \in Awaited
  <2>1. DOMAIN pathAnswers = DOMAIN SensitivePaths
    BY DEF ScanInv, AnswersInv
  <2> QED
    BY <1>2, <1>3, <2>1 DEF Awaited
<1>5. IsFiniteSet(Awaited) /\ Cardinality(Awaited) \in Nat
  BY AwaitedIsFinite DEF ScanInv
<1> QED
  BY <1>4, <1>5, FS_RemoveElement

\* A step of a scanner leads to a later phase, or leaves less of the present one.
LEMMA ScannersAdvance ==
    ASSUME ScanInv, FullScanNext \/ QuickScanNext
    PROVE  \/ Position(at', Phases) > Position(at, Phases)
           \/ at' = at /\ Left' < Left
<1>1. MaxUrls \in Nat /\ DOMAIN RedirectNames = 1 .. 8 /\ Len(RedirectNames) = 8
  BY MostIs, RedirectCount
<1>2. CASE InitialProbe \/ QuickInitialProbe
  <2>1. at = "start" /\ at' \in {"crawl", "paths", "returned", "raised"}
    BY <1>2 DEF InitialProbe, QuickInitialProbe
  <2> QED
    BY <2>1, PhasePositions
<1>3. CASE CollectPaths \/ FinishScan \/ QuickCollectPaths \/ QuickCORS \/ QuickFinish
  <2>1. \/ at = "crawl" /\ at' = "probes"
        \/ at = "probes" /\ at' = "returned"
        \/ at = "paths" /\ at' = "cors"
        \/ at = "cors" /\ at' = "redirects"
        \/ at = "redirects" /\ at' = "returned"
    BY <1>3 DEF CollectPaths, FinishScan, QuickCollectPaths, QuickCORS, QuickFinish
  <2> QED
    BY <2>1, PhasePositions
<1>4. CASE Crawl
  <2>1. /\ at = "crawl" /\ at' = "crawl" /\ pathAnswers' = pathAnswers
    BY <1>4 DEF Crawl
  <2>2. /\ Cardinality(crawled) \in Nat /\ Cardinality(crawled') = Cardinality(crawled) + 1
    BY <1>4, CrawlMoves DEF ScanInv, PageTypes
  <2>3. Awaited' = Awaited
    BY <2>1 DEF Awaited
  <2>4. Cardinality(Awaited) \in Nat
    BY AwaitedIsFinite DEF ScanInv
  <2>5. /\ Left = MaxUrls - Cardinality(crawled) + Cardinality(Awaited)
        /\ Left' = MaxUrls - Cardinality(crawled') + Cardinality(Awaited)
    BY <2>1, <2>3, LeftIs, LeftIsNext
  <2> QED
    BY <1>1, <2>1, <2>2, <2>4, <2>5
<1>5. ASSUME NEW i \in DOMAIN SensitivePaths, ProbePath(i)
      PROVE  at' = at /\ Left' < Left
  <2>1. at = "crawl" /\ at' = "crawl" /\ crawled' = crawled
    BY <1>5 DEF ProbePath
  <2>2. Cardinality(Awaited') = Cardinality(Awaited) - 1 /\ Cardinality(Awaited) \in Nat
    BY <1>5, AnswerIsNotAwaited
  <2>3. Cardinality(crawled) \in Nat
    <3>1. crawled \subseteq Urls
      BY ReachableGrows DEF ScanInv, PagesInv
    <3> QED
      BY <3>1, FullScanAssumption, FS_Subset, FS_CardinalityType
  <2>4. /\ Left = MaxUrls - Cardinality(crawled) + Cardinality(Awaited)
        /\ Left' = MaxUrls - Cardinality(crawled) + Cardinality(Awaited')
    BY <2>1, LeftIs, LeftIsNext
  <2> QED
    BY <1>1, <2>1, <2>2, <2>3, <2>4
<1>6. ASSUME NEW i \in DOMAIN SensitivePaths, QuickProbePath(i)
      PROVE  at' = at /\ Left' < Left
  <2>1. at = "paths" /\ at' = "paths"
    BY <1>6 DEF QuickProbePath
  <2>2. Cardinality(Awaited') = Cardinality(Awaited) - 1 /\ Cardinality(Awaited) \in Nat
    BY <1>6, AnswerIsNotAwaited
  <2>3. Left = Cardinality(Awaited) /\ Left' = Cardinality(Awaited')
    BY <2>1, LeftIs, LeftIsNext
  <2> QED
    BY <2>1, <2>2, <2>3
<1>7. CASE RunAll
  <2>1. at = "probes" /\ at' = "probes" /\ probeList' = probeList /\ probed' = probed + 1
    BY <1>7 DEF RunAll
  <2>2. Len(probeList) \in Nat /\ probed \in Nat
    BY DEF ScanInv, PagesInv, ProbesInv, IsList
  <2>3. Left = Len(probeList) - probed /\ Left' = Len(probeList) - probed'
    BY <2>1, LeftIs, LeftIsNext
  <2> QED
    BY <2>1, <2>2, <2>3
<1>8. CASE QuickRedirect
  <2>1. at = "redirects" /\ at' = "redirects" /\ probed \in Nat /\ probed < 8 /\ probed' \in {8, probed + 1}
    BY <1>1, <1>8 DEF QuickRedirect, ScanInv, ProbesInv
  <2>2. PICK length \in Nat : length = Len(RedirectNames)
    BY <1>1
  <2>3. Left = length - probed /\ Left' = length - probed'
    BY <2>1, <2>2, LeftIs, LeftIsNext
  <2>4. probed' \in Nat /\ probed < probed'
    BY <2>1
  <2>5. length - probed' < length - probed
    <3>1. \A l, m, n \in Nat : m < n => l - n < l - m
      OBVIOUS
    <3> QED
      BY <2>1, <2>2, <2>4, <3>1, Zenon
  <2>6. Left' < Left
    BY <2>3, <2>5, Zenon
  <2> QED
    BY <2>1, <2>6
<1> QED
  BY <1>2, <1>3, <1>4, <1>5, <1>6, <1>7, <1>8 DEF FullScanNext, QuickScanNext

LeftInv == Left \in Nat /\ Left < Most

\* Every step of the command line but a stutter brings it closer to its end, whatever links,
\* fails or answers late (scan_cli.py, full_scanner.py, scanner.py): with TLC's finding that
\* there is a step until the end, it ends.
THEOREM StepsGetCloser == CliSpec => EveryStepGetsCloser
<1>1. ScanInv => LeftInv
  BY LeftIsLess DEF LeftInv
<1>2. ScanInv /\ LeftInv /\ ScanInv' /\ LeftInv' /\ [CliNext]_allVars => [Distance' < Distance]_allVars
  <2> SUFFICES ASSUME ScanInv, LeftInv, ScanInv', LeftInv', CliNext, ~ UNCHANGED allVars
               PROVE  Distance' < Distance
    OBVIOUS
  <2> DEFINE p == Position(at, Phases)
             q == Position(at', Phases)
             s == Position(step, Steps)
             t == Position(step', Steps)
  <2>1. Most \in Nat /\ Left \in Nat /\ Left' \in Nat /\ Left' < Most
    <3>1. Most' = Most
      BY DEF Most
    <3> QED
      BY <3>1, MostIs DEF LeftInv
  <2>2. /\ p \in Int /\ q \in Int /\ s \in Int /\ t \in Int
    <3>1. \A phase \in {"start", "crawl", "probes", "paths", "cors", "redirects", "returned", "raised"} :
             Position(phase, Phases) \in Int
      BY PhasePositions
    <3>2. \A i \in {"scanning", "saved", "reported", "ended"} : Position(i, Steps) \in Int
      BY StepPositions
    <3> QED
      BY <3>1, <3>2 DEF ScanInv, OutcomeInv, StepInv
  <2>3. /\ Distance = Most * (12 - p - s) + Left
        /\ Distance' = Most * (12 - q - t) + Left'
    <3>1. Distance = Most * (12 - p - s) + Left
      BY DistanceIs
    <3>2. Distance' = Most * (12 - q - t) + Left'
      BY DEF Distance, Most, Phases, Steps
    <3> QED
      BY <3>1, <3>2
  <2>4. p + s < q + t \/ (p = q /\ s = t /\ Left' < Left)
    <3>1. CASE RunScanner
      <4>1. t = s /\ (FullScanNext \/ QuickScanNext)
        BY <3>1 DEF RunScanner, cliVars
      <4>2. q > p \/ (p = q /\ Left' < Left)
        BY <4>1, ScannersAdvance
      <4> QED
        BY <2>2, <4>1, <4>2
    <3>2. CASE ScannerRaises \/ SaveResults \/ GenerateReport \/ Summarise
      <4>1. at' = at
        BY <3>2 DEF ScannerRaises, SaveResults, GenerateReport, Summarise, KeepScan
      <4>2. \/ step = "scanning" /\ step' \in {"saved", "ended"}
            \/ step = "saved" /\ step' = "reported"
            \/ step = "reported" /\ step' = "ended"
        BY <3>2 DEF ScannerRaises, SaveResults, GenerateReport, Summarise, Stop
      <4>3. s < t
        BY <4>2, StepPositions
      <4> QED
        BY <2>2, <4>1, <4>3
    <3> QED
      BY <3>1, <3>2 DEF CliNext, Ended
  <2> HIDE DEF p, q, s, t
  <2>5. CASE p + s < q + t
    <3>1. Most * (12 - (q + t)) + Left' < Most * (12 - (p + s)) + Left
      <4>1. p + s \in Int /\ q + t \in Int
        BY <2>2
      <4> QED
        BY <2>1, <2>5, <4>1, PhaseOutweighs
    <3>2. 12 - (q + t) = 12 - q - t /\ 12 - (p + s) = 12 - p - s
      BY <2>2
    <3> QED
      BY <2>3, <3>1, <3>2
  <2>6. CASE p = q /\ s = t /\ Left' < Left
    <3>1. PICK n \in Int : n = Most * (12 - p - s)
      BY <2>1, <2>2
    <3> QED
      BY <2>1, <2>3, <2>6, <3>1
  <2> QED
    BY <2>4, <2>5, <2>6
<1> QED
  BY <1>1, <1>2, ScanInvariant, PTL DEF CliSpec, EveryStepGetsCloser
=============================================================================
